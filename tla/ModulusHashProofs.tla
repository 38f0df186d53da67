------------------------- MODULE ModulusHashProofs --------------------------
(* Proofs about ModulusHash: which segments are hashed, that nothing          *)
(* overflows, and that the hash is the number modulo the modulus.             *)
EXTENDS ModulusHash, TLAPS

\* A product grows with each factor.
LEMMA ProductMonotone ==
    ASSUME NEW a \in Nat, NEW b \in Nat, NEW c \in Nat, a <= b
    PROVE  /\ a * c <= b * c /\ a * c \in Nat /\ b * c \in Nat
           /\ c * a = a * c /\ c * b = b * c
<1> DEFINE d == b - a
<1>1. d \in Nat /\ b = a + d
  OBVIOUS
<1>2. b * c = a * c + d * c
  BY <1>1
<1>3. d * c \in Nat /\ a * c \in Nat
  BY <1>1
<1> QED
  BY <1>2, <1>3

\* No multiple of m but 0 lies between -m and m.
LEMMA NoSmallMultiple ==
    ASSUME NEW k \in Int, NEW m \in Nat, m > 0, -m < k * m, k * m < m
    PROVE  k = 0
<1>1. ASSUME k >= 1 PROVE FALSE
  <2>1. k - 1 \in Nat /\ (k - 1) * m \in Nat
    BY <1>1
  <2>2. k * m = (k - 1) * m + m
    OBVIOUS
  <2> QED
    BY <2>1, <2>2
<1>2. ASSUME k <= -1 PROVE FALSE
  <2>1. -1 - k \in Nat /\ (-1 - k) * m \in Nat
    BY <1>2
  <2>2. k * m = -((-1 - k) * m) - m
    OBVIOUS
  <2> QED
    BY <2>1, <2>2
<1> QED
  BY <1>1, <1>2

\* A remainder, and its quotient.
LEMMA Remainder ==
    ASSUME NEW a \in Nat, NEW m \in Nat, m > 0
    PROVE  /\ a % m \in 0 .. (m - 1)
           /\ \E q \in Int : a = (a % m) + q * m
<1>1. a % m \in 0 .. (m - 1)
  OBVIOUS
<1>2. a = (a % m) + (a \div m) * m /\ a \div m \in Int
  OBVIOUS
<1> QED
  BY <1>1, <1>2

\* Numbers that differ by a multiple of m have the same remainder.
LEMMA SameRemainder ==
    ASSUME NEW m \in Nat, m > 0
    PROVE  \A a, b \in Nat, q \in Int : a = b + q * m => a % m = b % m
<1> SUFFICES ASSUME NEW a \in Nat, NEW b \in Nat, NEW q \in Int, a = b + q * m
             PROVE  a % m = b % m
  OBVIOUS
<1>1. PICK x \in Int : a = (a % m) + x * m
  BY Remainder
<1>2. PICK y \in Int : b = (b % m) + y * m
  BY Remainder
<1>3. a % m \in 0 .. (m - 1) /\ b % m \in 0 .. (m - 1)
  BY Remainder
<1> DEFINE k == y + q - x
<1>4. k \in Int /\ k * m = y * m + q * m - x * m
  OBVIOUS
<1>5. k * m = (a % m) - (b % m)
  BY <1>1, <1>2, <1>3, <1>4
<1>6. k = 0
  BY <1>3, <1>4, <1>5, NoSmallMultiple
<1> QED
  BY <1>3, <1>5, <1>6

\* The remainder of a number that is small enough, and the wrap below zero.
LEMMA SmallRemainder ==
    ASSUME NEW m \in Nat, m > 0
    PROVE  /\ \A a \in 0 .. (m - 1) : a % m = a
           /\ (-1) % m = m - 1
<1>1. ASSUME NEW a \in 0 .. (m - 1) PROVE a % m = a
  BY <1>1
<1>2. (-1) % m = m - 1
  <2> DEFINE r == (-1) % m
             q == (-1) \div m
  <2>1. r \in 0 .. (m - 1) /\ q \in Int /\ -1 = r + m * q
    OBVIOUS
  <2> HIDE DEF r, q
  <2>2. (q + 1) * m = m * q + m /\ q + 1 \in Int
    BY <2>1
  <2>3. q + 1 = 0
    BY <2>1, <2>2, NoSmallMultiple
  <2>4. q = -1
    BY <2>1, <2>3
  <2>5. r = m - 1
    BY <2>1, <2>4
  <2> QED
    BY <2>5 DEF r
<1> QED
  BY <1>1, <1>2

\* What the assumption says without products.
LEMMA LinearAssumption ==
    /\ NumSegments \in Nat \ {0} /\ Base \in Nat \ {0, 1}
    /\ ModulusLimit \in Nat \ {0, 1} /\ ProductLimit \in Nat \ {0}
    /\ CountLimit \in Nat /\ NumSegments < CountLimit
<1>1. ModulusLimit * Base >= 1 * Base /\ ModulusLimit * Base \in Nat
  BY HashAssumption, ProductMonotone
<1> QED
  BY <1>1, HashAssumption

\* Two factors within their bounds, and a remainder, stay below product_t's.
LEMMA SumFits ==
    ASSUME NEW m \in 1 .. (ModulusLimit - 1), NEW c \in 0 .. m,
           NEW s \in 0 .. (Base - 1), NEW r \in 0 .. (m - 1)
    PROVE  s * c + r \in 0 .. (ProductLimit - 1)
<1>1. s * c <= (Base - 1) * c /\ s * c \in Nat
  BY HashAssumption, ProductMonotone
<1>2. (Base - 1) * c <= (Base - 1) * m
  BY HashAssumption, ProductMonotone
<1>3. (Base - 1) * m = Base * m - m
  BY HashAssumption
<1>4. Base * m <= ModulusLimit * Base /\ Base * m \in Nat
  BY HashAssumption, ProductMonotone
<1>5. (Base - 1) * c \in Nat /\ (Base - 1) * m \in Nat /\ ModulusLimit * Base \in Nat
  BY HashAssumption
<1> QED
  BY <1>1, <1>2, <1>3, <1>4, <1>5, HashAssumption

\* The product that becomes the next coefficient fits the type it is computed in.
LEMMA CoefficientFits ==
    ASSUME NEW m \in 1 .. (ModulusLimit - 1), NEW c \in 0 .. m
    PROVE  (Base % m) * c \in 0 .. (ProductLimit - 1)
<1>1. Base % m \in 0 .. (m - 1) /\ Base % m <= Base
  BY HashAssumption
<1>2. (Base % m) * c <= Base * c /\ (Base % m) * c \in Nat
  BY <1>1, HashAssumption, ProductMonotone
<1>3. Base * c <= Base * m /\ Base * c \in Nat /\ Base * m \in Nat
  BY HashAssumption, ProductMonotone
<1>4. Base * m <= Base * (ModulusLimit - 1)
  BY HashAssumption, ProductMonotone
<1>5. Base * (ModulusLimit - 1) = ModulusLimit * Base - Base
  BY HashAssumption
<1>6. ModulusLimit * Base \in Nat
  BY HashAssumption
<1> QED
  BY <1>2, <1>3, <1>4, <1>5, <1>6, HashAssumption

\* At first there is one call, and the first coefficient.
LEMMA InitHolds == Init => HashInv
<1> SUFFICES ASSUME Init PROVE HashInv
  OBVIOUS
<1>1. TypeOK
  <2>1. coeff \in Seq(Nat) /\ Len(coeff) = 1
    BY DEF Init
  <2>2. 0 \in Segment /\ 1 \in 1 .. NumSegments
    BY LinearAssumption DEF Segment
  <2>3. seg \in Segment /\ left \in 0 .. (CountLimit - 1) /\ acc \in Nat /\ value \in Nat
    BY <2>2 DEF Init
  <2> QED
    BY <2>1, <2>2, <2>3 DEF Init, TypeOK
<1>2. CallInv
  BY LinearAssumption DEF Init, CallInv, Hashed
<1>3. CoeffInv
  BY LinearAssumption DEF Init, CoeffInv
<1> QED
  BY <1>1, <1>2, <1>3 DEF Init, HashInv, SumInv, NoOverflow, HashRight

\* The segment count of the next call.
LEMMA DeeperCount ==
    ASSUME TypeOK, CallInv, Deeper
    PROVE  /\ seg + 1 < Hashed /\ left' \in 0 .. (CountLimit - 1)
           /\ left' = IF count = 0 THEN CountLimit - seg' ELSE count - seg'
<1> USE LinearAssumption
<1>1. /\ seg \in 0 .. (NumSegments - 2) /\ left \in 0 .. (CountLimit - 1) /\ left # 1
      /\ count \in 0 .. (CountLimit - 1) /\ seg < Hashed
      /\ left = IF count = 0 /\ seg > 0 THEN CountLimit - seg ELSE count - seg
  BY DEF TypeOK, CallInv, Deeper, Last, Segment
<1>2. /\ left > 0 => left' = left - 1
      /\ left = 0 => left' = CountLimit - 1
  BY <1>1, SmallRemainder DEF Deeper
<1>3. seg' = seg + 1
  BY DEF Deeper
<1>4. seg + 1 < Hashed
  BY <1>1 DEF Hashed
<1> QED
  BY <1>1, <1>2, <1>3, <1>4 DEF Hashed

\* The next coefficient, whose product fits.
LEMMA DeeperCoeff ==
    ASSUME TypeOK, CallInv, CoeffInv, Deeper
    PROVE  /\ CoeffInv'
           /\ coeff' \in Seq(Nat) /\ Len(coeff') = Len(coeff) + 1
           /\ CoeffProduct(coeff[seg + 1]) < ProductLimit
<1> DEFINE c == coeff[seg + 1]
           n == NextCoeff(c)
<1>1. Len(coeff) = seg + 1 /\ seg \in Nat /\ c \in 0 .. modulus /\ coeff \in Seq(Nat)
      /\ modulus \in 1 .. (ModulusLimit - 1) /\ modulus' = modulus
  BY DEF Deeper, CallInv, CoeffInv, TypeOK, Segment, input
<1>2. CoeffProduct(c) \in 0 .. (ProductLimit - 1)
  BY <1>1, CoefficientFits DEF CoeffProduct
<1>3. n = CoeffProduct(c) % modulus
  <2>1. \A a \in 0 .. (ProductLimit - 1) : a % ProductLimit = a
    BY LinearAssumption, SmallRemainder
  <2>2. CoeffProduct(c) % ProductLimit = CoeffProduct(c)
    BY <1>2, <2>1, Zenon
  <2> QED
    BY <2>2 DEF NextCoeff
<1>4. n \in 0 .. (modulus - 1) /\ n \in 0 .. modulus /\ n \in Nat
  BY <1>1, <1>2, <1>3, LinearAssumption, Remainder
<1>5. coeff' = Append(coeff, n)
  BY DEF Deeper
<1> HIDE DEF n
<1>6. /\ coeff' \in Seq(Nat) /\ Len(coeff') = Len(coeff) + 1
      /\ coeff'[Len(coeff) + 1] = n
      /\ \A i \in 1 .. Len(coeff) : coeff'[i] = coeff[i]
  BY <1>1, <1>4, <1>5
<1>7. coeff'[1] = 1
  BY <1>1, <1>6 DEF CoeffInv
<1>8. ASSUME NEW i \in 1 .. Len(coeff') PROVE coeff'[i] \in 0 .. modulus
  <2>1. CASE i \in 1 .. Len(coeff)
    BY <2>1, <1>6 DEF CoeffInv
  <2>2. CASE i = Len(coeff) + 1
    BY <2>2, <1>4, <1>6
  <2> QED
    BY <1>1, <1>6, <2>1, <2>2
<1>9. ASSUME NEW i \in 1 .. (Len(coeff') - 1)
      PROVE  coeff'[i + 1] = CoeffProduct(coeff'[i]) % modulus
  <2>1. CASE i \in 1 .. (Len(coeff) - 1)
    <3>1. coeff'[i] = coeff[i] /\ coeff'[i + 1] = coeff[i + 1]
      BY <2>1, <1>1, <1>6
    <3> QED
      BY <2>1, <3>1 DEF CoeffInv
  <2>2. CASE i = Len(coeff)
    BY <2>2, <1>1, <1>3, <1>6
  <2> QED
    BY <1>1, <1>6, <2>1, <2>2
<1>10. CoeffInv'
  BY <1>1, <1>7, <1>8, <1>9 DEF CoeffInv, CoeffProduct
<1> QED
  BY <1>2, <1>6, <1>10, LinearAssumption

\* A call for the next segment.
LEMMA DeeperKeeps ==
    ASSUME HashInv, Deeper
    PROVE  HashInv'
<1> USE DEF HashInv
<1>1. /\ seg' = seg + 1 /\ pc = "down" /\ pc' = "down" /\ UNCHANGED <<input, acc, value>>
      /\ Len(coeff) = seg + 1 /\ seg \in 0 .. (NumSegments - 1)
  BY DEF Deeper, CallInv, TypeOK, Segment
<1>2. CallInv'
  BY <1>1, DeeperCount, DeeperCoeff DEF CallInv, Hashed, input
<1>3. TypeOK'
  <2>1. seg' \in Segment /\ Len(coeff') \in 1 .. NumSegments
    <3>1. seg + 1 < Hashed /\ Hashed <= NumSegments /\ Hashed \in Nat
      BY <1>1, DeeperCount, LinearAssumption DEF Hashed, TypeOK
    <3>2. Len(coeff') = seg + 2
      BY <1>1, DeeperCoeff
    <3> QED
      BY <1>1, <3>1, <3>2, LinearAssumption DEF Segment
  <2>2. overflow' \in BOOLEAN
    BY DEF Deeper, TypeOK
  <2> QED
    BY <1>1, <2>1, <2>2, DeeperCount, DeeperCoeff DEF TypeOK, input
<1>4. NoOverflow'
  <2>1. ~overflow
    BY <1>1 DEF NoOverflow
  <2>2. ~(CoeffProduct(coeff[seg + 1]) >= ProductLimit)
    <3>1. CoeffProduct(coeff[seg + 1]) \in Int
      BY <1>1, LinearAssumption DEF CoeffProduct, TypeOK
    <3> QED
      BY <3>1, DeeperCoeff, LinearAssumption
  <2> QED
    BY <2>1, <2>2 DEF Deeper, NoOverflow
<1> QED
  BY <1>1, <1>2, <1>3, <1>4, DeeperCoeff DEF SumInv, HashRight

\* What is returned of a sum.
LEMMA ReducedSum ==
    ASSUME TypeOK, NEW n \in Nat
    PROVE  /\ Reduced(n) \in Nat
           /\ ~fast => Reduced(n) \in 0 .. (modulus - 1)
           /\ n < ProductLimit => Reduced(n) % modulus = n % modulus
<1> DEFINE w == n % ProductLimit
<1>1. modulus \in Nat /\ modulus > 0
  BY LinearAssumption DEF TypeOK
<1>2. w \in Nat /\ (n < ProductLimit => w = n)
  BY LinearAssumption, SmallRemainder, Remainder
<1>3. w % modulus \in 0 .. (modulus - 1)
  BY <1>1, <1>2, Remainder
<1>4. (w % modulus) % modulus = w % modulus
  BY <1>1, <1>3, SmallRemainder
<1> QED
  BY <1>1, <1>2, <1>3, <1>4 DEF Reduced

\* The innermost call's product.
LEMMA InnermostKeeps ==
    ASSUME HashInv, Innermost
    PROVE  HashInv'
<1> USE DEF HashInv
<1> DEFINE c == coeff[seg + 1]
           n == key[seg] * c
<1>1. /\ seg \in 0 .. (NumSegments - 1) /\ Len(coeff) = seg + 1 /\ seg < Hashed
      /\ c \in 0 .. modulus /\ modulus \in 1 .. (ModulusLimit - 1) /\ modulus \in Nat
      /\ key[seg] \in 0 .. (Base - 1) /\ key[seg] \in Nat /\ c \in Nat /\ pc = "down"
  <2> pc = "down"
    BY DEF Innermost
  <2>0. Len(coeff) = seg + 1 /\ seg < Hashed
    BY DEF CallInv
  <2>1. /\ seg \in 0 .. (NumSegments - 1) /\ Len(coeff) = seg + 1 /\ seg < Hashed
        /\ modulus \in 1 .. (ModulusLimit - 1) /\ modulus \in Nat
    BY <2>0, LinearAssumption DEF TypeOK, Segment
  <2>2. c \in 0 .. modulus /\ c \in Nat
    BY <2>1 DEF CoeffInv
  <2>3. key[seg] \in 0 .. (Base - 1) /\ key[seg] \in Nat
    BY <2>1, LinearAssumption DEF TypeOK, Segment
  <2> QED
    BY <2>1, <2>2, <2>3
<1>2. n + 0 \in 0 .. (ProductLimit - 1) /\ n \in Nat
  <2>1. 0 \in 0 .. (modulus - 1)
    BY <1>1
  <2>2. key[seg] * c + 0 \in 0 .. (ProductLimit - 1)
    BY <1>1, <2>1, SumFits
  <2>3. n \in Nat
    BY <1>1, ProductMonotone
  <2> QED
    BY <2>2, <2>3
<1>3. /\ Reduced(n) \in Nat
      /\ ~fast => Reduced(n) \in 0 .. (modulus - 1)
      /\ Reduced(n) % modulus = n % modulus
  BY <1>2, ReducedSum, LinearAssumption
<1>4. /\ pc' = "up" /\ acc' = Reduced(n) /\ value' = key[seg] /\ overflow' = overflow
      /\ UNCHANGED <<input, seg, left, coeff>>
  BY <1>2, LinearAssumption DEF Innermost, TypeOK
<1>5. TypeOK'
  <2>1. acc' \in Nat /\ value' \in Nat /\ pc' \in {"down", "up", "done"}
    BY <1>1, <1>3, <1>4
  <2> QED
    BY <1>4, <2>1 DEF TypeOK, input
<1>6. CallInv'
  <2>1. Len(coeff) = Hashed
    BY <1>1, LinearAssumption DEF Innermost, Last, CallInv, Hashed, TypeOK
  <2> QED
    BY <2>1, <1>1, <1>4 DEF CallInv, Hashed, input
<1>7. CoeffInv'
  BY <1>4 DEF CoeffInv, CoeffProduct, input
<1>8. SumInv'
  <2>1. n = c * key[seg]
    BY <1>1
  <2>2. coeff'[seg' + 1] * value' = n /\ acc' = Reduced(n)
    BY <2>1, <1>4
  <2>3. modulus' = modulus /\ fast' = fast
    BY <1>4 DEF input
  <2>4. ~fast => Reduced(n) < modulus
    BY <1>1, <1>3
  <2> HIDE DEF n
  <2> QED
    BY <2>2, <2>3, <2>4, <1>3 DEF SumInv
<1> QED
  BY <1>1, <1>4, <1>5, <1>6, <1>7, <1>8 DEF NoOverflow, HashRight

\* The congruence of number and sum, one segment further.
LEMMA SumCongruent ==
    ASSUME TypeOK, CoeffInv, seg > 0, seg < Len(coeff),
           (coeff[seg + 1] * value) % modulus = acc % modulus
    PROVE  (coeff[seg] * (key[seg - 1] + Base * value)) % modulus
              = (key[seg - 1] * coeff[seg] + acc) % modulus
<1> DEFINE m == modulus
           b == Base
           c == coeff[seg]
           d == coeff[seg + 1]
           s == key[seg - 1]
           v == value
           r == acc
<1>0. /\ m \in Nat /\ m > 0 /\ b \in Nat /\ c \in Nat /\ d \in Nat /\ s \in Nat
      /\ v \in Nat /\ r \in Nat /\ (d * v) % m = r % m /\ d = ((b % m) * c) % m
  <2>1. seg - 1 \in Segment /\ seg \in 1 .. (Len(coeff) - 1) /\ seg + 1 \in 1 .. Len(coeff)
    BY LinearAssumption DEF TypeOK, Segment
  <2>2. c \in Nat /\ d \in Nat /\ m \in Nat /\ m > 0
    <3>1. m \in Nat /\ m > 0
      BY LinearAssumption DEF TypeOK
    <3>2. seg \in 1 .. Len(coeff)
      BY <2>1
    <3>3. c \in 0 .. m /\ d \in 0 .. m
      BY <2>1, <3>2 DEF CoeffInv
    <3> QED
      BY <3>1, <3>3
  <2>3. s \in Nat /\ b \in Nat
    BY <2>1, LinearAssumption DEF TypeOK
  <2>4. d = CoeffProduct(c) % m
    BY <2>1 DEF CoeffInv
  <2> QED
    BY <2>2, <2>3, <2>4 DEF TypeOK, CoeffProduct
<1> HIDE DEF m, b, c, d, s, v, r
<1> DEFINE a == b % m
           g == (d * v) % m
<1>1. PICK x \in Int : b = a + x * m
  BY <1>0, Remainder
<1>2. a \in Nat /\ a * c \in Nat
  BY <1>0, Remainder
<1>3. PICK y \in Int : a * c = d + y * m
  BY <1>0, <1>2, Remainder
<1>4. d * v \in Nat
  BY <1>0
<1>5. PICK z \in Int : d * v = g + z * m
  BY <1>0, <1>4, Remainder
<1>6. PICK w \in Int : r = g + w * m
  <2>1. \E w \in Int : r = (r % m) + w * m
    BY <1>0, Remainder
  <2> QED
    BY <1>0, <2>1
<1>7. a \in Nat /\ g \in Nat
  BY <1>0, <1>2, <1>4, Remainder
<1> HIDE DEF a, g
<1> DEFINE k == (x * c + y) * v + z - w
<1>8. c * (s + b * v) = s * c + (b * c) * v
  BY <1>0
<1>9. b * c = d + (x * c + y) * m
  <2>1. b * c = a * c + (x * c) * m
    BY <1>0, <1>1, <1>7
  <2> QED
    BY <1>0, <1>2, <1>3, <2>1
<1>10. (b * c) * v = d * v + ((x * c + y) * v) * m
  BY <1>0, <1>9
<1>11. (b * c) * v = r + k * m /\ k \in Int
  BY <1>0, <1>5, <1>6, <1>7, <1>10
<1>12. c * (s + b * v) = (s * c + r) + k * m
  BY <1>0, <1>8, <1>11
<1>13. c * (s + b * v) \in Nat /\ s * c + r \in Nat
  BY <1>0
<1> DEFINE whole == c * (s + b * v)
           sum == s * c + r
<1>14. whole \in Nat /\ sum \in Nat /\ whole = sum + k * m /\ k \in Int
  BY <1>11, <1>12, <1>13
<1> HIDE DEF k, whole, sum
<1>15. m \in Nat /\ m > 0
  BY <1>0
<1>16. whole % m = sum % m
  BY <1>14, <1>15, SameRemainder, Zenon
<1> QED
  BY <1>16 DEF whole, sum, m, b, c, s, v, r

\* A segment more in the sum.
LEMMA AddKeeps ==
    ASSUME HashInv, Add
    PROVE  HashInv'
<1> USE DEF HashInv
<1> DEFINE c == coeff[seg]
           d == coeff[seg + 1]
           s == key[seg - 1]
           n == s * c + acc
<1>1. /\ seg \in 1 .. (NumSegments - 1) /\ seg < Len(coeff) /\ pc = "up"
      /\ c \in 0 .. modulus /\ d \in 0 .. modulus /\ modulus \in 1 .. (ModulusLimit - 1)
      /\ s \in 0 .. (Base - 1) /\ acc \in Nat /\ value \in Nat
  <2>1. seg \in 1 .. (NumSegments - 1) /\ seg < Len(coeff) /\ pc = "up"
    BY LinearAssumption DEF Add, CallInv, TypeOK, Segment
  <2>2. seg \in 1 .. Len(coeff) /\ seg + 1 \in 1 .. Len(coeff) /\ seg - 1 \in Segment
    BY <2>1, LinearAssumption DEF TypeOK, Segment
  <2> QED
    BY <2>1, <2>2 DEF CoeffInv, TypeOK
<1>2. /\ c \in Nat /\ d \in Nat /\ s \in Nat /\ modulus \in Nat /\ modulus > 0
      /\ Base \in Nat /\ s * c \in Nat /\ n \in Nat
  <2>1. c \in Nat /\ d \in Nat /\ s \in Nat /\ modulus \in Nat /\ modulus > 0 /\ Base \in Nat
    BY <1>1, LinearAssumption
  <2>2. s * c \in Nat
    BY <2>1, ProductMonotone
  <2>3. n \in Nat
    <3>1. \A p \in Nat : p + acc \in Nat
      BY <1>1
    <3> QED
      BY <2>2, <3>1
  <2> QED
    BY <2>1, <2>2, <2>3
<1>3. ~fast => n \in 0 .. (ProductLimit - 1)
  <2>1. ~fast => acc \in 0 .. (modulus - 1)
    BY <1>1, <1>2 DEF SumInv
  <2> QED
    BY <1>1, <2>1, SumFits
<1>4. /\ Reduced(n) \in Nat
      /\ ~fast => Reduced(n) \in 0 .. (modulus - 1)
      /\ n < ProductLimit => Reduced(n) % modulus = n % modulus
  BY <1>2, ReducedSum
<1>5. /\ pc' = "up" /\ seg' = seg - 1 /\ acc' = Reduced(n)
      /\ value' = s + Base * value /\ UNCHANGED <<input, left, coeff>>
      /\ overflow' = (overflow \/ n >= ProductLimit)
  BY <1>1 DEF Add
<1>6. TypeOK'
  <2>1. acc' \in Nat /\ pc' \in {"down", "up", "done"} /\ seg' \in Segment
    BY <1>1, <1>4, <1>5, LinearAssumption DEF Segment
  <2>2. value' \in Nat
    <3>1. Base * value \in Nat
      BY <1>1, <1>2, ProductMonotone
    <3> QED
      BY <3>1, <1>2, <1>5
  <2>3. overflow' \in BOOLEAN
    BY <1>5 DEF TypeOK
  <2> QED
    BY <1>5, <2>1, <2>2, <2>3 DEF TypeOK, input
<1>7. CallInv'
  BY <1>1, <1>5 DEF CallInv, Hashed, input, TypeOK
<1>8. CoeffInv'
  BY <1>5 DEF CoeffInv, CoeffProduct, input
<1>9. SumInv'
  <2>1. ~fast => Reduced(n) < modulus
    BY <1>2, <1>4
  <2>2. ASSUME ~overflow' PROVE (c * (s + Base * value)) % modulus = Reduced(n) % modulus
    <3>1. ~overflow /\ n < ProductLimit
      <4>1. ~overflow /\ ~(n >= ProductLimit)
        BY <2>2, <1>5
      <4> QED
        BY <4>1, <1>2, LinearAssumption
    <3>2. (d * value) % modulus = acc % modulus
      BY <3>1, <1>1 DEF SumInv
    <3>3. (c * (s + Base * value)) % modulus = (s * c + acc) % modulus
      BY <3>2, <1>1, SumCongruent
    <3> QED
      BY <3>1, <3>3, <1>4
  <2>3. coeff'[seg' + 1] * value' = c * (s + Base * value)
    <3>1. seg' + 1 = seg
      BY <1>1, <1>5
    <3> QED
      BY <3>1, <1>5
  <2>4. modulus' = modulus /\ fast' = fast /\ acc' = Reduced(n) /\ pc' = "up"
    BY <1>5 DEF input
  <2> QED
    BY <2>1, <2>2, <2>3, <2>4 DEF SumInv
<1>10. NoOverflow'
  <2>1. fast' = fast
    BY <1>5 DEF input
  <2>2. ~fast => ~(n >= ProductLimit)
    BY <1>3, LinearAssumption
  <2> QED
    BY <2>1, <2>2, <1>1, <1>5 DEF NoOverflow
<1> QED
  BY <1>5, <1>6, <1>7, <1>8, <1>9, <1>10 DEF HashRight

\* The outermost call has the coefficient 1, so the sum is the hash.
LEMMA ReturnKeeps ==
    ASSUME HashInv, Return
    PROVE  HashInv'
<1> USE DEF HashInv
<1>1. /\ pc = "up" /\ seg = 0 /\ pc' = "done"
      /\ acc' = IF fast THEN acc % modulus ELSE acc
      /\ UNCHANGED <<input, seg, left, coeff, value, overflow>>
  BY DEF Return
<1>2. modulus \in Nat /\ modulus > 0 /\ acc \in Nat /\ value \in Nat /\ coeff[1] * value = value
  BY LinearAssumption DEF TypeOK, CoeffInv
<1>3. acc % modulus \in 0 .. (modulus - 1) /\ acc' \in Nat
  BY <1>1, <1>2, Remainder
<1>4. TypeOK'
  BY <1>1, <1>3 DEF TypeOK, input
<1>5. CallInv'
  BY <1>1 DEF CallInv, Hashed, input
<1>6. CoeffInv' /\ NoOverflow'
  BY <1>1 DEF CoeffInv, CoeffProduct, NoOverflow, input
<1>7. HashRight'
  <2>1. ~overflow => value % modulus = acc % modulus
    BY <1>1, <1>2 DEF SumInv
  <2>2. ~fast => acc \in 0 .. (modulus - 1)
    BY <1>1, <1>2 DEF SumInv
  <2>3. ~fast => acc % modulus = acc
    BY <1>2, <2>2, SmallRemainder
  <2> QED
    BY <1>1, <2>1, <2>3 DEF HashRight, input
<1> QED
  BY <1>1, <1>4, <1>5, <1>6, <1>7 DEF SumInv

-----------------------------------------------------------------------------
\* The inductive invariant holds for keys of any number of segments and for
\* any modulus and widths.
THEOREM InvariantHolds == Spec => []HashInv
<1>1. HashInv /\ [Next]_vars => HashInv'
  <2> SUFFICES ASSUME HashInv, [Next]_vars PROVE HashInv'
    OBVIOUS
  <2>1. CASE UNCHANGED vars
    BY <2>1 DEF vars, input, HashInv, TypeOK, CallInv, CoeffInv, SumInv, NoOverflow,
                HashRight, Hashed, CoeffProduct
  <2>2. CASE Next
    BY <2>2, DeeperKeeps, InnermostKeeps, AddKeeps, ReturnKeeps DEF Next
  <2> QED
    BY <2>1, <2>2
<1> QED
  BY <1>1, InitHolds, PTL DEF Spec

\* Where nothing overflows, modulus_hash() and modulus_hash_fast() return the
\* number that the segments hashed write, modulo the modulus.
THEOREM HashRightHolds == Spec => []HashRight
<1>1. HashInv => HashRight
  BY DEF HashInv
<1> QED
  BY <1>1, InvariantHolds, PTL

\* With the documented widths nothing overflows in modulus_hash().
THEOREM NoOverflowHolds == Spec => []NoOverflow
<1>1. HashInv => NoOverflow
  BY DEF HashInv
<1> QED
  BY <1>1, InvariantHolds, PTL

\* As many segments are hashed as the caller asks for, or all.
THEOREM RightSegmentsHolds == Spec => []RightSegments
<1>1. HashInv => RightSegments
  BY DEF HashInv, CallInv, RightSegments
<1> QED
  BY <1>1, InvariantHolds, PTL
=============================================================================
