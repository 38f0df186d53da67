---------------------------- MODULE ModulusHash -----------------------------
(* The modulus hash of modulus_hash.h: the key, a number written in segments, *)
(* the lowest one first, modulo the modulus.  The templates recurse from      *)
(* segment 0 up, with a coefficient per segment, and sum up on the way back.  *)
(* Products and sums are of product_t, coefficients and results of modulus_t. *)
(*                                                                            *)
(* A few operators, like LastAtZero, are no part of the model: each is the    *)
(* operator after it with a bug, kept to show which property notices.         *)
EXTENDS Integers, Sequences

CONSTANTS
    NumSegments,    \* num_key_segments
    Base,           \* 2 ^ key_segment_bits
    ModulusLimit,   \* modulus_t holds the numbers below
    ProductLimit,   \* product_t holds the numbers below
    CountLimit      \* unsigned holds the numbers below

\* "The bit width must be at least 1 more than the sum of the bit width needed
\* to hold the modulus value, plus the bit width of one key segment": the one
\* bit may be a sign.
ASSUME HashAssumption ==
    /\ NumSegments \in Nat \ {0}
    /\ Base \in Nat \ {0, 1}
    /\ ModulusLimit \in Nat \ {0, 1}
    /\ ProductLimit \in Nat /\ ProductLimit >= ModulusLimit * Base
    /\ CountLimit \in Nat /\ NumSegments < CountLimit

VARIABLES
    key,        \* segment -> its value
    modulus,
    count,      \* key_seg_count; 0 for a call without it, which never ends early
    fast,       \* whether fast_val(), which reduces nothing, is called
    pc,         \* whether calls are made, have begun to return, or all have
    seg,        \* key_segment of the call at hand
    left,       \* key_seg_count of the call at hand
    coeff,      \* the coefficients of the segments from 0 on, counted from 1
    acc,        \* what the last call returned
    value,      \* history: the number that the segments from seg on write
    overflow    \* history: whether a product or sum did not fit in product_t

input == <<key, modulus, count, fast>>
vars == <<input, pc, seg, left, coeff, acc, value, overflow>>

Segment == 0 .. (NumSegments - 1)

Init ==
    /\ key \in [Segment -> 0 .. (Base - 1)]
    /\ modulus \in 1 .. (ModulusLimit - 1)
    /\ count \in 0 .. (CountLimit - 1)
    /\ fast \in BOOLEAN
    /\ pc = "down" /\ seg = 0 /\ left = count
    /\ coeff = <<1>> /\ acc = 0 /\ value = 0 /\ overflow = FALSE

\* The coefficient of the segment after one with coefficient c: its product,
\* and what modulus_t gets of it, wrapped where product_t wraps.
CoeffProduct(c) == (Base % modulus) * c

NextCoeffTruncated(c) == CoeffProduct(c) % ModulusLimit

NextCoeff(c) == (CoeffProduct(c) % ProductLimit) % modulus

\* What val() and fast_val() return for the sum n.
ReducedNever(n) == n % ProductLimit

Reduced(n) == IF fast THEN n % ProductLimit ELSE (n % ProductLimit) % modulus

\* Whether the call at hand makes no further one: modulus_hash<traits, 0>, or
\* the last segment counted.
LastAtZero == seg = NumSegments - 1 \/ left = 0

Last == seg = NumSegments - 1 \/ left = 1

\* val() and fast_val() call themselves for the next segment.
Deeper ==
    /\ pc = "down" /\ ~Last
    /\ seg' = seg + 1
    /\ left' = (left - 1) % CountLimit
    /\ coeff' = Append(coeff, NextCoeff(coeff[seg + 1]))
    /\ overflow' = (overflow \/ CoeffProduct(coeff[seg + 1]) >= ProductLimit)
    /\ UNCHANGED <<input, pc, acc, value>>

\* The innermost call returns its own product.
Innermost ==
    LET product == key[seg] * coeff[seg + 1]
    IN /\ pc = "down" /\ Last
       /\ pc' = "up"
       /\ acc' = Reduced(product)
       /\ value' = key[seg]
       /\ overflow' = (overflow \/ product >= ProductLimit)
       /\ UNCHANGED <<input, seg, left, coeff>>

\* The call for the segment before adds its product to what was returned.
Add ==
    LET sum == key[seg - 1] * coeff[seg] + acc
    IN /\ pc = "up" /\ seg > 0
       /\ seg' = seg - 1
       /\ acc' = Reduced(sum)
       /\ value' = key[seg - 1] + Base * value
       /\ overflow' = (overflow \/ sum >= ProductLimit)
       /\ UNCHANGED <<input, pc, left, coeff>>

\* modulus_hash() and modulus_hash_fast() return.
Return ==
    /\ pc = "up" /\ seg = 0
    /\ pc' = "done"
    /\ acc' = IF fast THEN acc % modulus ELSE acc
    /\ UNCHANGED <<input, seg, left, coeff, value, overflow>>

Next == Deeper \/ Innermost \/ Add \/ Return

Spec == Init /\ [][Next]_vars

-----------------------------------------------------------------------------
TypeOK ==
    /\ key \in [Segment -> 0 .. (Base - 1)]
    /\ modulus \in 1 .. (ModulusLimit - 1)
    /\ count \in 0 .. (CountLimit - 1)
    /\ fast \in BOOLEAN
    /\ pc \in {"down", "up", "done"}
    /\ seg \in Segment
    /\ left \in 0 .. (CountLimit - 1)
    /\ coeff \in Seq(Nat) /\ Len(coeff) \in 1 .. NumSegments
    /\ acc \in Nat /\ value \in Nat /\ overflow \in BOOLEAN

Hashed == IF count \in 1 .. NumSegments THEN count ELSE NumSegments

(***************************************************************************)
(* The inductive invariant: which call is at hand, what the coefficients   *)
(* are, and that with its coefficient the number written by the segments   *)
(* summed up so far is congruent to the sum.                               *)
(***************************************************************************)
CallInv ==
    /\ seg < Len(coeff)
    /\ pc = "down" =>
          /\ Len(coeff) = seg + 1 /\ seg < Hashed
          /\ left = IF count = 0 /\ seg > 0 THEN CountLimit - seg ELSE count - seg
    /\ pc # "down" => Len(coeff) = Hashed
    /\ pc = "done" => seg = 0

CoeffInv ==
    /\ coeff[1] = 1
    /\ \A i \in 1 .. Len(coeff) : coeff[i] \in 0 .. modulus
    /\ \A i \in 1 .. (Len(coeff) - 1) : coeff[i + 1] = CoeffProduct(coeff[i]) % modulus

SumInv ==
    /\ pc = "up" /\ ~overflow => (coeff[seg + 1] * value) % modulus = acc % modulus
    /\ pc = "up" /\ ~fast => acc < modulus

\* With the documented widths nothing overflows in val(), and no coefficient
\* ever does (modulus_hash.h:60).
NoOverflow == (~fast \/ pc = "down") => ~overflow

\* Where nothing overflows, the hash is the number that these segments write,
\* modulo the modulus, for val() and for fast_val() (modulus_hash.h:32 to 47).
HashRight == (pc = "done" /\ ~overflow) => acc = value % modulus

\* The segments hashed are the first key_seg_count ones, or all of the key's
\* when there are no more than that or the count is 0, though a count of 0 is
\* decremented below zero all the way (modulus_hash.h:167).
RightSegments == pc # "down" => Len(coeff) = Hashed

HashInv == TypeOK /\ CallInv /\ CoeffInv /\ SumInv /\ NoOverflow /\ HashRight
=============================================================================
