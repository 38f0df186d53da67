SPECIFICATION FairSpec
CONSTANTS
  a = a  b = b  c = c  d = d
  Nobody = Nobody
  Thread = {a, b, c}
  Lockers = {a}
  TryLockers = {a}
  Sharers = {b, c}
  TrySharers = {c}
INVARIANTS
  NoSilentStall
PROPERTIES
  SeekerServed
  CallsReturn
