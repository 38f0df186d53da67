SPECIFICATION Spec
CONSTANTS
  a = a  b = b  c = c  d = d
  Nobody = Nobody
  Thread = {a, b, c}
  Lockers = {a, b}
  TryLockers = {}
  Sharers = {c}
  TrySharers = {}
INVARIANTS
  NoSilentStall
