SPECIFICATION Spec
CONSTANTS
  a = a  b = b  c = c  d = d
  Nobody = Nobody
  Thread = {a, b, c}
  Lockers = {a, b, c}
  TryLockers = {a, b, c}
  Sharers = {a, b, c}
  TrySharers = {a, b, c}
SYMMETRY ThreadSymmetry
INVARIANTS
  MutexInv
  MutualExclusion
  BlockedReaderSeesWant
  NotifyExclusive
  NoStaleFlag
PROPERTIES
  MutexStateMachine
  ImplementsSharedMutex
  ImplementsThreadDataSet
