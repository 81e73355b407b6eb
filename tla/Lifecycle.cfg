SPECIFICATION Spec
CONSTANTS
  NDsp = 2
  Client = {c1, c2}
  MaxStarts = 2
  MaxCalls = 1
  XrunLimit = 2
INVARIANTS CallbackSafe NothingLeft AllInPlace RefCount
