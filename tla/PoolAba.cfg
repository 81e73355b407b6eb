SPECIFICATION PoolSpec
CONSTANTS
  NFofs = 3
  Client = {c1, c2}
  Ctrl = ctrl
  FREE = FREE
INVARIANTS AllFreeAtRest
