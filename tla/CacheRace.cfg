SPECIFICATION Spec
CONSTANTS
  NFofs = 2
  Client = {c1, c2}
  Ctrl = ctrl
  FREE = FREE
  EXCESS = EXCESS
  NSlots = 2
  BufferSize = 2
  SampleRate = 2
  Second = 3
  FrameMod = 1024
  Times = {0, 2, 3, 5, 6, 8}
  MaxAdds = 1
  Buffers = {2}
  NDsp = 2
  Clocks = {"frame"}
  Locates = {}
  MaxUnwired = 0
  MaxCycle = 5
INVARIANTS OnTime
