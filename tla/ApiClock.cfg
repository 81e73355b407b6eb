SPECIFICATION ApiSpec
CONSTANTS
  NFofs = 1
  Client = {c1, c2}
  Setter = {c1}
  Reader = {c2}
  Ctrl = ctrl
  FREE = FREE
  EXCESS = EXCESS
  NSlots = 2
  BufferSize = 2
  SampleRate = 3
  Second = 4
  FrameMod = 1024
  Times = {0}
  MaxAdds = 0
  Buffers = {2}
  NDsp = 2
  Clocks = {"frame", "transport"}
  Locates = {0, 12}
  MaxUnwired = 1
  MaxCycle = 4
INVARIANTS NotFarAhead Agrees RoundTrip
