SPECIFICATION FairSpec
CONSTANTS
  NFofs = 2
  Client = {c1}
  Ctrl = ctrl
  FREE = FREE
  EXCESS = EXCESS
  NSlots = 2
  BufferSize = 2
  SampleRate = 2
  Second = 3
  FrameMod = 1024
  Times = {2, 3, 6}
  MaxAdds = 2
  Buffers = {1, 2}
  NDsp = 4
  Clocks = {"frame"}
  Locates = {}
  MaxUnwired = 0
  MaxCycle = 5
INVARIANTS OneTurn AcceptedInWindow BanksInStep
PROPERTIES AddReturns
