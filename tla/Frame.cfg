SPECIFICATION Spec
CONSTANTS
  NFofs = 2
  Client = {c1}
  Ctrl = ctrl
  FREE = FREE
  EXCESS = EXCESS
  NSlots = 2
  BufferSize = 2
  SampleRate = 2
  Second = 3
  FrameMod = 8
  Times = {0, 3, 5, 8, 9, 15}
  MaxAdds = 3
  Buffers = {2}
  NDsp = 2
  Clocks = {"frame"}
  Locates = {}
  MaxUnwired = 0
  MaxCycle = 5
INVARIANTS CtrlTypeOK Partition OnTime OneTurn BanksInStep DeliveredOnce AcceptedInWindow LateIsNear
PROPERTIES CalendarSpec
