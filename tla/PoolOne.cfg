SPECIFICATION StatFairSpec
CONSTANTS
  NFofs = 4
  Client = {c1}
  Ctrl = ctrl
  FREE = FREE
INVARIANTS PoolTypeOK FreeListIntegrity NoSharing PoolInv PeakUsed
PROPERTIES OwnershipSpec ClientReturns
