CONSTANTS
  Payment = {"ten", "zero"}
  ValidPayments = {"ten"}
  Copy = {"a"}
  NoPacket = NoPacket
  MaxGeneration = 2
  MaxMinted = 2
  MaxHops = 2
  MaxStops = 1
  MaxHarm = 1
SPECIFICATION RolloutSpec
INVARIANT RolloutTypeOK
INVARIANT SettledAsMinted
INVARIANT KeyFollowsSignedRegion
INVARIANT RefusedOnlyAcrossKeys
INVARIANT DriftOnlyInterrupted
PROPERTY QueuedIsPaid
