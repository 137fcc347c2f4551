CONSTANTS
  Msg <- Payments
  NoMsg = "no message"
  Key = {"K"}
  PacketId = {"K"}
  KeyOf <- OneKey
  WellFormed <- Payments
  Signed <- Payments
  PacketIdOf <- OneId
  CreatedAt <- MadeNow
  AadMatches = {"K"}
  Opens <- OpensWell
  Handler = {"h1", "h2"}
  Consumer = {"c1", "c2"}
  ConsumerOf <- TwoReplicas
  FreshnessWindow = 1
  ClockSkewTolerance = 1
  ClaimTTL = 1
  SettledTTL = 2
  Faults = {"postgres", "eviction", "slow", "unexpected"}
  MaxFaults = 1
  MaxTime = 2
  Submission <- Payments
  InitialHops <- NoHops
  Verifies <- Payments
  HopCountTarget <- OneHop
  HopLimit = 2
  MeshFaults = {"timeout"}
  MaxMeshFaults = 1
  MaxFailures = 1
SPECIFICATION JourneySpec
INVARIANT NoPaymentLost
INVARIANT AcceptedNotForgotten
PROPERTY AcceptedIsPaid
