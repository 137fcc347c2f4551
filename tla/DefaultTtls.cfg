CONSTANTS
  NoMsg = "no message"
  PacketId <- MCPacketId
  Handler = {"h1", "h2"}
  Consumer = {"c1", "c2"}
  ConsumerOf <- TwoReplicas
  KeyOf <- MCKeyOf
  WellFormed <- MCWellFormed
  Signed <- MCSigned
  PacketIdOf <- MCPacketIdOf
  CreatedAt <- MCCreatedAt
  AadMatches <- MCAadMatches
  Opens <- MCOpens
  Msg = {"early1", "early2"}
  Key = {"E"}
  FreshnessWindow = 2
  ClockSkewTolerance = 1
  ClaimTTL = 1
  SettledTTL = 2
  Faults = {}
  MaxFaults = 1
  MaxTime = 5
SPECIFICATION Spec
INVARIANT NoDuplicateReachesPostgres
