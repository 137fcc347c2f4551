CONSTANTS
  NoMsg = "no message"
  PacketId <- MCPacketId
  Handler = {"h1", "h2"}
  Consumer = {"c1", "c2"}
  ConsumerOf <- TwoReplicas
  KeyOf <- MCKeyOf
  WellFormed <- MCWellFormed
  Signed <- MCSigned
  PacketIdOf <- MCPacketIdOf
  CreatedAt <- MCCreatedAt
  AadMatches <- MCAadMatches
  Opens <- MCOpens
  Msg = {"early1", "early2"}
  Key = {"E"}
  FreshnessWindow = 1
  ClockSkewTolerance = 1
  ClaimTTL = 1
  SettledTTL = 3
  Faults = {"postgres", "crash", "connection"}
  MaxFaults = 3
  MaxTime = 3
SPECIFICATION Spec
INVARIANT ClaimExclusive
INVARIANT SettledWhileFresh
INVARIANT NoDuplicateReachesPostgres
INVARIANT SettledCountedOnce
PROPERTY SettledMarkerKept
