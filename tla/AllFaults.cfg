CONSTANTS
  NoMsg = "no message"
  PacketId <- MCPacketId
  Handler = {"h1", "h2"}
  Consumer = {"c1", "c2"}
  ConsumerOf <- TwoReplicas
  KeyOf <- MCKeyOf
  WellFormed <- MCWellFormed
  Signed <- MCSigned
  PacketIdOf <- MCPacketIdOf
  CreatedAt <- MCCreatedAt
  AadMatches <- MCAadMatches
  Opens <- MCOpens
  Msg = {"copy1", "copy2"}
  Key = {"K"}
  FreshnessWindow = 2
  ClockSkewTolerance = 1
  ClaimTTL = 1
  SettledTTL = 2
  Faults = {"postgres", "redis", "crash", "connection", "eviction", "slow", "unexpected"}
  MaxFaults = 2
  MaxTime = 2
SPECIFICATION FairSpec
INVARIANT TypeOK
INVARIANT ExactlyOnce
INVARIANT SettledNeverOverstated
INVARIANT SettledMarkerSound
INVARIANT AckedSettledHasRow
INVARIANT OneLiveDelivery
PROPERTY ImplementsLedger
PROPERTY QueueDrains
