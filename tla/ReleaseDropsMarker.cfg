CONSTANTS
  NoMsg = "no message"
  PacketId <- MCPacketId
  Handler = {"h1", "h2"}
  Consumer = {"c1", "c2"}
  ConsumerOf <- TwoReplicas
  KeyOf <- MCKeyOf
  WellFormed <- MCWellFormed
  Signed <- MCSigned
  PacketIdOf <- MCPacketIdOf
  CreatedAt <- MCCreatedAt
  AadMatches <- MCAadMatches
  Opens <- MCOpens
  Msg = {"copy1", "copy2"}
  Key = {"K"}
  FreshnessWindow = 3
  ClockSkewTolerance = 1
  ClaimTTL = 1
  SettledTTL = 3
  Faults = {"postgres", "slow"}
  MaxFaults = 1
  MaxTime = 2
SPECIFICATION Spec
PROPERTY SettledMarkerKept
