CONSTANTS
  NoMsg = "no message"
  PacketId <- MCPacketId
  Handler = {"h1", "h2"}
  Consumer = {"c1", "c2"}
  ConsumerOf <- TwoReplicas
  KeyOf <- MCKeyOf
  WellFormed <- MCWellFormed
  Signed <- MCSigned
  PacketIdOf <- MCPacketIdOf
  CreatedAt <- MCCreatedAt
  AadMatches <- MCAadMatches
  Opens <- MCOpens
  Msg = {"sealed1", "sealed2", "spoofed", "ahead"}
  Key = {"E", "ahead", "sealed"}
  FreshnessWindow = 2
  ClockSkewTolerance = 1
  ClaimTTL = 1
  SettledTTL = 2
  Faults = {"redis", "crash", "connection"}
  MaxFaults = 1
  MaxTime = 1
SPECIFICATION Spec
INVARIANT EvidencePerRefusal
INVARIANT SettlesOnlyPayable
INVARIANT OnlyGenuineOccupy
