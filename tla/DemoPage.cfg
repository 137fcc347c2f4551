CONSTANTS
  AmountOf <- MCAmountOf
  NoPacket = null
  Flow = {"f1", "f2"}
  Packet = {"p1", "p2"}
  MaxAttempts = 3
SPECIFICATION PageSpec
INVARIANT PageTypeOK
INVARIANT OneSender
INVARIANT ReplayHasPacket
INVARIANT SettledIsTrue
INVARIANT RowsAreOwn
INVARIANT AlarmOnlyAtFirstSight
PROPERTY SendComesBack
