CONSTANTS
  Tab = {1, 2}
  Call = {1, 2}
  Owner <- MCOwner
  RefreshToken = {1, 2, 3, 4}
  MaxFaults = 1
  MaxMoves = 3
  MaxLogouts = 1
SPECIFICATION SessionSpec
INVARIANTS
  SessionTypeOK
  WaitersHaveARefresh
  CookieIsLive
  SignOutSticks
PROPERTIES
  EndedForACause
  CallsSettle
CHECK_DEADLOCK FALSE
