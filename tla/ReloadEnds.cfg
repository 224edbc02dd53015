\* One tab that logs in, reloads and reloads again, and one call; no failure.
CONSTANTS
  Tab = {1}
  Call = {1}
  Owner <- MCOwner
  RefreshToken = {1, 2, 3}
  MaxFaults = 0
  MaxMoves = 3
  MaxLogouts = 1
SPECIFICATION SessionSpec
PROPERTY ReloadKeepsSession
CHECK_DEADLOCK FALSE
