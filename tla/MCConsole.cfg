CONSTANTS
  Alert = {"a1", "a2", "a3"}
  None = None
  Task = {1, 2}
  Hits <- MCHits
  Stores <- MCStores
  Age <- MCAge
  PageLimit = 2
  MaxAsks = 1
  MaxClicks = 4
  Listing <- MCListing
  Query = {"", "scan"}
  Matches <- MCMatches
  ItemsPerPage = 2
  MaxPage = 1
  NoNode = "no node"
SPECIFICATION ConsoleSpec
INVARIANTS
  ConsoleTypeOK
  ContainedIsEarned
  DetailsBelongToSelection
  QuietIsCurrent
  SpinnersAreHonest
  AllClearIsKnown
  PagesShowEverything
CHECK_DEADLOCK FALSE
