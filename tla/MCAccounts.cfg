CONSTANTS
  Workers = {w1, w2}
  Usernames <- MCUsernames
  Passwords = {"p", "q"}
  Keys = {"k1", "k2", "other"}
  OtherKeys = {"other"}
  Titles = {}
  Descriptions = {}
  None = None
  Blank = Blank
  TooLong = TooLong
  Varchar255 <- MCVarchar255
  Lifetime = 1
  MaxTime = 2
  MaxId <- MCMaxId
  InitialDatabase <- MCInitialDatabase
  Requests <- MCRequests
SPECIFICATION AuditSpec
SYMMETRY WorkerSymmetry
INVARIANTS
  TypeOK
  Integrity
  GrantsJustified
  RefusalsJustified
  ConfirmedWritesHold
PROPERTIES
  NothingIsTakenAway
