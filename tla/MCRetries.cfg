CONSTANTS
  put = put
  unshare = unshare
  patch = patch
  revoke = revoke
  add = add
  join1 = join1
  join2 = join2
  Clients = {put, unshare, patch, revoke, add, join1, join2}
  Goal <- MCGoal
  Patiences <- MCPatiences
  Workers = {w1, w2}
  Usernames = {"alice", "bob", "zed"}
  Passwords = {"p", "q"}
  Keys = {"ka", "kb"}
  OtherKeys = {}
  Titles = {"t", "u"}
  Descriptions = {}
  None = None
  Blank = Blank
  TooLong = TooLong
  Varchar255 <- MCVarchar255
  Lifetime = 1
  MaxTime = 0
  MaxId <- MCMaxId
  InitialDatabase <- MCInitialDatabase
  Requests <- MCRequests
SPECIFICATION RetrySpec
SYMMETRY WorkerSymmetry
CHECK_DEADLOCK FALSE
INVARIANTS
  RetriesAreNotRefused
  LateCopiesChangeNothing
  NoTaskWithoutAnAttempt
  RegistrationsAreSettled
