CONSTANTS
  Workers = {w1, w2}
  Usernames = {"alice", "bob", "carol"}
  Passwords = {"p"}
  Keys = {"ka", "kb"}
  OtherKeys = {}
  Titles = {"t", "u"}
  Descriptions = {"d"}
  None = None
  Blank = Blank
  TooLong = TooLong
  Varchar255 <- MCVarchar255
  Lifetime = 1
  MaxTime = 0
  MaxId <- MCMaxId
  InitialDatabase <- MCInitialDatabase
  Requests <- RevocationRequests
SPECIFICATION AuditSpec
SYMMETRY WorkerSymmetry
PROPERTY
  RevokedKeyWritesNothing
