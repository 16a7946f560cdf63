CONSTANTS
  ka = ka
  ke = ke
  kn = kn
  other = other
  Workers = {w1}
  Usernames <- PlainNames
  Passwords <- MCPasswords
  Keys = {ka, ke, kn, other}
  OtherKeys = {other}
  Titles <- MCTitles
  Descriptions = {}
  None = None
  Absent = None
  NotJson = NotJson
  Mistyped = Mistyped
  Blank <- MCBlank
  TooLong = TooLong
  Varchar255 <- MCVarchar255
  Lifetime = 1
  MaxTime = 1
  MaxId <- MCMaxId
  MaxI32 = 4
  Numeral <- NumeralOf
  Unprintable = {}
  AsSegments <- InPlace
  InitialDatabase <- MCInitialDatabase
  Requests <- MCRequests
  RawRequests <- MCRawRequests
SPECIFICATION GatewaySpec
INVARIANTS
  GatewayTypeOK
  ChallengesAdvise
  PathsNameTheirRow
  MeIsTheCaller
  LocationNamesWhatWasMade
PROPERTIES
  AccountsCanLogIn
  ImplementsApi
