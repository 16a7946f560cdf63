CONSTANTS
  w1 = w1
  w2 = w2
  w3 = w3
  w4 = w4
  Writers = {w1, w2, w3, w4}
  OpOf <- MCOpOf
  Granted = {"read"}
  NoShare = NoShare
  Nobody = Nobody
  Setup = Setup
SPECIFICATION FairSpec
INVARIANTS
  TypeOK
  OneShareCreatedOnce
PROPERTIES
  ImplementsAssign
  EveryWriteEnds
