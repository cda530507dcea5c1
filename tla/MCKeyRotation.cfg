SPECIFICATION FairSpec
CONSTANTS
  MaxKeys = 7
  MaxDisturbances = 2
INVARIANTS
  SettledKeysAgree
PROPERTIES
  KeysComeTogether
