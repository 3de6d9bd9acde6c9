\* One header in two spellings.
CONSTANTS
  Spelling = {"A", "a", "B", "F"}
  Canonical <- MCCanonical
  NameOrder <- MCNameOrder
  Configuration <- MCOne
  Submission <- MCTwice
  Lower <- MCLower
  DialHost <- MCDialHost
  Upper <- MCUpper
  Forbidden = {"F"}
  BadBody = {"long"}
  HeaderLimit = 3
  Lookup <- MCLookup
  Private = {"private"}
SPECIFICATION Spec
CHECK_DEADLOCK FALSE
INVARIANTS
  OneRequestOneDigest
