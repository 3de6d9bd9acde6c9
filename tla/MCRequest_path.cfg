\* Every request and every configuration, with headers of one value and of two.
CONSTANTS
  Spelling = {"A", "a", "B", "F"}
  Canonical <- MCCanonical
  NameOrder <- MCNameOrder
  Configuration <- MCConfiguration
  Submission <- MCSubmission
  Lower <- MCLower
  DialHost <- MCDialHost
  Upper <- MCUpper
  Forbidden = {"F"}
  BadBody = {"long"}
  HeaderLimit = 3
  Lookup <- MCLookup
  Private = {"private"}
SPECIFICATION Spec
CHECK_DEADLOCK FALSE
INVARIANTS
  RepetitionRecognised
  DifferenceRecognised
  AcceptanceHolds
  RevocationWins
  WireFaithful
