SPECIFICATION Spec
CONSTANTS
  WordBits = 6
  SmallWord = 10
  LastPair = 10
  LastFour = 11
  Inputs <- MCInputs
INVARIANTS TypeOK FirstPassExact RangeExact
PROPERTIES Advances
