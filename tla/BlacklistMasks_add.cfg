SPECIFICATION Spec
CONSTANTS
  Width = 4
  MaxMasks = 2
INVARIANTS
  ExpandedExactly
  SearchesAgree
