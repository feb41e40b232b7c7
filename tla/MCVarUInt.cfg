CONSTANTS
  GroupBase = 4
  MaxCount = 3
  LastGroup = 1
  Weight <- MCWeight
  Args <- MCArgs
  Around <- MCAround
  Foreign <- MCForeign
SPECIFICATION FairSpec
INVARIANTS TypeOK RoundTrip RangeExact Canonical SizeBound RefusalExact
PROPERTY Terminates
CHECK_DEADLOCK FALSE
