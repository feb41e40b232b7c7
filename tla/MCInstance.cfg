SPECIFICATION Spec
CONSTANTS
  Objects = {o1, o2}
  Cells = {1, 2, 3, 4, 5}
  Schema <- MCSchema
  Defaults = 1
  Contents = {1, 2}
  Empty = 1
  Bad <- MCBad
  Refused <- MCRefused
VIEW MCView
SYMMETRY MCSymmetry
INVARIANT TypeOK
PROPERTIES OneReading FieldByField
