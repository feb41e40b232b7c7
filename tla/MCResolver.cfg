SPECIFICATION FairSpec
CONSTANTS
  Annotations <- MCAnnotations
  Rules <- MCRules
  PrefixLengths = {"1", "2", "4", "8", "VarUInt"}
  DefaultPrefix = "4"
  Encodings = {"utf-8", "ascii"}
  DefaultEncoding = "utf-8"
  IntegerFormats <- MCIntegerFormats
  FloatFormats = {32, 64}
  Programs <- MCPrograms
INVARIANTS TypeOK OwnSettings LeaksConfined GivenWins
PROPERTY Terminates
CHECK_DEADLOCK FALSE
