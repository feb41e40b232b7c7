CONSTANTS
  P = P
  Q = Q
  R = R
  S = S
  ProtoModel = ProtoModel
  t1 = t1
  t2 = t2
  int = int
  str = str
  tag = tag
  std = std
  wide = wide
  narrow = narrow
  bare = bare
  own1 = own1
  own2 = own2
  shared = shared
  custom = custom
  fixed = fixed
  Invalid = Invalid
  Builtin = Builtin
  NoRule = NoRule
  Default = std
  Classes <- MCClasses
  Types <- MCTypes
  Headers <- MCHeaders
  Constructors <- MCConstructors
  FlagBits <- MCFlagBits
  Infos <- MCInfos
  Codecs <- MCCodecs
  BaseTable <- MCBaseTable
  Threads = {t1, t2}
  Programs <- MCPrograms
SPECIFICATION Spec
INVARIANTS TypeOK SchemaOrder FlagsFit AutomaticOrder OwnTableAlone RulesOfOverlapping
INVARIANTS OwnSpecAgreed HeaderAgreed
PROPERTY DeclaredFrozen
CHECK_DEADLOCK FALSE
