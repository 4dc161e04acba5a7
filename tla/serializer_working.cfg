SPECIFICATION Spec
CONSTANTS
  ArrayLength = 2
  Thread = {t1}
  Host = {"LT_ENDIAN", "BG_ENDIAN"}
  Value <- AllTypes
  Capacities = {3, 1024}
  MaxSize = 12
INVARIANTS
  TypeOK
  DataFits
  SizesAreExact
  OffsetIsExact
  ReadsBack
  ThrowsPastTheEnd
