CONSTANTS
  CHAR_BIT = 2
  SHORT_BIT = 4
  INT_BIT = 8
  LLONG_BIT = 16
  PRINTF_NTOA_BUFFER_SIZE = 8
  PRINTF_FTOA_BUFFER_SIZE = 10
  PRINTF_DEFAULT_FLOAT_PRECISION = 6
  MaxPrecision = 6
  PRINTF_MAX_FLOAT = 1000
  Fraction = 8
  Charset <- SomeChars
  Calls <- SomeCalls
  Top = 3
  Byte <- SomeBytes
  Size <- SomeSizes
SPECIFICATION FairSpec
INVARIANTS
  Conforms
  StaysInBuffers
  MovesAtOnce
  ComparesInOrder
PROPERTIES
  CallsEnd
