SPECIFICATION Spec
CONSTANTS
  CJSON_NESTING_LIMIT = 2
  NumberSize = 8
  INT_MAX = 24
  UINT16 = 64
  MaxPort = 21
INVARIANTS
  TextsParsedRight
  ItemsReadBack
  PrintedInBuffer
  PatchesTransform
  UrlFieldsRight
CHECK_DEADLOCK FALSE
