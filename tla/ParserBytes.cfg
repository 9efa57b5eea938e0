SPECIFICATION Spec
CONSTANTS
  Inputs <- Raw
  Types = {"HTTP_BOTH", "HTTP_REQUEST", "HTTP_RESPONSE"}
  ULLONG_MAX = 255
  max_header_size = 18
  lenient_http_headers = TRUE
  allow_chunked_length = TRUE
INVARIANTS AssertionsHold HeadersBounded
PROPERTIES ImplementsEvents CallMovesOn
CHECK_DEADLOCK FALSE
