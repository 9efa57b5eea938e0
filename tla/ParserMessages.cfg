SPECIFICATION Spec
CONSTANTS
  Inputs <- Connections
  Types = {"HTTP_BOTH"}
  ULLONG_MAX = 255
  max_header_size = 100
  lenient_http_headers = FALSE
  allow_chunked_length = FALSE
INVARIANTS TypeOK AsSent AllTold
CHECK_DEADLOCK FALSE
