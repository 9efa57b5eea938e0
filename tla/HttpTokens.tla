---------------------------- MODULE HttpTokens ----------------------------
(***************************************************************************)
(* The characters http_parser.c tells apart, and its tables and pure       *)
(* functions over them.  A symbol stands for a character, or for a run of  *)
(* characters that no table splits: a header name or a value the parser    *)
(* recognises is two or three symbols long, so that a call can still end   *)
(* inside of it.                                                           *)
(***************************************************************************)
EXTENDS Naturals, Sequences

Eol == {"CR", "LF"}
Digits == {"0", "1", "2", "9"}
Num == [d \in Digits |-> CASE d = "0" -> 0 [] d = "1" -> 1 [] d = "2" -> 2 [] d = "9" -> 9]

\* IS_NUM, and the table unhex: -1 is "no digit" here.
IsNum(ch) == ch \in Digits
IsHex(ch) == ch \in Digits \cup {"a", "b"}
unhex(ch) == IF IsNum(ch) THEN Num[ch] ELSE IF ch = "a" THEN 10 ELSE 11

NameParts == {"con", "nec", "tion", "tent-", "length", "proxy-", "connection",
              "transfer-", "encoding", "up", "grade"}
ValueParts == {"chun", "ked", "keep-", "alive", "clo", "se", "up", "grade"}
MethodParts == {"G", "ET", "H", "EAD", "C", "ONNECT", "SO", "URCE"}
Letters == {"a", "b", "x"} \cup NameParts \cup ValueParts \cup MethodParts

IsAlpha(ch) == ch \in Letters
IsToken(ch) == IsAlpha(ch) \/ IsNum(ch) \/ ch \in {"#", "%", "*", "-", "."}
\* IS_HEADER_CHAR: all but control characters; "nul" is the one here.
IsHeaderChar(ch) == ch # "nul"
IsUserinfoChar(ch) == IsAlpha(ch) \/ IsNum(ch) \/ ch \in {"*", "-", ".", "%", ":", ";", ","}
IsHostChar(ch) == IsAlpha(ch) \/ IsNum(ch) \/ ch \in {"-", "."}
\* normal_url_char: every visible character but '#' and '?'.
IsUrlChar(ch) == ch \notin {"sp", "tab", "CR", "LF", "nul", "#", "?"}

---------------------------------------------------------------------------
(* parse_url_char: the state after one more character of a URL. *)
UrlSpace == {"sp", "tab", "CR", "LF"}

parse_url_char(s, ch) ==
  IF ch \in UrlSpace THEN "s_dead"
  ELSE
  CASE s = "s_req_spaces_before_url" /\ ch \in {"/", "*"} -> "s_req_path"
    [] s \in {"s_req_spaces_before_url", "s_req_schema"} /\ IsAlpha(ch) -> "s_req_schema"
    [] s = "s_req_schema" /\ ch = ":" -> "s_req_schema_slash"
    [] s = "s_req_schema_slash" /\ ch = "/" -> "s_req_schema_slash_slash"
    [] s = "s_req_schema_slash_slash" /\ ch = "/" -> "s_req_server_start"
    [] s \in {"s_req_server_start", "s_req_server", "s_req_server_with_at"} ->
         (CASE ch = "/" -> "s_req_path"
            [] ch = "?" -> "s_req_query_string_start"
            [] ch = "@" -> IF s = "s_req_server_with_at" THEN "s_dead" ELSE "s_req_server_with_at"
            [] IsUserinfoChar(ch) \/ ch \in {"[", "]"} -> "s_req_server"
            [] OTHER -> "s_dead")
    [] s = "s_req_path" /\ IsUrlChar(ch) -> "s_req_path"
    [] s = "s_req_path" /\ ch = "?" -> "s_req_query_string_start"
    [] s \in {"s_req_query_string_start", "s_req_query_string"} /\ (IsUrlChar(ch) \/ ch = "?")
         -> "s_req_query_string"
    [] s \in {"s_req_path", "s_req_query_string_start", "s_req_query_string"} /\ ch = "#"
         -> "s_req_fragment_start"
    [] s = "s_req_fragment_start" /\ (IsUrlChar(ch) \/ ch = "?") -> "s_req_fragment"
    [] s = "s_req_fragment_start" /\ ch = "#" -> "s_req_fragment_start"
    [] s = "s_req_fragment" /\ ch # "nul" -> "s_req_fragment"
    [] OTHER -> "s_dead"

---------------------------------------------------------------------------
(* The request methods: the first letter picks a candidate, what follows   *)
(* confirms it (s_start_req, s_req_method).                                *)
MethodRest == [m \in {"G", "H", "C", "SO"} |->
  CASE m = "G" -> "ET" [] m = "H" -> "EAD" [] m = "C" -> "ONNECT" [] m = "SO" -> "URCE"]
MethodName == [m \in DOMAIN MethodRest |->
  CASE m = "G" -> "GET" [] m = "H" -> "HEAD" [] m = "C" -> "CONNECT" [] m = "SO" -> "SOURCE"]

Versions == {"0.9", "1.0", "1.1"}
Codes == {"101", "200", "204", "304"}

---------------------------------------------------------------------------
(* s_header_field_start and s_header_field: header_state after one more    *)
(* part of a header's name.  What is not in a table ends in h_general.     *)
NameStart(ch) ==
  CASE ch = "con" -> "h_CON"
    [] ch = "proxy-" -> "h_matching_proxy_connection"
    [] ch = "transfer-" -> "h_matching_transfer_encoding"
    [] ch = "up" -> "h_matching_upgrade"
    [] OTHER -> "h_general"

NameStep(h, ch) ==
  CASE h = "h_CON" /\ ch = "nec" -> "h_matching_connection"
    [] h = "h_CON" /\ ch = "tent-" -> "h_matching_content_length"
    [] h = "h_matching_connection" /\ ch = "tion" -> "h_connection"
    [] h = "h_matching_proxy_connection" /\ ch = "connection" -> "h_connection"
    [] h = "h_matching_content_length" /\ ch = "length" -> "h_content_length"
    [] h = "h_matching_transfer_encoding" /\ ch = "encoding" -> "h_transfer_encoding"
    [] h = "h_matching_upgrade" /\ ch = "grade" -> "h_upgrade"
    [] OTHER -> "h_general"

---------------------------------------------------------------------------
(* s_header_value_start and s_header_value for Connection and for          *)
(* Transfer-Encoding: header_state after one more part of a value.         *)
ConnectionStart(ch) ==
  CASE ch = "keep-" -> "h_matching_connection_keep_alive"
    [] ch = "clo" -> "h_matching_connection_close"
    [] ch = "up" -> "h_matching_connection_upgrade"
    [] OTHER -> "h_matching_connection_token"

ConnectionMatch(h, ch) ==
  CASE h = "h_matching_connection_keep_alive" /\ ch = "alive" -> "h_connection_keep_alive"
    [] h = "h_matching_connection_close" /\ ch = "se" -> "h_connection_close"
    [] h = "h_matching_connection_upgrade" /\ ch = "grade" -> "h_connection_upgrade"
    [] OTHER -> "h_matching_connection_token"

\* What a header says once its value is complete (lines 1679-1685, 1731-1746).
FlagOf(h) ==
  CASE h = "h_connection_keep_alive" -> {"F_CONNECTION_KEEP_ALIVE"}
    [] h = "h_connection_close" -> {"F_CONNECTION_CLOSE"}
    [] h = "h_connection_upgrade" -> {"F_CONNECTION_UPGRADE"}
    [] h = "h_transfer_encoding_chunked" -> {"F_CHUNKED"}
    [] OTHER -> {}

ConnectionSaid == {"h_connection_keep_alive", "h_connection_close", "h_connection_upgrade"}

\* After a comma c is LOWER(ch), which turns a tab into ')': a space is skipped,
\* a tab ends the recognition of what follows.
TransferStep(h, ch) ==
  CASE h = "h_matching_transfer_encoding_token_start" ->
         (CASE ch = "chun" -> "h_matching_transfer_encoding_chunked"
            [] ch # "chun" /\ IsToken(ch) -> "h_matching_transfer_encoding_token"
            [] ch = "sp" -> h
            [] OTHER -> "h_general")
    [] h = "h_matching_transfer_encoding_chunked" ->
         IF ch = "ked" THEN "h_transfer_encoding_chunked" ELSE "h_matching_transfer_encoding_token"
    [] h = "h_matching_transfer_encoding_token" ->
         IF ch = "," THEN "h_matching_transfer_encoding_token_start" ELSE h
    [] h = "h_transfer_encoding_chunked" ->
         IF ch = "sp" THEN h ELSE "h_matching_transfer_encoding_token"

ConnectionStep(h, ch) ==
  CASE h = "h_matching_connection_token_start" ->
         (CASE ch \in {"keep-", "clo", "up"} \/ IsToken(ch) -> ConnectionStart(ch)
            [] ch = "sp" -> h
            [] OTHER -> "h_general")
    [] h \in {"h_matching_connection_keep_alive", "h_matching_connection_close",
              "h_matching_connection_upgrade"} -> ConnectionMatch(h, ch)
    [] h = "h_matching_connection_token" ->
         IF ch = "," THEN "h_matching_connection_token_start" ELSE h
    [] h \in ConnectionSaid ->
         (CASE ch = "," -> "h_matching_connection_token_start"
            [] ch = "sp" -> h
            [] OTHER -> "h_matching_connection_token")
===========================================================================
