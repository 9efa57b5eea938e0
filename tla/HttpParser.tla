---------------------------- MODULE HttpParser ----------------------------
(***************************************************************************)
(* http_parser_execute (http_parser.c), called with the bytes of a         *)
(* connection cut anywhere, by an application whose callbacks may pause    *)
(* the parser or fail.  parser is struct http_parser, call the locals of a *)
(* call in progress, p the next byte; one action is one case of the        *)
(* switch, with the callback it makes.                                     *)
(*                                                                         *)
(* Strings the parser matches character by character are two or three      *)
(* symbols (HttpTokens), so parser->index is the symbol reached.  A symbol *)
(* counts as one byte of the header limit.                                 *)
(***************************************************************************)
EXTENDS HttpMessages, Integers

CONSTANTS
  Inputs,             \* what comes over a connection: [msgs, bytes, stops]
  Types,              \* arguments of http_parser_init
  ULLONG_MAX,         \* scaled down; also "no Content-Length"
  max_header_size,
  lenient_http_headers, allow_chunked_length

ASSUME WidthAssumption == ULLONG_MAX \in Nat /\ ULLONG_MAX >= 16
ASSUME InputAssumption == \A i \in Inputs : i.bytes \in Seq(STRING) /\ i.stops \in Nat
ASSUME OptionAssumption == /\ Types \subseteq {"HTTP_REQUEST", "HTTP_RESPONSE", "HTTP_BOTH"}
                           /\ max_header_size \in Nat

VARIABLES
  input,    \* the connection: the messages sent, their bytes, and the bound
            \* on pauses and failures of callbacks
  parser, call, p,
  told,     \* callbacks made, data of adjacent ones joined
  stops,    \* pauses and failures so far
  eof,      \* the call with length zero has been made
  first     \* where the message being parsed begins

vars == <<input, parser, call, p, told, stops, eof, first>>

StartState(type) == CASE type = "HTTP_REQUEST" -> "s_start_req"
                      [] type = "HTTP_RESPONSE" -> "s_start_res"
                      [] OTHER -> "s_start_req_or_res"

http_parser_init(type) ==
  [type |-> type, state |-> StartState(type), header_state |-> "h_general", flags |-> {},
   uses_transfer_encoding |-> FALSE, content_length |-> 0, nread |-> 0, http_errno |-> "OK",
   version |-> "0.9", status_code |-> "0", method |-> "DELETE", upgrade |-> FALSE]

Marks == {"header_field", "header_value", "url", "body", "status"}
NoMark == [m \in Marks |-> 0]
Idle == [on |-> FALSE, end |-> 0, nread |-> 0, fresh |-> FALSE, mark |-> NoMark]

Init ==
  /\ input \in Inputs
  /\ \E type \in Types : parser = http_parser_init(type)
  /\ call = Idle /\ p = 1 /\ told = <<>> /\ stops = 0 /\ eof = FALSE /\ first = 1

---------------------------------------------------------------------------
(* Steps of a call.  The code copies parser->state to p_state and writes   *)
(* it back before every callback and return: here it is one variable.  A   *)
(* byte is fresh until the top of the loop has seen it (line 712).         *)
ch == input.bytes[p]
Has(f) == f \in parser.flags
At(states) == call.on /\ ~call.fresh /\ call.nread <= max_header_size /\ parser.state \in states

In(pr, s) == [pr EXCEPT !.state = s]
NextByte == [call EXCEPT !.fresh = TRUE]
Marked(c, m) == [c EXCEPT !.mark[m] = IF @ = 0 THEN p ELSE @]
Unmarked(c, m) == [c EXCEPT !.mark[m] = 0]

Go(pr, c, q) == parser' = pr /\ call' = c /\ p' = q /\ UNCHANGED <<told, stops, first>>
Break(pr, s) == Go(In(pr, s), NextByte, p + 1)
Reexecute(pr, s) == Go(In(pr, s), call, p)

\* SET_ERRNO and RETURN.
Error(e) == /\ parser' = [parser EXCEPT !.http_errno = e, !.nread = call.nread]
            /\ call' = Idle
            /\ UNCHANGED <<p, told, stops, first>>

Join(t, e) == IF t # <<>> /\ t[Len(t)].on = e.on
              THEN [t EXCEPT ![Len(t)].data = @ \o e.data]
              ELSE Append(t, e)

\* fault: the state is stored after the callback.
CallbackLate(e, pr, c, q) ==
  /\ told' = Join(told, e) /\ p' = q
  /\ \/ parser' = pr /\ call' = c /\ UNCHANGED stops
     \/ /\ stops < input.stops /\ stops' = stops + 1 /\ call' = Idle
        /\ parser' = [parser EXCEPT !.http_errno = "PAUSED"]

\* CALLBACK_NOTIFY and CALLBACK_DATA: go on as c at byte q, or get out there.
\* A failure stores the count of header bytes, a pause restores the old one.
Callback(e, pr, c, q) ==
  /\ told' = Join(told, e)
  /\ p' = q
  /\ \/ parser' = pr /\ call' = c /\ UNCHANGED stops
     \/ /\ stops < input.stops /\ stops' = stops + 1 /\ call' = Idle
        /\ \/ parser' = [pr EXCEPT !.http_errno = "PAUSED"]
           \/ parser' = [pr EXCEPT !.http_errno = "CB", !.nread = c.nread]

NotifyAgain(kind, pr, s) == Callback(Say(kind), In(pr, s), call, p) /\ UNCHANGED first

\* fault: the mark is kept after its data have been told.
DataKeepsMark(kind, pr, s) ==
  /\ Callback(Tell(kind, SubSeq(input.bytes, call.mark[kind], p - 1)), In(pr, s), NextByte, p + 1)
  /\ UNCHANGED first

Data(kind, pr, s) ==
  /\ Callback(Tell(kind, SubSeq(input.bytes, call.mark[kind], p - 1)),
              In(pr, s), Unmarked(NextByte, kind), p + 1)
  /\ UNCHANGED first

\* The loop: count a byte while headers are parsed, and stop at the limit.
BodyStates == {"s_chunk_data", "s_chunk_data_almost_done", "s_chunk_data_done",
               "s_body_identity", "s_body_identity_eof", "s_message_done"}
\* fault: the white space before a value is not counted.
ParsingHeaderText(s) == s \notin BodyStates \cup {"s_header_value_discard_ws", "s_header_field_start"}

ParsingHeader(s) == s \notin BodyStates

TakeByte ==
  /\ call.on /\ call.fresh /\ p <= call.end /\ call.nread <= max_header_size
  /\ call' = [call EXCEPT !.fresh = FALSE,
                          !.nread = IF ParsingHeader(parser.state) THEN @ + 1 ELSE @]
  /\ UNCHANGED <<parser, p, told, stops, first>>

Overflow == call.on /\ call.nread > max_header_size /\ Error("HEADER_OVERFLOW")

\* The bytes have run out: callbacks for what is marked, then return.
Leftover ==
  /\ call.on /\ call.fresh /\ p > call.end /\ call.nread <= max_header_size
  /\ \E m \in Marks :
       /\ call.mark[m] # 0
       /\ Callback(Tell(m, SubSeq(input.bytes, call.mark[m], p - 1)), parser, Unmarked(call, m), p)
  /\ UNCHANGED first

ReturnLen ==
  /\ call.on /\ call.fresh /\ p > call.end /\ call.nread <= max_header_size /\ call.mark = NoMark
  /\ parser' = [parser EXCEPT !.nread = call.nread]
  /\ call' = Idle
  /\ UNCHANGED <<p, told, stops, first>>

---------------------------------------------------------------------------
(* Between messages, and the start line. *)
Fresh(pr) == [pr EXCEPT !.flags = {}, !.uses_transfer_encoding = FALSE,
                        !.content_length = ULLONG_MAX]
BeginMessage(pr, s) ==
  Callback(Say("message_begin"), In(pr, s), NextByte, p + 1) /\ first' = p

Dead == /\ At({"s_dead"})
        /\ IF ch \in Eol THEN Break(parser, "s_dead") ELSE Error("CLOSED_CONNECTION")

SkipEol == /\ At({"s_start_req_or_res", "s_start_res", "s_start_req"}) /\ ch \in Eol
           /\ Break(parser, parser.state)

StartEither ==
  /\ At({"s_start_req_or_res"}) /\ ch \notin Eol
  /\ IF ch = "H" THEN BeginMessage(Fresh(parser), "s_res_or_resp_H")
     ELSE Reexecute([Fresh(parser) EXCEPT !.type = "HTTP_REQUEST"], "s_start_req")

\* "HT" or "HE": a response, or a HEAD request.
ResOrRespH ==
  /\ At({"s_res_or_resp_H"})
  /\ CASE ch = "TTP/" -> Break([parser EXCEPT !.type = "HTTP_RESPONSE"], "s_res_http_major")
       [] ch = "EAD" -> Break([parser EXCEPT !.type = "HTTP_REQUEST", !.method = "HEAD"],
                              "s_req_method_end")
       [] OTHER -> Error("INVALID_CONSTANT")

StartRes == /\ At({"s_start_res"}) /\ ch \notin Eol
            /\ IF ch = "H" THEN BeginMessage(Fresh(parser), "s_res_H")
               ELSE Error("INVALID_CONSTANT")

\* STRICT_CHECKs of the literals.
ResHttp == /\ At({"s_res_H"})
           /\ IF ch = "TTP/" THEN Break(parser, "s_res_http_major") ELSE Error("STRICT")

\* Digit, dot, digit.
ResVersion == /\ At({"s_res_http_major"})
              /\ IF ch \in Versions THEN Break([parser EXCEPT !.version = ch], "s_res_http_end")
                 ELSE Error("INVALID_VERSION")
ResVersionEnd == /\ At({"s_res_http_end"})
                 /\ IF ch = "sp" THEN Break(parser, "s_res_first_status_code")
                    ELSE Error("INVALID_VERSION")

\* A code is one symbol; 1000 and more has four.
StatusCode ==
  /\ At({"s_res_first_status_code"})
  /\ CASE ch \in Codes -> Break([parser EXCEPT !.status_code = ch], "s_res_status_code")
       [] ch = "sp" -> Break(parser, "s_res_first_status_code")
       [] OTHER -> Error("INVALID_STATUS")
StatusCodeEnd ==
  /\ At({"s_res_status_code"})
  /\ CASE ch = "sp" -> Break(parser, "s_res_status_start")
       [] ch \in Eol -> Reexecute(parser, "s_res_status_start")
       [] OTHER -> Error("INVALID_STATUS")

\* fault: the state is not set before the end of the line is looked at again.
StatusStartStays ==
  /\ At({"s_res_status_start"})
  /\ IF ch \in Eol THEN Go(parser, Marked(call, "status"), p)
     ELSE Go(In(parser, "s_res_status"), Marked(NextByte, "status"), p + 1)

StatusStart ==
  /\ At({"s_res_status_start"})
  /\ IF ch \in Eol THEN Go(In(parser, "s_res_status"), Marked(call, "status"), p)
     ELSE Go(In(parser, "s_res_status"), Marked(NextByte, "status"), p + 1)
Status ==
  /\ At({"s_res_status"})
  /\ CASE ch = "CR" -> Data("status", parser, "s_res_line_almost_done")
       [] ch = "LF" -> Data("status", parser, "s_header_field_start")
       [] OTHER -> Break(parser, "s_res_status")
ResLineAlmostDone == /\ At({"s_res_line_almost_done"})
                     /\ IF ch = "LF" THEN Break(parser, "s_header_field_start") ELSE Error("STRICT")

StartReq ==
  /\ At({"s_start_req"}) /\ ch \notin Eol
  /\ IF ch \in DOMAIN MethodRest
     THEN BeginMessage([Fresh(parser) EXCEPT !.method = MethodName[ch]], "s_req_method")
     ELSE Error("INVALID_METHOD")
ReqMethod ==
  /\ At({"s_req_method"})
  /\ IF \E m \in DOMAIN MethodRest : MethodName[m] = parser.method /\ ch = MethodRest[m]
     THEN Break(parser, "s_req_method_end") ELSE Error("INVALID_METHOD")
\* Still s_req_method in the code: the whole name is matched, a space must follow.
ReqMethodEnd == /\ At({"s_req_method_end"})
                /\ IF ch = "sp" THEN Break(parser, "s_req_spaces_before_url")
                   ELSE Error("INVALID_METHOD")

UrlStart ==
  /\ At({"s_req_spaces_before_url"})
  /\ LET from == IF parser.method = "CONNECT" THEN "s_req_server_start" ELSE parser.state
         s == parse_url_char(from, ch)
     IN CASE ch = "sp" -> Break(parser, parser.state)
          [] ch # "sp" /\ s = "s_dead" -> Error("INVALID_URL")
          [] OTHER -> Go(In(parser, s), Marked(NextByte, "url"), p + 1)

\* No white space may stand in the scheme; elsewhere it ends the URL.
UrlOpening == {"s_req_schema", "s_req_schema_slash", "s_req_schema_slash_slash",
               "s_req_server_start"}
UrlBody == {"s_req_server", "s_req_server_with_at", "s_req_path", "s_req_query_string_start",
            "s_req_query_string", "s_req_fragment_start", "s_req_fragment"}
UrlChar ==
  /\ At(UrlOpening \cup UrlBody)
  /\ ch \notin {"sp"} \cup Eol \/ parser.state \in UrlOpening
  /\ LET s == parse_url_char(parser.state, ch)
     IN IF s = "s_dead" THEN Error("INVALID_URL") ELSE Break(parser, s)
UrlEnd ==
  /\ At(UrlBody) /\ ch \in {"sp"} \cup Eol
  /\ LET nine == [parser EXCEPT !.version = "0.9"]
     IN CASE ch = "sp" -> Data("url", parser, "s_req_http_start")
          [] ch = "CR" -> Data("url", nine, "s_req_line_almost_done")
          [] ch = "LF" -> Data("url", nine, "s_header_field_start")

ReqHttpStart ==
  /\ At({"s_req_http_start"})
  /\ CASE ch = "sp" -> Break(parser, parser.state)
       [] ch = "H" -> Break(parser, "s_req_http_H")
       [] ch = "ICE/" /\ parser.method = "SOURCE" -> Break(parser, "s_req_http_major")
       [] OTHER -> Error("INVALID_CONSTANT")
ReqHttp == /\ At({"s_req_http_H"})
           /\ IF ch = "TTP/" THEN Break(parser, "s_req_http_major") ELSE Error("STRICT")
ReqVersion == /\ At({"s_req_http_major"})
              /\ IF ch \in Versions THEN Break([parser EXCEPT !.version = ch], "s_req_http_end")
                 ELSE Error("INVALID_VERSION")
ReqVersionEnd ==
  /\ At({"s_req_http_end"})
  /\ CASE ch = "CR" -> Break(parser, "s_req_line_almost_done")
       [] ch = "LF" -> Break(parser, "s_header_field_start")
       [] OTHER -> Error("INVALID_VERSION")
ReqLineAlmostDone == /\ At({"s_req_line_almost_done"})
                     /\ IF ch = "LF" THEN Break(parser, "s_header_field_start")
                        ELSE Error("LF_EXPECTED")

StartLine == Dead \/ SkipEol \/ StartEither \/ ResOrRespH \/ StartRes \/ ResHttp \/ ResVersion
             \/ ResVersionEnd \/ StatusCode \/ StatusCodeEnd \/ StatusStart \/ Status
             \/ ResLineAlmostDone \/ StartReq \/ ReqMethod \/ ReqMethodEnd \/ UrlStart \/ UrlChar
             \/ UrlEnd \/ ReqHttpStart \/ ReqHttp \/ ReqVersion \/ ReqVersionEnd
             \/ ReqLineAlmostDone

---------------------------------------------------------------------------
(* Header fields.  The two inner loops take all they can of the call's     *)
(* bytes at once and count them when they stop.                            *)
FieldStart ==
  /\ At({"s_header_field_start"})
  /\ CASE ch = "CR" -> Break(parser, "s_headers_almost_done")
       [] ch = "LF" -> Reexecute(parser, "s_headers_almost_done")
       [] IsToken(ch) -> Go([parser EXCEPT !.header_state = NameStart(ch), !.state = "s_header_field"],
                            Marked(NextByte, "header_field"), p + 1)
       [] OTHER -> Error("INVALID_HEADER_TOKEN")

\* The first byte from p on that fails the test, or the one after the call's last.
StopAt(Test(_)) == CHOOSE q \in p .. call.end + 1 :
                     /\ q = call.end + 1 \/ ~Test(input.bytes[q])
                     /\ \A i \in p .. q - 1 : Test(input.bytes[i])

\* uses_transfer_encoding is set as soon as the name has begun like that.
NameMore(pr, c) ==
  LET h == NameStep(pr.header_state, c)
  IN [pr EXCEPT !.header_state = h, !.uses_transfer_encoding = @ \/ h = "h_transfer_encoding"]
NameRun(pr, bytes) ==
  LET run[i \in 0 .. Len(bytes)] == IF i = 0 THEN pr ELSE NameMore(run[i - 1], bytes[i])
  IN run[Len(bytes)]

HeaderField ==
  /\ At({"s_header_field"})
  /\ LET q == StopAt(IsToken)
         pr == NameRun(parser, SubSeq(input.bytes, p, q - 1))
         counted == [call EXCEPT !.nread = @ + (q - p)]
     IN IF q > call.end
        THEN Go(pr, [call EXCEPT !.nread = @ + (q - 1 - p), !.fresh = TRUE], q)
        ELSE CASE counted.nread > max_header_size -> Go(pr, counted, q)
               [] counted.nread <= max_header_size /\ input.bytes[q] = ":" ->
                    Callback(Tell("header_field", SubSeq(input.bytes, call.mark["header_field"], q - 1)),
                             In(pr, "s_header_value_discard_ws"),
                             [Unmarked(counted, "header_field") EXCEPT !.fresh = TRUE], q + 1)
                    /\ UNCHANGED first
               [] OTHER -> Error("INVALID_HEADER_TOKEN")

ValueDiscardWs ==
  /\ At({"s_header_value_discard_ws"})
  /\ CASE ch \in {"sp", "tab"} -> Break(parser, parser.state)
       [] ch = "CR" -> Break(parser, "s_header_value_discard_ws_almost_done")
       [] ch = "LF" -> Break(parser, "s_header_value_discard_lws")
       [] OTHER -> Reexecute(parser, "s_header_value_start")

\* The first byte of a value, or of its continuation on a folded line.
ValueStart ==
  /\ At({"s_header_value_start"})
  /\ LET h == parser.header_state
         To(pr) == Go(In(pr, "s_header_value"), Marked(NextByte, "header_value"), p + 1)
         With(s) == To([parser EXCEPT !.header_state = s])
     IN CASE h = "h_upgrade" ->
               To([parser EXCEPT !.flags = @ \cup {"F_UPGRADE"}, !.header_state = "h_general"])
          [] h = "h_transfer_encoding" ->
               With(IF ch = "chun" THEN "h_matching_transfer_encoding_chunked"
                                   ELSE "h_matching_transfer_encoding_token")
          [] h = "h_content_length" /\ ~IsNum(ch) -> Error("INVALID_CONTENT_LENGTH")
          [] h = "h_content_length" /\ IsNum(ch) /\ Has("F_CONTENTLENGTH") ->
               Error("UNEXPECTED_CONTENT_LENGTH")
          [] h = "h_content_length" /\ IsNum(ch) /\ ~Has("F_CONTENTLENGTH") ->
               To([parser EXCEPT !.flags = @ \cup {"F_CONTENTLENGTH"}, !.content_length = Num[ch],
                                 !.header_state = "h_content_length_num"])
          [] h = "h_connection" -> With(ConnectionStart(ch))
          [] h \in {"h_matching_transfer_encoding_token_start", "h_content_length_ws",
                    "h_matching_connection_token_start"} -> To(parser)
          [] OTHER -> With("h_general")

\* content_length after one more digit; the test is a conservative one.
WouldOverflow(n, base) == (ULLONG_MAX - base) \div base < n
Shift(n, base, d) == (n * base + d) % (ULLONG_MAX + 1)

TransferStates == {"h_matching_transfer_encoding_token_start", "h_matching_transfer_encoding_chunked",
                   "h_matching_transfer_encoding_token", "h_transfer_encoding_chunked"}
ConnectionStates == ConnectionSaid \cup
  {"h_matching_connection_token_start", "h_matching_connection_keep_alive",
   "h_matching_connection_close", "h_matching_connection_upgrade", "h_matching_connection_token"}

\* One byte of a value that is neither CR nor LF; an error stays in http_errno.
ValueStep(pr, c) ==
  LET h == pr.header_state
      With(s) == [pr EXCEPT !.header_state = s]
      Bad(e) == [pr EXCEPT !.http_errno = e]
  IN IF pr.http_errno # "OK" THEN pr
     ELSE IF ~lenient_http_headers /\ ~IsHeaderChar(c) THEN Bad("INVALID_HEADER_TOKEN")
     ELSE
     CASE h = "h_content_length_num" ->
            IF c = "sp" THEN With("h_content_length_ws")
            ELSE IF ~IsNum(c) \/ WouldOverflow(pr.content_length, 10) THEN Bad("INVALID_CONTENT_LENGTH")
            ELSE [pr EXCEPT !.content_length = Shift(@, 10, Num[c])]
       [] h = "h_content_length_ws" -> IF c = "sp" THEN pr ELSE Bad("INVALID_CONTENT_LENGTH")
       [] h \in TransferStates -> With(TransferStep(h, c))
       [] h \in ConnectionStates ->
            [pr EXCEPT !.header_state = ConnectionStep(h, c),
                       !.flags = IF c = "," /\ h \in ConnectionSaid THEN @ \cup FlagOf(h) ELSE @]
       [] OTHER -> With("h_general")

ValueRun(pr, bytes) ==
  LET run[i \in 0 .. Len(bytes)] == IF i = 0 THEN pr ELSE ValueStep(run[i - 1], bytes[i])
  IN run[Len(bytes)]

NoEol(c) == c \notin Eol
HeaderValue ==
  /\ At({"s_header_value"})
  /\ LET q == StopAt(NoEol)
         pr == ValueRun(parser, SubSeq(input.bytes, p, q - 1))
         value == Tell("header_value", SubSeq(input.bytes, call.mark["header_value"], q - 1))
         counted == [call EXCEPT !.nread = @ + (q - p)]
         done == Unmarked(counted, "header_value")
         after == In(pr, "s_header_almost_done")
     IN CASE pr.http_errno # "OK" -> Error(pr.http_errno)
          [] pr.http_errno = "OK" /\ q > call.end ->
               Go(pr, [call EXCEPT !.nread = @ + (q - 1 - p), !.fresh = TRUE], q)
          [] pr.http_errno = "OK" /\ q <= call.end /\ input.bytes[q] = "CR" ->
               Callback(value, after, [done EXCEPT !.fresh = TRUE], q + 1) /\ UNCHANGED first
          [] OTHER ->  \* LF: counted first, then looked at again
               IF counted.nread > max_header_size THEN Go(pr, counted, q)
               ELSE Callback(value, after, done, q) /\ UNCHANGED first

HeaderAlmostDone == /\ At({"s_header_almost_done"})
                    /\ IF ch = "LF" THEN Break(parser, "s_header_value_lws")
                       ELSE Error("LF_EXPECTED")

\* The line is over: a folded line goes on with the value, anything else ends it.
ValueLws ==
  /\ At({"s_header_value_lws"})
  /\ IF ch \in {"sp", "tab"}
     THEN Reexecute([parser EXCEPT !.header_state = IF @ = "h_content_length_num"
                                                    THEN "h_content_length_ws" ELSE @],
                    "s_header_value_start")
     ELSE Reexecute([parser EXCEPT !.flags = @ \cup FlagOf(parser.header_state)],
                    "s_header_field_start")

ValueDiscardWsAlmostDone ==
  /\ At({"s_header_value_discard_ws_almost_done"})
  /\ IF ch = "LF" THEN Break(parser, "s_header_value_discard_lws") ELSE Error("STRICT")

\* The value is empty, unless the line is folded.
ValueDiscardLws ==
  /\ At({"s_header_value_discard_lws"})
  /\ CASE ch \in {"sp", "tab"} -> Break(parser, "s_header_value_discard_ws")
       [] ch \notin {"sp", "tab"} /\ parser.header_state = "h_content_length" ->
            Error("INVALID_CONTENT_LENGTH")
       [] OTHER -> NotifyAgain("header_value", [parser EXCEPT !.flags = @ \cup FlagOf(parser.header_state)],
                               "s_header_field_start")

Headers == FieldStart \/ HeaderField \/ ValueDiscardWs \/ ValueStart \/ HeaderValue
           \/ HeaderAlmostDone \/ ValueLws \/ ValueDiscardWsAlmostDone \/ ValueDiscardLws

---------------------------------------------------------------------------
(* The end of the headers. *)
http_message_needs_eof(pr) ==
  /\ pr.type # "HTTP_REQUEST"
  /\ pr.status_code \notin {"101", "204", "304"} /\ "F_SKIPBODY" \notin pr.flags
  /\ \/ pr.uses_transfer_encoding /\ "F_CHUNKED" \notin pr.flags
     \/ "F_CHUNKED" \notin pr.flags /\ pr.content_length = ULLONG_MAX

http_should_keep_alive(pr) ==
  /\ IF pr.version = "1.1" THEN "F_CONNECTION_CLOSE" \notin pr.flags
                           ELSE "F_CONNECTION_KEEP_ALIVE" \in pr.flags
  /\ ~http_message_needs_eof(pr)

NewMessage(pr) == IF ~http_should_keep_alive(pr) THEN "s_dead"
                  ELSE IF pr.type = "HTTP_REQUEST" THEN "s_start_req" ELSE "s_start_res"

\* What on_headers_complete answers: 1 for no body, 2 for another protocol.
Begun == Cardinality({i \in DOMAIN told : told[i].on = "message_begin"})
Answers == IF input.msgs = <<>> THEN 0 .. 2 ELSE {input.msgs[Begun].skip}

\* fault: both framings are accepted, the coding wins.
NeverAmbiguous == FALSE

Ambiguous == /\ parser.uses_transfer_encoding /\ Has("F_CONTENTLENGTH")
             /\ IF Has("F_CHUNKED") THEN ~allow_chunked_length ELSE ~lenient_http_headers

UpgradeAsked == IF {"F_UPGRADE", "F_CONNECTION_UPGRADE"} \subseteq parser.flags
                THEN parser.type = "HTTP_REQUEST" \/ parser.status_code = "101"
                ELSE parser.method = "CONNECT"

Answered(pr, answer) ==
  [pr EXCEPT !.upgrade = @ \/ answer = 2,
             !.flags = IF answer = 0 THEN @ ELSE @ \cup {"F_SKIPBODY"}]

HeadersAlmostDone ==
  /\ At({"s_headers_almost_done"})
  /\ LET asked == [parser EXCEPT !.upgrade = UpgradeAsked]
         stored(pr) == [pr EXCEPT !.state = "s_headers_done", !.nread = call.nread]
     IN CASE ch # "LF" -> Error("STRICT")
          [] ch = "LF" /\ Has("F_TRAILING") -> NotifyAgain("chunk_complete", parser, "s_message_done")
          [] ch = "LF" /\ ~Has("F_TRAILING") /\ Ambiguous -> Error("UNEXPECTED_CONTENT_LENGTH")
          [] OTHER ->
               /\ told' = Join(told, Say("headers_complete")) /\ UNCHANGED <<p, first>>
               /\ \E answer \in Answers :
                    \/ /\ parser' = In(Answered(asked, answer), "s_headers_done")
                       /\ UNCHANGED <<call, stops>>
                    \/ /\ stops < input.stops /\ stops' = stops + 1 /\ call' = Idle
                       /\ \E e \in {"PAUSED", "CB"} :
                            parser' = [stored(Answered(asked, answer)) EXCEPT !.http_errno = e]

HasBody == Has("F_CHUNKED") \/ parser.content_length \notin {0, ULLONG_MAX}

HeadersDone ==
  /\ At({"s_headers_done"})
  /\ LET zero == [parser EXCEPT !.nread = 0]
         To(s) == Go(In(zero, s), [NextByte EXCEPT !.nread = 0], p + 1)
         Over(end) == Callback(Say("message_complete"), In(zero, NewMessage(zero)),
                               [NextByte EXCEPT !.nread = 0, !.end = end], p + 1)
                      /\ UNCHANGED first
         Complete == Over(call.end)
     IN IF ch # "LF" THEN Error("STRICT")
        ELSE IF parser.upgrade /\ (parser.method = "CONNECT" \/ Has("F_SKIPBODY") \/ ~HasBody)
             THEN Over(p)
        ELSE IF Has("F_SKIPBODY") THEN Complete
        ELSE IF Has("F_CHUNKED") THEN To("s_chunk_size_start")
        ELSE IF parser.uses_transfer_encoding
             THEN IF parser.type = "HTTP_REQUEST" /\ ~lenient_http_headers
                  THEN Error("INVALID_TRANSFER_ENCODING") ELSE To("s_body_identity_eof")
        ELSE IF parser.content_length = 0 THEN Complete
        ELSE IF parser.content_length # ULLONG_MAX THEN To("s_body_identity")
        ELSE IF http_message_needs_eof(zero) THEN To("s_body_identity_eof") ELSE Complete

---------------------------------------------------------------------------
(* The body. *)
Least(a, b) == IF a < b THEN a ELSE b
ToRead == Least(parser.content_length, call.end + 1 - p)

\* The last byte of the body is looked at again for message_complete.
BodyIdentity ==
  /\ At({"s_body_identity"})
  /\ LET pr == [parser EXCEPT !.content_length = @ - ToRead]
         c == Marked(call, "body")
         last == p + ToRead - 1
     IN IF pr.content_length = 0
        THEN Callback(Tell("body", SubSeq(input.bytes, c.mark["body"], last)),
                      In(pr, "s_message_done"), Unmarked(call, "body"), last) /\ UNCHANGED first
        ELSE Go(pr, [c EXCEPT !.fresh = TRUE], last + 1)

BodyIdentityEof == /\ At({"s_body_identity_eof"})
                   /\ Go(parser, Marked(NextByte, "body"), call.end + 1)

\* With upgrade set the call ends here.
MessageDone ==
  /\ At({"s_message_done"})
  /\ Callback(Say("message_complete"), In(parser, NewMessage(parser)),
              [NextByte EXCEPT !.end = IF parser.upgrade THEN p ELSE @], p + 1)
  /\ UNCHANGED first

ChunkSizeStart ==
  /\ At({"s_chunk_size_start"})
  /\ IF IsHex(ch) THEN Break([parser EXCEPT !.content_length = unhex(ch)], "s_chunk_size")
     ELSE Error("INVALID_CHUNK_SIZE")

ChunkSize ==
  /\ At({"s_chunk_size"})
  /\ CASE ch = "CR" -> Break(parser, "s_chunk_size_almost_done")
       [] ch \in {";", "sp"} -> Break(parser, "s_chunk_parameters")
       [] IsHex(ch) -> IF WouldOverflow(parser.content_length, 16) THEN Error("INVALID_CONTENT_LENGTH")
                       ELSE Break([parser EXCEPT !.content_length = Shift(@, 16, unhex(ch))], parser.state)
       [] OTHER -> Error("INVALID_CHUNK_SIZE")

ChunkParameters ==
  /\ At({"s_chunk_parameters"})
  /\ Break(parser, IF ch = "CR" THEN "s_chunk_size_almost_done" ELSE parser.state)

ChunkSizeAlmostDone ==
  /\ At({"s_chunk_size_almost_done"})
  /\ LET zero == [parser EXCEPT !.nread = 0]
         c == [NextByte EXCEPT !.nread = 0]
         e == Tell("chunk_header", <<parser.content_length>>)
     IN CASE ch # "LF" -> Error("STRICT")
          [] ch = "LF" /\ parser.content_length = 0 ->
               Callback(e, [zero EXCEPT !.flags = @ \cup {"F_TRAILING"}, !.state = "s_header_field_start"],
                        c, p + 1)
          [] OTHER -> Callback(e, In(zero, "s_chunk_data"), c, p + 1)
  /\ UNCHANGED first

\* fault: the parser moves on by what is announced, not by what has come.
ChunkDataAll ==
  /\ At({"s_chunk_data"})
  /\ Go(In([parser EXCEPT !.content_length = 0], "s_chunk_data_almost_done"),
        Marked(NextByte, "body"), p + parser.content_length)

\* fault: a chunk the call has no more bytes of is taken to be over.
ChunkDataCut ==
  /\ At({"s_chunk_data"})
  /\ Go(In([parser EXCEPT !.content_length = 0], "s_chunk_data_almost_done"),
        Marked(NextByte, "body"), p + ToRead)

ChunkData ==
  /\ At({"s_chunk_data"})
  /\ LET pr == [parser EXCEPT !.content_length = @ - ToRead]
     IN Go(IF pr.content_length = 0 THEN In(pr, "s_chunk_data_almost_done") ELSE pr,
           Marked(NextByte, "body"), p + ToRead)

ChunkDataAlmostDone ==
  /\ At({"s_chunk_data_almost_done"})
  /\ IF ch = "CR" /\ call.mark["body"] # 0 THEN Data("body", parser, "s_chunk_data_done")
     ELSE IF ch = "CR" THEN Break(parser, "s_chunk_data_done") ELSE Error("STRICT")

ChunkDataDone ==
  /\ At({"s_chunk_data_done"})
  /\ IF ch = "LF"
     THEN Callback(Say("chunk_complete"), [parser EXCEPT !.nread = 0, !.state = "s_chunk_size_start"],
                   [NextByte EXCEPT !.nread = 0], p + 1) /\ UNCHANGED first
     ELSE Error("STRICT")

Body == HeadersAlmostDone \/ HeadersDone \/ BodyIdentity \/ BodyIdentityEof \/ MessageDone
        \/ ChunkSizeStart \/ ChunkSize \/ ChunkParameters \/ ChunkSizeAlmostDone
        \/ ChunkData \/ ChunkDataAlmostDone \/ ChunkDataDone

---------------------------------------------------------------------------
(* Calls. *)
Complete(t) == t # <<>> /\ t[Len(t)].on = "message_complete"
Upgraded == parser.upgrade /\ Complete(told)

\* data + len may end anywhere; a mark is set when a call begins inside a token.
MarkAtEntry(s) ==
  CASE s \in {"s_header_field"} -> "header_field"
    [] s \in {"s_header_value"} -> "header_value"
    [] s \in UrlOpening \cup UrlBody -> "url"
    [] s \in {"s_res_status"} -> "status"
    [] OTHER -> "none"

Execute ==
  /\ ~call.on /\ parser.http_errno = "OK" /\ ~Upgraded /\ ~eof /\ p <= Len(input.bytes)
  /\ \E end \in p .. Len(input.bytes) :
       LET s == parser.state IN
       call' = [on |-> TRUE, end |-> end, nread |-> parser.nread, fresh |-> TRUE,
                mark |-> IF MarkAtEntry(s) = "none" THEN NoMark
                         ELSE [NoMark EXCEPT ![MarkAtEntry(s)] = p]]
  \* The count the call found is what a pause leaves; without one nobody reads it.
  /\ parser' = IF stops < input.stops THEN parser ELSE [parser EXCEPT !.nread = 0]
  /\ UNCHANGED <<p, told, stops, first>>

\* The connection is closed: a call with length zero.
ExecuteEof ==
  /\ ~call.on /\ parser.http_errno = "OK" /\ ~Upgraded /\ ~eof
  /\ eof' = TRUE
  /\ CASE parser.state = "s_body_identity_eof" ->
            Callback(Say("message_complete"), parser, Idle, p)
       [] parser.state \in {"s_dead", "s_start_req_or_res", "s_start_res", "s_start_req"} ->
            UNCHANGED <<parser, call, p, told, stops>>
       [] OTHER -> /\ parser' = [parser EXCEPT !.http_errno = "INVALID_EOF_STATE"]
                   /\ UNCHANGED <<call, p, told, stops>>
  /\ UNCHANGED first

\* http_parser_pause(parser, 0)
Resume == /\ parser.http_errno = "PAUSED"
          /\ parser' = [parser EXCEPT !.http_errno = "OK"]
          /\ UNCHANGED <<call, p, told, stops, first>>

InCall == TakeByte \/ Overflow \/ Leftover \/ ReturnLen \/ StartLine \/ Headers \/ Body
Next == \/ (InCall \/ Execute \/ Resume) /\ UNCHANGED <<input, eof>>
        \/ ExecuteEof /\ UNCHANGED input

Spec == Init /\ [][Next]_vars

---------------------------------------------------------------------------
(* One type invariant for the struct and the locals. *)
TypeOK ==
  /\ parser.content_length \in 0 .. ULLONG_MAX
  /\ parser.nread \in Nat /\ parser.version \in Versions /\ parser.upgrade \in BOOLEAN
  /\ p \in 1 .. Len(input.bytes) + 1
  /\ call.on => p <= call.end + 1 /\ \A m \in Marks : call.mark[m] \in 0 .. p
  /\ stops \in 0 .. input.stops /\ eof \in BOOLEAN /\ first \in 1 .. Len(input.bytes) + 1

\* However the bytes are cut into calls and wherever callbacks pause, the
\* callbacks tell what was sent, joined as their data is: names, values, chunk
\* lengths, bodies and the ends of messages (the whole of http_parser_execute).
\* A body that ends with the connection ends where the connection ends.
Truncated == eof /\ p <= Len(input.bytes)
Heard == IF Truncated /\ parser.state = "s_body_identity_eof" THEN Front(told) ELSE told
AsSent == input.msgs # <<>> => Begins(Heard, Expected(input.msgs))

\* Of messages whose framing is clear everything is told: no error comes before
\* that, and a call with length zero after all of it is no error.
Clear == input.msgs # <<>> /\ \A i \in Told(input.msgs) : Accepted(input.msgs[i])
Finished == ~call.on /\ (Upgraded \/ eof \/ parser.http_errno # "OK")
AllTold == /\ Clear /\ Finished /\ ~Truncated /\ parser.http_errno \notin {"PAUSED", "CB"}
           => told = Expected(input.msgs)

\* The assertions in the code: lines 1533, 1949, 1998-1999, 2016-2103, 2135.
AssertionsHold ==
  /\ At({"s_chunk_size_start"}) => call.nread = 1
  /\ At({"s_chunk_size_start", "s_chunk_size", "s_chunk_parameters", "s_chunk_size_almost_done",
         "s_chunk_data", "s_chunk_data_almost_done", "s_chunk_data_done"}) => Has("F_CHUNKED")
  /\ At({"s_body_identity", "s_chunk_data"}) => parser.content_length \notin {0, ULLONG_MAX}
  /\ At({"s_chunk_data_almost_done"}) => parser.content_length = 0
  /\ At({"s_header_value"}) => parser.header_state \notin {"h_connection", "h_transfer_encoding"}
  /\ call.on => Cardinality({m \in Marks : call.mark[m] # 0}) <= 1

\* The callbacks of a kind since the message began, and the one that came last.
Since(t, kind) == {i \in DOMAIN t : /\ t[i].on = kind
                     /\ \A j \in i + 1 .. Len(t) : t[j].on # "message_begin"}
LastOn(t) == IF t = <<>> THEN "none" ELSE t[Len(t)].on
HeadOpen(t) == Since(t, "headers_complete") = {}

(* http_parser.c:143: "Don't allow the total size of the HTTP headers       *)
(* (including the status line) to exceed max_header_size".  This holds     *)
(* until the first pause: a call that stops returns without storing what   *)
(* it has counted, and the head it stopped in may get longer.              *)
InHead == LastOn(told) \notin {"none", "message_complete"} /\ HeadOpen(told)
HeadersBounded ==
  stops = 0 /\ InHead /\ parser.http_errno = "OK" /\ call.nread <= max_header_size
    => p - first <= max_header_size

\* Whatever is fed, the callbacks come in the order HttpEvents allows, and a
\* chunk is complete when as much of it was told as was announced.
Latest(S) == CHOOSE i \in S : \A j \in S : j <= i
Due(t) ==
  IF Since(t, "chunk_header") = {} THEN -1
  ELSE LET k == Latest(Since(t, "chunk_header"))
           size == t[k].data[1]
       IN CASE LastOn(t) \in {"chunk_complete", "message_complete"} -> IF size = 0 THEN -1 ELSE 0
            [] LastOn(t) \notin {"chunk_complete", "message_complete"} /\ k < Len(t) /\ t[k + 1].on = "body" ->
                 size - Len(t[k + 1].data)
            [] OTHER -> size
Events == INSTANCE HttpEvents WITH last <- LastOn(told), head <- HeadOpen(told), due <- Due(told)
ImplementsEvents == Events!Spec

\* Every call returns: a step moves on in the bytes, gives up a mark, or looks at
\* the same byte in a state that comes later in this order (the REEXECUTEs, the
\* NOADVANCE callbacks), so that no byte is looked at for ever.
Rank(s) ==
  CASE s \in {"s_header_value_lws", "s_header_value_discard_lws", "s_res_status_code"} -> 4
    [] s \in {"s_header_field_start", "s_res_status_start"} -> 3
    [] s \in {"s_headers_almost_done", "s_header_value_discard_ws", "s_header_value",
              "s_start_req_or_res", "s_body_identity"} -> 2
    [] s \in {"s_headers_done", "s_header_value_start", "s_header_almost_done",
              "s_start_req", "s_message_done"} -> 1
    [] OTHER -> 0
Steps(c, pr) == Cardinality({m \in Marks : c.mark[m] # 0})
                + IF c.fresh THEN 6 ELSE Rank(pr.state)
CallMovesOn ==
  [][call.on /\ call'.on => p' > p \/ (p' = p /\ Steps(call', parser') < Steps(call, parser))]_vars
===========================================================================
