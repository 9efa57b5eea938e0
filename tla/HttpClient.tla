----------------------------- MODULE HttpClient -----------------------------
(***************************************************************************)
(* http() of http/http.c, called again and again in one process: the URL   *)
(* is taken apart (UrlParser), a GET goes out, and what is read goes to    *)
(* the one static response parser, whose on_body fills the caller's        *)
(* buffer.  The parser is HttpParser seen from here: what it needs to know *)
(* to say which units are body, and when it takes no more.  The connection *)
(* is always made to 127.0.0.1 (line 274), at the port of the URL; the     *)
(* URL's host goes into the Host header and nowhere else.                  *)
(***************************************************************************)
EXTENDS UrlParser, Integers

CONSTANTS
  Endpoints,     \* URLs the caller asks for
  Answers,       \* what servers send, see Wire
  sizeof_buf,    \* sizeof(response_buf): a pointer's, not the buffer's
  ReadSize,      \* 1024, the size of rbuf; half of it is cleared at first
  MaxCalls       \* bound: calls of http()

ASSUME ClientSizesAssumption == sizeof_buf \in Nat \ {0} /\ ReadSize \in Nat \ {0}
ASSUME ClientCallsAssumption == MaxCalls \in Nat
\* struct http_parser_url has room for the offsets in a URL; header[1024] of http() for less.
ASSUME EndpointsAssumption == \A url \in Endpoints : url \in Seq(STRING) /\ Len(url) < UINT16
\* host_ip[32] has room for "Host: ", the host, ':' and the port.
ASSUME HostRoomAssumption ==
  \A url \in Endpoints : LET u == http_parser_parse_url(url, FALSE).u
                         IN u.len["UF_HOST"] + u.len["UF_PORT"] <= 24
ASSUME AnswersAssumption ==
  Answers \subseteq [interim : BOOLEAN, framed : BOOLEAN, keep : BOOLEAN, n : Nat, nul : Nat, behind : Nat]

---------------------------------------------------------------------------
(* What a server sends.  A unit is a byte of a body, a NUL, a byte that    *)
(* was never sent, or one of the two halves of the headers; `of` is the    *)
(* call it answers.                                                        *)
ToEof == -1
HeadStart(call) == [kind |-> "head start", of |-> call]
HeadEnd(call, n, keep) == [kind |-> "head end", of |-> call, len |-> n, keep |-> keep]
Byte(call, n) == [kind |-> "byte", of |-> call, n |-> n]
NUL == [kind |-> "NUL"]
Garbage == [kind |-> "garbage"]

\* An answer: after 100 Continue or not, its length said or not (framed), the
\* connection kept or not, n bytes of body with a NUL for one of them or not,
\* and what the server sends behind it.
Answer(interim, framed, keep, n, nul, behind) ==
  [interim |-> interim, framed |-> framed, keep |-> keep, n |-> n, nul |-> nul, behind |-> behind]
BodyOf(a, call) == [i \in 1 .. a.n |-> IF i = a.nul THEN NUL ELSE Byte(call, i)]
Wire(a, call) ==
  (IF a.interim THEN <<HeadStart(call), HeadEnd(call, 0, TRUE)>> ELSE <<>>)
    \o <<HeadStart(call), HeadEnd(call, IF a.framed THEN a.n ELSE ToEof, a.keep)>>
    \o BodyOf(a, call) \o [i \in 1 .. a.behind |-> Byte(call, a.n + i)]

\* After it the parser is at a start again.
Persists(a) == a.framed /\ a.keep /\ a.behind = 0

---------------------------------------------------------------------------
(* The parser.  Its state, and what on_body has been given.                *)
start == [s |-> "start", left |-> 0, keep |-> FALSE]
Stopped(s) == [start EXCEPT !.s = s]
NEW_MESSAGE(keep) == IF keep THEN start ELSE Stopped("dead")

\* A message of unknown length ends with the connection (http_message_needs_eof).
HeadersDone(u) ==
  IF u.len = 0 THEN NEW_MESSAGE(u.keep) ELSE [s |-> "body", left |-> u.len, keep |-> u.keep]

BodyUnit(p) ==
  CASE p.left = ToEof -> p
    [] p.left = 1 -> NEW_MESSAGE(p.keep)
    [] OTHER -> [p EXCEPT !.left = @ - 1]

\* Half a head is more than one byte: in a body it may be read to its end and beyond.
Feed(o, u) ==
  LET p == o.p
      Taken(q) == [p |-> q, got |-> Append(o.got, u)]
  IN CASE p.s = "error" -> {o}
       [] p.s = "dead" \/ (p.s = "start" /\ u.kind # "head start") -> {[o EXCEPT !.p = Stopped("error")]}
       [] p.s = "start" /\ u.kind = "head start" -> {[o EXCEPT !.p = Stopped("head")]}
       [] p.s = "head" /\ u.kind = "head end" -> {[o EXCEPT !.p = HeadersDone(u)]}
       [] p.s = "head" /\ u.kind # "head end" -> {o, [o EXCEPT !.p = Stopped("error")]}
       [] p.s = "body" ->
            {Taken(BodyUnit(p))}
              \cup IF p.left # ToEof /\ u.kind \in {"head start", "head end"}
                   THEN {Taken(Stopped("error"))} ELSE {}

\* A call with length zero is the end of the input.
ExecuteEof(p) ==
  IF p.s \in {"start", "dead", "error"} \/ (p.s = "body" /\ p.left = ToEof) THEN p ELSE Stopped("error")

http_parser_execute(p, data) ==
  IF data = <<>> THEN {[p |-> ExecuteEof(p), got |-> <<>>]}
  ELSE LET outcomes[n \in 0 .. Len(data)] ==
             IF n = 0 THEN {[p |-> p, got |-> <<>>]}
             ELSE UNION {Feed(o, data[n]) : o \in outcomes[n - 1]}
       IN outcomes[Len(data)]

---------------------------------------------------------------------------
VARIABLES
  pc,            \* idle, writing (connected or not), reading, returned, exited
  calls,         \* calls of http() so far, in all processes
  endpoint,      \* the argument of the call
  target,        \* what is asked for: path, '?' and query
  host_ip,       \* what the Host header says: host, ':' and port
  port_int,      \* the port of 127.0.0.1 that is asked
  is_init,       \* static int is_init
  parser_response, \* the static parser
  response_buf,  \* what the caller's buffer holds
  first,         \* no read has returned yet: half of rbuf is not cleared
  answer,        \* what the server sends
  wire,          \* the part of it that was not read yet
  held,          \* history: the buffer's content when the call began
  flawed,        \* history: a NUL or bytes never sent came into this call's rbuf
  spoilt         \* history: an earlier answer left the process's parser elsewhere

call == <<calls, endpoint, target, host_ip, port_int>>
statics == <<is_init, parser_response>>
server == <<answer, wire>>
history == <<held, flawed, spoilt>>
vars == <<pc, call, statics, response_buf, first, server, history>>

NoAnswer == Answer(FALSE, TRUE, TRUE, 0, 0, 0)

Init ==
  /\ pc = "idle" /\ calls = 0 /\ endpoint = <<>> /\ target = <<>> /\ host_ip = <<>>
  /\ port_int = 0
  /\ is_init = FALSE /\ parser_response = start /\ response_buf = <<>> /\ first = TRUE
  /\ answer = NoAnswer /\ wire = <<>> /\ held = <<>> /\ flawed = FALSE /\ spoilt = FALSE

\* The value of parse_url is not looked at.  Fields a failure left out are empty.
Target(url, u) == Text(url, u, "UF_PATH") \o <<"?">> \o Text(url, u, "UF_QUERY")
HostIp(url, u) == Text(url, u, "UF_HOST") \o <<":">> \o Text(url, u, "UF_PORT")
Port(u) == IF "UF_PORT" \in u.set THEN u.port ELSE 0

\* A call, with a buffer the caller has cleared or as the last call left it.
http ==
  /\ pc \in {"idle", "returned"} /\ calls < MaxCalls
  /\ \E url \in Endpoints :
       LET u == http_parser_parse_url(url, FALSE).u
       IN /\ endpoint' = url /\ port_int' = Port(u)
          /\ target' = Target(url, u) /\ host_ip' = HostIp(url, u)
  /\ response_buf' \in {response_buf, <<>>} /\ held' = response_buf'
  /\ spoilt' = (spoilt \/ (pc = "returned" /\ (flawed \/ wire # <<>> \/ ~Persists(answer))))
  /\ calls' = calls + 1 /\ flawed' = FALSE /\ first' = TRUE /\ pc' = "writing"
  /\ UNCHANGED <<statics, server>>

\* Nothing listens at port 0; elsewhere the server may answer whatever it likes.
Write ==
  /\ pc = "writing" /\ port_int # 0
  /\ \E a \in Answers : answer' = a /\ wire' = Wire(a, calls)
  /\ pc' = "reading" /\ UNCHANGED <<call, statics, response_buf, first, history>>

\* create_socket's value is not looked at: no connection is a write that fails.
WriteFails ==
  /\ pc = "writing"
  /\ pc' = "exited" /\ UNCHANGED <<call, statics, response_buf, first, server, history>>

\* strlncat(response_buf, sizeof(response_buf), buf, len)
OnBodyNoNul(buf, piece) ==           \* fault: strlncat keeps no place for its NUL
  LET rlen == sizeof_buf - Len(buf)
  IN buf \o SubSeq(piece, 1, IF Len(piece) < rlen THEN Len(piece) ELSE rlen)
on_body(buf, piece) ==
  LET slen == Len(piece)
      rlen == sizeof_buf - Len(buf)
  IN IF Len(buf) >= sizeof_buf THEN buf
     ELSE buf \o SubSeq(piece, 1, IF slen < rlen THEN slen ELSE rlen - 1)

parser_responder(data) ==
  \E o \in http_parser_execute(IF is_init THEN parser_response ELSE start, data) :
    /\ parser_response' = o.p /\ is_init' = TRUE
    /\ response_buf' = on_body(response_buf, o.got)

\* strlen(rbuf): up to a NUL that was read, or one that memset put behind, or whatever
\* comes behind where there is none.
Strlen(units) == SelectInSeq(units, LAMBDA u : u = NUL) - 1
Cleared(n) == IF first THEN n < ReadSize \div 2 ELSE n < ReadSize
Strings(n) ==
  LET units == SubSeq(wire, 1, n)
  IN IF NUL \in Range(units) THEN {SubSeq(units, 1, Strlen(units))}
     ELSE {units} \cup IF Cleared(n) THEN {} ELSE {Append(units, Garbage)}

\* One turn of the loop.  Nothing in it looks at the parser.
Read ==
  /\ pc = "reading"
  /\ \E n \in 1 .. ReadSize :
       /\ n <= Len(wire) /\ wire' = SubSeq(wire, n + 1, Len(wire))
       /\ \E data \in Strings(n) :
            /\ parser_responder(data)
            /\ flawed' = (flawed \/ data # SubSeq(wire, 1, n))
  /\ first' = FALSE /\ UNCHANGED <<pc, call, answer, held, spoilt>>

\* read returns 0 or -1: the end, or a connection that broke before.
ReadEnds ==
  /\ pc = "reading"
  /\ pc' = "returned" /\ UNCHANGED <<call, statics, response_buf, first, server, history>>

\* exit(-1); the next process starts with its statics.
Restart ==
  /\ pc = "exited" /\ calls < MaxCalls
  /\ pc' = "idle" /\ is_init' = FALSE /\ parser_response' = start /\ response_buf' = <<>>
  /\ spoilt' = FALSE /\ UNCHANGED <<call, first, server, held, flawed>>

Next == http \/ Write \/ WriteFails \/ Read \/ ReadEnds \/ Restart
Spec == Init /\ [][Next]_vars

---------------------------------------------------------------------------
(* What a call promises. *)
(* A request goes out only for a URL that parsed into fields that make it  *)
(* up: to the port it names, for its path and query, with its host and     *)
(* port in the Host header, and nothing for a field that the URL has not   *)
(* got.  (Which host is asked the URL has no say in: it is 127.0.0.1.)     *)
AskedRight ==
  pc \in {"reading", "returned"} =>
    LET parsed == http_parser_parse_url(endpoint, FALSE)
        Of(f) == IF f \in parsed.u.set THEN Text(endpoint, parsed.u, f) ELSE <<>>
    IN /\ parsed.ret = 0 /\ endpoint \in Readings(endpoint, parsed.u)
       /\ port_int = NumberOf(Of("UF_PORT"))
       /\ host_ip = Of("UF_HOST") \o <<":">> \o Of("UF_PORT")
       /\ target = Of("UF_PATH") \o <<"?">> \o Of("UF_QUERY")

(* The buffer holds what it held and what of this answer's body fits, and  *)
(* nothing of another answer, when the answer was read whole and no        *)
(* earlier one has left the parser out of its start.                       *)
BodyKept ==
  pc = "returned" /\ wire = <<>> /\ ~flawed /\ ~spoilt =>
    LET body == BodyOf(answer, calls)
                  \o IF answer.framed THEN <<>> ELSE [i \in 1 .. answer.behind |-> Byte(calls, answer.n + i)]
        whole == held \o body
    IN response_buf = IF Len(whole) < sizeof_buf THEN whole ELSE SubSeq(whole, 1, sizeof_buf - 1)

(* http() asks for what its URL names, of the server at that port of       *)
(* 127.0.0.1, and gets the body of the answer to this request.             *)
GetsItsBody == AskedRight /\ BodyKept
===========================================================================
