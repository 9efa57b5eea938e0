--------------------------- MODULE HttpMessages ---------------------------
(***************************************************************************)
(* HTTP messages as their sender means them: what goes over the            *)
(* connection (Render) and what a receiver is to be told (Expected).       *)
(* Neither is taken from the parser: they are the reference it is checked  *)
(* against, the framing rules of RFC 7230 the comments in http_parser.c    *)
(* cite.                                                                   *)
(*                                                                         *)
(* A message is a record: req (is it a request), first (the start line),   *)
(* said (the part of it reported to a callback), ver, hdrs (kinds of       *)
(* headers), chunks (the sizes of its chunks, when chunked), trailer (kinds*)
(* of headers after the last chunk), skip (what the application's          *)
(* on_headers_complete returns for it).                                    *)
(***************************************************************************)
EXTENDS HttpTokens, SequencesExt

Crlf == <<"CR", "LF">>

\* A header: its name, what follows the colon, and the value the two carry.
Hdr(name, text, value) == [name |-> name, text |-> text, value |-> value]
Line(name, value) == Hdr(name, <<"sp">> \o value \o Crlf, value)

ConnectionName == <<"con", "nec", "tion">>
LengthName == <<"con", "tent-", "length">>
CodingName == <<"transfer-", "encoding">>

HeaderOf == [
  x        |-> Line(<<"x">>, <<"x", "sp", "x">>),
  empty    |-> Hdr(<<"x">>, Crlf, <<>>),
  bare     |-> Hdr(<<"x">>, <<"a", "LF">>, <<"a">>),
  near     |-> Line(<<"con", "tent-", "length", "x">>, <<"9">>),
  close    |-> Line(ConnectionName, <<"clo", "se">>),
  proxy    |-> Line(<<"proxy-", "connection">>, <<"clo", "se">>),
  keep     |-> Line(ConnectionName, <<"keep-", "alive", "sp">>),
  both     |-> Line(ConnectionName, <<"x", ",", "sp", "clo", "se", ",", "up", "grade">>),
  wrapped  |-> Hdr(ConnectionName, Crlf \o <<"sp", "clo", "se">> \o Crlf, <<"clo", "se">>),
  upgrade  |-> Line(<<"up", "grade">>, <<"x">>),
  len0     |-> Line(LengthName, <<"0">>),
  len2     |-> Line(LengthName, <<"2">>),
  len12    |-> Line(LengthName, <<"1", "2">>),
  lenfold  |-> Hdr(LengthName, <<"sp", "2">> \o Crlf \o <<"sp">> \o Crlf, <<"2", "sp">>),
  lensplit |-> Hdr(LengthName, <<"sp", "2">> \o Crlf \o <<"sp", "1">> \o Crlf, <<"2", "sp", "1">>),
  len29    |-> Line(LengthName, <<"2", "9">>),
  len299   |-> Line(LengthName, <<"2", "9", "9">>),
  chunked  |-> Line(CodingName, <<"chun", "ked">>),
  gzip     |-> Line(CodingName, <<"x">>),
  list     |-> Line(CodingName, <<"x", ",", "sp", "chun", "ked">>)]

\* What each kind of header means.
SaysClose == {"close", "proxy", "both", "wrapped"}
SaysKeep == {"keep"}
SaysUpgrade == {"both"}
Codings == {"chunked", "gzip", "list"}
Chunkeds == {"chunked", "list"}
LengthOf == [len0 |-> 0, len2 |-> 2, len12 |-> 12, lenfold |-> 2, len29 |-> 29,
             lensplit |-> 21, len299 |-> 299]
Lengths == DOMAIN LengthOf

KindsOf(m) == Range(m.hdrs)
Coded(m) == KindsOf(m) \cap Codings # {}
Chunked(m) == KindsOf(m) \cap Chunkeds # {}
Sized(m) == KindsOf(m) \cap Lengths # {}
Length(m) == LengthOf[CHOOSE k \in KindsOf(m) : k \in Lengths]
Bodiless(m) == ~m.req /\ m.said.code \in {"101", "204", "304"}
Connects(m) == m.req /\ m.said.method = "CONNECT"
Upgrades(m) == \/ Connects(m)
               \/ /\ "upgrade" \in KindsOf(m) /\ KindsOf(m) \cap SaysUpgrade # {}
                  /\ m.req \/ m.said.code = "101"
               \/ m.skip = 2

\* How the end of the body is found.
Framing(m) ==
  CASE m.skip # 0 -> "none"
    [] Connects(m) -> "none"
    [] Chunked(m) -> "chunked"
    [] Upgrades(m) /\ (Sized(m) => Length(m) = 0) -> "none"
    [] Coded(m) -> "eof"
    [] Sized(m) -> IF Length(m) = 0 THEN "none" ELSE "length"
    [] m.req \/ Bodiless(m) -> "none"
    [] OTHER -> "eof"

Persistent(m) ==
  /\ IF m.ver = "1.1" THEN ~\E k \in KindsOf(m) \cup Range(m.trailer) : k \in SaysClose
                      ELSE \E k \in KindsOf(m) \cup Range(m.trailer) : k \in SaysKeep
  /\ Framing(m) # "eof"

Oversized == {256}

\* A message whose length cannot be told is refused: an unreadable or a second
\* Content-Length where it stands, a contradiction at the end of the headers,
\* a request whose last coding is not chunked once its headers are told.
BadAt(m) == {i \in 1 .. Len(m.hdrs) :
               \/ m.hdrs[i] \in {"lensplit", "len299"}
               \/ m.hdrs[i] \in Lengths /\ \E j \in 1 .. i - 1 : m.hdrs[j] \in Lengths}
Contradicts(m) == Coded(m) /\ Sized(m)
Endless(m) == m.req /\ Framing(m) = "eof"
Unreadable(m) == Framing(m) = "chunked" /\ Range(m.chunks) \cap Oversized # {}
Refused(m) == BadAt(m) # {} \/ Contradicts(m)

---------------------------------------------------------------------------
(* The bytes of a message. *)
RenderHeader(k) == HeaderOf[k].name \o <<":">> \o HeaderOf[k].text
RenderHeaders(ks) == FlattenSeq([i \in 1 .. Len(ks) |-> RenderHeader(ks[i])]) \o Crlf
Bytes(n) == [i \in 1 .. n |-> "b"]
\* Sizes are hexadecimal; the last one is more than an integer of eight bits holds.
SizeText(n) == CASE n = 0 -> <<"0">> [] n = 1 -> <<"1">> [] n = 2 -> <<"0", "2">>
                 [] n = 10 -> <<"a">> [] n = 16 -> <<"1", "0">> [] n = 256 -> <<"1", "0", "0">>
RenderChunk(n) == SizeText(n) \o Crlf \o IF n \in Oversized THEN <<>> ELSE Bytes(n) \o Crlf

EofBody == 2
RenderBody(m) ==
  CASE Framing(m) = "none" -> <<>>
    [] Framing(m) = "length" -> Bytes(Length(m))
    [] Framing(m) = "eof" -> Bytes(EofBody)
    [] Framing(m) = "chunked" ->
         FlattenSeq([i \in 1 .. Len(m.chunks) |-> RenderChunk(m.chunks[i])])
           \o <<"0", ";", "x">> \o Crlf \o RenderHeaders(m.trailer)

\* A refused message goes out with its headers only.
Render(m) == m.first \o RenderHeaders(m.hdrs)
               \o IF BadAt(m) # {} \/ Contradicts(m) THEN <<>> ELSE RenderBody(m)

---------------------------------------------------------------------------
(* The callbacks a message is to cause, data in one piece. *)
\* chunk_header carries the length the callback finds in the parser.
Say(kind) == [on |-> kind, data |-> <<>>]
Tell(kind, data) == [on |-> kind, data |-> data]
TellHeaders(ks) ==
  FlattenSeq([i \in 1 .. Len(ks) |-> << Tell("header_field", HeaderOf[ks[i]].name),
                                        Tell("header_value", HeaderOf[ks[i]].value) >>])

TellChunk(n) ==
  IF n \in Oversized THEN <<>>
  ELSE <<Tell("chunk_header", <<n>>), Tell("body", Bytes(n)), Say("chunk_complete")>>
TellBody(m) ==
  CASE Framing(m) = "none" -> <<>>
    [] Framing(m) = "length" -> <<Tell("body", Bytes(Length(m)))>>
    [] Framing(m) = "eof" -> <<Tell("body", Bytes(EofBody))>>
    [] Framing(m) = "chunked" ->
         FlattenSeq([i \in 1 .. Len(m.chunks) |-> TellChunk(m.chunks[i])])
           \o IF Unreadable(m) THEN <<>> ELSE <<Tell("chunk_header", <<0>>)>> \o TellHeaders(m.trailer) \o <<Say("chunk_complete")>>

TellHead(m) == <<Say("message_begin"), Tell(IF m.req THEN "url" ELSE "status", m.said.data)>>

TellMessage(m) ==
  IF Refused(m) THEN TellHead(m) \o TellHeaders(m.hdrs)
  ELSE TellHead(m) \o TellHeaders(m.hdrs) \o <<Say("headers_complete")>>
         \o IF Endless(m) THEN <<>> ELSE TellBody(m)
              \o IF Unreadable(m) THEN <<>> ELSE <<Say("message_complete")>>

\* After a message that does not persist, or that is refused, nothing more is told.
Accepted(m) == ~Refused(m) /\ ~Endless(m) /\ ~Unreadable(m)
Goes(m) == Accepted(m) /\ Persistent(m) /\ ~Upgrades(m)
Told(ms) == {i \in 1 .. Len(ms) : \A j \in 1 .. i - 1 : Goes(ms[j])}
Expected(ms) == FlattenSeq([i \in 1 .. Cardinality(Told(ms)) |-> TellMessage(ms[i])])

\* t tells no more than e, in the same order.
Begins(t, e) ==
  \/ t = <<>>
  \/ LET n == Len(t) IN
     /\ n <= Len(e) /\ SubSeq(t, 1, n - 1) = SubSeq(e, 1, n - 1)
     /\ t[n].on = e[n].on /\ IsPrefix(t[n].data, e[n].data)
===========================================================================
