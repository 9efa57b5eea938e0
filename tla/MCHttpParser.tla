--------------------------- MODULE MCHttpParser ---------------------------
(* Connections for TLC: messages of every framing, alone and pipelined, and *)
(* bytes that are no message.                                               *)
EXTENDS HttpParser

Response(ver, code, text) ==
  [req |-> FALSE, ver |-> ver, chunks |-> <<>>, trailer |-> <<>>, skip |-> 0, hdrs |-> <<>>,
   said |-> [code |-> code, data |-> text],
   first |-> <<"H", "TTP/", ver, "sp", code>>
             \o (IF text = <<>> THEN <<>> ELSE <<"sp">> \o text) \o Crlf]
Request(method, rest, url, name) ==
  [req |-> TRUE, ver |-> "1.1", chunks |-> <<>>, trailer |-> <<>>, skip |-> 0, hdrs |-> <<>>,
   said |-> [method |-> name, data |-> url],
   first |-> <<method, rest, "sp">> \o url \o <<"sp", "H", "TTP/", "1.1">> \o Crlf]

Ok == Response("1.1", "200", <<"x">>)
Get == Request("G", "ET", <<"/", "?">>, "GET")
Tunnel == Request("C", "ONNECT", <<"x", ":", "1">>, "CONNECT")
Source == [Request("SO", "URCE", <<"/">>, "SOURCE") EXCEPT
             !.first = <<"SO", "URCE", "sp", "/", "sp", "ICE/", "1.1", "LF">>]
Nine == [Request("G", "ET", <<"/">>, "GET") EXCEPT !.ver = "0.9",
           !.first = <<"G", "ET", "sp", "/">> \o Crlf]
HeadOf == Request("H", "EAD", <<"a", ":", "/", "/", "x", "@", "x", "/", "#", "x">>, "HEAD")
NoContent == Response("1.1", "204", <<>>)
Switching == Response("1.1", "101", <<>>)
Old == Response("1.0", "200", <<"x">>)

Kinds == DOMAIN HeaderOf
With(m, hs) == [m EXCEPT !.hdrs = hs]
Input(ms) == [msgs |-> ms, stops |-> 0, bytes |-> FlattenSeq([i \in 1 .. Len(ms) |-> Render(ms[i])])]

\* Every header alone and every pair that says something about the framing.
Framings == {"close", "both", "upgrade", "len0", "len2", "lenfold", "chunked", "gzip"}
Chunks(m) == IF m.chunks = <<>> THEN [m EXCEPT !.chunks = <<1, 2>>] ELSE m
OneHeader == {With(m, <<k>>) : m \in {Ok, Get}, k \in Kinds}
TwoHeaders == {With(m, <<k, l>>) : m \in {Ok, Get}, k \in Framings, l \in Framings}
Others ==
  {With(NoContent, <<>>), With(Switching, <<"upgrade", "both">>), With(Tunnel, <<"x">>),
   With(Source, <<"bare">>), With(Nine, <<>>), With(HeadOf, <<"len0">>), With(Old, <<"keep", "len2">>),
   With(Old, <<"len0">>), With(Old, <<"x">>),
   [With(Ok, <<"len2">>) EXCEPT !.skip = 1], [With(Ok, <<"chunked">>) EXCEPT !.skip = 2],
   [With(Get, <<"chunked">>) EXCEPT !.chunks = <<10>>, !.trailer = <<"x", "close">>],
   [With(Ok, <<"chunked">>) EXCEPT !.chunks = <<16>>, !.trailer = <<"empty">>],
   [With(Ok, <<"chunked">>) EXCEPT !.chunks = <<1, 256>>]}
Then(m) == IF m.req THEN With(Get, <<"len2">>) ELSE With(Ok, <<"len2">>)
\* A body that ends with the connection is the last thing on it.
Closes(m) == Accepted(m) /\ Framing(m) = "eof"
Follow(m) == IF Closes(m) THEN Input(<<m>>) ELSE Input(<<Chunks(m), Then(m)>>)
Messages == {Follow(m) : m \in OneHeader \cup TwoHeaders \cup Others}
Stopped(n, inputs) == {[i EXCEPT !.stops = n] : i \in inputs}

\* Connections whose callbacks may pause the parser or fail.
Interrupted == Stopped(2,
  {Follow(With(Ok, <<"x", "len2">>)),
   Input(<<[With(Ok, <<"chunked">>) EXCEPT !.chunks = <<2>>, !.trailer = <<"x">>]>>),
   Follow(With(Get, <<"wrapped">>)), Follow(With(Ok, <<"empty">>)),
   Input(<<With(Tunnel, <<>>), With(Get, <<>>)>>)})
Connections == Messages \cup Interrupted

\* Bytes that are no message, or the beginning of one: whatever may follow a
\* beginning, two symbols long, and the end of the headers after that.
Reply == <<"H", "TTP/", "1.1", "sp", "200">> \o Crlf
Ask == <<"G", "ET", "sp", "/", "sp", "H", "TTP/", "1.1", "LF">>
RawOf(before, symbols, n, after) ==
  {[msgs |-> <<>>, stops |-> 0, bytes |-> before \o s \o after] : s \in [1 .. n -> symbols]}
Raw ==
  RawOf(<<>>, {"CR", "LF", "H", "TTP/", "EAD", "G", "C", "ET", "sp", "x", "200"}, 3, <<"LF">>)
  \cup RawOf(<<"H", "TTP/">>, {"1.1", "sp", "200", "CR", "LF", "x"}, 4, <<"x">>)
  \cup RawOf(<<"G", "ET", "sp">>, {"a", ":", "/", "?", "#", "@", "[", "sp", "CR", "LF"}, 3, <<"x">>)
  \cup RawOf(<<"C", "ONNECT", "sp">>, {"a", ":", "@", "/", "sp", "1"}, 2, <<"sp", "H">>)
  \cup RawOf(<<"SO", "URCE", "sp", "/", "sp">>, {"sp", "H", "ICE/", "TTP/", "1.1", "LF", "CR"}, 3, <<"LF">>)
  \cup RawOf(Ask, {"x", ":", "sp", "tab", "CR", "LF", "nul"}, 3, Crlf \o Crlf)
  \cup RawOf(Reply \o LengthName \o <<":">>, {"2", "0", "sp", "tab", "CR", "LF", "x"}, 3, Crlf \o <<"b", "b">>)
  \cup RawOf(Ask \o CodingName \o <<":">>, {"chun", "ked", ",", "sp", "CR", "LF"}, 3, Crlf \o Crlf \o <<"x">>)
  \cup RawOf(Reply \o CodingName \o <<":", "chun", "ked">> \o Crlf \o Crlf,
             {"0", "1", "a", ";", "CR", "LF", "b"}, 3, <<"b">> \o Crlf \o <<"b">>)
  \cup RawOf(Reply \o CodingName \o <<":", "chun", "ked">> \o Crlf \o Crlf \o <<"0">> \o Crlf,
             {"x", ":", "CR", "LF"}, 3, <<"LF", "LF">>)
  \cup RawOf(Ask \o <<"x", ":", "x">> \o Crlf, {"x", ":", "sp", "CR", "LF"}, 3, Crlf \o Crlf)
  \cup RawOf(Ask \o ConnectionName \o <<":">>, {"up", "grade", ",", "sp", "clo", "se"}, 2,
             Crlf \o <<"up", "grade", ":", "x">> \o Crlf \o Crlf \o <<"x">>)
===========================================================================
