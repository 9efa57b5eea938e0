-------------------------- MODULE HttpParserProofs --------------------------
(***************************************************************************)
(* Theorems about HttpParser.  The invariant has four layers: Typed and    *)
(* Framed (HttpParserTypes); Ordered, what was told last fits the state,   *)
(* with which every step of HttpParser is one of HttpEvents or none; and   *)
(* Counted, what the limit on the headers rests on.                        *)
(***************************************************************************)
EXTENDS HttpParserTypes

(* What was told last, and whether the head or a chunk is open. *)
Between == {"s_dead", "s_start_req_or_res", "s_start_res", "s_start_req"}
LineBegun == {"s_res_or_resp_H", "s_res_H", "s_res_http_major", "s_res_http_end",
              "s_res_first_status_code", "s_res_status_code", "s_res_status_start",
              "s_req_method", "s_req_method_end", "s_req_spaces_before_url"}
LineTold == {"s_res_line_almost_done", "s_req_http_start", "s_req_http_H", "s_req_http_major",
             "s_req_http_end", "s_req_line_almost_done"}
LineStates == LineBegun \cup UrlStates \cup {"s_res_status"} \cup LineTold
FieldNext == {"s_header_field_start", "s_headers_almost_done"}
ValueNext == {"s_header_value_discard_ws", "s_header_value_discard_ws_almost_done",
              "s_header_value_discard_lws"}
ValueOpen == {"s_header_value_start", "s_header_value"}
ValueTold == {"s_header_almost_done", "s_header_value_lws"}
FieldStates == FieldNext \cup {"s_header_field"} \cup ValueNext \cup ValueOpen \cup ValueTold
Trailing(pr) == "F_TRAILING" \in pr.flags
Before(pr) == (IF Trailing(pr) THEN {"chunk_header"} ELSE {"url", "status"}) \cup {"header_value"}

LastFits(pr, t) ==
  /\ pr.state \in Between => LastOn(t) \in {"none", "message_complete"}
  /\ pr.state \in LineBegun => LastOn(t) = "message_begin"
  /\ pr.state \in UrlStates => LastOn(t) \in {"message_begin", "url"}
  /\ pr.state = "s_res_status" => LastOn(t) \in {"message_begin", "status"}
  /\ pr.state \in LineTold => LastOn(t) \in {"url", "status"}
  /\ pr.state \in FieldNext => LastOn(t) \in Before(pr)
  /\ pr.state = "s_header_field" => LastOn(t) \in Before(pr) \cup {"header_field"}
  /\ pr.state \in ValueNext => LastOn(t) = "header_field"
  /\ pr.state \in ValueOpen => LastOn(t) \in {"header_field", "header_value"}
  /\ pr.state \in ValueTold => LastOn(t) = "header_value"
  /\ pr.state = "s_headers_done" => LastOn(t) = "headers_complete"
  /\ pr.state \in {"s_body_identity", "s_body_identity_eof"} => LastOn(t) \in {"headers_complete", "body"}
  /\ pr.state = "s_message_done" => LastOn(t) \in {"body", "chunk_complete"}
  /\ pr.state \in ChunkSizing => LastOn(t) \in {"headers_complete", "chunk_complete"}
  /\ pr.state \in {"s_chunk_data", "s_chunk_data_almost_done"} => LastOn(t) \in {"chunk_header", "body"}
  /\ pr.state = "s_chunk_data_done" => LastOn(t) = "body"

\* Bytes of a body that are marked and not told yet.
Pending(c, q) == IF c.mark["body"] = 0 THEN 0 ELSE q - c.mark["body"]
DueFits(pr, c, q, t) ==
  /\ pr.state \in LineStates => ~Trailing(pr)
  /\ pr.state \in LineStates \cup FieldStates =>
       IF Trailing(pr) THEN ~HeadOpen(t) /\ Due(t) = 0 ELSE HeadOpen(t) /\ Due(t) = -1
  /\ pr.state \in {"s_headers_done", "s_body_identity", "s_body_identity_eof", "s_message_done"} =>
       ~HeadOpen(t) /\ Due(t) = -1
  /\ pr.state \in ChunkSizing =>
       ~HeadOpen(t) /\ Due(t) = IF LastOn(t) = "chunk_complete" THEN 0 ELSE -1
  /\ pr.state \in {"s_chunk_data", "s_chunk_data_almost_done"} =>
       /\ ~HeadOpen(t) /\ Due(t) = pr.content_length + Pending(c, q)
       /\ LastOn(t) = "chunk_header" => Due(t) > 0
  /\ pr.state = "s_chunk_data_done" => ~HeadOpen(t) /\ Due(t) = 0

\* The body of a chunk is told right behind its header, and is no longer than that said.
Announced(t) == t[Latest(Since(t, "chunk_header"))].data[1]
ToldWell(t) ==
  Since(t, "chunk_header") # {} =>
    LET k == Latest(Since(t, "chunk_header"))
    IN /\ t[k].data # <<>> /\ Announced(t) \in Nat
       /\ ~HeadOpen(t) /\ LastOn(t) # "headers_complete"
       /\ LastOn(t) = "body" => /\ k = Len(t) - 1
                                /\ Len(t[Len(t)].data) \in 1 .. Announced(t)
       /\ LastOn(t) \in {"header_field", "header_value"} =>
            k < Len(t) /\ t[k + 1].on = "header_field" /\ Announced(t) = 0

\* An error is the end: what the call had marked is lost.
Alive == parser.http_errno \in {"OK", "PAUSED"} /\ ~eof
Ordered == ToldWell(told) /\ (Alive => LastFits(parser, told) /\ DueFits(parser, call, p, told))

---------------------------------------------------------------------------
(* What a callback does to the three things HttpEvents keeps. *)
LEMMA JoinAppends ==
  ASSUME NEW t \in Seq(Entry), NEW e \in Entry, LastOn(t) # e.on, NEW u, u = Join(t, e)
  PROVE  /\ u = Append(t, e) /\ LastOn(u) = e.on /\ u \in Seq(Entry) /\ Len(t) \in Nat
         /\ Len(u) = Len(t) + 1 /\ u[Len(t) + 1] = e /\ \A i \in 1 .. Len(t) : u[i] = t[i]
<1>1. u = Append(t, e)
  BY DEF Join, LastOn
<1>2. /\ u \in Seq(Entry) /\ Len(u) = Len(t) + 1 /\ Len(t) \in Nat
      /\ u[Len(t) + 1] = e /\ \A i \in 1 .. Len(t) : u[i] = t[i]
  BY <1>1
<1>3. u # <<>>
  BY <1>2
<1> QED  BY <1>1, <1>2, <1>3 DEF LastOn

\* Data of the callback that came last are joined to it, the rest stays.
LEMMA JoinExtends ==
  ASSUME NEW t \in Seq(Entry), NEW e \in Entry, LastOn(t) = e.on
  PROVE  LET u == Join(t, e)
         IN
         /\ Len(t) \in Nat \ {0} /\ Len(u) = Len(t) /\ DOMAIN u = DOMAIN t /\ LastOn(u) = e.on
         /\ \A i \in 1 .. Len(t) : u[i].on = t[i].on
         /\ \A i \in 1 .. Len(t) - 1 : u[i] = t[i]
         /\ u[Len(t)].data = t[Len(t)].data \o e.data
<1> DEFINE u == Join(t, e)
           n == Len(t)
           v == [t EXCEPT ![n] = [t[n] EXCEPT !.data = t[n].data \o e.data]]
<1>1. t # <<>> /\ t[n].on = e.on
  BY DEF LastOn, Entry, Callbacks
<1>2. n \in Nat \ {0} /\ n \in DOMAIN t /\ DOMAIN t = 1 .. n /\ t[n] \in Entry
  BY <1>1
<1>3. u = v
  BY <1>1 DEF Join
<1> HIDE DEF u
<1>4. Len(u) = n /\ DOMAIN u = DOMAIN t
  BY <1>2, <1>3
<1>5. u[n] = [t[n] EXCEPT !.data = t[n].data \o e.data]
  BY <1>2, <1>3
<1>6. u[n].on = e.on /\ u[n].data = t[n].data \o e.data
  BY <1>1, <1>2, <1>5 DEF Entry
<1>7. \A i \in 1 .. n - 1 : u[i] = t[i]
  BY <1>2, <1>3
<1>8. \A i \in 1 .. n : u[i].on = t[i].on
  BY <1>1, <1>2, <1>6, <1>7
<1>9. LastOn(u) = e.on
  BY <1>2, <1>4, <1>6 DEF LastOn
<1> QED  BY <1>2, <1>4, <1>6, <1>7, <1>8, <1>9 DEF u

\* What came since the message began, with one callback more: message_begin forgets it.
LEMMA SinceAppended ==
  ASSUME NEW t \in Seq(Entry), NEW e \in Entry, NEW kind
  PROVE  /\ e.on = "message_begin" => Since(Append(t, e), kind) = IF kind = e.on THEN {Len(t) + 1} ELSE {}
         /\ e.on # "message_begin" /\ kind # e.on => Since(Append(t, e), kind) = Since(t, kind)
         /\ e.on # "message_begin" /\ kind = e.on => Since(Append(t, e), kind) = Since(t, kind) \cup {Len(t) + 1}
<1> DEFINE n == Len(t)
           u == Append(t, e)
<1>1. n \in Nat /\ DOMAIN t = 1 .. n
  OBVIOUS
<1>2. Len(u) = n + 1 /\ DOMAIN u = 1 .. n + 1 /\ u[n + 1] = e /\ \A i \in 1 .. n : u[i] = t[i]
  OBVIOUS
<1> HIDE DEF n, u
<1>3. ASSUME NEW i \in 1 .. n
      PROVE  i \in Since(u, kind) <=> i \in Since(t, kind) /\ e.on # "message_begin"
  <2>1. u[i] = t[i] /\ i \in DOMAIN u /\ i \in DOMAIN t /\ i + 1 \in 1 .. n + 1
    BY <1>1, <1>2
  <2>2. (\A j \in i + 1 .. n + 1 : u[j].on # "message_begin")
        <=> (\A j \in i + 1 .. n : t[j].on # "message_begin") /\ e.on # "message_begin"
    BY <1>1, <1>2
  <2> QED  BY <1>1, <1>2, <2>1, <2>2 DEF Since, n
<1>4. n + 1 \in Since(u, kind) <=> kind = e.on
  <2>1. \A j \in n + 2 .. n + 1 : FALSE
    BY <1>1
  <2> QED  BY <1>1, <1>2, <2>1 DEF Since
<1>5. Since(u, kind) \subseteq 1 .. n + 1 /\ Since(t, kind) \subseteq 1 .. n
  BY <1>1, <1>2 DEF Since
<1>6. n + 1 \notin 1 .. n /\ \A i \in 1 .. n + 1 : i \in 1 .. n \/ i = n + 1
  BY <1>1
<1>7. CASE e.on = "message_begin"
  BY <1>3, <1>4, <1>5, <1>6, <1>7 DEF n, u
<1>8. CASE e.on # "message_begin"
  BY <1>3, <1>4, <1>5, <1>6, <1>8 DEF n, u
<1> QED  BY <1>7, <1>8

\* Joined data add no callback.
LEMMA SinceExtended ==
  ASSUME NEW t \in Seq(Entry), NEW e \in Entry, LastOn(t) = e.on, NEW kind,
         NEW u, u = Join(t, e)
  PROVE  Since(u, kind) = Since(t, kind)
<1> DEFINE n == Len(t)
<1>1. n \in Nat \ {0} /\ Len(u) = n /\ DOMAIN u = DOMAIN t /\ DOMAIN t = 1 .. n /\ \A i \in 1 .. n : u[i].on = t[i].on
  <2>1. DOMAIN t = 1 .. n
    OBVIOUS
  <2> QED  BY <2>1, JoinExtends
<1> HIDE DEF n
<1>2. \A i \in 1 .. n : (\A j \in i + 1 .. n : u[j].on # "message_begin") <=> (\A j \in i + 1 .. n : t[j].on # "message_begin")
  BY <1>1
<1>3. \A i \in 1 .. n : i \in Since(u, kind) <=> i \in Since(t, kind)
  BY <1>1, <1>2 DEF Since, n
<1>4. Since(u, kind) \subseteq 1 .. n /\ Since(t, kind) \subseteq 1 .. n
  BY <1>1 DEF Since
<1> QED  BY <1>3, <1>4

\* The last of some indices is one of them, and no other is behind it.
LEMMA LatestIs ==
  ASSUME NEW n \in Nat, NEW S \in SUBSET (1 .. n), S # {}
  PROVE  Latest(S) \in S /\ \A j \in S : j <= Latest(S)
<1> DEFINE R == {n - i : i \in S}
<1>1. R \in SUBSET Nat /\ R # {}
  <2>1. \A i \in 1 .. n : n - i \in Nat
    OBVIOUS
  <2> QED  BY <2>1
<1>2. PICK x \in R : \A y \in R : x <= y
  <2> HIDE DEF R
  <2> QED  BY <1>1, LeastNatural, Zenon
<1>3. PICK i \in S : x = n - i
  BY <1>2
<1>4. \A j \in S : j <= i
  BY <1>2, <1>3
<1>5. \E k \in S : \A j \in S : j <= k
  BY <1>4
<1>6. (CHOOSE k \in S : \A j \in S : j <= k) \in S /\ \A i0 \in S : i0 <= (CHOOSE k \in S : \A j \in S : j <= k)
  BY <1>5, Zenon
<1> QED  BY <1>6 DEF Latest

\* An index at the end is the last one.
LEMMA LatestOf ==
  ASSUME NEW n \in Nat, NEW S \in SUBSET (1 .. n), n \in S
  PROVE  Latest(S) = n
<1>1. Latest(S) \in S /\ \A j \in S : j <= Latest(S)
  BY LatestIs
<1> DEFINE k == Latest(S)
<1> HIDE DEF k
<1>2. k \in 1 .. n /\ n <= k
  BY <1>1 DEF k
<1>3. k = n
  BY <1>2
<1> QED  BY <1>3 DEF k

(* The chunk headers since the message began: where the last one is. *)
Heads(t) == Since(t, "chunk_header")

\* The last chunk_header of the message is where it is, if there is one.
LEMMA HeadsTyped ==
  ASSUME NEW t \in Seq(Entry)
  PROVE  /\ Heads(t) \in SUBSET (1 .. Len(t)) /\ Len(t) \in Nat
         /\ Heads(t) # {} => Latest(Heads(t)) \in Heads(t) /\ Latest(Heads(t)) \in 1 .. Len(t)
         /\ LastOn(t) = "chunk_header" => Heads(t) # {} /\ Latest(Heads(t)) = Len(t)
<1>1. Heads(t) \in SUBSET (1 .. Len(t)) /\ Len(t) \in Nat
  BY DEF Heads, Since
<1>2. Heads(t) # {} => Latest(Heads(t)) \in Heads(t) /\ Latest(Heads(t)) \in 1 .. Len(t)
  BY <1>1, LatestIs
<1>3. LastOn(t) = "chunk_header" => Len(t) \in Heads(t)
  <2> HAVE LastOn(t) = "chunk_header"
  <2>1. Len(t) \in DOMAIN t /\ t[Len(t)].on = "chunk_header" /\ Len(t) \in Nat
    BY DEF LastOn
  <2>2. \A j \in Len(t) + 1 .. Len(t) : FALSE
    BY <2>1
  <2> QED  BY <2>1, <2>2 DEF Heads, Since
<1>4. LastOn(t) = "chunk_header" => Heads(t) # {} /\ Latest(Heads(t)) = Len(t)
  BY <1>1, <1>3, LatestOf
<1> QED  BY <1>1, <1>2, <1>4

\* Due and ToldWell in terms of Heads.
LEMMA DueIs ==
  ASSUME NEW t \in Seq(Entry)
  PROVE  /\ Heads(t) = {} => Due(t) = -1
         /\ Heads(t) # {} =>
              LET k == Latest(Heads(t))
              IN  /\ LastOn(t) \in {"chunk_complete", "message_complete"} =>
                       Due(t) = IF Announced(t) = 0 THEN -1 ELSE 0
                  /\ LastOn(t) \notin {"chunk_complete", "message_complete"} =>
                       Due(t) = IF k < Len(t) /\ t[k + 1].on = "body"
                                THEN Announced(t) - Len(t[k + 1].data) ELSE Announced(t)
BY DEF Due, Heads, Announced

---------------------------------------------------------------------------
\* A callback of another kind goes behind all the others and opens or closes no head.
LEMMA Appended ==
  ASSUME NEW t \in Seq(Entry), NEW e \in Entry, LastOn(t) # e.on,
         e.on \notin {"message_begin", "chunk_header"}, NEW u, u = Join(t, e),
         NEW k, k = Latest(Heads(t))
  PROVE  /\ Heads(u) = Heads(t) /\ LastOn(u) = e.on /\ Len(u) = Len(t) + 1 /\ u[Len(u)] = e
         /\ HeadOpen(u) <=> HeadOpen(t) /\ e.on # "headers_complete"
         /\ Heads(t) # {} => /\ k \in 1 .. Len(t) /\ u[k] = t[k] /\ Announced(u) = Announced(t)
                             /\ k < Len(t) => u[k + 1] = t[k + 1]
                             /\ k = Len(t) => u[k + 1] = e
<1> DEFINE n == Len(t)
<1>1. /\ u = Append(t, e) /\ LastOn(u) = e.on /\ Len(u) = n + 1 /\ u[n + 1] = e
      /\ \A i \in 1 .. n : u[i] = t[i]
  BY JoinAppends
<1>2. Heads(u) = Heads(t)
  <2>1. Since(Append(t, e), "chunk_header") = Since(t, "chunk_header")
    BY SinceAppended
  <2> QED  BY <1>1, <2>1 DEF Heads
<1>3. HeadOpen(u) <=> HeadOpen(t) /\ e.on # "headers_complete"
  <2>1. Since(Append(t, e), "headers_complete") = IF e.on = "headers_complete" THEN Since(t, "headers_complete") \cup {n + 1}
                                                ELSE Since(t, "headers_complete")
    BY SinceAppended
  <2> QED  BY <1>1, <2>1 DEF HeadOpen
<1>4. n \in Nat /\ (Heads(t) # {} => k \in 1 .. n)
  BY HeadsTyped
<1> HIDE DEF n
<1>5. ASSUME Heads(t) # {}
      PROVE  /\ k \in 1 .. n /\ u[k] = t[k] /\ Announced(u) = Announced(t)
             /\ k < n => u[k + 1] = t[k + 1]
             /\ k = n => u[k + 1] = e
  <2>1. k \in 1 .. n /\ Latest(Heads(u)) = k
    BY <1>2, <1>4, <1>5
  <2>2. u[k] = t[k] /\ (k < n => u[k + 1] = t[k + 1]) /\ (k = n => u[k + 1] = e)
    BY <1>1, <1>4, <2>1
  <2> QED  BY <2>1, <2>2 DEF Announced, Heads
<1> QED  BY <1>1, <1>2, <1>3, <1>5 DEF n

\* Joined data change neither the last callback nor the head.
LEMMA Extended ==
  ASSUME NEW t \in Seq(Entry), NEW e \in Entry, LastOn(t) = e.on, NEW u, u = Join(t, e)
  PROVE  /\ Heads(u) = Heads(t) /\ LastOn(u) = e.on /\ Len(u) = Len(t)
         /\ HeadOpen(u) <=> HeadOpen(t)
         /\ Len(u[Len(u)].data) = Len(t[Len(t)].data) + Len(e.data)
<1> DEFINE n == Len(t)
<1>1. /\ n \in Nat \ {0} /\ Len(u) = n /\ LastOn(u) = e.on
      /\ u[n].data = t[n].data \o e.data
  BY JoinExtends
<1>2. Heads(u) = Heads(t) /\ (HeadOpen(u) <=> HeadOpen(t))
  BY SinceExtended DEF Heads, HeadOpen
<1>3. Len(u[n].data) = Len(t[n].data) + Len(e.data)
  <2>1. t[n] \in Entry
    BY <1>1
  <2>2. t[n].data \in Seq(Piece) /\ e.data \in Seq(Piece)
    BY <2>1 DEF Entry
  <2> QED  BY <1>1, <2>2
<1> QED  BY <1>1, <1>2, <1>3

\* The last chunk header is not the entry that grows.
LEMMA ExtendedBehind ==
  ASSUME NEW t \in Seq(Entry), NEW e \in Entry, LastOn(t) = e.on, e.on # "chunk_header",
         Heads(t) # {}, NEW k, k = Latest(Heads(t))
  PROVE  LET u == Join(t, e)
         IN  /\ k \in 1 .. Len(t) - 1 /\ u[k] = t[k] /\ Announced(u) = Announced(t)
             /\ u[k + 1].on = t[k + 1].on
             /\ k + 1 < Len(t) => u[k + 1] = t[k + 1]
<1> DEFINE n == Len(t)
           u == Join(t, e)
<1>1. /\ n \in Nat \ {0}
      /\ \A i \in 1 .. n : u[i].on = t[i].on
      /\ \A i \in 1 .. n - 1 : u[i] = t[i]
  BY JoinExtends
<1>2. Heads(u) = Heads(t)
  BY SinceExtended DEF Heads
<1>4. k \in Heads(t) /\ k \in 1 .. n
  BY HeadsTyped
<1>5. t[n].on = e.on
  BY <1>1 DEF LastOn
<1> HIDE DEF n, u
<1>6. k \in 1 .. n /\ t[k].on = "chunk_header" /\ Latest(Heads(u)) = k
  BY <1>2, <1>4 DEF Heads, Since
<1>7. k # n
  BY <1>5, <1>6
<1>8. k \in 1 .. n - 1
  BY <1>1, <1>6, <1>7
<1>9. u[k] = t[k] /\ u[k + 1].on = t[k + 1].on /\ (k + 1 < n => u[k + 1] = t[k + 1])
  <2>1. k + 1 \in 1 .. n /\ (k + 1 < n => k + 1 \in 1 .. n - 1)
    BY <1>1, <1>8
  <2> QED  BY <1>1, <1>8, <2>1
<1>10. Announced(u) = Announced(t)
  BY <1>6, <1>9 DEF Announced, Heads
<1> QED  BY <1>8, <1>9, <1>10 DEF u, n

\* ToldWell once more, in terms of Heads.
Wellness(t) ==
  LET k == Latest(Heads(t))
  IN Heads(t) # {} =>
       /\ t[k].data # <<>> /\ Announced(t) \in Nat
       /\ ~HeadOpen(t) /\ LastOn(t) # "headers_complete"
       /\ LastOn(t) = "body" => /\ k = Len(t) - 1
                                /\ Len(t[Len(t)].data) \in 1 .. Announced(t)
       /\ LastOn(t) \in {"header_field", "header_value"} =>
            k < Len(t) /\ t[k + 1].on = "header_field" /\ Announced(t) = 0

\* ToldWell, with the last chunk_header named once.
LEMMA WellIs == ASSUME NEW t PROVE ToldWell(t) <=> Wellness(t)
BY DEF ToldWell, Wellness, Heads

(* The callbacks, one kind after the other: what each leaves to be told. *)
LEMMA TellsBegin ==
  ASSUME NEW t \in Seq(Entry), LastOn(t) # "message_begin", NEW e \in Entry, e.on = "message_begin", NEW u, u = Join(t, e)
  PROVE  ToldWell(u) /\ LastOn(u) = "message_begin" /\ HeadOpen(u) /\ Due(u) = -1
<1>1. u = Append(t, e) /\ LastOn(u) = e.on /\ u \in Seq(Entry)
  BY JoinAppends
<1>2. Heads(u) = {} /\ HeadOpen(u)
  BY <1>1, SinceAppended DEF Heads, HeadOpen
<1>3. ToldWell(u) /\ Due(u) = -1
  BY <1>1, <1>2, DueIs, WellIs DEF Wellness
<1> QED  BY <1>1, <1>2, <1>3

\* In an open head no chunk is due, before and after a callback of the head.
LEMMA TellsHead ==
  ASSUME NEW t \in Seq(Entry), ToldWell(t), HeadOpen(t), NEW e \in Entry,
         e.on \in {"url", "status", "header_field", "header_value"}, NEW u, u = Join(t, e)
  PROVE  ToldWell(u) /\ LastOn(u) = e.on /\ HeadOpen(u) /\ Due(u) = Due(t) /\ Due(t) = -1
<1>1. Heads(t) = {}
  BY WellIs DEF Wellness
<1>2. u \in Seq(Entry)
  BY JoinTyped
<1>3. Heads(u) = Heads(t) /\ LastOn(u) = e.on /\ HeadOpen(u)
  <2>1. CASE LastOn(t) = e.on
    BY <2>1, Extended
  <2>2. CASE LastOn(t) # e.on
    BY <2>2, Appended
  <2> QED  BY <2>1, <2>2
<1>4. ToldWell(u) /\ Due(u) = -1 /\ Due(t) = -1
  BY <1>1, <1>2, <1>3, DueIs, WellIs DEF Wellness
<1> QED  BY <1>3, <1>4

\* Trailers come behind the chunk of length zero, and none is due after them.
LEMMA TellsTrailer ==
  ASSUME NEW t \in Seq(Entry), ToldWell(t), ~HeadOpen(t), Due(t) = 0, NEW e \in Entry,
         \/ e.on = "header_field" /\ LastOn(t) \in {"chunk_header", "header_field", "header_value"}
         \/ e.on = "header_value" /\ LastOn(t) \in {"header_field", "header_value"}, NEW u, u = Join(t, e)
  PROVE  ToldWell(u) /\ LastOn(u) = e.on /\ ~HeadOpen(u) /\ Due(u) = 0
<1>0. PICK k : k = Latest(Heads(t))
  OBVIOUS
<1> USE <1>0
<1>1. Heads(t) # {}
  BY DueIs
<1>2. u \in Seq(Entry) /\ Len(t) \in Nat
  BY JoinTyped
<1>3. /\ t[k].data # <<>> /\ Announced(t) = 0 /\ k \in 1 .. Len(t)
      /\ LastOn(t) # "chunk_header" => k < Len(t) /\ t[k + 1].on = "header_field"
      /\ LastOn(t) = "chunk_header" => k = Len(t)
  <2>1. LastOn(t) = "chunk_header" => k = Len(t) /\ Announced(t) = 0
    BY <1>1, <1>2, DueIs, HeadsTyped
  <2> QED  BY <1>1, <2>1, WellIs, HeadsTyped DEF Wellness
<1>4. /\ Heads(u) = Heads(t) /\ LastOn(u) = e.on /\ ~HeadOpen(u) /\ u[k] = t[k] /\ Announced(u) = 0
      /\ k < Len(u) /\ u[k + 1].on = "header_field"
  <2>1. CASE LastOn(t) = e.on
    <3>1. LastOn(t) # "chunk_header"
      BY <2>1
    <3>2. /\ Heads(u) = Heads(t) /\ LastOn(u) = e.on /\ (HeadOpen(u) <=> HeadOpen(t)) /\ Len(u) = Len(t)
      BY <2>1, Extended
    <3>3. k \in 1 .. Len(t) - 1 /\ u[k] = t[k] /\ Announced(u) = Announced(t) /\ u[k + 1].on = t[k + 1].on
      BY <1>1, <2>1, <3>1, ExtendedBehind
    <3> QED  BY <1>2, <1>3, <3>1, <3>2, <3>3
  <2>2. CASE LastOn(t) # e.on
    <3>1. CASE LastOn(t) = "chunk_header"
      BY <1>1, <1>2, <1>3, <2>2, <3>1, Appended
    <3>2. CASE LastOn(t) # "chunk_header"
      BY <1>1, <1>2, <1>3, <2>2, <3>2, Appended
    <3> QED  BY <3>1, <3>2
  <2> QED  BY <2>1, <2>2
<1>5. Latest(Heads(u)) = k
  BY <1>4
<1>6. ToldWell(u)
  BY <1>1, <1>3, <1>4, <1>5, WellIs DEF Wellness
<1>7. Due(u) = 0
  BY <1>1, <1>2, <1>4, <1>5, DueIs
<1> QED  BY <1>4, <1>6, <1>7

\* headers_complete closes the head, no chunk is due.
LEMMA TellsHeadersComplete ==
  ASSUME NEW t \in Seq(Entry), ToldWell(t), HeadOpen(t), LastOn(t) # "headers_complete",
         NEW e \in Entry, e.on = "headers_complete", NEW u, u = Join(t, e)
  PROVE  ToldWell(u) /\ LastOn(u) = "headers_complete" /\ ~HeadOpen(u) /\ Due(u) = -1 /\ Due(t) = -1
<1>1. Heads(t) = {}
  BY WellIs DEF Wellness
<1>2. u \in Seq(Entry)
  BY JoinTyped
<1>3. Heads(u) = {} /\ LastOn(u) = e.on /\ ~HeadOpen(u)
  BY <1>1, Appended
<1>4. ToldWell(u) /\ Due(u) = -1 /\ Due(t) = -1
  BY <1>1, <1>2, <1>3, DueIs, WellIs DEF Wellness
<1> QED  BY <1>3, <1>4

\* chunk_header makes as much due as it announces.
LEMMA TellsChunkHeader ==
  ASSUME NEW t \in Seq(Entry), ~HeadOpen(t), LastOn(t) # "chunk_header",
         NEW n \in Nat, NEW e \in Entry, e = [on |-> "chunk_header", data |-> <<n>>], NEW u, u = Join(t, e)
  PROVE  ToldWell(u) /\ LastOn(u) = "chunk_header" /\ ~HeadOpen(u) /\ Due(u) = n
<1> DEFINE m == Len(t) + 1
<1>1. /\ u = Append(t, e) /\ LastOn(u) = e.on /\ u \in Seq(Entry) /\ Len(u) = m /\ u[m] = e
      /\ m \in Nat
  BY JoinAppends
<1>2. ~HeadOpen(u)
  <2>1. Since(Append(t, e), "headers_complete") = Since(t, "headers_complete")
    BY SinceAppended
  <2> QED  BY <1>1, <2>1 DEF HeadOpen
<1>3. Heads(u) # {} /\ Latest(Heads(u)) = m
  BY <1>1, HeadsTyped
<1> HIDE DEF m
<1>4. Announced(u) = n /\ u[m].data # <<>>
  <2>1. u[m].data = <<n>>
    BY <1>1
  <2> QED  BY <1>3, <2>1 DEF Announced, Heads
<1>5. ToldWell(u)
  BY <1>1, <1>2, <1>3, <1>4, WellIs DEF Wellness
<1>6. Due(u) = n
  BY <1>1, <1>3, <1>4, DueIs
<1> QED  BY <1>1, <1>2, <1>5, <1>6

\* A body outside of chunks makes nothing due.
LEMMA TellsBody ==
  ASSUME NEW t \in Seq(Entry), ToldWell(t), ~HeadOpen(t), Due(t) = -1,
         LastOn(t) \in {"headers_complete", "body"}, NEW e \in Entry, e.on = "body", NEW u, u = Join(t, e)
  PROVE  ToldWell(u) /\ LastOn(u) = "body" /\ ~HeadOpen(u) /\ Due(u) = -1
<1>0. PICK k : k = Latest(Heads(t))
  OBVIOUS
<1> USE <1>0
<1>1. Heads(t) = {}
  <2> SUFFICES ASSUME Heads(t) # {} PROVE FALSE
    OBVIOUS
  <2>1. /\ Announced(t) \in Nat /\ LastOn(t) = "body" /\ k = Len(t) - 1 /\ Len(t) \in Nat
        /\ Len(t[Len(t)].data) \in 1 .. Announced(t) /\ t[Len(t)].on = "body"
    BY WellIs, HeadsTyped DEF Wellness, LastOn
  <2>2. k + 1 = Len(t) /\ k < Len(t) /\ t[k + 1] = t[Len(t)]
    BY <2>1
  <2>3. Due(t) = Announced(t) - Len(t[Len(t)].data)
    BY <2>1, <2>2, DueIs
  <2> QED  BY <2>1, <2>3
<1>2. u \in Seq(Entry)
  BY JoinTyped
<1>3. Heads(u) = {} /\ LastOn(u) = e.on /\ ~HeadOpen(u)
  <2>1. CASE LastOn(t) = e.on
    <3>1. Heads(u) = Heads(t) /\ LastOn(u) = e.on /\ (HeadOpen(u) <=> HeadOpen(t))
      BY <2>1, Extended
    <3> QED  BY <1>1, <3>1
  <2>2. CASE LastOn(t) # e.on
    BY <1>1, <2>2, Appended
  <2> QED  BY <2>1, <2>2
<1>4. ToldWell(u) /\ Due(u) = -1
  BY <1>2, <1>3, DueIs, WellIs DEF Wellness
<1> QED  BY <1>3, <1>4

\* Two parts of a chunk, the second of what the first left, are no more than the chunk.
LEMMA SumWithin ==
  ASSUME NEW a \in Nat, NEW x \in 1 .. a, NEW y \in 1 .. (a - x)
  PROVE  x + y \in 1 .. a
OBVIOUS

\* A part of a chunk is due no more.
LEMMA TellsChunk ==
  ASSUME NEW t \in Seq(Entry), ToldWell(t), ~HeadOpen(t), LastOn(t) \in {"chunk_header", "body"},
         NEW e \in Entry, e.on = "body", Len(e.data) \in 1 .. Due(t), NEW u, u = Join(t, e)
  PROVE  ToldWell(u) /\ LastOn(u) = "body" /\ ~HeadOpen(u) /\ Due(u) = Due(t) - Len(e.data)
<1>0. PICK k : k = Latest(Heads(t))
  OBVIOUS
<1>00. PICK n : n = Len(t)
  OBVIOUS
<1> USE <1>0, <1>00
<1>1. Heads(t) # {}
  <2>1. Due(t) # -1
    OBVIOUS
  <2> QED  BY <2>1, DueIs
<1>2. u \in Seq(Entry) /\ n \in Nat /\ Len(u) \in Nat
  BY JoinTyped
<1>3. t[k].data # <<>> /\ Announced(t) \in Nat /\ k \in 1 .. n
  BY <1>1, WellIs, HeadsTyped DEF Wellness
<1>4. CASE LastOn(t) = "body"
  <2>1. k = n - 1 /\ Len(t[n].data) \in 1 .. Announced(t) /\ t[n].on = "body"
    BY <1>1, <1>4, WellIs DEF Wellness, LastOn
  <2>2. k + 1 = n /\ k < n /\ t[k + 1] = t[n]
    BY <1>2, <2>1
  <2>3. Due(t) = Announced(t) - Len(t[n].data)
    BY <1>1, <1>4, <2>1, <2>2, DueIs
  <2>4. /\ Heads(u) = Heads(t) /\ LastOn(u) = "body" /\ Len(u) = n /\ ~HeadOpen(u)
        /\ Len(u[n].data) = Len(t[n].data) + Len(e.data)
        /\ u[k] = t[k] /\ Announced(u) = Announced(t) /\ u[k + 1].on = "body"
    <3>1. /\ Heads(u) = Heads(t) /\ LastOn(u) = e.on /\ (HeadOpen(u) <=> HeadOpen(t)) /\ Len(u) = Len(t)
          /\ Len(u[Len(u)].data) = Len(t[Len(t)].data) + Len(e.data)
      <4>1. LastOn(t) = e.on
        BY <1>4
      <4> QED  BY <4>1, Extended
    <3>2. u[k] = t[k] /\ Announced(u) = Announced(t) /\ u[k + 1].on = t[k + 1].on
      BY <1>1, <1>4, ExtendedBehind
    <3> QED  BY <1>4, <2>1, <2>2, <3>1, <3>2
  <2>5. Latest(Heads(u)) = k
    BY <2>4
  <2>6. Len(u[n].data) \in 1 .. Announced(u)
    <3>1. PICK a \in Nat, x \in Nat, y \in Nat : /\ a = Announced(t) /\ x = Len(t[n].data) /\ y = Len(e.data)
                                                 /\ x \in 1 .. a /\ y \in 1 .. (a - x)
      <4>1. Len(t[n].data) \in Nat /\ Len(e.data) \in Nat
        BY <1>3, <2>1, <2>3
      <4> QED  BY <1>3, <2>1, <2>3, <4>1
    <3>2. x + y \in 1 .. a
      BY <3>1, SumWithin
    <3>3. Len(t[n].data) + Len(e.data) \in 1 .. Announced(t)
      BY <3>1, <3>2
    <3> QED  BY <2>4, <3>3
  <2>7. ToldWell(u)
    BY <1>3, <2>1, <2>4, <2>5, <2>6, WellIs DEF Wellness
  <2>8. Due(u) = Announced(u) - Len(u[k + 1].data)
    BY <1>1, <1>2, <2>2, <2>4, <2>5, DueIs
  <2>9. Due(u) = Due(t) - Len(e.data)
    <3>1. PICK a \in Nat, x \in Nat, y \in Nat : a = Announced(t) /\ x = Len(t[n].data) /\ y = Len(e.data)
      BY <1>3, <2>1, <2>3
    <3>2. a - (x + y) = (a - x) - y
      OBVIOUS
    <3> QED  BY <2>2, <2>3, <2>4, <2>8, <3>1, <3>2
  <2> QED  BY <2>4, <2>7, <2>9
<1>5. CASE LastOn(t) = "chunk_header"
  <2>1. k = n
    BY <1>5, HeadsTyped
  <2>2. Due(t) = Announced(t)
    <3>1. ~(k < Len(t))
      BY <1>2, <2>1
    <3> QED  BY <1>1, <1>5, <3>1, DueIs
  <2>3. /\ Heads(u) = Heads(t) /\ LastOn(u) = "body" /\ Len(u) = n + 1 /\ ~HeadOpen(u) /\ u[n + 1] = e
        /\ u[k] = t[k] /\ Announced(u) = Announced(t)
    <3>1. /\ Heads(u) = Heads(t) /\ LastOn(u) = e.on /\ Len(u) = Len(t) + 1 /\ u[Len(u)] = e
          /\ HeadOpen(u) <=> HeadOpen(t) /\ e.on # "headers_complete"
      BY <1>5, Appended
    <3>2. u[k] = t[k] /\ Announced(u) = Announced(t)
      BY <1>1, <1>5, Appended
    <3> QED  BY <1>2, <3>1, <3>2
  <2>4. Latest(Heads(u)) = k
    BY <2>3
  <2>5. Len(u[n + 1].data) \in 1 .. Announced(u)
    BY <1>3, <2>2, <2>3
  <2>6. ToldWell(u)
    BY <1>2, <1>3, <2>1, <2>3, <2>4, <2>5, WellIs DEF Wellness
  <2>7. Due(u) = Announced(u) - Len(u[k + 1].data)
    BY <1>1, <1>2, <2>1, <2>3, <2>4, DueIs
  <2> QED  BY <2>1, <2>2, <2>3, <2>6, <2>7
<1> QED  BY <1>4, <1>5

\* A chunk is complete; behind the empty one no other is due.
LEMMA TellsChunkComplete ==
  ASSUME NEW t \in Seq(Entry), ToldWell(t), ~HeadOpen(t), Due(t) = 0,
         LastOn(t) \in {"chunk_header", "body", "header_value"}, NEW e \in Entry, e.on = "chunk_complete", NEW u, u = Join(t, e)
  PROVE  /\ ToldWell(u) /\ LastOn(u) = "chunk_complete" /\ ~HeadOpen(u)
         /\ Due(u) = IF LastOn(t) = "body" THEN 0 ELSE -1
<1>0. PICK k : k = Latest(Heads(t))
  OBVIOUS
<1> USE <1>0
<1>1. Heads(t) # {}
  BY DueIs
<1>2. u \in Seq(Entry) /\ Len(t) \in Nat
  BY JoinTyped
<1>3. /\ t[k].data # <<>> /\ Announced(t) \in Nat
      /\ LastOn(t) = "body" => Announced(t) >= 1
      /\ LastOn(t) = "header_value" => Announced(t) = 0
      /\ LastOn(t) = "chunk_header" => k = Len(t)
  BY <1>1, WellIs, HeadsTyped DEF Wellness
<1>4. LastOn(t) = "chunk_header" => Announced(t) = 0
  BY <1>1, <1>2, <1>3, DueIs
<1>5. /\ Heads(u) = Heads(t) /\ LastOn(u) = "chunk_complete" /\ ~HeadOpen(u)
      /\ u[k] = t[k] /\ Announced(u) = Announced(t)
  BY <1>1, Appended
<1>6. Latest(Heads(u)) = k
  BY <1>5
<1>7. ToldWell(u)
  BY <1>3, <1>5, <1>6, WellIs DEF Wellness
<1>8. Due(u) = IF Announced(u) = 0 THEN -1 ELSE 0
  BY <1>1, <1>2, <1>5, DueIs
<1> QED  BY <1>3, <1>4, <1>5, <1>7, <1>8

\* A message is complete with nothing due.
LEMMA TellsComplete ==
  ASSUME NEW t \in Seq(Entry), ToldWell(t), ~HeadOpen(t), Due(t) = -1,
         LastOn(t) \in {"headers_complete", "body", "chunk_complete"},
         NEW e \in Entry, e.on = "message_complete", NEW u, u = Join(t, e)
  PROVE  ToldWell(u) /\ LastOn(u) = "message_complete" /\ ~HeadOpen(u) /\ Due(u) = -1
<1>0. PICK k : k = Latest(Heads(t))
  OBVIOUS
<1> USE <1>0
<1>1. u \in Seq(Entry) /\ Len(t) \in Nat
  BY JoinTyped
<1>2. /\ Heads(u) = Heads(t) /\ LastOn(u) = "message_complete" /\ ~HeadOpen(u)
      /\ Heads(t) # {} => u[k] = t[k] /\ Announced(u) = Announced(t)
  BY Appended
<1>3. CASE Heads(t) = {}
  <2>1. ToldWell(u) /\ Due(u) = -1
    BY <1>1, <1>2, <1>3, DueIs, WellIs DEF Wellness
  <2> QED  BY <1>2, <2>1
<1>4. CASE Heads(t) # {}
  <2>1. /\ t[k].data # <<>> /\ Announced(t) \in Nat /\ LastOn(t) # "headers_complete"
        /\ LastOn(t) = "body" => k = Len(t) - 1 /\ Len(t[Len(t)].data) \in 1 .. Announced(t) /\ t[Len(t)].on = "body"
    BY <1>4, WellIs DEF Wellness, LastOn
  <2>2. LastOn(t) # "body"
    <3> SUFFICES ASSUME LastOn(t) = "body" PROVE FALSE
      OBVIOUS
    <3>1. k + 1 = Len(t) /\ k < Len(t) /\ t[k + 1] = t[Len(t)]
      BY <1>1, <2>1
    <3>2. Due(t) = Announced(t) - Len(t[Len(t)].data)
      BY <1>4, <2>1, <3>1, DueIs
    <3> QED  BY <2>1, <3>2
  <2>3. Announced(t) = 0
    BY <1>4, <2>1, <2>2, DueIs
  <2>4. Latest(Heads(u)) = k
    BY <1>2
  <2>5. ToldWell(u)
    BY <1>2, <1>4, <2>1, <2>4, WellIs DEF Wellness
  <2>6. Due(u) = -1
    BY <1>1, <1>2, <1>4, <2>3, DueIs
  <2> QED  BY <1>2, <2>5, <2>6
<1> QED  BY <1>3, <1>4

---------------------------------------------------------------------------
(* The callbacks as steps of HttpEvents.  Data joined to the callback that *)
(* came last is no step of its own, but for the body of a chunk.           *)
EventStep == Events!Next \/ UNCHANGED Events!vars

\* Nothing told is no event.
LEMMA NoEvent == ASSUME UNCHANGED told PROVE EventStep
BY DEF EventStep, Events!vars

\* message_begin is the event Begin.
LEMMA BeginEvent ==
  ASSUME told \in Seq(Entry), LastOn(told) \in {"none", "message_complete"},
         NEW e \in Entry, e.on = "message_begin", told' = Join(told, e)
  PROVE  /\ EventStep
         /\ ToldWell(told') /\ LastOn(told') = "message_begin" /\ HeadOpen(told') /\ Due(told') = -1
<1>1. ToldWell(told') /\ LastOn(told') = "message_begin" /\ HeadOpen(told') /\ Due(told') = -1
  BY TellsBegin
<1> QED  BY <1>1 DEF EventStep, Events!Next, Events!Begin, Events!Endless, HeadOpen

\* url and status are the event StartLine, or join the one before.
LEMMA LineEvent ==
  ASSUME told \in Seq(Entry), ToldWell(told), HeadOpen(told),
         NEW e \in Entry, e.on \in {"url", "status"}, LastOn(told) \in {"message_begin", e.on},
         told' = Join(told, e)
  PROVE  /\ EventStep
         /\ ToldWell(told') /\ LastOn(told') = e.on /\ HeadOpen(told') /\ Due(told') = -1
<1>1. /\ ToldWell(told') /\ LastOn(told') = e.on /\ HeadOpen(told')
      /\ Due(told') = Due(told) /\ Due(told) = -1
  BY TellsHead
<1>2. CASE LastOn(told) = "message_begin"
  BY <1>1, <1>2 DEF EventStep, Events!Next, Events!StartLine, HeadOpen
<1>3. CASE LastOn(told) = e.on
  BY <1>1, <1>3 DEF EventStep, Events!vars, HeadOpen
<1> QED  BY <1>1, <1>2, <1>3

\* A field of the head, or of the trailers behind the empty chunk.
HeadOrTrailer(t) == (HeadOpen(t) /\ Due(t) = -1) \/ (~HeadOpen(t) /\ Due(t) = 0)

\* header_field is the event Field, in the head or in the trailers.
LEMMA FieldEvent ==
  ASSUME told \in Seq(Entry), ToldWell(told), HeadOrTrailer(told),
         LastOn(told) \in {"header_field", "header_value"} \cup
                            IF HeadOpen(told) THEN {"url", "status"} ELSE {"chunk_header"},
         NEW e \in Entry, e.on = "header_field", told' = Join(told, e)
  PROVE  /\ EventStep
         /\ ToldWell(told') /\ LastOn(told') = "header_field"
         /\ HeadOpen(told') <=> HeadOpen(told)
         /\ Due(told') = Due(told)
<1>1. /\ ToldWell(told') /\ LastOn(told') = "header_field"
      /\ HeadOpen(told') <=> HeadOpen(told)
      /\ Due(told') = Due(told)
  <2>1. CASE HeadOpen(told)
    BY <2>1, TellsHead
  <2>2. CASE ~HeadOpen(told)
    BY <2>2, TellsTrailer DEF HeadOrTrailer
  <2> QED  BY <2>1, <2>2
<1>2. CASE LastOn(told) # "header_field"
  BY <1>1, <1>2 DEF EventStep, Events!Next, Events!Field, HeadOrTrailer, HeadOpen
<1>3. CASE LastOn(told) = "header_field"
  BY <1>1, <1>3 DEF EventStep, Events!vars, HeadOpen
<1> QED  BY <1>1, <1>2, <1>3

\* header_value is the event Value, and keeps head and chunk as they are.
LEMMA ValueEvent ==
  ASSUME told \in Seq(Entry), ToldWell(told), HeadOrTrailer(told),
         LastOn(told) \in {"header_field", "header_value"},
         NEW e \in Entry, e.on = "header_value", told' = Join(told, e)
  PROVE  /\ EventStep
         /\ ToldWell(told') /\ LastOn(told') = "header_value"
         /\ HeadOpen(told') <=> HeadOpen(told)
         /\ Due(told') = Due(told)
<1>1. /\ ToldWell(told') /\ LastOn(told') = "header_value"
      /\ HeadOpen(told') <=> HeadOpen(told)
      /\ Due(told') = Due(told)
  <2>1. CASE HeadOpen(told)
    BY <2>1, TellsHead
  <2>2. CASE ~HeadOpen(told)
    BY <2>2, TellsTrailer DEF HeadOrTrailer
  <2> QED  BY <2>1, <2>2
<1>2. CASE LastOn(told) = "header_field"
  BY <1>1, <1>2 DEF EventStep, Events!Next, Events!Value, HeadOpen
<1>3. CASE LastOn(told) = "header_value"
  BY <1>1, <1>3 DEF EventStep, Events!vars, HeadOpen
<1> QED  BY <1>1, <1>2, <1>3

\* headers_complete is the event HeadersComplete.
LEMMA HeadersCompleteEvent ==
  ASSUME told \in Seq(Entry), ToldWell(told), HeadOpen(told),
         LastOn(told) \in {"url", "status", "header_value"},
         NEW e \in Entry, e.on = "headers_complete", told' = Join(told, e)
  PROVE  /\ EventStep
         /\ ToldWell(told') /\ LastOn(told') = "headers_complete" /\ ~HeadOpen(told') /\ Due(told') = -1
<1>1. /\ ToldWell(told') /\ LastOn(told') = "headers_complete" /\ ~HeadOpen(told')
      /\ Due(told') = -1 /\ Due(told) = -1
  BY TellsHeadersComplete
<1> QED  BY <1>1 DEF EventStep, Events!Next, Events!HeadersComplete, HeadOpen

\* chunk_header is the event ChunkHeader.
LEMMA ChunkHeaderEvent ==
  ASSUME told \in Seq(Entry), ~HeadOpen(told),
         LastOn(told) = "headers_complete" \/ (LastOn(told) = "chunk_complete" /\ Due(told) # -1),
         NEW n \in Nat, NEW e \in Entry, e = [on |-> "chunk_header", data |-> <<n>>],
         told' = Join(told, e)
  PROVE  /\ EventStep
         /\ ToldWell(told') /\ LastOn(told') = "chunk_header" /\ ~HeadOpen(told') /\ Due(told') = n
<1>1. ToldWell(told') /\ LastOn(told') = "chunk_header" /\ ~HeadOpen(told') /\ Due(told') = n
  BY TellsChunkHeader
<1> QED  BY <1>1 DEF EventStep, Events!Next, Events!ChunkHeader, Events!Endless, HeadOpen

\* body outside of chunks is the event Body.
LEMMA BodyEvent ==
  ASSUME told \in Seq(Entry), ToldWell(told), ~HeadOpen(told), Due(told) = -1,
         LastOn(told) \in {"headers_complete", "body"},
         NEW e \in Entry, e.on = "body", told' = Join(told, e)
  PROVE  /\ EventStep
         /\ ToldWell(told') /\ LastOn(told') = "body" /\ ~HeadOpen(told') /\ Due(told') = -1
<1>1. ToldWell(told') /\ LastOn(told') = "body" /\ ~HeadOpen(told') /\ Due(told') = -1
  BY TellsBody
<1> QED  BY <1>1 DEF EventStep, Events!Next, Events!Body, Events!Endless, HeadOpen

\* body of a chunk is the event Body, less remains due.
LEMMA ChunkBodyEvent ==
  ASSUME told \in Seq(Entry), ToldWell(told), ~HeadOpen(told), Due(told) \in Nat,
         LastOn(told) \in {"chunk_header", "body"},
         NEW e \in Entry, e.on = "body", Len(e.data) \in 1 .. Due(told), told' = Join(told, e)
  PROVE  /\ EventStep
         /\ ToldWell(told') /\ LastOn(told') = "body" /\ ~HeadOpen(told')
         /\ Due(told') = Due(told) - Len(e.data)
<1>1. /\ ToldWell(told') /\ LastOn(told') = "body" /\ ~HeadOpen(told')
      /\ Due(told') = Due(told) - Len(e.data)
  BY TellsChunk
<1>2. Due(told) # -1 /\ Due(told') \in 0 .. Due(told) - 1
  BY <1>1
<1> QED  BY <1>1, <1>2 DEF EventStep, Events!Next, Events!Body, Events!Endless, HeadOpen

\* chunk_complete is the event ChunkComplete.
LEMMA ChunkCompleteEvent ==
  ASSUME told \in Seq(Entry), ToldWell(told), ~HeadOpen(told), Due(told) = 0,
         LastOn(told) \in {"chunk_header", "body", "header_value"},
         NEW e \in Entry, e.on = "chunk_complete", told' = Join(told, e)
  PROVE  /\ EventStep
         /\ ToldWell(told') /\ LastOn(told') = "chunk_complete" /\ ~HeadOpen(told')
         /\ Due(told') = IF LastOn(told) = "body" THEN 0 ELSE -1
<1>1. /\ ToldWell(told') /\ LastOn(told') = "chunk_complete" /\ ~HeadOpen(told')
      /\ Due(told') = IF LastOn(told) = "body" THEN 0 ELSE -1
  BY TellsChunkComplete
<1> QED  BY <1>1 DEF EventStep, Events!Next, Events!ChunkComplete, Events!Endless, HeadOpen

\* message_complete is the event Complete.
LEMMA CompleteEvent ==
  ASSUME told \in Seq(Entry), ToldWell(told), ~HeadOpen(told), Due(told) = -1,
         LastOn(told) \in {"headers_complete", "body", "chunk_complete"},
         NEW e \in Entry, e.on = "message_complete", told' = Join(told, e)
  PROVE  /\ EventStep
         /\ ToldWell(told') /\ LastOn(told') = "message_complete" /\ ~HeadOpen(told') /\ Due(told') = -1
<1>1. ToldWell(told') /\ LastOn(told') = "message_complete" /\ ~HeadOpen(told') /\ Due(told') = -1
  BY TellsComplete
<1> QED  BY <1>1 DEF EventStep, Events!Next, Events!Complete, Events!Endless, HeadOpen

---------------------------------------------------------------------------
(* The steps between callbacks: the states they lead to allow what was told before. *)
Onward(s, r) ==
  \/ s \in Between /\ r \in Between
  \/ s \in LineBegun /\ r \in LineBegun \cup UrlStates \cup {"s_res_status"}
  \/ s \in UrlStates /\ r \in UrlStates
  \/ s \in LineTold /\ r \in LineTold \cup FieldNext
  \/ s \in FieldNext /\ r \in FieldNext \cup {"s_header_field"}
  \/ s \in ValueNext /\ r \in ValueNext \cup ValueOpen
  \/ s \in ValueOpen /\ r \in ValueOpen
  \/ s \in ValueTold /\ r \in ValueTold \cup ValueOpen \cup FieldNext
  \/ s = "s_headers_done" /\ r \in {"s_body_identity", "s_body_identity_eof", "s_chunk_size_start"}
  \/ s \in ChunkSizing /\ r \in ChunkSizing
  \/ s \in {"s_res_status", "s_header_field", "s_body_identity", "s_body_identity_eof"} /\ r = s

\* A step onward without a callback leads to a state the last callback fits.
LEMMA OnwardLast ==
  ASSUME NEW pr, NEW r, NEW t, LastFits(pr, t), pr.state \in LineStates => ~Trailing(pr), Onward(pr.state, r.state),
         r.state \in Between \/ (Trailing(r) <=> Trailing(pr))
  PROVE  LastFits(r, t)
<1> USE DEF Onward, LastFits, Before, Between, LineBegun, UrlStates, UrlOpening, UrlBody, LineTold, FieldNext,
        ValueNext, ValueOpen, ValueTold, ChunkSizing, LineStates
<1>1. r.state \in Between => LastOn(t) \in {"none", "message_complete"}
  OBVIOUS
<1>2. r.state \in LineBegun => LastOn(t) = "message_begin"
  OBVIOUS
<1>3. r.state \in UrlStates => LastOn(t) \in {"message_begin", "url"}
  OBVIOUS
<1>4. r.state = "s_res_status" => LastOn(t) \in {"message_begin", "status"}
  OBVIOUS
<1>5. r.state \in LineTold => LastOn(t) \in {"url", "status"}
  OBVIOUS
<1>6. r.state \in FieldNext => LastOn(t) \in Before(r)
  OBVIOUS
<1>7. r.state = "s_header_field" => LastOn(t) \in Before(r) \cup {"header_field"}
  OBVIOUS
<1>8. r.state \in ValueNext => LastOn(t) = "header_field"
  OBVIOUS
<1>9. r.state \in ValueOpen => LastOn(t) \in {"header_field", "header_value"}
  OBVIOUS
<1>10. r.state \notin ValueTold \/ LastOn(t) = "header_value"
  OBVIOUS
<1>11. r.state \in {"s_body_identity", "s_body_identity_eof"} => LastOn(t) \in {"headers_complete", "body"}
  OBVIOUS
<1>12. r.state \in ChunkSizing => LastOn(t) \in {"headers_complete", "chunk_complete"}
  OBVIOUS
<1>13. r.state \notin {"s_headers_done", "s_message_done", "s_chunk_data", "s_chunk_data_almost_done", "s_chunk_data_done"}
  OBVIOUS
<1> QED  BY <1>1, <1>2, <1>3, <1>4, <1>5, <1>6, <1>7, <1>8, <1>9, <1>10, <1>11, <1>12, <1>13

\* And one that the open head and the chunk due fit.
LEMMA OnwardDue ==
  ASSUME NEW pr, NEW r, NEW t, NEW c, NEW q, NEW d, NEW u,
         LastFits(pr, t), DueFits(pr, c, q, t), Onward(pr.state, r.state),
         r.state \in Between \/ (Trailing(r) <=> Trailing(pr))
  PROVE  DueFits(r, d, u, t)
<1> USE DEF Onward, LastFits, DueFits, Between, LineBegun, UrlStates, UrlOpening, UrlBody, LineTold, FieldNext,
       ValueNext, ValueOpen, ValueTold, ChunkSizing, LineStates, FieldStates
<1>1. r.state \in LineStates => ~Trailing(r)
  OBVIOUS
<1>2. r.state \in LineStates \cup FieldStates =>
        IF Trailing(r) THEN ~HeadOpen(t) /\ Due(t) = 0 ELSE HeadOpen(t) /\ Due(t) = -1
  OBVIOUS
<1>3. r.state \in {"s_headers_done", "s_body_identity", "s_body_identity_eof", "s_message_done"} =>
        ~HeadOpen(t) /\ Due(t) = -1
  OBVIOUS
<1>4. r.state \in ChunkSizing =>
        ~HeadOpen(t) /\ Due(t) = IF LastOn(t) = "chunk_complete" THEN 0 ELSE -1
  OBVIOUS
<1>5. r.state \notin {"s_chunk_data", "s_chunk_data_almost_done", "s_chunk_data_done"}
  OBVIOUS
<1> QED  BY <1>1, <1>2, <1>3, <1>4, <1>5

InOrder == Ordered' /\ EventStep

\* While a call is in progress there has been no error.
LEMMA AliveNow == ASSUME Typed, call.on PROVE Alive
BY DEF Typed, Place, Alive

\* An error tells nothing.
LEMMA ErrorOrdered ==
  ASSUME Typed, Ordered, NEW e, e \notin {"OK", "PAUSED"}, Error(e)
  PROVE  InOrder
<1>1. parser'.http_errno = e /\ told' = told
  BY DEF Error, Typed, IsParser
<1> QED  BY <1>1, NoEvent DEF InOrder, Ordered, Alive

\* A step without a callback keeps the order if what was told fits its state.
LEMMA GoOrdered ==
  ASSUME Typed, Ordered, call.on, NEW pr, NEW c, NEW q, Go(pr, c, q),
         LastFits(pr, told), DueFits(pr, c, q, told)
  PROVE  InOrder
<1>1. told' = told /\ parser' = pr /\ call' = c /\ p' = q
  BY DEF Go
<1> QED  BY <1>1, NoEvent DEF InOrder, Ordered

\* So it does for a step onward.
LEMMA SilentGo ==
  ASSUME Typed, Ordered, call.on, NEW pr, Onward(parser.state, pr.state),
         pr.state \in Between \/ (Trailing(pr) <=> Trailing(parser)),
         NEW c, NEW q, Go(pr, c, q)
  PROVE  InOrder
<1>1. LastFits(parser, told) /\ DueFits(parser, call, p, told)
  BY AliveNow DEF Ordered
<1>2. parser.state \in LineStates => ~Trailing(parser)
  BY <1>1 DEF DueFits
<1>3. LastFits(pr, told) /\ DueFits(pr, c, q, told)
  BY <1>1, <1>2, OnwardLast, OnwardDue
<1> QED  BY <1>3, GoOrdered

\* A break or a REEXECUTE onward keeps the order.
LEMMA SilentBreak ==
  ASSUME Typed, Ordered, call.on, NEW pr, IsParser(pr), pr.flags = parser.flags,
         NEW s, Onward(parser.state, s), Break(pr, s) \/ Reexecute(pr, s)
  PROVE  InOrder
<1>1. In(pr, s).state = s /\ (Trailing(In(pr, s)) <=> Trailing(parser))
  BY DEF In, IsParser, Trailing
<1> QED  BY <1>1, SilentGo DEF Break, Reexecute

(* A callback: go on, or get out paused in the same state, or fail. *)
LEMMA CallbackOrdered ==
  ASSUME NEW e, NEW pr, IsParser(pr), NEW c, c.mark["body"] = 0, NEW q, Callback(e, pr, c, q),
         ToldWell(told'), LastFits(pr, told'), DueFits(pr, c, q, told')
  PROVE  Ordered'
<1>1. CASE parser' = pr /\ call' = c
  BY <1>1 DEF Callback, Ordered
<1>2. CASE parser' = [pr EXCEPT !.http_errno = "PAUSED"] /\ call' = Idle
  <2>1. /\ parser'.state = pr.state /\ parser'.flags = pr.flags
        /\ parser'.content_length = pr.content_length
    BY <1>2 DEF IsParser
  <2>2. Pending(c, q) = 0 /\ Pending(call', p') = 0
    BY <1>2 DEF Pending, Idle, NoMark, Marks
  <2>3. LastFits(parser', told')
    BY <2>1 DEF LastFits, Before, Trailing
  <2>4. DueFits(parser', call', p', told')
    BY <2>1, <2>2 DEF DueFits, Trailing
  <2> QED  BY <2>3, <2>4 DEF Ordered
<1>3. CASE parser' = [pr EXCEPT !.http_errno = "CB", !.nread = c.nread]
  BY <1>3 DEF IsParser, Ordered, Alive
<1> QED  BY <1>1, <1>2, <1>3 DEF Callback

(* What a step leaves as it is, the order does not see. *)
LEMMA UnmovedOrdered ==
  ASSUME Ordered, Alive' => Alive, told' = told, parser'.state = parser.state,
         parser'.flags = parser.flags, parser'.content_length = parser.content_length,
         Pending(call', p') = Pending(call, p)
  PROVE  InOrder
<1>1. LastFits(parser, told) => LastFits(parser', told')
  BY DEF LastFits, Before, Trailing
<1>2. DueFits(parser, call, p, told) => DueFits(parser', call', p', told')
  BY DEF DueFits, Trailing
<1> QED  BY <1>1, <1>2, NoEvent DEF InOrder, Ordered

---------------------------------------------------------------------------
(* The three callbacks of a start line. *)
LEMMA BeginOrdered ==
  ASSUME Typed, Ordered, call.on, parser.state \in Between, call.mark["body"] = 0,
         NEW pr, IsParser(pr), pr.flags = {}, NEW s \in LineBegun, BeginMessage(pr, s)
  PROVE  InOrder
<1>1. told \in Seq(Entry) /\ LastOn(told) \in {"none", "message_complete"}
  BY AliveNow DEF Ordered, LastFits, Typed
<1>2. Say("message_begin") \in Entry /\ Say("message_begin").on = "message_begin"
  BY SayTyped DEF Callbacks, Say
<1>3. Callback(Say("message_begin"), In(pr, s), NextByte, p + 1) /\ told' = Join(told, Say("message_begin"))
  BY DEF BeginMessage, Callback
<1>4. /\ EventStep
      /\ ToldWell(told') /\ LastOn(told') = "message_begin" /\ HeadOpen(told') /\ Due(told') = -1
  BY <1>1, <1>2, <1>3, BeginEvent
<1>5. IsParser(In(pr, s)) /\ In(pr, s).state = s /\ ~Trailing(In(pr, s))
  BY DEF IsParser, In, Trailing
<1>6. NextByte.mark["body"] = 0
  BY DEF NextByte, Typed, IsCall
<1>7. LastFits(In(pr, s), told')
  BY <1>4, <1>5 DEF LastFits, Between, LineBegun, UrlStates, UrlOpening, UrlBody, LineTold, FieldNext,
        ValueNext, ValueOpen, ValueTold, ChunkSizing
<1>8. DueFits(In(pr, s), NextByte, p + 1, told')
  BY <1>4, <1>5 DEF DueFits, LineStates, FieldStates, LineBegun, ChunkSizing
<1> QED  BY <1>3, <1>4, <1>5, <1>6, <1>7, <1>8, CallbackOrdered DEF InOrder

\* The URL or the reason phrase is told behind message_begin.
LEMMA LineOrdered ==
  ASSUME Typed, Ordered, NEW m \in {"url", "status"}, NEW S, At(S), Token(m, parser.state),
         NEW pr, IsParser(pr), pr.flags = parser.flags,
         NEW s \in LineTold \cup {"s_header_field_start"}, Data(m, pr, s)
  PROVE  InOrder
<1> DEFINE e == Tell(m, SubSeq(input.bytes, call.mark[m], p - 1))
           c == Unmarked(NextByte, m)
<1>1. /\ told \in Seq(Entry) /\ ToldWell(told) /\ LastOn(told) \in {"message_begin", m}
      /\ parser.state \in LineStates
  BY AtByte, AliveNow DEF Ordered, LastFits, Typed, Token, LineStates
<1>2. HeadOpen(told) /\ ~Trailing(parser)
  BY <1>1, AtByte, AliveNow DEF Ordered, DueFits
<1>3. e \in Entry /\ e.on = m
  <2>1. p \in p .. call.end /\ m \in Callbacks
    BY AtByte DEF IsCall, Callbacks
  <2> QED  BY <2>1, TokenTold DEF Tell
<1>4. Callback(e, In(pr, s), c, p + 1) /\ told' = Join(told, e)
  BY DEF Data, Callback
<1> HIDE DEF e
<1>5. /\ EventStep
      /\ ToldWell(told') /\ LastOn(told') = m /\ HeadOpen(told') /\ Due(told') = -1
  BY <1>1, <1>2, <1>3, <1>4, LineEvent
<1>6. IsParser(In(pr, s)) /\ In(pr, s).state = s /\ ~Trailing(In(pr, s))
  BY <1>2 DEF IsParser, In, Trailing
<1>7. c.mark["body"] = 0
  <2>1. call.mark["body"] = 0 /\ IsCall(call)
    BY AtByte DEF MarksFit, Token, UrlStates, UrlOpening, UrlBody, BodyMarked
  <2> QED  BY <2>1 DEF NextByte, Unmarked, IsCall, Marks
<1> HIDE DEF c
<1>8. LastFits(In(pr, s), told')
  BY <1>5, <1>6 DEF LastFits, Before, Between, LineBegun, UrlStates, UrlOpening, UrlBody, LineTold, FieldNext,
        ValueNext, ValueOpen, ValueTold, ChunkSizing
<1>9. DueFits(In(pr, s), c, p + 1, told')
  BY <1>5, <1>6 DEF DueFits, LineStates, FieldStates, LineTold, FieldNext, ChunkSizing
<1> QED  BY <1>4, <1>5, <1>6, <1>7, <1>8, <1>9, CallbackOrdered DEF InOrder

\* The start line keeps the order.
LEMMA StartLineOrdered ==
  ASSUME Typed, Ordered, StartLine
  PROVE  InOrder
<1> USE DEF Onward, Between, LineBegun, LineTold, FieldNext
<1>0. /\ IsParser(parser) /\ call.on /\ IsCall(call)
      /\ parser.state \in Between => call.mark["body"] = 0
  <2>1. IsParser(parser) /\ call.on /\ IsCall(call)
    BY DEF Typed, StartLine, At, Dead, SkipEol, StartEither, ResOrRespH, StartRes, ResHttp, ResVersion, ResVersionEnd, StatusCode, StatusCodeEnd, StatusStart, Status, ResLineAlmostDone, StartReq, ReqMethod, ReqMethodEnd, UrlStart, UrlChar, UrlEnd, ReqHttpStart, ReqHttp, ReqVersion, ReqVersionEnd, ReqLineAlmostDone
  <2> QED  BY <2>1 DEF Typed, Place, MarksFit, BodyMarked
<1>1. CASE Dead
  BY <1>0, <1>1, SilentBreak, ErrorOrdered DEF Dead, IsParser, At
<1>2. CASE SkipEol
  BY <1>0, <1>2, SilentBreak, ErrorOrdered DEF SkipEol, IsParser, At
<1>3. CASE ResOrRespH
  BY <1>0, <1>3, SilentBreak, ErrorOrdered DEF ResOrRespH, IsParser, At
<1>4. CASE ResHttp
  BY <1>0, <1>4, SilentBreak, ErrorOrdered DEF ResHttp, IsParser, At
<1>5. CASE ResVersion
  BY <1>0, <1>5, SilentBreak, ErrorOrdered DEF ResVersion, IsParser, At
<1>6. CASE ResVersionEnd
  BY <1>0, <1>6, SilentBreak, ErrorOrdered DEF ResVersionEnd, IsParser, At
<1>7. CASE StatusCode
  BY <1>0, <1>7, SilentBreak, ErrorOrdered DEF StatusCode, IsParser, At
<1>8. CASE StatusCodeEnd
  BY <1>0, <1>8, SilentBreak, ErrorOrdered DEF StatusCodeEnd, IsParser, At
<1>9. CASE ResLineAlmostDone
  BY <1>0, <1>9, SilentBreak, ErrorOrdered DEF ResLineAlmostDone, IsParser, At
<1>10. CASE ReqMethod
  BY <1>0, <1>10, SilentBreak, ErrorOrdered DEF ReqMethod, IsParser, At
<1>11. CASE ReqMethodEnd
  BY <1>0, <1>11, SilentBreak, ErrorOrdered DEF ReqMethodEnd, IsParser, At
<1>12. CASE ReqHttpStart
  BY <1>0, <1>12, SilentBreak, ErrorOrdered DEF ReqHttpStart, IsParser, At
<1>13. CASE ReqHttp
  BY <1>0, <1>13, SilentBreak, ErrorOrdered DEF ReqHttp, IsParser, At
<1>14. CASE ReqVersion
  BY <1>0, <1>14, SilentBreak, ErrorOrdered DEF ReqVersion, IsParser, At
<1>15. CASE ReqVersionEnd
  BY <1>0, <1>15, SilentBreak, ErrorOrdered DEF ReqVersionEnd, IsParser, At
<1>16. CASE ReqLineAlmostDone
  BY <1>0, <1>16, SilentBreak, ErrorOrdered DEF ReqLineAlmostDone, IsParser, At
<1>17. CASE StartEither
  <2> DEFINE req == [Fresh(parser) EXCEPT !.type = "HTTP_REQUEST"]
  <2>1. /\ IsParser(Fresh(parser)) /\ Fresh(parser).flags = {}
        /\ parser.state = "s_start_req_or_res"
    BY <1>0, <1>17, FreshTyped DEF StartEither, At
  <2>2. In(req, "s_start_req").state = "s_start_req"
    BY <2>1 DEF IsParser, In
  <2>3. BeginMessage(Fresh(parser), "s_res_or_resp_H") \/ Go(In(req, "s_start_req"), call, p)
    BY <1>17 DEF StartEither, Reexecute
  <2> HIDE DEF req
  <2> QED  BY <1>0, <2>1, <2>2, <2>3, BeginOrdered, SilentGo
<1>18. CASE StartRes
  <2>1. /\ IsParser(Fresh(parser)) /\ Fresh(parser).flags = {}
        /\ parser.state = "s_start_res"
    BY <1>0, <1>18, FreshTyped DEF StartRes, At
  <2> QED  BY <1>0, <1>18, <2>1, BeginOrdered, ErrorOrdered DEF StartRes
<1>19. CASE StatusStart
  <2>1. /\ In(parser, "s_res_status").state = "s_res_status" /\ parser.state = "s_res_status_start"
        /\ Trailing(In(parser, "s_res_status")) <=> Trailing(parser)
    BY <1>0, <1>19 DEF IsParser, In, StatusStart, At, Trailing
  <2>2. \/ Go(In(parser, "s_res_status"), Marked(call, "status"), p)
        \/ Go(In(parser, "s_res_status"), Marked(NextByte, "status"), p + 1)
    BY <1>19 DEF StatusStart
  <2> QED  BY <1>0, <2>1, <2>2, SilentGo
<1>20. CASE Status
  <2>1. At({"s_res_status"}) /\ parser.state = "s_res_status" /\ Token("status", parser.state)
    BY <1>20, AtByte DEF Status, Token
  <2>2. CASE Data("status", parser, "s_res_line_almost_done") \/ Data("status", parser, "s_header_field_start")
    BY <1>0, <2>1, <2>2, LineOrdered
  <2>3. CASE Break(parser, "s_res_status")
    BY <1>0, <2>1, <2>3, SilentBreak
  <2> QED  BY <1>20, <2>2, <2>3 DEF Status
<1>21. CASE StartReq
  <2> DEFINE pr == [Fresh(parser) EXCEPT !.method = MethodName[ch]]
  <2>1. parser.state = "s_start_req"
    BY <1>21 DEF StartReq, At
  <2>2. IsParser(pr) /\ pr.flags = {}
    BY <1>0, FreshTyped DEF IsParser
  <2>3. BeginMessage(pr, "s_req_method") \/ Error("INVALID_METHOD")
    BY <1>21 DEF StartReq
  <2> HIDE DEF pr
  <2> QED  BY <1>0, <2>1, <2>2, <2>3, BeginOrdered, ErrorOrdered
<1>22. CASE UrlStart
  <2> DEFINE s == parse_url_char(IF parser.method = "CONNECT" THEN "s_req_server_start"
                                ELSE parser.state, ch)
  <2>1. parser.state = "s_req_spaces_before_url"
    BY <1>22 DEF UrlStart, At
  <2>2. s \in UrlStates \cup {"s_dead"}
    BY UrlCharStates
  <2>3. \/ Break(parser, parser.state) \/ Error("INVALID_URL")
        \/ s # "s_dead" /\ Go(In(parser, s), Marked(NextByte, "url"), p + 1)
    BY <1>22 DEF UrlStart
  <2> HIDE DEF s
  <2>4. In(parser, s).state = s /\ (Trailing(In(parser, s)) <=> Trailing(parser))
    BY <1>0 DEF IsParser, In, Trailing
  <2>5. CASE s # "s_dead" /\ Go(In(parser, s), Marked(NextByte, "url"), p + 1)
    BY <1>0, <2>1, <2>2, <2>4, <2>5, SilentGo
  <2> QED  BY <1>0, <2>1, <2>3, <2>5, SilentBreak, ErrorOrdered
<1>23. CASE UrlChar
  <2>1. parser.state \in UrlStates
    BY <1>23 DEF UrlChar, At, UrlStates
  <2>2. \/ Error("INVALID_URL")
        \/ /\ parse_url_char(parser.state, ch) # "s_dead"
           /\ Break(parser, parse_url_char(parser.state, ch))
    BY <1>23 DEF UrlChar
  <2> QED  BY <1>0, <2>1, <2>2, UrlCharStates, SilentBreak, ErrorOrdered
<1>24. CASE UrlEnd
  <2> DEFINE nine == [parser EXCEPT !.version = "0.9"]
  <2>1. At(UrlBody) /\ Token("url", parser.state)
    BY <1>24, AtByte DEF UrlEnd, Token, UrlStates
  <2>2. IsParser(nine) /\ nine.flags = parser.flags
    BY <1>0 DEF IsParser, Versions
  <2>3. \/ Data("url", parser, "s_req_http_start") \/ Data("url", nine, "s_req_line_almost_done")
        \/ Data("url", nine, "s_header_field_start")
    BY <1>24 DEF UrlEnd, Eol
  <2> HIDE DEF nine
  <2> QED  BY <1>0, <2>1, <2>2, <2>3, LineOrdered
<1> QED  BY <1>1, <1>2, <1>3, <1>4, <1>5, <1>6, <1>7, <1>8, <1>9, <1>10, <1>11, <1>12, <1>13, <1>14, <1>15, <1>16, <1>17, <1>18, <1>19, <1>20, <1>21, <1>22, <1>23, <1>24 DEF StartLine

---------------------------------------------------------------------------
\* At a byte the state fits what was told.
LEMMA AtOrdered ==
  ASSUME Typed, Ordered, NEW S, At(S)
  PROVE  /\ LastFits(parser, told) /\ DueFits(parser, call, p, told) /\ ToldWell(told)
         /\ told \in Seq(Entry) /\ parser.state \in S
BY AtByte, AliveNow DEF Ordered, Typed

\* A field goes with the start line or the value before it, in the head or in the trailers.
LEMMA FieldToldOrdered ==
  ASSUME Typed, Ordered, call.on, parser.state = "s_header_field",
         NEW e \in Entry, e.on = "header_field", NEW pr, IsParser(pr), Trailing(pr) <=> Trailing(parser),
         pr.state \in ValueNext \cup {"s_header_field"},
         NEW c, c.mark["body"] = 0, NEW q, Callback(e, pr, c, q)
  PROVE  InOrder
<1>1. /\ told \in Seq(Entry) /\ ToldWell(told) /\ HeadOrTrailer(told)
      /\ LastOn(told) \in {"header_field", "header_value"} \cup
                            IF HeadOpen(told) THEN {"url", "status"} ELSE {"chunk_header"}
      /\ IF Trailing(parser) THEN ~HeadOpen(told) /\ Due(told) = 0 ELSE HeadOpen(told) /\ Due(told) = -1
  <2>1. /\ LastOn(told) \in Before(parser) \cup {"header_field"}
        /\ told \in Seq(Entry) /\ ToldWell(told)
    BY AliveNow DEF Ordered, Typed, LastFits
  <2>2. IF Trailing(parser) THEN ~HeadOpen(told) /\ Due(told) = 0 ELSE HeadOpen(told) /\ Due(told) = -1
    BY AliveNow DEF Ordered, Typed, DueFits, FieldStates
  <2> QED  BY <2>1, <2>2 DEF Before, HeadOrTrailer
<1>2. told' = Join(told, e)
  BY DEF Callback
<1>3. /\ EventStep
      /\ ToldWell(told') /\ LastOn(told') = "header_field"
      /\ HeadOpen(told') <=> HeadOpen(told)
      /\ Due(told') = Due(told)
  BY <1>1, <1>2, FieldEvent
<1>4. LastFits(pr, told')
  BY <1>3 DEF LastFits, Between, LineBegun, UrlStates, UrlOpening, UrlBody, LineTold, FieldNext,
        ValueNext, ValueOpen, ValueTold, ChunkSizing
<1>5. DueFits(pr, c, q, told')
  BY <1>1, <1>3 DEF DueFits, LineStates, FieldStates, Between, LineBegun, UrlStates, UrlOpening, UrlBody,
        LineTold, FieldNext, ValueNext, ValueOpen, ValueTold, ChunkSizing
<1> QED  BY <1>3, <1>4, <1>5, CallbackOrdered DEF InOrder

\* A value is told behind its name.
LEMMA ValueToldOrdered ==
  ASSUME Typed, Ordered, call.on, parser.state \in ValueNext \cup ValueOpen,
         NEW e \in Entry, e.on = "header_value", NEW pr, IsParser(pr), Trailing(pr) <=> Trailing(parser),
         pr.state \in ValueTold \cup {"s_header_value", "s_header_field_start"},
         NEW c, c.mark["body"] = 0, NEW q, Callback(e, pr, c, q)
  PROVE  InOrder
<1>1. /\ told \in Seq(Entry) /\ ToldWell(told) /\ HeadOrTrailer(told)
      /\ LastOn(told) \in {"header_field", "header_value"}
      /\ IF Trailing(parser) THEN ~HeadOpen(told) /\ Due(told) = 0 ELSE HeadOpen(told) /\ Due(told) = -1
  <2>1. LastFits(parser, told) /\ DueFits(parser, call, p, told) /\ ToldWell(told) /\ told \in Seq(Entry)
    BY AliveNow DEF Ordered, Typed
  <2>2. LastOn(told) \in {"header_field", "header_value"}
    BY <2>1 DEF LastFits
  <2>3. IF Trailing(parser) THEN ~HeadOpen(told) /\ Due(told) = 0 ELSE HeadOpen(told) /\ Due(told) = -1
    BY <2>1 DEF DueFits, FieldStates
  <2> QED  BY <2>1, <2>2, <2>3 DEF HeadOrTrailer
<1>2. told' = Join(told, e)
  BY DEF Callback
<1>3. /\ EventStep
      /\ ToldWell(told') /\ LastOn(told') = "header_value"
      /\ HeadOpen(told') <=> HeadOpen(told)
      /\ Due(told') = Due(told)
  BY <1>1, <1>2, ValueEvent
<1>4. LastFits(pr, told')
  BY <1>3 DEF LastFits, Before, Between, LineBegun, UrlStates, UrlOpening, UrlBody, LineTold, FieldNext,
        ValueNext, ValueOpen, ValueTold, ChunkSizing
<1>5. DueFits(pr, c, q, told')
  BY <1>1, <1>3 DEF DueFits, LineStates, FieldStates, Between, LineBegun, UrlStates, UrlOpening, UrlBody,
        LineTold, FieldNext, ValueNext, ValueOpen, ValueTold, ChunkSizing
<1> QED  BY <1>3, <1>4, <1>5, CallbackOrdered DEF InOrder

\* A name begins where the line before has been told.
LEMMA FieldStartOrdered ==
  ASSUME Typed, Ordered, FieldStart
  PROVE  InOrder
<1> DEFINE pr == [parser EXCEPT !.header_state = NameStart(ch), !.state = "s_header_field"]
<1>1. parser.state = "s_header_field_start" /\ IsParser(parser) /\ call.on
  BY DEF FieldStart, At, Typed
<1>2. pr.state = "s_header_field" /\ (Trailing(pr) <=> Trailing(parser))
  BY <1>1 DEF IsParser, Trailing
<1>3. \/ Break(parser, "s_headers_almost_done") \/ Reexecute(parser, "s_headers_almost_done")
      \/ Go(pr, Marked(NextByte, "header_field"), p + 1) \/ Error("INVALID_HEADER_TOKEN")
  BY DEF FieldStart
<1> HIDE DEF pr
<1>4. Onward(parser.state, "s_headers_almost_done") /\ Onward(parser.state, pr.state)
  BY <1>1, <1>2 DEF Onward, FieldNext
<1> QED  BY <1>1, <1>2, <1>3, <1>4, SilentBreak, SilentGo, ErrorOrdered

\* The loop over a name keeps the order.
LEMMA HeaderFieldOrdered ==
  ASSUME Typed, Ordered, HeaderField
  PROVE  InOrder
<1> DEFINE q == StopAt(IsToken)
           pr == NameRun(parser, SubSeq(input.bytes, p, q - 1))
           counted == [call EXCEPT !.nread = @ + (q - p)]
           all == [call EXCEPT !.nread = @ + (q - 1 - p), !.fresh = TRUE]
           done == [Unmarked(counted, "header_field") EXCEPT !.fresh = TRUE]
           e == Tell("header_field", SubSeq(input.bytes, call.mark["header_field"], q - 1))
           after == In(pr, "s_header_value_discard_ws")
<1>1. /\ At({"s_header_field"}) /\ parser.state = "s_header_field" /\ Token("header_field", parser.state)
      /\ p \in Nat \ {0} /\ call.end \in Nat /\ p <= call.end /\ call.on
      /\ call.nread \in Nat /\ IsCall(call) /\ IsParser(parser) /\ call.end <= Len(input.bytes)
      /\ call.mark["body"] = 0
  BY AtByte DEF HeaderField, IsCall, Token, MarksFit, BodyMarked
<1>2. q \in p .. call.end + 1
  <2>1. p \in Nat /\ p <= call.end + 1
    BY <1>1
  <2> QED  BY <1>1, <2>1, TokenStops, Zenon
<1>3. \/ Go(pr, all, q) \/ Go(pr, counted, q)
      \/ q <= call.end /\ Callback(e, after, done, q + 1)
      \/ Error("INVALID_HEADER_TOKEN")
  BY <1>1, <1>2 DEF HeaderField
<1>4. IsParser(pr) /\ pr.state = "s_header_field" /\ pr.flags = parser.flags
  <2>1. SubSeq(input.bytes, p, q - 1) \in Seq(STRING)
    <3> HIDE DEF q
    <3>1. q - 1 \in Nat /\ q - 1 <= Len(input.bytes)
      BY <1>1, <1>2, InputTyped
    <3> QED  BY <1>1, <3>1, InputTyped, BytesTyped
  <2> HIDE DEF q
  <2> QED  BY <2>1, <1>1, NameRunKeeps DEF NameKept
<1> HIDE DEF q, pr
<1>5. done.mark["body"] = 0
  <2>1. counted.mark = call.mark /\ DOMAIN counted = {"on", "end", "nread", "fresh", "mark"}
    BY <1>1 DEF IsCall
  <2> HIDE DEF counted
  <2> QED  BY <1>1, <2>1 DEF Unmarked, IsCall, Marks
<1>6. IsParser(after) /\ after.state \in ValueNext /\ (Trailing(after) <=> Trailing(parser))
  BY <1>4 DEF IsParser, In, ValueNext, Trailing
<1>7. Onward(parser.state, pr.state) /\ (Trailing(pr) <=> Trailing(parser))
  BY <1>1, <1>4 DEF Onward, Trailing
<1> HIDE DEF all, counted, done, after
<1>8. CASE q <= call.end /\ Callback(e, after, done, q + 1)
  <2>1. q \in p .. call.end /\ "header_field" \in Callbacks
    BY <1>2, <1>8 DEF Callbacks
  <2>2. e \in Entry /\ e.on = "header_field"
    BY <1>1, <2>1, TokenTold DEF Tell
  <2> HIDE DEF e
  <2> QED  BY <1>1, <1>5, <1>6, <1>8, <2>2, FieldToldOrdered
<1>9. CASE Go(pr, all, q) \/ Go(pr, counted, q)
  BY <1>1, <1>7, <1>9, SilentGo
<1> QED  BY <1>3, <1>8, <1>9, ErrorOrdered

\* A value begins where its name has been told.
LEMMA ValueStartOrdered ==
  ASSUME Typed, Ordered, ValueStart
  PROVE  InOrder
<1> DEFINE To(pr) == Go(In(pr, "s_header_value"), Marked(NextByte, "header_value"), p + 1)
<1>1. IsParser(parser) /\ call.on /\ parser.state = "s_header_value_start"
  BY DEF ValueStart, At, Typed
<1>2. ASSUME NEW pr, IsParser(pr), Trailing(pr) <=> Trailing(parser), To(pr)
      PROVE  InOrder
  <2>1. /\ In(pr, "s_header_value").state = "s_header_value"
        /\ Trailing(In(pr, "s_header_value")) <=> Trailing(parser)
    BY <1>2 DEF In, IsParser, Trailing
  <2>2. Onward(parser.state, "s_header_value")
    BY <1>1 DEF Onward, ValueOpen
  <2> QED  BY <1>1, <1>2, <2>1, <2>2, SilentGo
<1> DEFINE upgrade == [parser EXCEPT !.flags = @ \cup {"F_UPGRADE"}, !.header_state = "h_general"]
           length == [parser EXCEPT !.flags = @ \cup {"F_CONTENTLENGTH"}, !.content_length = Num[ch],
                                    !.header_state = "h_content_length_num"]
<1>3. \A s : /\ IsParser([parser EXCEPT !.header_state = s])
             /\ Trailing([parser EXCEPT !.header_state = s]) <=> Trailing(parser)
  BY <1>1 DEF IsParser, Trailing
<1>4. IsParser(upgrade) /\ (Trailing(upgrade) <=> Trailing(parser))
  BY <1>1 DEF IsParser, Trailing
<1>5. IsNum(ch) => IsParser(length) /\ (Trailing(length) <=> Trailing(parser))
  <2> HAVE IsNum(ch)
  <2>1. Num[ch] \in 0 .. ULLONG_MAX
    BY WidthAssumption DEF IsNum, Num, Digits
  <2> QED  BY <1>1, <2>1 DEF IsParser, Trailing
<1>6. \/ To(parser) \/ To(upgrade)
      \/ \E s : To([parser EXCEPT !.header_state = s])
      \/ IsNum(ch) /\ To(length)
      \/ Error("INVALID_CONTENT_LENGTH") \/ Error("UNEXPECTED_CONTENT_LENGTH")
  BY DEF ValueStart
<1> HIDE DEF To, length, upgrade
<1> QED  BY <1>1, <1>2, <1>3, <1>4, <1>5, <1>6, ErrorOrdered

\* The loop over a value keeps the order.
LEMMA HeaderValueOrdered ==
  ASSUME Typed, BodyFramed(parser), Ordered, HeaderValue
  PROVE  InOrder
<1> DEFINE q == StopAt(NoEol)
           pr == ValueRun(parser, SubSeq(input.bytes, p, q - 1))
           counted == [call EXCEPT !.nread = @ + (q - p)]
           all == [call EXCEPT !.nread = @ + (q - 1 - p), !.fresh = TRUE]
           done == Unmarked(counted, "header_value")
           doneNext == [done EXCEPT !.fresh = TRUE]
           e == Tell("header_value", SubSeq(input.bytes, call.mark["header_value"], q - 1))
           after == In(pr, "s_header_almost_done")
<1>1. /\ At({"s_header_value"}) /\ parser.state = "s_header_value" /\ Token("header_value", parser.state)
      /\ p \in Nat \ {0} /\ call.end \in Nat /\ p <= call.end /\ call.on
      /\ call.nread \in Nat /\ IsCall(call) /\ IsParser(parser) /\ call.end <= Len(input.bytes)
      /\ parser.http_errno = "OK" /\ call.mark["body"] = 0
  BY AtByte DEF HeaderValue, IsCall, Token, MarksFit, BodyMarked
<1>2. q \in p .. call.end + 1
  <2>1. p \in Nat /\ p <= call.end + 1
    BY <1>1
  <2> QED  BY <1>1, <2>1, ValueStops, Zenon
<1>3. \/ Go(pr, all, q) \/ Go(pr, counted, q)
      \/ q <= call.end /\ (Callback(e, after, doneNext, q + 1) \/ Callback(e, after, done, q))
      \/ pr.http_errno # "OK" /\ Error(pr.http_errno)
  BY <1>1, <1>2 DEF HeaderValue
<1>4. /\ IsParser(pr) /\ pr.state = "s_header_value" /\ (Trailing(pr) <=> Trailing(parser))
      /\ pr.http_errno # "PAUSED"
  <2>1. SubSeq(input.bytes, p, q - 1) \in Seq(STRING)
    <3> HIDE DEF q
    <3>1. q - 1 \in Nat /\ q - 1 <= Len(input.bytes)
      BY <1>1, <1>2, InputTyped
    <3> QED  BY <1>1, <3>1, InputTyped, BytesTyped
  <2>2. ValueKept(parser, parser)
    BY <1>1 DEF ValueKept, BodyFramed
  <2> HIDE DEF q
  <2>3. ValueKept(pr, parser)
    BY <2>1, <2>2, ValueRunKeeps
  <2> HIDE DEF pr
  <2> QED  BY <1>1, <2>3 DEF ValueKept, Trailing
<1> HIDE DEF q, pr
<1>5. done.mark["body"] = 0 /\ doneNext.mark["body"] = 0
  <2>1. counted.mark = call.mark /\ DOMAIN counted = {"on", "end", "nread", "fresh", "mark"}
    BY <1>1 DEF IsCall
  <2> HIDE DEF counted
  <2>2. done.mark["body"] = 0 /\ DOMAIN done = {"on", "end", "nread", "fresh", "mark"}
    BY <1>1, <2>1 DEF Unmarked, IsCall, Marks
  <2> HIDE DEF done
  <2> QED  BY <2>2
<1>6. IsParser(after) /\ after.state \in ValueTold /\ (Trailing(after) <=> Trailing(parser))
  BY <1>4 DEF IsParser, In, ValueTold, Trailing
<1>7. Onward(parser.state, pr.state) /\ parser.state \in ValueOpen
  BY <1>1, <1>4 DEF Onward, ValueOpen
<1> HIDE DEF all, counted, done, doneNext, after
<1>8. CASE q <= call.end /\ (Callback(e, after, doneNext, q + 1) \/ Callback(e, after, done, q))
  <2>1. q \in p .. call.end /\ "header_value" \in Callbacks
    BY <1>2, <1>8 DEF Callbacks
  <2>2. e \in Entry /\ e.on = "header_value"
    BY <1>1, <2>1, TokenTold DEF Tell
  <2> HIDE DEF e
  <2> QED  BY <1>1, <1>5, <1>6, <1>7, <1>8, <2>2, ValueToldOrdered
<1>9. CASE Go(pr, all, q) \/ Go(pr, counted, q)
  BY <1>1, <1>4, <1>7, <1>9, SilentGo
<1> QED  BY <1>3, <1>4, <1>8, <1>9, ErrorOrdered

\* What a value says of the connection makes no trailer.
LEMMA FlagsTrailing ==
  ASSUME IsParser(parser)
  PROVE  LET pr == [parser EXCEPT !.flags = @ \cup FlagOf(parser.header_state)]
         IN  IsParser(pr) /\ (Trailing(pr) <=> Trailing(parser))
BY DEF IsParser, FlagOf, Trailing

\* The header lines keep the order.
LEMMA HeadersOrdered ==
  ASSUME Typed, BodyFramed(parser), Ordered, Headers
  PROVE  InOrder
<1>0. IsParser(parser) /\ call.on
  BY DEF Typed, Headers, FieldStart, HeaderField, ValueDiscardWs, ValueStart, HeaderValue, HeaderAlmostDone,
         ValueLws, ValueDiscardWsAlmostDone, ValueDiscardLws, At
<1>1. CASE ValueDiscardWs
  BY <1>0, <1>1, SilentBreak DEF ValueDiscardWs, At, Onward, ValueNext, ValueOpen
<1>2. CASE HeaderAlmostDone
  BY <1>0, <1>2, SilentBreak, ErrorOrdered DEF HeaderAlmostDone, At, Onward, ValueTold
<1>3. CASE ValueDiscardWsAlmostDone
  BY <1>0, <1>3, SilentBreak, ErrorOrdered DEF ValueDiscardWsAlmostDone, At, Onward, ValueNext
<1>4. CASE ValueLws
  <2> DEFINE pr == [parser EXCEPT !.flags = @ \cup FlagOf(parser.header_state)]
  <2>1. parser.state = "s_header_value_lws"
    BY <1>4 DEF ValueLws, At
  <2>2. \/ \E s : Reexecute([parser EXCEPT !.header_state = s], "s_header_value_start")
        \/ Reexecute(pr, "s_header_field_start")
    BY <1>4 DEF ValueLws
  <2>3. \A s : /\ IsParser([parser EXCEPT !.header_state = s])
               /\ [parser EXCEPT !.header_state = s].flags = parser.flags
    BY <1>0 DEF IsParser
  <2>4. IsParser(pr) /\ (Trailing(pr) <=> Trailing(parser))
    BY <1>0, FlagsTrailing
  <2> HIDE DEF pr
  <2>5. In(pr, "s_header_field_start").state = "s_header_field_start" /\ (Trailing(In(pr, "s_header_field_start")) <=> Trailing(parser))
    BY <2>4 DEF IsParser, In, Trailing
  <2>6. Onward(parser.state, "s_header_field_start") /\ Onward(parser.state, "s_header_value_start")
    BY <2>1 DEF Onward, ValueTold, FieldNext, ValueOpen
  <2>7. CASE Reexecute(pr, "s_header_field_start")
    BY <1>0, <2>5, <2>6, <2>7, SilentGo DEF Reexecute
  <2> QED  BY <1>0, <2>2, <2>3, <2>6, <2>7, SilentBreak
<1>5. CASE ValueDiscardLws
  <2> DEFINE pr == [parser EXCEPT !.flags = @ \cup FlagOf(parser.header_state)]
             after == In(pr, "s_header_field_start")
  <2>1. /\ parser.state = "s_header_value_discard_lws" /\ call.mark["body"] = 0
        /\ At({"s_header_value_discard_lws"})
    BY <1>5, AtByte DEF ValueDiscardLws, MarksFit, BodyMarked
  <2>2. \/ Break(parser, "s_header_value_discard_ws") \/ Error("INVALID_CONTENT_LENGTH")
        \/ Callback(Say("header_value"), after, call, p)
    BY <1>5 DEF ValueDiscardLws, NotifyAgain
  <2>3. IsParser(pr) /\ (Trailing(pr) <=> Trailing(parser))
    BY <1>0, FlagsTrailing
  <2> HIDE DEF pr
  <2>4. IsParser(after) /\ after.state = "s_header_field_start" /\ (Trailing(after) <=> Trailing(parser))
    BY <2>3 DEF IsParser, In, Trailing
  <2>5. Say("header_value") \in Entry /\ Say("header_value").on = "header_value"
    BY SayTyped DEF Callbacks, Say
  <2>6. Onward(parser.state, "s_header_value_discard_ws") /\ parser.state \in ValueNext
    BY <2>1 DEF Onward, ValueNext
  <2> HIDE DEF after
  <2>7. CASE Callback(Say("header_value"), after, call, p)
    BY <1>0, <2>1, <2>4, <2>5, <2>6, <2>7, ValueToldOrdered
  <2> QED  BY <1>0, <2>2, <2>6, <2>7, SilentBreak, ErrorOrdered
<1> QED  BY <1>1, <1>2, <1>3, <1>4, <1>5, FieldStartOrdered, HeaderFieldOrdered, ValueStartOrdered, HeaderValueOrdered DEF Headers

---------------------------------------------------------------------------
\* The end of the headers is told once, and never behind the last chunk.
LEMMA HeadersAlmostDoneOrdered ==
  ASSUME Typed, Ordered, HeadersAlmostDone
  PROVE  InOrder
<1> DEFINE asked == [parser EXCEPT !.upgrade = UpgradeAsked]
           stored(pr) == [pr EXCEPT !.state = "s_headers_done", !.nread = call.nread]
           Answering(answer) ==
             \/ /\ parser' = In(Answered(asked, answer), "s_headers_done")
                /\ UNCHANGED <<call, stops>>
             \/ /\ stops < input.stops /\ stops' = stops + 1 /\ call' = Idle
                /\ \E e \in {"PAUSED", "CB"} :
                     parser' = [stored(Answered(asked, answer)) EXCEPT !.http_errno = e]
           after == In(parser, "s_message_done")
           e == Say("chunk_complete")
           h == Say("headers_complete")
<1>1. /\ At({"s_headers_almost_done"}) /\ parser.state = "s_headers_almost_done" /\ call.on
      /\ IsParser(parser) /\ call.mark["body"] = 0
  <2>1. At({"s_headers_almost_done"})
    BY DEF HeadersAlmostDone
  <2> QED  BY <2>1, AtByte DEF MarksFit, BodyMarked
<1>2. /\ told \in Seq(Entry) /\ ToldWell(told) /\ LastOn(told) \in Before(parser)
      /\ IF Trailing(parser) THEN ~HeadOpen(told) /\ Due(told) = 0 ELSE HeadOpen(told) /\ Due(told) = -1
  BY <1>1, AtOrdered DEF LastFits, DueFits, FieldStates, FieldNext
<1>3. \/ Error("STRICT") \/ Error("UNEXPECTED_CONTENT_LENGTH")
      \/ Trailing(parser) /\ Callback(e, after, call, p)
      \/ ~Trailing(parser) /\ told' = Join(told, h) /\ \E answer \in Answers : Answering(answer)
  <2>1. \/ Error("STRICT") \/ Error("UNEXPECTED_CONTENT_LENGTH")
        \/ Has("F_TRAILING") /\ NotifyAgain("chunk_complete", parser, "s_message_done")
        \/ /\ ~Has("F_TRAILING") /\ told' = Join(told, h)
           /\ \E answer \in Answers : Answering(answer)
    BY DEF HeadersAlmostDone
  <2> HIDE DEF Answering
  <2> QED  BY <2>1 DEF NotifyAgain, Trailing, Has
<1>4. CASE Trailing(parser) /\ Callback(e, after, call, p)
  <2>1. IsParser(after) /\ after.state = "s_message_done"
    BY <1>1 DEF IsParser, In
  <2>2. e \in Entry /\ e.on = "chunk_complete"
    BY SayTyped DEF Callbacks, Say
  <2>3. told' = Join(told, e)
    BY <1>4 DEF Callback
  <2> HIDE DEF after, e
  <2>4. LastOn(told) \in {"chunk_header", "header_value"} /\ ~HeadOpen(told) /\ Due(told) = 0
    BY <1>2, <1>4 DEF Before
  <2>5. /\ EventStep
        /\ ToldWell(told') /\ LastOn(told') = "chunk_complete" /\ ~HeadOpen(told') /\ Due(told') = -1
    BY <1>2, <2>2, <2>3, <2>4, ChunkCompleteEvent
  <2>6. LastFits(after, told')
    BY <2>1, <2>5 DEF LastFits, Between, LineBegun, UrlStates, UrlOpening, UrlBody, LineTold, FieldNext,
          ValueNext, ValueOpen, ValueTold, ChunkSizing
  <2>7. DueFits(after, call, p, told')
    BY <2>1, <2>5 DEF DueFits, LineStates, FieldStates, LineBegun, UrlStates, UrlOpening, UrlBody, LineTold,
          FieldNext, ValueNext, ValueOpen, ValueTold, ChunkSizing
  <2> QED  BY <1>1, <1>4, <2>1, <2>5, <2>6, <2>7, CallbackOrdered DEF InOrder
<1>5. CASE ~Trailing(parser) /\ told' = Join(told, h) /\ \E answer \in Answers : Answering(answer)
  <2>1. h \in Entry /\ h.on = "headers_complete"
    BY SayTyped DEF Callbacks, Say
  <2> HIDE DEF h
  <2>2. /\ EventStep
        /\ ToldWell(told') /\ LastOn(told') = "headers_complete" /\ ~HeadOpen(told') /\ Due(told') = -1
    <3>1. LastOn(told) \in {"url", "status", "header_value"} /\ HeadOpen(told)
      BY <1>2, <1>5 DEF Before
    <3> QED  BY <1>2, <1>5, <2>1, <3>1, HeadersCompleteEvent
  <2>3. parser'.state = "s_headers_done"
    <3>1. PICK answer \in Answers : Answering(answer)
      BY <1>5
    <3>2. IsParser(Answered(asked, answer))
      BY <1>1 DEF IsParser, UpgradeAsked, Answered
    <3> DEFINE pr == Answered(asked, answer)
    <3> HIDE DEF pr
    <3>3. In(pr, "s_headers_done").state = "s_headers_done" /\ \A x : [stored(pr) EXCEPT !.http_errno = x].state = "s_headers_done"
      BY <3>2 DEF IsParser, In, pr
    <3> QED  BY <3>1, <3>3 DEF pr
  <2>4. LastFits(parser', told')
    BY <2>2, <2>3 DEF LastFits, Between, LineBegun, UrlStates, UrlOpening, UrlBody, LineTold, FieldNext,
          ValueNext, ValueOpen, ValueTold, ChunkSizing
  <2>5. DueFits(parser', call', p', told')
    BY <2>2, <2>3 DEF DueFits, LineStates, FieldStates, LineBegun, UrlStates, UrlOpening, UrlBody, LineTold,
          FieldNext, ValueNext, ValueOpen, ValueTold, ChunkSizing
  <2> QED  BY <2>2, <2>4, <2>5 DEF InOrder, Ordered
<1> QED  BY <1>3, <1>4, <1>5, ErrorOrdered

(* The end of a message: the body has been told, if there is one. *)
LEMMA CompleteOrdered ==
  ASSUME Typed, Ordered, NEW S, At(S), parser.state \in {"s_headers_done", "s_message_done"},
         NEW pr, IsParser(pr), pr.state \in Between, NEW c, c.mark["body"] = 0, NEW q,
         Callback(Say("message_complete"), pr, c, q)
  PROVE  InOrder
<1> DEFINE e == Say("message_complete")
<1>1. /\ told \in Seq(Entry) /\ ToldWell(told) /\ ~HeadOpen(told) /\ Due(told) = -1
      /\ LastOn(told) \in {"headers_complete", "body", "chunk_complete"}
  BY AtOrdered DEF LastFits, DueFits
<1>2. e \in Entry /\ e.on = "message_complete" /\ told' = Join(told, e)
  BY SayTyped DEF Callbacks, Say, Callback
<1> HIDE DEF e
<1>3. /\ EventStep
      /\ ToldWell(told') /\ LastOn(told') = "message_complete" /\ ~HeadOpen(told') /\ Due(told') = -1
  BY <1>1, <1>2, CompleteEvent
<1>4. LastFits(pr, told')
  BY <1>3 DEF LastFits, Between, LineBegun, UrlStates, UrlOpening, UrlBody, LineTold, FieldNext,
        ValueNext, ValueOpen, ValueTold, ChunkSizing
<1>5. DueFits(pr, c, q, told')
  BY <1>3 DEF DueFits, Between, LineStates, FieldStates, LineBegun, UrlStates, UrlOpening, UrlBody, LineTold,
        FieldNext, ValueNext, ValueOpen, ValueTold, ChunkSizing
<1> QED  BY <1>3, <1>4, <1>5, CallbackOrdered DEF InOrder, e

\* Behind the headers comes a body, a chunk or the end of the message.
LEMMA HeadersDoneOrdered ==
  ASSUME Typed, Ordered, HeadersDone
  PROVE  InOrder
<1> DEFINE zero == [parser EXCEPT !.nread = 0]
           next(end) == [NextByte EXCEPT !.nread = 0, !.end = end]
           same == [NextByte EXCEPT !.nread = 0]
<1>1. /\ At({"s_headers_done"}) /\ parser.state = "s_headers_done" /\ call.on
      /\ IsParser(parser) /\ IsCall(call) /\ call.mark["body"] = 0
  BY AtByte DEF HeadersDone, MarksFit, BodyMarked
<1>2. IsParser(zero) /\ zero.flags = parser.flags
  BY <1>1 DEF IsParser
<1>3. \A end : next(end).mark["body"] = 0
  BY <1>1 DEF IsCall, NextByte
<1>4. \/ Error("STRICT") \/ Error("INVALID_TRANSFER_ENCODING")
      \/ \E s \in {"s_chunk_size_start", "s_body_identity", "s_body_identity_eof"} : Go(In(zero, s), same, p + 1)
      \/ \E end : Callback(Say("message_complete"), In(zero, NewMessage(zero)), next(end), p + 1)
  BY DEF HeadersDone
<1> HIDE DEF zero, next, same
<1>5. CASE \E s \in {"s_chunk_size_start", "s_body_identity", "s_body_identity_eof"} : Go(In(zero, s), same, p + 1)
  <2>1. PICK s \in {"s_chunk_size_start", "s_body_identity", "s_body_identity_eof"} : Go(In(zero, s), same, p + 1)
    BY <1>5
  <2>2. In(zero, s).state = s /\ (Trailing(In(zero, s)) <=> Trailing(parser)) /\ Onward(parser.state, s)
    BY <1>1, <1>2 DEF IsParser, In, Trailing, Onward
  <2> QED  BY <1>1, <2>1, <2>2, SilentGo
<1>6. CASE \E end : Callback(Say("message_complete"), In(zero, NewMessage(zero)), next(end), p + 1)
  <2>1. IsParser(In(zero, NewMessage(zero))) /\ In(zero, NewMessage(zero)).state \in Between
    BY <1>2 DEF IsParser, In, NewMessage, Between
  <2>2. PICK end : Callback(Say("message_complete"), In(zero, NewMessage(zero)), next(end), p + 1)
    BY <1>6
  <2>3. next(end).mark["body"] = 0
    BY <1>3
  <2> QED  BY <1>1, <2>1, <2>2, <2>3, CompleteOrdered
<1> QED  BY <1>4, <1>5, <1>6, ErrorOrdered

\* The end of a message is told behind its body.
LEMMA MessageDoneOrdered ==
  ASSUME Typed, Ordered, MessageDone
  PROVE  InOrder
<1> DEFINE c == [NextByte EXCEPT !.end = IF parser.upgrade THEN p ELSE @]
           pr == In(parser, NewMessage(parser))
<1>1. /\ At({"s_message_done"}) /\ parser.state = "s_message_done"
      /\ IsParser(parser) /\ IsCall(call) /\ call.mark["body"] = 0
  BY AtByte DEF MessageDone, MarksFit, BodyMarked
<1>2. IsParser(pr) /\ pr.state \in Between /\ c.mark["body"] = 0
  BY <1>1 DEF IsParser, IsCall, In, NewMessage, Between, NextByte
<1>3. Callback(Say("message_complete"), pr, c, p + 1)
  BY DEF MessageDone
<1> HIDE DEF c, pr
<1> QED  BY <1>1, <1>2, <1>3, CompleteOrdered

(* The body, in one piece or as far as the bytes of a call go. *)
LEMMA WholeBodyOrdered ==
  ASSUME Typed, Ordered, call.on, parser.state \in {"s_body_identity", "s_body_identity_eof"},
         NEW e \in Entry, e.on = "body", NEW pr, IsParser(pr),
         pr.state \in {"s_body_identity", "s_body_identity_eof", "s_message_done"},
         NEW c, c.mark["body"] = 0, NEW q, Callback(e, pr, c, q)
  PROVE  InOrder
<1>1. /\ told \in Seq(Entry) /\ ToldWell(told) /\ ~HeadOpen(told) /\ Due(told) = -1
      /\ LastOn(told) \in {"headers_complete", "body"}
  BY AliveNow DEF Ordered, Typed, LastFits, DueFits
<1>2. told' = Join(told, e)
  BY DEF Callback
<1>3. /\ EventStep
      /\ ToldWell(told') /\ LastOn(told') = "body" /\ ~HeadOpen(told') /\ Due(told') = -1
  BY <1>1, <1>2, BodyEvent
<1>4. LastFits(pr, told')
  BY <1>3 DEF LastFits, Between, LineBegun, UrlStates, UrlOpening, UrlBody, LineTold, FieldNext,
        ValueNext, ValueOpen, ValueTold, ChunkSizing
<1>5. DueFits(pr, c, q, told')
  BY <1>3 DEF DueFits, LineStates, FieldStates, Between, LineBegun, UrlStates, UrlOpening, UrlBody, LineTold,
        FieldNext, ValueNext, ValueOpen, ValueTold, ChunkSizing
<1> QED  BY <1>3, <1>4, <1>5, CallbackOrdered DEF InOrder

\* A body with a length keeps the order.
LEMMA BodyIdentityOrdered ==
  ASSUME Typed, BodyFramed(parser), Ordered, BodyIdentity
  PROVE  InOrder
<1> DEFINE pr == [parser EXCEPT !.content_length = @ - ToRead]
           c == Marked(call, "body")
           d == [c EXCEPT !.fresh = TRUE]
           b == Unmarked(call, "body")
           last == p + ToRead - 1
           e == Tell("body", SubSeq(input.bytes, c.mark["body"], last))
           after == In(pr, "s_message_done")
<1>1. /\ At({"s_body_identity"}) /\ parser.state = "s_body_identity" /\ parser.state \in BodyMarked
      /\ IsParser(parser) /\ parser.content_length # 0 /\ IsCall(call) /\ call.on
      /\ p \in Nat \ {0} /\ call.end \in Nat /\ p <= call.end
  BY AtByte DEF BodyIdentity, BodyFramed, BodyMarked, IsCall
<1>2. /\ ToRead \in Nat \ {0} /\ p + ToRead <= call.end + 1
      /\ parser.content_length - ToRead \in 0 .. ULLONG_MAX
  BY <1>1, ReadTyped DEF IsParser
<1>3. IsParser(pr) /\ pr.state = "s_body_identity" /\ pr.flags = parser.flags
  BY <1>1, <1>2 DEF IsParser
<1>4. c.mark["body"] \in 1 .. p
  BY <1>1, MarkedBody
<1>5. b.mark["body"] = 0
  BY <1>1 DEF IsCall, Unmarked, Marks
<1>6. last \in p - 1 .. call.end
  BY <1>1, <1>2
<1>7. Callback(e, after, b, last) \/ Go(pr, d, last + 1)
  BY DEF BodyIdentity
<1> HIDE DEF pr, c, d, b, last
<1>8. IsParser(after) /\ after.state = "s_message_done"
  BY <1>3 DEF IsParser, In
<1>9. CASE Callback(e, after, b, last)
  <2>1. e \in Entry /\ e.on = "body"
    BY <1>1, <1>4, <1>6, BodyTold DEF Tell
  <2> HIDE DEF e, after
  <2> QED  BY <1>1, <1>5, <1>8, <1>9, <2>1, WholeBodyOrdered
<1>10. CASE Go(pr, d, last + 1)
  BY <1>1, <1>3, <1>10, SilentGo DEF Onward, Trailing
<1> QED  BY <1>7, <1>9, <1>10

(* What a chunk has left, with what is marked of it. *)
LEMMA ChunkBodyOrdered ==
  ASSUME Typed, Ordered, call.on, parser.state \in {"s_chunk_data", "s_chunk_data_almost_done"},
         call.mark["body"] # 0, IsParser(parser),
         NEW e \in Entry, e.on = "body", Len(e.data) = p - call.mark["body"],
         NEW pr, IsParser(pr), pr.content_length = parser.content_length,
         \/ pr.state = parser.state
         \/ pr.state = "s_chunk_data_done" /\ parser.content_length = 0,
         NEW c, c.mark["body"] = 0, NEW q, Callback(e, pr, c, q)
  PROVE  InOrder
<1>1. LastFits(parser, told) /\ DueFits(parser, call, p, told) /\ ToldWell(told) /\ told \in Seq(Entry)
  BY AliveNow DEF Ordered, Typed
<1>2. /\ LastOn(told) \in {"chunk_header", "body"} /\ ~HeadOpen(told)
      /\ Due(told) = parser.content_length + (p - call.mark["body"])
  BY <1>1 DEF LastFits, DueFits, Pending
<1>3. /\ p \in Nat /\ call.mark["body"] \in Nat /\ call.mark["body"] < p
      /\ parser.content_length \in Nat
  BY WidthAssumption DEF Typed, IsParser, IsCall, Place, MarksFit, Marks
<1>4. Due(told) \in Nat /\ Len(e.data) \in 1 .. Due(told) /\ Due(told) - Len(e.data) = parser.content_length
  <2>1. PICK n \in Nat, m \in Nat : m > 0 /\ Due(told) = n + m /\ Len(e.data) = m /\ parser.content_length = n
    <3>1. p - call.mark["body"] \in Nat /\ p - call.mark["body"] > 0
      BY <1>3
    <3> QED  BY <1>2, <1>3, <3>1
  <2> QED  BY <2>1
<1>5. told' = Join(told, e)
  BY DEF Callback
<1>6. /\ EventStep
      /\ ToldWell(told') /\ LastOn(told') = "body" /\ ~HeadOpen(told')
      /\ Due(told') = parser.content_length
  BY <1>1, <1>2, <1>4, <1>5, ChunkBodyEvent
<1>7. LastFits(pr, told')
  BY <1>6 DEF LastFits, Between, LineBegun, UrlStates, UrlOpening, UrlBody, LineTold, FieldNext,
        ValueNext, ValueOpen, ValueTold, ChunkSizing
<1>8. Pending(c, q) = 0
  BY DEF Pending
<1>9. parser.content_length + 0 = parser.content_length
  BY <1>3
<1>10. DueFits(pr, c, q, told')
  BY <1>6, <1>8, <1>9 DEF DueFits, LineStates, FieldStates, Between, LineBegun, UrlStates, UrlOpening, UrlBody, LineTold,
        FieldNext, ValueNext, ValueOpen, ValueTold, ChunkSizing
<1> QED  BY <1>6, <1>7, <1>10, CallbackOrdered DEF InOrder

---------------------------------------------------------------------------
\* What is taken of a chunk is marked, what was due stays due.
LEMMA ChunkDataOrdered ==
  ASSUME Typed, BodyFramed(parser), Ordered, ChunkData
  PROVE  InOrder
<1> DEFINE pr == [parser EXCEPT !.content_length = @ - ToRead]
           after == IF pr.content_length = 0 THEN In(pr, "s_chunk_data_almost_done") ELSE pr
           c == Marked(NextByte, "body")
           q == p + ToRead
<1>1. /\ At({"s_chunk_data"}) /\ parser.state = "s_chunk_data" /\ parser.state \in BodyMarked
      /\ IsParser(parser) /\ parser.content_length # 0 /\ IsCall(call) /\ call.on
      /\ p \in Nat \ {0} /\ parser.content_length \in Nat /\ call.mark["body"] \in Nat
  <2>1. At({"s_chunk_data"}) /\ parser.state = "s_chunk_data"
    BY AtByte DEF ChunkData
  <2>2. parser.content_length # 0 /\ IsParser(parser) /\ IsCall(call)
    BY <2>1, AtByte DEF BodyFramed
  <2>3. parser.content_length \in Nat /\ call.mark["body"] \in Nat
    BY <2>2, WidthAssumption DEF IsParser, IsCall, Marks
  <2> QED  BY <2>1, <2>2, <2>3, AtByte DEF BodyMarked
<1>2. /\ ToRead \in Nat \ {0} /\ parser.content_length - ToRead \in 0 .. ULLONG_MAX
  BY <1>1, ReadTyped DEF IsParser
<1>3. /\ IsParser(pr) /\ pr.state = "s_chunk_data" /\ pr.flags = parser.flags
      /\ pr.content_length = parser.content_length - ToRead
  BY <1>1, <1>2 DEF IsParser
<1>4. c.mark["body"] = IF call.mark["body"] = 0 THEN p ELSE call.mark["body"]
  BY <1>1, MarkedBody
<1>5. Go(after, c, q)
  BY DEF ChunkData
<1> HIDE DEF pr, c, q
<1>6. /\ after.state \in {"s_chunk_data", "s_chunk_data_almost_done"}
      /\ after.content_length = parser.content_length - ToRead
  BY <1>3 DEF IsParser, In
<1> HIDE DEF after
<1>7. after.content_length + Pending(c, q) = parser.content_length + Pending(call, p)
  <2>1. PICK t \in Nat : t = ToRead /\ q = p + t /\ after.content_length = parser.content_length - t
    BY <1>2, <1>6 DEF q
  <2>2. Pending(c, q) = IF call.mark["body"] = 0 THEN t ELSE q - call.mark["body"]
    BY <1>1, <1>4, <2>1 DEF Pending
  <2>3. Pending(c, q) = t + Pending(call, p)
    BY <1>1, <2>1, <2>2 DEF Pending
  <2>4. Pending(call, p) \in Int
    BY <1>1 DEF Pending
  <2> QED  BY <1>1, <2>1, <2>3, <2>4
<1>8. /\ LastOn(told) \in {"chunk_header", "body"} /\ ~HeadOpen(told)
      /\ Due(told) = parser.content_length + Pending(call, p)
      /\ LastOn(told) = "chunk_header" => Due(told) > 0
  BY <1>1, AtOrdered DEF LastFits, DueFits
<1>9. LastFits(after, told)
  BY <1>6, <1>8 DEF LastFits, Between, LineBegun, UrlStates, UrlOpening, UrlBody, LineTold, FieldNext,
        ValueNext, ValueOpen, ValueTold, ChunkSizing
<1>10. DueFits(after, c, q, told)
  BY <1>6, <1>7, <1>8 DEF DueFits, LineStates, FieldStates, Between, LineBegun, UrlStates, UrlOpening, UrlBody, LineTold,
        FieldNext, ValueNext, ValueOpen, ValueTold, ChunkSizing
<1> QED  BY <1>1, <1>5, <1>9, <1>10, GoOrdered

\* The CR behind a chunk tells all that was due.
LEMMA ChunkDataAlmostDoneOrdered ==
  ASSUME Typed, BodyFramed(parser), Ordered, ChunkDataAlmostDone
  PROVE  InOrder
<1> DEFINE c == Unmarked(NextByte, "body")
           after == In(parser, "s_chunk_data_done")
           e == Tell("body", SubSeq(input.bytes, call.mark["body"], p - 1))
<1>1. /\ At({"s_chunk_data_almost_done"}) /\ parser.state = "s_chunk_data_almost_done" /\ parser.state \in BodyMarked
      /\ IsParser(parser) /\ parser.content_length = 0 /\ IsCall(call) /\ call.on
      /\ p \in Nat \ {0} /\ call.end \in Nat /\ p <= call.end
  BY AtByte DEF ChunkDataAlmostDone, BodyFramed, BodyMarked, IsCall
<1>2. /\ IsParser(after) /\ after.state = "s_chunk_data_done"
      /\ after.content_length = parser.content_length
  BY <1>1 DEF IsParser, In
<1>3. c.mark["body"] = 0
  BY <1>1 DEF Unmarked, NextByte, IsCall, Marks
<1>4. \/ call.mark["body"] # 0 /\ Callback(e, after, c, p + 1)
      \/ call.mark["body"] = 0 /\ Go(after, NextByte, p + 1)
      \/ Error("STRICT")
  BY DEF ChunkDataAlmostDone, Data, Break
<1> HIDE DEF c, after
<1>5. CASE call.mark["body"] # 0 /\ Callback(e, after, c, p + 1)
  <2>1. call.mark["body"] \in 1 .. p /\ p - 1 \in p - 1 .. call.end
    BY <1>1, <1>5, BodyMark
  <2>2. e \in Entry /\ e.on = "body"
    BY <1>1, <2>1, BodyTold DEF Tell
  <2>3. Len(e.data) = p - call.mark["body"]
    <3>1. Len(SubSeq(input.bytes, call.mark["body"], p - 1)) = p - call.mark["body"]
      <4>1. /\ input.bytes \in Seq(STRING) /\ p - 1 <= Len(input.bytes) /\ p - 1 \in Nat
            /\ call.mark["body"] \in Nat /\ call.mark["body"] >= 1
        BY <1>1, <2>1, AtByte, InputTyped
      <4>2. Len(SubSeq(input.bytes, call.mark["body"], p - 1)) =
              IF call.mark["body"] <= p - 1 THEN p - 1 - call.mark["body"] + 1 ELSE 0
        BY <4>1, PieceTyped DEF Callbacks
      <4>3. ASSUME NEW x, NEW m \in Nat, NEW n \in Nat, m <= n, x = IF m <= n - 1 THEN n - 1 - m + 1 ELSE 0
            PROVE  x = n - m
        BY <4>3
      <4>4. p \in Nat /\ call.mark["body"] <= p
        BY <1>1, <2>1
      <4> QED  BY <4>1, <4>2, <4>3, <4>4
    <3> QED  BY <3>1 DEF Tell
  <2> HIDE DEF e
  <2> QED  BY <1>1, <1>2, <1>3, <1>5, <2>2, <2>3, ChunkBodyOrdered
<1>6. CASE call.mark["body"] = 0 /\ Go(after, NextByte, p + 1)
  <2>1. /\ LastOn(told) = "body" /\ ~HeadOpen(told) /\ Due(told) = 0
    <3>1. /\ LastOn(told) \in {"chunk_header", "body"} /\ ~HeadOpen(told)
          /\ Due(told) = parser.content_length + Pending(call, p)
          /\ LastOn(told) = "chunk_header" => Due(told) > 0
      BY <1>1, AtOrdered DEF LastFits, DueFits
    <3>2. Due(told) = 0
      BY <1>1, <1>6, <3>1 DEF Pending
    <3> QED  BY <3>1, <3>2
  <2>2. LastFits(after, told)
    BY <1>2, <2>1 DEF LastFits, Between, LineBegun, UrlStates, UrlOpening, UrlBody, LineTold, FieldNext,
          ValueNext, ValueOpen, ValueTold, ChunkSizing
  <2>3. DueFits(after, NextByte, p + 1, told)
    BY <1>2, <2>1 DEF DueFits, LineStates, FieldStates, Between, LineBegun, UrlStates, UrlOpening, UrlBody, LineTold,
          FieldNext, ValueNext, ValueOpen, ValueTold, ChunkSizing
  <2> QED  BY <1>1, <1>6, <2>2, <2>3, GoOrdered
<1> QED  BY <1>4, <1>5, <1>6, ErrorOrdered

\* A chunk is complete when nothing of it is due.
LEMMA ChunkDataDoneOrdered ==
  ASSUME Typed, Ordered, ChunkDataDone
  PROVE  InOrder
<1> DEFINE pr == [parser EXCEPT !.nread = 0, !.state = "s_chunk_size_start"]
           c == [NextByte EXCEPT !.nread = 0]
           e == Say("chunk_complete")
<1>1. /\ At({"s_chunk_data_done"}) /\ parser.state = "s_chunk_data_done" /\ call.on
      /\ IsParser(parser) /\ IsCall(call) /\ call.mark["body"] = 0
  BY AtByte DEF ChunkDataDone, MarksFit, BodyMarked
<1>2. IsParser(pr) /\ pr.state = "s_chunk_size_start" /\ c.mark["body"] = 0
  BY <1>1 DEF IsParser, IsCall, NextByte
<1>3. e \in Entry /\ e.on = "chunk_complete"
  BY SayTyped DEF Callbacks, Say
<1>4. Callback(e, pr, c, p + 1) \/ Error("STRICT")
  BY DEF ChunkDataDone
<1> HIDE DEF pr, c, e
<1>5. CASE Callback(e, pr, c, p + 1)
  <2>1. told' = Join(told, e)
    BY <1>5 DEF Callback
  <2>2. LastOn(told) = "body" /\ ~HeadOpen(told) /\ Due(told) = 0 /\ told \in Seq(Entry) /\ ToldWell(told)
    BY <1>1, AtOrdered DEF LastFits, DueFits
  <2>3. /\ EventStep
        /\ ToldWell(told') /\ LastOn(told') = "chunk_complete" /\ ~HeadOpen(told') /\ Due(told') = 0
    BY <1>3, <2>1, <2>2, ChunkCompleteEvent
  <2>4. LastFits(pr, told')
    BY <1>2, <2>3 DEF LastFits, Between, LineBegun, UrlStates, UrlOpening, UrlBody, LineTold, FieldNext,
          ValueNext, ValueOpen, ValueTold, ChunkSizing
  <2>5. DueFits(pr, c, p + 1, told')
    BY <1>2, <2>3 DEF DueFits, LineStates, FieldStates, Between, LineBegun, UrlStates, UrlOpening, UrlBody, LineTold,
          FieldNext, ValueNext, ValueOpen, ValueTold, ChunkSizing
  <2> QED  BY <1>2, <1>5, <2>3, <2>4, <2>5, CallbackOrdered DEF InOrder
<1> QED  BY <1>4, <1>5, ErrorOrdered

\* What chunk_header announces is due, or trailers follow.
LEMMA ChunkSizeAlmostDoneOrdered ==
  ASSUME Typed, Ordered, ChunkSizeAlmostDone
  PROVE  InOrder
<1> DEFINE zero == [parser EXCEPT !.nread = 0]
           trailing == [zero EXCEPT !.flags = @ \cup {"F_TRAILING"}, !.state = "s_header_field_start"]
           data == In(zero, "s_chunk_data")
           c == [NextByte EXCEPT !.nread = 0]
           e == Tell("chunk_header", <<parser.content_length>>)
<1>1. /\ At({"s_chunk_size_almost_done"}) /\ parser.state = "s_chunk_size_almost_done"
      /\ IsParser(parser) /\ IsCall(call) /\ call.mark["body"] = 0 /\ parser.content_length \in Nat
  <2>1. At({"s_chunk_size_almost_done"})
    BY DEF ChunkSizeAlmostDone
  <2>2. parser.state = "s_chunk_size_almost_done" /\ IsParser(parser) /\ IsCall(call) /\ call.mark["body"] = 0
    BY <2>1, AtByte DEF MarksFit, BodyMarked
  <2>3. parser.content_length \in Nat
    BY <2>2, WidthAssumption DEF IsParser
  <2> QED  BY <2>1, <2>2, <2>3
<1>2. c.mark["body"] = 0
  BY <1>1 DEF IsCall, NextByte
<1>3. IsParser(trailing) /\ trailing.state = "s_header_field_start" /\ Trailing(trailing)
  BY <1>1 DEF IsParser, Trailing
<1>4. /\ IsParser(data) /\ data.state = "s_chunk_data" /\ data.content_length = parser.content_length
  BY <1>1 DEF IsParser, In
<1>5. e \in Entry /\ e = [on |-> "chunk_header", data |-> <<parser.content_length>>]
  <2>1. parser.content_length \in Piece
    BY <1>1 DEF Piece
  <2>2. <<parser.content_length>> \in Seq(Piece)
    BY <2>1
  <2> QED  BY <2>2 DEF Tell, Entry, Callbacks
<1>6. \/ Error("STRICT")
      \/ parser.content_length = 0 /\ Callback(e, trailing, c, p + 1)
      \/ parser.content_length # 0 /\ Callback(e, data, c, p + 1)
  BY DEF ChunkSizeAlmostDone
<1> HIDE DEF zero, trailing, data, c, e
<1>7. ASSUME told' = Join(told, e)
      PROVE  /\ EventStep
             /\ ToldWell(told') /\ LastOn(told') = "chunk_header" /\ ~HeadOpen(told')
             /\ Due(told') = parser.content_length
  <2>1. /\ LastOn(told) \in {"headers_complete", "chunk_complete"} /\ told \in Seq(Entry)
        /\ ~HeadOpen(told) /\ Due(told) = IF LastOn(told) = "chunk_complete" THEN 0 ELSE -1
    BY <1>1, AtOrdered DEF LastFits, DueFits, ChunkSizing
  <2>2. LastOn(told) = "headers_complete" \/ (LastOn(told) = "chunk_complete" /\ Due(told) # -1)
    BY <2>1
  <2> QED  BY <1>1, <1>5, <1>7, <2>1, <2>2, ChunkHeaderEvent
<1>8. CASE parser.content_length = 0 /\ Callback(e, trailing, c, p + 1)
  <2>1. /\ EventStep
        /\ ToldWell(told') /\ LastOn(told') = "chunk_header" /\ ~HeadOpen(told') /\ Due(told') = 0
    BY <1>7, <1>8 DEF Callback
  <2>2. LastFits(trailing, told')
    BY <1>3, <2>1 DEF LastFits, Before, Between, LineBegun, UrlStates, UrlOpening, UrlBody, LineTold, FieldNext,
          ValueNext, ValueOpen, ValueTold, ChunkSizing
  <2>3. DueFits(trailing, c, p + 1, told')
    BY <1>3, <2>1 DEF DueFits, LineStates, FieldStates, Between, LineBegun, UrlStates, UrlOpening, UrlBody, LineTold,
          FieldNext, ValueNext, ValueOpen, ValueTold, ChunkSizing
  <2> QED  BY <1>2, <1>3, <1>8, <2>1, <2>2, <2>3, CallbackOrdered DEF InOrder
<1>9. CASE parser.content_length # 0 /\ Callback(e, data, c, p + 1)
  <2>1. /\ EventStep
        /\ ToldWell(told') /\ LastOn(told') = "chunk_header" /\ ~HeadOpen(told')
        /\ Due(told') = parser.content_length
    BY <1>7, <1>9 DEF Callback
  <2>2. LastFits(data, told')
    BY <1>4, <2>1 DEF LastFits, Before, Between, LineBegun, UrlStates, UrlOpening, UrlBody, LineTold, FieldNext,
          ValueNext, ValueOpen, ValueTold, ChunkSizing
  <2>3. Pending(c, p + 1) = 0 /\ parser.content_length + 0 = parser.content_length /\ parser.content_length > 0
    BY <1>1, <1>2, <1>9 DEF Pending
  <2>4. DueFits(data, c, p + 1, told')
    BY <1>4, <2>1, <2>3 DEF DueFits, LineStates, FieldStates, Between, LineBegun, UrlStates, UrlOpening, UrlBody, LineTold,
          FieldNext, ValueNext, ValueOpen, ValueTold, ChunkSizing
  <2> QED  BY <1>2, <1>4, <1>9, <2>1, <2>2, <2>4, CallbackOrdered DEF InOrder
<1> QED  BY <1>6, <1>8, <1>9, ErrorOrdered

\* The body keeps the order.
LEMMA BodyOrdered ==
  ASSUME Typed, BodyFramed(parser), Ordered, Body
  PROVE  InOrder
<1>0. IsParser(parser) /\ IsCall(call)
  BY DEF Typed
<1>1. CASE ChunkSizeStart
  <2> DEFINE pr == [parser EXCEPT !.content_length = unhex(ch)]
  <2>1. parser.state = "s_chunk_size_start" /\ call.on
    BY <1>1 DEF ChunkSizeStart, At
  <2>2. In(pr, "s_chunk_size").state = "s_chunk_size" /\ (Trailing(In(pr, "s_chunk_size")) <=> Trailing(parser))
    BY <1>0 DEF IsParser, In, Trailing
  <2>3. Break(pr, "s_chunk_size") \/ Error("INVALID_CHUNK_SIZE")
    BY <1>1 DEF ChunkSizeStart
  <2> HIDE DEF pr
  <2>4. Onward(parser.state, "s_chunk_size")
    BY <2>1 DEF Onward, ChunkSizing
  <2> QED  BY <2>1, <2>2, <2>3, <2>4, SilentGo, ErrorOrdered DEF Break
<1>2. CASE ChunkSize
  <2> DEFINE pr == [parser EXCEPT !.content_length = Shift(@, 16, unhex(ch))]
  <2>1. parser.state = "s_chunk_size" /\ call.on
    BY <1>2 DEF ChunkSize, At
  <2>2. In(pr, parser.state).state = "s_chunk_size" /\ (Trailing(In(pr, parser.state)) <=> Trailing(parser))
    BY <1>0, <2>1 DEF IsParser, In, Trailing
  <2>3. \/ Break(parser, "s_chunk_size_almost_done") \/ Break(parser, "s_chunk_parameters")
        \/ Break(pr, parser.state) \/ Error("INVALID_CONTENT_LENGTH") \/ Error("INVALID_CHUNK_SIZE")
    BY <1>2 DEF ChunkSize
  <2> HIDE DEF pr
  <2>4. \A s \in ChunkSizing : Onward(parser.state, s)
    BY <2>1 DEF Onward, ChunkSizing
  <2>5. CASE Break(pr, parser.state)
    BY <2>1, <2>2, <2>4, <2>5, SilentGo DEF Break, ChunkSizing
  <2>6. CASE Break(parser, "s_chunk_size_almost_done") \/ Break(parser, "s_chunk_parameters")
    BY <1>0, <2>1, <2>4, <2>6, SilentBreak DEF ChunkSizing
  <2> QED  BY <2>3, <2>5, <2>6, ErrorOrdered
<1>3. CASE ChunkParameters
  <2>1. parser.state = "s_chunk_parameters" /\ call.on
    BY <1>3 DEF ChunkParameters, At
  <2>2. \E s \in ChunkSizing : Break(parser, s)
    BY <1>3, <2>1 DEF ChunkParameters, ChunkSizing
  <2>3. \A s \in ChunkSizing : Onward(parser.state, s)
    BY <2>1 DEF Onward, ChunkSizing
  <2> QED  BY <1>0, <2>1, <2>2, <2>3, SilentBreak
<1>4. CASE BodyIdentityEof
  <2>1. parser.state = "s_body_identity_eof" /\ call.on /\ Onward(parser.state, parser.state)
    BY <1>4 DEF BodyIdentityEof, At, Onward
  <2> QED  BY <1>4, <2>1, SilentGo DEF BodyIdentityEof
<1> QED  BY <1>1, <1>2, <1>3, <1>4, HeadersAlmostDoneOrdered, HeadersDoneOrdered, BodyIdentityOrdered,
            MessageDoneOrdered, ChunkSizeAlmostDoneOrdered, ChunkDataOrdered,
            ChunkDataAlmostDoneOrdered, ChunkDataDoneOrdered DEF Body

---------------------------------------------------------------------------
\* What is told when the bytes run out comes where it would have come.
LEMMA LeftoverOrdered ==
  ASSUME Typed, Ordered, Leftover
  PROVE  InOrder
<1>1. /\ IsCall(call) /\ call.on /\ Place(parser, call, p)
      /\ IsParser(parser) /\ p \in Nat \ {0} /\ call.mark \in [Marks -> Nat]
      /\ input.bytes \in Seq(STRING) /\ p - 1 \in Nat /\ p - 1 <= Len(input.bytes)
  BY InputTyped DEF Typed, Leftover, IsCall, Place
<1>2. PICK m \in Marks : /\ call.mark[m] # 0
                         /\ Callback(Tell(m, SubSeq(input.bytes, call.mark[m], p - 1)), parser, Unmarked(call, m), p)
  BY DEF Leftover
<1> DEFINE c == Unmarked(call, m)
           e == Tell(m, SubSeq(input.bytes, call.mark[m], p - 1))
<1>3. c.mark["body"] = 0
  <2>1. c.mark = [call.mark EXCEPT ![m] = 0]
    BY <1>1 DEF Unmarked, IsCall
  <2>2. m # "body" => call.mark["body"] = 0
    BY <1>1, <1>2 DEF Place, MarksFit, Marks, BodyMarked, UrlStates, UrlOpening, UrlBody
  <2> HIDE DEF c
  <2> QED  BY <1>1, <2>1, <2>2 DEF Marks
<1>4. /\ e \in Entry /\ e.on = m
      /\ Len(e.data) = IF call.mark[m] <= p - 1 THEN p - 1 - call.mark[m] + 1 ELSE 0
  <2>1. m \in Callbacks /\ call.mark[m] \in Nat /\ call.mark[m] >= 1
    BY <1>1, <1>2 DEF Marks, Callbacks
  <2> QED  BY <1>1, <2>1, PieceTyped DEF Tell
<1>5. Callback(e, parser, c, p) /\ told' = Join(told, e)
  BY <1>2 DEF Callback
<1> HIDE DEF c, e
<1>6. LastFits(parser, told) /\ DueFits(parser, call, p, told) /\ ToldWell(told) /\ told \in Seq(Entry)
  BY <1>1, AliveNow DEF Ordered, Typed
<1>7. CASE m \in {"url", "status"}
  <2>1. /\ parser.state \in LineStates /\ LastOn(told) \in {"message_begin", m}
        /\ m = "url" => parser.state \in UrlStates
        /\ m = "status" => parser.state = "s_res_status"
    BY <1>1, <1>2, <1>6, <1>7 DEF Place, MarksFit, LastFits, LineStates
  <2>2. HeadOpen(told) /\ ~Trailing(parser)
    BY <1>6, <2>1 DEF DueFits
  <2>3. /\ EventStep
        /\ ToldWell(told') /\ LastOn(told') = m /\ HeadOpen(told') /\ Due(told') = -1
    BY <1>4, <1>5, <1>6, <1>7, <2>1, <2>2, LineEvent
  <2>4. LastFits(parser, told')
    BY <1>7, <2>1, <2>3 DEF LastFits, Between, LineBegun, UrlStates, UrlOpening, UrlBody, LineTold, FieldNext,
          ValueNext, ValueOpen, ValueTold, ChunkSizing
  <2>5. DueFits(parser, c, p, told')
    BY <2>1, <2>2, <2>3 DEF DueFits, LineStates, LineBegun, UrlStates, UrlOpening, UrlBody, LineTold, ChunkSizing
  <2> QED  BY <1>1, <1>3, <1>5, <2>3, <2>4, <2>5, CallbackOrdered DEF InOrder
<1>8. CASE m = "header_field"
  <2>1. parser.state = "s_header_field"
    BY <1>1, <1>2, <1>8 DEF Place, MarksFit
  <2> QED  BY <1>1, <1>3, <1>4, <1>5, <1>8, <2>1, FieldToldOrdered
<1>9. CASE m = "header_value"
  <2>1. parser.state = "s_header_value" /\ parser.state \in ValueOpen
    BY <1>1, <1>2, <1>9 DEF Place, MarksFit, ValueOpen
  <2> QED  BY <1>1, <1>3, <1>4, <1>5, <1>9, <2>1, ValueToldOrdered
<1>10. CASE m = "body"
  <2>1. parser.state \in BodyMarked /\ call.mark["body"] < p /\ call.mark["body"] # 0 /\ call.mark["body"] \in Nat
    BY <1>1, <1>2, <1>10 DEF Place, MarksFit, Marks
  <2>2. CASE parser.state \in {"s_body_identity", "s_body_identity_eof"}
    BY <1>1, <1>3, <1>4, <1>5, <1>10, <2>2, WholeBodyOrdered
  <2>3. CASE parser.state \in {"s_chunk_data", "s_chunk_data_almost_done"}
    <3>1. Len(e.data) = p - call.mark["body"]
      <4>1. ASSUME NEW x, NEW b \in Nat, NEW n \in Nat, b <= n, x = IF b <= n - 1 THEN n - 1 - b + 1 ELSE 0
            PROVE  x = n - b
        BY <4>1
      <4> QED  BY <1>1, <1>4, <1>10, <2>1, <4>1
    <3> QED  BY <1>1, <1>3, <1>4, <1>5, <1>10, <2>1, <2>3, <3>1, ChunkBodyOrdered
  <2> QED  BY <2>1, <2>2, <2>3 DEF BodyMarked
<1> QED  BY <1>7, <1>8, <1>9, <1>10 DEF Marks

\* Calls begin and end in order, wherever the bytes are cut.
LEMMA CallsOrdered ==
  ASSUME Typed, Ordered, \/ (TakeByte \/ ReturnLen \/ Execute \/ Resume) /\ UNCHANGED <<input, eof>>
                         \/ ExecuteEof
  PROVE  InOrder
<1>0. IsParser(parser) /\ IsCall(call) /\ "body" \in Marks
  BY DEF Typed, Marks
<1>1. CASE TakeByte
  <2>1. parser' = parser /\ p' = p /\ told' = told /\ call'.mark = call.mark
    BY <1>0, <1>1 DEF TakeByte, IsCall
  <2>2. Pending(call', p') = Pending(call, p)
    BY <2>1 DEF Pending
  <2>3. Alive
    BY <1>1, AliveNow DEF TakeByte
  <2> QED  BY <2>1, <2>2, <2>3, UnmovedOrdered
<1>2. CASE ReturnLen
  <2>1. /\ parser'.state = parser.state /\ parser'.flags = parser.flags
        /\ parser'.content_length = parser.content_length /\ p' = p /\ told' = told
        /\ call' = Idle /\ call.mark = NoMark
    BY <1>0, <1>2 DEF ReturnLen, IsParser
  <2>2. Pending(call', p') = Pending(call, p)
    BY <2>1 DEF Pending, Idle, NoMark, Marks
  <2>3. Alive
    BY <1>2, AliveNow DEF ReturnLen
  <2> QED  BY <2>1, <2>2, <2>3, UnmovedOrdered
<1>3. CASE Execute
  <2>1. /\ parser'.state = parser.state /\ parser'.flags = parser.flags
        /\ parser'.content_length = parser.content_length /\ p' = p /\ told' = told
        /\ call = Idle /\ parser.http_errno = "OK" /\ ~eof
    BY <1>0, <1>3 DEF Execute, IsParser, Typed
  <2>2. call'.mark["body"] = 0
    <3>1. PICK end \in p .. Len(input.bytes) :
            call' = [on |-> TRUE, end |-> end, nread |-> parser.nread, fresh |-> TRUE,
                     mark |-> IF MarkAtEntry(parser.state) = "none" THEN NoMark
                              ELSE [NoMark EXCEPT ![MarkAtEntry(parser.state)] = p]]
      BY <1>3 DEF Execute
    <3>2. MarkAtEntry(parser.state) # "body"
      BY DEF MarkAtEntry
    <3> QED  BY <3>1, <3>2 DEF NoMark, Marks
  <2>3. Pending(call', p') = Pending(call, p)
    BY <2>1, <2>2 DEF Pending, Idle, NoMark, Marks
  <2>4. Alive
    BY <2>1 DEF Alive
  <2> QED  BY <2>1, <2>3, <2>4, UnmovedOrdered
<1>4. CASE Resume /\ UNCHANGED <<input, eof>>
  <2>1. /\ parser'.state = parser.state /\ parser'.flags = parser.flags
        /\ parser'.content_length = parser.content_length /\ p' = p /\ told' = told
        /\ call' = call /\ parser.http_errno = "PAUSED" /\ eof' = eof
    BY <1>0, <1>4 DEF Resume, IsParser
  <2>2. Pending(call', p') = Pending(call, p) /\ (Alive' => Alive)
    BY <2>1 DEF Alive
  <2> QED  BY <2>1, <2>2, UnmovedOrdered
<1>5. CASE ExecuteEof
  <2>1. ~Alive' /\ parser.http_errno = "OK" /\ ~eof
    BY <1>5 DEF ExecuteEof, Alive
  <2>2. Alive
    BY <2>1 DEF Alive
  <2>3. CASE UNCHANGED told
    BY <2>1, <2>3, NoEvent DEF InOrder, Ordered
  <2>4. CASE parser.state = "s_body_identity_eof" /\ Callback(Say("message_complete"), parser, Idle, p)
    <3> DEFINE e == Say("message_complete")
    <3>1. /\ told \in Seq(Entry) /\ ToldWell(told) /\ ~HeadOpen(told) /\ Due(told) = -1
          /\ LastOn(told) \in {"headers_complete", "body"}
      BY <2>2, <2>4 DEF Ordered, Typed, LastFits, DueFits
    <3>2. e \in Entry /\ e.on = "message_complete" /\ told' = Join(told, e)
      BY <2>4, SayTyped DEF Callbacks, Say, Callback
    <3> HIDE DEF e
    <3>3. EventStep /\ ToldWell(told')
      BY <3>1, <3>2, CompleteEvent
    <3> QED  BY <2>1, <3>3 DEF InOrder, Ordered
  <2> QED  BY <1>5, <2>3, <2>4 DEF ExecuteEof
<1> QED  BY <1>1, <1>2, <1>3, <1>4, <1>5

\* Before the first byte nothing has been told.
LEMMA OrderedInit == Init => Ordered
<1> SUFFICES ASSUME Init PROVE Ordered
  OBVIOUS
<1>1. told = <<>> /\ parser.state \in Between
  BY DEF Init, http_parser_init, StartState, Between
<1>2. LastOn(told) = "none" /\ ToldWell(told)
  BY <1>1 DEF LastOn, ToldWell, Since
<1>3. LastFits(parser, told)
  BY <1>1, <1>2 DEF LastFits, Between, LineBegun, UrlStates, UrlOpening, UrlBody, LineTold, FieldNext,
        ValueNext, ValueOpen, ValueTold, ChunkSizing
<1>4. DueFits(parser, call, p, told)
  BY <1>1 DEF DueFits, LineStates, FieldStates, Between, LineBegun, UrlStates, UrlOpening, UrlBody, LineTold,
        FieldNext, ValueNext, ValueOpen, ValueTold, ChunkSizing
<1> QED  BY <1>2, <1>3, <1>4 DEF Ordered

\* Every step keeps the order and is an event of HttpEvents, or none.
LEMMA OrderedStep == Typed /\ BodyFramed(parser) /\ Ordered /\ [Next]_vars => Ordered' /\ EventStep
<1> SUFFICES ASSUME Typed, BodyFramed(parser), Ordered, [Next]_vars PROVE InOrder
  BY DEF InOrder
<1>1. CASE UNCHANGED vars
  <2>1. UNCHANGED told /\ Ordered'
    BY <1>1 DEF vars, Ordered, Alive
  <2> QED  BY <2>1, NoEvent DEF InOrder
<1>2. CASE Overflow
  BY <1>2, ErrorOrdered DEF Overflow
<1> QED  BY <1>1, <1>2, LeftoverOrdered, CallsOrdered, StartLineOrdered, HeadersOrdered, BodyOrdered
         DEF Next, InCall

---------------------------------------------------------------------------
(* What the loop counted, as long as nothing was paused: a pause leaves the *)
(* count the call began with.                                               *)
Counted ==
  stops = 0 =>
    /\ parser.http_errno # "PAUSED"
    /\ parser.http_errno = "OK" /\ InHead =>
         IF call.on THEN p - first <= call.nread - IF call.fresh THEN 0 ELSE 1
         ELSE p - first <= parser.nread /\ parser.nread <= max_header_size

IInv == Typed /\ Framed /\ Ordered /\ Counted

---------------------------------------------------------------------------
(* What was counted, and that the call moves on. *)
Moves == call.on /\ call'.on => p' > p \/ (p' = p /\ Steps(call', parser') < Steps(call, parser))
InCount == Counted' /\ Moves

Ahead(c, q, f) == q - f <= c.nread - IF c.fresh THEN 0 ELSE 1
Keeps(c, q) == (Ahead(call, p, first) => Ahead(c, q, first)) \/ ~HeadOpen(told)
Onwards(pr, c, q) == q > p \/ (q = p /\ Steps(c, pr) < Steps(call, parser))

\* What was told last is of the kind of the last callback.
LEMMA JoinLast ==
  ASSUME NEW t \in Seq(Entry), NEW e
  PROVE  LastOn(Join(t, e)) = e.on
<1>1. CASE t # <<>> /\ t[Len(t)].on = e.on
  <2> DEFINE n == Len(t)
             v == [t EXCEPT ![n] = [t[n] EXCEPT !.data = t[n].data \o e.data]]
  <2>1. n \in Nat \ {0} /\ n \in DOMAIN t /\ DOMAIN t = 1 .. n /\ t[n] \in Entry
    BY <1>1
  <2>2. Join(t, e) = v
    BY <1>1 DEF Join
  <2>3. Len(v) = n /\ v[n] = [t[n] EXCEPT !.data = t[n].data \o e.data] /\ DOMAIN v = DOMAIN t
    BY <2>1
  <2>4. v[n].on = t[n].on
    BY <2>1, <2>3 DEF Entry
  <2> HIDE DEF v
  <2>5. v # <<>>
    BY <2>1, <2>3
  <2> QED  BY <1>1, <2>2, <2>3, <2>4, <2>5 DEF LastOn
<1>2. CASE ~(t # <<>> /\ t[Len(t)].on = e.on)
  <2>1. Join(t, e) = Append(t, e)
    BY <1>2 DEF Join
  <2>2. Len(Append(t, e)) = Len(t) + 1 /\ Append(t, e)[Len(t) + 1] = e /\ Append(t, e) # <<>>
    OBVIOUS
  <2> QED  BY <2>1, <2>2 DEF LastOn
<1> QED  BY <1>1, <1>2

(* Only a message that begins opens a head. *)
LEMMA HeadStays ==
  ASSUME EventStep, UNCHANGED told \/ LastOn(told') # "message_begin", InHead'
  PROVE  InHead
<1>1. CASE UNCHANGED told
  BY <1>1 DEF InHead, HeadOpen, LastOn, Since
<1>2. CASE LastOn(told') # "message_begin"
  BY <1>2 DEF InHead, EventStep, Events!Next, Events!vars, Events!Begin, Events!StartLine, Events!Field,
        Events!Value, Events!HeadersComplete, Events!ChunkHeader, Events!Body, Events!ChunkComplete,
        Events!Complete
<1> QED  BY <1>1, <1>2

\* The types the counting needs.
LEMMA CallIs ==
  ASSUME IInv
  PROVE  /\ IsCall(call) /\ IsParser(parser) /\ p \in Nat /\ first \in Nat /\ stops \in Nat
         /\ call.nread \in Nat /\ told \in Seq(Entry)
         /\ call.on => parser.http_errno = "OK"
BY InputTyped DEF IInv, Typed, IsCall, Place

\* An error ends the call and the counting.
LEMMA ErrorCounts ==
  ASSUME IInv, NEW e, e \notin {"OK", "PAUSED"}, Error(e)
  PROVE  InCount
<1>1. parser'.http_errno = e /\ ~call'.on
  BY CallIs, IdleTyped DEF Error, IsParser
<1> QED  BY <1>1 DEF InCount, Counted, Moves

\* A step without a callback counts, if it is as far ahead of the count as before, and moves on.
LEMMA GoCounts ==
  ASSUME IInv, call.on, NEW pr, pr.http_errno = "OK", NEW c, c.on, NEW q, Go(pr, c, q), Keeps(c, q),
         Onwards(pr, c, q)
  PROVE  InCount
<1>1. parser' = pr /\ call' = c /\ p' = q /\ told' = told /\ stops' = stops /\ first' = first
  BY DEF Go
<1>2. InHead' => InHead /\ HeadOpen(told)
  BY <1>1 DEF InHead, HeadOpen, LastOn, Since
<1>3. stops = 0 /\ InHead => Ahead(call, p, first)
  BY CallIs DEF IInv, Counted, Ahead
<1>4. stops' = 0 /\ InHead' => Ahead(call', p', first')
  BY <1>1, <1>2, <1>3 DEF Keeps, Ahead
<1> QED  BY <1>1, <1>4 DEF InCount, Counted, Moves, Onwards, Ahead

\* So does one with a callback that opens no head; a callback that stops the call ends the counting.
LEMMA CallbackCounts ==
  ASSUME IInv, EventStep, call.on, NEW e, e.on # "message_begin", NEW pr, pr.http_errno = "OK",
         NEW c, c.on, NEW q, Callback(e, pr, c, q), first' = first, Keeps(c, q), Onwards(pr, c, q)
  PROVE  InCount
<1>1. InHead' => InHead /\ HeadOpen(told)
  <2>1. LastOn(told') # "message_begin"
    BY CallIs, JoinLast DEF Callback
  <2> QED  BY <2>1, HeadStays DEF InHead
<1>2. stops = 0 /\ InHead => Ahead(call, p, first)
  BY CallIs DEF IInv, Counted, Ahead
<1>3. CASE parser' = pr /\ call' = c /\ p' = q /\ stops' = stops
  <2>1. stops' = 0 /\ InHead' => Ahead(call', p', first')
    BY <1>1, <1>2, <1>3 DEF Keeps, Ahead
  <2> QED  BY <1>3, <2>1 DEF InCount, Counted, Moves, Onwards, Ahead
<1>4. CASE stops' = stops + 1 /\ call' = Idle
  <2>1. stops' # 0 /\ ~call'.on
    BY <1>4, CallIs, IdleTyped
  <2> QED  BY <2>1 DEF InCount, Counted, Moves
<1> QED  BY <1>3, <1>4 DEF Callback

---------------------------------------------------------------------------
(* The marks a call holds. *)
Held(c) == {m \in Marks : c.mark[m] # 0}

\* The marks held are finitely many.
LEMMA HeldFinite == ASSUME NEW c PROVE IsFiniteSet(Held(c)) /\ Cardinality(Held(c)) \in Nat
<1>1. IsFiniteSet(Marks)
  <2>1. Marks = {} \cup {"header_field"} \cup {"header_value"} \cup {"url"} \cup {"body"} \cup {"status"}
    BY DEF Marks
  <2> QED  BY <2>1, FS_EmptySet, FS_AddElement
<1>2. Held(c) \subseteq Marks
  BY DEF Held
<1> QED  BY <1>1, <1>2, FS_Subset, FS_CardinalityType

\* They depend on the marks of the call alone.
LEMMA HeldSame == ASSUME NEW c, NEW d, d.mark = c.mark PROVE Held(d) = Held(c)
BY DEF Held

\* A mark given up is one mark less.
LEMMA HeldUnmarked ==
  ASSUME NEW c, IsCall(c), NEW m \in Marks
  PROVE  /\ Cardinality(Held(Unmarked(c, m))) <= Cardinality(Held(c))
         /\ c.mark[m] # 0 => Cardinality(Held(Unmarked(c, m))) = Cardinality(Held(c)) - 1
<1>1. Unmarked(c, m).mark = [c.mark EXCEPT ![m] = 0]
  BY DEF Unmarked, IsCall
<1>2. Held(Unmarked(c, m)) = Held(c) \ {m}
  <2> HIDE DEF Unmarked
  <2> QED  BY <1>1 DEF Held, IsCall
<1>3. c.mark[m] # 0 => m \in Held(c)
  BY DEF Held
<1>4. CASE m \in Held(c)
  <2>1. Cardinality(Held(c) \ {m}) = Cardinality(Held(c)) - 1
    BY <1>4, HeldFinite, FS_RemoveElement
  <2> QED  BY <1>2, <2>1, HeldFinite
<1>5. CASE m \notin Held(c)
  <2>1. Held(Unmarked(c, m)) = Held(c)
    BY <1>2, <1>5
  <2> QED  BY <1>3, <1>5, <2>1, HeldFinite
<1> QED  BY <1>4, <1>5

\* A mark set is one mark more at most.
LEMMA HeldMarked ==
  ASSUME NEW c, IsCall(c), NEW m \in Marks
  PROVE  Cardinality(Held(Marked(c, m))) <= Cardinality(Held(c)) + 1
<1>1. Marked(c, m).mark = [c.mark EXCEPT ![m] = IF @ = 0 THEN p ELSE @]
  BY DEF Marked, IsCall
<1>2. Held(Marked(c, m)) \subseteq Held(c) \cup {m}
  <2> HIDE DEF Marked
  <2> QED  BY <1>1 DEF Held, IsCall
<1>3. IsFiniteSet(Held(c) \cup {m}) /\ Cardinality(Held(c) \cup {m}) <= Cardinality(Held(c)) + 1
  <2> DEFINE H == Held(c)
  <2>1. IsFiniteSet(H) /\ Cardinality(H) \in Nat
    BY HeldFinite
  <2> HIDE DEF H
  <2>2. IsFiniteSet(H \cup {m}) /\ (Cardinality(H \cup {m}) = Cardinality(H) \/ Cardinality(H \cup {m}) = Cardinality(H) + 1)
    BY <2>1, FS_AddElement
  <2> QED  BY <2>1, <2>2 DEF H
<1>4. Cardinality(Held(Marked(c, m))) <= Cardinality(Held(c) \cup {m})
  BY <1>2, <1>3, FS_Subset
<1> QED  BY <1>3, <1>4, HeldFinite, FS_CardinalityType

\* The measure of CallMovesOn, in the marks held.
LEMMA StepsAre ==
  ASSUME NEW c, NEW pr
  PROVE  Steps(c, pr) = Cardinality(Held(c)) + IF c.fresh THEN 6 ELSE Rank(pr.state)
BY DEF Steps, Held

\* A state is looked at again at most four times.
LEMMA RankTyped == ASSUME NEW s PROVE Rank(s) \in 0 .. 4
BY DEF Rank

\* With the marks as they are, a state of lower rank is a step ahead.
LEMMA StepsFall ==
  ASSUME NEW c, IsCall(c), ~c.fresh, NEW d, d.mark = c.mark, d.fresh = c.fresh,
         NEW pr, NEW r, Rank(r.state) < Rank(pr.state)
  PROVE  Steps(d, r) < Steps(c, pr)
<1>1. Cardinality(Held(d)) = Cardinality(Held(c)) /\ Cardinality(Held(c)) \in Nat
  BY HeldSame, HeldFinite
<1> QED  BY <1>1, StepsAre, RankTyped

---------------------------------------------------------------------------
\* A break takes the byte that has been counted.
LEMMA BreakCounts ==
  ASSUME IInv, call.on, ~call.fresh, NEW pr, IsParser(pr), pr.http_errno = "OK", NEW s, Break(pr, s)
  PROVE  InCount
<1>1. call.on /\ ~call.fresh /\ IsCall(call) /\ p \in Nat /\ first \in Nat /\ call.nread \in Nat
  BY CallIs
<1>2. /\ In(pr, s).http_errno = "OK" /\ NextByte.fresh /\ NextByte.on /\ NextByte.nread = call.nread
  BY <1>1 DEF In, IsParser, NextByte, IsCall
<1>3. Keeps(NextByte, p + 1)
  BY <1>1, <1>2 DEF Keeps, Ahead
<1>4. Onwards(In(pr, s), NextByte, p + 1)
  BY <1>1 DEF Onwards
<1> QED  BY <1>1, <1>2, <1>3, <1>4, GoCounts DEF Break

\* REEXECUTE leads to a state of lower rank.
LEMMA ReexecuteCounts ==
  ASSUME IInv, call.on, ~call.fresh, NEW pr, IsParser(pr), pr.http_errno = "OK",
         NEW s, Rank(s) < Rank(parser.state), Reexecute(pr, s)
  PROVE  InCount
<1>1. call.on /\ ~call.fresh /\ IsCall(call) /\ p \in Nat
  BY CallIs
<1>2. In(pr, s).http_errno = "OK" /\ In(pr, s).state = s
  BY DEF In, IsParser
<1>3. Keeps(call, p)
  BY DEF Keeps
<1>4. Onwards(In(pr, s), call, p)
  BY <1>1, <1>2, StepsFall DEF Onwards
<1> QED  BY <1>1, <1>2, <1>3, <1>4, GoCounts DEF Reexecute

\* A token begins with a byte that has been counted.
LEMMA TokenCounts ==
  ASSUME IInv, call.on, ~call.fresh, NEW pr, pr.http_errno = "OK", NEW m, Go(pr, Marked(NextByte, m), p + 1)
  PROVE  InCount
<1>1. call.on /\ ~call.fresh /\ IsCall(call) /\ p \in Nat /\ first \in Nat /\ call.nread \in Nat
  BY CallIs
<1> DEFINE c == Marked(NextByte, m)
<1>2. c.fresh /\ c.on /\ c.nread = call.nread
  BY <1>1 DEF NextByte, IsCall, Marked
<1> HIDE DEF c
<1>3. Keeps(c, p + 1)
  BY <1>1, <1>2 DEF Keeps, Ahead
<1>4. Onwards(pr, c, p + 1)
  BY <1>1 DEF Onwards
<1> QED  BY <1>1, <1>2, <1>3, <1>4, GoCounts DEF c

(* A callback made when a byte is done with. *)
LEMMA ToldCounts ==
  ASSUME IInv, EventStep, call.on, ~call.fresh, NEW e, e.on # "message_begin", NEW pr, pr.http_errno = "OK",
         NEW c, c.on, c.fresh, c.nread = call.nread \/ ~HeadOpen(told), Callback(e, pr, c, p + 1), first' = first
  PROVE  InCount
<1>1. call.on /\ ~call.fresh /\ IsCall(call) /\ p \in Nat /\ first \in Nat /\ call.nread \in Nat
  BY CallIs
<1>2. Keeps(c, p + 1)
  BY <1>1 DEF Keeps, Ahead
<1>3. Onwards(pr, c, p + 1)
  BY <1>1 DEF Onwards
<1> QED  BY <1>1, <1>2, <1>3, CallbackCounts

\* A token ends with a byte that has been counted.
LEMMA DataCounts ==
  ASSUME IInv, EventStep, call.on, ~call.fresh, NEW m \in {"url", "status", "body"}, NEW pr, IsParser(pr),
         pr.http_errno = "OK", NEW s, Data(m, pr, s)
  PROVE  InCount
<1>1. call.on /\ IsCall(call)
  BY CallIs
<1> DEFINE e == Tell(m, SubSeq(input.bytes, call.mark[m], p - 1))
           c == Unmarked(NextByte, m)
<1>2. c.fresh /\ c.on /\ c.nread = call.nread
  BY <1>1 DEF NextByte, IsCall, Unmarked
<1>3. In(pr, s).http_errno = "OK"
  BY DEF In, IsParser
<1>4. e.on # "message_begin"
  BY DEF Tell
<1>5. Callback(e, In(pr, s), c, p + 1) /\ first' = first
  BY DEF Data
<1> HIDE DEF e, c
<1> QED  BY <1>2, <1>3, <1>4, <1>5, ToldCounts

\* A message begins with a byte that has been counted.
LEMMA BeginCounts ==
  ASSUME IInv, call.on, ~call.fresh, ParsingHeader(parser.state), NEW pr, IsParser(pr), pr.http_errno = "OK",
         NEW s, BeginMessage(pr, s)
  PROVE  InCount
<1>1. call.on /\ ~call.fresh /\ IsCall(call) /\ p \in Nat /\ stops \in Nat /\ call.nread \in Nat
  BY CallIs
<1>2. call.nread >= 1
  BY <1>1 DEF IInv, Framed, CountStarts
<1>3. NextByte.fresh /\ NextByte.on /\ NextByte.nread = call.nread /\ In(pr, s).http_errno = "OK"
  BY <1>1 DEF NextByte, IsCall, In, IsParser
<1>4. CASE parser' = In(pr, s) /\ call' = NextByte /\ p' = p + 1 /\ first' = p
  BY <1>1, <1>2, <1>3, <1>4 DEF InCount, Counted, Moves
<1>5. CASE stops' = stops + 1 /\ call' = Idle
  <2>1. stops' # 0 /\ ~call'.on
    BY <1>1, <1>5, IdleTyped
  <2> QED  BY <2>1 DEF InCount, Counted, Moves
<1> QED  BY <1>4, <1>5 DEF BeginMessage, Callback

---------------------------------------------------------------------------
\* The start line is counted byte for byte, and moves on.
LEMMA StartLineCounts ==
  ASSUME IInv, EventStep, StartLine
  PROVE  InCount
<1>0. IsParser(parser) /\ call.on /\ ~call.fresh /\ parser.http_errno = "OK"
  <2>1. call.on /\ ~call.fresh
    BY DEF StartLine, At, Dead, SkipEol, StartEither, ResOrRespH, StartRes, ResHttp, ResVersion, ResVersionEnd, StatusCode, StatusCodeEnd, StatusStart, Status, ResLineAlmostDone, StartReq, ReqMethod, ReqMethodEnd, UrlStart, UrlChar, UrlEnd, ReqHttpStart, ReqHttp, ReqVersion, ReqVersionEnd, ReqLineAlmostDone
  <2> QED  BY <2>1, CallIs
<1>1. CASE Dead
  BY <1>0, <1>1, BreakCounts, ErrorCounts DEF Dead, IsParser
<1>2. CASE SkipEol
  BY <1>0, <1>2, BreakCounts, ErrorCounts DEF SkipEol, IsParser, At
<1>3. CASE StartEither
  <2> DEFINE pr == [Fresh(parser) EXCEPT !.type = "HTTP_REQUEST"]
  <2>1. IsParser(Fresh(parser)) /\ IsParser(pr) /\ Fresh(parser).http_errno = "OK" /\ pr.http_errno = "OK"
    BY <1>0, FreshTyped DEF IsParser
  <2>2. ParsingHeader(parser.state) /\ Rank("s_start_req") < Rank(parser.state)
    BY <1>3 DEF StartEither, At, ParsingHeader, BodyStates, Rank
  <2>3. BeginMessage(Fresh(parser), "s_res_or_resp_H") \/ Reexecute(pr, "s_start_req")
    BY <1>3 DEF StartEither
  <2> HIDE DEF pr
  <2> QED  BY <1>0, <2>1, <2>2, <2>3, BeginCounts, ReexecuteCounts
<1>4. CASE ResOrRespH
  BY <1>0, <1>4, BreakCounts, ErrorCounts DEF ResOrRespH, IsParser
<1>5. CASE StartRes
  <2>1. ParsingHeader(parser.state)
    BY <1>5 DEF StartRes, At, ParsingHeader, BodyStates
  <2> QED  BY <1>0, <1>5, <2>1, FreshTyped, BeginCounts, ErrorCounts DEF StartRes
<1>6. CASE ResHttp
  BY <1>0, <1>6, BreakCounts, ErrorCounts DEF ResHttp, IsParser
<1>7. CASE ResVersion
  BY <1>0, <1>7, BreakCounts, ErrorCounts DEF ResVersion, IsParser
<1>8. CASE ResVersionEnd
  BY <1>0, <1>8, BreakCounts, ErrorCounts DEF ResVersionEnd, IsParser
<1>9. CASE StatusCode
  BY <1>0, <1>9, BreakCounts, ErrorCounts DEF StatusCode, IsParser
<1>10. CASE StatusCodeEnd
  <2>1. Rank("s_res_status_start") < Rank(parser.state)
    BY <1>10 DEF StatusCodeEnd, At, Rank
  <2> QED  BY <1>0, <1>10, <2>1, BreakCounts, ReexecuteCounts, ErrorCounts DEF StatusCodeEnd
<1>11. CASE StatusStart
  <2>1. In(parser, "s_res_status").state = "s_res_status" /\ In(parser, "s_res_status").http_errno = "OK"
    BY <1>0 DEF IsParser, In
  <2>2. \/ Go(In(parser, "s_res_status"), Marked(call, "status"), p)
        \/ Go(In(parser, "s_res_status"), Marked(NextByte, "status"), p + 1)
    BY <1>11 DEF StatusStart
  <2>3. CASE Go(In(parser, "s_res_status"), Marked(call, "status"), p)
    <3> DEFINE c == Marked(call, "status")
    <3>1. Cardinality(Held(c)) <= Cardinality(Held(call)) + 1
      BY CallIs, HeldMarked DEF Marks
    <3>2. c.on /\ ~c.fresh /\ c.nread = call.nread
      BY <1>0, CallIs DEF IsCall, Marked
    <3> HIDE DEF c
    <3>3. Rank(parser.state) = 3 /\ Rank("s_res_status") = 0
      BY <1>11 DEF StatusStart, At, Rank
    <3>4. Onwards(In(parser, "s_res_status"), c, p)
      BY <1>0, <2>1, <3>1, <3>2, <3>3, StepsAre, HeldFinite DEF Onwards
    <3>5. Keeps(c, p)
      BY <1>0, <3>2 DEF Keeps, Ahead
    <3> QED  BY <1>0, <2>1, <2>3, <3>2, <3>4, <3>5, GoCounts DEF c
  <2> QED  BY <1>0, <2>1, <2>2, <2>3, TokenCounts
<1>12. CASE Status
  BY <1>0, <1>12, BreakCounts, DataCounts DEF Status
<1>13. CASE ResLineAlmostDone
  BY <1>0, <1>13, BreakCounts, ErrorCounts DEF ResLineAlmostDone, IsParser
<1>14. CASE StartReq
  <2> DEFINE pr == [Fresh(parser) EXCEPT !.method = MethodName[ch]]
  <2>1. IsParser(pr) /\ pr.http_errno = "OK"
    BY <1>0, FreshTyped DEF IsParser
  <2>2. ParsingHeader(parser.state)
    BY <1>14 DEF StartReq, At, ParsingHeader, BodyStates
  <2>3. BeginMessage(pr, "s_req_method") \/ Error("INVALID_METHOD")
    BY <1>14 DEF StartReq
  <2> HIDE DEF pr
  <2> QED  BY <1>0, <2>1, <2>2, <2>3, BeginCounts, ErrorCounts
<1>15. CASE ReqMethod
  BY <1>0, <1>15, BreakCounts, ErrorCounts DEF ReqMethod, IsParser
<1>16. CASE ReqMethodEnd
  BY <1>0, <1>16, BreakCounts, ErrorCounts DEF ReqMethodEnd, IsParser
<1>17. CASE UrlStart
  <2> DEFINE s == parse_url_char(IF parser.method = "CONNECT" THEN "s_req_server_start"
                                ELSE parser.state, ch)
  <2>1. \/ Break(parser, parser.state) \/ Error("INVALID_URL")
        \/ Go(In(parser, s), Marked(NextByte, "url"), p + 1)
    BY <1>17 DEF UrlStart
  <2> HIDE DEF s
  <2>2. In(parser, s).http_errno = "OK"
    BY <1>0 DEF IsParser, In
  <2> QED  BY <1>0, <2>1, <2>2, TokenCounts, BreakCounts, ErrorCounts
<1>18. CASE UrlChar
  <2>1. Error("INVALID_URL") \/ Break(parser, parse_url_char(parser.state, ch))
    BY <1>18 DEF UrlChar
  <2> QED  BY <1>0, <2>1, BreakCounts, ErrorCounts
<1>19. CASE UrlEnd
  <2> DEFINE nine == [parser EXCEPT !.version = "0.9"]
  <2>1. IsParser(nine) /\ nine.http_errno = "OK"
    BY <1>0 DEF IsParser, Versions
  <2>2. \/ Data("url", parser, "s_req_http_start") \/ Data("url", nine, "s_req_line_almost_done")
        \/ Data("url", nine, "s_header_field_start")
    BY <1>19 DEF UrlEnd, Eol
  <2> HIDE DEF nine
  <2> QED  BY <1>0, <2>1, <2>2, DataCounts
<1>20. CASE ReqHttpStart
  BY <1>0, <1>20, BreakCounts, ErrorCounts DEF ReqHttpStart, IsParser, At
<1>21. CASE ReqHttp
  BY <1>0, <1>21, BreakCounts, ErrorCounts DEF ReqHttp, IsParser
<1>22. CASE ReqVersion
  BY <1>0, <1>22, BreakCounts, ErrorCounts DEF ReqVersion, IsParser
<1>23. CASE ReqVersionEnd
  BY <1>0, <1>23, BreakCounts, ErrorCounts DEF ReqVersionEnd, IsParser
<1>24. CASE ReqLineAlmostDone
  BY <1>0, <1>24, BreakCounts, ErrorCounts DEF ReqLineAlmostDone, IsParser
<1> QED  BY <1>1, <1>2, <1>3, <1>4, <1>5, <1>6, <1>7, <1>8, <1>9, <1>10, <1>11, <1>12, <1>13, <1>14, <1>15, <1>16, <1>17, <1>18, <1>19, <1>20, <1>21, <1>22, <1>23, <1>24 DEF StartLine

---------------------------------------------------------------------------
\* The first byte of a name is counted, the end of the headers looked at again.
LEMMA FieldStartCounts ==
  ASSUME IInv, FieldStart
  PROVE  InCount
<1> DEFINE pr == [parser EXCEPT !.header_state = NameStart(ch), !.state = "s_header_field"]
<1>1. call.on /\ ~call.fresh /\ IsParser(parser) /\ parser.http_errno = "OK"
  BY CallIs DEF FieldStart, At
<1>2. pr.http_errno = "OK" /\ Rank("s_headers_almost_done") < Rank(parser.state)
  BY <1>1 DEF FieldStart, At, IsParser, Rank
<1>3. \/ Break(parser, "s_headers_almost_done") \/ Reexecute(parser, "s_headers_almost_done")
      \/ Go(pr, Marked(NextByte, "header_field"), p + 1) \/ Error("INVALID_HEADER_TOKEN")
  BY DEF FieldStart
<1> HIDE DEF pr
<1> QED  BY <1>1, <1>2, <1>3, BreakCounts, ReexecuteCounts, TokenCounts, ErrorCounts

(* What an inner loop took is counted when it stops. *)
LEMMA LoopCounts ==
  ASSUME IInv, call.on, ~call.fresh, NEW q \in Nat, q >= p, NEW c, c.on,
         \/ c.nread = call.nread + (q - 1 - p) /\ c.fresh
         \/ c.nread = call.nread + (q - p) /\ ~c.fresh
  PROVE  Keeps(c, q) /\ (c.nread = call.nread + (q - p) => Keeps([c EXCEPT !.fresh = TRUE], q + 1))
<1>1. p \in Nat /\ first \in Nat /\ call.nread \in Nat
  BY CallIs
<1>2. Keeps(c, q)
  BY <1>1 DEF Keeps, Ahead
<1> QED  BY <1>1, <1>2 DEF Keeps, Ahead

\* The loop over a name counts what it took when it stops.
LEMMA HeaderFieldCounts ==
  ASSUME IInv, EventStep, HeaderField
  PROVE  InCount
<1> DEFINE q == StopAt(IsToken)
           pr == NameRun(parser, SubSeq(input.bytes, p, q - 1))
           counted == [call EXCEPT !.nread = @ + (q - p)]
           all == [call EXCEPT !.nread = @ + (q - 1 - p), !.fresh = TRUE]
           done == [Unmarked(counted, "header_field") EXCEPT !.fresh = TRUE]
           e == Tell("header_field", SubSeq(input.bytes, call.mark["header_field"], q - 1))
           after == In(pr, "s_header_value_discard_ws")
<1>1. /\ p \in Nat \ {0} /\ call.end \in Nat /\ p <= call.end /\ call.on /\ ~call.fresh /\ first \in Nat
      /\ call.nread \in Nat /\ IsCall(call) /\ IsParser(parser) /\ call.end <= Len(input.bytes)
      /\ call.nread <= max_header_size /\ parser.http_errno = "OK"
  BY CallIs, AtByte DEF HeaderField, IsCall, IInv
<1>2. q \in p .. call.end + 1
  <2>1. p \in Nat /\ p <= call.end + 1
    BY <1>1
  <2> QED  BY <1>1, <2>1, TokenStops, Zenon
<1>3. \/ q > p /\ (Go(pr, all, q) \/ Go(pr, counted, q))
      \/ Callback(e, after, done, q + 1) /\ first' = first
      \/ Error("INVALID_HEADER_TOKEN")
  <2>1. counted.nread = call.nread + (q - p)
    BY <1>1 DEF IsCall
  <2>2. counted.nread > max_header_size => q > p
    <3> HIDE DEF q, counted
    <3> QED  BY <1>1, <1>2, <2>1, OptionAssumption
  <2>3. q > call.end => q > p
    <3> HIDE DEF q
    <3> QED  BY <1>1, <1>2
  <2> QED  BY <2>2, <2>3 DEF HeaderField
<1>4. IsParser(pr) /\ pr.http_errno = "OK"
  <2>1. SubSeq(input.bytes, p, q - 1) \in Seq(STRING)
    <3> HIDE DEF q
    <3>1. q - 1 \in Nat /\ q - 1 <= Len(input.bytes)
      BY <1>1, <1>2, InputTyped DEF IInv
    <3> QED  BY <1>1, <3>1, InputTyped, BytesTyped DEF IInv
  <2> HIDE DEF q
  <2> QED  BY <2>1, <1>1, NameRunKeeps DEF NameKept
<1>5. e.on # "message_begin"
  BY DEF Tell
<1> HIDE DEF q, pr, e
<1>6. q \in Nat /\ q >= p
  BY <1>1, <1>2
<1>7. /\ all.on /\ all.fresh /\ all.nread = call.nread + (q - 1 - p)
      /\ counted.on /\ ~counted.fresh /\ counted.nread = call.nread + (q - p)
      /\ DOMAIN counted = {"on", "end", "nread", "fresh", "mark"}
  BY <1>1 DEF IsCall
<1>8. done.on /\ done.fresh /\ done.nread = call.nread + (q - p)
  <2> HIDE DEF counted
  <2> QED  BY <1>7 DEF Unmarked
<1>9. after.http_errno = "OK"
  BY <1>4 DEF IsParser, In
<1> HIDE DEF all, counted, done, after
<1>10. Keeps(all, q) /\ Keeps(counted, q)
  BY <1>1, <1>6, <1>7, LoopCounts
<1>11. Keeps(done, q + 1) /\ Onwards(after, done, q + 1)
  BY <1>1, <1>6, <1>8 DEF Keeps, Ahead, Onwards
<1>12. q > p => Onwards(pr, all, q) /\ Onwards(pr, counted, q)
  BY DEF Onwards
<1> QED  BY <1>1, <1>3, <1>4, <1>5, <1>7, <1>8, <1>9, <1>10, <1>11, <1>12, GoCounts, CallbackCounts, ErrorCounts

\* The first byte of a value is counted.
LEMMA ValueStartCounts ==
  ASSUME IInv, ValueStart
  PROVE  InCount
<1> DEFINE To(pr) == Go(In(pr, "s_header_value"), Marked(NextByte, "header_value"), p + 1)
<1>1. call.on /\ ~call.fresh /\ IsParser(parser) /\ parser.http_errno = "OK"
  BY CallIs DEF ValueStart, At
<1>2. ASSUME NEW pr, IsParser(pr), pr.http_errno = "OK", To(pr) PROVE InCount
  <2>1. In(pr, "s_header_value").http_errno = "OK"
    BY <1>2 DEF In, IsParser
  <2> QED  BY <1>1, <1>2, <2>1, TokenCounts
<1> DEFINE upgrade == [parser EXCEPT !.flags = @ \cup {"F_UPGRADE"}, !.header_state = "h_general"]
           length == [parser EXCEPT !.flags = @ \cup {"F_CONTENTLENGTH"}, !.content_length = Num[ch],
                                    !.header_state = "h_content_length_num"]
           with(s) == [parser EXCEPT !.header_state = s]
<1>3. IsParser(upgrade) /\ upgrade.http_errno = "OK"
  BY <1>1 DEF IsParser
<1>4. \A s : IsParser(with(s)) /\ with(s).http_errno = "OK"
  BY <1>1 DEF IsParser
<1>5. IsNum(ch) => IsParser(length) /\ length.http_errno = "OK"
  <2> HAVE IsNum(ch)
  <2>1. Num[ch] \in 0 .. ULLONG_MAX
    BY WidthAssumption DEF IsNum, Num, Digits
  <2> QED  BY <1>1, <2>1 DEF IsParser
<1>6. \/ To(upgrade) \/ (\E s : To(with(s))) \/ To(parser) \/ (IsNum(ch) /\ To(length))
      \/ Error("INVALID_CONTENT_LENGTH") \/ Error("UNEXPECTED_CONTENT_LENGTH")
  <2> HIDE DEF To
  <2> QED  BY DEF ValueStart, To
<1> HIDE DEF To, length, upgrade, with
<1> QED  BY <1>1, <1>2, <1>3, <1>4, <1>5, <1>6, ErrorCounts

\* The loop over a value counts what it took when it stops; an LF is looked at again.
LEMMA HeaderValueCounts ==
  ASSUME IInv, EventStep, HeaderValue
  PROVE  InCount
<1> DEFINE q == StopAt(NoEol)
           pr == ValueRun(parser, SubSeq(input.bytes, p, q - 1))
           counted == [call EXCEPT !.nread = @ + (q - p)]
           all == [call EXCEPT !.nread = @ + (q - 1 - p), !.fresh = TRUE]
           done == Unmarked(counted, "header_value")
           doneNext == [done EXCEPT !.fresh = TRUE]
           e == Tell("header_value", SubSeq(input.bytes, call.mark["header_value"], q - 1))
           after == In(pr, "s_header_almost_done")
<1>1. /\ p \in Nat \ {0} /\ call.end \in Nat /\ p <= call.end /\ call.on /\ ~call.fresh /\ first \in Nat
      /\ call.nread \in Nat /\ IsCall(call) /\ IsParser(parser) /\ call.end <= Len(input.bytes)
      /\ call.nread <= max_header_size /\ parser.http_errno = "OK" /\ parser.state = "s_header_value"
  BY CallIs, AtByte DEF HeaderValue, IsCall, IInv
<1>2. q \in p .. call.end + 1
  <2>1. p \in Nat /\ p <= call.end + 1
    BY <1>1
  <2> QED  BY <1>1, <2>1, ValueStops, Zenon
<1>3. \/ pr.http_errno = "OK" /\ q > p /\ (Go(pr, all, q) \/ Go(pr, counted, q))
      \/ pr.http_errno = "OK" /\ Callback(e, after, doneNext, q + 1) /\ first' = first
      \/ pr.http_errno = "OK" /\ Callback(e, after, done, q) /\ first' = first
      \/ pr.http_errno # "OK" /\ Error(pr.http_errno)
  <2>1. counted.nread = call.nread + (q - p)
    BY <1>1 DEF IsCall
  <2>2. counted.nread > max_header_size => q > p
    <3> HIDE DEF q, counted
    <3> QED  BY <1>1, <1>2, <2>1, OptionAssumption
  <2>3. q > call.end => q > p
    <3> HIDE DEF q
    <3> QED  BY <1>1, <1>2
  <2> QED  BY <2>2, <2>3 DEF HeaderValue
<1>4. IsParser(pr) /\ pr.http_errno # "PAUSED"
  <2>1. SubSeq(input.bytes, p, q - 1) \in Seq(STRING)
    <3> HIDE DEF q
    <3>1. q - 1 \in Nat /\ q - 1 <= Len(input.bytes)
      BY <1>1, <1>2, InputTyped DEF IInv
    <3> QED  BY <1>1, <3>1, InputTyped, BytesTyped DEF IInv
  <2>2. ValueKept(parser, parser)
    BY <1>1 DEF ValueKept, IInv, Framed, BodyFramed
  <2> HIDE DEF q
  <2>3. ValueKept(pr, parser)
    BY <2>1, <2>2, ValueRunKeeps
  <2> HIDE DEF pr
  <2> QED  BY <1>1, <2>3 DEF ValueKept
<1>5. e.on # "message_begin"
  BY DEF Tell
<1> HIDE DEF q, pr, e
<1>6. q \in Nat /\ q >= p
  BY <1>1, <1>2
<1>7. /\ all.on /\ all.fresh /\ all.nread = call.nread + (q - 1 - p)
      /\ counted.on /\ ~counted.fresh /\ counted.nread = call.nread + (q - p)
      /\ IsCall(counted) /\ counted.mark = call.mark
  <2>1. call.nread + (q - p) \in Nat
    BY <1>1, <1>6
  <2> QED  BY <1>1, <2>1 DEF IsCall
<1>8. done.on /\ ~done.fresh /\ done.nread = call.nread + (q - p) /\ DOMAIN done = {"on", "end", "nread", "fresh", "mark"}
  <2> HIDE DEF counted
  <2> QED  BY <1>7 DEF IsCall, Unmarked
<1>9. Cardinality(Held(done)) <= Cardinality(Held(call)) /\ Cardinality(Held(done)) \in Nat
  <2>1. Cardinality(Held(counted)) = Cardinality(Held(call))
    BY <1>7, HeldSame
  <2> HIDE DEF counted
  <2> QED  BY <1>7, <2>1, HeldUnmarked, HeldFinite DEF Marks
<1> HIDE DEF done
<1>10. doneNext.on /\ doneNext.fresh /\ doneNext.nread = call.nread + (q - p)
  BY <1>8
<1>11. pr.http_errno = "OK" => after.http_errno = "OK" /\ after.state = "s_header_almost_done"
  BY <1>4 DEF IsParser, In
<1> HIDE DEF all, counted, doneNext, after
<1>12. Keeps(all, q) /\ Keeps(counted, q) /\ Keeps(done, q)
  BY <1>1, <1>6, <1>7, <1>8, LoopCounts
<1>13. Keeps(doneNext, q + 1) /\ Onwards(after, doneNext, q + 1)
  BY <1>1, <1>6, <1>10 DEF Keeps, Ahead, Onwards
<1>14. q > p => Onwards(pr, all, q) /\ Onwards(pr, counted, q)
  BY DEF Onwards
<1>15. pr.http_errno = "OK" => Onwards(after, done, q)
  <2>1. Rank("s_header_almost_done") = 1 /\ Rank(parser.state) = 2
    BY <1>1 DEF Rank
  <2>2. pr.http_errno = "OK" => Steps(done, after) < Steps(call, parser)
    BY <1>1, <1>8, <1>9, <1>11, <2>1, StepsAre, HeldFinite
  <2> QED  BY <1>1, <1>6, <2>2 DEF Onwards
<1> QED  BY <1>1, <1>3, <1>4, <1>5, <1>7, <1>8, <1>10, <1>11, <1>12, <1>13, <1>14, <1>15, GoCounts, CallbackCounts, ErrorCounts

\* The header lines are counted byte for byte, and move on.
LEMMA HeadersCount ==
  ASSUME IInv, EventStep, Headers
  PROVE  InCount
<1>0. IsParser(parser) /\ IsCall(call) /\ call.on /\ ~call.fresh /\ parser.http_errno = "OK"
  BY CallIs DEF Headers, At, FieldStart, HeaderField, ValueDiscardWs, ValueStart, HeaderValue, HeaderAlmostDone,
       ValueLws, ValueDiscardWsAlmostDone, ValueDiscardLws
<1>1. CASE ValueDiscardWs
  <2>1. Rank("s_header_value_start") < Rank(parser.state)
    BY <1>1 DEF ValueDiscardWs, At, Rank
  <2> QED  BY <1>0, <1>1, <2>1, BreakCounts, ReexecuteCounts DEF ValueDiscardWs
<1>2. CASE HeaderAlmostDone
  BY <1>0, <1>2, BreakCounts, ErrorCounts DEF HeaderAlmostDone
<1>3. CASE ValueDiscardWsAlmostDone
  BY <1>0, <1>3, BreakCounts, ErrorCounts DEF ValueDiscardWsAlmostDone
<1>4. CASE ValueLws
  <2>1. Rank("s_header_value_start") < Rank(parser.state) /\ Rank("s_header_field_start") < Rank(parser.state)
    BY <1>4 DEF ValueLws, At, Rank
  <2>2. \A s : /\ IsParser([parser EXCEPT !.header_state = s]) /\ [parser EXCEPT !.header_state = s].http_errno = "OK"
               /\ IsParser([parser EXCEPT !.flags = s]) /\ [parser EXCEPT !.flags = s].http_errno = "OK"
    BY <1>0 DEF IsParser
  <2>3. \/ \E s : Reexecute([parser EXCEPT !.header_state = s], "s_header_value_start")
        \/ \E f : Reexecute([parser EXCEPT !.flags = f], "s_header_field_start")
    BY <1>4 DEF ValueLws
  <2> QED  BY <1>0, <2>1, <2>2, <2>3, ReexecuteCounts
<1>5. CASE ValueDiscardLws
  <2> DEFINE pr == [parser EXCEPT !.flags = @ \cup FlagOf(parser.header_state)]
             after == In(pr, "s_header_field_start")
  <2>1. after.http_errno = "OK" /\ after.state = "s_header_field_start"
    BY <1>0 DEF In, IsParser
  <2>2. Rank("s_header_field_start") < Rank(parser.state)
    BY <1>5 DEF ValueDiscardLws, At, Rank
  <2>3. \/ Break(parser, "s_header_value_discard_ws") \/ Error("INVALID_CONTENT_LENGTH")
        \/ Callback(Say("header_value"), after, call, p) /\ first' = first
    BY <1>5 DEF ValueDiscardLws, NotifyAgain
  <2> HIDE DEF after
  <2>4. Keeps(call, p) /\ Onwards(after, call, p) /\ Say("header_value").on # "message_begin"
    BY <1>0, <2>1, <2>2, CallIs, StepsFall DEF Keeps, Onwards, Say
  <2> QED  BY <1>0, <2>1, <2>3, <2>4, BreakCounts, CallbackCounts, ErrorCounts
<1> QED  BY <1>1, <1>2, <1>3, <1>4, <1>5, FieldStartCounts, HeaderFieldCounts, ValueStartCounts, HeaderValueCounts DEF Headers

---------------------------------------------------------------------------
\* In the states of a body the head is closed.
LEMMA HeadClosed ==
  ASSUME IInv, call.on,
         parser.state \in ChunkStates \cup {"s_headers_done", "s_body_identity", "s_body_identity_eof", "s_message_done"}
  PROVE  ~HeadOpen(told)
BY AliveNow DEF IInv, Ordered, DueFits, ChunkStates

\* The LF that ends the headers is looked at again, in the next state.
LEMMA HeadersAlmostDoneCounts ==
  ASSUME IInv, EventStep, HeadersAlmostDone
  PROVE  InCount
<1> DEFINE asked == [parser EXCEPT !.upgrade = UpgradeAsked]
           stored(pr) == [pr EXCEPT !.state = "s_headers_done", !.nread = call.nread]
           e == Say("chunk_complete")
           h == Say("headers_complete")
           after == In(parser, "s_message_done")
<1>1. /\ call.on /\ ~call.fresh /\ IsParser(parser) /\ parser.http_errno = "OK" /\ IsCall(call)
      /\ parser.state = "s_headers_almost_done"
      /\ Rank("s_message_done") < Rank(parser.state) /\ Rank("s_headers_done") < Rank(parser.state)
  <2>1. call.on /\ ~call.fresh /\ parser.state = "s_headers_almost_done"
    BY DEF HeadersAlmostDone, At
  <2>2. Rank("s_message_done") < Rank(parser.state) /\ Rank("s_headers_done") < Rank(parser.state)
    BY <2>1 DEF Rank
  <2> QED  BY <2>1, <2>2, CallIs
<1>2. \/ Error("STRICT") \/ Error("UNEXPECTED_CONTENT_LENGTH")
      \/ Callback(e, after, call, p) /\ first' = first
      \/ /\ told' = Join(told, h) /\ p' = p /\ first' = first
         /\ \E answer \in Answers :
              \/ parser' = In(Answered(asked, answer), "s_headers_done") /\ call' = call /\ stops' = stops
              \/ stops' = stops + 1 /\ call' = Idle
  BY DEF HeadersAlmostDone, NotifyAgain
<1>3. after.http_errno = "OK" /\ after.state = "s_message_done" /\ e.on # "message_begin" /\ h.on # "message_begin"
  BY <1>1 DEF In, IsParser, Say
<1> HIDE DEF after, e, h
<1>4. CASE Callback(e, after, call, p) /\ first' = first
  <2>1. Keeps(call, p) /\ Onwards(after, call, p)
    BY <1>1, <1>3, CallIs, StepsFall DEF Keeps, Onwards
  <2> QED  BY <1>1, <1>3, <1>4, <2>1, CallbackCounts
<1>5. CASE /\ told' = Join(told, h) /\ p' = p /\ first' = first /\ call' = call /\ stops' = stops
           /\ \E answer : parser' = In(Answered(asked, answer), "s_headers_done")
  <2>1. InHead' => InHead
    BY <1>3, <1>5, CallIs, JoinLast, HeadStays
  <2>2. parser'.state = "s_headers_done"
    <3>1. \A pr : IsParser(pr) => In(pr, "s_headers_done").state = "s_headers_done"
      BY DEF IsParser, In
    <3>2. \A answer : IsParser(Answered(asked, answer))
      BY <1>1 DEF IsParser, UpgradeAsked, Answered
    <3> HIDE DEF asked
    <3> QED  BY <1>5, <3>1, <3>2
  <2>3. Steps(call', parser') < Steps(call, parser)
    BY <1>1, <1>5, <2>2, StepsFall
  <2>4. stops = 0 /\ InHead => Ahead(call, p, first)
    BY <1>1 DEF IInv, Counted, Ahead
  <2>5. parser'.http_errno = "OK"
    <3>1. \A pr : IsParser(pr) /\ pr.http_errno = "OK" => In(pr, "s_headers_done").http_errno = "OK"
      BY DEF IsParser, In
    <3>2. \A answer : IsParser(Answered(asked, answer)) /\ Answered(asked, answer).http_errno = "OK"
      BY <1>1 DEF IsParser, UpgradeAsked, Answered
    <3> HIDE DEF asked
    <3> QED  BY <1>5, <3>1, <3>2
  <2> QED  BY <1>1, <1>5, <2>1, <2>3, <2>4, <2>5, CallIs DEF InCount, Counted, Moves, Ahead
<1>6. CASE stops' = stops + 1 /\ call' = Idle
  <2>1. stops' # 0 /\ ~call'.on
    BY <1>6, CallIs, IdleTyped
  <2> QED  BY <2>1 DEF InCount, Counted, Moves
<1> QED  BY <1>2, <1>4, <1>5, <1>6, ErrorCounts

\* Behind the headers the count begins anew, the head is closed.
LEMMA HeadersDoneCounts ==
  ASSUME IInv, EventStep, HeadersDone
  PROVE  InCount
<1> DEFINE zero == [parser EXCEPT !.nread = 0]
           c(end) == [NextByte EXCEPT !.nread = 0, !.end = end]
           d == [NextByte EXCEPT !.nread = 0]
           e == Say("message_complete")
<1>1. /\ call.on /\ ~call.fresh /\ IsParser(parser) /\ parser.http_errno = "OK" /\ IsCall(call)
      /\ ~HeadOpen(told)
  BY CallIs, HeadClosed DEF HeadersDone, At
<1>2. \/ Error("STRICT") \/ Error("INVALID_TRANSFER_ENCODING")
      \/ \E s : Go(In(zero, s), d, p + 1)
      \/ \E end : Callback(e, In(zero, NewMessage(zero)), c(end), p + 1) /\ first' = first
  <2> HIDE DEF zero, d, e
  <2> QED  BY DEF HeadersDone, zero, d, e
<1>3. \A s : In(zero, s).http_errno = "OK"
  BY <1>1 DEF IsParser, In
<1>4. d.on /\ d.fresh /\ \A end : c(end).on /\ c(end).fresh
  BY <1>1 DEF IsCall, NextByte
<1>5. e.on # "message_begin"
  BY DEF Say
<1> HIDE DEF zero, c, d, e
<1>6. \A x, y, z : Keeps(x, y) /\ Onwards(z, x, p + 1)
  BY <1>1, CallIs DEF Keeps, Onwards
<1> QED  BY <1>1, <1>2, <1>3, <1>4, <1>5, <1>6, GoCounts, ToldCounts, ErrorCounts

\* A body is taken a byte at least; its last byte is looked at again once.
LEMMA BodyIdentityCounts ==
  ASSUME IInv, EventStep, BodyIdentity
  PROVE  InCount
<1> DEFINE pr == [parser EXCEPT !.content_length = @ - ToRead]
           c == Marked(call, "body")
           d == [c EXCEPT !.fresh = TRUE]
           last == p + ToRead - 1
           after == In(pr, "s_message_done")
           e == Tell("body", SubSeq(input.bytes, c.mark["body"], last))
           done == Unmarked(call, "body")
<1>1. /\ At({"s_body_identity"}) /\ call.on /\ ~call.fresh /\ IsParser(parser) /\ parser.http_errno = "OK" /\ IsCall(call)
      /\ ~HeadOpen(told) /\ p \in Nat /\ parser.state = "s_body_identity"
  BY CallIs, HeadClosed DEF BodyIdentity, At
<1>2. ToRead \in Nat /\ ToRead >= 1
  <2>1. parser.content_length # 0
    BY <1>1 DEF IInv, Framed, BodyFramed
  <2>2. ToRead \in 1 .. parser.content_length /\ parser.content_length \in Nat
    BY <1>1, <2>1, ReadTyped, WidthAssumption DEF IInv, IsParser
  <2> QED  BY <2>2
<1>3. \/ Callback(e, after, done, last) /\ first' = first
      \/ Go(pr, d, last + 1)
  BY DEF BodyIdentity
<1>4. pr.http_errno = "OK" /\ after.http_errno = "OK" /\ after.state = "s_message_done"
  BY <1>1 DEF IsParser, In
<1>5. e.on # "message_begin"
  BY DEF Tell
<1>6. d.on /\ d.fresh
  <2>1. c.on /\ DOMAIN c = {"on", "end", "nread", "fresh", "mark"}
    BY <1>1 DEF Marked, IsCall
  <2> HIDE DEF c
  <2> QED  BY <2>1
<1>7. done.on /\ ~done.fresh
  BY <1>1 DEF Unmarked, IsCall
<1>8. Cardinality(Held(done)) <= Cardinality(Held(call))
  BY <1>1, HeldUnmarked DEF Marks
<1>9. Rank("s_message_done") = 1 /\ Rank(parser.state) = 2
  BY <1>1 DEF Rank
<1> HIDE DEF pr, d, after, e, done
<1>10. Steps(done, after) < Steps(call, parser)
  BY <1>1, <1>4, <1>7, <1>8, <1>9, StepsAre, HeldFinite
<1>11. Onwards(after, done, last) /\ Onwards(pr, d, last + 1)
  BY <1>1, <1>2, <1>10 DEF Onwards
<1>12. \A x, y : Keeps(x, y)
  BY <1>1 DEF Keeps
<1> HIDE DEF last
<1> QED  BY <1>1, <1>3, <1>4, <1>5, <1>6, <1>7, <1>11, <1>12, GoCounts, CallbackCounts

\* A chunk is taken a byte at least.
LEMMA ChunkDataCounts ==
  ASSUME IInv, ChunkData
  PROVE  InCount
<1> DEFINE pr == [parser EXCEPT !.content_length = @ - ToRead]
           r == IF pr.content_length = 0 THEN In(pr, "s_chunk_data_almost_done") ELSE pr
           c == Marked(NextByte, "body")
<1>1. /\ At({"s_chunk_data"}) /\ call.on /\ ~call.fresh /\ IsParser(parser) /\ parser.http_errno = "OK" /\ IsCall(call)
      /\ ~HeadOpen(told) /\ p \in Nat /\ parser.state = "s_chunk_data"
  BY CallIs, HeadClosed DEF ChunkData, At, ChunkStates
<1>2. ToRead \in Nat /\ ToRead >= 1
  <2>1. parser.content_length # 0
    BY <1>1 DEF IInv, Framed, BodyFramed
  <2>2. ToRead \in 1 .. parser.content_length /\ parser.content_length \in Nat
    BY <1>1, <2>1, ReadTyped, WidthAssumption DEF IInv, IsParser
  <2> QED  BY <2>2
<1>3. Go(r, c, p + ToRead)
  BY DEF ChunkData
<1>4. r.http_errno = "OK"
  BY <1>1 DEF IsParser, In
<1>5. c.on
  BY <1>1 DEF IsCall, NextByte, Marked
<1> HIDE DEF r, c
<1>6. Onwards(r, c, p + ToRead) /\ Keeps(c, p + ToRead)
  BY <1>1, <1>2 DEF Onwards, Keeps
<1> QED  BY <1>1, <1>3, <1>4, <1>5, <1>6, GoCounts

\* The body moves on, and opens no head.
LEMMA BodyCounts ==
  ASSUME IInv, EventStep, Body
  PROVE  InCount
<1>0. IsParser(parser) /\ IsCall(call) /\ call.on /\ ~call.fresh /\ parser.http_errno = "OK" /\ p \in Nat
  BY CallIs DEF Body, At, HeadersAlmostDone, HeadersDone, BodyIdentity, BodyIdentityEof, MessageDone,
       ChunkSizeStart, ChunkSize, ChunkParameters, ChunkSizeAlmostDone, ChunkData, ChunkDataAlmostDone, ChunkDataDone
<1>1. CASE BodyIdentityEof
  <2>1. /\ ~HeadOpen(told) /\ p <= call.end /\ call.end \in Nat
    BY <1>0, <1>1, AtByte, HeadClosed DEF BodyIdentityEof, IInv, At, IsCall, Typed, Place
  <2> DEFINE c == Marked(NextByte, "body")
  <2>2. c.on
    BY <1>0 DEF IsCall, NextByte, Marked
  <2> HIDE DEF c
  <2>3. Onwards(parser, c, call.end + 1) /\ Keeps(c, call.end + 1)
    BY <1>0, <2>1 DEF Onwards, Keeps
  <2> QED  BY <1>0, <1>1, <2>2, <2>3, GoCounts DEF BodyIdentityEof, c
<1>2. CASE MessageDone
  <2> DEFINE c == [NextByte EXCEPT !.end = IF parser.upgrade THEN p ELSE @]
             pr == In(parser, NewMessage(parser))
             e == Say("message_complete")
  <2>1. c.on /\ c.fresh /\ c.nread = call.nread /\ pr.http_errno = "OK" /\ e.on # "message_begin"
    BY <1>0 DEF IsCall, NextByte, In, IsParser, Say
  <2>2. Callback(e, pr, c, p + 1) /\ first' = first
    BY <1>2 DEF MessageDone
  <2> HIDE DEF c, pr, e
  <2> QED  BY <1>0, <2>1, <2>2, ToldCounts
<1>3. CASE ChunkSizeStart
  <2>1. ASSUME IsHex(ch) PROVE /\ IsParser([parser EXCEPT !.content_length = unhex(ch)])
                               /\ [parser EXCEPT !.content_length = unhex(ch)].http_errno = "OK"
    <3>1. unhex(ch) \in 0 .. ULLONG_MAX
      BY <2>1, WidthAssumption DEF unhex, IsNum, Num, Digits
    <3> QED  BY <1>0, <3>1 DEF IsParser
  <2> QED  BY <1>0, <1>3, <2>1, BreakCounts, ErrorCounts DEF ChunkSizeStart
<1>4. CASE ChunkSize
  <2> DEFINE pr == [parser EXCEPT !.content_length = Shift(@, 16, unhex(ch))]
  <2>1. ASSUME IsHex(ch) PROVE IsParser(pr) /\ pr.http_errno = "OK"
    <3>1. unhex(ch) \in Nat /\ parser.content_length \in Nat
      BY <1>0, <2>1, WidthAssumption DEF unhex, IsNum, Num, Digits, IsParser
    <3>2. Shift(parser.content_length, 16, unhex(ch)) \in 0 .. ULLONG_MAX
      BY <3>1, ShiftTyped
    <3> QED  BY <1>0, <3>2 DEF IsParser
  <2>2. \/ \E s : Break(parser, s)
        \/ Error("INVALID_CONTENT_LENGTH") \/ Error("INVALID_CHUNK_SIZE")
        \/ IsHex(ch) /\ Break(pr, parser.state)
    BY <1>4 DEF ChunkSize
  <2> HIDE DEF pr
  <2> QED  BY <1>0, <2>1, <2>2, BreakCounts, ErrorCounts
<1>5. CASE ChunkParameters
  BY <1>0, <1>5, BreakCounts DEF ChunkParameters
<1>6. CASE ChunkSizeAlmostDone
  <2> DEFINE zero == [parser EXCEPT !.nread = 0]
             c == [NextByte EXCEPT !.nread = 0]
             e == Tell("chunk_header", <<parser.content_length>>)
             r == [zero EXCEPT !.flags = @ \cup {"F_TRAILING"}, !.state = "s_header_field_start"]
             s == In(zero, "s_chunk_data")
  <2>1. ~HeadOpen(told)
    BY <1>0, <1>6, HeadClosed DEF ChunkSizeAlmostDone, At, ChunkStates, ChunkSizing
  <2>2. /\ c.on /\ c.fresh /\ e.on # "message_begin" /\ r.http_errno = "OK" /\ s.http_errno = "OK"
    BY <1>0 DEF IsCall, NextByte, IsParser, In, Tell
  <2>3. \/ Error("STRICT")
        \/ (Callback(e, r, c, p + 1) \/ Callback(e, s, c, p + 1)) /\ first' = first
    BY <1>6 DEF ChunkSizeAlmostDone
  <2> HIDE DEF zero, c, e, r, s
  <2> QED  BY <1>0, <2>1, <2>2, <2>3, ToldCounts, ErrorCounts
<1>7. CASE ChunkDataAlmostDone
  BY <1>0, <1>7, BreakCounts, DataCounts, ErrorCounts DEF ChunkDataAlmostDone
<1>8. CASE ChunkDataDone
  <2> DEFINE pr == [parser EXCEPT !.nread = 0, !.state = "s_chunk_size_start"]
             c == [NextByte EXCEPT !.nread = 0]
             e == Say("chunk_complete")
  <2>1. ~HeadOpen(told)
    BY <1>0, <1>8, HeadClosed DEF ChunkDataDone, At, ChunkStates
  <2>2. c.on /\ c.fresh /\ pr.http_errno = "OK" /\ e.on # "message_begin"
    BY <1>0 DEF IsCall, NextByte, IsParser, Say
  <2>3. \/ Error("STRICT")
        \/ Callback(e, pr, c, p + 1) /\ first' = first
    BY <1>8 DEF ChunkDataDone
  <2> HIDE DEF c, pr, e
  <2> QED  BY <1>0, <2>1, <2>2, <2>3, ToldCounts, ErrorCounts
<1> QED  BY <1>1, <1>2, <1>3, <1>4, <1>5, <1>6, <1>7, <1>8, HeadersAlmostDoneCounts, HeadersDoneCounts,
            BodyIdentityCounts, ChunkDataCounts DEF Body

---------------------------------------------------------------------------
\* The top of the loop counts the byte, in a head.
LEMMA TakeByteCounts ==
  ASSUME IInv, TakeByte
  PROVE  InCount
<1>1. IsCall(call) /\ p \in Nat /\ first \in Nat /\ call.nread \in Nat /\ parser.http_errno = "OK"
  BY CallIs DEF TakeByte
<1>2. /\ call.on /\ call.fresh /\ call'.on /\ ~call'.fresh /\ call'.mark = call.mark
      /\ call'.nread = IF ParsingHeader(parser.state) THEN call.nread + 1 ELSE call.nread
      /\ parser' = parser /\ p' = p /\ told' = told /\ stops' = stops /\ first' = first
  BY <1>1 DEF TakeByte, IsCall
<1>3. ~ParsingHeader(parser.state) => ~HeadOpen(told)
  BY <1>2, HeadClosed DEF ParsingHeader, BodyStates, ChunkStates
<1>4. InHead' => InHead /\ HeadOpen(told)
  BY <1>2 DEF InHead, HeadOpen, LastOn, Since
<1>5. Counted'
  BY <1>1, <1>2, <1>3, <1>4 DEF IInv, Counted
<1>6. Moves
  <2>1. Cardinality(Held(call')) = Cardinality(Held(call)) /\ Cardinality(Held(call)) \in Nat
    BY <1>2, HeldSame, HeldFinite
  <2>2. Steps(call', parser') < Steps(call, parser)
    BY <1>2, <2>1, StepsAre, RankTyped
  <2> QED  BY <1>2, <2>2 DEF Moves
<1> QED  BY <1>5, <1>6 DEF InCount

\* A mark is given up when its data are told.
LEMMA LeftoverCounts ==
  ASSUME IInv, EventStep, Leftover
  PROVE  InCount
<1>1. /\ IsCall(call) /\ p \in Nat /\ parser.http_errno = "OK" /\ call.on /\ call.fresh
  BY CallIs DEF Leftover
<1>2. PICK m \in Marks : /\ call.mark[m] # 0
                         /\ Callback(Tell(m, SubSeq(input.bytes, call.mark[m], p - 1)), parser, Unmarked(call, m), p)
  BY DEF Leftover
<1> DEFINE c == Unmarked(call, m)
           e == Tell(m, SubSeq(input.bytes, call.mark[m], p - 1))
<1>3. e.on # "message_begin"
  BY DEF Tell, Marks
<1>4. c.on /\ c.fresh /\ c.nread = call.nread
  BY <1>1 DEF Unmarked, IsCall
<1>5. Cardinality(Held(c)) = Cardinality(Held(call)) - 1 /\ Cardinality(Held(call)) \in Nat
  BY <1>1, <1>2, HeldUnmarked, HeldFinite
<1>6. Callback(e, parser, c, p) /\ first' = first
  BY <1>2 DEF Leftover
<1> HIDE DEF c, e
<1>7. Keeps(c, p)
  BY <1>1, <1>4 DEF Keeps, Ahead
<1>8. Onwards(parser, c, p)
  BY <1>1, <1>4, <1>5, StepsAre DEF Onwards
<1> QED  BY <1>1, <1>3, <1>4, <1>6, <1>7, <1>8, CallbackCounts

\* A call returns within the limit and the next one goes on with its count.
LEMMA CallsCount ==
  ASSUME IInv, ReturnLen \/ Execute \/ Resume \/ ExecuteEof
  PROVE  InCount
<1>0. IsParser(parser) /\ IsCall(call) /\ stops \in Nat /\ p \in Nat /\ first \in Nat
  BY CallIs
<1>1. CASE ReturnLen
  <2>1. /\ call.on /\ call.fresh /\ call.nread <= max_header_size /\ ~call'.on /\ parser'.nread = call.nread
        /\ parser.http_errno = "OK" /\ parser'.http_errno = "OK"
        /\ p' = p /\ told' = told /\ stops' = stops /\ first' = first
    BY <1>0, <1>1, CallIs, IdleTyped DEF ReturnLen, IsParser
  <2>2. InHead' => InHead
    BY <2>1 DEF InHead, HeadOpen, LastOn, Since
  <2>3. call.nread \in Nat
    BY <1>0 DEF IsCall
  <2> QED  BY <1>0, <2>1, <2>2, <2>3 DEF IInv, Counted, InCount, Moves
<1>2. CASE Execute
  <2>1. /\ ~call.on /\ call'.on /\ call'.fresh /\ call'.nread = parser.nread /\ parser.http_errno = "OK"
        /\ parser'.http_errno = "OK"
        /\ p' = p /\ told' = told /\ stops' = stops /\ first' = first
    BY <1>0, <1>2 DEF Execute, IsParser
  <2>2. InHead' => InHead
    BY <2>1 DEF InHead, HeadOpen, LastOn, Since
  <2>3. parser.nread \in Nat
    BY <1>0 DEF IsParser
  <2> QED  BY <1>0, <2>1, <2>2, <2>3 DEF IInv, Counted, InCount, Moves
<1>3. CASE Resume
  <2>1. ~call.on /\ parser.http_errno = "PAUSED" /\ call' = call /\ stops' = stops
    BY <1>3, CallIs DEF Resume
  <2> QED  BY <2>1 DEF IInv, Counted, InCount, Moves
<1>4. CASE ExecuteEof
  <2>1. ~call.on /\ ~call'.on /\ parser.http_errno = "OK"
    BY <1>4, IdleTyped DEF ExecuteEof, Callback
  <2>2. Moves
    BY <2>1 DEF Moves
  <2>3. CASE UNCHANGED <<parser, call, p, told, stops>> /\ first' = first
    <3>1. InHead' => InHead
      BY <2>3 DEF InHead, HeadOpen, LastOn, Since
    <3> QED  BY <2>1, <2>2, <2>3, <3>1 DEF IInv, Counted, InCount
  <2>4. CASE parser' = [parser EXCEPT !.http_errno = "INVALID_EOF_STATE"]
    BY <1>0, <2>2, <2>4 DEF IsParser, Counted, InCount
  <2>5. CASE Callback(Say("message_complete"), parser, Idle, p)
    <3>1. LastOn(told') = "message_complete"
      BY <2>5, CallIs, JoinLast DEF Callback, Say
    <3>2. ~InHead'
      BY <3>1 DEF InHead
    <3>3. stops' = 0 => parser' = parser
      BY <1>0, <2>5 DEF Callback
    <3> QED  BY <2>1, <2>2, <3>2, <3>3 DEF Counted, InCount
  <2> QED  BY <1>4, <2>3, <2>4, <2>5 DEF ExecuteEof
<1> QED  BY <1>1, <1>2, <1>3, <1>4

\* Before the first byte there is no head.
LEMMA CountedInit == Init => Counted
<1> SUFFICES ASSUME Init PROVE Counted
  OBVIOUS
<1>1. told = <<>> /\ parser.http_errno = "OK"
  BY DEF Init, http_parser_init
<1> QED  BY <1>1 DEF Counted, InHead, LastOn

\* Every step keeps the count, and moves on.
LEMMA CountedStep == IInv /\ EventStep /\ [Next]_vars => Counted' /\ (Moves \/ UNCHANGED vars)
<1> SUFFICES ASSUME IInv, EventStep, [Next]_vars PROVE Counted' /\ (Moves \/ UNCHANGED vars)
  OBVIOUS
<1>1. CASE UNCHANGED vars
  BY <1>1 DEF vars, IInv, Counted, InHead, HeadOpen, LastOn, Since
<1>2. CASE Overflow
  BY <1>2, ErrorCounts DEF Overflow, InCount
<1>3. CASE InCount
  BY <1>3 DEF InCount
<1> QED  BY <1>1, <1>2, <1>3, TakeByteCounts, LeftoverCounts, CallsCount, StartLineCounts, HeadersCount, BodyCounts
         DEF Next, InCall

---------------------------------------------------------------------------
\* The four layers hold at first.
LEMMA InitInv == Init => IInv
BY TypedInit, FramedInit, OrderedInit, CountedInit DEF IInv

\* And every step keeps them.
LEMMA NextInv == IInv /\ [Next]_vars => IInv'
<1> SUFFICES ASSUME IInv, [Next]_vars PROVE IInv'
  OBVIOUS
<1>1. Typed /\ Framed /\ Ordered /\ BodyFramed(parser)
  BY DEF IInv, Framed
<1>2. Typed'
  BY <1>1, TypedStep
<1>3. Framed'
  BY <1>1, FramedStep
<1>4. Ordered' /\ EventStep
  BY <1>1, OrderedStep
<1>5. Counted'
  BY <1>4, CountedStep
<1> QED  BY <1>2, <1>3, <1>4, <1>5 DEF IInv

(* The four layers hold of every run, whatever the bytes, the calls and the *)
(* callbacks: all that follows rests on them.                               *)
THEOREM Invariance == Spec => []IInv
BY InitInv, NextInv, PTL DEF Spec

(* The struct and the locals of a call keep their types, p stays in the     *)
(* bytes of the connection and the marks behind it.                         *)
THEOREM TypeCorrect == Spec => []TypeOK
<1>1. IInv => TypeOK
  <2> SUFFICES ASSUME IInv PROVE TypeOK
    OBVIOUS
  <2>1. /\ parser.content_length \in 0 .. ULLONG_MAX
        /\ parser.nread \in Nat /\ parser.version \in Versions /\ parser.upgrade \in BOOLEAN
    BY DEF IInv, Typed, IsParser
  <2>2. /\ p \in 1 .. Len(input.bytes) + 1 /\ stops \in 0 .. input.stops /\ eof \in BOOLEAN
        /\ first \in 1 .. Len(input.bytes) + 1
    BY DEF IInv, Typed
  <2>3. ASSUME call.on PROVE p <= call.end + 1 /\ \A m \in Marks : call.mark[m] \in 0 .. p
    <3>1. Place(parser, call, p) /\ p \in Nat /\ call.mark \in [Marks -> Nat]
      BY <2>3, CallIs DEF IInv, Typed, IsCall
    <3>2. ASSUME NEW m \in Marks PROVE call.mark[m] \in 0 .. p
      BY <3>1, <3>2 DEF Place, MarksFit, Marks
    <3> QED  BY <3>1, <3>2 DEF Place
  <2> QED  BY <2>1, <2>2, <2>3 DEF TypeOK
<1> QED  BY <1>1, Invariance, PTL

(* No assert() in http_parser_execute can fail (lines 1533, 1949, 1998-1999, *)
(* 2016-2103 and 2135), and one token at most is marked.                     *)
THEOREM AssertionsSound == Spec => []AssertionsHold
<1>1. IInv => AssertionsHold
  <2> SUFFICES ASSUME IInv PROVE AssertionsHold
    OBVIOUS
  <2>1. BodyFramed(parser) /\ CountStarts
    BY DEF IInv, Framed
  <2>2. At({"s_chunk_size_start"}) => call.nread = 1
    BY <2>1 DEF At, CountStarts
  <2>3. At({"s_chunk_size_start", "s_chunk_size", "s_chunk_parameters", "s_chunk_size_almost_done",
            "s_chunk_data", "s_chunk_data_almost_done", "s_chunk_data_done"}) => Has("F_CHUNKED")
    BY <2>1 DEF At, BodyFramed, ChunkStates, ChunkSizing, Has
  <2>4. /\ At({"s_body_identity", "s_chunk_data"}) => parser.content_length \notin {0, ULLONG_MAX}
        /\ At({"s_chunk_data_almost_done"}) => parser.content_length = 0
        /\ At({"s_header_value"}) => parser.header_state \notin {"h_connection", "h_transfer_encoding"}
    BY <2>1 DEF At, BodyFramed
  <2>5. call.on => Cardinality({m \in Marks : call.mark[m] # 0}) <= 1
    <3> HAVE call.on
    <3>1. MarksFit(parser.state, call, p)
      BY DEF IInv, Typed, Place
    <3>2. \A m, n \in Held(call) : m = n
      BY <3>1 DEF Held, MarksFit, Marks, UrlStates, UrlOpening, UrlBody, BodyMarked
    <3>3. Held(call) = {} \/ \E m : Held(call) = {m}
      BY <3>2
    <3>4. Cardinality(Held(call)) <= 1
      <4>1. CASE Held(call) = {}
        BY <4>1, FS_EmptySet
      <4>2. ASSUME NEW m, Held(call) = {m} PROVE Cardinality(Held(call)) = 1
        BY <4>2, FS_Singleton
      <4> QED  BY <3>3, <4>1, <4>2, HeldFinite
    <3> QED  BY <3>4 DEF Held
  <2> QED  BY <2>2, <2>3, <2>4, <2>5 DEF AssertionsHold
<1> QED  BY <1>1, Invariance, PTL

(* Until the first pause no head gets longer than max_header_size (line     *)
(* 143).  A call that stops leaves the count it began with, so that nothing *)
(* is said of a head in which the parser was paused.                        *)
THEOREM HeadersStayBounded == Spec => []HeadersBounded
<1>1. IInv => HeadersBounded
  <2> SUFFICES ASSUME IInv, stops = 0, InHead, parser.http_errno = "OK", call.nread <= max_header_size
               PROVE  p - first <= max_header_size
    BY DEF HeadersBounded
  <2>1. p \in Nat /\ first \in Nat /\ call.nread \in Nat /\ parser.nread \in Nat
    BY CallIs DEF IsParser
  <2>2. CASE call.on
    BY <2>1, <2>2, OptionAssumption DEF IInv, Counted
  <2>3. CASE ~call.on
    BY <2>1, <2>3, OptionAssumption DEF IInv, Counted
  <2> QED  BY <2>2, <2>3
<1> QED  BY <1>1, Invariance, PTL

(* Every call comes to its end: a step takes a byte, gives up a mark, or    *)
(* looks at the byte again in a state further on.                           *)
THEOREM CallsMoveOn == Spec => CallMovesOn
<1>1. IInv /\ [Next]_vars =>
        [call.on /\ call'.on => p' > p \/ (p' = p /\ Steps(call', parser') < Steps(call, parser))]_vars
  BY OrderedStep, CountedStep DEF IInv, Framed, Moves
<1> QED  BY <1>1, Invariance, PTL DEF Spec, CallMovesOn

(* The callbacks of http_parser_execute come in the order of HttpEvents,    *)
(* and a chunk is complete when as much of it was told as was announced.    *)
THEOREM Refinement == Spec => ImplementsEvents
<1>1. Init => Events!Init
  <2> SUFFICES ASSUME told = <<>> PROVE Events!Init
    BY DEF Init
  <2>1. \A kind : Since(told, kind) = {}
    BY DEF Since
  <2>2. LastOn(told) = "none"
    BY DEF LastOn
  <2>3. HeadOpen(told) = TRUE
    BY <2>1 DEF HeadOpen
  <2>4. Due(told) = -1
    BY <2>1 DEF Due
  <2> QED  BY <2>2, <2>3, <2>4 DEF Events!Init, Events!Endless
<1>2. IInv /\ [Next]_vars => [Events!Next]_(Events!vars)
  BY OrderedStep DEF IInv, Framed, EventStep
<1> QED  BY <1>1, <1>2, Invariance, PTL DEF Spec, ImplementsEvents, Events!Spec
=============================================================================
