-------------------------- MODULE HttpClientProofs --------------------------
(***************************************************************************)
(* Theorems about UrlParser and HttpClient, for every URL whose offsets    *)
(* fit and every answer.  UrlsParsedRight: the fields of a URL that was    *)
(* parsed make it up.  ClientGetsItsBody: a call of http() gets the body   *)
(* of its own answer.  First come loops over sequences, then the two       *)
(* passes over the URL, its port and its texts, then what a server sends,  *)
(* what the parser makes of it and the invariant of the client.            *)
(***************************************************************************)
EXTENDS HttpClient, WellFoundedInduction, SequenceTheorems, TLAPS

---------------------------------------------------------------------------
(* Loops over a sequence. *)
\* A set of numbers that is not empty has a least member.
LEMMA LeastNatural ==
  ASSUME NEW S \in SUBSET Nat, S # {}
  PROVE  \E x \in S : \A y \in S : x <= y
<1>1. PICK x \in S : \A y \in S : ~ (<<y, x>> \in OpToRel(<, Nat))
  BY NatLessThanWellFounded, WFMin, Zenon
<1>2. \A y \in S : ~ (y < x)
  BY <1>1, Zenon DEF OpToRel
<1>3. \A y \in S : x <= y
  BY <1>2
<1> QED  BY <1>3

\* Induction up to a number.
LEMMA UpTo ==
  ASSUME NEW n \in Nat, NEW S, 0 \in S, \A i \in 0 .. n - 1 : i \in S => i + 1 \in S
  PROVE  \A i \in 0 .. n : i \in S
<1> SUFFICES ASSUME (0 .. n) \ S # {} PROVE FALSE
  OBVIOUS
<1>1. PICK x \in (0 .. n) \ S : \A y \in (0 .. n) \ S : x <= y
  <2>1. (0 .. n) \ S \in SUBSET Nat
    OBVIOUS
  <2> QED  BY <2>1, LeastNatural
<1>2. x # 0 /\ x - 1 \in 0 .. n - 1
  BY <1>1
<1>3. x - 1 \in S
  BY <1>1, <1>2
<1> QED  BY <1>1, <1>2, <1>3

\* A loop over n elements: what it has after each is a function of what it had before.
Step(F, n, D) == \A i \in 1 .. n : \A x \in D : F[<<i, x>>] \in D
Loop(f, n, D, d, F) ==
  f \in [0 .. n -> D] /\ f[0] = d /\ \A i \in 1 .. n : f[i] = F[<<i, f[i - 1]>>]
\* A loop whose steps stay in a set has a value after each element.
LEMMA LoopExists ==
  ASSUME NEW n \in Nat, NEW D, NEW d \in D, NEW F, Step(F, n, D)
  PROVE  \E f : Loop(f, n, D, d, F)
<1> DEFINE Part(k, f) == f[0] = d /\ \A i \in 1 .. k : f[i] = F[<<i, f[i - 1]>>]
           G == {k \in 0 .. n : \E f \in [0 .. k -> D] : Part(k, f)}
<1>1. 0 \in G
  <2>1. [i \in 0 .. 0 |-> d] \in [0 .. 0 -> D] /\ Part(0, [i \in 0 .. 0 |-> d]) /\ 0 \in 0 .. n
    OBVIOUS
  <2> QED  BY <2>1
<1>2. ASSUME NEW k \in 0 .. n - 1, k \in G PROVE k + 1 \in G
  <2>1. PICK f \in [0 .. k -> D] : Part(k, f)
    BY <1>2
  <2> DEFINE x == F[<<k + 1, f[k]>>]
             g == [i \in 0 .. k + 1 |-> IF i = k + 1 THEN x ELSE f[i]]
  <2>2. x \in D
    <3>1. k + 1 \in 1 .. n /\ f[k] \in D
      BY <2>1
    <3> QED  BY <3>1 DEF Step
  <2>3. g \in [0 .. k + 1 -> D] /\ k + 1 \in 0 .. n
    BY <2>1, <2>2
  <2>4. g[0] = d
    BY <2>1
  <2>5. ASSUME NEW i \in 1 .. k + 1 PROVE g[i] = F[<<i, g[i - 1]>>]
    <3>1. CASE i = k + 1
      <4>1. g[i] = x /\ g[i - 1] = f[k]
        BY <3>1
      <4> QED  BY <3>1, <4>1
    <3>2. CASE i # k + 1
      <4>1. i \in 1 .. k /\ g[i] = f[i] /\ g[i - 1] = f[i - 1]
        BY <3>2
      <4> QED  BY <2>1, <4>1
    <3> QED  BY <3>1, <3>2
  <2>6. Part(k + 1, g)
    BY <2>4, <2>5
  <2> QED  BY <2>3, <2>6
<1>3. n \in G
  <2> HIDE DEF G
  <2>1. \A k \in 0 .. n - 1 : k \in G => k + 1 \in G
    BY <1>2
  <2>2. \A k \in 0 .. n : k \in G
    BY <1>1, <2>1, UpTo, Zenon
  <2> QED  BY <2>2
<1> QED  BY <1>3 DEF Loop

\* What satisfies the equations of a loop is the loop.
Follows(g, n, D, d, F) ==
  g[0] = d /\ \A i \in 1 .. n : g[i - 1] \in D => g[i] = F[<<i, g[i - 1]>>]
\* What satisfies the equations of a loop has its values.
LEMMA LoopUnique ==
  ASSUME NEW n \in Nat, NEW D, NEW d, NEW F, NEW f, Loop(f, n, D, d, F), NEW g, Follows(g, n, D, d, F)
  PROVE  \A i \in 0 .. n : g[i] = f[i]
<1> DEFINE G == {i \in 0 .. n : g[i] = f[i]}
<1>1. 0 \in G
  BY DEF Loop, Follows
<1>2. ASSUME NEW i \in 0 .. n - 1, i \in G PROVE i + 1 \in G
  <2>1. i + 1 \in 1 .. n /\ i + 1 \in 0 .. n /\ (i + 1) - 1 = i
    OBVIOUS
  <2>2. f[i] \in D /\ f[i + 1] = F[<<i + 1, f[i]>>] /\ g[i] = f[i]
    BY <1>2, <2>1 DEF Loop
  <2>3. g[i + 1] = F[<<i + 1, g[i]>>]
    BY <2>1, <2>2 DEF Follows
  <2> QED  BY <2>1, <2>2, <2>3
<1> HIDE DEF G
<1>3. \A i \in 0 .. n : i \in G
  BY <1>1, <1>2, UpTo
<1> QED  BY <1>3 DEF G

---------------------------------------------------------------------------
(* The first pass. *)
UrlStates == {"s_dead", "s_req_spaces_before_url", "s_req_schema", "s_req_schema_slash",
              "s_req_schema_slash_slash", "s_req_server_start", "s_req_server",
              "s_req_server_with_at", "s_req_path", "s_req_query_string_start",
              "s_req_query_string", "s_req_fragment_start", "s_req_fragment"}
Urls == [set : SUBSET Fields, port : {0}, off : [Fields -> Nat], len : [Fields -> Nat]]
Scans == [s : UrlStates, i : Nat, old : Fields \cup {"none"}, found_at : BOOLEAN, u : Urls]

\* A field that begins or goes on leaves a URL of the first pass.
LEMMA OpenTyped ==
  ASSUME NEW r \in Urls, NEW f \in Fields, NEW i \in Nat \ {0}
  PROVE  Open(r, f, i) \in Urls /\ More(r, f) \in Urls
<1>1. \A n \in Nat : n % UINT16 \in Nat
  BY UrlWidthAssumption
<1>2. i - 1 \in Nat /\ (i - 1) % UINT16 \in Nat
  BY <1>1
<1>3. r.len[f] + 1 \in Nat /\ (r.len[f] + 1) % UINT16 \in Nat
  BY <1>1 DEF Urls
<1>4. Open(r, f, i) \in Urls
  BY <1>2 DEF Open, Urls
<1>5. More(r, f) \in Urls
  BY <1>3 DEF More, Urls
<1> QED  BY <1>4, <1>5

\* parse_url_char knows its states.
LEMMA CharTyped ==
  ASSUME NEW s \in UrlStates, NEW ch
  PROVE  parse_url_char(s, ch) \in UrlStates
BY DEF parse_url_char, UrlStates

\* A character takes the first pass from one of its states to another.
LEMMA UrlStepTyped ==
  ASSUME NEW scan \in Scans, NEW ch
  PROVE  UrlStep(scan, ch) \in Scans
<1> DEFINE s == parse_url_char(scan.s, ch)
           f == FieldOf(s)
           i == scan.i + 1
           u == IF f = "none" THEN scan.u ELSE IF f = scan.old THEN More(scan.u, f) ELSE Open(scan.u, f, i)
<1>1. scan.s \in UrlStates /\ scan.i \in Nat /\ scan.u \in Urls /\ scan.old \in Fields \cup {"none"}
      /\ scan.found_at \in BOOLEAN
  BY DEF Scans
<1>2. s \in UrlStates
  BY <1>1, CharTyped
<1> HIDE DEF s
<1>3. f \in Fields \cup {"none"}
  BY DEF FieldOf, Fields
<1> HIDE DEF f
<1>4. i \in Nat \ {0}
  BY <1>1
<1>5. u \in Urls
  BY <1>1, <1>3, <1>4, OpenTyped
<1> HIDE DEF i, u
<1>6. UrlStep(scan, ch) = IF scan.s = "s_dead" THEN scan
        ELSE [s |-> s, i |-> i, old |-> IF f = "none" THEN scan.old ELSE f,
              found_at |-> scan.found_at \/ s = "s_req_server_with_at", u |-> u]
  BY DEF UrlStep, s, f, i, u
<1> QED  BY <1>1, <1>2, <1>3, <1>4, <1>5, <1>6 DEF Scans

\* The first pass starts in one of its states.
LEMMA ScanStartTyped ==
  ASSUME NEW cn \in BOOLEAN
  PROVE  ScanStart(cn) \in Scans
<1>1. url_init \in Urls
  BY DEF url_init, Urls
<1> QED  BY <1>1 DEF ScanStart, Scans, UrlStates

\* The scan has a state after each character.
Scanned(f, buf, cn) ==
  /\ f \in [0 .. Len(buf) -> Scans] /\ f[0] = ScanStart(cn)
  /\ \A n \in 1 .. Len(buf) : f[n] = UrlStep(f[n - 1], buf[n])
\* The first pass ends with what its steps, one per character, make of its start.
LEMMA ScanIs ==
  ASSUME NEW buf, Len(buf) \in Nat, NEW cn \in BOOLEAN
  PROVE  \E f : Scanned(f, buf, cn) /\ Scan(buf, cn) = f[Len(buf)]
<1> DEFINE Eqn(f) == f = [n \in 0 .. Len(buf) |-> IF n = 0 THEN ScanStart(cn) ELSE UrlStep(f[n - 1], buf[n])]
           scan == CHOOSE f : Eqn(f)
           F == [q \in (1 .. Len(buf)) \X Scans |-> UrlStep(q[2], buf[q[1]])]
<1>1. \A n \in 1 .. Len(buf) : \A x \in Scans : F[<<n, x>>] = UrlStep(x, buf[n]) /\ UrlStep(x, buf[n]) \in Scans
  <2>1. \A n \in 1 .. Len(buf) : \A x \in Scans : UrlStep(x, buf[n]) \in Scans
    BY UrlStepTyped
  <2> QED  BY <2>1
<1> HIDE DEF F
<1>2. PICK f : Loop(f, Len(buf), Scans, ScanStart(cn), F)
  <2>1. Step(F, Len(buf), Scans)
    BY <1>1 DEF Step
  <2> QED  BY <2>1, LoopExists, ScanStartTyped
<1>3. f \in [0 .. Len(buf) -> Scans] /\ f[0] = ScanStart(cn)
      /\ \A n \in 1 .. Len(buf) : f[n] = UrlStep(f[n - 1], buf[n])
  <2>1. \A n \in 1 .. Len(buf) : n - 1 \in 0 .. Len(buf)
    OBVIOUS
  <2> QED  BY <1>1, <1>2, <2>1 DEF Loop
<1>4. Eqn(f)
  BY <1>3
<1>5. Eqn(scan)
  BY <1>4
<1> HIDE DEF scan
<1>6. \A n \in 0 .. Len(buf) : scan[n] = IF n = 0 THEN ScanStart(cn) ELSE UrlStep(scan[n - 1], buf[n])
  BY <1>5, Zenon
<1>7. \A n \in 0 .. Len(buf) : scan[n] = f[n]
  <2>1. scan[0] = ScanStart(cn)
    BY <1>6
  <2>2. \A n \in 1 .. Len(buf) : scan[n - 1] \in Scans => scan[n] = F[<<n, scan[n - 1]>>]
    BY <1>1, <1>6
  <2>3. Follows(scan, Len(buf), Scans, ScanStart(cn), F)
    BY <2>1, <2>2 DEF Follows
  <2> QED  BY <1>2, <2>3, LoopUnique
<1>8. Scan(buf, cn) = scan[Len(buf)]
  BY DEF Scan, scan
<1> QED  BY <1>3, <1>7, <1>8 DEF Scanned

\* Field f is set to the characters after the first a, up to character b.
Within(u, f, a, b) == f \in u.set /\ u.off[f] = a /\ a < b /\ u.len[f] = b - a

\* What the characters up to one have been divided into: the scheme and what follows
\* it, or nothing for CONNECT; that and a host, or neither; then a path, then a query.
SchemaTo(buf, cn, u, b) ==
  IF cn THEN "UF_SCHEMA" \notin u.set /\ b = 0
  ELSE Within(u, "UF_SCHEMA", 0, b - 3) /\ buf[b - 2] = ":" /\ buf[b - 1] = "/" /\ buf[b] = "/"
HostFrom(buf, cn, u, e) == \E b \in Nat : SchemaTo(buf, cn, u, b) /\ Within(u, "UF_HOST", b, e)
FrontTo(buf, cn, u, e) ==
  \/ ~cn /\ "UF_SCHEMA" \notin u.set /\ "UF_HOST" \notin u.set /\ e = 0
  \/ SchemaTo(buf, cn, u, e) /\ "UF_HOST" \notin u.set
  \/ HostFrom(buf, cn, u, e)
PathFrom(buf, cn, u, p) == \E e \in Nat : FrontTo(buf, cn, u, e) /\ Within(u, "UF_PATH", e, p)
PathTo(buf, cn, u, p) ==
  \/ PathFrom(buf, cn, u, p)
  \/ FrontTo(buf, cn, u, p) /\ "UF_PATH" \notin u.set
QueryFrom(buf, cn, u, q) ==
  \E p \in Nat : PathTo(buf, cn, u, p) /\ buf[p + 1] = "?" /\ Within(u, "UF_QUERY", p + 1, q)
QueryTo(buf, cn, u, q) ==
  \/ QueryFrom(buf, cn, u, q)
  \/ "UF_QUERY" \notin u.set /\ (PathTo(buf, cn, u, q) \/ (q > 0 /\ PathTo(buf, cn, u, q - 1) /\ buf[q] = "?"))
HashesTo(buf, cn, u, h) ==
  \E q \in Nat : QueryTo(buf, cn, u, q) /\ q < h /\ \A k \in q + 1 .. h : buf[k] = "#"
FragmentFrom(buf, cn, u, n) == \E h \in Nat : HashesTo(buf, cn, u, h) /\ Within(u, "UF_FRAGMENT", h, n)

Lacks(u, S) == u.set \cap S = {}

At(buf, cn, x, n) ==
  LET s == x.s
      u == x.u
  IN /\ x.i = n
     /\ Lacks(u, {"UF_PORT", "UF_USERINFO"})
     /\ s = "s_req_spaces_before_url" => n = 0 /\ ~cn /\ u.set = {} /\ x.old = "none"
     /\ s = "s_req_schema" => ~cn /\ u.set = {"UF_SCHEMA"} /\ x.old = "UF_SCHEMA" /\ Within(u, "UF_SCHEMA", 0, n)
     /\ s = "s_req_schema_slash" => /\ ~cn /\ u.set = {"UF_SCHEMA"} /\ x.old = "UF_SCHEMA"
                                    /\ Within(u, "UF_SCHEMA", 0, n - 1) /\ buf[n] = ":"
     /\ s = "s_req_schema_slash_slash" => /\ ~cn /\ u.set = {"UF_SCHEMA"} /\ x.old = "UF_SCHEMA"
                                          /\ Within(u, "UF_SCHEMA", 0, n - 2) /\ buf[n - 1] = ":" /\ buf[n] = "/"
     /\ s = "s_req_server_start" => SchemaTo(buf, cn, u, n) /\ u.set \subseteq {"UF_SCHEMA"} /\ x.old \in {"none", "UF_SCHEMA"}
     /\ s \in {"s_req_server", "s_req_server_with_at"} =>
          HostFrom(buf, cn, u, n) /\ u.set \subseteq {"UF_SCHEMA", "UF_HOST"} /\ x.old = "UF_HOST"
     /\ s = "s_req_path" => PathFrom(buf, cn, u, n) /\ Lacks(u, {"UF_QUERY", "UF_FRAGMENT"}) /\ x.old = "UF_PATH"
     /\ s = "s_req_query_string_start" =>
          /\ n > 0 /\ PathTo(buf, cn, u, n - 1) /\ buf[n] = "?"
          /\ Lacks(u, {"UF_QUERY", "UF_FRAGMENT"}) /\ x.old \notin {"UF_QUERY", "UF_FRAGMENT"}
     /\ s = "s_req_query_string" => QueryFrom(buf, cn, u, n) /\ Lacks(u, {"UF_FRAGMENT"}) /\ x.old = "UF_QUERY"
     /\ s = "s_req_fragment_start" => HashesTo(buf, cn, u, n) /\ Lacks(u, {"UF_FRAGMENT"}) /\ x.old # "UF_FRAGMENT"
     /\ s = "s_req_fragment" => FragmentFrom(buf, cn, u, n) /\ x.old = "UF_FRAGMENT"

\* What a new field, and one more character of one, do.
LEMMA OpenIs ==
  ASSUME NEW u \in Urls, NEW f \in Fields, NEW n \in Nat \ {0}, n < UINT16
  PROVE  /\ Open(u, f, n).set = u.set \cup {f} /\ Within(Open(u, f, n), f, n - 1, n)
         /\ \A g \in Fields \ {f} : Open(u, f, n).off[g] = u.off[g] /\ Open(u, f, n).len[g] = u.len[g]
<1>1. (n - 1) % UINT16 = n - 1 /\ n - (n - 1) = 1
  BY UrlWidthAssumption
<1>2. u.set \in SUBSET Fields /\ u.off \in [Fields -> Nat] /\ u.len \in [Fields -> Nat]
  BY DEF Urls
<1>3. /\ Open(u, f, n).set = u.set \cup {f} /\ Open(u, f, n).off = [u.off EXCEPT ![f] = n - 1]
      /\ Open(u, f, n).len = [u.len EXCEPT ![f] = 1]
  BY <1>1 DEF Open, Urls
<1> QED  BY <1>1, <1>2, <1>3 DEF Within

\* One more character of a field moves the end of this field, and no other.
LEMMA MoreIs ==
  ASSUME NEW u \in Urls, NEW f \in Fields, NEW a \in Nat, NEW n \in Nat, n + 1 < UINT16, Within(u, f, a, n)
  PROVE  /\ More(u, f).set = u.set /\ Within(More(u, f), f, a, n + 1)
         /\ \A g \in Fields \ {f} : More(u, f).off[g] = u.off[g] /\ More(u, f).len[g] = u.len[g]
<1>1. u.set \in SUBSET Fields /\ u.off \in [Fields -> Nat] /\ u.len \in [Fields -> Nat]
  BY DEF Urls
<1>2. u.len[f] = n - a /\ a < n
  BY DEF Within
<1>3. (u.len[f] + 1) % UINT16 = (n + 1) - a
  BY <1>2, UrlWidthAssumption
<1>4. /\ More(u, f).set = u.set /\ More(u, f).off = u.off
      /\ More(u, f).len = [u.len EXCEPT ![f] = (n + 1) - a]
  BY <1>3 DEF More, Urls
<1> QED  BY <1>1, <1>2, <1>4 DEF Within

\* What a change of other fields leaves alone.
Alike(u, v, S) == \A g \in S : (g \in v.set <=> g \in u.set) /\ v.off[g] = u.off[g] /\ v.len[g] = u.len[g]
\* Where the scheme ends rests on the scheme only.
LEMMA FrontAlike ==
  ASSUME NEW buf, NEW cn, NEW u, NEW v, Alike(u, v, {"UF_SCHEMA"})
  PROVE  \A b : SchemaTo(buf, cn, u, b) => SchemaTo(buf, cn, v, b)
BY DEF Alike, SchemaTo, Within

\* Where the host ends rests on the scheme and the host only.
LEMMA HostAlike ==
  ASSUME NEW buf, NEW cn, NEW u, NEW v, Alike(u, v, {"UF_SCHEMA", "UF_HOST"})
  PROVE  \A e : /\ HostFrom(buf, cn, u, e) => HostFrom(buf, cn, v, e)
                /\ FrontTo(buf, cn, u, e) => FrontTo(buf, cn, v, e)
<1>1. \A b : SchemaTo(buf, cn, u, b) => SchemaTo(buf, cn, v, b)
  BY FrontAlike DEF Alike
<1>2. \A b, e : Within(u, "UF_HOST", b, e) => Within(v, "UF_HOST", b, e)
  BY DEF Alike, Within
<1>3. "UF_SCHEMA" \notin u.set => "UF_SCHEMA" \notin v.set
  BY DEF Alike
<1>4. "UF_HOST" \notin u.set => "UF_HOST" \notin v.set
  BY DEF Alike
<1>5. \A e : HostFrom(buf, cn, u, e) => HostFrom(buf, cn, v, e)
  BY <1>1, <1>2 DEF HostFrom
<1> QED  BY <1>1, <1>3, <1>4, <1>5 DEF FrontTo

\* Where the path ends rests on the fields up to it only.
LEMMA PathAlike ==
  ASSUME NEW buf, NEW cn, NEW u, NEW v, Alike(u, v, {"UF_SCHEMA", "UF_HOST", "UF_PATH"})
  PROVE  \A e : /\ PathFrom(buf, cn, u, e) => PathFrom(buf, cn, v, e)
                /\ PathTo(buf, cn, u, e) => PathTo(buf, cn, v, e)
<1>1. \A b : FrontTo(buf, cn, u, b) => FrontTo(buf, cn, v, b)
  BY HostAlike DEF Alike
<1>2. \A b, e : Within(u, "UF_PATH", b, e) => Within(v, "UF_PATH", b, e)
  BY DEF Alike, Within
<1>3. "UF_PATH" \notin u.set => "UF_PATH" \notin v.set
  BY DEF Alike
<1>4. \A e : PathFrom(buf, cn, u, e) => PathFrom(buf, cn, v, e)
  BY <1>1, <1>2 DEF PathFrom
<1> QED  BY <1>1, <1>3, <1>4 DEF PathTo

\* Where the query ends rests on the fields up to it only.
LEMMA QueryAlike ==
  ASSUME NEW buf, NEW cn, NEW u, NEW v, Alike(u, v, {"UF_SCHEMA", "UF_HOST", "UF_PATH", "UF_QUERY"})
  PROVE  \A e : /\ QueryFrom(buf, cn, u, e) => QueryFrom(buf, cn, v, e)
                /\ QueryTo(buf, cn, u, e) => QueryTo(buf, cn, v, e)
                /\ HashesTo(buf, cn, u, e) => HashesTo(buf, cn, v, e)
<1>1. \A b : PathTo(buf, cn, u, b) => PathTo(buf, cn, v, b)
  BY PathAlike DEF Alike
<1>2. \A b, e : Within(u, "UF_QUERY", b, e) => Within(v, "UF_QUERY", b, e)
  BY DEF Alike, Within
<1>3. "UF_QUERY" \notin u.set => "UF_QUERY" \notin v.set
  BY DEF Alike
<1>4. \A e : QueryFrom(buf, cn, u, e) => QueryFrom(buf, cn, v, e)
  BY <1>1, <1>2 DEF QueryFrom
<1>5. \A e : QueryTo(buf, cn, u, e) => QueryTo(buf, cn, v, e)
  BY <1>1, <1>3, <1>4 DEF QueryTo
<1>6. \A e : HashesTo(buf, cn, u, e) => HashesTo(buf, cn, v, e)
  BY <1>5 DEF HashesTo
<1> QED  BY <1>4, <1>5, <1>6

\* One character of the URL.
Taken(x, y, ch, n) ==
  /\ x \in Scans /\ n \in Nat \ {0} /\ n < UINT16 /\ x.i = n - 1
  /\ y = UrlStep(x, ch) /\ y.s # "s_dead"
\* A character that is taken moves the field of its state, if it has one.
LEMMA TakenIs ==
  ASSUME NEW x, NEW y, NEW ch, NEW n, Taken(x, y, ch, n)
  PROVE  LET f == FieldOf(y.s) IN
         /\ y.s = parse_url_char(x.s, ch) /\ y.i = n /\ x.s \in UrlStates /\ y.s \in UrlStates
         /\ x.u \in Urls
         /\ f = "none" => y.u = x.u /\ y.old = x.old
         /\ f # "none" => y.old = f /\ y.u = IF f = x.old THEN More(x.u, f) ELSE Open(x.u, f, n)
<1> DEFINE s == parse_url_char(x.s, ch)
           f == FieldOf(s)
<1>1. x.s \in UrlStates /\ x.i \in Nat /\ x.u \in Urls /\ x.i + 1 = n
  BY DEF Taken, Scans
<1>2. x.s # "s_dead"
  BY DEF Taken, UrlStep
<1>3. s \in UrlStates
  BY <1>1, CharTyped
<1> HIDE DEF s
<1>4. y = [s |-> s, i |-> n, old |-> IF f = "none" THEN x.old ELSE f,
           found_at |-> x.found_at \/ s = "s_req_server_with_at",
           u |-> IF f = "none" THEN x.u
                 ELSE IF f = x.old THEN More(x.u, f) ELSE Open(x.u, f, n)]
  BY <1>1, <1>2 DEF Taken, UrlStep, s
<1> HIDE DEF f
<1>5. /\ y.s = s /\ y.i = n /\ y.old = IF f = "none" THEN x.old ELSE f
      /\ y.u = IF f = "none" THEN x.u ELSE IF f = x.old THEN More(x.u, f) ELSE Open(x.u, f, n)
  BY <1>4
<1> QED  BY <1>1, <1>3, <1>5 DEF s, f

\* Which states a state is reached from, and by which characters.
LEMMA UrlFromState ==
  ASSUME NEW x, NEW y, NEW ch, NEW n, Taken(x, y, ch, n)
  PROVE  /\ y.s # "s_req_spaces_before_url" /\ y.s # "s_dead"
         /\ y.s = "s_req_schema" => x.s \in {"s_req_spaces_before_url", "s_req_schema"}
         /\ y.s = "s_req_schema_slash" => x.s = "s_req_schema" /\ ch = ":"
         /\ y.s = "s_req_schema_slash_slash" => x.s = "s_req_schema_slash" /\ ch = "/"
         /\ y.s = "s_req_server_start" => x.s = "s_req_schema_slash_slash" /\ ch = "/"
         /\ y.s \in {"s_req_server", "s_req_server_with_at"} =>
              x.s \in {"s_req_server_start", "s_req_server", "s_req_server_with_at"}
         /\ y.s = "s_req_path" => x.s \in {"s_req_spaces_before_url", "s_req_server_start", "s_req_server",
                                       "s_req_server_with_at", "s_req_path"}
         /\ y.s = "s_req_query_string_start" =>
              x.s \in {"s_req_server_start", "s_req_server", "s_req_server_with_at", "s_req_path"} /\ ch = "?"
         /\ y.s = "s_req_query_string" => x.s \in {"s_req_query_string_start", "s_req_query_string"}
         /\ y.s = "s_req_fragment_start" =>
              x.s \in {"s_req_path", "s_req_query_string_start", "s_req_query_string", "s_req_fragment_start"} /\ ch = "#"
         /\ y.s = "s_req_fragment" => x.s \in {"s_req_fragment_start", "s_req_fragment"}
<1>1. x.s \in UrlStates /\ y.s = parse_url_char(x.s, ch) /\ y.s # "s_dead"
  <2>1. y.s # "s_dead"
    BY DEF Taken
  <2> QED  BY <2>1, TakenIs
<1> QED  BY <1>1 DEF UrlStates, parse_url_char

\* A character of the field that is open; the first one of another field.
Grown(x, y, f, a, n) == y.old = f /\ y.u.set = x.u.set /\ Within(y.u, f, a, n)
                        /\ Alike(x.u, y.u, Fields \ {f})
Opened(x, y, f, n) == y.old = f /\ y.u.set = x.u.set \cup {f} /\ Within(y.u, f, n - 1, n)
                      /\ Alike(x.u, y.u, Fields \ {f})
\* A character in the state of the field it follows grows this field.
LEMMA GrownIs ==
  ASSUME NEW x, NEW y, NEW ch, NEW n, Taken(x, y, ch, n), NEW f \in Fields, FieldOf(y.s) = f, x.old = f,
         NEW a \in Nat, Within(x.u, f, a, n - 1)
  PROVE  Grown(x, y, f, a, n)
<1>1. y.old = f /\ y.u = More(x.u, f) /\ x.u \in Urls /\ n - 1 \in Nat /\ (n - 1) + 1 = n /\ n < UINT16
  <2>1. f # "none"
    BY DEF Fields
  <2>2. y.old = f /\ y.u = More(x.u, f) /\ x.u \in Urls
    BY <2>1, TakenIs
  <2> QED  BY <2>2 DEF Taken
<1>2. y.u.set = x.u.set /\ Within(y.u, f, a, n)
      /\ \A g \in Fields \ {f} : y.u.off[g] = x.u.off[g] /\ y.u.len[g] = x.u.len[g]
  BY <1>1, MoreIs
<1> QED  BY <1>1, <1>2 DEF Grown, Alike

\* A character in the state of another field opens that field.
LEMMA OpenedIs ==
  ASSUME NEW x, NEW y, NEW ch, NEW n, Taken(x, y, ch, n), NEW f \in Fields, FieldOf(y.s) = f, x.old # f
  PROVE  Opened(x, y, f, n)
<1>1. y.old = f /\ y.u = Open(x.u, f, n) /\ x.u \in Urls /\ n \in Nat \ {0} /\ n < UINT16
  <2>1. f # "none"
    BY DEF Fields
  <2>2. y.old = f /\ y.u = Open(x.u, f, n) /\ x.u \in Urls
    BY <2>1, TakenIs
  <2> QED  BY <2>2 DEF Taken
<1>2. y.u.set = x.u.set \cup {f} /\ Within(y.u, f, n - 1, n)
      /\ \A g \in Fields \ {f} : y.u.off[g] = x.u.off[g] /\ y.u.len[g] = x.u.len[g]
  BY <1>1, OpenIs
<1> QED  BY <1>1, <1>2 DEF Opened, Alike

Onto(buf, cn, x, y, n) ==
  /\ cn \in BOOLEAN /\ n \in 1 .. Len(buf) /\ n \in Nat \ {0} /\ Taken(x, y, buf[n], n) /\ At(buf, cn, x, n - 1)

\* The scheme and the three characters behind it.
LEMMA SchemaStep ==
  ASSUME NEW buf, NEW cn, NEW x, NEW y, NEW n, Onto(buf, cn, x, y, n),
         y.s \in {"s_req_schema", "s_req_schema_slash", "s_req_schema_slash_slash", "s_req_server_start"}
  PROVE  At(buf, cn, y, n)
<1>0. n \in Nat \ {0} /\ Taken(x, y, buf[n], n) /\ At(buf, cn, x, n - 1) /\ cn \in BOOLEAN
  BY DEF Onto
<1>1. y.s = parse_url_char(x.s, buf[n]) /\ y.i = n /\ x.s \in UrlStates /\ x.u \in Urls /\ y.s # "s_dead"
  BY <1>0, TakenIs
<1>2. CASE y.s = "s_req_schema"
  <2>1. x.s \in {"s_req_spaces_before_url", "s_req_schema"}
    BY <1>0, <1>2, UrlFromState
  <2>2. FieldOf(y.s) = "UF_SCHEMA" /\ "UF_SCHEMA" \in Fields
    BY <1>2 DEF FieldOf, Fields
  <2>3. CASE x.s = "s_req_spaces_before_url"
    <3>1. n - 1 = 0 /\ ~cn /\ x.u.set = {} /\ x.old # "UF_SCHEMA"
      BY <1>0, <2>3 DEF At
    <3>2. Opened(x, y, "UF_SCHEMA", n)
      BY <1>0, <2>2, <3>1, OpenedIs
    <3> QED  BY <1>0, <1>1, <1>2, <3>1, <3>2 DEF At, Opened, Lacks
  <2>4. CASE x.s = "s_req_schema"
    <3>1. ~cn /\ x.u.set = {"UF_SCHEMA"} /\ x.old = "UF_SCHEMA" /\ Within(x.u, "UF_SCHEMA", 0, n - 1)
      BY <1>0, <2>4 DEF At
    <3>2. Grown(x, y, "UF_SCHEMA", 0, n)
      BY <1>0, <2>2, <3>1, GrownIs
    <3> QED  BY <1>0, <1>1, <1>2, <3>1, <3>2 DEF At, Grown, Lacks
  <2> QED  BY <2>1, <2>3, <2>4
<1>3. CASE y.s # "s_req_schema"
  <2>1. y.u = x.u /\ y.old = x.old
    <3>1. FieldOf(y.s) = "none"
      BY <1>3 DEF FieldOf
    <3> QED  BY <1>0, <3>1, TakenIs
  <2>2. CASE y.s = "s_req_schema_slash"
    <3>1. x.s = "s_req_schema" /\ buf[n] = ":"
      BY <1>0, <2>2, UrlFromState
    <3> QED  BY <1>0, <1>1, <2>1, <2>2, <3>1 DEF At
  <2>3. CASE y.s = "s_req_schema_slash_slash"
    <3>1. x.s = "s_req_schema_slash" /\ buf[n] = "/"
      BY <1>0, <2>3, UrlFromState
    <3>2. (n - 1) - 1 = n - 2
      BY <1>0
    <3> QED  BY <1>0, <1>1, <2>1, <2>3, <3>1, <3>2 DEF At
  <2>4. CASE y.s = "s_req_server_start"
    <3>1. x.s = "s_req_schema_slash_slash" /\ buf[n] = "/"
      BY <1>0, <2>4, UrlFromState
    <3>2. (n - 1) - 1 = n - 2 /\ (n - 1) - 2 = n - 3
      BY <1>0
    <3>3. ~cn /\ Within(x.u, "UF_SCHEMA", 0, n - 3) /\ buf[n - 2] = ":" /\ buf[n - 1] = "/"
          /\ x.u.set = {"UF_SCHEMA"} /\ x.old = "UF_SCHEMA"
      BY <1>0, <3>1, <3>2 DEF At
    <3>4. SchemaTo(buf, cn, y.u, n)
      BY <2>1, <3>1, <3>3 DEF SchemaTo
    <3> QED  BY <1>0, <1>1, <2>1, <2>4, <3>3, <3>4 DEF At, Lacks
  <2> QED  BY <1>3, <2>2, <2>3, <2>4
<1> QED  BY <1>2, <1>3

\* The authority.
LEMMA ServerStep ==
  ASSUME NEW buf, NEW cn, NEW x, NEW y, NEW n, Onto(buf, cn, x, y, n),
         y.s \in {"s_req_server", "s_req_server_with_at"}
  PROVE  At(buf, cn, y, n)
<1>0. n \in Nat \ {0} /\ n - 1 \in Nat /\ Taken(x, y, buf[n], n) /\ At(buf, cn, x, n - 1) /\ cn \in BOOLEAN
  BY DEF Onto
<1>1. y.s = parse_url_char(x.s, buf[n]) /\ y.i = n /\ x.s \in UrlStates /\ x.u \in Urls
  BY <1>0, TakenIs
<1>2. x.s \in {"s_req_server_start", "s_req_server", "s_req_server_with_at"} /\ y.s # "s_dead"
  BY <1>0, UrlFromState
<1>3. FieldOf(y.s) = "UF_HOST" /\ "UF_HOST" \in Fields /\ "UF_SCHEMA" \in Fields \ {"UF_HOST"}
  BY DEF FieldOf, Fields
<1>4. CASE x.s = "s_req_server_start"
  <2>1. SchemaTo(buf, cn, x.u, n - 1) /\ x.u.set \subseteq {"UF_SCHEMA"} /\ x.old # "UF_HOST"
    BY <1>0, <1>4 DEF At
  <2>2. Opened(x, y, "UF_HOST", n)
    BY <1>0, <1>3, <2>1, OpenedIs
  <2>3. SchemaTo(buf, cn, y.u, n - 1)
    <3>1. Alike(x.u, y.u, {"UF_SCHEMA"})
      BY <1>3, <2>2 DEF Opened, Alike
    <3> QED  BY <2>1, <3>1, FrontAlike
  <2>4. HostFrom(buf, cn, y.u, n)
    BY <1>0, <2>2, <2>3 DEF HostFrom, Opened
  <2>5. y.u.set \subseteq {"UF_SCHEMA", "UF_HOST"} /\ y.old = "UF_HOST"
    BY <2>1, <2>2 DEF Opened
  <2> QED  BY <1>1, <1>2, <2>4, <2>5 DEF At, Lacks
<1>5. CASE x.s # "s_req_server_start"
  <2>1. HostFrom(buf, cn, x.u, n - 1) /\ x.u.set \subseteq {"UF_SCHEMA", "UF_HOST"} /\ x.old = "UF_HOST"
    BY <1>0, <1>2, <1>5 DEF At
  <2>2. PICK b \in Nat : SchemaTo(buf, cn, x.u, b) /\ Within(x.u, "UF_HOST", b, n - 1)
    BY <2>1 DEF HostFrom
  <2>3. Grown(x, y, "UF_HOST", b, n)
    BY <1>0, <1>3, <2>1, <2>2, GrownIs
  <2>4. SchemaTo(buf, cn, y.u, b)
    <3>1. Alike(x.u, y.u, {"UF_SCHEMA"})
      BY <1>3, <2>3 DEF Grown, Alike
    <3> QED  BY <2>2, <3>1, FrontAlike
  <2>5. HostFrom(buf, cn, y.u, n)
    BY <2>3, <2>4 DEF HostFrom, Grown
  <2>6. y.u.set \subseteq {"UF_SCHEMA", "UF_HOST"} /\ y.old = "UF_HOST"
    BY <2>1, <2>3 DEF Grown
  <2> QED  BY <1>1, <1>2, <2>5, <2>6 DEF At, Lacks
<1> QED  BY <1>4, <1>5

\* The path: after the authority, or from the beginning.
LEMMA PathStep ==
  ASSUME NEW buf, NEW cn, NEW x, NEW y, NEW n, Onto(buf, cn, x, y, n), y.s = "s_req_path"
  PROVE  At(buf, cn, y, n)
<1>0. n \in Nat \ {0} /\ n - 1 \in Nat /\ Taken(x, y, buf[n], n) /\ At(buf, cn, x, n - 1) /\ cn \in BOOLEAN
  BY DEF Onto
<1>1. y.i = n /\ x.s \in UrlStates /\ x.u \in Urls
  BY <1>0, TakenIs
<1>2. x.s \in {"s_req_spaces_before_url", "s_req_server_start", "s_req_server",
               "s_req_server_with_at", "s_req_path"}
  BY <1>0, UrlFromState
<1>3. FieldOf(y.s) = "UF_PATH" /\ "UF_PATH" \in Fields /\ {"UF_SCHEMA", "UF_HOST"} \subseteq Fields \ {"UF_PATH"}
  BY DEF FieldOf, Fields
<1>4. CASE x.s # "s_req_path"
  <2>1. FrontTo(buf, cn, x.u, n - 1) /\ x.u.set \subseteq {"UF_SCHEMA", "UF_HOST"} /\ x.old # "UF_PATH"
    <3>1. CASE x.s = "s_req_spaces_before_url"
      BY <1>0, <3>1 DEF At, FrontTo
    <3>2. CASE x.s = "s_req_server_start"
      BY <1>0, <3>2 DEF At, FrontTo
    <3>3. CASE x.s \in {"s_req_server", "s_req_server_with_at"}
      BY <1>0, <3>3 DEF At, FrontTo
    <3> QED  BY <1>2, <1>4, <3>1, <3>2, <3>3
  <2>2. Opened(x, y, "UF_PATH", n)
    BY <1>0, <1>3, <2>1, OpenedIs
  <2>3. FrontTo(buf, cn, y.u, n - 1)
    <3>1. Alike(x.u, y.u, {"UF_SCHEMA", "UF_HOST"})
      BY <1>3, <2>2 DEF Opened, Alike
    <3> QED  BY <2>1, <3>1, HostAlike
  <2>4. PathFrom(buf, cn, y.u, n)
    BY <1>0, <2>2, <2>3 DEF PathFrom, Opened
  <2>5. y.u.set \subseteq {"UF_SCHEMA", "UF_HOST", "UF_PATH"} /\ y.old = "UF_PATH"
    BY <2>1, <2>2 DEF Opened
  <2> QED  BY <1>1, <2>4, <2>5 DEF At, Lacks
<1>5. CASE x.s = "s_req_path"
  <2>1. PathFrom(buf, cn, x.u, n - 1) /\ Lacks(x.u, {"UF_QUERY", "UF_FRAGMENT", "UF_PORT", "UF_USERINFO"})
        /\ x.old = "UF_PATH"
    BY <1>0, <1>5 DEF At, Lacks
  <2>2. PICK e \in Nat : FrontTo(buf, cn, x.u, e) /\ Within(x.u, "UF_PATH", e, n - 1)
    BY <2>1 DEF PathFrom
  <2>3. Grown(x, y, "UF_PATH", e, n)
    BY <1>0, <1>3, <2>1, <2>2, GrownIs
  <2>4. FrontTo(buf, cn, y.u, e)
    <3>1. Alike(x.u, y.u, {"UF_SCHEMA", "UF_HOST"})
      BY <1>3, <2>3 DEF Grown, Alike
    <3> QED  BY <2>2, <3>1, HostAlike
  <2>5. PathFrom(buf, cn, y.u, n)
    BY <2>3, <2>4 DEF PathFrom, Grown
  <2>6. Lacks(y.u, {"UF_QUERY", "UF_FRAGMENT", "UF_PORT", "UF_USERINFO"}) /\ y.old = "UF_PATH"
    BY <2>1, <2>3 DEF Grown, Lacks
  <2> QED  BY <1>1, <2>5, <2>6 DEF At, Lacks
<1> QED  BY <1>4, <1>5

\* The '?', which leaves the fields as they are.
LEMMA QueryStartStep ==
  ASSUME NEW buf, NEW cn, NEW x, NEW y, NEW n, Onto(buf, cn, x, y, n), y.s = "s_req_query_string_start"
  PROVE  At(buf, cn, y, n)
<1>0. n \in Nat \ {0} /\ n - 1 \in Nat /\ n > 0 /\ Taken(x, y, buf[n], n) /\ At(buf, cn, x, n - 1) /\ cn \in BOOLEAN
  BY DEF Onto
<1>1. y.i = n /\ y.u = x.u /\ y.old = x.old
  <2>1. FieldOf(y.s) = "none"
    BY DEF FieldOf
  <2> QED  BY <1>0, <2>1, TakenIs
<1>2. x.s \in {"s_req_server_start", "s_req_server", "s_req_server_with_at", "s_req_path"} /\ buf[n] = "?"
  BY <1>0, UrlFromState
<1>3. /\ PathTo(buf, cn, x.u, n - 1) /\ x.old \notin {"UF_QUERY", "UF_FRAGMENT"}
      /\ Lacks(x.u, {"UF_QUERY", "UF_FRAGMENT", "UF_PORT", "UF_USERINFO"})
  <2>1. CASE x.s = "s_req_server_start"
    BY <1>0, <2>1 DEF At, FrontTo, PathTo, Lacks
  <2>2. CASE x.s \in {"s_req_server", "s_req_server_with_at"}
    BY <1>0, <2>2 DEF At, FrontTo, PathTo, Lacks
  <2>3. CASE x.s = "s_req_path"
    BY <1>0, <2>3 DEF At, PathTo, Lacks
  <2> QED  BY <1>2, <2>1, <2>2, <2>3
<1> QED  BY <1>0, <1>1, <1>2, <1>3 DEF At, Lacks

\* The division goes on into the query.
LEMMA QueryStep ==
  ASSUME NEW buf, NEW cn, NEW x, NEW y, NEW n, Onto(buf, cn, x, y, n), y.s = "s_req_query_string"
  PROVE  At(buf, cn, y, n)
<1>0. n \in Nat \ {0} /\ n - 1 \in Nat /\ Taken(x, y, buf[n], n) /\ At(buf, cn, x, n - 1) /\ cn \in BOOLEAN
  BY DEF Onto
<1>1. y.i = n /\ x.s \in UrlStates /\ x.u \in Urls
  BY <1>0, TakenIs
<1>2. x.s \in {"s_req_query_string_start", "s_req_query_string"}
  BY <1>0, UrlFromState
<1>3. FieldOf(y.s) = "UF_QUERY" /\ "UF_QUERY" \in Fields
      /\ {"UF_SCHEMA", "UF_HOST", "UF_PATH"} \subseteq Fields \ {"UF_QUERY"}
  BY DEF FieldOf, Fields
<1>4. CASE x.s = "s_req_query_string_start"
  <2>1. /\ n - 1 > 0 /\ PathTo(buf, cn, x.u, n - 2) /\ buf[n - 1] = "?" /\ x.old # "UF_QUERY"
        /\ Lacks(x.u, {"UF_QUERY", "UF_FRAGMENT", "UF_PORT", "UF_USERINFO"})
    <3>1. (n - 1) - 1 = n - 2
      BY <1>0
    <3> QED  BY <1>0, <1>4, <3>1 DEF At, Lacks
  <2>2. Opened(x, y, "UF_QUERY", n)
    BY <1>0, <1>3, <2>1, OpenedIs
  <2>3. PathTo(buf, cn, y.u, n - 2)
    <3>1. Alike(x.u, y.u, {"UF_SCHEMA", "UF_HOST", "UF_PATH"})
      BY <1>3, <2>2 DEF Opened, Alike
    <3> QED  BY <2>1, <3>1, PathAlike
  <2>4. n - 2 \in Nat /\ (n - 2) + 1 = n - 1
    BY <1>0, <2>1
  <2>5. Within(y.u, "UF_QUERY", n - 1, n)
    BY <2>2 DEF Opened
  <2>6. QueryFrom(buf, cn, y.u, n)
    BY <2>1, <2>3, <2>4, <2>5 DEF QueryFrom
  <2>7. Lacks(y.u, {"UF_FRAGMENT", "UF_PORT", "UF_USERINFO"}) /\ y.old = "UF_QUERY"
    BY <2>1, <2>2 DEF Opened, Lacks
  <2> QED  BY <1>1, <2>6, <2>7 DEF At, Lacks
<1>5. CASE x.s = "s_req_query_string"
  <2>1. QueryFrom(buf, cn, x.u, n - 1) /\ Lacks(x.u, {"UF_FRAGMENT", "UF_PORT", "UF_USERINFO"}) /\ x.old = "UF_QUERY"
    BY <1>0, <1>5 DEF At, Lacks
  <2>2. PICK p \in Nat : PathTo(buf, cn, x.u, p) /\ buf[p + 1] = "?" /\ Within(x.u, "UF_QUERY", p + 1, n - 1)
    BY <2>1 DEF QueryFrom
  <2>3. Grown(x, y, "UF_QUERY", p + 1, n)
    BY <1>0, <1>3, <2>1, <2>2, GrownIs
  <2>4. PathTo(buf, cn, y.u, p)
    <3>1. Alike(x.u, y.u, {"UF_SCHEMA", "UF_HOST", "UF_PATH"})
      BY <1>3, <2>3 DEF Grown, Alike
    <3> QED  BY <2>2, <3>1, PathAlike
  <2>5. QueryFrom(buf, cn, y.u, n)
    BY <2>2, <2>3, <2>4 DEF QueryFrom, Grown
  <2>6. Lacks(y.u, {"UF_FRAGMENT", "UF_PORT", "UF_USERINFO"}) /\ y.old = "UF_QUERY"
    BY <2>1, <2>3 DEF Grown, Lacks
  <2> QED  BY <1>1, <2>5, <2>6 DEF At, Lacks
<1> QED  BY <1>2, <1>4, <1>5

\* The '#', of which there may be several.
LEMMA FragmentStartStep ==
  ASSUME NEW buf, NEW cn, NEW x, NEW y, NEW n, Onto(buf, cn, x, y, n), y.s = "s_req_fragment_start"
  PROVE  At(buf, cn, y, n)
<1>0. n \in Nat \ {0} /\ n - 1 \in Nat /\ Taken(x, y, buf[n], n) /\ At(buf, cn, x, n - 1) /\ cn \in BOOLEAN
  BY DEF Onto
<1>1. y.i = n /\ y.u = x.u /\ y.old = x.old
  <2>1. FieldOf(y.s) = "none"
    BY DEF FieldOf
  <2> QED  BY <1>0, <2>1, TakenIs
<1>2. x.s \in {"s_req_path", "s_req_query_string_start", "s_req_query_string", "s_req_fragment_start"} /\ buf[n] = "#"
  BY <1>0, UrlFromState
<1>3. /\ QueryTo(buf, cn, x.u, n - 1) \/ HashesTo(buf, cn, x.u, n - 1)
      /\ x.old # "UF_FRAGMENT" /\ Lacks(x.u, {"UF_FRAGMENT", "UF_PORT", "UF_USERINFO"})
  <2>1. CASE x.s = "s_req_path"
    BY <1>0, <2>1 DEF At, PathTo, QueryTo, Lacks
  <2>2. CASE x.s = "s_req_query_string_start"
    BY <1>0, <2>2 DEF At, QueryTo, Lacks
  <2>3. CASE x.s = "s_req_query_string"
    BY <1>0, <2>3 DEF At, QueryTo, Lacks
  <2>4. CASE x.s = "s_req_fragment_start"
    BY <1>0, <2>4 DEF At, Lacks
  <2> QED  BY <1>2, <2>1, <2>2, <2>3, <2>4
<1>4. HashesTo(buf, cn, x.u, n)
  <2>1. CASE QueryTo(buf, cn, x.u, n - 1)
    <3>1. n - 1 < n /\ \A k \in (n - 1) + 1 .. n : k = n
      BY <1>0
    <3> QED  BY <1>0, <1>2, <2>1, <3>1 DEF HashesTo
  <2>2. CASE HashesTo(buf, cn, x.u, n - 1)
    <3>1. PICK q \in Nat : QueryTo(buf, cn, x.u, q) /\ q < n - 1 /\ \A k \in q + 1 .. n - 1 : buf[k] = "#"
      BY <2>2 DEF HashesTo
    <3>2. q < n /\ \A k \in q + 1 .. n : k = n \/ k \in q + 1 .. n - 1
      BY <1>0, <3>1
    <3> QED  BY <1>2, <3>1, <3>2 DEF HashesTo
  <2> QED  BY <1>3, <2>1, <2>2
<1> QED  BY <1>1, <1>3, <1>4 DEF At, Lacks

\* The division goes on into the fragment.
LEMMA FragmentStep ==
  ASSUME NEW buf, NEW cn, NEW x, NEW y, NEW n, Onto(buf, cn, x, y, n), y.s = "s_req_fragment"
  PROVE  At(buf, cn, y, n)
<1>0. n \in Nat \ {0} /\ n - 1 \in Nat /\ Taken(x, y, buf[n], n) /\ At(buf, cn, x, n - 1) /\ cn \in BOOLEAN
  BY DEF Onto
<1>1. y.i = n /\ x.s \in UrlStates /\ x.u \in Urls
  BY <1>0, TakenIs
<1>2. x.s \in {"s_req_fragment_start", "s_req_fragment"}
  BY <1>0, UrlFromState
<1>3. FieldOf(y.s) = "UF_FRAGMENT" /\ "UF_FRAGMENT" \in Fields
      /\ {"UF_SCHEMA", "UF_HOST", "UF_PATH", "UF_QUERY"} \subseteq Fields \ {"UF_FRAGMENT"}
  BY DEF FieldOf, Fields
<1>4. CASE x.s = "s_req_fragment_start"
  <2>1. /\ HashesTo(buf, cn, x.u, n - 1) /\ x.old # "UF_FRAGMENT" /\ Lacks(x.u, {"UF_PORT", "UF_USERINFO"})
    BY <1>0, <1>4 DEF At
  <2>2. Opened(x, y, "UF_FRAGMENT", n)
    BY <1>0, <1>3, <2>1, OpenedIs
  <2>3. HashesTo(buf, cn, y.u, n - 1)
    <3>1. Alike(x.u, y.u, {"UF_SCHEMA", "UF_HOST", "UF_PATH", "UF_QUERY"})
      BY <1>3, <2>2 DEF Opened, Alike
    <3> QED  BY <2>1, <3>1, QueryAlike
  <2>4. FragmentFrom(buf, cn, y.u, n)
    BY <1>0, <2>2, <2>3 DEF FragmentFrom, Opened
  <2>5. Lacks(y.u, {"UF_PORT", "UF_USERINFO"}) /\ y.old = "UF_FRAGMENT"
    BY <2>1, <2>2 DEF Opened, Lacks
  <2> QED  BY <1>1, <2>4, <2>5 DEF At, Lacks
<1>5. CASE x.s = "s_req_fragment"
  <2>1. FragmentFrom(buf, cn, x.u, n - 1) /\ Lacks(x.u, {"UF_PORT", "UF_USERINFO"}) /\ x.old = "UF_FRAGMENT"
    BY <1>0, <1>5 DEF At
  <2>2. PICK h \in Nat : HashesTo(buf, cn, x.u, h) /\ Within(x.u, "UF_FRAGMENT", h, n - 1)
    BY <2>1 DEF FragmentFrom
  <2>3. Grown(x, y, "UF_FRAGMENT", h, n)
    BY <1>0, <1>3, <2>1, <2>2, GrownIs
  <2>4. HashesTo(buf, cn, y.u, h)
    <3>1. Alike(x.u, y.u, {"UF_SCHEMA", "UF_HOST", "UF_PATH", "UF_QUERY"})
      BY <1>3, <2>3 DEF Grown, Alike
    <3> QED  BY <2>2, <3>1, QueryAlike
  <2>5. FragmentFrom(buf, cn, y.u, n)
    BY <2>3, <2>4 DEF FragmentFrom, Grown
  <2>6. Lacks(y.u, {"UF_PORT", "UF_USERINFO"}) /\ y.old = "UF_FRAGMENT"
    BY <2>1, <2>3 DEF Grown, Lacks
  <2> QED  BY <1>1, <2>5, <2>6 DEF At, Lacks
<1> QED  BY <1>2, <1>4, <1>5

\* Wherever the first pass has come, the fields are what the characters so far say.
LEMMA ScanAt ==
  ASSUME NEW buf, Len(buf) \in Nat, Len(buf) < UINT16, NEW cn \in BOOLEAN, NEW f, Scanned(f, buf, cn)
  PROVE  \A n \in 0 .. Len(buf) : f[n].s # "s_dead" => At(buf, cn, f[n], n)
<1> DEFINE G == {n \in 0 .. Len(buf) : f[n].s # "s_dead" => At(buf, cn, f[n], n)}
<1>1. 0 \in G
  <2>1. f[0] = ScanStart(cn)
    BY DEF Scanned
  <2>2. f[0].i = 0 /\ f[0].u.set = {} /\ f[0].old = "none"
        /\ f[0].s = IF cn THEN "s_req_server_start" ELSE "s_req_spaces_before_url"
    BY <2>1 DEF ScanStart, url_init
  <2>3. At(buf, cn, f[0], 0)
    BY <2>2 DEF At, Lacks, SchemaTo
  <2> QED  BY <2>3
<1>2. ASSUME NEW m \in 0 .. Len(buf) - 1, m \in G PROVE m + 1 \in G
  <2> DEFINE n == m + 1
  <2>1. n \in 1 .. Len(buf) /\ n \in 0 .. Len(buf) /\ n - 1 = m /\ n \in Nat \ {0} /\ n < UINT16
    BY UrlWidthAssumption
  <2>2. f[m] \in Scans /\ f[n] = UrlStep(f[m], buf[n])
    BY <2>1 DEF Scanned
  <2> HIDE DEF n
  <2> SUFFICES ASSUME f[n].s # "s_dead" PROVE At(buf, cn, f[n], n)
    BY <2>1 DEF n
  <2>3. f[m].s # "s_dead"
    BY <2>2 DEF UrlStep
  <2>4. At(buf, cn, f[m], n - 1)
    BY <1>2, <2>1, <2>3
  <2>5. Onto(buf, cn, f[m], f[n], n)
    BY <2>1, <2>2, <2>4 DEF Onto, Taken, At
  <2>6. f[n].s \in UrlStates /\ f[n].s \notin {"s_dead", "s_req_spaces_before_url"}
    BY <2>5, TakenIs, UrlFromState DEF Onto
  <2> QED  BY <2>5, <2>6, SchemaStep, ServerStep, PathStep, QueryStartStep, QueryStep, FragmentStartStep,
              FragmentStep DEF UrlStates
<1> HIDE DEF G
<1>3. \A n \in 0 .. Len(buf) : n \in G
  BY <1>1, <1>2, UpTo
<1> QED  BY <1>3 DEF G

---------------------------------------------------------------------------
(* The second pass. *)
HostStates == {"s_http_host_dead", "s_http_userinfo_start", "s_http_userinfo", "s_http_host_start", "s_http_host",
               "s_http_host_v6_start", "s_http_host_v6", "s_http_host_v6_end", "s_http_host_v6_zone_start",
               "s_http_host_v6_zone", "s_http_host_port_start", "s_http_host_port"}
HostScans == [s : HostStates, i : Nat, u : Urls]

\* http_parse_host_char knows its states.
LEMMA HostCharTyped ==
  ASSUME NEW s \in HostStates, NEW ch
  PROVE  http_parse_host_char(s, ch) \in HostStates
BY DEF http_parse_host_char, HostStates

\* A host that begins again leaves a URL of the first pass.
LEMMA HostOpenTyped ==
  ASSUME NEW u \in Urls, NEW i \in Nat \ {0}
  PROVE  HostOpen(u, i) \in Urls
<1>1. (i - 1) % UINT16 \in Nat
  BY UrlWidthAssumption
<1>2. More(u, "UF_HOST") \in Urls
  BY OpenTyped DEF Fields
<1> QED  BY <1>1, <1>2 DEF HostOpen, Urls, Fields

\* Which fields a character of the host moves.
HostMoved(x, s, i) ==
  CASE s \in {"s_http_host", "s_http_host_v6"} -> (IF s # x.s THEN HostOpen(x.u, i) ELSE More(x.u, "UF_HOST"))
    [] s \in {"s_http_host_v6_zone_start", "s_http_host_v6_zone"} -> More(x.u, "UF_HOST")
    [] s = "s_http_host_port" -> (IF s # x.s THEN Open(x.u, "UF_PORT", i) ELSE More(x.u, "UF_PORT"))
    [] s = "s_http_userinfo" -> (IF s # x.s THEN Open(x.u, "UF_USERINFO", i) ELSE More(x.u, "UF_USERINFO"))
    [] OTHER -> x.u
\* A step of the second pass, by the field it moves.
LEMMA HostStepIs ==
  ASSUME NEW x, NEW ch, x.s # "s_http_host_dead"
  PROVE  LET s == http_parse_host_char(x.s, ch)
         IN HostStep(x, ch) = [s |-> s, i |-> x.i + 1, u |-> HostMoved(x, s, x.i + 1)]
BY Zenon DEF HostStep, HostMoved

\* A character takes the second pass from one of its states to another.
LEMMA HostStepTyped ==
  ASSUME NEW x \in HostScans, NEW ch
  PROVE  HostStep(x, ch) \in HostScans
<1>1. CASE x.s = "s_http_host_dead"
  BY <1>1 DEF HostStep
<1>2. CASE x.s # "s_http_host_dead"
  <2> DEFINE s == http_parse_host_char(x.s, ch)
             i == x.i + 1
  <2>1. s \in HostStates /\ i \in Nat \ {0} /\ x.u \in Urls
    BY HostCharTyped DEF HostScans
  <2> HIDE DEF s, i
  <2>2. HostOpen(x.u, i) \in Urls /\ \A f \in Fields : Open(x.u, f, i) \in Urls /\ More(x.u, f) \in Urls
    BY <2>1, HostOpenTyped, OpenTyped
  <2>3. HostMoved(x, s, i) \in Urls
    BY <2>1, <2>2 DEF HostMoved, Fields
  <2>4. HostStep(x, ch) = [s |-> s, i |-> i, u |-> HostMoved(x, s, i)]
    BY <1>2, HostStepIs DEF s, i
  <2> QED  BY <2>1, <2>3, <2>4 DEF HostScans
<1> QED  BY <1>1, <1>2

\* The second pass starts in one of its states.
LEMMA HostStartTyped ==
  ASSUME NEW r \in Urls, NEW found_at
  PROVE  HostStart(r, found_at) \in HostScans
<1>1. [r EXCEPT !.len["UF_HOST"] = 0] \in Urls /\ r.off["UF_HOST"] \in Nat
  BY DEF Urls, Fields
<1> QED  BY <1>1 DEF HostStart, HostScans, HostStates

HostScanned(g, buf, r, found_at) ==
  LET from == r.off["UF_HOST"]
      m == r.len["UF_HOST"]
  IN /\ g \in [0 .. m -> HostScans] /\ g[0] = HostStart(r, found_at)
     /\ \A n \in 1 .. m : g[n] = HostStep(g[n - 1], buf[from + n])
\* The second pass ends with what its steps make of its start.
LEMMA HostScanIs ==
  ASSUME NEW buf, NEW r \in Urls, NEW found_at
  PROVE  \E g : HostScanned(g, buf, r, found_at) /\ http_parse_host(buf, r, found_at) = g[r.len["UF_HOST"]]
<1> DEFINE from == r.off["UF_HOST"]
           m == r.len["UF_HOST"]
           d == HostStart(r, found_at)
           Eqn(f) == f = [n \in 0 .. m |-> IF n = 0 THEN d ELSE HostStep(f[n - 1], buf[from + n])]
           scan == CHOOSE f : Eqn(f)
           F == [q \in (1 .. m) \X HostScans |-> HostStep(q[2], buf[from + q[1]])]
<1>1. m \in Nat /\ d \in HostScans
  BY HostStartTyped DEF Urls, Fields
<1>2. \A n \in 1 .. m : \A x \in HostScans : F[<<n, x>>] = HostStep(x, buf[from + n]) /\ HostStep(x, buf[from + n]) \in HostScans
  <2>1. \A n \in 1 .. m : \A x \in HostScans : HostStep(x, buf[from + n]) \in HostScans
    BY HostStepTyped
  <2> QED  BY <2>1
<1> HIDE DEF F, m, d
<1>3. PICK f : Loop(f, m, HostScans, d, F)
  <2>1. Step(F, m, HostScans)
    BY <1>2 DEF Step
  <2> QED  BY <1>1, <2>1, LoopExists
<1>4. f \in [0 .. m -> HostScans] /\ f[0] = d /\ \A n \in 1 .. m : f[n] = HostStep(f[n - 1], buf[from + n])
  <2>1. \A n \in 1 .. m : n - 1 \in 0 .. m
    BY <1>1
  <2> QED  BY <1>2, <1>3, <2>1 DEF Loop
<1>5. Eqn(f)
  BY <1>4
<1>6. Eqn(scan)
  BY <1>5
<1> HIDE DEF scan
<1>7. \A n \in 0 .. m : scan[n] = IF n = 0 THEN d ELSE HostStep(scan[n - 1], buf[from + n])
  BY <1>6, Zenon
<1>8. \A n \in 0 .. m : scan[n] = f[n]
  <2>1. scan[0] = d
    BY <1>1, <1>7
  <2>2. \A n \in 1 .. m : scan[n - 1] \in HostScans => scan[n] = F[<<n, scan[n - 1]>>]
    BY <1>1, <1>2, <1>7
  <2>3. Follows(scan, m, HostScans, d, F)
    BY <2>1, <2>2 DEF Follows
  <2> QED  BY <1>1, <1>3, <2>3, LoopUnique
<1>9. http_parse_host(buf, r, found_at) = scan[m]
  BY DEF http_parse_host, scan, m, d
<1>10. scan[m] = f[m]
  BY <1>1, <1>8
<1>11. HostScanned(f, buf, r, found_at)
  BY <1>4 DEF HostScanned, m, d
<1> QED  BY <1>9, <1>10, <1>11 DEF m

HostTaken(x, y, ch, p) ==
  /\ x \in HostScans /\ p \in Nat \ {0} /\ p < UINT16 /\ x.i = p - 1
  /\ y = HostStep(x, ch) /\ y.s # "s_http_host_dead"
\* A character that is taken moves the part of the host of its state.
LEMMA HostTakenIs ==
  ASSUME NEW x, NEW y, NEW ch, NEW p, HostTaken(x, y, ch, p)
  PROVE  /\ y.s = http_parse_host_char(x.s, ch) /\ y.i = p /\ x.s \in HostStates /\ y.s \in HostStates
         /\ x.u \in Urls /\ y.u = HostMoved(x, y.s, p)
<1> DEFINE s == http_parse_host_char(x.s, ch)
           v == HostMoved(x, s, p)
<1>1. x.s \in HostStates /\ x.i \in Nat /\ x.u \in Urls /\ x.i + 1 = p /\ y = HostStep(x, ch)
  BY DEF HostTaken, HostScans
<1>2. x.s # "s_http_host_dead"
  BY DEF HostTaken, HostStep
<1>3. s \in HostStates
  BY <1>1, HostCharTyped
<1>4. y = [s |-> s, i |-> p, u |-> v]
  BY <1>1, <1>2, HostStepIs
<1> HIDE DEF v, s
<1>5. y.s = s /\ y.i = p /\ y.u = v
  BY <1>4
<1> QED  BY <1>1, <1>3, <1>5 DEF s, v

\* Which states of the second pass a state is reached from, and by which characters.
LEMMA HostFromState ==
  ASSUME NEW x, NEW y, NEW ch, NEW p, HostTaken(x, y, ch, p)
  PROVE  /\ y.s \notin {"s_http_userinfo_start", "s_http_host_dead"}
         /\ y.s = "s_http_userinfo" => x.s \in {"s_http_userinfo_start", "s_http_userinfo"}
         /\ y.s = "s_http_host_start" => x.s \in {"s_http_userinfo_start", "s_http_userinfo"} /\ ch = "@"
         /\ y.s = "s_http_host" => x.s \in {"s_http_host_start", "s_http_host"}
         /\ y.s = "s_http_host_v6_start" => x.s = "s_http_host_start" /\ ch = "["
         /\ y.s = "s_http_host_v6" => x.s \in {"s_http_host_v6_start", "s_http_host_v6"}
         /\ y.s = "s_http_host_v6_zone_start" => x.s = "s_http_host_v6"
         /\ y.s = "s_http_host_v6_zone" => x.s \in {"s_http_host_v6_zone_start", "s_http_host_v6_zone"}
         /\ y.s = "s_http_host_v6_end" => x.s \in {"s_http_host_v6", "s_http_host_v6_zone"} /\ ch = "]"
         /\ y.s = "s_http_host_port_start" => x.s \in {"s_http_host", "s_http_host_v6_end"} /\ ch = ":"
         /\ y.s = "s_http_host_port" => x.s \in {"s_http_host_port_start", "s_http_host_port"} /\ IsNum(ch)
<1>1. x.s \in HostStates /\ y.s = http_parse_host_char(x.s, ch) /\ y.s # "s_http_host_dead"
  <2>1. y.s # "s_http_host_dead"
    BY DEF HostTaken
  <2> QED  BY <2>1, HostTakenIs
<1> QED  BY <1>1 DEF HostStates, http_parse_host_char

\* What the characters of the host field up to one have been divided into: the
\* userinfo, the host, which may be in brackets, and the port.
UserTo(buf, u, b, c) ==
  \/ Within(u, "UF_USERINFO", b, c - 1) /\ buf[c] = "@"
  \/ "UF_USERINFO" \notin u.set /\ (c = b \/ (c = b + 1 /\ buf[c] = "@"))
PlainTo(buf, u, b, x) == \E c \in Nat : UserTo(buf, u, b, c) /\ Within(u, "UF_HOST", c, x)
OpenTo(buf, u, b, x) ==
  \E c \in Nat : UserTo(buf, u, b, c) /\ buf[c + 1] = "[" /\ Within(u, "UF_HOST", c + 1, x)
HostTo(buf, u, b, x) == PlainTo(buf, u, b, x) \/ (x > 0 /\ OpenTo(buf, u, b, x - 1) /\ buf[x] = "]")
PortTo(buf, u, b, p) ==
  \E x \in Nat : /\ HostTo(buf, u, b, x) /\ buf[x + 1] = ":" /\ Within(u, "UF_PORT", x + 1, p)
                 /\ \A k \in x + 2 .. p : IsNum(buf[k])

HostPart(buf, b, x, p) ==
  LET s == x.s
      u == x.u
      Empty == u.len["UF_HOST"] = 0
      NoPort == "UF_PORT" \notin u.set
  IN /\ s = "s_http_userinfo_start" => p = b /\ "UF_USERINFO" \notin u.set /\ Empty /\ NoPort
     /\ s = "s_http_userinfo" => Within(u, "UF_USERINFO", b, p) /\ Empty /\ NoPort
     /\ s = "s_http_host_start" => UserTo(buf, u, b, p) /\ Empty /\ NoPort
     /\ s = "s_http_host" => PlainTo(buf, u, b, p) /\ NoPort
     /\ s = "s_http_host_v6_start" => p > 0 /\ UserTo(buf, u, b, p - 1) /\ buf[p] = "[" /\ Empty /\ NoPort
     /\ s \in {"s_http_host_v6", "s_http_host_v6_zone_start", "s_http_host_v6_zone"} =>
          OpenTo(buf, u, b, p) /\ NoPort
     /\ s = "s_http_host_v6_end" => HostTo(buf, u, b, p) /\ NoPort
     /\ s = "s_http_host_port_start" => p > 0 /\ HostTo(buf, u, b, p - 1) /\ buf[p] = ":" /\ NoPort
     /\ s = "s_http_host_port" => PortTo(buf, u, b, p)
\* A change of one field; the fields the second pass never touches.
Spares(u, v, f) == Alike(u, v, Fields \ {f})
Keeps(r, u) == "UF_HOST" \in u.set /\ Alike(r, u, Fields \ {"UF_HOST", "UF_PORT", "UF_USERINFO"})
HostAt(buf, r, b, x, p) ==
  /\ x.i = p /\ Keeps(r, x.u)
  /\ HostPart(buf, b, x, p)

\* What the first character of the host does; another one, and the other parts,
\* are as in the first pass.
LEMMA HostOpenIs ==
  ASSUME NEW u \in Urls, NEW p \in Nat \ {0}, p < UINT16, u.len["UF_HOST"] = 0, "UF_HOST" \in u.set
  PROVE  /\ HostOpen(u, p).set = u.set /\ Spares(u, HostOpen(u, p), "UF_HOST")
         /\ Within(HostOpen(u, p), "UF_HOST", p - 1, p)
<1>1. (p - 1) % UINT16 = p - 1 /\ p - (p - 1) = 1 /\ (0 + 1) % UINT16 = 1 /\ p - 1 < p
  BY UrlWidthAssumption
<1>2. u.set \in SUBSET Fields /\ u.off \in [Fields -> Nat] /\ u.len \in [Fields -> Nat] /\ "UF_HOST" \in Fields
  BY DEF Urls, Fields
<1>3. /\ More(u, "UF_HOST").set = u.set /\ More(u, "UF_HOST").off = u.off
      /\ More(u, "UF_HOST").len = [u.len EXCEPT !["UF_HOST"] = 1]
      /\ More(u, "UF_HOST") \in Urls
  <2>1. More(u, "UF_HOST") \in Urls
    BY <1>2, OpenTyped
  <2> QED  BY <1>1, <2>1 DEF More, Urls
<1>4. /\ HostOpen(u, p).set = u.set /\ HostOpen(u, p).off = [u.off EXCEPT !["UF_HOST"] = p - 1]
      /\ HostOpen(u, p).len = [u.len EXCEPT !["UF_HOST"] = 1]
  BY <1>1, <1>3 DEF HostOpen, Urls
<1> QED  BY <1>1, <1>2, <1>4 DEF Spares, Alike, Within

\* Another part of the host begins.
LEMMA PartOpenIs ==
  ASSUME NEW u \in Urls, NEW f \in Fields, NEW p \in Nat \ {0}, p < UINT16
  PROVE  /\ Open(u, f, p).set = u.set \cup {f} /\ Spares(u, Open(u, f, p), f)
         /\ Within(Open(u, f, p), f, p - 1, p)
<1>1. /\ Open(u, f, p).set = u.set \cup {f} /\ Within(Open(u, f, p), f, p - 1, p)
      /\ \A g \in Fields \ {f} : Open(u, f, p).off[g] = u.off[g] /\ Open(u, f, p).len[g] = u.len[g]
  BY OpenIs
<1> QED  BY <1>1 DEF Spares, Alike

\* A part of the host goes on.
LEMMA PartMoreIs ==
  ASSUME NEW u \in Urls, NEW f \in Fields, NEW p \in Nat \ {0}, p < UINT16, NEW a \in Nat, Within(u, f, a, p - 1)
  PROVE  /\ More(u, f).set = u.set /\ Spares(u, More(u, f), f) /\ Within(More(u, f), f, a, p)
<1>1. p - 1 \in Nat /\ (p - 1) + 1 = p
  OBVIOUS
<1>2. /\ More(u, f).set = u.set /\ Within(More(u, f), f, a, p)
      /\ \A g \in Fields \ {f} : More(u, f).off[g] = u.off[g] /\ More(u, f).len[g] = u.len[g]
  BY <1>1, MoreIs
<1> QED  BY <1>2 DEF Spares, Alike

\* Where the userinfo ends rests on the userinfo only.
LEMMA UserAlike ==
  ASSUME NEW buf, NEW b, NEW u, NEW v, Alike(u, v, {"UF_USERINFO"})
  PROVE  \A c : UserTo(buf, u, b, c) => UserTo(buf, v, b, c)
BY DEF Alike, UserTo, Within

\* Where the host itself ends rests on the userinfo and the host only.
LEMMA HostToAlike ==
  ASSUME NEW buf, NEW b, NEW u, NEW v, Alike(u, v, {"UF_USERINFO", "UF_HOST"})
  PROVE  \A x : HostTo(buf, u, b, x) => HostTo(buf, v, b, x)
<1>1. \A c : UserTo(buf, u, b, c) => UserTo(buf, v, b, c)
  BY UserAlike DEF Alike
<1>2. \A c, x : Within(u, "UF_HOST", c, x) => Within(v, "UF_HOST", c, x)
  BY DEF Alike, Within
<1>3. \A x : PlainTo(buf, u, b, x) => PlainTo(buf, v, b, x)
  BY <1>1, <1>2 DEF PlainTo
<1>4. \A x : OpenTo(buf, u, b, x) => OpenTo(buf, v, b, x)
  BY <1>1, <1>2 DEF OpenTo
<1> QED  BY <1>3, <1>4 DEF HostTo

HostOnto(buf, r, b, x, y, p) ==
  /\ b \in Nat /\ p \in Nat \ {0} /\ p < UINT16 /\ HostTaken(x, y, buf[p], p) /\ HostAt(buf, r, b, x, p - 1)

\* The parts that a part of the host leaves alone, and with them the other fields.
LEMMA KeepsOn ==
  ASSUME NEW r, NEW u, NEW v, NEW f \in {"UF_HOST", "UF_PORT", "UF_USERINFO"},
         Keeps(r, u), Spares(u, v, f), u.set \subseteq v.set
  PROVE  Keeps(r, v)
<1>1. \A g \in Fields \ {"UF_HOST", "UF_PORT", "UF_USERINFO"} : g \in Fields \ {f}
  OBVIOUS
<1>2. "UF_HOST" \in v.set
  BY DEF Keeps
<1> QED  BY <1>1, <1>2 DEF Keeps, Spares, Alike

\* The characters that leave the fields as they are.
LEMMA DelimiterStep ==
  ASSUME NEW buf, NEW r, NEW b, NEW x, NEW y, NEW p, HostOnto(buf, r, b, x, y, p),
         y.s \in {"s_http_host_start", "s_http_host_v6_start", "s_http_host_v6_end", "s_http_host_port_start"}
  PROVE  HostAt(buf, r, b, y, p)
<1>0. b \in Nat /\ p \in Nat \ {0} /\ p - 1 \in Nat /\ p > 0 /\ HostTaken(x, y, buf[p], p)
      /\ HostPart(buf, b, x, p - 1)
  BY DEF HostOnto, HostAt
<1>1. y.i = p /\ y.u = x.u
  <2>1. y.i = p /\ y.u = HostMoved(x, y.s, p)
    BY <1>0, HostTakenIs
  <2> QED  BY <2>1 DEF HostMoved
<1>2. Keeps(r, x.u)
  BY DEF HostOnto, HostAt
<1>3. HostPart(buf, b, y, p)
  <2>1. CASE y.s = "s_http_host_start"
    <3>1. x.s \in {"s_http_userinfo_start", "s_http_userinfo"} /\ buf[p] = "@"
      BY <1>0, <2>1, HostFromState
    <3>2. UserTo(buf, x.u, b, p) /\ x.u.len["UF_HOST"] = 0 /\ "UF_PORT" \notin x.u.set
      <4>1. CASE x.s = "s_http_userinfo_start"
        <5>1. p - 1 = b /\ "UF_USERINFO" \notin x.u.set /\ x.u.len["UF_HOST"] = 0 /\ "UF_PORT" \notin x.u.set
          BY <1>0, <4>1 DEF HostPart
        <5>2. p = b + 1
          BY <1>0, <5>1
        <5> QED  BY <3>1, <5>1, <5>2 DEF UserTo
      <4>2. CASE x.s = "s_http_userinfo"
        BY <1>0, <3>1, <4>2 DEF HostPart, UserTo
      <4> QED  BY <3>1, <4>1, <4>2
    <3> QED  BY <1>1, <2>1, <3>2 DEF HostPart
  <2>2. CASE y.s = "s_http_host_v6_start"
    <3>1. x.s = "s_http_host_start" /\ buf[p] = "["
      BY <1>0, <2>2, HostFromState
    <3> QED  BY <1>0, <1>1, <2>2, <3>1 DEF HostPart
  <2>3. CASE y.s = "s_http_host_v6_end"
    <3>1. x.s \in {"s_http_host_v6", "s_http_host_v6_zone"} /\ buf[p] = "]"
      BY <1>0, <2>3, HostFromState
    <3>2. OpenTo(buf, x.u, b, p - 1) /\ "UF_PORT" \notin x.u.set
      BY <1>0, <3>1 DEF HostPart
    <3>3. HostTo(buf, x.u, b, p)
      BY <1>0, <3>1, <3>2 DEF HostTo
    <3> QED  BY <1>1, <2>3, <3>2, <3>3 DEF HostPart
  <2>4. CASE y.s = "s_http_host_port_start"
    <3>1. x.s \in {"s_http_host", "s_http_host_v6_end"} /\ buf[p] = ":"
      BY <1>0, <2>4, HostFromState
    <3>2. HostTo(buf, x.u, b, p - 1) /\ "UF_PORT" \notin x.u.set
      BY <1>0, <3>1 DEF HostPart, HostTo
    <3> QED  BY <1>0, <1>1, <2>4, <3>1, <3>2 DEF HostPart
  <2> QED  BY <2>1, <2>2, <2>3, <2>4
<1> QED  BY <1>1, <1>2, <1>3 DEF HostAt

\* The division of the host field goes on into the userinfo.
LEMMA UserinfoStep ==
  ASSUME NEW buf, NEW r, NEW b, NEW x, NEW y, NEW p, HostOnto(buf, r, b, x, y, p), y.s = "s_http_userinfo"
  PROVE  HostAt(buf, r, b, y, p)
<1>0. b \in Nat /\ p \in Nat \ {0} /\ p < UINT16 /\ HostTaken(x, y, buf[p], p) /\ HostPart(buf, b, x, p - 1)
  BY DEF HostOnto, HostAt
<1>1. y.i = p /\ x.u \in Urls /\ "UF_USERINFO" \in Fields
      /\ y.u = IF y.s # x.s THEN Open(x.u, "UF_USERINFO", p) ELSE More(x.u, "UF_USERINFO")
  <2>1. y.i = p /\ x.u \in Urls /\ y.u = HostMoved(x, y.s, p)
    BY <1>0, HostTakenIs
  <2> QED  BY <2>1 DEF HostMoved, Fields
<1>2. Keeps(r, x.u)
  BY DEF HostOnto, HostAt
<1>3. x.s \in {"s_http_userinfo_start", "s_http_userinfo"}
  BY <1>0, HostFromState
<1>4. x.u.len["UF_HOST"] = 0 /\ "UF_PORT" \notin x.u.set
  BY <1>0, <1>3 DEF HostPart
<1>5. /\ x.u.set \subseteq y.u.set /\ "UF_PORT" \notin y.u.set /\ Spares(x.u, y.u, "UF_USERINFO")
      /\ Within(y.u, "UF_USERINFO", b, p)
  <2>1. CASE x.s = "s_http_userinfo_start"
    <3>1. p - 1 = b /\ y.u = Open(x.u, "UF_USERINFO", p)
      BY <1>0, <1>1, <2>1 DEF HostPart
    <3>2. y.u.set = x.u.set \cup {"UF_USERINFO"} /\ Spares(x.u, y.u, "UF_USERINFO")
          /\ Within(y.u, "UF_USERINFO", p - 1, p)
      BY <1>0, <1>1, <3>1, PartOpenIs
    <3> QED  BY <1>4, <3>1, <3>2
  <2>2. CASE x.s = "s_http_userinfo"
    <3>1. Within(x.u, "UF_USERINFO", b, p - 1) /\ y.u = More(x.u, "UF_USERINFO")
      BY <1>0, <1>1, <2>2 DEF HostPart
    <3>2. y.u.set = x.u.set /\ Spares(x.u, y.u, "UF_USERINFO") /\ Within(y.u, "UF_USERINFO", b, p)
      BY <1>0, <1>1, <3>1, PartMoreIs
    <3> QED  BY <1>4, <3>2
  <2> QED  BY <1>3, <2>1, <2>2
<1>6. y.u.len["UF_HOST"] = 0
  BY <1>4, <1>5 DEF Spares, Alike, Fields
<1>7. Keeps(r, y.u)
  BY <1>2, <1>5, KeepsOn
<1> QED  BY <1>1, <1>5, <1>6, <1>7 DEF HostAt, HostPart

\* It goes on into the host itself, in brackets or not.
LEMMA HostNameStep ==
  ASSUME NEW buf, NEW r, NEW b, NEW x, NEW y, NEW p, HostOnto(buf, r, b, x, y, p),
         y.s \in {"s_http_host", "s_http_host_v6", "s_http_host_v6_zone_start", "s_http_host_v6_zone"}
  PROVE  HostAt(buf, r, b, y, p)
<1>0. b \in Nat /\ p \in Nat \ {0} /\ p - 1 \in Nat /\ p < UINT16 /\ HostTaken(x, y, buf[p], p)
      /\ HostPart(buf, b, x, p - 1)
  BY DEF HostOnto, HostAt
<1>1. y.i = p /\ x.u \in Urls /\ "UF_HOST" \in Fields
  BY <1>0, HostTakenIs DEF Fields
<1>11. /\ (y.s = "s_http_host" \/ y.s = "s_http_host_v6") /\ y.s # x.s => y.u = HostOpen(x.u, p)
       /\ (y.s = "s_http_host" \/ y.s = "s_http_host_v6") /\ y.s = x.s => y.u = More(x.u, "UF_HOST")
       /\ y.s = "s_http_host_v6_zone_start" \/ y.s = "s_http_host_v6_zone" => y.u = More(x.u, "UF_HOST")
  <2>1. y.u = HostMoved(x, y.s, p)
    BY <1>0, HostTakenIs
  <2>2. CASE y.s = "s_http_host" \/ y.s = "s_http_host_v6"
    <3>1. y.u = IF y.s # x.s THEN HostOpen(x.u, p) ELSE More(x.u, "UF_HOST")
      BY <2>1, <2>2 DEF HostMoved
    <3> QED  BY <2>2, <3>1
  <2>3. CASE y.s = "s_http_host_v6_zone_start" \/ y.s = "s_http_host_v6_zone"
    BY <2>1, <2>3 DEF HostMoved
  <2> QED  BY <2>2, <2>3
<1>2. Keeps(r, x.u)
  BY DEF HostOnto, HostAt
<1>3. /\ x.s \in {"s_http_host_start", "s_http_host_v6_start"} =>
             /\ y.s = IF x.s = "s_http_host_start" THEN "s_http_host" ELSE "s_http_host_v6"
             /\ x.u.len["UF_HOST"] = 0
      /\ x.s \notin {"s_http_host_start", "s_http_host_v6_start"} =>
             /\ y.s = "s_http_host" => x.s = "s_http_host"
             /\ y.s = "s_http_host_v6" => x.s = "s_http_host_v6"
             /\ y.s # "s_http_host" => x.s \in {"s_http_host_v6", "s_http_host_v6_zone_start", "s_http_host_v6_zone"}
  <2>1. /\ y.s = "s_http_host" => x.s \in {"s_http_host_start", "s_http_host"}
        /\ y.s = "s_http_host_v6" => x.s \in {"s_http_host_v6_start", "s_http_host_v6"}
        /\ y.s = "s_http_host_v6_zone_start" => x.s = "s_http_host_v6"
        /\ y.s = "s_http_host_v6_zone" => x.s \in {"s_http_host_v6_zone_start", "s_http_host_v6_zone"}
    BY <1>0, HostFromState
  <2>2. x.s \in {"s_http_host_start", "s_http_host_v6_start"} => x.u.len["UF_HOST"] = 0
    BY <1>0 DEF HostPart
  <2> QED  BY <2>1, <2>2
<1>4. x.s \in {"s_http_host_start", "s_http_host_v6_start"} =>
        /\ y.u.set = x.u.set /\ Spares(x.u, y.u, "UF_HOST")
        /\ Within(y.u, "UF_HOST", p - 1, p)
  <2> SUFFICES ASSUME x.s \in {"s_http_host_start", "s_http_host_v6_start"}
               PROVE  /\ y.u.set = x.u.set /\ Spares(x.u, y.u, "UF_HOST")
                      /\ Within(y.u, "UF_HOST", p - 1, p)
    OBVIOUS
  <2>1. y.u = HostOpen(x.u, p) /\ x.u.len["UF_HOST"] = 0
    BY <1>11, <1>3
  <2>2. "UF_HOST" \in x.u.set
    BY <1>2 DEF Keeps
  <2> QED  BY <1>0, <1>1, <2>2, <2>1, HostOpenIs
<1>5. ASSUME x.s \notin {"s_http_host_start", "s_http_host_v6_start"}, NEW a \in Nat, Within(x.u, "UF_HOST", a, p - 1)
      PROVE  /\ y.u.set = x.u.set /\ Spares(x.u, y.u, "UF_HOST")
             /\ Within(y.u, "UF_HOST", a, p)
  <2>1. y.u = More(x.u, "UF_HOST")
    BY <1>11, <1>3, <1>5
  <2> QED  BY <1>0, <1>1, <1>5, <2>1, PartMoreIs
<1>6. ASSUME y.u.set = x.u.set, Spares(x.u, y.u, "UF_HOST")
      PROVE  /\ Keeps(r, y.u)
             /\ \A c : UserTo(buf, x.u, b, c) => UserTo(buf, y.u, b, c)
  <2>1. Keeps(r, y.u)
    BY <1>2, <1>6, KeepsOn
  <2>2. Alike(x.u, y.u, {"UF_USERINFO"})
    BY <1>6 DEF Spares, Alike, Fields
  <2> QED  BY <2>1, <2>2, UserAlike
<1>7. CASE x.s = "s_http_host_start"
  <2>1. UserTo(buf, x.u, b, p - 1) /\ "UF_PORT" \notin x.u.set
    BY <1>0, <1>7 DEF HostPart
  <2>2. y.u.set = x.u.set /\ Spares(x.u, y.u, "UF_HOST") /\ Within(y.u, "UF_HOST", p - 1, p)
        /\ y.s = "s_http_host"
    BY <1>3, <1>4, <1>7
  <2>3. PlainTo(buf, y.u, b, p)
    BY <1>0, <1>6, <2>1, <2>2 DEF PlainTo
  <2>4. HostPart(buf, b, y, p)
    BY <2>1, <2>2, <2>3 DEF HostPart
  <2> QED  BY <1>1, <1>6, <2>2, <2>4 DEF HostAt
<1>8. CASE x.s = "s_http_host_v6_start"
  <2>1. p - 1 > 0 /\ UserTo(buf, x.u, b, (p - 1) - 1) /\ buf[p - 1] = "[" /\ "UF_PORT" \notin x.u.set
    BY <1>0, <1>8 DEF HostPart
  <2>2. y.u.set = x.u.set /\ Spares(x.u, y.u, "UF_HOST") /\ Within(y.u, "UF_HOST", p - 1, p)
        /\ y.s = "s_http_host_v6"
    BY <1>3, <1>4, <1>8
  <2>3. (p - 1) - 1 \in Nat /\ ((p - 1) - 1) + 1 = p - 1
    BY <1>0, <2>1
  <2>4. UserTo(buf, y.u, b, (p - 1) - 1)
    BY <1>6, <2>1, <2>2
  <2>5. OpenTo(buf, y.u, b, p)
    BY <2>1, <2>2, <2>3, <2>4 DEF OpenTo
  <2>6. HostPart(buf, b, y, p)
    BY <2>1, <2>2, <2>5 DEF HostPart
  <2> QED  BY <1>1, <1>6, <2>2, <2>6 DEF HostAt
<1>9. CASE x.s \notin {"s_http_host_start", "s_http_host_v6_start"} /\ y.s = "s_http_host"
  <2>1. PlainTo(buf, x.u, b, p - 1) /\ "UF_PORT" \notin x.u.set
    BY <1>0, <1>3, <1>9 DEF HostPart
  <2>2. PICK c \in Nat : UserTo(buf, x.u, b, c) /\ Within(x.u, "UF_HOST", c, p - 1)
    BY <2>1 DEF PlainTo
  <2>3. y.u.set = x.u.set /\ Spares(x.u, y.u, "UF_HOST") /\ Within(y.u, "UF_HOST", c, p)
    BY <1>5, <1>9, <2>2
  <2>4. PlainTo(buf, y.u, b, p)
    BY <1>6, <2>2, <2>3 DEF PlainTo
  <2>5. HostPart(buf, b, y, p)
    BY <1>9, <2>1, <2>3, <2>4 DEF HostPart
  <2> QED  BY <1>1, <1>6, <2>3, <2>5 DEF HostAt
<1>10. CASE x.s \notin {"s_http_host_start", "s_http_host_v6_start"} /\ y.s # "s_http_host"
  <2>1. OpenTo(buf, x.u, b, p - 1) /\ "UF_PORT" \notin x.u.set
    BY <1>0, <1>3, <1>10 DEF HostPart
  <2>2. PICK c \in Nat : UserTo(buf, x.u, b, c) /\ buf[c + 1] = "[" /\ Within(x.u, "UF_HOST", c + 1, p - 1)
                     /\ c + 1 \in Nat
    BY <2>1 DEF OpenTo
  <2>3. y.u.set = x.u.set /\ Spares(x.u, y.u, "UF_HOST") /\ Within(y.u, "UF_HOST", c + 1, p)
    BY <1>5, <1>10, <2>2
  <2>4. OpenTo(buf, y.u, b, p)
    BY <1>6, <2>2, <2>3 DEF OpenTo
  <2>5. HostPart(buf, b, y, p)
    BY <1>10, <2>1, <2>3, <2>4 DEF HostPart
  <2> QED  BY <1>1, <1>6, <2>3, <2>5 DEF HostAt
<1> QED  BY <1>7, <1>8, <1>9, <1>10

\* It goes on into the port, which has digits only.
LEMMA PortNumberStep ==
  ASSUME NEW buf, NEW r, NEW b, NEW x, NEW y, NEW p, HostOnto(buf, r, b, x, y, p), y.s = "s_http_host_port"
  PROVE  HostAt(buf, r, b, y, p)
<1>0. b \in Nat /\ p \in Nat \ {0} /\ p < UINT16 /\ HostTaken(x, y, buf[p], p) /\ HostPart(buf, b, x, p - 1)
  BY DEF HostOnto, HostAt
<1>1. y.i = p /\ x.u \in Urls /\ "UF_PORT" \in Fields
      /\ y.u = IF y.s # x.s THEN Open(x.u, "UF_PORT", p) ELSE More(x.u, "UF_PORT")
  <2>1. y.i = p /\ x.u \in Urls /\ y.u = HostMoved(x, y.s, p)
    BY <1>0, HostTakenIs
  <2> QED  BY <2>1 DEF HostMoved, Fields
<1>2. Keeps(r, x.u)
  BY DEF HostOnto, HostAt
<1>3. x.s \in {"s_http_host_port_start", "s_http_host_port"} /\ IsNum(buf[p])
  BY <1>0, HostFromState
<1>4. \E q \in Nat : /\ HostTo(buf, x.u, b, q) /\ buf[q + 1] = ":" /\ Within(y.u, "UF_PORT", q + 1, p)
                     /\ \A k \in q + 2 .. p : IsNum(buf[k])
                     /\ x.u.set \subseteq y.u.set /\ Spares(x.u, y.u, "UF_PORT")
  <2>1. CASE x.s = "s_http_host_port_start"
    <3>1. /\ p - 1 > 0 /\ HostTo(buf, x.u, b, (p - 1) - 1) /\ buf[p - 1] = ":" /\ y.u = Open(x.u, "UF_PORT", p)
      BY <1>0, <1>1, <2>1 DEF HostPart
    <3>2. y.u.set = x.u.set \cup {"UF_PORT"} /\ Spares(x.u, y.u, "UF_PORT") /\ Within(y.u, "UF_PORT", p - 1, p)
      BY <1>0, <1>1, <3>1, PartOpenIs
    <3> DEFINE q == (p - 1) - 1
    <3>3. q \in Nat /\ q + 1 = p - 1 /\ \A k \in q + 2 .. p : k = p
      BY <1>0, <3>1
    <3> HIDE DEF q
    <3>4. HostTo(buf, x.u, b, q)
      BY <3>1 DEF q
    <3> QED  BY <1>3, <3>1, <3>2, <3>3, <3>4
  <2>2. CASE x.s = "s_http_host_port"
    <3>1. PortTo(buf, x.u, b, p - 1) /\ y.u = More(x.u, "UF_PORT")
      BY <1>0, <1>1, <2>2 DEF HostPart
    <3>2. PICK q \in Nat : /\ HostTo(buf, x.u, b, q) /\ buf[q + 1] = ":" /\ Within(x.u, "UF_PORT", q + 1, p - 1)
                           /\ q + 1 \in Nat /\ \A k \in q + 2 .. p - 1 : IsNum(buf[k])
      BY <3>1 DEF PortTo
    <3>3. y.u.set = x.u.set /\ Spares(x.u, y.u, "UF_PORT") /\ Within(y.u, "UF_PORT", q + 1, p)
      BY <1>0, <1>1, <3>1, <3>2, PartMoreIs
    <3>4. \A k \in q + 2 .. p : k = p \/ k \in q + 2 .. p - 1
      BY <1>0
    <3> QED  BY <1>3, <3>2, <3>3, <3>4
  <2> QED  BY <1>3, <2>1, <2>2
<1>5. PICK q \in Nat : /\ HostTo(buf, x.u, b, q) /\ buf[q + 1] = ":" /\ Within(y.u, "UF_PORT", q + 1, p)
                       /\ \A k \in q + 2 .. p : IsNum(buf[k])
                       /\ x.u.set \subseteq y.u.set /\ Spares(x.u, y.u, "UF_PORT")
  BY <1>4
<1>6. Keeps(r, y.u)
  BY <1>2, <1>5, KeepsOn
<1>7. HostTo(buf, y.u, b, q)
  <2>1. Alike(x.u, y.u, {"UF_USERINFO", "UF_HOST"})
    BY <1>5 DEF Spares, Alike, Fields
  <2> QED  BY <1>5, <2>1, HostToAlike
<1>8. PortTo(buf, y.u, b, p)
  BY <1>5, <1>7 DEF PortTo
<1> QED  BY <1>1, <1>6, <1>8 DEF HostAt, HostPart

\* Wherever the second pass has come, the host's characters are divided so.
LEMMA HostScanAt ==
  ASSUME NEW buf, NEW r \in Urls, NEW found_at, NEW g, HostScanned(g, buf, r, found_at),
         r.off["UF_HOST"] + r.len["UF_HOST"] < UINT16, "UF_HOST" \in r.set, Lacks(r, {"UF_PORT", "UF_USERINFO"})
  PROVE  \A n \in 0 .. r.len["UF_HOST"] : g[n].s # "s_http_host_dead" =>
           HostAt(buf, r, r.off["UF_HOST"], g[n], r.off["UF_HOST"] + n)
<1> DEFINE b == r.off["UF_HOST"]
           m == r.len["UF_HOST"]
           G == {n \in 0 .. m : g[n].s # "s_http_host_dead" => HostAt(buf, r, b, g[n], b + n)}
<1>0. b \in Nat /\ m \in Nat
  BY DEF Urls, Fields
<1>1. 0 \in G
  <2>1. g[0] = HostStart(r, found_at)
    BY DEF HostScanned
  <2> DEFINE v == [r EXCEPT !.len["UF_HOST"] = 0]
  <2>2. v.set = r.set /\ v.len["UF_HOST"] = 0 /\ Keeps(r, v)
    BY DEF Urls, Keeps, Alike, Fields
  <2> HIDE DEF v
  <2>3. g[0].i = b /\ g[0].u = v /\ g[0].s = IF found_at THEN "s_http_userinfo_start" ELSE "s_http_host_start"
    BY <2>1 DEF HostStart, v
  <2>4. HostPart(buf, b, g[0], b)
    BY <2>2, <2>3 DEF HostPart, UserTo, Lacks
  <2>5. HostAt(buf, r, b, g[0], b)
    BY <2>2, <2>3, <2>4 DEF HostAt
  <2>6. b + 0 = b /\ 0 \in 0 .. m
    BY <1>0
  <2> HIDE DEF b, m
  <2> QED  BY <2>5, <2>6
<1>2. ASSUME NEW k \in 0 .. m - 1, k \in G PROVE k + 1 \in G
  <2> DEFINE n == k + 1
             p == b + n
  <2>1. n \in 1 .. m /\ n \in 0 .. m /\ n - 1 = k /\ k \in 0 .. m
    BY <1>0
  <2>2. p \in Nat \ {0} /\ p < UINT16 /\ p - 1 = b + k
    BY <1>0, <2>1, UrlWidthAssumption
  <2>3. g[k] \in HostScans /\ g[n] = HostStep(g[k], buf[p])
    <3>1. g \in [0 .. m -> HostScans] /\ g[n] = HostStep(g[n - 1], buf[p])
      BY <2>1 DEF HostScanned
    <3> QED  BY <2>1, <3>1
  <2> HIDE DEF n, p
  <2> SUFFICES ASSUME g[n].s # "s_http_host_dead" PROVE HostAt(buf, r, b, g[n], p)
    BY <2>1 DEF n, p
  <2>4. g[k].s # "s_http_host_dead"
    BY <2>3 DEF HostStep
  <2>5. HostAt(buf, r, b, g[k], p - 1)
    BY <1>2, <2>2, <2>4
  <2>6. HostTaken(g[k], g[n], buf[p], p)
    BY <2>2, <2>3, <2>5 DEF HostTaken, HostAt
  <2>7. HostOnto(buf, r, b, g[k], g[n], p)
    BY <1>0, <2>2, <2>5, <2>6 DEF HostOnto
  <2>8. g[n].s \in HostStates
    BY <2>6, HostTakenIs
  <2>9. g[n].s \notin {"s_http_userinfo_start", "s_http_host_dead"}
    BY <2>6, HostFromState
  <2> HIDE DEF b, m
  <2> QED  BY <2>7, <2>8, <2>9, DelimiterStep, UserinfoStep, HostNameStep, PortNumberStep DEF HostStates
<1> HIDE DEF G
<1>3. \A n \in 0 .. m : n \in G
  BY <1>0, <1>1, <1>2, UpTo
<1> QED  BY <1>3 DEF G

---------------------------------------------------------------------------
(* The port. *)
\* Digits, from the first and from the last one.
Numeral(digits) == Len(digits) \in Nat /\ \A k \in 1 .. Len(digits) : IsNum(digits[k])
\* A digit has a value.
LEMMA NumTyped ==
  ASSUME NEW d, IsNum(d)
  PROVE  Num[d] \in Nat
BY DEF IsNum, Num, Digits

Valued(v, digits) ==
  /\ v \in [0 .. Len(digits) -> Nat] /\ v[0] = 0
  /\ \A n \in 1 .. Len(digits) : v[n] = PortStep(v[n - 1], digits[n])
\* PortValue is what its steps, from the first digit on, make of 0.
LEMMA PortValueIs ==
  ASSUME NEW digits, Numeral(digits)
  PROVE  \E v : Valued(v, digits) /\ PortValue(digits) = v[Len(digits)]
<1> DEFINE m == Len(digits)
           Eqn(f) == f = [n \in 0 .. m |-> IF n = 0 THEN 0 ELSE PortStep(f[n - 1], digits[n])]
           v == CHOOSE f : Eqn(f)
           F == [q \in (1 .. m) \X Nat |-> PortStep(q[2], digits[q[1]])]
<1>1. m \in Nat
  BY DEF Numeral
<1>2. \A n \in 1 .. m : \A x \in Nat : F[<<n, x>>] = PortStep(x, digits[n]) /\ PortStep(x, digits[n]) \in Nat
  <2>1. \A n \in 1 .. m : Num[digits[n]] \in Nat
    BY NumTyped DEF Numeral
  <2>2. \A n \in 1 .. m : \A x \in Nat : PortStep(x, digits[n]) \in Nat
    BY <2>1 DEF PortStep
  <2> QED  BY <2>2
<1> HIDE DEF F, m
<1>3. PICK f : Loop(f, m, Nat, 0, F)
  <2>1. Step(F, m, Nat)
    BY <1>2 DEF Step
  <2> QED  BY <1>1, <2>1, LoopExists
<1>4. f \in [0 .. m -> Nat] /\ f[0] = 0 /\ \A n \in 1 .. m : f[n] = PortStep(f[n - 1], digits[n])
  <2>1. \A n \in 1 .. m : n - 1 \in 0 .. m
    BY <1>1
  <2> QED  BY <1>2, <1>3, <2>1 DEF Loop
<1>5. Eqn(f)
  BY <1>4
<1>6. Eqn(v)
  BY <1>5
<1> HIDE DEF v
<1>7. \A n \in 0 .. m : v[n] = IF n = 0 THEN 0 ELSE PortStep(v[n - 1], digits[n])
  BY <1>6, Zenon
<1>8. \A n \in 0 .. m : v[n] = f[n]
  <2>1. v[0] = 0
    BY <1>1, <1>7
  <2>2. \A n \in 1 .. m : v[n - 1] \in Nat => v[n] = F[<<n, v[n - 1]>>]
    BY <1>1, <1>2, <1>7
  <2>3. Follows(v, m, Nat, 0, F)
    BY <2>1, <2>2 DEF Follows
  <2> QED  BY <1>1, <1>3, <2>3, LoopUnique
<1>9. PortValue(digits) = v[m]
  BY DEF PortValue, v, m
<1>10. v[m] = f[m]
  BY <1>1, <1>8
<1>11. Valued(f, digits)
  BY <1>4 DEF Valued, m
<1> QED  BY <1>9, <1>10, <1>11 DEF m

Weights == [v : Nat, b : Nat]
Numbered(l, digits) ==
  /\ l \in [0 .. Len(digits) -> Weights] /\ l[0] = [v |-> 0, b |-> 1]
  /\ \A n \in 1 .. Len(digits) : l[n] = Shifted(l[n - 1], digits[Len(digits) + 1 - n])
\* NumberOf is what its steps, from the last digit on, make of 0.
LEMMA NumberOfIs ==
  ASSUME NEW digits, Numeral(digits)
  PROVE  \E l : Numbered(l, digits) /\ NumberOf(digits) = l[Len(digits)].v
<1> DEFINE m == Len(digits)
           d == [v |-> 0, b |-> 1]
           Eqn(f) == f = [n \in 0 .. m |-> IF n = 0 THEN d ELSE Shifted(f[n - 1], digits[m + 1 - n])]
           last == CHOOSE f : Eqn(f)
           F == [q \in (1 .. m) \X Weights |-> Shifted(q[2], digits[m + 1 - q[1]])]
<1>1. m \in Nat /\ d \in Weights
  BY DEF Numeral, Weights
<1>2. \A n \in 1 .. m : \A x \in Weights : /\ F[<<n, x>>] = Shifted(x, digits[m + 1 - n])
                                           /\ Shifted(x, digits[m + 1 - n]) \in Weights
  <2>1. ASSUME NEW n \in 1 .. m PROVE Num[digits[m + 1 - n]] \in Nat
    <3>1. m + 1 - n \in 1 .. m
      BY <1>1
    <3> QED  BY <3>1, NumTyped DEF Numeral
  <2>2. \A n \in 1 .. m : \A x \in Weights : Shifted(x, digits[m + 1 - n]) \in Weights
    <3> HIDE DEF m
    <3> QED  BY <1>1, <2>1 DEF Shifted, Weights
  <2> QED  BY <2>2
<1> HIDE DEF F, m, d
<1>3. PICK f : Loop(f, m, Weights, d, F)
  <2>1. Step(F, m, Weights)
    BY <1>2 DEF Step
  <2> QED  BY <1>1, <2>1, LoopExists
<1>4. f \in [0 .. m -> Weights] /\ f[0] = d /\ \A n \in 1 .. m : f[n] = Shifted(f[n - 1], digits[m + 1 - n])
  <2>1. \A n \in 1 .. m : n - 1 \in 0 .. m
    BY <1>1
  <2> QED  BY <1>2, <1>3, <2>1 DEF Loop
<1>5. Eqn(f)
  BY <1>4
<1>6. Eqn(last)
  BY <1>5
<1> HIDE DEF last
<1>7. \A n \in 0 .. m : last[n] = IF n = 0 THEN d ELSE Shifted(last[n - 1], digits[m + 1 - n])
  BY <1>6, Zenon
<1>8. \A n \in 0 .. m : last[n] = f[n]
  <2>1. last[0] = d
    BY <1>1, <1>7
  <2>2. \A n \in 1 .. m : last[n - 1] \in Weights => last[n] = F[<<n, last[n - 1]>>]
    BY <1>1, <1>2, <1>7
  <2>3. Follows(last, m, Weights, d, F)
    BY <2>1, <2>2 DEF Follows
  <2> QED  BY <1>1, <1>3, <2>3, LoopUnique
<1>9. NumberOf(digits) = last[m].v
  BY DEF NumberOf, last, m, d
<1>10. last[m] = f[m]
  BY <1>1, <1>8
<1>11. Numbered(f, digits)
  BY <1>4 DEF Numbered, m, d
<1> QED  BY <1>9, <1>10, <1>11 DEF m

\* A value that has not passed the largest port is the number its digits are.
LEMMA PortIsNumber ==
  ASSUME NEW digits, Numeral(digits)
  PROVE  PortValue(digits) \in Nat /\ (PortValue(digits) <= MaxPort => PortValue(digits) = NumberOf(digits))
<1>1. PICK v : Valued(v, digits) /\ PortValue(digits) = v[Len(digits)]
  BY PortValueIs
<1>2. PICK l : Numbered(l, digits) /\ NumberOf(digits) = l[Len(digits)].v
  BY NumberOfIs
<1> DEFINE m == Len(digits)
           Small == {j \in 0 .. m : v[m - j] <= MaxPort}
           Same == {k \in 0 .. m : v[k] * l[m - k].b + l[m - k].v = l[m].v}
<1>3. m \in Nat /\ \A k \in 1 .. m : Num[digits[k]] \in Nat
  BY NumTyped DEF Numeral
<1>4. /\ \A k \in 0 .. m : v[k] \in Nat /\ l[k].v \in Nat /\ l[k].b \in Nat
      /\ v[0] = 0 /\ l[0].v = 0 /\ l[0].b = 1
      /\ \A k \in 1 .. m : v[k] = PortStep(v[k - 1], digits[k])
      /\ \A k \in 1 .. m : l[k] = Shifted(l[k - 1], digits[m + 1 - k])
  <2>1. /\ v \in [0 .. m -> Nat] /\ l \in [0 .. m -> Weights]
        /\ v[0] = 0 /\ l[0] = [v |-> 0, b |-> 1]
        /\ \A k \in 1 .. m : v[k] = PortStep(v[k - 1], digits[k])
        /\ \A k \in 1 .. m : l[k] = Shifted(l[k - 1], digits[m + 1 - k])
    BY <1>1, <1>2 DEF Valued, Numbered
  <2> QED  BY <2>1 DEF Weights
<1> HIDE DEF m
<1>5. v[m] \in Nat
  BY <1>3, <1>4
<1> SUFFICES ASSUME v[m] <= MaxPort PROVE v[m] = l[m].v
  BY <1>1, <1>2, <1>5 DEF m
<1>6. \A j \in 0 .. m : j \in Small
  <2>1. 0 \in Small
    BY <1>3
  <2>2. ASSUME NEW j \in 0 .. m - 1, j \in Small PROVE j + 1 \in Small
    <3>1. m - j \in 1 .. m /\ (m - j) - 1 = m - (j + 1) /\ m - (j + 1) \in 0 .. m /\ j + 1 \in 0 .. m
      BY <1>3
    <3>2. v[m - j] = PortStep(v[m - (j + 1)], digits[m - j]) /\ v[m - (j + 1)] \in Nat
      BY <1>4, <3>1
    <3>3. v[m - j] <= MaxPort
      BY <2>2
    <3>4. v[m - (j + 1)] <= MaxPort
      BY <3>2, <3>3, UrlWidthAssumption DEF PortStep
    <3> QED  BY <3>1, <3>4
  <2> HIDE DEF Small
  <2> QED  BY <1>3, <2>1, <2>2, UpTo
<1>7. \A k \in 0 .. m : v[k] <= MaxPort
  <2>1. ASSUME NEW k \in 0 .. m PROVE v[k] <= MaxPort
    <3>1. m - k \in 0 .. m /\ m - (m - k) = k
      BY <1>3
    <3> QED  BY <1>6, <3>1
  <2> QED  BY <2>1
<1>8. \A k \in 0 .. m : k \in Same
  <2>1. 0 \in Same
    <3>1. m - 0 = m /\ 0 \in 0 .. m /\ l[m].b \in Nat /\ l[m].v \in Nat /\ v[0] = 0
      BY <1>3, <1>4
    <3> QED  BY <3>1
  <2>2. ASSUME NEW k \in 0 .. m - 1, k \in Same PROVE k + 1 \in Same
    <3> DEFINE a == v[k]
               B == l[m - (k + 1)].b
               V == l[m - (k + 1)].v
               d == Num[digits[k + 1]]
    <3>1. m - k \in 1 .. m /\ (m - k) - 1 = m - (k + 1) /\ m - (k + 1) \in 0 .. m /\ k + 1 \in 1 .. m
          /\ (k + 1) - 1 = k /\ m + 1 - (m - k) = k + 1 /\ k \in 0 .. m /\ k + 1 \in 0 .. m
      BY <1>3
    <3>2. a \in Nat /\ B \in Nat /\ V \in Nat /\ d \in Nat
      BY <1>3, <1>4, <3>1
    <3>3. v[k + 1] = a * 10 + d
      <4>1. v[k + 1] = PortStep(a, digits[k + 1]) /\ a <= MaxPort
        BY <1>4, <1>7, <3>1
      <4> QED  BY <3>2, <4>1, UrlWidthAssumption DEF PortStep
    <3>4. l[m - k].v = V + B * d /\ l[m - k].b = 10 * B
      <4>1. l[m - k] = Shifted(l[m - (k + 1)], digits[k + 1])
        BY <1>4, <3>1
      <4> QED  BY <4>1 DEF Shifted
    <3>5. a * l[m - k].b + l[m - k].v = l[m].v
      BY <2>2
    <3> HIDE DEF a, B, V, d
    <3>6. (a * 10 + d) * B + V = a * (10 * B) + (V + B * d)
      BY <3>2
    <3>7. v[k + 1] * B + V = l[m].v
      BY <3>3, <3>4, <3>5, <3>6
    <3> QED  BY <3>1, <3>7 DEF B, V
  <2> HIDE DEF Same
  <2> QED  BY <1>3, <2>1, <2>2, UpTo
<1>9. v[m] * l[m - m].b + l[m - m].v = l[m].v
  BY <1>3, <1>8
<1>10. m - m = 0 /\ l[0].b = 1 /\ l[0].v = 0
  BY <1>3, <1>4
<1> QED  BY <1>5, <1>9, <1>10

---------------------------------------------------------------------------
(* The texts of the parts. *)
\* The characters after the first i, up to the j-th.
Piece(s, i, j) == SubSeq(s, i + 1, j)
Cutting(s, i, j) == i \in Nat /\ j \in Nat /\ i <= j /\ j <= Len(s)
\* The length and the elements of a piece.
LEMMA PieceIs ==
  ASSUME NEW Char, NEW s \in Seq(Char), NEW i, NEW j, Cutting(s, i, j)
  PROVE  /\ Piece(s, i, j) \in Seq(Char) /\ Len(Piece(s, i, j)) = j - i
         /\ \A k \in 1 .. j - i : Piece(s, i, j)[k] = s[i + k]
<1>1. i \in Nat /\ j \in Nat /\ i <= j /\ j <= Len(s) /\ Len(s) \in Nat
  BY DEF Cutting
<1>2. Piece(s, i, j) = [k \in 1 .. j - i |-> s[i + k]]
  <2>1. SubSeq(s, i + 1, j) = [k \in 1 .. j + 1 - (i + 1) |-> s[k + (i + 1) - 1]]
    BY <1>1
  <2>2. j + 1 - (i + 1) = j - i /\ \A k \in 1 .. j - i : k + (i + 1) - 1 = i + k
    BY <1>1
  <2> QED  BY <2>1, <2>2 DEF Piece
<1>3. j - i \in Nat /\ \A k \in 1 .. j - i : i + k \in 1 .. Len(s)
  BY <1>1
<1>4. \A k \in 1 .. j - i : s[i + k] \in Char
  BY <1>3
<1>5. [k \in 1 .. j - i |-> s[i + k]] \in Seq(Char)
  BY <1>3, <1>4
<1>6. Len([k \in 1 .. j - i |-> s[i + k]]) = j - i
  BY <1>3
<1> QED  BY <1>2, <1>5, <1>6

\* Sequences of one length with the same elements are equal.
LEMMA SameSeq ==
  ASSUME NEW Char, NEW s \in Seq(Char), NEW t \in Seq(Char), Len(s) = Len(t), \A k \in 1 .. Len(s) : s[k] = t[k]
  PROVE  s = t
OBVIOUS

\* Pieces that meet make one piece.
LEMMA Pieces ==
  ASSUME NEW Char, NEW s \in Seq(Char), NEW i, NEW j, NEW k, Cutting(s, i, j), Cutting(s, j, k)
  PROVE  Piece(s, i, j) \o Piece(s, j, k) = Piece(s, i, k) /\ Cutting(s, i, k)
<1>0. Cutting(s, i, k)
  BY DEF Cutting
<1>1. i \in Nat /\ j \in Nat /\ k \in Nat /\ i <= j /\ j <= k
  BY DEF Cutting
<1> DEFINE u == Piece(s, i, j)
           v == Piece(s, j, k)
           w == Piece(s, i, k)
<1>2. /\ u \in Seq(Char) /\ Len(u) = j - i /\ \A n \in 1 .. j - i : u[n] = s[i + n]
  BY PieceIs
<1>3. /\ v \in Seq(Char) /\ Len(v) = k - j /\ \A n \in 1 .. k - j : v[n] = s[j + n]
  BY PieceIs
<1>4. /\ w \in Seq(Char) /\ Len(w) = k - i /\ \A n \in 1 .. k - i : w[n] = s[i + n]
  BY <1>0, PieceIs
<1> HIDE DEF u, v, w
<1>5. u \o v \in Seq(Char) /\ Len(u \o v) = k - i
  <2>1. u \o v \in Seq(Char) /\ Len(u \o v) = Len(u) + Len(v)
    BY <1>2, <1>3, ConcatProperties, Zenon
  <2>2. (j - i) + (k - j) = k - i
    BY <1>1
  <2> QED  BY <1>2, <1>3, <2>1, <2>2, Zenon
<1>6. ASSUME NEW n \in 1 .. k - i PROVE (u \o v)[n] = w[n]
  <2>0. (u \o v)[n] = IF n <= Len(u) THEN u[n] ELSE v[n - Len(u)]
    <3>1. \A m \in 1 .. Len(u) + Len(v) : (u \o v)[m] = IF m <= Len(u) THEN u[m] ELSE v[m - Len(u)]
      BY <1>2, <1>3, ConcatProperties, Zenon
    <3>2. n \in 1 .. Len(u) + Len(v)
      BY <1>1, <1>2, <1>3
    <3> QED  BY <3>1, <3>2, Zenon
  <2>1. CASE n <= j - i
    <3>1. (u \o v)[n] = u[n]
      BY <1>2, <2>0, <2>1, Zenon
    <3>2. n \in 1 .. j - i
      BY <1>1, <2>1
    <3> QED  BY <1>2, <1>4, <3>1, <3>2, Zenon
  <2>2. CASE n > j - i
    <3>1. (u \o v)[n] = v[n - (j - i)]
      <4>1. ~(n <= j - i)
        BY <1>1, <2>2
      <4> QED  BY <1>2, <2>0, <4>1, Zenon
    <3>2. n - (j - i) \in 1 .. k - j /\ j + (n - (j - i)) = i + n
      BY <1>1, <2>2
    <3>3. v[n - (j - i)] = s[j + (n - (j - i))]
      BY <1>3, <3>2, Zenon
    <3> QED  BY <1>4, <3>1, <3>2, <3>3, Zenon
  <2>3. n <= j - i \/ n > j - i
    BY <1>1
  <2> QED  BY <2>1, <2>2, <2>3, Zenon
<1>7. u \o v = w
  BY <1>4, <1>5, <1>6, SameSeq
<1> QED  BY <1>0, <1>7 DEF u, v, w

\* Pieces of no, one and three elements.
LEMMA Small ==
  ASSUME NEW Char, NEW s \in Seq(Char), NEW i, Cutting(s, i, i)
  PROVE  /\ Piece(s, i, i) = <<>>
         /\ Cutting(s, i, i + 1) => Piece(s, i, i + 1) = <<s[i + 1]>>
         /\ Cutting(s, i, i + 3) => Piece(s, i, i + 3) = <<s[i + 1], s[i + 2], s[i + 3]>>
<1>1. i \in Nat /\ Len(s) \in Nat
  BY DEF Cutting
<1>2. Piece(s, i, i) = <<>>
  <2>1. Piece(s, i, i) \in Seq(Char) /\ Len(Piece(s, i, i)) = 0
    BY <1>1, PieceIs
  <2> QED  BY <2>1
<1>3. ASSUME Cutting(s, i, i + 1) PROVE Piece(s, i, i + 1) = <<s[i + 1]>>
  <2>1. /\ Piece(s, i, i + 1) \in Seq(Char) /\ Len(Piece(s, i, i + 1)) = (i + 1) - i
        /\ \A k \in 1 .. (i + 1) - i : Piece(s, i, i + 1)[k] = s[i + k]
    BY <1>3, PieceIs
  <2>2. (i + 1) - i = 1 /\ i + 1 \in 1 .. Len(s)
    BY <1>1, <1>3 DEF Cutting
  <2>3. s[i + 1] \in Char
    BY <2>2
  <2>4. <<s[i + 1]>> \in Seq(Char) /\ Len(<<s[i + 1]>>) = 1 /\ <<s[i + 1]>>[1] = s[i + 1]
    BY <2>3
  <2>5. \A k \in 1 .. 1 : Piece(s, i, i + 1)[k] = <<s[i + 1]>>[k]
    BY <2>1, <2>2, <2>4
  <2> HIDE DEF Piece
  <2> QED  BY <2>1, <2>2, <2>4, <2>5, SameSeq
<1>4. ASSUME Cutting(s, i, i + 3) PROVE Piece(s, i, i + 3) = <<s[i + 1], s[i + 2], s[i + 3]>>
  <2> DEFINE t == <<s[i + 1], s[i + 2], s[i + 3]>>
  <2>1. /\ Piece(s, i, i + 3) \in Seq(Char) /\ Len(Piece(s, i, i + 3)) = (i + 3) - i
        /\ \A k \in 1 .. (i + 3) - i : Piece(s, i, i + 3)[k] = s[i + k]
    BY <1>4, PieceIs
  <2>2. (i + 3) - i = 3 /\ i + 1 \in 1 .. Len(s) /\ i + 2 \in 1 .. Len(s) /\ i + 3 \in 1 .. Len(s)
    BY <1>1, <1>4 DEF Cutting
  <2>3. s[i + 1] \in Char /\ s[i + 2] \in Char /\ s[i + 3] \in Char
    BY <2>2
  <2>4. t \in Seq(Char) /\ Len(t) = 3 /\ t[1] = s[i + 1] /\ t[2] = s[i + 2] /\ t[3] = s[i + 3]
    BY <2>3
  <2> HIDE DEF t
  <2>5. \A k \in 1 .. 3 : Piece(s, i, i + 3)[k] = t[k]
    <3> DEFINE p == Piece(s, i, i + 3)
    <3>1. \A k \in 1 .. 3 : k = 1 \/ k = 2 \/ k = 3
      OBVIOUS
    <3>2. p[1] = s[i + 1] /\ p[2] = s[i + 2] /\ p[3] = s[i + 3]
      <4>1. \A k \in 1 .. 3 : p[k] = s[i + k]
        BY <2>1, <2>2
      <4> HIDE DEF p
      <4> QED  BY <4>1
    <3>3. p[1] = t[1] /\ p[2] = t[2] /\ p[3] = t[3]
      BY <2>4, <3>2, Zenon
    <3> HIDE DEF p
    <3>4. \A k \in 1 .. 3 : p[k] = t[k]
      BY <3>1, <3>3
    <3> QED  BY <3>4 DEF p
  <2>6. Piece(s, i, i + 3) = t
    <3> DEFINE p == Piece(s, i, i + 3)
    <3>1. p \in Seq(Char) /\ Len(p) = 3 /\ \A k \in 1 .. 3 : p[k] = t[k]
      BY <2>1, <2>2, <2>5
    <3> HIDE DEF p
    <3>2. p = t
      BY <2>4, <3>1, SameSeq
    <3> QED  BY <3>2 DEF p
  <2> QED  BY <2>6 DEF t
<1> QED  BY <1>2, <1>3, <1>4

\* A piece that has only '#'s is so many '#'s.
LEMMA HashesAre ==
  ASSUME NEW Char, NEW s \in Seq(Char), NEW i, NEW j, Cutting(s, i, j), \A k \in i + 1 .. j : s[k] = "#"
  PROVE  j - i \in 0 .. Len(s) /\ Piece(s, i, j) = [k \in 1 .. j - i |-> "#"]
<1>1. i \in Nat /\ j \in Nat /\ i <= j /\ j <= Len(s) /\ Len(s) \in Nat
  BY DEF Cutting
<1>2. /\ Piece(s, i, j) \in Seq(Char) /\ Len(Piece(s, i, j)) = j - i
      /\ \A k \in 1 .. j - i : Piece(s, i, j)[k] = s[i + k]
  BY PieceIs
<1>3. \A k \in 1 .. j - i : s[i + k] = "#"
  <2>1. \A k \in 1 .. j - i : i + k \in i + 1 .. j
    BY <1>1
  <2> QED  BY <2>1
<1>4. j - i \in Nat
  BY <1>1
<1> DEFINE t == [k \in 1 .. j - i |-> "#"]
<1>5. Piece(s, i, j) = [k \in 1 .. j - i |-> Piece(s, i, j)[k]]
  BY <1>2, <1>4
<1> QED  BY <1>1, <1>2, <1>3, <1>5

\* The texts each part of a URL can be.
FieldText(buf, u, f) == IF f \in u.set THEN Text(buf, u, f) ELSE <<>>
HashTexts(buf) == {[i \in 1 .. n |-> "#"] : n \in 0 .. Len(buf)}
SchemaTexts(buf, u) == IF "UF_SCHEMA" \in u.set THEN {FieldText(buf, u, "UF_SCHEMA") \o <<":", "/", "/">>} ELSE {<<>>}
UserTexts(buf, u) ==
  IF "UF_USERINFO" \in u.set THEN {FieldText(buf, u, "UF_USERINFO") \o <<"@">>} ELSE {<<>>, <<"@">>}
HostTexts(buf, u) == {FieldText(buf, u, "UF_HOST"), <<"[">> \o FieldText(buf, u, "UF_HOST") \o <<"]">>}
PortTexts(buf, u) == IF "UF_PORT" \in u.set THEN {<<":">> \o FieldText(buf, u, "UF_PORT")} ELSE {<<>>}
PathTexts(buf, u) == {FieldText(buf, u, "UF_PATH")}
QueryTexts(buf, u) == IF "UF_QUERY" \in u.set THEN {<<"?">> \o FieldText(buf, u, "UF_QUERY")} ELSE {<<>>, <<"?">>}
EndTexts(buf, u) ==
  IF "UF_FRAGMENT" \in u.set THEN {h \o FieldText(buf, u, "UF_FRAGMENT") : h \in HashTexts(buf) \ {<<>>}}
  ELSE HashTexts(buf)

\* One text for each part make a reading of the URL.
LEMMA ReadingsAre ==
  ASSUME NEW buf, NEW u,
         NEW a \in SchemaTexts(buf, u), NEW b \in UserTexts(buf, u), NEW c \in HostTexts(buf, u),
         NEW d \in PortTexts(buf, u), NEW e \in PathTexts(buf, u), NEW f \in QueryTexts(buf, u),
         NEW g \in EndTexts(buf, u)
  PROVE  a \o b \o c \o d \o e \o f \o g \in Readings(buf, u)
<1>1. Readings(buf, u) =
        {p1 \o p2 \o p3 \o p4 \o p5 \o p6 \o p7 :
           p1 \in SchemaTexts(buf, u), p2 \in UserTexts(buf, u), p3 \in HostTexts(buf, u),
           p4 \in PortTexts(buf, u), p5 \in PathTexts(buf, u), p6 \in QueryTexts(buf, u), p7 \in EndTexts(buf, u)}
  BY DEF Readings, SchemaTexts, UserTexts, HostTexts, PortTexts, PathTexts, QueryTexts, EndTexts, HashTexts, FieldText
<1> QED  BY <1>1

\* Where the parts end.
SchemaPart(buf, u, b) ==
  \/ Within(u, "UF_SCHEMA", 0, b - 3) /\ buf[b - 2] = ":" /\ buf[b - 1] = "/" /\ buf[b] = "/"
  \/ "UF_SCHEMA" \notin u.set /\ b = 0
BracketedPart(buf, u, c, x) == buf[c + 1] = "[" /\ Within(u, "UF_HOST", c + 1, x - 1) /\ buf[x] = "]"
HostPiece(buf, u, c, x) ==
  Within(u, "UF_HOST", c, x) \/ BracketedPart(buf, u, c, x) \/ ("UF_HOST" \notin u.set /\ x = c)
PortPart(buf, u, x, e) == (buf[x + 1] = ":" /\ Within(u, "UF_PORT", x + 1, e)) \/ ("UF_PORT" \notin u.set /\ e = x)
PathPart(buf, u, e, p) == Within(u, "UF_PATH", e, p) \/ ("UF_PATH" \notin u.set /\ p = e)
QueryPart(buf, u, p, q) ==
  \/ buf[p + 1] = "?" /\ Within(u, "UF_QUERY", p + 1, q)
  \/ "UF_QUERY" \notin u.set /\ (q = p \/ (q = p + 1 /\ buf[q] = "?"))
EndPart(buf, u, q, n) ==
  \E h \in Nat : /\ \A k \in q + 1 .. h : buf[k] = "#"
                 /\ \/ q < h /\ Within(u, "UF_FRAGMENT", h, n)
                    \/ "UF_FRAGMENT" \notin u.set /\ h = n /\ q <= h

\* A part has its text, and a field in it lies in the buffer.
Fits(buf, u, f) == f \in u.set => u.len[f] > 0 /\ u.off[f] + u.len[f] <= Len(buf)
\* The text of a field that lies between two places, and that it fits.
LEMMA WithinIs ==
  ASSUME NEW buf, NEW u, NEW f, NEW a \in Nat, NEW b \in Nat, Within(u, f, a, b)
  PROVE  /\ FieldText(buf, u, f) = Piece(buf, a, b) /\ f \in u.set /\ a < b
         /\ Len(buf) \in Nat /\ b <= Len(buf) => Fits(buf, u, f) /\ Cutting(buf, a, b)
<1>1. f \in u.set /\ u.off[f] = a /\ u.len[f] = b - a /\ a < b
  BY DEF Within
<1>2. u.off[f] + u.len[f] = b /\ u.len[f] > 0
  BY <1>1
<1>3. Text(buf, u, f) = SubSeq(buf, a + 1, b)
  BY <1>1, <1>2, Zenon DEF Text
<1> QED  BY <1>1, <1>2, <1>3 DEF FieldText, Piece, Fits, Cutting

\* The piece of the URL up to the end of the scheme part is one of its texts.
LEMMA SchemaRead ==
  ASSUME NEW Char, NEW buf \in Seq(Char), NEW u, NEW b \in Nat, b <= Len(buf), SchemaPart(buf, u, b)
  PROVE  Cutting(buf, 0, b) /\ Piece(buf, 0, b) \in SchemaTexts(buf, u) /\ Fits(buf, u, "UF_SCHEMA")
<1>0. Len(buf) \in Nat
  OBVIOUS
<1>1. CASE Within(u, "UF_SCHEMA", 0, b - 3) /\ buf[b - 2] = ":" /\ buf[b - 1] = "/" /\ buf[b] = "/"
  <2> DEFINE a == b - 3
  <2>1. a \in Nat /\ 0 \in Nat /\ a <= Len(buf) /\ 0 < a
    <3>1. 0 < b - 3
      BY <1>1 DEF Within
    <3> QED  BY <1>0, <3>1
  <2>2. b = a + 3 /\ b - 2 = a + 1 /\ b - 1 = a + 2
    BY <1>0
  <2> HIDE DEF a
  <2>3. Within(u, "UF_SCHEMA", 0, a)
    BY <1>1 DEF a
  <2>4. FieldText(buf, u, "UF_SCHEMA") = Piece(buf, 0, a) /\ "UF_SCHEMA" \in u.set
        /\ Fits(buf, u, "UF_SCHEMA") /\ Cutting(buf, 0, a)
    BY <1>0, <2>1, <2>3, WithinIs
  <2>5. Cutting(buf, a, b) /\ Cutting(buf, a, a) /\ Cutting(buf, a, a + 3)
    BY <1>0, <2>1, <2>2 DEF Cutting
  <2>6. Piece(buf, a, b) = <<":", "/", "/">>
    <3>1. Piece(buf, a, a + 3) = <<buf[a + 1], buf[a + 2], buf[a + 3]>>
      BY <2>5, Small
    <3>2. buf[a + 1] = ":" /\ buf[a + 2] = "/" /\ buf[a + 3] = "/"
      BY <1>1, <2>2
    <3> QED  BY <2>2, <3>1, <3>2
  <2>7. Piece(buf, 0, a) \o Piece(buf, a, b) = Piece(buf, 0, b) /\ Cutting(buf, 0, b)
    BY <2>4, <2>5, Pieces
  <2> QED  BY <2>4, <2>6, <2>7 DEF SchemaTexts
<1>2. CASE "UF_SCHEMA" \notin u.set /\ b = 0
  <2>1. Cutting(buf, 0, 0)
    BY <1>0 DEF Cutting
  <2>2. Piece(buf, 0, 0) = <<>>
    BY <2>1, Small
  <2> QED  BY <1>2, <2>1, <2>2 DEF SchemaTexts, Fits
<1> QED  BY <1>1, <1>2 DEF SchemaPart

\* So is the piece of the userinfo.
LEMMA UserRead ==
  ASSUME NEW Char, NEW buf \in Seq(Char), NEW u, NEW b \in Nat, NEW c \in Nat, c <= Len(buf), UserTo(buf, u, b, c)
  PROVE  Cutting(buf, b, c) /\ Piece(buf, b, c) \in UserTexts(buf, u) /\ Fits(buf, u, "UF_USERINFO")
<1>0. Len(buf) \in Nat
  OBVIOUS
<1>1. CASE Within(u, "UF_USERINFO", b, c - 1) /\ buf[c] = "@"
  <2> DEFINE a == c - 1
  <2>1. a \in Nat /\ a <= Len(buf) /\ b < a
    <3>1. b < c - 1
      BY <1>1 DEF Within
    <3> QED  BY <1>0, <3>1
  <2>2. c = a + 1
    BY <1>0
  <2> HIDE DEF a
  <2>3. Within(u, "UF_USERINFO", b, a)
    BY <1>1 DEF a
  <2>4. FieldText(buf, u, "UF_USERINFO") = Piece(buf, b, a) /\ "UF_USERINFO" \in u.set
        /\ Fits(buf, u, "UF_USERINFO") /\ Cutting(buf, b, a)
    BY <1>0, <2>1, <2>3, WithinIs
  <2>5. Cutting(buf, a, c) /\ Cutting(buf, a, a) /\ Cutting(buf, a, a + 1)
    BY <1>0, <2>1, <2>2 DEF Cutting
  <2>6. Piece(buf, a, c) = <<"@">>
    <3>1. Piece(buf, a, a + 1) = <<buf[a + 1]>>
      BY <2>5, Small
    <3> QED  BY <1>1, <2>2, <3>1
  <2>7. Piece(buf, b, a) \o Piece(buf, a, c) = Piece(buf, b, c) /\ Cutting(buf, b, c)
    BY <2>4, <2>5, Pieces
  <2> QED  BY <2>4, <2>6, <2>7 DEF UserTexts
<1>2. CASE "UF_USERINFO" \notin u.set /\ c = b
  <2>1. Cutting(buf, b, b)
    BY <1>0, <1>2 DEF Cutting
  <2>2. Piece(buf, b, b) = <<>>
    BY <2>1, Small
  <2> QED  BY <1>2, <2>1, <2>2 DEF UserTexts, Fits
<1>3. CASE "UF_USERINFO" \notin u.set /\ c = b + 1 /\ buf[c] = "@"
  <2>1. Cutting(buf, b, b) /\ Cutting(buf, b, b + 1)
    BY <1>0, <1>3 DEF Cutting
  <2>2. Piece(buf, b, b + 1) = <<buf[b + 1]>>
    BY <2>1, Small
  <2> QED  BY <1>3, <2>1, <2>2 DEF UserTexts, Fits
<1> QED  BY <1>1, <1>2, <1>3 DEF UserTo

\* So is the piece of the host.
LEMMA HostRead ==
  ASSUME NEW Char, NEW buf \in Seq(Char), NEW u, NEW c \in Nat, NEW x \in Nat, x <= Len(buf), HostPiece(buf, u, c, x)
  PROVE  Cutting(buf, c, x) /\ Piece(buf, c, x) \in HostTexts(buf, u) /\ Fits(buf, u, "UF_HOST")
<1>0. Len(buf) \in Nat
  OBVIOUS
<1>1. CASE Within(u, "UF_HOST", c, x)
  BY <1>0, <1>1, WithinIs DEF HostTexts
<1>2. CASE BracketedPart(buf, u, c, x)
  <2> DEFINE a == c + 1
             z == x - 1
  <2>1. a \in Nat /\ z \in Nat /\ z <= Len(buf) /\ a < z /\ Within(u, "UF_HOST", a, z)
    <3>1. c + 1 < x - 1
      BY <1>2 DEF BracketedPart, Within
    <3> QED  BY <1>0, <1>2, <3>1 DEF BracketedPart
  <2>2. x = z + 1 /\ a = c + 1 /\ buf[c + 1] = "[" /\ buf[x] = "]"
    BY <1>0, <1>2 DEF BracketedPart
  <2> HIDE DEF a, z
  <2>3. FieldText(buf, u, "UF_HOST") = Piece(buf, a, z) /\ Fits(buf, u, "UF_HOST") /\ Cutting(buf, a, z)
    BY <1>0, <2>1, WithinIs
  <2>4. Cutting(buf, c, c) /\ Cutting(buf, c, c + 1) /\ Cutting(buf, z, z) /\ Cutting(buf, z, z + 1)
    BY <1>0, <2>1, <2>2 DEF Cutting
  <2>5. Piece(buf, c, c + 1) = <<buf[c + 1]>> /\ Piece(buf, z, z + 1) = <<buf[z + 1]>>
    BY <2>4, Small
  <2>6. Piece(buf, c, a) \o Piece(buf, a, z) = Piece(buf, c, z) /\ Cutting(buf, c, z)
    BY <2>2, <2>3, <2>4, Pieces
  <2>7. Piece(buf, c, z) \o Piece(buf, z, x) = Piece(buf, c, x) /\ Cutting(buf, c, x)
    BY <2>2, <2>4, <2>6, Pieces
  <2>8. Piece(buf, c, x) = <<"[">> \o FieldText(buf, u, "UF_HOST") \o <<"]">>
    BY <2>2, <2>3, <2>5, <2>6, <2>7
  <2> QED  BY <2>3, <2>7, <2>8 DEF HostTexts
<1>3. CASE "UF_HOST" \notin u.set /\ x = c
  <2>1. Cutting(buf, c, c)
    BY <1>0, <1>3 DEF Cutting
  <2>2. Piece(buf, c, c) = <<>>
    BY <2>1, Small
  <2> QED  BY <1>3, <2>1, <2>2 DEF HostTexts, FieldText, Fits
<1> QED  BY <1>1, <1>2, <1>3 DEF HostPiece

\* So is the piece of the port.
LEMMA PortRead ==
  ASSUME NEW Char, NEW buf \in Seq(Char), NEW u, NEW x \in Nat, NEW e \in Nat, e <= Len(buf), PortPart(buf, u, x, e)
  PROVE  Cutting(buf, x, e) /\ Piece(buf, x, e) \in PortTexts(buf, u) /\ Fits(buf, u, "UF_PORT")
<1>0. Len(buf) \in Nat
  OBVIOUS
<1>1. CASE buf[x + 1] = ":" /\ Within(u, "UF_PORT", x + 1, e)
  <2>1. x + 1 \in Nat /\ x + 1 < e
    BY <1>1 DEF Within
  <2>2. FieldText(buf, u, "UF_PORT") = Piece(buf, x + 1, e) /\ "UF_PORT" \in u.set
        /\ Fits(buf, u, "UF_PORT") /\ Cutting(buf, x + 1, e)
    BY <1>0, <1>1, <2>1, WithinIs
  <2>3. Cutting(buf, x, x) /\ Cutting(buf, x, x + 1)
    BY <1>0, <2>1 DEF Cutting
  <2>4. Piece(buf, x, x + 1) = <<buf[x + 1]>>
    BY <2>3, Small
  <2>5. Piece(buf, x, x + 1) \o Piece(buf, x + 1, e) = Piece(buf, x, e) /\ Cutting(buf, x, e)
    BY <2>2, <2>3, Pieces
  <2> QED  BY <1>1, <2>2, <2>4, <2>5 DEF PortTexts
<1>2. CASE "UF_PORT" \notin u.set /\ e = x
  <2>1. Cutting(buf, x, x)
    BY <1>0, <1>2 DEF Cutting
  <2>2. Piece(buf, x, x) = <<>>
    BY <2>1, Small
  <2> QED  BY <1>2, <2>1, <2>2 DEF PortTexts, Fits
<1> QED  BY <1>1, <1>2 DEF PortPart

\* So is the piece of the path.
LEMMA PathRead ==
  ASSUME NEW Char, NEW buf \in Seq(Char), NEW u, NEW e \in Nat, NEW p \in Nat, p <= Len(buf), PathPart(buf, u, e, p)
  PROVE  Cutting(buf, e, p) /\ Piece(buf, e, p) \in PathTexts(buf, u) /\ Fits(buf, u, "UF_PATH")
<1>0. Len(buf) \in Nat
  OBVIOUS
<1>1. CASE Within(u, "UF_PATH", e, p)
  BY <1>0, <1>1, WithinIs DEF PathTexts
<1>2. CASE "UF_PATH" \notin u.set /\ p = e
  <2>1. Cutting(buf, e, e)
    BY <1>0, <1>2 DEF Cutting
  <2>2. Piece(buf, e, e) = <<>>
    BY <2>1, Small
  <2> QED  BY <1>2, <2>1, <2>2 DEF PathTexts, FieldText, Fits
<1> QED  BY <1>1, <1>2 DEF PathPart

\* So is the piece of the query.
LEMMA QueryRead ==
  ASSUME NEW Char, NEW buf \in Seq(Char), NEW u, NEW p \in Nat, NEW q \in Nat, q <= Len(buf), QueryPart(buf, u, p, q)
  PROVE  Cutting(buf, p, q) /\ Piece(buf, p, q) \in QueryTexts(buf, u) /\ Fits(buf, u, "UF_QUERY")
<1>0. Len(buf) \in Nat
  OBVIOUS
<1>1. CASE buf[p + 1] = "?" /\ Within(u, "UF_QUERY", p + 1, q)
  <2>1. p + 1 \in Nat /\ p + 1 < q
    BY <1>1 DEF Within
  <2>2. FieldText(buf, u, "UF_QUERY") = Piece(buf, p + 1, q) /\ "UF_QUERY" \in u.set
        /\ Fits(buf, u, "UF_QUERY") /\ Cutting(buf, p + 1, q)
    BY <1>0, <1>1, <2>1, WithinIs
  <2>3. Cutting(buf, p, p) /\ Cutting(buf, p, p + 1)
    BY <1>0, <2>1 DEF Cutting
  <2>4. Piece(buf, p, p + 1) = <<buf[p + 1]>>
    BY <2>3, Small
  <2>5. Piece(buf, p, p + 1) \o Piece(buf, p + 1, q) = Piece(buf, p, q) /\ Cutting(buf, p, q)
    BY <2>2, <2>3, Pieces
  <2> QED  BY <1>1, <2>2, <2>4, <2>5 DEF QueryTexts
<1>2. CASE "UF_QUERY" \notin u.set /\ q = p
  <2>1. Cutting(buf, p, p)
    BY <1>0, <1>2 DEF Cutting
  <2>2. Piece(buf, p, p) = <<>>
    BY <2>1, Small
  <2> QED  BY <1>2, <2>1, <2>2 DEF QueryTexts, Fits
<1>3. CASE "UF_QUERY" \notin u.set /\ q = p + 1 /\ buf[q] = "?"
  <2>1. Cutting(buf, p, p) /\ Cutting(buf, p, p + 1)
    BY <1>0, <1>3 DEF Cutting
  <2>2. Piece(buf, p, p + 1) = <<buf[p + 1]>>
    BY <2>1, Small
  <2> QED  BY <1>3, <2>1, <2>2 DEF QueryTexts, Fits
<1> QED  BY <1>1, <1>2, <1>3 DEF QueryPart

\* So is the rest: the fragment and the '#'s before it, or '#'s only.
LEMMA EndRead ==
  ASSUME NEW Char, NEW buf \in Seq(Char), NEW u, NEW q \in Nat, EndPart(buf, u, q, Len(buf))
  PROVE  /\ Cutting(buf, q, Len(buf)) /\ Piece(buf, q, Len(buf)) \in EndTexts(buf, u)
         /\ Fits(buf, u, "UF_FRAGMENT")
<1> DEFINE n == Len(buf)
<1>0. n \in Nat
  OBVIOUS
<1> HIDE DEF n
<1>1. PICK h \in Nat : /\ \A k \in q + 1 .. h : buf[k] = "#"
                       /\ \/ q < h /\ Within(u, "UF_FRAGMENT", h, n)
                          \/ "UF_FRAGMENT" \notin u.set /\ h = n /\ q <= h
  BY DEF EndPart, n
<1>2. h <= n /\ q <= h
  <2>1. CASE q < h /\ Within(u, "UF_FRAGMENT", h, n)
    BY <1>0, <2>1 DEF Within
  <2>2. CASE "UF_FRAGMENT" \notin u.set /\ h = n /\ q <= h
    BY <1>0, <2>2
  <2> QED  BY <1>1, <2>1, <2>2
<1>3. Cutting(buf, q, h) /\ Cutting(buf, h, n)
  BY <1>0, <1>2 DEF Cutting, n
<1>4. h - q \in 0 .. n /\ Piece(buf, q, h) = [k \in 1 .. h - q |-> "#"]
  BY <1>1, <1>3, HashesAre DEF n
<1>5. Piece(buf, q, h) \in HashTexts(buf)
  BY <1>4 DEF HashTexts, n
<1>6. CASE q < h /\ Within(u, "UF_FRAGMENT", h, n)
  <2>1. FieldText(buf, u, "UF_FRAGMENT") = Piece(buf, h, n) /\ "UF_FRAGMENT" \in u.set /\ Fits(buf, u, "UF_FRAGMENT")
    BY <1>0, <1>6, WithinIs DEF n
  <2>2. Piece(buf, q, h) \o Piece(buf, h, n) = Piece(buf, q, n) /\ Cutting(buf, q, n)
    BY <1>3, Pieces
  <2>3. Piece(buf, q, h) # <<>>
    <3>1. Len(Piece(buf, q, h)) = h - q
      BY <1>3, PieceIs
    <3>3. h - q # 0
      BY <1>6
    <3>2. Len(<<>>) = 0
      OBVIOUS
    <3> QED  BY <3>1, <3>2, <3>3
  <2>4. Piece(buf, q, n) \in {g \o FieldText(buf, u, "UF_FRAGMENT") : g \in HashTexts(buf) \ {<<>>}}
    BY <1>5, <2>1, <2>2, <2>3
  <2> QED  BY <2>1, <2>2, <2>4 DEF EndTexts, n
<1>7. CASE "UF_FRAGMENT" \notin u.set /\ h = n /\ q <= h
  BY <1>3, <1>5, <1>7 DEF EndTexts, Fits, n
<1> QED  BY <1>1, <1>6, <1>7

---------------------------------------------------------------------------
(* The whole function. *)
\* How the function ends: the port's value, and what CONNECT and the width allow.
PortOf(buf, r) == IF "UF_PORT" \in r.set THEN PortValue(Text(buf, r, "UF_PORT")) ELSE 0
Ended(buf, cn, r) ==
  IF (cn /\ r.set # {"UF_HOST", "UF_PORT"}) \/ PortOf(buf, r) > MaxPort
  THEN [ret |-> 1, u |-> r] ELSE [ret |-> 0, u |-> [r EXCEPT !.port = PortOf(buf, r)]]
Refused(buf, x) == buf = <<>> \/ x.s = "s_dead" \/ x.u.set \cap {"UF_SCHEMA", "UF_HOST"} = {"UF_SCHEMA"}
\* http_parser_parse_url by the ways it ends.
LEMMA ParseIs ==
  ASSUME NEW buf, NEW cn
  PROVE  LET x == Scan(buf, cn)
             g == http_parse_host(buf, x.u, x.found_at)
             parsed == http_parser_parse_url(buf, cn)
         IN /\ Refused(buf, x) => parsed = [ret |-> 1, u |-> x.u]
            /\ ~Refused(buf, x) /\ "UF_HOST" \in x.u.set /\ g.s \notin HostEnds => parsed = [ret |-> 1, u |-> g.u]
            /\ ~Refused(buf, x) /\ "UF_HOST" \in x.u.set /\ g.s \in HostEnds => parsed = Ended(buf, cn, g.u)
            /\ ~Refused(buf, x) /\ "UF_HOST" \notin x.u.set => parsed = Ended(buf, cn, x.u)
<1> DEFINE x == Scan(buf, cn)
           g == http_parse_host(buf, x.u, x.found_at)
<1>1. http_parser_parse_url(buf, cn) =
        IF Refused(buf, x) THEN [ret |-> 1, u |-> x.u]
        ELSE IF "UF_HOST" \in x.u.set
        THEN (IF g.s \notin HostEnds THEN [ret |-> 1, u |-> g.u] ELSE Ended(buf, cn, g.u))
        ELSE Ended(buf, cn, x.u)
  BY Zenon DEF http_parser_parse_url, Refused, Ended, PortOf
<1> HIDE DEF x, g
<1> QED  BY <1>1 DEF x, g

\* A URL that has been divided into its parts, whatever they are.
Divided(buf, u) ==
  \E b, c, x, e, p, q \in Nat :
    /\ SchemaPart(buf, u, b) /\ UserTo(buf, u, b, c) /\ HostPiece(buf, u, c, x) /\ PortPart(buf, u, x, e)
    /\ PathPart(buf, u, e, p) /\ QueryPart(buf, u, p, q) /\ EndPart(buf, u, q, Len(buf))
\* The parts behind the authority rest on their own fields only.
LEMMA PartsAlike ==
  ASSUME NEW buf, NEW u, NEW v, Alike(u, v, {"UF_PATH", "UF_QUERY", "UF_FRAGMENT"})
  PROVE  /\ \A e, p : PathPart(buf, u, e, p) => PathPart(buf, v, e, p)
         /\ \A p, q : QueryPart(buf, u, p, q) => QueryPart(buf, v, p, q)
         /\ \A q, n : EndPart(buf, u, q, n) => EndPart(buf, v, q, n)
<1> DEFINE S == {"UF_PATH", "UF_QUERY", "UF_FRAGMENT"}
<1>1. \A f \in S : (f \in v.set <=> f \in u.set) /\ \A a, b : Within(u, f, a, b) => Within(v, f, a, b)
  BY DEF Alike, Within
<1>2. \A e, p : PathPart(buf, u, e, p) => PathPart(buf, v, e, p)
  BY <1>1 DEF PathPart
<1>3. \A p, q : QueryPart(buf, u, p, q) => QueryPart(buf, v, p, q)
  BY <1>1 DEF QueryPart
<1>4. \A q, n : EndPart(buf, u, q, n) => EndPart(buf, v, q, n)
  BY <1>1 DEF EndPart
<1> QED  BY <1>2, <1>3, <1>4

\* A division rests on the places of the fields only.
LEMMA DividedAlike ==
  ASSUME NEW buf, NEW u, NEW v, Alike(u, v, Fields), Divided(buf, u)
  PROVE  Divided(buf, v)
<1>1. PICK b \in Nat, c \in Nat, x \in Nat, e \in Nat, p \in Nat, q \in Nat :
    /\ SchemaPart(buf, u, b) /\ UserTo(buf, u, b, c) /\ HostPiece(buf, u, c, x) /\ PortPart(buf, u, x, e)
    /\ PathPart(buf, u, e, p) /\ QueryPart(buf, u, p, q) /\ EndPart(buf, u, q, Len(buf))
  BY DEF Divided
<1>2. \A f \in Fields : (f \in v.set <=> f \in u.set) /\ \A i, j : Within(u, f, i, j) => Within(v, f, i, j)
  BY DEF Alike, Within
<1>3. SchemaPart(buf, v, b)
  BY <1>1, <1>2 DEF SchemaPart, Fields
<1>4. UserTo(buf, v, b, c)
  BY <1>1, <1>2 DEF UserTo, Fields
<1>5. HostPiece(buf, v, c, x)
  BY <1>1, <1>2 DEF HostPiece, BracketedPart, Fields
<1>6. PortPart(buf, v, x, e)
  BY <1>1, <1>2 DEF PortPart, Fields
<1>7. Alike(u, v, {"UF_PATH", "UF_QUERY", "UF_FRAGMENT"})
  BY DEF Alike, Fields
<1>8. PathPart(buf, v, e, p) /\ QueryPart(buf, v, p, q) /\ EndPart(buf, v, q, Len(buf))
  BY <1>1, <1>7, PartsAlike
<1> QED  BY <1>3, <1>4, <1>5, <1>6, <1>8 DEF Divided

\* A URL that has been divided into its parts is made up of its fields, which lie in it.
LEMMA DividedReads ==
  ASSUME NEW Char, NEW buf \in Seq(Char), NEW u, u.set \subseteq Fields, Divided(buf, u)
  PROVE  InBuffer(buf, u) /\ buf \in Readings(buf, u)
<1> DEFINE n == Len(buf)
<1>0. n \in Nat
  OBVIOUS
<1>1. PICK b \in Nat, c \in Nat, x \in Nat, e \in Nat, p \in Nat, q \in Nat :
    /\ SchemaPart(buf, u, b) /\ UserTo(buf, u, b, c) /\ HostPiece(buf, u, c, x) /\ PortPart(buf, u, x, e)
    /\ PathPart(buf, u, e, p) /\ QueryPart(buf, u, p, q) /\ EndPart(buf, u, q, n)
  BY DEF Divided
<1>2. Cutting(buf, q, n) /\ Piece(buf, q, n) \in EndTexts(buf, u) /\ Fits(buf, u, "UF_FRAGMENT")
  BY <1>1, EndRead
<1> HIDE DEF n
<1>3. Cutting(buf, p, q) /\ Piece(buf, p, q) \in QueryTexts(buf, u) /\ Fits(buf, u, "UF_QUERY")
  <2>1. q <= Len(buf)
    BY <1>0, <1>2 DEF Cutting, n
  <2> QED  BY <1>1, <2>1, QueryRead
<1>4. Cutting(buf, e, p) /\ Piece(buf, e, p) \in PathTexts(buf, u) /\ Fits(buf, u, "UF_PATH")
  <2>1. p <= Len(buf)
    BY <1>0, <1>3 DEF Cutting, n
  <2> QED  BY <1>1, <2>1, PathRead
<1>5. Cutting(buf, x, e) /\ Piece(buf, x, e) \in PortTexts(buf, u) /\ Fits(buf, u, "UF_PORT")
  <2>1. e <= Len(buf)
    BY <1>0, <1>4 DEF Cutting, n
  <2> QED  BY <1>1, <2>1, PortRead
<1>6. Cutting(buf, c, x) /\ Piece(buf, c, x) \in HostTexts(buf, u) /\ Fits(buf, u, "UF_HOST")
  <2>1. x <= Len(buf)
    BY <1>0, <1>5 DEF Cutting, n
  <2> QED  BY <1>1, <2>1, HostRead
<1>7. Cutting(buf, b, c) /\ Piece(buf, b, c) \in UserTexts(buf, u) /\ Fits(buf, u, "UF_USERINFO")
  <2>1. c <= Len(buf)
    BY <1>0, <1>6 DEF Cutting, n
  <2> QED  BY <1>1, <2>1, UserRead
<1>8. Cutting(buf, 0, b) /\ Piece(buf, 0, b) \in SchemaTexts(buf, u) /\ Fits(buf, u, "UF_SCHEMA")
  <2>1. b <= Len(buf)
    BY <1>0, <1>7 DEF Cutting, n
  <2> QED  BY <1>1, <2>1, SchemaRead
<1>9. InBuffer(buf, u)
  BY <1>2, <1>3, <1>4, <1>5, <1>6, <1>7, <1>8 DEF InBuffer, Fits, Fields
<1>10. Piece(buf, 0, b) \o Piece(buf, b, c) = Piece(buf, 0, c) /\ Cutting(buf, 0, c)
  BY <1>7, <1>8, Pieces
<1>11. Piece(buf, 0, c) \o Piece(buf, c, x) = Piece(buf, 0, x) /\ Cutting(buf, 0, x)
  BY <1>6, <1>10, Pieces
<1>12. Piece(buf, 0, x) \o Piece(buf, x, e) = Piece(buf, 0, e) /\ Cutting(buf, 0, e)
  BY <1>5, <1>11, Pieces
<1>13. Piece(buf, 0, e) \o Piece(buf, e, p) = Piece(buf, 0, p) /\ Cutting(buf, 0, p)
  BY <1>4, <1>12, Pieces
<1>14. Piece(buf, 0, p) \o Piece(buf, p, q) = Piece(buf, 0, q) /\ Cutting(buf, 0, q)
  BY <1>3, <1>13, Pieces
<1>15. Piece(buf, 0, q) \o Piece(buf, q, n) = Piece(buf, 0, n) /\ Cutting(buf, 0, n)
  BY <1>2, <1>14, Pieces
<1>16. Piece(buf, 0, n) = buf
  <2>1. Piece(buf, 0, n) \in Seq(Char) /\ Len(Piece(buf, 0, n)) = n - 0
        /\ \A k \in 1 .. n - 0 : Piece(buf, 0, n)[k] = buf[0 + k]
    BY <1>15, PieceIs
  <2>2. n - 0 = n /\ \A k \in 1 .. n : 0 + k = k
    BY <1>0
  <2>3. Len(Piece(buf, 0, n)) = Len(buf) /\ \A k \in 1 .. Len(buf) : Piece(buf, 0, n)[k] = buf[k]
    BY <2>1, <2>2 DEF n
  <2> QED  BY <2>1, <2>3, SameSeq
<1>17. Piece(buf, 0, b) \o Piece(buf, b, c) \o Piece(buf, c, x) \o Piece(buf, x, e) \o Piece(buf, e, p)
         \o Piece(buf, p, q) \o Piece(buf, q, n) = buf
  BY <1>10, <1>11, <1>12, <1>13, <1>14, <1>15, <1>16, Zenon
<1>18. Piece(buf, 0, b) \o Piece(buf, b, c) \o Piece(buf, c, x) \o Piece(buf, x, e) \o Piece(buf, e, p)
         \o Piece(buf, p, q) \o Piece(buf, q, n) \in Readings(buf, u)
  BY <1>2, <1>3, <1>4, <1>5, <1>6, <1>7, <1>8, ReadingsAre
<1> QED  BY <1>9, <1>17, <1>18, Zenon

\* What a first pass that is not refused leaves: the authority to come, and the rest.
LEMMA ScanDivides ==
  ASSUME NEW buf, NEW cn \in BOOLEAN, NEW x \in Scans, Len(buf) \in Nat, Len(buf) = 0 => buf = <<>>,
         At(buf, cn, x, Len(buf)), ~Refused(buf, x)
  PROVE  /\ \E q \in Nat : QueryTo(buf, cn, x.u, q) /\ EndPart(buf, x.u, q, Len(buf))
         /\ Lacks(x.u, {"UF_PORT", "UF_USERINFO"})
<1> DEFINE n == Len(buf)
           u == x.u
<1>1. x.s \in UrlStates /\ n \in Nat /\ n # 0 /\ x.s # "s_dead"
      /\ u.set \cap {"UF_SCHEMA", "UF_HOST"} # {"UF_SCHEMA"}
  BY DEF Refused, Scans
<1>2. At(buf, cn, x, n)
  OBVIOUS
<1> HIDE DEF n
<1>3. "UF_FRAGMENT" \notin u.set => \A q \in Nat : q = n => EndPart(buf, u, q, n)
  <2>1. \A k \in n + 1 .. n : FALSE
    BY <1>1
  <2> QED  BY <1>1, <2>1 DEF EndPart
<1>4. CASE x.s = "s_req_server_start"
  <2>1. SchemaTo(buf, cn, u, n) /\ u.set \subseteq {"UF_SCHEMA"}
    BY <1>2, <1>4 DEF At
  <2>2. CASE cn
    BY <1>1, <2>1, <2>2 DEF SchemaTo
  <2>3. CASE ~cn
    <3>1. "UF_SCHEMA" \in u.set
      BY <2>1, <2>3 DEF SchemaTo, Within
    <3> QED  BY <1>1, <2>1, <3>1
  <2> QED  BY <2>2, <2>3
<1>5. CASE x.s \in {"s_req_spaces_before_url", "s_req_schema", "s_req_schema_slash", "s_req_schema_slash_slash"}
  BY <1>1, <1>2, <1>5 DEF At
<1>6. CASE x.s \in {"s_req_server", "s_req_server_with_at"}
  <2>1. HostFrom(buf, cn, u, n) /\ u.set \subseteq {"UF_SCHEMA", "UF_HOST"}
    BY <1>2, <1>6 DEF At
  <2>2. QueryTo(buf, cn, u, n)
    BY <2>1 DEF FrontTo, PathTo, QueryTo
  <2> QED  BY <1>1, <1>3, <2>1, <2>2 DEF Lacks, n
<1>7. CASE x.s = "s_req_path"
  <2>1. PathFrom(buf, cn, u, n) /\ Lacks(u, {"UF_QUERY", "UF_FRAGMENT", "UF_PORT", "UF_USERINFO"})
    BY <1>2, <1>7 DEF At, Lacks
  <2>2. QueryTo(buf, cn, u, n)
    BY <2>1 DEF PathTo, QueryTo, Lacks
  <2> QED  BY <1>1, <1>3, <2>1, <2>2 DEF Lacks, n
<1>8. CASE x.s = "s_req_query_string_start"
  <2>1. n > 0 /\ PathTo(buf, cn, u, n - 1) /\ buf[n] = "?"
        /\ Lacks(u, {"UF_QUERY", "UF_FRAGMENT", "UF_PORT", "UF_USERINFO"})
    BY <1>2, <1>8 DEF At, Lacks
  <2>2. QueryTo(buf, cn, u, n)
    BY <2>1 DEF QueryTo, Lacks
  <2> QED  BY <1>1, <1>3, <2>1, <2>2 DEF Lacks, n
<1>9. CASE x.s = "s_req_query_string"
  <2>1. QueryFrom(buf, cn, u, n) /\ Lacks(u, {"UF_FRAGMENT", "UF_PORT", "UF_USERINFO"})
    BY <1>2, <1>9 DEF At, Lacks
  <2> QED  BY <1>1, <1>3, <2>1 DEF QueryTo, Lacks, n
<1>10. CASE x.s = "s_req_fragment_start"
  <2>1. HashesTo(buf, cn, u, n) /\ Lacks(u, {"UF_FRAGMENT", "UF_PORT", "UF_USERINFO"})
    BY <1>2, <1>10 DEF At, Lacks
  <2>2. PICK q \in Nat : QueryTo(buf, cn, u, q) /\ q < n /\ \A k \in q + 1 .. n : buf[k] = "#"
    BY <2>1 DEF HashesTo
  <2>3. EndPart(buf, u, q, n)
    BY <1>1, <2>1, <2>2 DEF EndPart, Lacks
  <2> QED  BY <2>1, <2>2, <2>3 DEF Lacks, n
<1>11. CASE x.s = "s_req_fragment"
  <2>1. FragmentFrom(buf, cn, u, n) /\ Lacks(u, {"UF_PORT", "UF_USERINFO"})
    BY <1>2, <1>11 DEF At
  <2>2. PICK h \in Nat : HashesTo(buf, cn, u, h) /\ Within(u, "UF_FRAGMENT", h, n)
    BY <2>1 DEF FragmentFrom
  <2>3. PICK q \in Nat : QueryTo(buf, cn, u, q) /\ q < h /\ \A k \in q + 1 .. h : buf[k] = "#"
    BY <2>2 DEF HashesTo
  <2>4. EndPart(buf, u, q, n)
    BY <2>2, <2>3 DEF EndPart
  <2> QED  BY <2>1, <2>3, <2>4 DEF n
<1> QED  BY <1>1, <1>4, <1>5, <1>6, <1>7, <1>8, <1>9, <1>10, <1>11 DEF UrlStates

\* What a second pass that ends where it may leaves.
PortDigits(buf, v) == "UF_PORT" \in v.set => Numeral(Text(buf, v, "UF_PORT"))
HostDivision(buf, v, b, e) ==
  /\ \E c, x \in Nat : UserTo(buf, v, b, c) /\ HostPiece(buf, v, c, x) /\ PortPart(buf, v, x, e)
  /\ PortDigits(buf, v)
\* A host that ends somewhere lies between the userinfo and this place.
LEMMA HostToIs ==
  ASSUME NEW buf, NEW v, NEW b, NEW x, HostTo(buf, v, b, x)
  PROVE  \E c \in Nat : UserTo(buf, v, b, c) /\ HostPiece(buf, v, c, x)
<1>1. CASE PlainTo(buf, v, b, x)
  BY <1>1 DEF PlainTo, HostPiece
<1>2. CASE x > 0 /\ OpenTo(buf, v, b, x - 1) /\ buf[x] = "]"
  BY <1>2 DEF OpenTo, HostPiece, BracketedPart
<1> QED  BY <1>1, <1>2 DEF HostTo

\* A second pass that ended well divided the host field, and its port is digits.
LEMMA HostDivides ==
  ASSUME NEW Char, NEW buf \in Seq(Char), NEW r \in Urls, NEW found_at, NEW b \in Nat, NEW e \in Nat,
         Within(r, "UF_HOST", b, e), e < UINT16, e <= Len(buf), Lacks(r, {"UF_PORT", "UF_USERINFO"}),
         http_parse_host(buf, r, found_at).s \in HostEnds
  PROVE  LET v == http_parse_host(buf, r, found_at).u
         IN v \in Urls /\ Keeps(r, v) /\ HostDivision(buf, v, b, e)
<1> DEFINE m == r.len["UF_HOST"]
<1>1. r.off["UF_HOST"] = b /\ m = e - b /\ "UF_HOST" \in r.set /\ b < e /\ m \in Nat /\ b + m = e
  BY DEF Within
<1>2. PICK g : HostScanned(g, buf, r, found_at) /\ http_parse_host(buf, r, found_at) = g[m]
  BY HostScanIs
<1> HIDE DEF m
<1>3. \A n \in 0 .. m : g[n].s # "s_http_host_dead" => HostAt(buf, r, b, g[n], b + n)
  <2>1. b + m < UINT16
    BY <1>1
  <2> QED  BY <1>1, <1>2, <2>1, HostScanAt DEF m
<1> DEFINE y == g[m]
           v == y.u
<1>4. y.s \in HostEnds /\ y \in HostScans
  BY <1>1, <1>2 DEF HostScanned, m
<1>5. y.s # "s_http_host_dead"
  BY <1>4 DEF HostEnds
<1>6. HostAt(buf, r, b, y, e)
  <2>1. m \in 0 .. m
    BY <1>1
  <2> QED  BY <1>1, <1>3, <1>5, <2>1
<1> HIDE DEF y
<1>7. v \in Urls /\ Keeps(r, v) /\ HostPart(buf, b, y, e)
  BY <1>4, <1>6 DEF HostScans, HostAt
<1>8. CASE y.s # "s_http_host_port"
  <2>1. HostTo(buf, v, b, e) /\ "UF_PORT" \notin v.set
    BY <1>4, <1>7, <1>8 DEF HostEnds, HostPart, HostTo
  <2>2. \E c \in Nat : UserTo(buf, v, b, c) /\ HostPiece(buf, v, c, e)
    BY <2>1, HostToIs
  <2> QED  BY <1>2, <1>7, <2>1, <2>2 DEF HostDivision, PortDigits, PortPart, y
<1>9. CASE y.s = "s_http_host_port"
  <2>1. PortTo(buf, v, b, e)
    BY <1>7, <1>9 DEF HostPart
  <2>2. PICK x \in Nat : /\ HostTo(buf, v, b, x) /\ buf[x + 1] = ":" /\ Within(v, "UF_PORT", x + 1, e)
                         /\ \A k \in x + 2 .. e : IsNum(buf[k])
    BY <2>1 DEF PortTo
  <2>3. \E c \in Nat : UserTo(buf, v, b, c) /\ HostPiece(buf, v, c, x)
    BY <2>2, HostToIs
  <2>4. PortPart(buf, v, x, e)
    BY <2>2 DEF PortPart
  <2> DEFINE a == x + 1
  <2>5. a \in Nat /\ a < e /\ Within(v, "UF_PORT", a, e) /\ Len(buf) \in Nat
    BY <2>2 DEF Within
  <2>6. FieldText(buf, v, "UF_PORT") = Piece(buf, a, e) /\ "UF_PORT" \in v.set /\ Cutting(buf, a, e)
    BY <2>2, <2>5, WithinIs
  <2>7. Len(Piece(buf, a, e)) = e - a /\ \A k \in 1 .. e - a : Piece(buf, a, e)[k] = buf[a + k]
    BY <2>6, PieceIs
  <2>8. e - a \in Nat /\ \A k \in 1 .. e - a : a + k \in x + 2 .. e
    BY <2>5
  <2> HIDE DEF a
  <2>9. Numeral(Piece(buf, a, e))
    BY <2>2, <2>7, <2>8 DEF Numeral
  <2>10. Numeral(Text(buf, v, "UF_PORT"))
    BY <2>6, <2>9 DEF FieldText
  <2> QED  BY <1>2, <1>7, <2>3, <2>4, <2>10 DEF HostDivision, PortDigits, y
<1> QED  BY <1>8, <1>9

\* What a parse that ended well leaves of the fields it ended with.
EndsWith(buf, cn, r, w) ==
  /\ w.set = r.set /\ Alike(r, w, Fields) /\ w.port = PortOf(buf, r) /\ w.port <= MaxPort
  /\ Text(buf, w, "UF_PORT") = Text(buf, r, "UF_PORT")
  /\ cn => r.set = {"UF_HOST", "UF_PORT"}
\* A parse that ended well has changed nothing but the port, which has its value.
LEMMA EndedIs ==
  ASSUME NEW buf, NEW cn \in BOOLEAN, NEW r \in Urls, PortDigits(buf, r), Ended(buf, cn, r).ret = 0
  PROVE  EndsWith(buf, cn, r, Ended(buf, cn, r).u)
<1> DEFINE v == PortOf(buf, r)
           w == [r EXCEPT !.port = v]
<1>1. v \in Nat
  BY PortIsNumber DEF PortOf, PortDigits
<1>2. ~((cn /\ r.set # {"UF_HOST", "UF_PORT"}) \/ v > MaxPort)
  BY DEF Ended
<1>3. Ended(buf, cn, r) = [ret |-> 0, u |-> w]
  BY <1>2 DEF Ended
<1> HIDE DEF v
<1>4. w.set = r.set /\ w.off = r.off /\ w.len = r.len /\ w.port = v
  BY DEF Urls
<1> HIDE DEF w
<1>5. Ended(buf, cn, r).u = w
  BY <1>3
<1>6. v <= MaxPort
  BY <1>1, <1>2, UrlWidthAssumption
<1>7. Alike(r, w, Fields)
  BY <1>4 DEF Alike
<1>8. Text(buf, w, "UF_PORT") = Text(buf, r, "UF_PORT")
  BY <1>4, Zenon DEF Text
<1> QED  BY <1>2, <1>4, <1>5, <1>6, <1>7, <1>8 DEF v, EndsWith

\* Every URL the offsets can count is refused by http_parser_parse_url, or its fields lie in
\* it, make it up, and its scheme, host and port go together.
THEOREM UrlsParsedRight ==
  ASSUME NEW Char, NEW buf \in Seq(Char), Len(buf) < UINT16, NEW cn \in BOOLEAN
  PROVE  FieldsRight(buf, cn)
<1> DEFINE parsed == http_parser_parse_url(buf, cn)
           x == Scan(buf, cn)
           n == Len(buf)
           g == http_parse_host(buf, x.u, x.found_at)
<1>0. n \in Nat /\ (n = 0 => buf = <<>>)
  OBVIOUS
<1> SUFFICES ASSUME parsed.ret = 0
             PROVE  InBuffer(buf, parsed.u) /\ buf \in Readings(buf, parsed.u) /\ Authority(buf, cn, parsed.u)
  BY DEF FieldsRight
<1>1. /\ Refused(buf, x) => parsed = [ret |-> 1, u |-> x.u]
      /\ ~Refused(buf, x) /\ "UF_HOST" \in x.u.set /\ g.s \notin HostEnds => parsed = [ret |-> 1, u |-> g.u]
      /\ ~Refused(buf, x) /\ "UF_HOST" \in x.u.set /\ g.s \in HostEnds => parsed = Ended(buf, cn, g.u)
      /\ ~Refused(buf, x) /\ "UF_HOST" \notin x.u.set => parsed = Ended(buf, cn, x.u)
  BY ParseIs
<1>2. PICK f : Scanned(f, buf, cn) /\ x = f[n]
  BY <1>0, ScanIs
<1> HIDE DEF x, g, parsed, n
<1>3. ~Refused(buf, x) /\ ("UF_HOST" \in x.u.set => g.s \in HostEnds)
  BY <1>1
<1>4. x \in Scans /\ x.u \in Urls
  <2>1. n \in 0 .. n
    BY <1>0
  <2>2. x \in Scans
    BY <1>2, <2>1 DEF Scanned, n
  <2> QED  BY <2>2 DEF Scans
<1>5. At(buf, cn, x, n)
  <2>1. n \in 0 .. n /\ x.s # "s_dead"
    BY <1>0, <1>3 DEF Refused
  <2>2. \A k \in 0 .. n : f[k].s # "s_dead" => At(buf, cn, f[k], k)
    BY <1>0, <1>2, ScanAt DEF n
  <2> QED  BY <1>2, <2>1, <2>2
<1>6. PICK q \in Nat : QueryTo(buf, cn, x.u, q) /\ EndPart(buf, x.u, q, n)
  BY <1>0, <1>3, <1>4, <1>5, ScanDivides DEF n
<1>7. Lacks(x.u, {"UF_PORT", "UF_USERINFO"})
  BY <1>0, <1>3, <1>4, <1>5, ScanDivides DEF n
<1>8. PICK p \in Nat : PathTo(buf, cn, x.u, p) /\ QueryPart(buf, x.u, p, q)
  <2>1. CASE QueryFrom(buf, cn, x.u, q)
    BY <2>1 DEF QueryFrom, QueryPart
  <2>2. CASE "UF_QUERY" \notin x.u.set /\ PathTo(buf, cn, x.u, q)
    BY <2>2 DEF QueryPart
  <2>3. CASE "UF_QUERY" \notin x.u.set /\ q > 0 /\ PathTo(buf, cn, x.u, q - 1) /\ buf[q] = "?"
    <3>1. q - 1 \in Nat /\ q = (q - 1) + 1
      BY <2>3
    <3> QED  BY <2>3, <3>1 DEF QueryPart
  <2> QED  BY <1>6, <2>1, <2>2, <2>3 DEF QueryTo
<1>9. PICK e \in Nat : FrontTo(buf, cn, x.u, e) /\ PathPart(buf, x.u, e, p)
  BY <1>8 DEF PathTo, PathFrom, PathPart
<1>10. CASE "UF_HOST" \notin x.u.set
  <2>1. parsed = Ended(buf, cn, x.u) /\ "UF_PORT" \notin x.u.set /\ "UF_USERINFO" \notin x.u.set
    BY <1>1, <1>3, <1>7, <1>10 DEF Lacks
  <2> DEFINE w == parsed.u
  <2>2. /\ w.set = x.u.set /\ Alike(x.u, w, Fields) /\ w.port = PortOf(buf, x.u) /\ w.port <= MaxPort
        /\ cn => x.u.set = {"UF_HOST", "UF_PORT"}
    <3>1. PortDigits(buf, x.u)
      BY <2>1 DEF PortDigits
    <3>2. EndsWith(buf, cn, x.u, Ended(buf, cn, x.u).u)
      <4>1. x.u \in Urls /\ Ended(buf, cn, x.u).ret = 0
        BY <1>4, <2>1
      <4> QED  BY <3>1, <4>1, EndedIs
    <3> QED  BY <2>1, <3>2 DEF EndsWith
  <2>3. ~cn
    BY <1>10, <2>2
  <2>4. "UF_SCHEMA" \notin x.u.set /\ e = 0
    <3>1. "UF_SCHEMA" \notin x.u.set
      BY <1>3, <1>10 DEF Refused
    <3>2. ~SchemaTo(buf, cn, x.u, e)
      BY <2>3, <3>1 DEF SchemaTo, Within
    <3>3. ~HostFrom(buf, cn, x.u, e)
      BY <1>10 DEF HostFrom, Within
    <3> QED  BY <1>9, <3>1, <3>2, <3>3 DEF FrontTo
  <2>5. SchemaPart(buf, x.u, 0) /\ UserTo(buf, x.u, 0, 0) /\ HostPiece(buf, x.u, 0, 0) /\ PortPart(buf, x.u, 0, e)
    BY <1>10, <2>1, <2>4 DEF SchemaPart, UserTo, HostPiece, PortPart
  <2>6. Divided(buf, x.u)
    BY <1>6, <1>8, <1>9, <2>5 DEF Divided, n
  <2>7. Divided(buf, w)
    BY <2>2, <2>6, DividedAlike
  <2>8. w.set \subseteq Fields
    BY <1>4, <2>2 DEF Urls
  <2>9. Authority(buf, cn, w)
    BY <1>10, <2>1, <2>2, <2>3, <2>4 DEF Authority
  <2> QED  BY <2>7, <2>8, <2>9, DividedReads
<1>11. CASE "UF_HOST" \in x.u.set
  <2>1. PICK b \in Nat : SchemaTo(buf, cn, x.u, b) /\ Within(x.u, "UF_HOST", b, e)
    BY <1>9, <1>11 DEF FrontTo, HostFrom
  <2>2. e <= n
    <3>1. Cutting(buf, q, n)
      BY <1>6, EndRead DEF n
    <3>2. q <= Len(buf)
      BY <1>0, <3>1 DEF Cutting, n
    <3>3. Cutting(buf, p, q)
      BY <1>8, <3>2, QueryRead
    <3>4. p <= Len(buf)
      BY <1>0, <3>3 DEF Cutting, n
    <3>5. Cutting(buf, e, p)
      BY <1>9, <3>4, PathRead
    <3> QED  BY <1>0, <3>4, <3>5 DEF Cutting, n
  <2>3. g.u \in Urls /\ Keeps(x.u, g.u) /\ HostDivision(buf, g.u, b, e)
    <3>1. e < UINT16 /\ e <= Len(buf)
      BY <1>0, <2>2, UrlWidthAssumption DEF n
    <3>2. g.s \in HostEnds
      BY <1>3, <1>11
    <3> QED  BY <1>4, <1>7, <2>1, <3>1, <3>2, HostDivides DEF g
  <2> HIDE DEF g
  <2> DEFINE v == g.u
             w == parsed.u
  <2>4. PICK c \in Nat, y \in Nat : UserTo(buf, v, b, c) /\ HostPiece(buf, v, c, y) /\ PortPart(buf, v, y, e)
    BY <2>3 DEF HostDivision
  <2>5. parsed = Ended(buf, cn, v)
    BY <1>1, <1>3, <1>11
  <2>6. /\ w.set = v.set /\ Alike(v, w, Fields) /\ w.port = PortOf(buf, v) /\ w.port <= MaxPort
        /\ Text(buf, w, "UF_PORT") = Text(buf, v, "UF_PORT")
        /\ cn => v.set = {"UF_HOST", "UF_PORT"}
    <3>1. PortDigits(buf, v)
      BY <2>3 DEF HostDivision
    <3>2. v \in Urls /\ Ended(buf, cn, v).ret = 0
      BY <2>3, <2>5
    <3>3. EndsWith(buf, cn, v, Ended(buf, cn, v).u)
      BY <3>1, <3>2, EndedIs
    <3> QED  BY <2>5, <3>3 DEF EndsWith
  <2>7. /\ Alike(x.u, v, {"UF_SCHEMA"}) /\ Alike(x.u, v, {"UF_PATH", "UF_QUERY", "UF_FRAGMENT"})
        /\ "UF_HOST" \in v.set
    BY <2>3 DEF Keeps, Alike, Fields
  <2>8. SchemaTo(buf, cn, v, b)
    BY <2>1, <2>7, FrontAlike
  <2>9. SchemaPart(buf, v, b) /\ (cn <=> "UF_SCHEMA" \notin v.set)
    BY <2>8 DEF SchemaTo, SchemaPart, Within
  <2>10. PathPart(buf, v, e, p) /\ QueryPart(buf, v, p, q) /\ EndPart(buf, v, q, n)
    BY <1>6, <1>8, <1>9, <2>7, PartsAlike
  <2>11. Divided(buf, v)
    BY <2>4, <2>9, <2>10 DEF Divided, n
  <2>12. Divided(buf, w)
    BY <2>6, <2>11, DividedAlike
  <2>13. w.set \subseteq Fields
    BY <2>3, <2>6 DEF Urls
  <2>14. Authority(buf, cn, w)
    <3>1. "UF_SCHEMA" \in w.set \/ cn <=> "UF_HOST" \in w.set
      BY <2>6, <2>7, <2>9
    <3>2. ASSUME "UF_PORT" \in w.set
          PROVE  /\ w.port = NumberOf(Text(buf, w, "UF_PORT"))
                 /\ \A k \in DOMAIN Text(buf, w, "UF_PORT") : IsNum(Text(buf, w, "UF_PORT")[k])
      <4> DEFINE d == Text(buf, w, "UF_PORT")
      <4>1. Numeral(d) /\ "UF_PORT" \in v.set
        BY <2>3, <2>6, <3>2 DEF HostDivision, PortDigits
      <4>2. w.port = PortValue(d) /\ PortValue(d) <= MaxPort
        BY <2>6, <4>1 DEF PortOf
      <4>3. w.port = NumberOf(d)
        <5> HIDE DEF d
        <5> QED  BY <4>1, <4>2, PortIsNumber
      <4>4. DOMAIN d = 1 .. Len(d)
        OBVIOUS
      <4> QED  BY <4>1, <4>3, <4>4 DEF Numeral
    <3> QED  BY <2>6, <2>7, <3>1, <3>2 DEF Authority
  <2> QED  BY <2>12, <2>13, <2>14, DividedReads
<1> QED  BY <1>10, <1>11

---------------------------------------------------------------------------
(* What the client asks for. *)
\* A port that is not zero comes from a URL that was parsed.
LEMMA PortMeansParsed ==
  ASSUME NEW buf, Len(buf) \in Nat, NEW cn \in BOOLEAN, Port(http_parser_parse_url(buf, cn).u) # 0
  PROVE  http_parser_parse_url(buf, cn).ret = 0
<1> DEFINE parsed == http_parser_parse_url(buf, cn)
           x == Scan(buf, cn)
           g == http_parse_host(buf, x.u, x.found_at)
           n == Len(buf)
<1>1. /\ Refused(buf, x) => parsed = [ret |-> 1, u |-> x.u]
      /\ ~Refused(buf, x) /\ "UF_HOST" \in x.u.set /\ g.s \notin HostEnds => parsed = [ret |-> 1, u |-> g.u]
      /\ ~Refused(buf, x) /\ "UF_HOST" \in x.u.set /\ g.s \in HostEnds => parsed = Ended(buf, cn, g.u)
      /\ ~Refused(buf, x) /\ "UF_HOST" \notin x.u.set => parsed = Ended(buf, cn, x.u)
  BY ParseIs
<1>2. PICK f : Scanned(f, buf, cn) /\ x = f[n]
  BY ScanIs
<1> HIDE DEF x
<1>3. x.u \in Urls
  <2>1. x \in Scans
    BY <1>2 DEF Scanned
  <2> QED  BY <2>1 DEF Scans
<1>4. g.u \in Urls
  <2>1. PICK h : HostScanned(h, buf, x.u, x.found_at) /\ g = h[x.u.len["UF_HOST"]]
    BY <1>3, HostScanIs
  <2> HIDE DEF g
  <2>2. x.u.len["UF_HOST"] \in Nat
    BY <1>3 DEF Urls, Fields
  <2>3. h[x.u.len["UF_HOST"]] \in HostScans
    BY <2>1, <2>2 DEF HostScanned
  <2> QED  BY <2>1, <2>3 DEF HostScans
<1> HIDE DEF g, parsed
<1>5. ASSUME NEW r \in Urls PROVE Port(r) = 0 /\ (Ended(buf, cn, r).ret # 0 => Port(Ended(buf, cn, r).u) = 0)
  <2>1. Port(r) = 0
    BY DEF Port, Urls
  <2>2. Ended(buf, cn, r).ret # 0 => Ended(buf, cn, r).u = r
    BY DEF Ended
  <2> QED  BY <2>1, <2>2
<1>6. Port(parsed.u) # 0
  BY DEF parsed
<1>7. parsed.ret = 0
  <2>1. CASE Refused(buf, x)
    BY <1>1, <1>3, <1>5, <1>6, <2>1
  <2>2. CASE ~Refused(buf, x) /\ "UF_HOST" \notin x.u.set
    BY <1>1, <1>3, <1>5, <1>6, <2>2
  <2>3. CASE ~Refused(buf, x) /\ "UF_HOST" \in x.u.set
    BY <1>1, <1>4, <1>5, <1>6, <2>3
  <2> QED  BY <2>1, <2>2, <2>3
<1> QED  BY <1>7 DEF parsed

\* A field that is not set has no characters in the first pass.
Bare(x) == /\ x.old = "none" \/ x.old \in x.u.set
           /\ \A f \in Fields : f \notin x.u.set => x.u.len[f] = 0
\* A character keeps the first pass so: the field it belongs to is set.
LEMMA UrlStepBare ==
  ASSUME NEW x \in Scans, NEW ch, Bare(x)
  PROVE  Bare(UrlStep(x, ch))
<1> DEFINE s == parse_url_char(x.s, ch)
           f == FieldOf(s)
           i == x.i + 1
           y == UrlStep(x, ch)
<1>1. CASE x.s = "s_dead"
  BY <1>1 DEF UrlStep
<1>2. CASE x.s # "s_dead"
  <2>1. f \in Fields \cup {"none"} /\ x.old \in Fields \cup {"none"} /\ x.u \in Urls
    BY DEF FieldOf, Fields, Scans
  <2>2. /\ y.old = IF f = "none" THEN x.old ELSE f
        /\ y.u = IF f = "none" THEN x.u ELSE IF f = x.old THEN More(x.u, f) ELSE Open(x.u, f, i)
    BY <1>2 DEF UrlStep
  <2> HIDE DEF f, i, y
  <2>3. CASE f = "none"
    BY <2>2, <2>3 DEF Bare, y
  <2>4. CASE f # "none" /\ f = x.old
    <3>1. f \in x.u.set /\ y.old = f /\ y.u = More(x.u, f)
      BY <2>2, <2>4 DEF Bare
    <3>2. More(x.u, f).set = x.u.set /\ \A g \in Fields \ {f} : More(x.u, f).len[g] = x.u.len[g]
      BY <2>1 DEF More, Urls
    <3> QED  BY <3>1, <3>2 DEF Bare, y
  <2>5. CASE f # "none" /\ f # x.old
    <3>1. y.old = f /\ y.u = Open(x.u, f, i)
      BY <2>2, <2>5
    <3>2. /\ Open(x.u, f, i).set = x.u.set \cup {f}
          /\ \A g \in Fields \ {f} : Open(x.u, f, i).len[g] = x.u.len[g]
      BY <2>1 DEF Open, Urls
    <3> QED  BY <3>1, <3>2 DEF Bare, y
  <2> QED  BY <2>1, <2>3, <2>4, <2>5
<1> QED  BY <1>1, <1>2

\* So it is at its end.
LEMMA ScanBare ==
  ASSUME NEW buf, Len(buf) \in Nat, NEW cn \in BOOLEAN
  PROVE  Scan(buf, cn) \in Scans /\ Bare(Scan(buf, cn))
<1>1. PICK f : Scanned(f, buf, cn) /\ Scan(buf, cn) = f[Len(buf)]
  BY ScanIs
<1> DEFINE G == {n \in 0 .. Len(buf) : Bare(f[n])}
<1>2. 0 \in G
  <2>1. f[0] = ScanStart(cn)
    BY <1>1 DEF Scanned
  <2> QED  BY <2>1 DEF ScanStart, url_init, Bare
<1>3. ASSUME NEW m \in 0 .. Len(buf) - 1, m \in G PROVE m + 1 \in G
  <2> DEFINE n == m + 1
  <2>1. n \in 1 .. Len(buf) /\ n \in 0 .. Len(buf) /\ n - 1 = m
    OBVIOUS
  <2>2. f[m] \in Scans /\ f[n] = UrlStep(f[m], buf[n])
    BY <1>1, <2>1 DEF Scanned
  <2>3. Bare(f[m])
    BY <1>3
  <2> HIDE DEF n
  <2>4. Bare(f[n])
    BY <2>2, <2>3, UrlStepBare
  <2> QED  BY <2>1, <2>4 DEF n
<1> HIDE DEF G
<1>4. \A n \in 0 .. Len(buf) : n \in G
  BY <1>2, <1>3, UpTo
<1> QED  BY <1>1, <1>4 DEF G, Scanned

\* The second pass leaves the path and the query alone.
Behinds == {"UF_PATH", "UF_QUERY"}
LEMMA HostLeaves ==
  ASSUME NEW buf, NEW r \in Urls, NEW found_at
  PROVE  LET g == http_parse_host(buf, r, found_at) IN g.u \in Urls /\ Alike(r, g.u, Behinds)
<1> DEFINE k == r.len["UF_HOST"]
           b == r.off["UF_HOST"]
<1>0. k \in Nat
  BY DEF Urls, Fields
<1>1. PICK h : HostScanned(h, buf, r, found_at) /\ http_parse_host(buf, r, found_at) = h[k]
  BY HostScanIs
<1> DEFINE G == {n \in 0 .. k : Alike(r, h[n].u, Behinds)}
<1>2. 0 \in G
  <2>1. h[0] = HostStart(r, found_at)
    BY <1>1 DEF HostScanned
  <2>2. h[0].u = [r EXCEPT !.len["UF_HOST"] = 0]
    BY <2>1 DEF HostStart
  <2>3. Alike(r, h[0].u, Behinds)
    BY <2>2 DEF Alike, Urls, Fields, Behinds
  <2> QED  BY <1>0, <2>3
<1>3. ASSUME NEW m \in 0 .. k - 1, m \in G PROVE m + 1 \in G
  <2> DEFINE n == m + 1
             x == h[m]
             ch == buf[b + n]
  <2>1. n \in 1 .. k /\ n \in 0 .. k /\ m \in 0 .. k /\ n - 1 = m
    BY <1>0
  <2>2. x \in HostScans /\ h[n] = HostStep(x, ch)
    BY <1>1, <2>1 DEF HostScanned
  <2>3. Alike(r, x.u, Behinds)
    BY <1>3
  <2> HIDE DEF n, x, ch
  <2>4. CASE x.s = "s_http_host_dead"
    BY <2>1, <2>2, <2>3, <2>4 DEF HostStep, n
  <2>5. CASE x.s # "s_http_host_dead"
    <3> DEFINE s == http_parse_host_char(x.s, ch)
    <3>1. h[n].u = HostMoved(x, s, x.i + 1)
      BY <2>2, <2>5, HostStepIs
    <3> HIDE DEF s
    <3>2. x.u \in Urls
      BY <2>2 DEF HostScans
    <3>3. /\ \A f \in Fields, i \in Int : f \notin Behinds =>
               Alike(x.u, More(x.u, f), Behinds) /\ Alike(x.u, Open(x.u, f, i), Behinds)
          /\ \A i \in Int : Alike(x.u, HostOpen(x.u, i), Behinds)
      BY <3>2 DEF Alike, More, Open, HostOpen, Urls, Fields, Behinds
    <3>4. x.i + 1 \in Int
      BY <2>2 DEF HostScans
    <3>5. Alike(x.u, HostMoved(x, s, x.i + 1), Behinds)
      BY <3>3, <3>4 DEF HostMoved, Fields, Behinds, Alike
    <3>6. Alike(r, h[n].u, Behinds)
      BY <2>3, <3>1, <3>5 DEF Alike
    <3> QED  BY <2>1, <3>6 DEF n
  <2> QED  BY <2>4, <2>5
<1> HIDE DEF G, k
<1>4. \A n \in 0 .. k : n \in G
  BY <1>0, <1>2, <1>3, UpTo
<1>5. h[k] \in HostScans /\ Alike(r, h[k].u, Behinds)
  BY <1>0, <1>1, <1>4 DEF G, HostScanned, k
<1> QED  BY <1>1, <1>5 DEF HostScans

\* A path or query that a URL has not got is an empty text.
LEMMA UnsetIsEmpty ==
  ASSUME NEW buf, Len(buf) \in Nat, NEW cn \in BOOLEAN, NEW f \in Behinds
  PROVE  LET u == http_parser_parse_url(buf, cn).u
         IN f \notin u.set => u.len[f] = 0 /\ u.off[f] \in Nat
<1> DEFINE parsed == http_parser_parse_url(buf, cn)
           x == Scan(buf, cn)
           g == http_parse_host(buf, x.u, x.found_at)
           Empty(u) == f \notin u.set => u.len[f] = 0 /\ u.off[f] \in Nat
<1>1. /\ Refused(buf, x) => parsed = [ret |-> 1, u |-> x.u]
      /\ ~Refused(buf, x) /\ "UF_HOST" \in x.u.set /\ g.s \notin HostEnds => parsed = [ret |-> 1, u |-> g.u]
      /\ ~Refused(buf, x) /\ "UF_HOST" \in x.u.set /\ g.s \in HostEnds => parsed = Ended(buf, cn, g.u)
      /\ ~Refused(buf, x) /\ "UF_HOST" \notin x.u.set => parsed = Ended(buf, cn, x.u)
  BY ParseIs
<1>2. x.u \in Urls /\ Bare(x)
  BY ScanBare DEF Scans
<1>3. g.u \in Urls /\ Alike(x.u, g.u, Behinds)
  BY <1>2, HostLeaves
<1> HIDE DEF x, g, parsed
<1>4. f \in Fields /\ Empty(x.u)
  BY <1>2 DEF Bare, Urls, Behinds, Fields
<1>5. Empty(g.u)
  BY <1>3, <1>4 DEF Alike, Urls
<1> HIDE DEF Empty
<1>6. ASSUME NEW r \in Urls, Empty(r) PROVE Empty(Ended(buf, cn, r).u)
  <2>1. \A v : [r EXCEPT !.port = v].set = r.set /\ [r EXCEPT !.port = v].len = r.len
               /\ [r EXCEPT !.port = v].off = r.off
    BY DEF Urls
  <2>2. Ended(buf, cn, r).u = r \/ \E v : Ended(buf, cn, r).u = [r EXCEPT !.port = v]
    BY DEF Ended
  <2> QED  BY <1>6, <2>1, <2>2 DEF Empty
<1>7. Empty(parsed.u)
  <2>1. CASE Refused(buf, x)
    BY <1>1, <1>4, <2>1
  <2>2. CASE ~Refused(buf, x) /\ "UF_HOST" \notin x.u.set
    BY <1>1, <1>2, <1>4, <1>6, <2>2
  <2>3. CASE ~Refused(buf, x) /\ "UF_HOST" \in x.u.set
    <3>1. Empty(Ended(buf, cn, g.u).u)
      BY <1>3, <1>5, <1>6
    <3> QED  BY <1>1, <1>5, <2>3, <3>1
  <2> QED  BY <2>1, <2>2, <2>3
<1> QED  BY <1>7 DEF Empty, parsed

\* What a request asks for a URL.
AskedOf(url, host, port, path) ==
  LET parsed == http_parser_parse_url(url, FALSE)
      u == parsed.u
  IN /\ parsed.ret = 0 /\ url \in Readings(url, u)
     /\ port = NumberOf(FieldText(url, u, "UF_PORT"))
     /\ host = FieldText(url, u, "UF_HOST") \o <<":">> \o FieldText(url, u, "UF_PORT")
     /\ path = FieldText(url, u, "UF_PATH") \o <<"?">> \o FieldText(url, u, "UF_QUERY")
\* What the call asks for, when its URL names a port.
LEMMA UrlAsked ==
  ASSUME NEW url \in Endpoints, Port(http_parser_parse_url(url, FALSE).u) # 0
  PROVE  LET u == http_parser_parse_url(url, FALSE).u
         IN AskedOf(url, HostIp(url, u), Port(u), Target(url, u))
<1> DEFINE parsed == http_parser_parse_url(url, FALSE)
           u == parsed.u
<1>1. url \in Seq(STRING) /\ Len(url) < UINT16 /\ Len(url) \in Nat
  BY EndpointsAssumption
<1>2. parsed.ret = 0
  BY <1>1, PortMeansParsed
<1>3. FieldsRight(url, FALSE)
  BY <1>1, UrlsParsedRight
<1>4. \A f \in Behinds : f \notin u.set => u.len[f] = 0 /\ u.off[f] \in Nat
  BY <1>1, UnsetIsEmpty
<1> HIDE DEF parsed
<1>5. Authority(url, FALSE, u) /\ url \in Readings(url, u)
  BY <1>2, <1>3 DEF FieldsRight, parsed
<1>6. "UF_PORT" \in u.set /\ Port(u) = u.port
  BY DEF Port, parsed
<1>7. "UF_HOST" \in u.set /\ Port(u) = NumberOf(Text(url, u, "UF_PORT"))
  BY <1>5, <1>6 DEF Authority
<1> HIDE DEF u
<1>8. \A f \in Behinds : Text(url, u, f) = FieldText(url, u, f)
  <2>1. ASSUME NEW f \in Behinds, f \notin u.set PROVE Text(url, u, f) = <<>>
    <3> DEFINE k == u.off[f]
    <3>1. k \in Nat /\ Text(url, u, f) = SubSeq(url, k + 1, k + 0)
      BY <1>4, <2>1 DEF Text
    <3> HIDE DEF k
    <3>2. SubSeq(url, k + 1, k + 0) = <<>>
      BY <1>1, <3>1
    <3> QED  BY <3>1, <3>2
  <2> QED  BY <2>1 DEF FieldText
<1>9. Target(url, u) = FieldText(url, u, "UF_PATH") \o <<"?">> \o FieldText(url, u, "UF_QUERY")
  BY <1>8, Zenon DEF Target, Behinds
<1>10. HostIp(url, u) = FieldText(url, u, "UF_HOST") \o <<":">> \o FieldText(url, u, "UF_PORT")
  BY <1>6, <1>7, Zenon DEF HostIp, FieldText
<1>11. Port(u) = NumberOf(FieldText(url, u, "UF_PORT"))
  BY <1>6, <1>7, Zenon DEF FieldText
<1> QED  BY <1>2, <1>5, <1>9, <1>10, <1>11, Zenon DEF AskedOf, u, parsed

---------------------------------------------------------------------------
(* What a server sends, unit by unit. *)
Units ==
  [kind : {"head start"}, of : Nat] \cup [kind : {"head end"}, of : Nat, len : Int, keep : BOOLEAN]
    \cup [kind : {"byte"}, of : Nat, n : Nat] \cup {NUL}
\* What of a sequence fits the buffer, with the NUL behind it.
Cut(s) == IF Len(s) < sizeof_buf THEN s ELSE SubSeq(s, 1, sizeof_buf - 1)
\* The body of an answer; the units of its heads; where the parser is, and what it has
\* given to on_body, after the first k units of it.
Body(a, c) == BodyOf(a, c) \o IF a.framed THEN <<>> ELSE [i \in 1 .. a.behind |-> Byte(c, a.n + i)]
Heads(a) == IF a.interim THEN 4 ELSE 2
InBody(a, j) ==
  IF ~a.framed THEN [s |-> "body", left |-> ToEof, keep |-> a.keep]
  ELSE IF j < a.n THEN [s |-> "body", left |-> a.n - j, keep |-> a.keep]
  ELSE IF j = a.n THEN NEW_MESSAGE(a.keep)
  ELSE Stopped("error")
StateAt(a, k) ==
  IF k >= Heads(a) THEN InBody(a, k - Heads(a))
  ELSE IF k = 0 \/ k = 2 THEN start ELSE Stopped("head")
TakenAt(a, k) ==
  IF k < Heads(a) THEN 0 ELSE IF a.framed /\ k - Heads(a) > a.n THEN a.n ELSE k - Heads(a)

\* The i-th unit behind the heads, and the type of an answer.
Content(a, c, i) == IF i <= a.n /\ i = a.nul THEN NUL ELSE Byte(c, i)
LastHead(a, c) == HeadEnd(c, IF a.framed THEN a.n ELSE ToEof, a.keep)
Given(a, c) ==
  /\ a.interim \in BOOLEAN /\ a.framed \in BOOLEAN /\ a.keep \in BOOLEAN
  /\ a.n \in Nat /\ a.behind \in Nat /\ c \in Nat

\* Every answer and every call is of that type.
LEMMA AnswersGiven ==
  ASSUME NEW a \in Answers, NEW c \in Nat
  PROVE  Given(a, c)
BY AnswersAssumption DEF Given

\* What a server sends is made of units.
LEMMA UnitsAre ==
  ASSUME NEW c \in Nat
  PROVE  /\ HeadStart(c) \in Units /\ NUL \in Units
         /\ \A i \in Nat : Byte(c, i) \in Units
         /\ \A n \in Int : \A keep \in BOOLEAN : HeadEnd(c, n, keep) \in Units
BY DEF Units, HeadStart, HeadEnd, Byte, NUL

\* Behind the heads comes no half of a head.
LEMMA ContentIs ==
  ASSUME NEW a, NEW c, Given(a, c), NEW i \in Nat
  PROVE  Content(a, c, i) \in Units /\ Content(a, c, i).kind \notin {"head start", "head end"}
<1>1. Content(a, c, i) \in Units
  BY UnitsAre DEF Content, Given
<1>2. Content(a, c, i).kind \notin {"head start", "head end"}
  BY DEF Content, NUL, Byte
<1> QED  BY <1>1, <1>2

\* How three sequences are put together does not matter.
Associates(u, s, t) ==
    (u \o s) \o t = u \o (s \o t)

\* Putting three sequences one behind the other needs no brackets.
LEMMA Three ==
  ASSUME NEW S, NEW u \in Seq(S), NEW s \in Seq(S), NEW t \in Seq(S)
  PROVE  Associates(u, s, t)
BY ConcatAssociative DEF Associates

\* Two sequences one behind the other.
Joins(u, s, t, S) ==
  /\ u \in Seq(S) /\ Len(u) = Len(s) + Len(t)
  /\ \A i \in 1 .. Len(s) : u[i] = s[i]
  /\ \A i \in 1 .. Len(t) : u[Len(s) + i] = t[i]
\* The length and the elements of two sequences one behind the other.
LEMMA Behind ==
  ASSUME NEW S, NEW s \in Seq(S), NEW t \in Seq(S)
  PROVE  Joins(s \o t, s, t, S)
<1>0. Len(s) \in Nat /\ Len(t) \in Nat
  OBVIOUS
<1>1. /\ s \o t \in Seq(S) /\ Len(s \o t) = Len(s) + Len(t)
      /\ \A i \in 1 .. Len(s) + Len(t) : (s \o t)[i] = IF i <= Len(s) THEN s[i] ELSE t[i - Len(s)]
  BY ConcatProperties, Zenon
<1>2. ASSUME NEW i \in 1 .. Len(s) PROVE (s \o t)[i] = s[i]
  <2>1. i \in 1 .. Len(s) + Len(t) /\ i <= Len(s)
    BY <1>0
  <2> QED  BY <1>1, <2>1, Zenon
<1>3. ASSUME NEW i \in 1 .. Len(t) PROVE (s \o t)[Len(s) + i] = t[i]
  <2>1. Len(s) + i \in 1 .. Len(s) + Len(t) /\ ~(Len(s) + i <= Len(s)) /\ (Len(s) + i) - Len(s) = i
    BY <1>0
  <2>2. (s \o t)[Len(s) + i] = t[(Len(s) + i) - Len(s)]
    BY <1>1, <2>1, Zenon
  <2> QED  BY <2>1, <2>2, Zenon
<1> QED  BY <1>1, <1>2, <1>3 DEF Joins

\* The n bytes of a body.
LEMMA BodyOfIs ==
  ASSUME NEW a, NEW c, Given(a, c)
  PROVE  /\ BodyOf(a, c) \in Seq(Units) /\ Len(BodyOf(a, c)) = a.n
         /\ \A i \in 1 .. a.n : BodyOf(a, c)[i] = Content(a, c, i)
<1> DEFINE b == [i \in 1 .. a.n |-> Content(a, c, i)]
<1>0. a.n \in Nat
  BY DEF Given
<1>1. BodyOf(a, c) = b
  <2>1. \A i \in 1 .. a.n : (IF i = a.nul THEN NUL ELSE Byte(c, i)) = Content(a, c, i)
    BY <1>0 DEF Content
  <2> QED  BY <2>1 DEF BodyOf
<1>2. \A i \in 1 .. a.n : Content(a, c, i) \in Units
  <2>1. \A i \in 1 .. a.n : i \in Nat
    BY <1>0
  <2> QED  BY <2>1, ContentIs
<1>3. b \in Seq(Units) /\ Len(b) = a.n /\ \A i \in 1 .. a.n : b[i] = Content(a, c, i)
  BY <1>0, <1>2
<1> QED  BY <1>1, <1>3

BehindIt(a, c) == [i \in 1 .. a.behind |-> Byte(c, a.n + i)]
\* What a server sends behind them.
LEMMA BehindItIs ==
  ASSUME NEW a, NEW c, Given(a, c)
  PROVE  /\ BehindIt(a, c) \in Seq(Units) /\ Len(BehindIt(a, c)) = a.behind
         /\ \A i \in 1 .. a.behind : BehindIt(a, c)[i] = Content(a, c, a.n + i)
<1>0. a.n \in Nat /\ a.behind \in Nat
  BY DEF Given
<1>1. \A i \in 1 .. a.behind : a.n + i \in Nat /\ Byte(c, a.n + i) = Content(a, c, a.n + i)
  BY <1>0 DEF Content
<1>2. \A i \in 1 .. a.behind : Content(a, c, a.n + i) \in Units
  BY <1>1, ContentIs
<1> DEFINE b == [i \in 1 .. a.behind |-> Content(a, c, a.n + i)]
<1>3. b \in Seq(Units) /\ Len(b) = a.behind /\ \A i \in 1 .. a.behind : b[i] = Content(a, c, a.n + i)
  BY <1>0, <1>2
<1>4. BehindIt(a, c) = b
  BY <1>1 DEF BehindIt
<1> QED  BY <1>3, <1>4

\* Everything behind the heads.
LEMMA AllIs ==
  ASSUME NEW a, NEW c, Given(a, c)
  PROVE  LET all == BodyOf(a, c) \o BehindIt(a, c)
         IN /\ all \in Seq(Units) /\ Len(all) = a.n + a.behind
            /\ \A i \in 1 .. a.n + a.behind : all[i] = Content(a, c, i)
<1> DEFINE s == BodyOf(a, c)
           t == BehindIt(a, c)
<1>0. a.n \in Nat /\ a.behind \in Nat
  BY DEF Given
<1>1. s \in Seq(Units) /\ Len(s) = a.n /\ \A i \in 1 .. a.n : s[i] = Content(a, c, i)
  BY BodyOfIs
<1>2. t \in Seq(Units) /\ Len(t) = a.behind /\ \A i \in 1 .. a.behind : t[i] = Content(a, c, a.n + i)
  BY BehindItIs
<1> HIDE DEF s, t
<1>3. /\ s \o t \in Seq(Units) /\ Len(s \o t) = a.n + a.behind
      /\ \A i \in 1 .. a.n : (s \o t)[i] = s[i]
      /\ \A i \in 1 .. a.behind : (s \o t)[a.n + i] = t[i]
  <2>1. Joins(s \o t, s, t, Units)
    BY <1>1, <1>2, Behind
  <2> QED  BY <1>1, <1>2, <2>1 DEF Joins
<1>4. ASSUME NEW i \in 1 .. a.n + a.behind PROVE (s \o t)[i] = Content(a, c, i)
  <2>1. CASE i <= a.n
    <3>1. i \in 1 .. a.n
      BY <1>0, <2>1
    <3> QED  BY <1>1, <1>3, <3>1
  <2>2. CASE i > a.n
    <3>1. i - a.n \in 1 .. a.behind /\ a.n + (i - a.n) = i
      BY <1>0, <2>2
    <3>2. (s \o t)[a.n + (i - a.n)] = t[i - a.n] /\ t[i - a.n] = Content(a, c, a.n + (i - a.n))
      BY <1>2, <1>3, <3>1
    <3> QED  BY <3>1, <3>2
  <2>3. i <= a.n \/ i > a.n
    BY <1>0
  <2> QED  BY <2>1, <2>2, <2>3, Zenon
<1> QED  BY <1>3, <1>4 DEF s, t

BodyLen(a) == IF a.framed THEN a.n ELSE a.n + a.behind
\* The length and the units of what a call is to give to its caller.
LEMMA BodyIs ==
  ASSUME NEW a, NEW c, Given(a, c)
  PROVE  /\ Body(a, c) \in Seq(Units) /\ Len(Body(a, c)) = BodyLen(a) /\ BodyLen(a) \in Nat
         /\ \A i \in 1 .. BodyLen(a) : Body(a, c)[i] = Content(a, c, i)
<1>0. a.n \in Nat /\ a.behind \in Nat /\ a.framed \in BOOLEAN /\ BodyLen(a) \in Nat
  BY DEF Given, BodyLen
<1>1. CASE a.framed
  <2>1. Body(a, c) = BodyOf(a, c) \o <<>> /\ BodyLen(a) = a.n
    BY <1>1 DEF Body, BodyLen
  <2>2. /\ BodyOf(a, c) \in Seq(Units) /\ Len(BodyOf(a, c)) = a.n
        /\ \A i \in 1 .. a.n : BodyOf(a, c)[i] = Content(a, c, i)
    BY BodyOfIs
  <2>3. Body(a, c) = BodyOf(a, c)
    BY <2>1, <2>2, ConcatEmptySeq, Zenon
  <2> QED  BY <1>0, <2>1, <2>2, <2>3
<1>2. CASE ~a.framed
  <2>1. Body(a, c) = BodyOf(a, c) \o BehindIt(a, c) /\ BodyLen(a) = a.n + a.behind
    BY <1>2 DEF Body, BodyLen, BehindIt
  <2> QED  BY <1>0, <2>1, AllIs
<1> QED  BY <1>0, <1>1, <1>2

\* A wire: the heads, and what comes behind them.
HeadsOf(W, a, c) ==
  /\ a.interim => W[1] = HeadStart(c) /\ W[2] = HeadEnd(c, 0, TRUE) /\ W[3] = HeadStart(c) /\ W[4] = LastHead(a, c)
  /\ ~a.interim => W[1] = HeadStart(c) /\ W[2] = LastHead(a, c)
IsWire(W, a, c) ==
  /\ W \in Seq(Units) /\ Len(W) = Heads(a) + (a.n + a.behind) /\ HeadsOf(W, a, c)
  /\ \A i \in 1 .. a.n + a.behind : W[Heads(a) + i] = Content(a, c, i)
\* What a server sends is the heads and everything behind them.
LEMMA WireIs ==
  ASSUME NEW a, NEW c, Given(a, c)
  PROVE  IsWire(Wire(a, c), a, c)
<1> DEFINE h1 == IF a.interim THEN <<HeadStart(c), HeadEnd(c, 0, TRUE)>> ELSE <<>>
           h2 == <<HeadStart(c), LastHead(a, c)>>
           s == BodyOf(a, c)
           t == BehindIt(a, c)
           W == Wire(a, c)
<1>0. a.n \in Nat /\ a.behind \in Nat /\ a.framed \in BOOLEAN /\ a.interim \in BOOLEAN /\ c \in Nat
  BY DEF Given
<1>1. W = h1 \o h2 \o s \o t
  BY DEF Wire, LastHead, BehindIt
<1>2. HeadStart(c) \in Units /\ HeadEnd(c, 0, TRUE) \in Units /\ LastHead(a, c) \in Units
  <2> DEFINE n == IF a.framed THEN a.n ELSE ToEof
  <2>1. n \in Int /\ 0 \in Int /\ TRUE \in BOOLEAN /\ a.keep \in BOOLEAN
    BY <1>0 DEF ToEof, Given
  <2>2. LastHead(a, c) = HeadEnd(c, n, a.keep)
    BY DEF LastHead
  <2> HIDE DEF n
  <2> QED  BY <1>0, <2>1, <2>2, UnitsAre
<1>3. h1 \in Seq(Units) /\ Len(h1) = IF a.interim THEN 2 ELSE 0
  <2>1. CASE a.interim
    <3>1. h1 = <<HeadStart(c), HeadEnd(c, 0, TRUE)>>
      BY <2>1
    <3> HIDE DEF h1
    <3> DEFINE x == HeadStart(c)
               y == HeadEnd(c, 0, TRUE)
    <3>2. x \in Units /\ y \in Units
      BY <1>2
    <3> HIDE DEF x, y
    <3>3. <<x, y>> \in Seq(Units) /\ Len(<<x, y>>) = 2
      BY <3>2
    <3>4. h1 = <<x, y>>
      BY <3>1 DEF x, y
    <3> QED  BY <2>1, <3>3, <3>4
  <2>2. CASE ~a.interim
    BY <2>2
  <2> QED  BY <1>0, <2>1, <2>2
<1>4. a.interim => h1[1] = HeadStart(c) /\ h1[2] = HeadEnd(c, 0, TRUE)
  OBVIOUS
<1>5. h2 \in Seq(Units) /\ Len(h2) = 2 /\ h2[1] = HeadStart(c) /\ h2[2] = LastHead(a, c)
  BY <1>2
<1>6. s \in Seq(Units) /\ t \in Seq(Units)
  BY BodyOfIs, BehindItIs
<1>7. /\ s \o t \in Seq(Units) /\ Len(s \o t) = a.n + a.behind
      /\ \A i \in 1 .. a.n + a.behind : (s \o t)[i] = Content(a, c, i)
  BY AllIs
<1> HIDE DEF h1, h2, s, t, W
<1>8. /\ h1 \o h2 \in Seq(Units) /\ Len(h1 \o h2) = Len(h1) + Len(h2)
      /\ \A i \in 1 .. Len(h1) : (h1 \o h2)[i] = h1[i]
      /\ \A i \in 1 .. Len(h2) : (h1 \o h2)[Len(h1) + i] = h2[i]
  <2>1. Joins(h1 \o h2, h1, h2, Units)
    BY <1>3, <1>5, Behind
  <2> QED  BY <2>1 DEF Joins
<1>9. W = (h1 \o h2) \o (s \o t)
  <2>1. h1 \o h2 \in Seq(Units) /\ s \in Seq(Units) /\ t \in Seq(Units)
    BY <1>6, <1>8
  <2>2. Associates(h1 \o h2, s, t)
    BY <2>1, Three
  <2>3. ((h1 \o h2) \o s) \o t = (h1 \o h2) \o (s \o t)
    BY <2>2 DEF Associates
  <2> QED  BY <1>1, <2>3, Zenon
<1>10. Len(h1 \o h2) = Heads(a)
  BY <1>0, <1>3, <1>5, <1>8 DEF Heads
<1> DEFINE hh == h1 \o h2
           st == s \o t
<1> HIDE DEF hh, st
<1>11. /\ hh \in Seq(Units) /\ Len(hh) = Heads(a) /\ st \in Seq(Units) /\ Len(st) = a.n + a.behind /\ W = hh \o st
  BY <1>7, <1>8, <1>9, <1>10 DEF hh, st
<1>12. /\ W \in Seq(Units) /\ Len(W) = Heads(a) + (a.n + a.behind)
       /\ \A i \in 1 .. Heads(a) : W[i] = hh[i]
       /\ \A i \in 1 .. a.n + a.behind : W[Heads(a) + i] = st[i]
  <2>1. Joins(hh \o st, hh, st, Units)
    BY <1>11, Behind
  <2> QED  BY <1>11, <2>1 DEF Joins
<1>13. \A i \in 1 .. a.n + a.behind : W[Heads(a) + i] = Content(a, c, i)
  BY <1>7, <1>12 DEF st
<1>14. HeadsOf(W, a, c)
  <2>1. CASE a.interim
    <3>1. 1 \in 1 .. Len(h1) /\ 2 \in 1 .. Len(h1) /\ 1 \in 1 .. Len(h2) /\ 2 \in 1 .. Len(h2)
          /\ Len(h1) + 1 = 3 /\ Len(h1) + 2 = 4 /\ Heads(a) = 4
      BY <1>3, <1>5, <2>1 DEF Heads
    <3>2. hh[1] = h1[1] /\ hh[2] = h1[2] /\ hh[Len(h1) + 1] = h2[1] /\ hh[Len(h1) + 2] = h2[2]
      BY <1>8, <3>1 DEF hh
    <3>3. W[1] = hh[1] /\ W[2] = hh[2] /\ W[3] = hh[3] /\ W[4] = hh[4]
      BY <1>12, <3>1
    <3> QED  BY <1>4, <1>5, <2>1, <3>1, <3>2, <3>3 DEF HeadsOf
  <2>2. CASE ~a.interim
    <3>1. 1 \in 1 .. Len(h2) /\ 2 \in 1 .. Len(h2) /\ Len(h1) + 1 = 1 /\ Len(h1) + 2 = 2 /\ Heads(a) = 2
      BY <1>3, <1>5, <2>2 DEF Heads
    <3>2. hh[Len(h1) + 1] = h2[1] /\ hh[Len(h1) + 2] = h2[2]
      BY <1>8, <3>1 DEF hh
    <3>3. W[1] = hh[1] /\ W[2] = hh[2]
      BY <1>12, <3>1
    <3> QED  BY <1>5, <2>2, <3>1, <3>2, <3>3 DEF HeadsOf
  <2> QED  BY <1>0, <2>1, <2>2
<1>15. IsWire(W, a, c)
  BY <1>12, <1>13, <1>14 DEF IsWire
<1> QED  BY <1>15 DEF W

---------------------------------------------------------------------------
(* What the buffer takes. *)
\* The first elements of two sequences, the second cut only behind the whole first.
CutsBoth(s, t, i, j) == i \in 0 .. Len(s) /\ j \in 0 .. Len(t) /\ (j > 0 => i = Len(s))
\* Their first elements are the first elements of the two one behind the other.
LEMMA PieceOfBoth ==
  ASSUME NEW S, NEW s \in Seq(S), NEW t \in Seq(S), NEW i, NEW j, CutsBoth(s, t, i, j)
  PROVE  Piece(s, 0, i) \o Piece(t, 0, j) = Piece(s \o t, 0, i + j)
<1> DEFINE v == Piece(s, 0, i)
           w == Piece(t, 0, j)
           st == s \o t
           x == Piece(st, 0, i + j)
<1>0. Len(s) \in Nat /\ Len(t) \in Nat /\ i \in Nat /\ j \in Nat /\ i <= Len(s) /\ j <= Len(t) /\ i + j \in Nat
  BY DEF CutsBoth
<1>1. v \in Seq(S) /\ Len(v) = i /\ \A n \in 1 .. i : v[n] = s[n]
  <2>1. Cutting(s, 0, i) /\ i - 0 = i
    BY <1>0 DEF Cutting
  <2>2. v \in Seq(S) /\ Len(v) = i - 0 /\ \A n \in 1 .. i - 0 : v[n] = s[0 + n]
    BY <2>1, PieceIs
  <2> HIDE DEF v
  <2>3. \A n \in 1 .. i : 0 + n = n
    BY <1>0
  <2> QED  BY <2>1, <2>2, <2>3
<1>2. w \in Seq(S) /\ Len(w) = j /\ \A n \in 1 .. j : w[n] = t[n]
  <2>1. Cutting(t, 0, j) /\ j - 0 = j
    BY <1>0 DEF Cutting
  <2>2. w \in Seq(S) /\ Len(w) = j - 0 /\ \A n \in 1 .. j - 0 : w[n] = t[0 + n]
    BY <2>1, PieceIs
  <2> HIDE DEF w
  <2>3. \A n \in 1 .. j : 0 + n = n
    BY <1>0
  <2> QED  BY <2>1, <2>2, <2>3
<1>3. /\ st \in Seq(S) /\ Len(st) = Len(s) + Len(t) /\ \A n \in 1 .. Len(s) : st[n] = s[n]
      /\ \A n \in 1 .. Len(t) : st[Len(s) + n] = t[n]
  <2>1. Joins(st, s, t, S)
    BY Behind
  <2> HIDE DEF st
  <2> QED  BY <2>1 DEF Joins
<1> HIDE DEF v, w, st
<1>4. x \in Seq(S) /\ Len(x) = i + j /\ \A n \in 1 .. i + j : x[n] = st[n]
  <2>1. Cutting(st, 0, i + j) /\ (i + j) - 0 = i + j
    BY <1>0, <1>3 DEF Cutting
  <2>2. x \in Seq(S) /\ Len(x) = (i + j) - 0 /\ \A n \in 1 .. (i + j) - 0 : x[n] = st[0 + n]
    BY <1>3, <2>1, PieceIs
  <2> HIDE DEF x
  <2>3. \A n \in 1 .. i + j : 0 + n = n
    BY <1>0
  <2> QED  BY <2>1, <2>2, <2>3
<1> HIDE DEF x
<1>5. /\ v \o w \in Seq(S) /\ Len(v \o w) = i + j
      /\ \A n \in 1 .. i : (v \o w)[n] = v[n] /\ \A m \in 1 .. j : (v \o w)[i + m] = w[m]
  <2>1. Joins(v \o w, v, w, S)
    BY <1>1, <1>2, Behind
  <2> QED  BY <1>1, <1>2, <2>1 DEF Joins
<1>6. \A n \in 1 .. j : (v \o w)[i + n] = w[n]
  <2>1. Joins(v \o w, v, w, S)
    BY <1>1, <1>2, Behind
  <2> QED  BY <1>1, <1>2, <2>1 DEF Joins
<1>7. ASSUME NEW n \in 1 .. i + j PROVE (v \o w)[n] = x[n]
  <2>1. CASE n <= i
    <3>1. n \in 1 .. i /\ n \in 1 .. Len(s)
      BY <1>0, <2>1
    <3> QED  BY <1>1, <1>3, <1>4, <1>5, <3>1
  <2>2. CASE n > i
    <3>1. i = Len(s)
      BY <1>0, <2>2 DEF CutsBoth
    <3>2. n - i \in 1 .. j /\ n - i \in 1 .. Len(t) /\ i + (n - i) = n
      BY <1>0, <2>2
    <3>3. (v \o w)[i + (n - i)] = w[n - i] /\ w[n - i] = t[n - i] /\ st[Len(s) + (n - i)] = t[n - i]
      BY <1>2, <1>3, <1>6, <3>2
    <3> QED  BY <1>4, <3>1, <3>2, <3>3
  <2>3. n <= i \/ n > i
    BY <1>0
  <2> QED  BY <2>1, <2>2, <2>3, Zenon
<1>8. v \o w = x
  BY <1>4, <1>5, <1>7, SameSeq
<1> QED  BY <1>8 DEF v, w, x, st

\* A sequence is its piece from its start to its end.
LEMMA WholePiece ==
  ASSUME NEW S, NEW s \in Seq(S)
  PROVE  Piece(s, 0, Len(s)) = s
<1>0. Len(s) \in Nat
  OBVIOUS
<1>1. Cutting(s, 0, Len(s)) /\ Len(s) - 0 = Len(s)
  BY <1>0 DEF Cutting
<1>2. /\ Piece(s, 0, Len(s)) \in Seq(S) /\ Len(Piece(s, 0, Len(s))) = Len(s) - 0
      /\ \A k \in 1 .. Len(s) - 0 : Piece(s, 0, Len(s))[k] = s[0 + k]
  BY <1>1, PieceIs
<1> DEFINE t == Piece(s, 0, Len(s))
<1> HIDE DEF t
<1>3. t \in Seq(S) /\ Len(t) = Len(s) /\ \A k \in 1 .. Len(s) : t[k] = s[k]
  <2>1. \A k \in 1 .. Len(s) : 0 + k = k
    BY <1>0
  <2> QED  BY <1>1, <1>2, <2>1 DEF t
<1>4. t = s
  BY <1>3, SameSeq
<1> QED  BY <1>4 DEF t

CutLen(n) == IF n < sizeof_buf THEN n ELSE sizeof_buf - 1
\* What fits is a first piece, and leaves room for the NUL.
LEMMA CutIs ==
  ASSUME NEW S, NEW s \in Seq(S)
  PROVE  /\ CutLen(Len(s)) \in 0 .. Len(s) /\ Cut(s) = Piece(s, 0, CutLen(Len(s)))
         /\ Cut(s) \in Seq(S) /\ Len(Cut(s)) = CutLen(Len(s)) /\ Len(Cut(s)) < sizeof_buf
<1>0. Len(s) \in Nat /\ sizeof_buf \in Nat /\ sizeof_buf >= 1
  BY ClientSizesAssumption
<1>1. CutLen(Len(s)) \in 0 .. Len(s) /\ CutLen(Len(s)) < sizeof_buf
  BY <1>0 DEF CutLen
<1>2. Cut(s) = Piece(s, 0, CutLen(Len(s)))
  <2>1. CASE Len(s) < sizeof_buf
    <3>1. Cut(s) = s /\ CutLen(Len(s)) = Len(s)
      BY <2>1 DEF Cut, CutLen
    <3> QED  BY <3>1, WholePiece
  <2>2. CASE ~(Len(s) < sizeof_buf)
    <3>1. 0 + 1 = 1
      OBVIOUS
    <3> QED  BY <2>2, <3>1 DEF Cut, CutLen, Piece
  <2> QED  BY <2>1, <2>2
<1>3. Piece(s, 0, CutLen(Len(s))) \in Seq(S) /\ Len(Piece(s, 0, CutLen(Len(s)))) = CutLen(Len(s))
  <2> DEFINE c == CutLen(Len(s))
  <2>1. Cutting(s, 0, c) /\ c - 0 = c
    BY <1>0, <1>1 DEF Cutting
  <2> HIDE DEF c
  <2>2. Piece(s, 0, c) \in Seq(S) /\ Len(Piece(s, 0, c)) = c - 0
    BY <2>1, PieceIs
  <2>3. Piece(s, 0, c) \in Seq(S) /\ Len(Piece(s, 0, c)) = c
    BY <2>1, <2>2
  <2> QED  BY <2>3 DEF c
<1> QED  BY <1>1, <1>2, <1>3

\* on_body keeps what fits of what it is given behind what it has kept.
LEMMA OnBodyCuts ==
  ASSUME NEW S, NEW s \in Seq(S), NEW t \in Seq(S)
  PROVE  on_body(Cut(s), t) = Cut(s \o t)
<1> DEFINE c == CutLen(Len(s))
           m == CutLen(Len(s) + Len(t))
           j == IF Len(t) < sizeof_buf - c THEN Len(t) ELSE (sizeof_buf - c) - 1
<1>0. Len(s) \in Nat /\ Len(t) \in Nat /\ sizeof_buf \in Nat /\ sizeof_buf >= 1
  BY ClientSizesAssumption
<1>1. c \in 0 .. Len(s) /\ Cut(s) = Piece(s, 0, c) /\ Len(Cut(s)) = c /\ c < sizeof_buf
  BY CutIs
<1>2. on_body(Cut(s), t) = Cut(s) \o SubSeq(t, 1, j)
  <2> HIDE DEF c
  <2>1. ~(Len(Cut(s)) >= sizeof_buf)
    BY <1>0, <1>1
  <2> QED  BY <1>1, <2>1 DEF on_body
<1>3. SubSeq(t, 1, j) = Piece(t, 0, j)
  <2>1. 0 + 1 = 1
    OBVIOUS
  <2> QED  BY <2>1 DEF Piece
<1>4. j \in 0 .. Len(t) /\ (j > 0 => c = Len(s)) /\ c + j = m
  <2>1. c = IF Len(s) < sizeof_buf THEN Len(s) ELSE sizeof_buf - 1
    BY DEF CutLen
  <2>2. m = IF Len(s) + Len(t) < sizeof_buf THEN Len(s) + Len(t) ELSE sizeof_buf - 1
    BY DEF CutLen
  <2> HIDE DEF c, m
  <2>3. CASE Len(s) + Len(t) < sizeof_buf
    <3>1. Len(s) < sizeof_buf
      BY <1>0, <2>3
    <3>2. c = Len(s) /\ m = Len(s) + Len(t)
      BY <2>1, <2>2, <2>3, <3>1, Zenon
    <3>3. Len(t) < sizeof_buf - c
      BY <1>0, <2>3, <3>2
    <3>4. j = Len(t)
      BY <3>3
    <3> HIDE DEF j
    <3> QED  BY <1>0, <3>2, <3>4
  <2>4. CASE ~(Len(s) + Len(t) < sizeof_buf) /\ Len(s) < sizeof_buf
    <3>2. c = Len(s) /\ m = sizeof_buf - 1
      BY <2>1, <2>2, <2>4, Zenon
    <3>3. ~(Len(t) < sizeof_buf - c)
      BY <1>0, <2>4, <3>2
    <3>4. j = (sizeof_buf - c) - 1
      BY <3>3
    <3> HIDE DEF j
    <3> QED  BY <1>0, <2>4, <3>2, <3>4
  <2>5. CASE ~(Len(s) < sizeof_buf)
    <3>1. c = sizeof_buf - 1 /\ m = sizeof_buf - 1 /\ sizeof_buf - c = 1
      BY <1>0, <2>1, <2>2, <2>5
    <3>2. j = 0
      BY <1>0, <3>1
    <3> HIDE DEF j
    <3> QED  BY <1>0, <3>1, <3>2
  <2> QED  BY <2>3, <2>4, <2>5
<1>5. s \o t \in Seq(S) /\ Len(s \o t) = Len(s) + Len(t)
  <2>1. Joins(s \o t, s, t, S)
    BY Behind
  <2> QED  BY <2>1 DEF Joins
<1> HIDE DEF c, m, j
<1>6. Piece(s, 0, c) \o Piece(t, 0, j) = Piece(s \o t, 0, c + j)
  <2>1. CutsBoth(s, t, c, j)
    BY <1>1, <1>4 DEF CutsBoth
  <2> QED  BY <2>1, PieceOfBoth
<1>7. Cut(s \o t) = Piece(s \o t, 0, m)
  <2>1. Cut(s \o t) = Piece(s \o t, 0, CutLen(Len(s \o t)))
    BY <1>5, CutIs
  <2> QED  BY <1>5, <2>1 DEF m
<1> QED  BY <1>1, <1>2, <1>3, <1>4, <1>6, <1>7

IsPiece(p, s, i, j, S) ==
  p \in Seq(S) /\ Len(p) = j - i /\ \A n \in 1 .. j - i : p[n] = s[i + n]
\* PieceIs, as one fact.
LEMMA PieceTyped ==
  ASSUME NEW S, NEW s \in Seq(S), NEW i, NEW j, Cutting(s, i, j)
  PROVE  IsPiece(Piece(s, i, j), s, i, j, S)
BY PieceIs DEF IsPiece

\* A piece of the rest of a sequence.
LEMMA PieceOfRest ==
  ASSUME NEW S, NEW s \in Seq(S), NEW k \in 0 .. Len(s), NEW i, NEW j, Cutting(s, k + i, k + j), i \in Nat, j \in Nat
  PROVE  Piece(Piece(s, k, Len(s)), i, j) = Piece(s, k + i, k + j)
<1> DEFINE r == Piece(s, k, Len(s))
           v == Piece(r, i, j)
           w == Piece(s, k + i, k + j)
<1>0. Len(s) \in Nat /\ k \in Nat /\ k <= Len(s) /\ i <= j /\ k + j <= Len(s) /\ (k + j) - (k + i) = j - i
  BY DEF Cutting
<1>1. r \in Seq(S) /\ Len(r) = Len(s) - k /\ \A n \in 1 .. Len(s) - k : r[n] = s[k + n]
  <2>1. Cutting(s, k, Len(s))
    BY <1>0 DEF Cutting
  <2> QED  BY <2>1, PieceIs
<1> HIDE DEF r
<1>2. v \in Seq(S) /\ Len(v) = j - i /\ \A n \in 1 .. j - i : v[n] = r[i + n]
  <2>1. Cutting(r, i, j)
    BY <1>0, <1>1 DEF Cutting
  <2>2. r \in Seq(S)
    BY <1>1
  <2> HIDE DEF v, w
  <2>3. IsPiece(Piece(r, i, j), r, i, j, S)
    BY <2>1, <2>2, PieceTyped
  <2> QED  BY <2>3 DEF v, IsPiece
<1>3. w \in Seq(S) /\ Len(w) = j - i /\ \A n \in 1 .. j - i : w[n] = s[(k + i) + n]
  <2> HIDE DEF r, v, w
  <2>1. IsPiece(Piece(s, k + i, k + j), s, k + i, k + j, S)
    BY PieceTyped, Zenon
  <2>2. w \in Seq(S) /\ Len(w) = (k + j) - (k + i) /\ \A n \in 1 .. (k + j) - (k + i) : w[n] = s[(k + i) + n]
    BY <2>1 DEF w, IsPiece
  <2> QED  BY <1>0, <2>2
<1> HIDE DEF v, w
<1>4. ASSUME NEW n \in 1 .. j - i PROVE v[n] = w[n]
  <2>1. i + n \in 1 .. Len(s) - k /\ k + (i + n) = (k + i) + n
    BY <1>0
  <2>2. v[n] = r[i + n] /\ r[i + n] = s[k + (i + n)]
    BY <1>1, <1>2, <2>1
  <2> QED  BY <1>3, <2>1, <2>2
<1>5. v = w
  BY <1>2, <1>3, <1>4, SameSeq
<1> QED  BY <1>5 DEF r, v, w

---------------------------------------------------------------------------
(* The parser, unit by unit. *)
Outcome(p, g) == [p |-> p, got |-> g]
FeedsTo(p, g, u, q, h) == Feed(Outcome(p, g), u) = {Outcome(q, h)}

\* What the parser makes of a unit, by its state and the kind of the unit; where no half of
\* a head is in a body there is no choice.
LEMMA FeedIs ==
  ASSUME NEW p, NEW g, NEW u
  PROVE  /\ p.s = "error" => FeedsTo(p, g, u, p, g)
         /\ p.s = "dead" => FeedsTo(p, g, u, Stopped("error"), g)
         /\ p.s = "start" /\ u.kind # "head start" => FeedsTo(p, g, u, Stopped("error"), g)
         /\ p.s = "start" /\ u.kind = "head start" => FeedsTo(p, g, u, Stopped("head"), g)
         /\ p.s = "head" /\ u.kind = "head end" => FeedsTo(p, g, u, HeadersDone(u), g)
         /\ p.s = "body" /\ u.kind \notin {"head start", "head end"} =>
              FeedsTo(p, g, u, BodyUnit(p), Append(g, u))
<1> DEFINE o == Outcome(p, g)
<1>1. o.p = p /\ o.got = g
  BY DEF Outcome
<1>2. \A q : [o EXCEPT !.p = q] = Outcome(q, g)
  BY DEF Outcome
<1> HIDE DEF o
<1>3. p.s = "error" => Feed(o, u) = {o}
  BY <1>1 DEF Feed
<1>4. p.s = "dead" => Feed(o, u) = {Outcome(Stopped("error"), g)}
  <2>1. p.s = "dead" => Feed(o, u) = {[o EXCEPT !.p = Stopped("error")]}
    BY <1>1 DEF Feed
  <2> QED  BY <1>2, <2>1
<1>5. p.s = "start" /\ u.kind # "head start" => Feed(o, u) = {Outcome(Stopped("error"), g)}
  <2>1. p.s = "start" /\ u.kind # "head start" => Feed(o, u) = {[o EXCEPT !.p = Stopped("error")]}
    BY <1>1 DEF Feed
  <2> QED  BY <1>2, <2>1
<1>6. p.s = "start" /\ u.kind = "head start" => Feed(o, u) = {Outcome(Stopped("head"), g)}
  <2>1. p.s = "start" /\ u.kind = "head start" => Feed(o, u) = {[o EXCEPT !.p = Stopped("head")]}
    BY <1>1 DEF Feed
  <2> QED  BY <1>2, <2>1
<1>7. p.s = "head" /\ u.kind = "head end" => Feed(o, u) = {Outcome(HeadersDone(u), g)}
  <2>1. p.s = "head" /\ u.kind = "head end" => Feed(o, u) = {[o EXCEPT !.p = HeadersDone(u)]}
    BY <1>1 DEF Feed
  <2> QED  BY <1>2, <2>1
<1>8. p.s = "body" /\ u.kind \notin {"head start", "head end"} =>
        Feed(o, u) = {Outcome(BodyUnit(p), Append(g, u))}
  <2> SUFFICES ASSUME p.s = "body", u.kind \notin {"head start", "head end"}
               PROVE  Feed(o, u) = {Outcome(BodyUnit(p), Append(g, u))}
    OBVIOUS
  <2>1. Feed(o, u) = {[p |-> BodyUnit(p), got |-> Append(g, u)]} \cup {}
    BY <1>1 DEF Feed
  <2> QED  BY <2>1 DEF Outcome
<1> QED  BY <1>3, <1>4, <1>5, <1>6, <1>7, <1>8 DEF FeedsTo, o

\* Where it is while the body comes in.
LEMMA InBodyIs ==
  ASSUME NEW a, NEW c, Given(a, c), NEW j \in Nat
  PROVE  /\ j < BodyLen(a) \/ ~a.framed => InBody(a, j).s = "body" /\ BodyUnit(InBody(a, j)) = InBody(a, j + 1)
         /\ a.framed /\ j = a.n => InBody(a, j).s \in {"start", "dead"}
         /\ a.framed /\ j > a.n => InBody(a, j) = Stopped("error") /\ InBody(a, j).s = "error"
         /\ HeadersDone(LastHead(a, c)) = InBody(a, 0)
<1>0. a.n \in Nat /\ a.framed \in BOOLEAN /\ a.keep \in BOOLEAN /\ j + 1 \in Nat
  BY DEF Given
<1>1. ~a.framed => InBody(a, j).s = "body" /\ BodyUnit(InBody(a, j)) = InBody(a, j + 1)
  <2> SUFFICES ASSUME ~a.framed PROVE InBody(a, j).s = "body" /\ BodyUnit(InBody(a, j)) = InBody(a, j + 1)
    OBVIOUS
  <2> DEFINE p == [s |-> "body", left |-> ToEof, keep |-> a.keep]
  <2>1. InBody(a, j) = p /\ InBody(a, j + 1) = p
    BY DEF InBody
  <2>2. p.s = "body" /\ p.left = ToEof
    OBVIOUS
  <2> HIDE DEF p
  <2>3. BodyUnit(p) = p
    BY <2>2 DEF BodyUnit, ToEof
  <2> QED  BY <2>1, <2>2, <2>3
<1>2. a.framed /\ j < a.n => InBody(a, j).s = "body" /\ BodyUnit(InBody(a, j)) = InBody(a, j + 1)
  <2> SUFFICES ASSUME a.framed, j < a.n PROVE InBody(a, j).s = "body" /\ BodyUnit(InBody(a, j)) = InBody(a, j + 1)
    OBVIOUS
  <2> DEFINE p == [s |-> "body", left |-> a.n - j, keep |-> a.keep]
  <2>1. InBody(a, j) = p
    BY DEF InBody
  <2>2. p.s = "body" /\ p.left = a.n - j /\ p.keep = a.keep
    OBVIOUS
  <2>3. [p EXCEPT !.left = @ - 1] = [s |-> "body", left |-> (a.n - j) - 1, keep |-> a.keep]
    OBVIOUS
  <2> HIDE DEF p
  <2>4. a.n - j # -1
    BY <1>0
  <2>5. CASE j + 1 < a.n
    <3>1. a.n - j # 1 /\ (a.n - j) - 1 = a.n - (j + 1)
      BY <1>0, <2>5
    <3>2. BodyUnit(p) = [p EXCEPT !.left = @ - 1]
      BY <2>2, <2>4, <3>1 DEF BodyUnit, ToEof
    <3>3. InBody(a, j + 1) = [s |-> "body", left |-> a.n - (j + 1), keep |-> a.keep]
      BY <2>5 DEF InBody
    <3> QED  BY <2>1, <2>2, <2>3, <3>1, <3>2, <3>3
  <2>6. CASE ~(j + 1 < a.n)
    <3>1. j + 1 = a.n /\ a.n - j = 1
      BY <1>0, <2>6
    <3>2. BodyUnit(p) = NEW_MESSAGE(p.keep)
      BY <2>2, <2>4, <3>1 DEF BodyUnit, ToEof
    <3>3. InBody(a, j + 1) = NEW_MESSAGE(a.keep)
      BY <2>6, <3>1 DEF InBody
    <3> QED  BY <2>1, <2>2, <3>2, <3>3
  <2> QED  BY <2>5, <2>6
<1>3. a.framed /\ j = a.n => InBody(a, j).s \in {"start", "dead"}
  BY <1>0 DEF InBody, NEW_MESSAGE, start, Stopped
<1>4. a.framed /\ j > a.n => InBody(a, j) = Stopped("error") /\ InBody(a, j).s = "error"
  BY <1>0 DEF InBody, start, Stopped
<1>5. HeadersDone(LastHead(a, c)) = InBody(a, 0)
  <2> DEFINE n == IF a.framed THEN a.n ELSE ToEof
             u == LastHead(a, c)
  <2>1. u.len = n /\ u.keep = a.keep
    BY DEF LastHead, HeadEnd
  <2>2. HeadersDone(u) = IF u.len = 0 THEN NEW_MESSAGE(u.keep) ELSE [s |-> "body", left |-> u.len, keep |-> u.keep]
    BY DEF HeadersDone
  <2> SUFFICES HeadersDone(u) = InBody(a, 0)
    OBVIOUS
  <2> HIDE DEF u
  <2>3. CASE ~a.framed
    <3>1. u.len = ToEof /\ ~(u.len = 0)
      BY <2>1, <2>3 DEF ToEof
    <3>2. InBody(a, 0) = [s |-> "body", left |-> ToEof, keep |-> a.keep]
      BY <2>3 DEF InBody
    <3> QED  BY <2>1, <2>2, <3>1, <3>2
  <2>4. CASE a.framed /\ a.n = 0
    <3>1. u.len = 0
      BY <2>1, <2>4
    <3>2. InBody(a, 0) = NEW_MESSAGE(a.keep)
      BY <2>4 DEF InBody
    <3> QED  BY <2>1, <2>2, <3>1, <3>2
  <2>5. CASE a.framed /\ a.n # 0
    <3>1. u.len = a.n /\ ~(u.len = 0)
      BY <2>1, <2>5
    <3>2. 0 < a.n /\ a.n - 0 = a.n
      BY <1>0, <2>5
    <3>3. InBody(a, 0) = [s |-> "body", left |-> a.n, keep |-> a.keep]
      BY <2>5, <3>2 DEF InBody
    <3> QED  BY <2>1, <2>2, <3>1, <3>3
  <2> QED  BY <2>3, <2>4, <2>5
<1>6. j < BodyLen(a) /\ a.framed => j < a.n
  BY DEF BodyLen
<1> QED  BY <1>1, <1>2, <1>3, <1>4, <1>5, <1>6

\* Where the parser is goes on with each unit of a head.
LEMMA HeadStep ==
  ASSUME NEW a, NEW c, Given(a, c), NEW W, IsWire(W, a, c), NEW k \in Nat, k < Heads(a), NEW g
  PROVE  FeedsTo(StateAt(a, k), g, W[k + 1], StateAt(a, k + 1), g) /\ TakenAt(a, k + 1) = TakenAt(a, k)
<1>0. a.interim \in BOOLEAN /\ a.n \in Nat /\ a.framed \in BOOLEAN
  BY DEF Given
<1>1. HeadStart(c).kind = "head start" /\ HeadEnd(c, 0, TRUE).kind = "head end" /\ LastHead(a, c).kind = "head end"
  BY DEF HeadStart, HeadEnd, LastHead
<1>2. start.s = "start" /\ Stopped("head").s = "head"
  BY DEF start, Stopped
<1>3. HeadersDone(LastHead(a, c)) = InBody(a, 0)
  BY InBodyIs
<1>4. HeadersDone(HeadEnd(c, 0, TRUE)) = start
  BY DEF HeadersDone, HeadEnd, NEW_MESSAGE
<1>5. HeadsOf(W, a, c)
  BY DEF IsWire
<1>6. ASSUME NEW u, u.kind = "head start" PROVE FeedsTo(start, g, u, Stopped("head"), g)
  BY <1>2, <1>6, FeedIs
<1>7. ASSUME NEW u, u.kind = "head end" PROVE FeedsTo(Stopped("head"), g, u, HeadersDone(u), g)
  BY <1>2, <1>7, FeedIs
<1>8. k + 1 <= Heads(a) /\ Heads(a) \in {2, 4}
  BY <1>0 DEF Heads
<1>9. TakenAt(a, k + 1) = TakenAt(a, k)
  <2>1. TakenAt(a, k) = 0
    BY DEF TakenAt
  <2>2. CASE k + 1 < Heads(a)
    BY <2>1, <2>2 DEF TakenAt
  <2>3. CASE k + 1 = Heads(a)
    <3>1. ~(k + 1 < Heads(a)) /\ (k + 1) - Heads(a) = 0 /\ ~(0 > a.n)
      BY <1>0, <1>8, <2>3
    <3>2. TakenAt(a, k + 1) = 0
      BY <3>1 DEF TakenAt
    <3> QED  BY <2>1, <3>2
  <2> QED  BY <1>8, <2>2, <2>3
<1>10. FeedsTo(StateAt(a, k), g, W[k + 1], StateAt(a, k + 1), g)
  <2>1. CASE a.interim
    <3>0. Heads(a) = 4
      BY <2>1 DEF Heads
    <3>1. W[1] = HeadStart(c) /\ W[2] = HeadEnd(c, 0, TRUE) /\ W[3] = HeadStart(c) /\ W[4] = LastHead(a, c)
      BY <1>5, <2>1 DEF HeadsOf
    <3>2. /\ StateAt(a, 0) = start /\ StateAt(a, 1) = Stopped("head") /\ StateAt(a, 2) = start
          /\ StateAt(a, 3) = Stopped("head") /\ StateAt(a, 4) = InBody(a, 0)
      BY <3>0 DEF StateAt
    <3>3. CASE k = 0
      <4>1. FeedsTo(start, g, W[1], Stopped("head"), g)
        BY <1>1, <1>6, <3>1
      <4>2. FeedsTo(StateAt(a, 0), g, W[1], StateAt(a, 1), g) /\ k + 1 = 1
        BY <3>2, <3>3, <4>1
      <4> QED  BY <3>3, <4>2
    <3>4. CASE k = 1
      <4>1. FeedsTo(Stopped("head"), g, W[2], HeadersDone(W[2]), g)
        BY <1>1, <1>7, <3>1
      <4>0. HeadersDone(W[2]) = start
        BY <1>4, <3>1, Zenon
      <4>2. FeedsTo(StateAt(a, 1), g, W[2], StateAt(a, 2), g) /\ k + 1 = 2
        BY <3>2, <3>4, <4>0, <4>1
      <4> QED  BY <3>4, <4>2
    <3>5. CASE k = 2
      <4>1. FeedsTo(start, g, W[3], Stopped("head"), g)
        BY <1>1, <1>6, <3>1
      <4>2. FeedsTo(StateAt(a, 2), g, W[3], StateAt(a, 3), g) /\ k + 1 = 3
        BY <3>2, <3>5, <4>1
      <4> QED  BY <3>5, <4>2
    <3>6. CASE k = 3
      <4>1. FeedsTo(Stopped("head"), g, W[4], HeadersDone(W[4]), g)
        BY <1>1, <1>7, <3>1
      <4>2. FeedsTo(StateAt(a, 3), g, W[4], StateAt(a, 4), g) /\ k + 1 = 4
        BY <1>3, <3>1, <3>2, <3>6, <4>1
      <4> QED  BY <3>6, <4>2
    <3>7. k = 0 \/ k = 1 \/ k = 2 \/ k = 3
      BY <3>0
    <3> QED  BY <3>3, <3>4, <3>5, <3>6, <3>7
  <2>2. CASE ~a.interim
    <3>0. Heads(a) = 2
      BY <2>2 DEF Heads
    <3>1. W[1] = HeadStart(c) /\ W[2] = LastHead(a, c)
      BY <1>5, <2>2 DEF HeadsOf
    <3>2. StateAt(a, 0) = start /\ StateAt(a, 1) = Stopped("head") /\ StateAt(a, 2) = InBody(a, 0)
      BY <3>0 DEF StateAt
    <3>3. CASE k = 0
      <4>1. FeedsTo(start, g, W[1], Stopped("head"), g)
        BY <1>1, <1>6, <3>1
      <4>2. FeedsTo(StateAt(a, 0), g, W[1], StateAt(a, 1), g) /\ k + 1 = 1
        BY <3>2, <3>3, <4>1
      <4> QED  BY <3>3, <4>2
    <3>4. CASE k = 1
      <4>1. FeedsTo(Stopped("head"), g, W[2], HeadersDone(W[2]), g)
        BY <1>1, <1>7, <3>1
      <4>2. FeedsTo(StateAt(a, 1), g, W[2], StateAt(a, 2), g) /\ k + 1 = 2
        BY <1>3, <3>1, <3>2, <3>4, <4>1
      <4> QED  BY <3>4, <4>2
    <3>5. k = 0 \/ k = 1
      BY <3>0
    <3> QED  BY <3>3, <3>4, <3>5
  <2> QED  BY <1>0, <2>1, <2>2
<1> QED  BY <1>9, <1>10

\* And with each unit behind it: on_body is given the body, and nothing else.
TakesUnit(a, j) == j < BodyLen(a)
\* A unit of the body is given to on_body and counted, one behind it is not.
LEMMA BodyStep ==
  ASSUME NEW a, NEW c, Given(a, c), NEW W, IsWire(W, a, c), NEW j \in Nat, j < a.n + a.behind, NEW g
  PROVE  LET k == Heads(a) + j
         IN /\ TakesUnit(a, j) => /\ FeedsTo(StateAt(a, k), g, W[k + 1], StateAt(a, k + 1), Append(g, W[k + 1]))
                               /\ TakenAt(a, k + 1) = TakenAt(a, k) + 1
                               /\ W[k + 1] = Body(a, c)[TakenAt(a, k) + 1]
            /\ ~TakesUnit(a, j) => /\ FeedsTo(StateAt(a, k), g, W[k + 1], StateAt(a, k + 1), g)
                                /\ TakenAt(a, k + 1) = TakenAt(a, k)
<1> DEFINE k == Heads(a) + j
           u == Content(a, c, j + 1)
<1>0. /\ a.framed \in BOOLEAN /\ a.n \in Nat /\ a.behind \in Nat /\ Heads(a) \in Nat
      /\ j + 1 \in Nat /\ j + 1 \in 1 .. a.n + a.behind
  BY DEF Given, Heads
<1>1. W[k + 1] = u
  <2>1. W[Heads(a) + (j + 1)] = u
    BY <1>0 DEF IsWire
  <2>2. Heads(a) + (j + 1) = k + 1
    BY <1>0
  <2> HIDE DEF k
  <2> QED  BY <2>1, <2>2
<1>2. u.kind \notin {"head start", "head end"}
  BY <1>0, ContentIs
<1> HIDE DEF u
<1>3. StateAt(a, k) = InBody(a, j) /\ StateAt(a, k + 1) = InBody(a, j + 1)
  <2>1. k >= Heads(a) /\ k + 1 >= Heads(a) /\ k - Heads(a) = j /\ (k + 1) - Heads(a) = j + 1
    BY <1>0
  <2> HIDE DEF k
  <2> QED  BY <2>1 DEF StateAt
<1>4. /\ TakenAt(a, k) = IF a.framed /\ j > a.n THEN a.n ELSE j
      /\ TakenAt(a, k + 1) = IF a.framed /\ j + 1 > a.n THEN a.n ELSE j + 1
  <2>1. ~(k < Heads(a)) /\ ~(k + 1 < Heads(a)) /\ k - Heads(a) = j /\ (k + 1) - Heads(a) = j + 1
    BY <1>0
  <2> HIDE DEF k
  <2> QED  BY <2>1 DEF TakenAt
<1>5. \A i \in 1 .. BodyLen(a) : Body(a, c)[i] = Content(a, c, i)
  BY BodyIs
<1> HIDE DEF k
<1>6. ASSUME TakesUnit(a, j)
      PROVE  /\ FeedsTo(StateAt(a, k), g, W[k + 1], StateAt(a, k + 1), Append(g, W[k + 1]))
             /\ TakenAt(a, k + 1) = TakenAt(a, k) + 1
             /\ W[k + 1] = Body(a, c)[TakenAt(a, k) + 1]
  <2>1. j < BodyLen(a) /\ BodyLen(a) \in Nat /\ BodyLen(a) = IF a.framed THEN a.n ELSE a.n + a.behind
    BY <1>0, <1>6 DEF TakesUnit, BodyLen
  <2>2. InBody(a, j).s = "body" /\ BodyUnit(InBody(a, j)) = InBody(a, j + 1)
    BY <2>1, InBodyIs
  <2>3. FeedsTo(InBody(a, j), g, u, BodyUnit(InBody(a, j)), Append(g, u))
    BY <1>2, <2>2, FeedIs
  <2>4. TakenAt(a, k) = j /\ TakenAt(a, k + 1) = j + 1
    BY <1>0, <1>4, <2>1
  <2>5. Body(a, c)[j + 1] = u
    <3>1. j + 1 \in 1 .. BodyLen(a)
      BY <2>1
    <3> QED  BY <1>5, <3>1 DEF u
  <2> QED  BY <1>1, <1>3, <2>2, <2>3, <2>4, <2>5
<1>7. ASSUME ~TakesUnit(a, j)
      PROVE  FeedsTo(StateAt(a, k), g, W[k + 1], StateAt(a, k + 1), g) /\ TakenAt(a, k + 1) = TakenAt(a, k)
  <2>1. a.framed /\ j >= a.n
    BY <1>0, <1>7 DEF TakesUnit, BodyLen
  <2>2. j + 1 > a.n
    BY <1>0, <2>1
  <2>3. TakenAt(a, k) = a.n /\ TakenAt(a, k + 1) = a.n
    BY <1>0, <1>4, <2>1, <2>2
  <2>4. InBody(a, j + 1) = Stopped("error")
    BY <1>0, <2>1, <2>2, InBodyIs
  <2>5. CASE j = a.n
    <3>1. InBody(a, j).s \in {"start", "dead"}
      BY <2>1, <2>5, InBodyIs
    <3>2. FeedsTo(InBody(a, j), g, u, Stopped("error"), g)
      BY <1>2, <3>1, FeedIs
    <3> QED  BY <1>1, <1>3, <2>3, <2>4, <3>2
  <2>6. CASE j > a.n
    <3>1. InBody(a, j) = Stopped("error") /\ InBody(a, j).s = "error"
      BY <2>1, <2>6, InBodyIs
    <3>2. FeedsTo(InBody(a, j), g, u, InBody(a, j), g)
      BY <3>1, FeedIs
    <3> QED  BY <1>1, <1>3, <2>3, <2>4, <3>1, <3>2
  <2>7. j = a.n \/ j > a.n
    BY <1>0, <2>1
  <2> QED  BY <2>5, <2>6, <2>7
<1> QED  BY <1>6, <1>7 DEF k

\* A piece and the next element make the piece that is longer by one.
LEMMA PieceGrows ==
  ASSUME NEW S, NEW s \in Seq(S), NEW i, NEW j, Cutting(s, i, j), Cutting(s, j, j + 1)
  PROVE  Append(Piece(s, i, j), s[j + 1]) = Piece(s, i, j + 1)
<1>1. Piece(s, i, j) \o Piece(s, j, j + 1) = Piece(s, i, j + 1)
  BY Pieces
<1>2. Cutting(s, j, j)
  BY DEF Cutting
<1>3. Piece(s, j, j + 1) = <<s[j + 1]>>
  BY <1>2, Small
<1>4. Piece(s, i, j) \in Seq(S)
  BY PieceIs
<1>5. s[j + 1] \in S
  BY DEF Cutting
<1>6. Append(Piece(s, i, j), s[j + 1]) = Piece(s, i, j) \o <<s[j + 1]>>
  <2> DEFINE x == Piece(s, i, j)
             y == s[j + 1]
  <2>1. x \in Seq(S) /\ y \in S
    BY <1>4, <1>5
  <2> HIDE DEF x, y
  <2>2. Append(x, y) = x \o <<y>>
    BY <2>1
  <2> QED  BY <2>2 DEF x, y
<1> QED  BY <1>1, <1>3, <1>6

\* on_body is given more and more, up to the whole body.
LEMMA TakenGrows ==
  ASSUME NEW a, NEW c, Given(a, c), NEW k \in Nat, NEW m \in Nat, k <= m, m <= Heads(a) + (a.n + a.behind)
  PROVE  Cutting(Body(a, c), TakenAt(a, k), TakenAt(a, m))
<1>0. /\ a.framed \in BOOLEAN /\ a.n \in Nat /\ a.behind \in Nat /\ Heads(a) \in Nat
  BY DEF Given, Heads
<1>1. Len(Body(a, c)) = BodyLen(a) /\ BodyLen(a) = IF a.framed THEN a.n ELSE a.n + a.behind
  BY BodyIs DEF BodyLen
<1> DEFINE x == TakenAt(a, k)
           y == TakenAt(a, m)
<1>2. x = IF k < Heads(a) THEN 0 ELSE IF a.framed /\ k - Heads(a) > a.n THEN a.n ELSE k - Heads(a)
  BY DEF TakenAt
<1>3. y = IF m < Heads(a) THEN 0 ELSE IF a.framed /\ m - Heads(a) > a.n THEN a.n ELSE m - Heads(a)
  BY DEF TakenAt
<1> HIDE DEF x, y
<1>4. CASE a.framed
  BY <1>0, <1>1, <1>2, <1>3, <1>4 DEF Cutting, x, y
<1>5. CASE ~a.framed
  <2>1. x = (IF k < Heads(a) THEN 0 ELSE k - Heads(a)) /\ y = (IF m < Heads(a) THEN 0 ELSE m - Heads(a))
    BY <1>2, <1>3, <1>5
  <2>2. x \in Nat /\ y \in Nat /\ x <= y /\ y <= a.n + a.behind
    BY <1>0, <2>1
  <2> QED  BY <1>1, <1>5, <2>2 DEF Cutting, x, y
<1> QED  BY <1>0, <1>4, <1>5

GotTo(a, c, k, m) == Piece(Body(a, c), TakenAt(a, k), TakenAt(a, m))
\* Every unit takes the parser on in the answer, with what it has given to on_body.
LEMMA UnitStep ==
  ASSUME NEW a, NEW c, Given(a, c), NEW W, IsWire(W, a, c), NEW k \in Nat, NEW m \in Nat, k <= m, m < Len(W)
  PROVE  FeedsTo(StateAt(a, m), GotTo(a, c, k, m), W[m + 1], StateAt(a, m + 1), GotTo(a, c, k, m + 1))
<1> DEFINE g == GotTo(a, c, k, m)
<1>0. /\ a.framed \in BOOLEAN /\ a.n \in Nat /\ a.behind \in Nat /\ Heads(a) \in Nat
      /\ Len(W) = Heads(a) + (a.n + a.behind) /\ m + 1 \in Nat /\ m + 1 <= Len(W)
  BY DEF Given, Heads, IsWire
<1>1. CASE m < Heads(a)
  <2>1. FeedsTo(StateAt(a, m), g, W[m + 1], StateAt(a, m + 1), g) /\ TakenAt(a, m + 1) = TakenAt(a, m)
    BY <1>1, HeadStep
  <2> QED  BY <2>1 DEF GotTo
<1>2. CASE ~(m < Heads(a))
  <2> DEFINE j == m - Heads(a)
  <2>1. j \in Nat /\ j < a.n + a.behind /\ Heads(a) + j = m
    BY <1>0, <1>2
  <2>2. LET n == Heads(a) + j
        IN /\ TakesUnit(a, j) => /\ FeedsTo(StateAt(a, n), g, W[n + 1], StateAt(a, n + 1), Append(g, W[n + 1]))
                              /\ TakenAt(a, n + 1) = TakenAt(a, n) + 1
                              /\ W[n + 1] = Body(a, c)[TakenAt(a, n) + 1]
           /\ ~TakesUnit(a, j) => /\ FeedsTo(StateAt(a, n), g, W[n + 1], StateAt(a, n + 1), g)
                               /\ TakenAt(a, n + 1) = TakenAt(a, n)
    <3> HIDE DEF j, g
    <3> QED  BY <2>1, BodyStep
  <2>3. /\ TakesUnit(a, j) => /\ FeedsTo(StateAt(a, m), g, W[m + 1], StateAt(a, m + 1), Append(g, W[m + 1]))
                           /\ TakenAt(a, m + 1) = TakenAt(a, m) + 1
                           /\ W[m + 1] = Body(a, c)[TakenAt(a, m) + 1]
        /\ ~TakesUnit(a, j) => /\ FeedsTo(StateAt(a, m), g, W[m + 1], StateAt(a, m + 1), g)
                            /\ TakenAt(a, m + 1) = TakenAt(a, m)
    <3> HIDE DEF j, g
    <3> QED  BY <2>1, <2>2
  <2> HIDE DEF j
  <2>4. CASE ~TakesUnit(a, j)
    BY <2>3, <2>4 DEF GotTo
  <2>5. CASE TakesUnit(a, j)
    <3> DEFINE B == Body(a, c)
               x == TakenAt(a, k)
               y == TakenAt(a, m)
    <3>1. B \in Seq(Units)
      BY BodyIs
    <3>2. Cutting(B, x, y) /\ Cutting(B, y, TakenAt(a, m + 1))
      BY <1>0, TakenGrows
    <3>3. TakenAt(a, m + 1) = y + 1 /\ W[m + 1] = B[y + 1]
      BY <2>3, <2>5
    <3> HIDE DEF B, x, y
    <3>4. Append(Piece(B, x, y), B[y + 1]) = Piece(B, x, y + 1)
      BY <3>1, <3>2, <3>3, PieceGrows
    <3>5. GotTo(a, c, k, m) = Piece(B, x, y) /\ GotTo(a, c, k, m + 1) = Piece(B, x, y + 1)
      BY <3>3 DEF GotTo, B, x, y
    <3>6. Append(g, W[m + 1]) = GotTo(a, c, k, m + 1)
      BY <3>3, <3>4, <3>5
    <3> QED  BY <2>3, <2>5, <3>6
  <2> QED  BY <2>4, <2>5
<1> QED  BY <1>1, <1>2

\* What the parser makes of the next m units of an answer.
Fed(a, c, k, i) == {Outcome(StateAt(a, k + i), GotTo(a, c, k, k + i))}
\* Units of an answer in one call of http_parser_execute are these units one by one.
LEMMA ExecuteIs ==
  ASSUME NEW a, NEW c, Given(a, c), NEW W, IsWire(W, a, c), NEW k \in Nat, NEW m \in Nat \ {0}, k + m <= Len(W)
  PROVE  http_parser_execute(StateAt(a, k), Piece(W, k, k + m)) = Fed(a, c, k, m)
<1> DEFINE p == StateAt(a, k)
           data == Piece(W, k, k + m)
           E(f, n) == IF n = 0 THEN {Outcome(p, <<>>)} ELSE UNION {Feed(o, data[n]) : o \in f[n - 1]}
           Eqn(f) == f = [n \in 0 .. Len(data) |-> E(f, n)]
           outcomes == CHOOSE f : Eqn(f)
           fed == [n \in 0 .. m |-> Fed(a, c, k, n)]
<1>0. Len(W) \in Nat /\ Len(W) = Heads(a) + (a.n + a.behind) /\ W \in Seq(Units)
  BY DEF IsWire
<1>1. data \in Seq(Units) /\ Len(data) = m /\ \A n \in 1 .. m : data[n] = W[k + n]
  <2>1. Cutting(W, k, k + m) /\ (k + m) - k = m
    BY <1>0 DEF Cutting
  <2>2. IsPiece(data, W, k, k + m, Units)
    BY <1>0, <2>1, PieceTyped
  <2> QED  BY <2>1, <2>2 DEF IsPiece
<1>2. data # <<>>
  BY <1>1
<1> HIDE DEF data
<1>3. ASSUME NEW n \in 1 .. m PROVE UNION {Feed(o, data[n]) : o \in Fed(a, c, k, n - 1)} = Fed(a, c, k, n)
  <2>1. k + (n - 1) \in Nat /\ k <= k + (n - 1) /\ k + (n - 1) < Len(W) /\ (k + (n - 1)) + 1 = k + n
    BY <1>0
  <2>2. FeedsTo(StateAt(a, k + (n - 1)), GotTo(a, c, k, k + (n - 1)), W[(k + (n - 1)) + 1],
                StateAt(a, (k + (n - 1)) + 1), GotTo(a, c, k, (k + (n - 1)) + 1))
    BY <2>1, UnitStep
  <2> DEFINE o == Outcome(StateAt(a, k + (n - 1)), GotTo(a, c, k, k + (n - 1)))
  <2>3. Feed(o, data[n]) = Fed(a, c, k, n)
    BY <1>1, <2>1, <2>2 DEF FeedsTo, Fed
  <2>4. Fed(a, c, k, n - 1) = {o}
    BY DEF Fed
  <2> HIDE DEF o
  <2>5. \A x, d : UNION {Feed(y, d) : y \in {x}} = Feed(x, d)
    OBVIOUS
  <2> QED  BY <2>3, <2>4, <2>5
<1>4. Fed(a, c, k, 0) = {Outcome(p, <<>>)}
  <2>1. k + 0 = k /\ k <= k /\ k <= Len(W)
    BY <1>0
  <2>2. Cutting(Body(a, c), TakenAt(a, k), TakenAt(a, k))
    BY <1>0, <2>1, TakenGrows
  <2>3. Body(a, c) \in Seq(Units)
    BY BodyIs
  <2>4. GotTo(a, c, k, k) = <<>>
    BY <2>2, <2>3, Small DEF GotTo
  <2> QED  BY <2>1, <2>4 DEF Fed
<1>5. Eqn(fed)
  <2>1. ASSUME NEW n \in 0 .. Len(data) PROVE fed[n] = E(fed, n)
    <3>1. CASE n = 0
      BY <1>1, <1>4, <3>1
    <3>2. CASE n # 0
      <4>1. n \in 1 .. m /\ n - 1 \in 0 .. m
        BY <1>1, <3>2
      <4>2. fed[n] = Fed(a, c, k, n) /\ fed[n - 1] = Fed(a, c, k, n - 1)
        BY <4>1
      <4> HIDE DEF fed
      <4>3. UNION {Feed(o, data[n]) : o \in fed[n - 1]} = Fed(a, c, k, n)
        BY <1>3, <4>1, <4>2, Zenon
      <4> QED  BY <3>2, <4>2, <4>3
    <3> QED  BY <3>1, <3>2
  <2>2. fed = [n \in 0 .. Len(data) |-> fed[n]]
    BY <1>1
  <2> HIDE DEF fed, E
  <2> QED  BY <2>1, <2>2
<1>6. Eqn(outcomes)
  <2> HIDE DEF Eqn, fed
  <2> QED  BY <1>5
<1> HIDE DEF outcomes
<1>7. \A n \in 0 .. m : outcomes[n] = E(outcomes, n)
  <2> HIDE DEF E
  <2> QED  BY <1>1, <1>6
<1>8. \A n \in 0 .. m : outcomes[n] = Fed(a, c, k, n)
  <2> DEFINE G == {n \in 0 .. m : outcomes[n] = Fed(a, c, k, n)}
  <2>1. 0 \in G
    <3>1. 0 \in 0 .. m
      OBVIOUS
    <3>2. outcomes[0] = E(outcomes, 0)
      <4> HIDE DEF E
      <4> QED  BY <1>7, <3>1
    <3>3. outcomes[0] = {Outcome(p, <<>>)}
      BY <3>2
    <3> QED  BY <1>4, <3>1, <3>3
  <2>2. ASSUME NEW n \in 0 .. m - 1, n \in G PROVE n + 1 \in G
    <3>1. n + 1 \in 1 .. m /\ n + 1 \in 0 .. m /\ n + 1 # 0 /\ (n + 1) - 1 = n
      OBVIOUS
    <3>2. outcomes[n + 1] = UNION {Feed(o, data[n + 1]) : o \in outcomes[n]}
      BY <1>7, <3>1
    <3>3. UNION {Feed(o, data[n + 1]) : o \in Fed(a, c, k, n)} = Fed(a, c, k, n + 1)
      BY <1>3, <3>1
    <3> QED  BY <2>2, <3>1, <3>2, <3>3
  <2> HIDE DEF G
  <2>3. \A n \in 0 .. m : n \in G
    BY <2>1, <2>2, UpTo
  <2> QED  BY <2>3 DEF G
<1>9. http_parser_execute(p, data) = outcomes[Len(data)]
  BY <1>2 DEF http_parser_execute, outcomes, Outcome
<1> QED  BY <1>1, <1>8, <1>9 DEF data

---------------------------------------------------------------------------
(* An answer read up to its k-th unit: what is still to come, where the    *)
(* parser is, what the buffer has.                                         *)
ReadAt(a, c, h, k, w, p, b) ==
  /\ k \in Nat /\ k <= Len(Wire(a, c)) /\ w = Piece(Wire(a, c), k, Len(Wire(a, c)))
  /\ p = StateAt(a, k) /\ b = Cut(h \o Piece(Body(a, c), 0, TakenAt(a, k)))

\* Nothing of an answer has been read when it is sent.
LEMMA ReadStarts ==
  ASSUME NEW a, NEW c, Given(a, c), NEW h \in Seq(Units), Len(h) < sizeof_buf
  PROVE  ReadAt(a, c, h, 0, Wire(a, c), start, h)
<1> DEFINE W == Wire(a, c)
<1>1. IsWire(W, a, c)
  BY WireIs
<1> HIDE DEF W
<1>2. W \in Seq(Units) /\ Len(W) \in Nat
  BY <1>1 DEF IsWire
<1>3. W = Piece(W, 0, Len(W))
  BY <1>2, WholePiece
<1>4. StateAt(a, 0) = start /\ TakenAt(a, 0) = 0
  BY DEF StateAt, TakenAt, Heads
<1>5. Body(a, c) \in Seq(Units)
  BY BodyIs
<1>6. Piece(Body(a, c), 0, 0) = <<>>
  <2>1. Cutting(Body(a, c), 0, 0)
    BY <1>5 DEF Cutting
  <2> QED  BY <1>5, <2>1, Small
<1>7. h \o <<>> = h
  BY ConcatEmptySeq
<1>8. Cut(h) = h
  BY DEF Cut
<1>9. h = Cut(h \o Piece(Body(a, c), 0, TakenAt(a, 0)))
  BY <1>4, <1>6, <1>7, <1>8
<1>10. 0 \in Nat /\ 0 <= Len(W)
  BY <1>2
<1>11. W = Piece(W, 0, Len(W)) /\ start = StateAt(a, 0)
  BY <1>3, <1>4
<1> QED  BY <1>9, <1>10, <1>11 DEF ReadAt, W

\* A read of its next n units leaves it read up to n units further on.
LEMMA ReadOn ==
  ASSUME NEW a, NEW c, Given(a, c), NEW h \in Seq(Units), NEW k, NEW w, NEW p, NEW b,
         ReadAt(a, c, h, k, w, p, b), NEW n \in Nat \ {0}, n <= Len(w),
         NEW o \in http_parser_execute(p, SubSeq(w, 1, n))
  PROVE  ReadAt(a, c, h, k + n, SubSeq(w, n + 1, Len(w)), o.p, on_body(b, o.got))
<1> DEFINE W == Wire(a, c)
           B == Body(a, c)
           x == TakenAt(a, k)
           y == TakenAt(a, k + n)
<1>1. IsWire(W, a, c)
  BY WireIs
<1>2. k \in Nat /\ k <= Len(W) /\ w = Piece(W, k, Len(W)) /\ p = StateAt(a, k) /\ b = Cut(h \o Piece(B, 0, x))
  BY DEF ReadAt
<1> HIDE DEF W
<1>3. W \in Seq(Units) /\ Len(W) \in Nat /\ Len(W) = Heads(a) + (a.n + a.behind)
  BY <1>1 DEF IsWire
<1>4. Len(w) = Len(W) - k
  <2>1. Cutting(W, k, Len(W))
    BY <1>2, <1>3 DEF Cutting
  <2>2. Len(Piece(W, k, Len(W))) = Len(W) - k
    BY <1>3, <2>1, PieceIs
  <2> QED  BY <1>2, <2>2
<1>5. k + n \in Nat /\ k + n <= Len(W)
  BY <1>2, <1>3, <1>4
<1>6. SubSeq(w, 1, n) = Piece(W, k, k + n)
  <2>1. k + 0 = k /\ 0 + 1 = 1 /\ Cutting(W, k + 0, k + n) /\ k \in 0 .. Len(W)
    BY <1>2, <1>3, <1>5 DEF Cutting
  <2>2. Piece(Piece(W, k, Len(W)), 0, n) = Piece(W, k + 0, k + n)
    BY <1>3, <2>1, PieceOfRest
  <2>3. Piece(w, 0, n) = SubSeq(w, 1, n)
    BY <2>1 DEF Piece
  <2> QED  BY <1>2, <2>1, <2>2, <2>3
<1>7. SubSeq(w, n + 1, Len(w)) = Piece(W, k + n, Len(W))
  <2> DEFINE j == Len(W) - k
  <2>1. k + j = Len(W) /\ j \in Nat /\ k \in 0 .. Len(W)
    BY <1>2, <1>3
  <2>2. Cutting(W, k + n, k + j)
    BY <1>2, <1>3, <1>5 DEF Cutting
  <2> HIDE DEF j
  <2>6. W \in Seq(Units) /\ n \in Nat /\ j \in Nat /\ k \in 0 .. Len(W)
    BY <1>3, <2>1
  <2>3. Piece(Piece(W, k, Len(W)), n, j) = Piece(W, k + n, k + j)
    BY <2>2, <2>6, PieceOfRest
  <2>4. Piece(w, n, Len(w)) = SubSeq(w, n + 1, Len(w))
    BY DEF Piece
  <2>5. Len(w) = j
    BY <1>4 DEF j
  <2> QED  BY <1>2, <2>1, <2>3, <2>4, <2>5
<1>8. o.p = StateAt(a, k + n) /\ o.got = Piece(B, x, y)
  <2>1. http_parser_execute(StateAt(a, k), Piece(W, k, k + n)) = Fed(a, c, k, n)
    BY <1>1, <1>2, <1>5, ExecuteIs
  <2>2. o \in Fed(a, c, k, n)
    BY <1>2, <1>6, <2>1
  <2>3. o = Outcome(StateAt(a, k + n), GotTo(a, c, k, k + n))
    BY <2>2 DEF Fed
  <2> QED  BY <2>3 DEF Outcome, GotTo
<1>9. B \in Seq(Units)
  BY BodyIs
<1>10. Cutting(B, 0, x) /\ Cutting(B, x, y)
  <2>1. Cutting(Body(a, c), x, y)
    BY <1>2, <1>3, <1>5, TakenGrows
  <2> HIDE DEF x, y
  <2> QED  BY <2>1 DEF Cutting
<1> HIDE DEF B, x, y
<1>11. Piece(B, 0, x) \o Piece(B, x, y) = Piece(B, 0, y)
  BY <1>9, <1>10, Pieces
<1>12. Piece(B, 0, x) \in Seq(Units) /\ Piece(B, x, y) \in Seq(Units)
  BY <1>9, <1>10, PieceIs
<1> DEFINE s == Piece(B, 0, x)
           t == Piece(B, x, y)
<1>13. on_body(Cut(h \o s), t) = Cut(h \o Piece(B, 0, y))
  <2>1. s \in Seq(Units) /\ t \in Seq(Units) /\ s \o t = Piece(B, 0, y)
    BY <1>11, <1>12
  <2> HIDE DEF s, t
  <2>2. h \o s \in Seq(Units)
    BY <2>1
  <2>3. on_body(Cut(h \o s), t) = Cut((h \o s) \o t)
    BY <2>1, <2>2, OnBodyCuts
  <2>4. (h \o s) \o t = h \o (s \o t)
    <3>1. s \in Seq(Units) /\ t \in Seq(Units) /\ h \in Seq(Units)
      BY <2>1
    <3>2. Associates(h, s, t)
      BY <3>1, Three
    <3> QED  BY <3>2 DEF Associates
  <2> QED  BY <2>1, <2>3, <2>4
<1> QED  BY <1>2, <1>5, <1>7, <1>8, <1>13 DEF ReadAt, W, B, x, y

\* Read whole, it has given its body; the parser is at a start again when it persists.
LEMMA ReadWhole ==
  ASSUME NEW a, NEW c, Given(a, c), NEW h \in Seq(Units), NEW k, NEW p, NEW b,
         ReadAt(a, c, h, k, <<>>, p, b)
  PROVE  b = Cut(h \o Body(a, c)) /\ (Persists(a) => p = start)
<1> DEFINE W == Wire(a, c)
           B == Body(a, c)
<1>1. IsWire(W, a, c)
  BY WireIs
<1>2. k \in Nat /\ k <= Len(W) /\ <<>> = Piece(W, k, Len(W)) /\ p = StateAt(a, k)
      /\ b = Cut(h \o Piece(B, 0, TakenAt(a, k)))
  BY DEF ReadAt
<1> HIDE DEF W
<1>3. W \in Seq(Units) /\ Len(W) \in Nat /\ Len(W) = Heads(a) + (a.n + a.behind)
  BY <1>1 DEF IsWire
<1>4. k = Len(W)
  <2>1. Cutting(W, k, Len(W))
    BY <1>2, <1>3 DEF Cutting
  <2>2. Len(Piece(W, k, Len(W))) = Len(W) - k
    BY <1>3, <2>1, PieceIs
  <2>3. Len(<<>>) = 0
    OBVIOUS
  <2> QED  BY <1>2, <1>3, <2>2, <2>3
<1>5. a.n \in Nat /\ a.behind \in Nat /\ a.framed \in BOOLEAN /\ Heads(a) \in Nat
  BY DEF Given, Heads
<1>6. k >= Heads(a) /\ ~(k < Heads(a)) /\ k - Heads(a) = a.n + a.behind
  BY <1>3, <1>4, <1>5
<1>7. TakenAt(a, k) = BodyLen(a)
  <2>1. TakenAt(a, k) = IF a.framed /\ a.n + a.behind > a.n THEN a.n ELSE a.n + a.behind
    BY <1>6 DEF TakenAt
  <2> QED  BY <1>5, <2>1 DEF BodyLen
<1>8. B \in Seq(Units) /\ Len(B) = BodyLen(a)
  BY BodyIs
<1> HIDE DEF B
<1>9. b = Cut(h \o B)
  BY <1>2, <1>7, <1>8, WholePiece
<1>10. ASSUME Persists(a) PROVE p = start
  <2>1. a.framed /\ a.keep /\ a.n + a.behind = a.n
    BY <1>5, <1>10 DEF Persists
  <2>2. StateAt(a, k) = InBody(a, a.n)
    BY <1>6, <2>1 DEF StateAt
  <2>3. InBody(a, a.n) = start
    BY <1>5, <2>1 DEF InBody, NEW_MESSAGE
  <2> QED  BY <1>2, <2>2, <2>3
<1> QED  BY <1>9, <1>10 DEF B

---------------------------------------------------------------------------
(* The invariant. *)
ResponseParser == IF is_init THEN parser_response ELSE start
Kept(buf) == buf \in Seq(Units) /\ Len(buf) < sizeof_buf

Asks ==
  /\ pc \in {"writing", "reading", "returned"} =>
       LET u == http_parser_parse_url(endpoint, FALSE).u
       IN /\ endpoint \in Endpoints /\ port_int = Port(u)
          /\ target = Target(endpoint, u) /\ host_ip = HostIp(endpoint, u)
  /\ pc \in {"reading", "returned"} => port_int # 0
Fresh == pc = "idle" => ~is_init /\ response_buf = <<>> /\ ~spoilt
Writes ==
  pc = "writing" => ~flawed /\ (~spoilt => ResponseParser = start /\ response_buf = held /\ Kept(held))
Reading ==
  /\ answer \in Answers /\ Kept(held)
  /\ \E k \in Nat : ReadAt(answer, calls, held, k, wire, ResponseParser, response_buf)
Reads == pc \in {"reading", "returned"} /\ ~flawed /\ ~spoilt => Reading
ClientInv == calls \in Nat /\ Asks /\ Fresh /\ Writes /\ Reads

\* The invariant holds at first.
LEMMA ClientInit == Init => ClientInv
<1> SUFFICES ASSUME Init PROVE ClientInv
  OBVIOUS
<1>1. calls \in Nat /\ Asks /\ Fresh
  BY DEF Init, Asks, Fresh
<1>2. Writes /\ Reads
  BY DEF Init, Writes, Reads
<1> QED  BY <1>1, <1>2 DEF ClientInv

\* A buffer that was cleared, or that an answer was read into.
LEMMA EmptyKept == Kept(<<>>)
BY ClientSizesAssumption DEF Kept

\* An answer that was read whole has left its body in the buffer; the parser is at a start
\* again if the answer persists.
LEMMA ReadingEnds ==
  ASSUME calls \in Nat, Reading, wire = <<>>
  PROVE  /\ response_buf = Cut(held \o Body(answer, calls)) /\ Kept(response_buf)
         /\ Persists(answer) => ResponseParser = start
<1>1. answer \in Answers /\ held \in Seq(Units)
  BY DEF Reading, Kept
<1>2. Given(answer, calls)
  BY <1>1, AnswersGiven
<1>3. PICK k \in Nat : ReadAt(answer, calls, held, k, wire, ResponseParser, response_buf)
  BY DEF Reading
<1> DEFINE p == ResponseParser
<1> HIDE DEF p
<1>4. ReadAt(answer, calls, held, k, <<>>, p, response_buf)
  BY <1>3 DEF p
<1>5. response_buf = Cut(held \o Body(answer, calls)) /\ (Persists(answer) => p = start)
  BY <1>1, <1>2, <1>4, ReadWhole
<1>6. Kept(response_buf)
  <2>1. Body(answer, calls) \in Seq(Units)
    BY <1>2, BodyIs
  <2> DEFINE s == held \o Body(answer, calls)
  <2>2. s \in Seq(Units)
    BY <1>1, <2>1
  <2> HIDE DEF s
  <2>3. Cut(s) \in Seq(Units) /\ Len(Cut(s)) < sizeof_buf
    BY <2>2, CutIs
  <2> QED  BY <1>5, <2>3 DEF Kept, s
<1> QED  BY <1>5, <1>6 DEF p

\* A call keeps the invariant: what it finds is a new process, or what an answer left that
\* was read whole.
LEMMA HttpKeeps ==
  ASSUME ClientInv, http
  PROVE  ClientInv'
<1>0. pc' = "writing" /\ calls' = calls + 1 /\ flawed' = FALSE /\ held' = response_buf'
      /\ UNCHANGED <<is_init, parser_response>> /\ response_buf' \in {response_buf, <<>>}
  BY DEF http, statics
<1>1. calls' \in Nat /\ calls \in Nat
  BY <1>0 DEF ClientInv
<1>2. Asks'
  <2>1. PICK url \in Endpoints :
          LET u == http_parser_parse_url(url, FALSE).u
          IN /\ endpoint' = url /\ port_int' = Port(u)
             /\ target' = Target(url, u) /\ host_ip' = HostIp(url, u)
    BY DEF http
  <2> QED  BY <1>0, <2>1 DEF Asks
<1>3. Fresh' /\ Reads'
  BY <1>0 DEF Fresh, Reads
<1>4. ResponseParser' = ResponseParser
  BY <1>0 DEF ResponseParser
<1>5. ASSUME ~spoilt' PROVE ResponseParser' = start /\ Kept(held')
  <2>1. ~spoilt /\ (pc = "returned" => ~flawed /\ wire = <<>> /\ Persists(answer))
    BY <1>5, Zenon DEF http
  <2>2. pc = "idle" \/ pc = "returned"
    BY DEF http
  <2>3. CASE pc = "idle"
    <3>1. ~is_init /\ response_buf = <<>>
      BY <2>3 DEF ClientInv, Fresh
    <3>2. ResponseParser = start
      BY <3>1, Zenon DEF ResponseParser
    <3>3. held' = <<>>
      BY <1>0, <3>1
    <3> QED  BY <1>4, <3>2, <3>3, EmptyKept
  <2>4. CASE pc = "returned"
    <3>1. Reading
      <4>1. pc \in {"reading", "returned"} /\ ~flawed /\ ~spoilt
        BY <2>1, <2>4, Zenon
      <4> QED  BY <4>1, Zenon DEF ClientInv, Reads
    <3>2. Kept(response_buf) /\ ResponseParser = start
      BY <1>1, <2>1, <2>4, <3>1, ReadingEnds, Zenon
    <3>3. held' = response_buf \/ held' = <<>>
      BY <1>0
    <3> QED  BY <1>4, <3>2, <3>3, EmptyKept
  <2> QED  BY <2>2, <2>3, <2>4, Zenon
<1>6. Writes'
  BY <1>0, <1>5, Zenon DEF Writes, Kept
<1> QED  BY <1>1, <1>2, <1>3, <1>6 DEF ClientInv

\* The request keeps it: the answer to it has not been read yet.
LEMMA WriteKeeps ==
  ASSUME ClientInv, Write
  PROVE  ClientInv'
<1>0. pc = "writing" /\ pc' = "reading" /\ port_int # 0
      /\ UNCHANGED <<calls, endpoint, target, host_ip, port_int, is_init, parser_response, response_buf, held, flawed, spoilt>>
  BY DEF Write, call, statics, history
<1>1. calls' \in Nat /\ calls \in Nat
  BY <1>0 DEF ClientInv
<1>2. Asks'
  <2>1. Asks
    BY DEF ClientInv
  <2> QED  BY <1>0, <2>1 DEF Asks
<1>3. Fresh' /\ Writes'
  BY <1>0 DEF Fresh, Writes
<1>4. ASSUME ~spoilt' PROVE Reading'
  <2>1. ~spoilt
    BY <1>0, <1>4, Zenon
  <2>2. ResponseParser = start /\ response_buf = held /\ Kept(held)
    BY <1>0, <2>1, Zenon DEF ClientInv, Writes
  <2>3. PICK a \in Answers : answer' = a /\ wire' = Wire(a, calls)
    BY DEF Write
  <2>4. Given(a, calls) /\ held \in Seq(Units) /\ Len(held) < sizeof_buf
    BY <1>1, <2>2, AnswersGiven DEF Kept
  <2>5. ReadAt(a, calls, held, 0, Wire(a, calls), start, held)
    BY <2>4, ReadStarts
  <2>6. ResponseParser' = start
    BY <1>0, <2>2 DEF ResponseParser
  <2>7. answer' \in Answers /\ Kept(held')
    BY <1>0, <2>2, <2>3 DEF Kept
  <2>8. response_buf' = held /\ held' = held /\ calls' = calls /\ wire' = Wire(a, calls) /\ answer' = a
    BY <1>0, <2>2, <2>3
  <2>9. ReadAt(answer', calls', held', 0, wire', ResponseParser', response_buf')
    BY <2>5, <2>6, <2>8, Zenon
  <2> QED  BY <2>7, <2>9 DEF Reading, Kept
<1>5. Reads'
  BY <1>4, Zenon DEF Reads
<1> QED  BY <1>1, <1>2, <1>3, <1>5 DEF ClientInv

\* A turn of the read loop keeps it: unflawed, it reads the next units of the answer.
LEMMA ReadKeeps ==
  ASSUME ClientInv, Read
  PROVE  ClientInv'
<1>0. pc = "reading" /\ pc' = "reading"
      /\ UNCHANGED <<calls, endpoint, target, host_ip, port_int, answer, held, spoilt>>
  BY DEF Read, call
<1>1. calls' \in Nat /\ calls \in Nat
  BY <1>0 DEF ClientInv
<1>2. Asks'
  <2>1. Asks
    BY DEF ClientInv
  <2> QED  BY <1>0, <2>1 DEF Asks
<1>3. Fresh' /\ Writes'
  BY <1>0 DEF Fresh, Writes
<1>4. ASSUME ~flawed', ~spoilt' PROVE Reading'
  <2>1. PICK n \in 1 .. ReadSize :
          /\ n <= Len(wire) /\ wire' = SubSeq(wire, n + 1, Len(wire))
          /\ \E data \in Strings(n) :
               parser_responder(data) /\ flawed' = (flawed \/ data # SubSeq(wire, 1, n))
    BY DEF Read
  <2>2. PICK data \in Strings(n) : parser_responder(data) /\ flawed' = (flawed \/ data # SubSeq(wire, 1, n))
    BY <2>1, Zenon
  <2>3. ~flawed /\ data = SubSeq(wire, 1, n) /\ ~spoilt
    BY <1>0, <1>4, <2>2, Zenon
  <2>4. Reading
    BY <1>0, <2>3, Zenon DEF ClientInv, Reads
  <2>5. answer \in Answers /\ Kept(held) /\ held \in Seq(Units)
    BY <2>4 DEF Reading, Kept
  <2>6. PICK k \in Nat : ReadAt(answer, calls, held, k, wire, ResponseParser, response_buf)
    BY <2>4 DEF Reading
  <2>7. PICK o \in http_parser_execute(ResponseParser, SubSeq(wire, 1, n)) :
          parser_response' = o.p /\ is_init' = TRUE /\ response_buf' = on_body(response_buf, o.got)
    BY <2>2, <2>3, Zenon DEF parser_responder, ResponseParser
  <2>8. Given(answer, calls)
    BY <1>1, <2>5, AnswersGiven
  <2>9. n \in Nat \ {0} /\ n <= Len(wire)
    <3>1. ReadSize \in Nat
      BY ClientSizesAssumption
    <3> QED  BY <2>1, <3>1
  <2>10. ReadAt(answer, calls, held, k + n, SubSeq(wire, n + 1, Len(wire)), o.p, on_body(response_buf, o.got))
    <3> DEFINE p == ResponseParser
    <3>1. ReadAt(answer, calls, held, k, wire, p, response_buf) /\ o \in http_parser_execute(p, SubSeq(wire, 1, n))
      BY <2>6, <2>7
    <3> HIDE DEF p
    <3> QED  BY <2>5, <2>8, <2>9, <3>1, ReadOn
  <2>11. ResponseParser' = o.p
    BY <2>7 DEF ResponseParser
  <2>12. answer' = answer /\ calls' = calls /\ held' = held /\ wire' = SubSeq(wire, n + 1, Len(wire))
         /\ response_buf' = on_body(response_buf, o.got)
    BY <1>0, <2>1, <2>7, Zenon
  <2>13. ReadAt(answer', calls', held', k + n, wire', ResponseParser', response_buf')
    BY <2>10, <2>11, <2>12, Zenon
  <2>14. k + n \in Nat
    BY <2>9
  <2>15. answer' \in Answers /\ Kept(held')
    BY <2>5, <2>12 DEF Kept
  <2> QED  BY <2>13, <2>14, <2>15 DEF Reading, Kept
<1>5. Reads'
  BY <1>4, Zenon DEF Reads
<1> QED  BY <1>1, <1>2, <1>3, <1>5 DEF ClientInv

\* The other steps: a call ends or fails, another process starts.
LEMMA OthersKeep ==
  ASSUME ClientInv, WriteFails \/ ReadEnds \/ Restart \/ UNCHANGED vars
  PROVE  ClientInv'
<1>1. CASE WriteFails
  <2>1. pc' = "exited" /\ calls' = calls
    BY <1>1 DEF WriteFails, call
  <2>2. calls' \in Nat
    BY <2>1 DEF ClientInv
  <2>3. Asks' /\ Fresh' /\ Writes' /\ Reads'
    BY <2>1 DEF Asks, Fresh, Writes, Reads
  <2> QED  BY <2>2, <2>3 DEF ClientInv
<1>2. CASE Restart
  <2>1. pc' = "idle" /\ calls' = calls /\ is_init' = FALSE /\ response_buf' = <<>> /\ spoilt' = FALSE
    BY <1>2 DEF Restart, call
  <2>2. calls' \in Nat
    BY <2>1 DEF ClientInv
  <2>3. Fresh'
    BY <2>1, Zenon DEF Fresh
  <2>4. Asks' /\ Writes' /\ Reads'
    BY <2>1 DEF Asks, Writes, Reads
  <2> QED  BY <2>2, <2>3, <2>4 DEF ClientInv
<1>3. CASE ReadEnds
  <2>1. pc = "reading" /\ pc' = "returned"
        /\ UNCHANGED <<calls, endpoint, target, host_ip, port_int, is_init, parser_response, response_buf, answer, wire, held, flawed, spoilt>>
    BY <1>3 DEF ReadEnds, call, statics, server, history
  <2>2. calls' \in Nat
    BY <2>1 DEF ClientInv
  <2>3. Asks'
    <3>1. Asks
      BY DEF ClientInv
    <3> QED  BY <2>1, <3>1 DEF Asks
  <2>4. Fresh' /\ Writes'
    BY <2>1 DEF Fresh, Writes
  <2>5. Reading => Reading'
    <3>1. ResponseParser' = ResponseParser
      BY <2>1 DEF ResponseParser
    <3> QED  BY <2>1, <3>1 DEF Reading, Kept
  <2>6. Reads'
    <3>1. Reads
      BY DEF ClientInv
    <3> QED  BY <2>1, <2>5, <3>1, Zenon DEF Reads
  <2> QED  BY <2>2, <2>3, <2>4, <2>6 DEF ClientInv
<1>4. CASE UNCHANGED vars
  <2>1. UNCHANGED <<pc, calls, endpoint, target, host_ip, port_int, is_init, parser_response, response_buf, answer, wire, held, flawed, spoilt>>
    BY <1>4 DEF vars, call, statics, server, history
  <2>2. calls' \in Nat
    BY <2>1 DEF ClientInv
  <2>3. Asks' /\ Fresh'
    <3>1. Asks /\ Fresh
      BY DEF ClientInv
    <3> QED  BY <2>1, <3>1 DEF Asks, Fresh
  <2>4. ResponseParser' = ResponseParser
    BY <2>1 DEF ResponseParser
  <2>5. Writes'
    <3>1. Writes
      BY DEF ClientInv
    <3> QED  BY <2>1, <2>4, <3>1 DEF Writes, Kept
  <2>6. Reads'
    <3>1. Reads
      BY DEF ClientInv
    <3>2. Reading => Reading'
      BY <2>1, <2>4 DEF Reading, Kept
    <3> QED  BY <2>1, <3>1, <3>2 DEF Reads
  <2> QED  BY <2>2, <2>3, <2>5, <2>6 DEF ClientInv
<1> QED  BY <1>1, <1>2, <1>3, <1>4

\* Every step keeps the invariant.
LEMMA ClientStep == ClientInv /\ [Next]_vars => ClientInv'
BY HttpKeeps, WriteKeeps, ReadKeeps, OthersKeep DEF Next

\* The request of a call asks for what its URL names, and as long as nothing was flawed or
\* spoilt the parser and the buffer are where the units read of the answer have taken them.
THEOREM ClientInvariant == Spec => []ClientInv
<1>1. Init => ClientInv
  BY ClientInit
<1>2. ClientInv /\ [Next]_vars => ClientInv'
  BY ClientStep
<1> QED  BY <1>1, <1>2, PTL DEF Spec

---------------------------------------------------------------------------
(* The theorems. *)
\* A call that has sent its request had a URL that parsed, and asked for what the URL
\* names.
LEMMA ClientAsksRight == ClientInv => AskedRight
<1> SUFFICES ASSUME ClientInv, pc \in {"reading", "returned"}
             PROVE  AskedOf(endpoint, host_ip, port_int, target)
  BY DEF AskedRight, AskedOf, FieldText
<1> DEFINE u == http_parser_parse_url(endpoint, FALSE).u
<1>1. /\ endpoint \in Endpoints /\ port_int = Port(u) /\ port_int # 0
      /\ target = Target(endpoint, u) /\ host_ip = HostIp(endpoint, u)
  BY DEF ClientInv, Asks
<1>2. AskedOf(endpoint, HostIp(endpoint, u), Port(u), Target(endpoint, u))
  BY <1>1, UrlAsked
<1> HIDE DEF u
<1> QED  BY <1>1, <1>2

\* A call that has read its answer whole has the body in its buffer, as much of it as fits.
LEMMA ClientKeepsBody == ClientInv => BodyKept
<1> SUFFICES ASSUME ClientInv, pc = "returned", wire = <<>>, ~flawed, ~spoilt
             PROVE  response_buf = Cut(held \o Body(answer, calls))
  BY DEF BodyKept, Body, Cut
<1>1. calls \in Nat /\ Reads
  BY DEF ClientInv
<1>2. Reading
  BY <1>1, Zenon DEF Reads
<1> QED  BY <1>1, <1>2, ReadingEnds

\* A request goes out only for a URL that parsed into fields that make it up, to the port it
\* names, for its path and query, with its host and port in the Host header, and nothing for
\* a field that the URL has not got (http/http.c, http).
THEOREM ClientAsked == Spec => []AskedRight
BY ClientInvariant, ClientAsksRight, PTL

\* http() asks for what its URL names, and when it has read the whole of an answer the
\* parser takes, with no earlier one having spoilt the parser, its buffer holds the body of
\* that answer and of no other, however the answer was cut into reads and wherever the
\* buffer ends.
THEOREM ClientGetsItsBody == Spec => []GetsItsBody
<1>1. ClientInv => GetsItsBody
  BY ClientAsksRight, ClientKeepsBody DEF GetsItsBody
<1> QED  BY <1>1, ClientInvariant, PTL
=============================================================================
