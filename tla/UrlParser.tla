----------------------------- MODULE UrlParser -----------------------------
(***************************************************************************)
(* http_parser_parse_url (http_parser.c): one pass over the URL for the    *)
(* fields, a second one over the host for userinfo, host and port, then    *)
(* the port's value.  Offsets and lengths are kept in UINT16 values.       *)
(***************************************************************************)
EXTENDS HttpTokens, SequencesExt

CONSTANTS
  UINT16,     \* 2^16, scaled down: offsets and lengths are modulo this
  MaxPort     \* 0xffff, scaled down

ASSUME UrlWidthAssumption == UINT16 \in Nat \ {0} /\ MaxPort \in Nat

Fields == {"UF_SCHEMA", "UF_HOST", "UF_PORT", "UF_PATH", "UF_QUERY", "UF_FRAGMENT", "UF_USERINFO"}
url_init == [set |-> {}, port |-> 0,
             off |-> [f \in Fields |-> 0], len |-> [f \in Fields |-> 0]]

\* A field begins at position i (counted from 1) or goes on there.
Open(r, f, i) == [r EXCEPT !.set = @ \cup {f}, !.off[f] = (i - 1) % UINT16, !.len[f] = 1]
More(r, f) == [r EXCEPT !.len[f] = (@ + 1) % UINT16]

---------------------------------------------------------------------------
(* The first pass.  A state of parse_url_char says which field the         *)
(* character belongs to; the states that skip a delimiter say none.        *)
FieldOf(s) ==
  CASE s = "s_req_schema" -> "UF_SCHEMA"
    [] s \in {"s_req_server", "s_req_server_with_at"} -> "UF_HOST"
    [] s = "s_req_path" -> "UF_PATH"
    [] s = "s_req_query_string" -> "UF_QUERY"
    [] s = "s_req_fragment" -> "UF_FRAGMENT"
    [] OTHER -> "none"

UrlStep(scan, ch) ==
  LET s == parse_url_char(scan.s, ch)
      f == FieldOf(s)
      i == scan.i + 1
  IN IF scan.s = "s_dead" THEN scan
     ELSE [s |-> s, i |-> i,
           old |-> IF f = "none" THEN scan.old ELSE f,
           found_at |-> scan.found_at \/ s = "s_req_server_with_at",
           u |-> IF f = "none" THEN scan.u
                 ELSE IF f = scan.old THEN More(scan.u, f) ELSE Open(scan.u, f, i)]

ScanStart(is_connect) ==
  [s |-> IF is_connect THEN "s_req_server_start" ELSE "s_req_spaces_before_url",
   i |-> 0, old |-> "none", found_at |-> FALSE, u |-> url_init]

Scan(buf, is_connect) ==
  LET scan[n \in 0 .. Len(buf)] ==
        IF n = 0 THEN ScanStart(is_connect) ELSE UrlStep(scan[n - 1], buf[n])
  IN scan[Len(buf)]

---------------------------------------------------------------------------
(* The second pass, over the characters of the host field. *)
http_parse_host_char(s, ch) ==
  CASE s \in {"s_http_userinfo", "s_http_userinfo_start"} ->
         (CASE ch = "@" -> "s_http_host_start"
            [] IsUserinfoChar(ch) -> "s_http_userinfo"
            [] OTHER -> "s_http_host_dead")
    [] s = "s_http_host_start" /\ ch = "[" -> "s_http_host_v6_start"
    [] s \in {"s_http_host_start", "s_http_host"} /\ IsHostChar(ch) -> "s_http_host"
    [] s \in {"s_http_host", "s_http_host_v6_end"} /\ ch = ":" -> "s_http_host_port_start"
    [] s \in {"s_http_host_v6", "s_http_host_v6_zone"} /\ ch = "]" -> "s_http_host_v6_end"
    [] s \in {"s_http_host_v6", "s_http_host_v6_start"} /\ (IsHex(ch) \/ ch \in {":", "."})
         -> "s_http_host_v6"
    [] s = "s_http_host_v6" /\ ch = "%" -> "s_http_host_v6_zone_start"
    [] s \in {"s_http_host_v6_zone_start", "s_http_host_v6_zone"}
         /\ (IsAlpha(ch) \/ IsNum(ch) \/ ch \in {"%", "-", "."}) -> "s_http_host_v6_zone"
    [] s \in {"s_http_host_port_start", "s_http_host_port"} /\ IsNum(ch) -> "s_http_host_port"
    [] OTHER -> "s_http_host_dead"

\* fault: the host keeps the place it had before the userinfo was cut off.
HostStepStays(scan, ch) ==
  LET s == http_parse_host_char(scan.s, ch)
      i == scan.i + 1
      Part(f) == IF s # scan.s THEN Open(scan.u, f, i) ELSE More(scan.u, f)
  IN IF scan.s = "s_http_host_dead" THEN scan
     ELSE [s |-> s, i |-> i,
           u |-> CASE s \in {"s_http_host", "s_http_host_v6", "s_http_host_v6_zone_start",
                             "s_http_host_v6_zone"} -> More(scan.u, "UF_HOST")
                   [] s = "s_http_host_port" -> Part("UF_PORT")
                   [] s = "s_http_userinfo" -> Part("UF_USERINFO")
                   [] OTHER -> scan.u]

\* The host begins again where its own characters do; its length was reset.
HostOpen(r, i) == [More(r, "UF_HOST") EXCEPT !.off["UF_HOST"] = (i - 1) % UINT16]
HostStep(scan, ch) ==
  LET s == http_parse_host_char(scan.s, ch)
      i == scan.i + 1
      u == scan.u
  IN IF scan.s = "s_http_host_dead" THEN scan
     ELSE [s |-> s, i |-> i,
           u |-> CASE s \in {"s_http_host", "s_http_host_v6"} ->
                        (IF s # scan.s THEN HostOpen(u, i) ELSE More(u, "UF_HOST"))
                   [] s \in {"s_http_host_v6_zone_start", "s_http_host_v6_zone"} -> More(u, "UF_HOST")
                   [] s = "s_http_host_port" ->
                        (IF s # scan.s THEN Open(u, "UF_PORT", i) ELSE More(u, "UF_PORT"))
                   [] s = "s_http_userinfo" ->
                        (IF s # scan.s THEN Open(u, "UF_USERINFO", i) ELSE More(u, "UF_USERINFO"))
                   [] OTHER -> u]

\* "Make sure we don't end somewhere unexpected"
HostEnds == {"s_http_host", "s_http_host_v6_end", "s_http_host_port"}

HostStart(r, found_at) ==
  [s |-> IF found_at THEN "s_http_userinfo_start" ELSE "s_http_host_start",
   i |-> r.off["UF_HOST"], u |-> [r EXCEPT !.len["UF_HOST"] = 0]]

http_parse_host(buf, r, found_at) ==
  LET from == r.off["UF_HOST"]
      scan[n \in 0 .. r.len["UF_HOST"]] ==
        IF n = 0 THEN HostStart(r, found_at) ELSE HostStep(scan[n - 1], buf[from + n])
  IN scan[r.len["UF_HOST"]]

---------------------------------------------------------------------------
(* The whole function. *)
Text(buf, r, f) == SubSeq(buf, r.off[f] + 1, r.off[f] + r.len[f])

\* v after the digits, or more than MaxPort as soon as it is.
PortStep(v, d) == IF v > MaxPort THEN v ELSE v * 10 + Num[d]
PortValue(digits) ==
  LET v[n \in 0 .. Len(digits)] == IF n = 0 THEN 0 ELSE PortStep(v[n - 1], digits[n])
  IN v[Len(digits)]

\* What it returns, and u, which a failure leaves as far as it has come.
http_parser_parse_url(buf, is_connect) ==
  LET Port(r) == IF "UF_PORT" \in r.set THEN PortValue(Text(buf, r, "UF_PORT")) ELSE 0
      Whole(r, v) == IF (is_connect /\ r.set # {"UF_HOST", "UF_PORT"}) \/ v > MaxPort
                     THEN [ret |-> 1, u |-> r] ELSE [ret |-> 0, u |-> [r EXCEPT !.port = v]]
      Host(host) == IF host.s \notin HostEnds THEN [ret |-> 1, u |-> host.u]
                    ELSE Whole(host.u, Port(host.u))
      From(scan) ==
        IF buf = <<>> \/ scan.s = "s_dead" \/ scan.u.set \cap {"UF_SCHEMA", "UF_HOST"} = {"UF_SCHEMA"}
        THEN [ret |-> 1, u |-> scan.u]
        ELSE IF "UF_HOST" \in scan.u.set THEN Host(http_parse_host(buf, scan.u, scan.found_at))
        ELSE Whole(scan.u, Port(scan.u))
  IN From(Scan(buf, is_connect))

---------------------------------------------------------------------------
(* What a URL that was parsed must satisfy (the properties of the runs).   *)

\* The texts these fields can have been cut out of: what is between them is the
\* delimiters, and nothing is lost but an empty userinfo or query and '#'s.
Readings(buf, u) ==
  LET Of(f) == IF f \in u.set THEN Text(buf, u, f) ELSE <<>>
      Hashes == {[i \in 1 .. n |-> "#"] : n \in 0 .. Len(buf)}
  IN {a \o b \o c \o d \o e \o f \o g :
        a \in IF "UF_SCHEMA" \in u.set THEN {Of("UF_SCHEMA") \o <<":", "/", "/">>} ELSE {<<>>},
        b \in IF "UF_USERINFO" \in u.set THEN {Of("UF_USERINFO") \o <<"@">>} ELSE {<<>>, <<"@">>},
        c \in {Of("UF_HOST"), <<"[">> \o Of("UF_HOST") \o <<"]">>},
        d \in IF "UF_PORT" \in u.set THEN {<<":">> \o Of("UF_PORT")} ELSE {<<>>},
        e \in {Of("UF_PATH")},
        f \in IF "UF_QUERY" \in u.set THEN {<<"?">> \o Of("UF_QUERY")} ELSE {<<>>, <<"?">>},
        g \in IF "UF_FRAGMENT" \in u.set THEN {h \o Of("UF_FRAGMENT") : h \in Hashes \ {<<>>}}
                                          ELSE Hashes}

\* Fields that are set are not empty and lie in the buffer.
InBuffer(buf, u) == \A f \in u.set : u.len[f] > 0 /\ u.off[f] + u.len[f] <= Len(buf)

\* The number a sequence of digits is, from its last digit.
Shifted(r, d) == [v |-> r.v + r.b * Num[d], b |-> 10 * r.b]
NumberOf(digits) ==
  LET last[n \in 0 .. Len(digits)] ==
        IF n = 0 THEN [v |-> 0, b |-> 1] ELSE Shifted(last[n - 1], digits[Len(digits) + 1 - n])
  IN last[Len(digits)].v

\* A host goes with a scheme, a port with a host; a port is digits ("already validated"),
\* and their number; CONNECT takes these two only.
Authority(buf, is_connect, u) ==
  /\ "UF_SCHEMA" \in u.set \/ is_connect <=> "UF_HOST" \in u.set
  /\ u.port <= MaxPort
  /\ "UF_PORT" \in u.set => LET digits == Text(buf, u, "UF_PORT")
                            IN /\ "UF_HOST" \in u.set /\ u.port = NumberOf(digits)
                               /\ \A k \in DOMAIN digits : IsNum(digits[k])
  /\ is_connect => u.set = {"UF_HOST", "UF_PORT"}

\* The fields of a URL that was parsed lie in it, together make it up, and belong together.
FieldsRight(buf, is_connect) ==
  \A parsed \in {http_parser_parse_url(buf, is_connect)} :
    parsed.ret = 0 => /\ InBuffer(buf, parsed.u)
                      /\ buf \in Readings(buf, parsed.u)
                      /\ Authority(buf, is_connect, parsed.u)
===========================================================================
