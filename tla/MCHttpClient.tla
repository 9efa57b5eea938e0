---------------------------- MODULE MCHttpClient ----------------------------
(* The values of HttpClient's constants for TLC.                             *)
EXTENDS HttpClient

Site == <<"a", ":", "/", "/", "x">>
\* With all fields; with a host in brackets and neither path nor query; no port; a
\* port too large; a port that is not one; no host.
MCEndpoints ==
  {<<"a", ":", "/", "/", "a", "@", "x", ":", "2", "1", "/", "a", "?", "b", "#", "x">>,
   <<"a", ":", "/", "/", "[", "1", "]", ":", "2">>,
   Site \o <<"/", "a">>, Site \o <<":", "2", "2">>, Site \o <<":", "1", "x">>, <<"/", "a">>}

\* Bodies that fit, fill and overfill what on_body keeps; a NUL in one; more behind one.
MCAnswers ==
  {Answer(interim, framed, keep, n, 0, 0) : interim, framed, keep \in BOOLEAN, n \in {0, 2, 4}}
  \cup {Answer(FALSE, framed, TRUE, 2, nul, 0) : framed \in BOOLEAN, nul \in {1, 2}}
  \cup {Answer(FALSE, TRUE, keep, 2, 0, 1) : keep \in BOOLEAN}
===========================================================================
