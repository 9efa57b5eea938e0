---------------------------- MODULE HttpEvents ----------------------------
(***************************************************************************)
(* What http_parser.h promises an application about its callbacks: the     *)
(* order in which they come, whatever bytes are fed and however they are   *)
(* cut.  last is the callback that came last, head whether the headers of  *)
(* the message are still being told, due how much of the announced chunk   *)
(* is still to come (Endless when no chunk is open).                       *)
(***************************************************************************)
EXTENDS Integers

Endless == -1

VARIABLES last, head, due

vars == <<last, head, due>>

Init == last = "none" /\ head = TRUE /\ due = Endless

Begin == /\ last \in {"none", "message_complete"}
         /\ last' = "message_begin" /\ head' = TRUE /\ due' = Endless

StartLine == /\ last = "message_begin"
             /\ last' \in {"url", "status"} /\ UNCHANGED <<head, due>>

\* Trailers come in the chunk of length zero.
Field == /\ \/ head /\ last \in {"url", "status", "header_value"}
            \/ ~head /\ due = 0 /\ last \in {"chunk_header", "header_value"}
         /\ last' = "header_field" /\ UNCHANGED <<head, due>>

Value == last = "header_field" /\ last' = "header_value" /\ UNCHANGED <<head, due>>

HeadersComplete == /\ head /\ last \in {"url", "status", "header_value"}
                   /\ last' = "headers_complete" /\ head' = FALSE /\ UNCHANGED due

ChunkHeader == /\ ~head
               /\ \/ last = "headers_complete"
                  \/ last = "chunk_complete" /\ due # Endless
               /\ last' = "chunk_header" /\ due' \in Nat /\ UNCHANGED head

Body == /\ ~head
        /\ \/ last \in {"headers_complete", "body"} /\ due = Endless /\ UNCHANGED due
           \/ last \in {"chunk_header", "body"} /\ due # Endless /\ due' \in 0 .. due - 1
        /\ last' = "body" /\ UNCHANGED head

\* A chunk is complete when all of it has come; no chunk follows the empty one.
ChunkComplete == /\ ~head /\ due = 0 /\ last \in {"chunk_header", "body", "header_value"}
                 /\ last' = "chunk_complete" /\ UNCHANGED head
                 /\ due' = IF last = "body" THEN 0 ELSE Endless

Complete == /\ ~head
            /\ due = Endless
            /\ last \in {"headers_complete", "body", "chunk_complete"}
            /\ last' = "message_complete" /\ UNCHANGED <<head, due>>

Next == \/ Begin \/ StartLine \/ Field \/ Value \/ HeadersComplete
        \/ ChunkHeader \/ Body \/ ChunkComplete \/ Complete

Spec == Init /\ [][Next]_vars
===========================================================================
