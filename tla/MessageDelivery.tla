-------------------------- MODULE MessageDelivery --------------------------
(***************************************************************************)
(* What producer() promises about one message per call, without handles,   *)
(* queues or connections: a message is accepted or not; an accepted one is *)
(* stored at most once, possibly after the call is over; it gets at most   *)
(* one verdict, during the call, and the verdict is final; a call that     *)
(* returns -1 never accepted its message.                                  *)
(***************************************************************************)
EXTENDS Integers, Sequences

CONSTANT Messages

VARIABLES accepted,   \* messages the client library has taken
          log,        \* the partition's log
          verdict,    \* what the application was told about each message
          ret         \* what each call returned: 0, -1, or 1 while it runs

vars == <<accepted, log, verdict, ret>>

InLog(m) == \E n \in DOMAIN log : log[n] = m

Init ==
  /\ accepted = {} /\ log = << >>
  /\ verdict = [m \in Messages |-> << >>] /\ ret = [m \in Messages |-> 1]

Accept(m) ==
  /\ ret[m] = 1 /\ m \notin accepted
  /\ accepted' = accepted \cup {m}
  /\ UNCHANGED <<log, verdict, ret>>

Store(m) ==
  /\ m \in accepted /\ ~InLog(m) /\ verdict[m] # <<"failed">>
  /\ log' = Append(log, m)
  /\ UNCHANGED <<accepted, verdict, ret>>

Tell(m, v) ==
  /\ m \in accepted /\ ret[m] = 1 /\ verdict[m] = << >>
  /\ InLog(m) <=> v = "delivered"
  /\ verdict' = [verdict EXCEPT ![m] = <<v>>]
  /\ UNCHANGED <<accepted, log, ret>>

Return(m, value) ==
  /\ ret[m] = 1 /\ (value = -1 => m \notin accepted)
  /\ ret' = [ret EXCEPT ![m] = value]
  /\ UNCHANGED <<accepted, log, verdict>>

Next == \E m \in Messages :
  \/ Accept(m) \/ Store(m)
  \/ \E v \in {"delivered", "failed"} : Tell(m, v)
  \/ \E value \in {0, -1} : Return(m, value)

Spec == Init /\ [][Next]_vars
=============================================================================
