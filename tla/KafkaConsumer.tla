--------------------------- MODULE KafkaConsumer ---------------------------
(***************************************************************************)
(* consumer() of client.c (kafak/consumer.c is the same function), run by  *)
(* the processes of one consumer group over one partition.                 *)
(*                                                                         *)
(* A process calls consumer(), which sets librdkafka up, subscribes,       *)
(* installs the SIGINT handler and polls while `run` is set.  librdkafka   *)
(* prefetches messages, stores the offset of every message it hands out    *)
(* and commits the stored offset in the background; the coordinator gives  *)
(* the partition to one member at a time and takes it from a member it     *)
(* has not heard of, which may not know yet.  A process may die anywhere.  *)
(***************************************************************************)
EXTENDS Integers, FiniteSets

CONSTANTS Procs,       \* processes that may run consumer()
          MaxMsgs,     \* bound: messages the partition ever holds
          MaxFaults,   \* bound: crashes, lost sessions and failed last commits
          MaxSignals,  \* bound: SIGINTs delivered
          None,        \* no member
          Ghost        \* a member whose process is dead

ASSUME ProcsAssumption == None \notin Procs /\ Ghost \notin Procs /\ None # Ghost
ASSUME BoundsAssumption == MaxMsgs \in Nat /\ MaxFaults \in Nat /\ MaxSignals \in Nat

Offsets == 0 .. MaxMsgs - 1
NoOffset == -1

VARIABLES
  pc,         \* where each process is
  run,        \* the static flag of each process, cleared by stop()
  handler,    \* has the process installed stop() for SIGINT
  conf, rk,   \* who owns the configuration; the consumer handle
  topics,     \* is the subscription list allocated
  hand,       \* offset of the message the application holds
  assigned,   \* librdkafka believes the partition is assigned to it
  pos,        \* offset of the next message consumer_poll will hand out
  fetched,    \* the prefetched messages are pos .. fetched - 1
  stored,     \* offset stored for the next commit
  owner,      \* coordinator: the member that has the partition
  committed,  \* coordinator: the group's committed offset
  end,        \* messages in the partition's log
  handled,    \* history: how often each message was processed (2: or more)
  dropped,    \* history: messages in the hand of a process that died
  exposed,    \* history: messages a disorderly end may have redelivered
  late,       \* history: messages processed since SIGINT (2: or more)
  faults, signals   \* how many there were

app == <<pc, run, handler, conf, rk, topics, hand>>
lib == <<assigned, pos, fetched, stored>>
group == <<owner, committed, end>>
history == <<handled, dropped, exposed, late, faults, signals>>
vars == <<app, lib, group, history>>

Init ==
  /\ pc = [p \in Procs |-> "dead"] /\ run = [p \in Procs |-> 1]
  /\ handler = [p \in Procs |-> FALSE] /\ conf = [p \in Procs |-> "none"]
  /\ rk = [p \in Procs |-> "none"] /\ topics = [p \in Procs |-> FALSE]
  /\ hand = [p \in Procs |-> NoOffset]
  /\ assigned = [p \in Procs |-> FALSE] /\ pos = [p \in Procs |-> 0]
  /\ fetched = [p \in Procs |-> 0] /\ stored = [p \in Procs |-> NoOffset]
  /\ owner = None /\ committed = NoOffset /\ end = 0
  /\ handled = [o \in Offsets |-> 0] /\ dropped = {} /\ exposed = {}
  /\ late = [p \in Procs |-> 0] /\ faults = 0 /\ signals = 0

Goto(p, label) == pc' = [pc EXCEPT ![p] = label]
Twice(n) == IF n = 2 THEN 2 ELSE n + 1
-----------------------------------------------------------------------------
\* consumer(), one step of one process at a time.

(* A new process starts: its statics are initialised ...                   *)
StartProcess(p) ==
  /\ pc[p] = "dead" /\ Goto(p, "returned")
  /\ run' = [run EXCEPT ![p] = 1] /\ handler' = [handler EXCEPT ![p] = FALSE]
  /\ late' = [late EXCEPT ![p] = 0]
  /\ UNCHANGED <<conf, rk, topics, hand, lib, group, handled, dropped, exposed, faults, signals>>

(* ... and it calls consumer(), the first time or again: `run` keeps the   *)
(* value the last SIGINT left.                                             *)
ResetRun(p) == 1                     \* fault: run = 1 on entry
RunOnEntry(p) == run[p]
Enter(p) ==
  /\ pc[p] = "returned" /\ Goto(p, "configure")
  /\ run' = [run EXCEPT ![p] = RunOnEntry(p)]
  /\ conf' = [conf EXCEPT ![p] = "app"] /\ rk' = [rk EXCEPT ![p] = "none"]
  /\ UNCHANGED <<handler, topics, hand, lib, group, history>>

Configure(p) ==
  /\ pc[p] = "configure" /\ Goto(p, "new")
  /\ UNCHANGED <<run, handler, conf, rk, topics, hand, lib, group, history>>

\* Fault: the error path returns without rd_kafka_conf_destroy.
ConfigureFailsLeaking(p) ==
  /\ pc[p] = "configure" /\ Goto(p, "returned")
  /\ UNCHANGED <<run, handler, conf, rk, topics, hand, lib, group, history>>

(* bootstrap.servers, group.id or auto.offset.reset is refused.            *)
ConfigureFails(p) ==
  /\ pc[p] = "configure" /\ Goto(p, "returned")
  /\ conf' = [conf EXCEPT ![p] = "freed"]
  /\ UNCHANGED <<run, handler, rk, topics, hand, lib, group, history>>

NewConsumer(p) ==
  /\ pc[p] = "new" /\ Goto(p, "subscribe")
  /\ conf' = [conf EXCEPT ![p] = "handle"] /\ rk' = [rk EXCEPT ![p] = "live"]
  /\ topics' = [topics EXCEPT ![p] = TRUE]
  /\ UNCHANGED <<run, handler, hand, lib, group, history>>

(* rd_kafka_new returns NULL; the configuration is not destroyed.          *)
NewFails(p) ==
  /\ pc[p] = "new" /\ Goto(p, "returned")
  /\ rk' = [rk EXCEPT ![p] = "null"]
  /\ UNCHANGED <<run, handler, conf, topics, hand, lib, group, history>>

(* The subscription is taken over and its list freed: the process is a     *)
(* member of the group from here on.                                       *)
Subscribe(p) ==
  /\ pc[p] = "subscribe" /\ Goto(p, "signal")
  /\ topics' = [topics EXCEPT ![p] = FALSE]
  /\ UNCHANGED <<run, handler, conf, rk, hand, lib, group, history>>

SubscribeFails(p) ==
  /\ pc[p] = "subscribe" /\ Goto(p, "returned")
  /\ topics' = [topics EXCEPT ![p] = FALSE]
  /\ conf' = [conf EXCEPT ![p] = "freed"] /\ rk' = [rk EXCEPT ![p] = "destroyed"]
  /\ UNCHANGED <<run, handler, hand, lib, group, history>>

(* signal(SIGINT, stop)                                                    *)
InstallHandler(p) ==
  /\ pc[p] = "signal" /\ Goto(p, "while")
  /\ handler' = [handler EXCEPT ![p] = TRUE]
  /\ UNCHANGED <<run, conf, rk, topics, hand, lib, group, history>>

IgnoreRun(p) == TRUE                 \* fault: while (1)
Running(p) == run[p] = 1
While(p) ==
  /\ pc[p] = "while" /\ Goto(p, IF Running(p) THEN "poll" ELSE "close")
  /\ UNCHANGED <<run, handler, conf, rk, topics, hand, lib, group, history>>

\* What the local queue of prefetched messages has for consumer_poll.
Available(p) == assigned[p] /\ pos[p] < fetched[p]

(* consumer_poll hands out a message, stores the offset after it and moves *)
(* on.  A member that has lost the partition without knowing it reads what *)
(* somebody else may read as well.                                         *)
OffsetToStore(o) == o + 1
PollMessage(p) ==
  /\ pc[p] = "poll" /\ Available(p) /\ Goto(p, "message")
  /\ hand' = [hand EXCEPT ![p] = pos[p]]
  /\ stored' = [stored EXCEPT ![p] = OffsetToStore(pos[p])]
  /\ pos' = [pos EXCEPT ![p] = @ + 1]
  /\ exposed' = IF owner = p THEN exposed ELSE exposed \cup {pos[p]}
  /\ UNCHANGED <<run, handler, conf, rk, topics, assigned, fetched, group,
                 handled, dropped, late, faults, signals>>

(* consumer_poll returns an error event, which is printed and destroyed.   *)
PollError(p) ==
  /\ pc[p] = "poll" /\ Goto(p, "while")
  /\ UNCHANGED <<run, handler, conf, rk, topics, hand, lib, group, history>>

(* Nothing arrives within 100 ms.                                          *)
PollTimeout(p) ==
  /\ pc[p] = "poll" /\ ~Available(p) /\ Goto(p, "while")
  /\ UNCHANGED <<run, handler, conf, rk, topics, hand, lib, group, history>>

\* Fault: the application stores the offset itself, after the message.
ProcessAndStore(p) ==
  /\ pc[p] = "message" /\ Goto(p, "while")
  /\ handled' = [handled EXCEPT ![hand[p]] = Twice(@)]
  /\ stored' = [stored EXCEPT ![p] = OffsetToStore(hand[p])]
  /\ hand' = [hand EXCEPT ![p] = NoOffset]
  /\ UNCHANGED <<run, handler, conf, rk, topics, assigned, pos, fetched, group,
                 dropped, exposed, late, faults, signals>>

(* The message is printed and destroyed.                                   *)
Process(p) ==
  /\ pc[p] = "message" /\ Goto(p, "while")
  /\ handled' = [handled EXCEPT ![hand[p]] = Twice(@)]
  /\ late' = [late EXCEPT ![p] = IF run[p] = 0 THEN Twice(@) ELSE @]
  /\ hand' = [hand EXCEPT ![p] = NoOffset]
  /\ UNCHANGED <<run, handler, conf, rk, topics, lib, group,
                 dropped, exposed, faults, signals>>

\* What p has read since the committed offset, which the group will read
\* again when p ends without committing it.
Uncommitted(p) == IF assigned[p] THEN {o \in Offsets : committed <= o /\ o < pos[p]} ELSE {}

Unassign(p) ==
  /\ assigned' = [assigned EXCEPT ![p] = FALSE]
  /\ stored' = [stored EXCEPT ![p] = NoOffset]
  /\ fetched' = [fetched EXCEPT ![p] = 0] /\ pos' = [pos EXCEPT ![p] = 0]

\* The coordinator takes an offset from the member that owns the partition.
CommitStored(p) ==
  committed' = IF owner = p /\ stored[p] # NoOffset THEN stored[p] ELSE committed

\* rd_kafka_consumer_close, then rd_kafka_destroy; consumer() returns 0.
LeaveAndReturn(p) ==
  /\ pc[p] = "close" /\ Goto(p, "returned")
  /\ Unassign(p)
  /\ conf' = [conf EXCEPT ![p] = "freed"] /\ rk' = [rk EXCEPT ![p] = "destroyed"]
  /\ owner' = IF owner = p THEN None ELSE owner
  /\ UNCHANGED <<run, handler, topics, hand, end, handled, dropped, late, signals>>

\* Fault: the handle is destroyed with RD_KAFKA_DESTROY_F_NO_CONSUMER_CLOSE.
CloseWithoutCommit(p) ==
  LeaveAndReturn(p) /\ UNCHANGED <<committed, exposed, faults>>

(* The final offsets are committed and the group is left ...               *)
Close(p) ==
  /\ LeaveAndReturn(p) /\ CommitStored(p)
  /\ UNCHANGED <<exposed, faults>>

(* ... or the commit fails, and the error consumer_close returns is lost.  *)
CloseCommitFails(p) ==
  /\ faults < MaxFaults /\ faults' = faults + 1
  /\ LeaveAndReturn(p)
  /\ exposed' = exposed \cup Uncommitted(p)
  /\ UNCHANGED committed

-----------------------------------------------------------------------------
\* Signals and crashes.

Die(p) ==
  /\ Goto(p, "dead") /\ Unassign(p)
  /\ hand' = [hand EXCEPT ![p] = NoOffset]
  /\ conf' = [conf EXCEPT ![p] = "none"] /\ rk' = [rk EXCEPT ![p] = "none"]
  /\ topics' = [topics EXCEPT ![p] = FALSE]
  /\ dropped' = IF hand[p] = NoOffset THEN dropped ELSE dropped \cup {hand[p]}
  /\ exposed' = exposed \cup Uncommitted(p)
  /\ owner' = IF owner = p THEN Ghost ELSE owner
  /\ UNCHANGED <<run, handler, committed, end, handled, late>>

(* SIGINT runs stop() once it is installed ...                             *)
stop(p) ==
  /\ pc[p] # "dead" /\ handler[p] /\ signals < MaxSignals
  /\ run' = [run EXCEPT ![p] = 0] /\ signals' = signals + 1
  /\ UNCHANGED <<pc, handler, conf, rk, topics, hand, lib, group,
                 handled, dropped, exposed, late, faults>>

(* ... and until then it ends the process where it stands.                 *)
SignalKills(p) ==
  /\ pc[p] # "dead" /\ ~handler[p] /\ signals < MaxSignals
  /\ signals' = signals + 1 /\ Die(p)
  /\ UNCHANGED faults

Crash(p) ==
  /\ pc[p] # "dead" /\ faults < MaxFaults
  /\ faults' = faults + 1 /\ Die(p)
  /\ UNCHANGED signals

(* The process ends after consumer() has returned.                         *)
Exit(p) ==
  /\ pc[p] = "returned" /\ Die(p)
  /\ UNCHANGED <<faults, signals>>

-----------------------------------------------------------------------------
\* The broker, the coordinator and librdkafka's background work.

Member(p) == pc[p] \in {"signal", "while", "poll", "message", "close"}

NewMessage == end < MaxMsgs /\ end' = end + 1
              /\ UNCHANGED <<app, lib, owner, committed, history>>

(* Without a committed offset auto.offset.reset decides where to start.    *)
Latest == end                        \* fault: auto.offset.reset = latest
ResetOffset == 0

(* A rebalance gives the free partition to a member.                       *)
Assign(p) ==
  /\ Member(p) /\ owner = None /\ ~assigned[p] /\ owner' = p
  /\ LET start == IF committed = NoOffset THEN ResetOffset ELSE committed
     IN  pos' = [pos EXCEPT ![p] = start] /\ fetched' = [fetched EXCEPT ![p] = start]
  /\ assigned' = [assigned EXCEPT ![p] = TRUE]
  /\ UNCHANGED <<app, stored, committed, end, history>>

(* A rebalance takes it away: librdkafka commits what is stored first.     *)
Revoke(p) ==
  /\ owner = p /\ owner' = None
  /\ CommitStored(p) /\ Unassign(p)
  /\ UNCHANGED <<app, end, history>>

(* The coordinator has not heard of a live member for too long.            *)
LoseSession(p) ==
  /\ owner = p /\ faults < MaxFaults
  /\ owner' = None /\ faults' = faults + 1
  /\ exposed' = exposed \cup Uncommitted(p)
  /\ UNCHANGED <<app, lib, committed, end, handled, dropped, late, signals>>

(* Nor of one that is dead.                                                *)
ExpireDead ==
  /\ owner = Ghost /\ owner' = None
  /\ UNCHANGED <<app, lib, committed, end, history>>

(* A member learns that the partition is no longer its own.                *)
LearnLoss(p) ==
  /\ assigned[p] /\ owner # p /\ Unassign(p)
  /\ UNCHANGED <<app, group, history>>

Fetch(p) ==
  /\ assigned[p] /\ fetched[p] < end
  /\ fetched' = [fetched EXCEPT ![p] = end]
  /\ UNCHANGED <<app, assigned, pos, stored, group, history>>

(* enable.auto.commit                                                      *)
AutoCommit(p) ==
  /\ owner = p /\ stored[p] > committed
  /\ CommitStored(p)
  /\ UNCHANGED <<app, lib, owner, end, history>>

-----------------------------------------------------------------------------
Body(p) ==
  \/ Configure(p) \/ ConfigureFails(p) \/ NewConsumer(p) \/ NewFails(p)
  \/ Subscribe(p) \/ SubscribeFails(p) \/ InstallHandler(p) \/ While(p)
  \/ PollMessage(p) \/ PollError(p) \/ PollTimeout(p) \/ Process(p)
  \/ Close(p) \/ CloseCommitFails(p)

Next ==
  \/ NewMessage \/ ExpireDead
  \/ \E p \in Procs :
       \/ StartProcess(p) \/ Enter(p) \/ Body(p) \/ Exit(p)
       \/ stop(p) \/ SignalKills(p) \/ Crash(p)
       \/ Assign(p) \/ Revoke(p) \/ LoseSession(p) \/ LearnLoss(p)
       \/ Fetch(p) \/ AutoCommit(p)

Spec == Init /\ [][Next]_vars /\ \A p \in Procs : WF_vars(Body(p))

(* librdkafka's threads and the coordinator make progress, and an error    *)
(* event in front of the queue does not hold messages up for ever.         *)
FairSpec ==
  /\ Spec /\ WF_vars(ExpireDead)
  /\ \A p \in Procs : /\ WF_vars(Assign(p)) /\ WF_vars(LearnLoss(p)) /\ WF_vars(Fetch(p))
                      /\ SF_vars(PollMessage(p))

-----------------------------------------------------------------------------
AppTypes ==
  /\ pc \in [Procs -> {"dead", "returned", "configure", "new", "subscribe", "signal",
                       "while", "poll", "message", "close"}]
  /\ run \in [Procs -> {0, 1}] /\ handler \in [Procs -> BOOLEAN]
  /\ conf \in [Procs -> {"none", "app", "handle", "freed"}]
  /\ rk \in [Procs -> {"none", "null", "live", "destroyed"}]
  /\ topics \in [Procs -> BOOLEAN]
  /\ hand \in [Procs -> Offsets \cup {NoOffset}]
LibTypes ==
  /\ assigned \in [Procs -> BOOLEAN]
  /\ pos \in [Procs -> 0 .. MaxMsgs] /\ fetched \in [Procs -> 0 .. MaxMsgs]
  /\ stored \in [Procs -> {NoOffset} \cup 0 .. MaxMsgs]
GroupTypes ==
  /\ owner \in Procs \cup {None, Ghost}
  /\ committed \in {NoOffset} \cup 0 .. MaxMsgs /\ end \in 0 .. MaxMsgs
HistoryTypes ==
  /\ handled \in [Offsets -> 0 .. 2]
  /\ dropped \subseteq Offsets /\ exposed \subseteq Offsets
  /\ late \in [Procs -> 0 .. 2] /\ faults \in 0 .. MaxFaults /\ signals \in 0 .. MaxSignals
InOrder ==
  /\ \A p \in Procs : stored[p] <= pos[p] /\ pos[p] <= fetched[p] /\ fetched[p] <= end
  /\ committed <= end

(* Types, and the order of the positions in the log: what is stored has    *)
(* been handed out, what is handed out was fetched, and that is in the log;*)
(* and nothing is committed that is not.                                   *)
TypeOK == AppTypes /\ LibTypes /\ GroupTypes /\ HistoryTypes /\ InOrder

Held == {hand[p] : p \in Procs} \ {NoOffset}

(* The group never passes a message over: below the committed offset every *)
(* message was processed, is being processed, or was in the hand of a      *)
(* process that died -- the one loss that storing the offset before the    *)
(* message is processed allows.                                            *)
NothingSkipped == \A o \in Offsets :
  o < committed => handled[o] > 0 \/ o \in Held \/ o \in dropped

(* A message is processed twice only after a disorderly end: a death, a    *)
(* lost session or a last commit that failed, with the message read and    *)
(* its offset not committed.                                               *)
RepeatsExplained == \A o \in Offsets : handled[o] = 2 => o \in exposed

(* After SIGINT a process finishes at most the message it is waiting for,  *)
(* in this call and in all later ones.                                     *)
StopIsFinal == \A p \in Procs : late[p] <= 1

(* A process outside consumer() is not in the group, holds no message and  *)
(* has given back the handle, the list and the configuration -- but for    *)
(* the configuration of a call whose rd_kafka_new returned NULL, which is  *)
(* the application's and which the error path forgets.                     *)
CleanReturn == \A p \in Procs : pc[p] = "returned" =>
  /\ owner # p /\ ~assigned[p] /\ hand[p] = NoOffset
  /\ rk[p] # "live" /\ ~topics[p]
  /\ conf[p] \in {"none", "freed"} \/ (conf[p] = "app" /\ rk[p] = "null")

(* SIGINT ends the poll loop and consumer() returns, unless the process    *)
(* dies first.                                                             *)
StopReturns == \A p \in Procs :
  run[p] = 0 /\ pc[p] \in {"while", "poll", "message", "close"}
    ~> pc[p] \in {"returned", "dead"}

(* Once some process stays in its loop and rebalances have come to an end, *)
(* every message is processed or was lost in the hand of a process that    *)
(* died: neither a dead owner nor a fenced one keeps the partition.        *)
InLoop(p) == run[p] = 1 /\ pc[p] \in {"while", "poll", "message"}
EveryMessageHandled ==
  (\E p \in Procs : <>[]InLoop(p)) /\ (\E m \in Procs \cup {None, Ghost} : <>[](owner = m))
    => \A o \in Offsets : end > o ~> handled[o] > 0 \/ o \in dropped
=============================================================================
