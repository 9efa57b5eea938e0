------------------------- MODULE KafkaConsumerProofs -------------------------
(***************************************************************************)
(* Theorems about KafkaConsumer, for any processes, any number of messages *)
(* and any number of faults and signals.                                   *)
(***************************************************************************)
EXTENDS KafkaConsumer, TLAPS

(* Where a process is decides what it owns; only a member of the group has *)
(* a partition, and the coordinator's owner knows that it has it.          *)
Stage(p) ==
  /\ hand[p] # NoOffset <=> pc[p] = "message"
  /\ assigned[p] => Member(p)
  /\ owner = p => assigned[p]
  /\ LET inside == {"subscribe", "signal", "while", "poll", "message", "close"}
     IN  (rk[p] = "live" <=> pc[p] \in inside) /\ (conf[p] = "handle" <=> pc[p] \in inside)
  /\ conf[p] = "app" => pc[p] \in {"configure", "new"} \/ (pc[p] = "returned" /\ rk[p] = "null")
  /\ topics[p] => pc[p] = "subscribe"
  /\ late[p] = 0 \/ (late[p] = 1 /\ run[p] = 0 /\ pc[p] \notin {"poll", "message"})

(* What is stored is the position, and before anything is stored the       *)
(* owner stands where the group starts.                                    *)
Start == IF committed = NoOffset THEN ResetOffset ELSE committed
Positions(p) ==
  /\ stored[p] \in {NoOffset, pos[p]}
  /\ ~ assigned[p] => stored[p] = NoOffset
  /\ owner = p /\ stored[p] = NoOffset => pos[p] = Start

(* Below the committed offset and below the owner's position every message *)
(* was taken up by somebody.                                               *)
Covered(o) == handled[o] > 0 \/ (\E q \in Procs : hand[q] = o) \/ o \in dropped
NoGap ==
  /\ \A o \in Offsets : o < committed => Covered(o)
  /\ \A p \in Procs, o \in Offsets : owner = p /\ o < pos[p] => Covered(o)

(* From where the group reads on nobody has read yet, but for messages of  *)
(* a disorderly end; and such a message apart, nobody holds what another   *)
(* holds or has processed.                                                 *)
Fresh(o) == o \in exposed \/ (handled[o] = 0 /\ \A q \in Procs : hand[q] # o)
Unread ==
  /\ \A p \in Procs, o \in Offsets : owner = p /\ pos[p] <= o => Fresh(o)
  /\ owner \notin Procs => \A o \in Offsets : committed <= o => Fresh(o)
  /\ \A p \in Procs : hand[p] \in Offsets =>
       \/ hand[p] \in exposed
       \/ handled[hand[p]] = 0 /\ \A q \in Procs : hand[q] = hand[p] => q = p
  /\ RepeatsExplained

IInv ==
  /\ TypeOK
  /\ \A p \in Procs : Stage(p) /\ Positions(p)
  /\ NoGap /\ Unread

-----------------------------------------------------------------------------
(* A step of a process, or of the group.                                   *)
Act(p) ==
  \/ StartProcess(p) \/ Enter(p) \/ Body(p) \/ Exit(p) \/ stop(p) \/ SignalKills(p)
  \/ Crash(p) \/ Assign(p) \/ Revoke(p) \/ LoseSession(p) \/ LearnLoss(p) \/ Fetch(p)
  \/ AutoCommit(p)

(* What a disorderly end may repeat is in the log.                         *)
LEMMA UncommittedInLog ==
  ASSUME NEW p \in Procs
  PROVE  Uncommitted(p) \subseteq Offsets
BY DEF Uncommitted

(* Types and the order of the positions are kept.                          *)
LEMMA TypeStep ==
  ASSUME TypeOK, NEW p \in Procs, Stage(p), Positions(p), Act(p)
  PROVE  TypeOK'
<1> USE ProcsAssumption, BoundsAssumption
    DEF TypeOK, AppTypes, LibTypes, GroupTypes, HistoryTypes, InOrder, Goto, app, lib, group, history
<1>1. CASE StartProcess(p)
  BY <1>1 DEF StartProcess
<1>2. CASE Enter(p)
  BY <1>2 DEF Enter, RunOnEntry
<1>3. CASE Configure(p)
  BY <1>3 DEF Configure
<1>4. CASE ConfigureFails(p)
  BY <1>4 DEF ConfigureFails
<1>5. CASE NewConsumer(p)
  BY <1>5 DEF NewConsumer
<1>6. CASE NewFails(p)
  BY <1>6 DEF NewFails
<1>7. CASE Subscribe(p)
  BY <1>7 DEF Subscribe
<1>8. CASE SubscribeFails(p)
  BY <1>8 DEF SubscribeFails
<1>9. CASE InstallHandler(p)
  BY <1>9 DEF InstallHandler
<1>10. CASE While(p)
  BY <1>10 DEF While, Running
<1>11. CASE PollError(p)
  BY <1>11 DEF PollError
<1>12. CASE PollTimeout(p)
  BY <1>12 DEF PollTimeout, Available
<1>13. CASE stop(p)
  BY <1>13 DEF stop
<1>14. CASE Fetch(p)
  BY <1>14 DEF Fetch
<1>15. CASE PollMessage(p)
  <2>1. AppTypes' /\ LibTypes' /\ GroupTypes' /\ InOrder'
    BY <1>15 DEF PollMessage, OffsetToStore, Available, Offsets, NoOffset, Positions
  <2>2. HistoryTypes'
    <3>1. pos[p] \in Offsets
      BY <1>15 DEF PollMessage, Available, Offsets
    <3>2. exposed' \subseteq Offsets
      BY <1>15, <3>1 DEF PollMessage
    <3> QED  BY <1>15, <3>2 DEF PollMessage
  <2> QED  BY <2>1, <2>2
<1>16. CASE Process(p)
  <2>1. AppTypes' /\ LibTypes' /\ GroupTypes' /\ InOrder'
    BY <1>16 DEF Process, Twice, Offsets, NoOffset, Positions
  <2>2. HistoryTypes'
    <3>0. \A k \in 0 .. 2 : Twice(k) \in 0 .. 2
      BY DEF Twice
    <3>1. handled' \in [Offsets -> 0 .. 2]
      BY <1>16, <3>0 DEF Process
    <3>2. late' \in [Procs -> 0 .. 2]
      BY <1>16, <3>0 DEF Process
    <3> QED  BY <1>16, <3>1, <3>2 DEF Process
  <2> QED  BY <2>1, <2>2
<1>17. CASE Close(p)
  BY <1>17 DEF Close, LeaveAndReturn, Unassign, CommitStored, Offsets, NoOffset, Positions
<1>18. CASE CloseCommitFails(p)
  <2>1. AppTypes' /\ LibTypes' /\ GroupTypes' /\ InOrder'
    BY <1>18 DEF CloseCommitFails, LeaveAndReturn, Unassign, Offsets, NoOffset, Positions
  <2>2. HistoryTypes'
    BY <1>18, UncommittedInLog DEF CloseCommitFails, LeaveAndReturn
  <2> QED  BY <2>1, <2>2
<1>19. CASE SignalKills(p)
  <2>1. AppTypes' /\ LibTypes' /\ GroupTypes' /\ InOrder'
    BY <1>19 DEF SignalKills, Die, Unassign, Offsets, NoOffset, Positions
  <2>2. HistoryTypes'
    BY <1>19, UncommittedInLog DEF SignalKills, Die
  <2> QED  BY <2>1, <2>2
<1>20. CASE Crash(p)
  <2>1. AppTypes' /\ LibTypes' /\ GroupTypes' /\ InOrder'
    BY <1>20 DEF Crash, Die, Unassign, Offsets, NoOffset, Positions
  <2>2. HistoryTypes'
    BY <1>20, UncommittedInLog DEF Crash, Die
  <2> QED  BY <2>1, <2>2
<1>21. CASE Exit(p)
  <2>1. AppTypes' /\ LibTypes' /\ GroupTypes' /\ InOrder'
    BY <1>21 DEF Exit, Die, Unassign, Offsets, NoOffset, Positions
  <2>2. HistoryTypes'
    BY <1>21, UncommittedInLog DEF Exit, Die
  <2> QED  BY <2>1, <2>2
<1>22. CASE Assign(p)
  BY <1>22 DEF Assign, ResetOffset, Member, Offsets, NoOffset, Positions
<1>23. CASE Revoke(p)
  BY <1>23 DEF Revoke, CommitStored, Unassign, Offsets, NoOffset, Positions
<1>24. CASE LoseSession(p)
  <2>1. AppTypes' /\ LibTypes' /\ GroupTypes' /\ InOrder'
    BY <1>24 DEF LoseSession, Offsets, NoOffset, Positions
  <2>2. HistoryTypes'
    BY <1>24, UncommittedInLog DEF LoseSession
  <2> QED  BY <2>1, <2>2
<1>25. CASE LearnLoss(p)
  BY <1>25 DEF LearnLoss, Unassign, Offsets, NoOffset, Positions
<1>26. CASE AutoCommit(p)
  BY <1>26 DEF AutoCommit, CommitStored, Offsets, NoOffset, Positions
<1> QED
  BY <1>1, <1>2, <1>3, <1>4, <1>5, <1>6, <1>7, <1>8, <1>9, <1>10, <1>11, <1>12, <1>13, <1>14,
     <1>15, <1>16, <1>17, <1>18, <1>19, <1>20, <1>21, <1>22, <1>23, <1>24, <1>25, <1>26
  DEF Act, Body

(* A step keeps every process's stage in order.                            *)
LEMMA StageStep ==
  ASSUME TypeOK, \A q \in Procs : Stage(q), NEW p \in Procs, Act(p)
  PROVE  \A q \in Procs : Stage(q)'
<1> USE ProcsAssumption, BoundsAssumption
    DEF Stage, TypeOK, AppTypes, LibTypes, GroupTypes, HistoryTypes, Offsets, NoOffset, Goto,
        Member, app, lib, group, history
<1>1. CASE StartProcess(p)
  BY <1>1 DEF StartProcess
<1>2. CASE Enter(p)
  BY <1>2 DEF Enter, RunOnEntry
<1>3. CASE Configure(p)
  BY <1>3 DEF Configure
<1>4. CASE ConfigureFails(p)
  BY <1>4 DEF ConfigureFails
<1>5. CASE NewConsumer(p)
  BY <1>5 DEF NewConsumer
<1>6. CASE NewFails(p)
  BY <1>6 DEF NewFails
<1>7. CASE Subscribe(p)
  BY <1>7 DEF Subscribe
<1>8. CASE SubscribeFails(p)
  BY <1>8 DEF SubscribeFails
<1>9. CASE InstallHandler(p)
  BY <1>9 DEF InstallHandler
<1>10. CASE While(p)
  BY <1>10 DEF While, Running
<1>11. CASE PollError(p)
  BY <1>11 DEF PollError
<1>12. CASE PollTimeout(p)
  BY <1>12 DEF PollTimeout, Available
<1>13. CASE stop(p)
  BY <1>13 DEF stop
<1>14. CASE Fetch(p)
  BY <1>14 DEF Fetch
<1>15. CASE PollMessage(p)
  BY <1>15 DEF PollMessage, OffsetToStore, Available
<1>16. CASE Process(p)
  BY <1>16 DEF Process, Twice
<1>17. CASE Close(p)
  BY <1>17 DEF Close, LeaveAndReturn, Unassign, CommitStored
<1>18. CASE CloseCommitFails(p)
  BY <1>18 DEF CloseCommitFails, LeaveAndReturn, Unassign, Uncommitted
<1>19. CASE SignalKills(p)
  BY <1>19 DEF SignalKills, Die, Unassign, Uncommitted
<1>20. CASE Crash(p)
  BY <1>20 DEF Crash, Die, Unassign, Uncommitted
<1>21. CASE Exit(p)
  BY <1>21 DEF Exit, Die, Unassign, Uncommitted
<1>22. CASE Assign(p)
  BY <1>22 DEF Assign, ResetOffset
<1>23. CASE Revoke(p)
  BY <1>23 DEF Revoke, CommitStored, Unassign
<1>24. CASE LoseSession(p)
  BY <1>24 DEF LoseSession, Uncommitted
<1>25. CASE LearnLoss(p)
  BY <1>25 DEF LearnLoss, Unassign
<1>26. CASE AutoCommit(p)
  BY <1>26 DEF AutoCommit, CommitStored
<1> QED
  BY <1>1, <1>2, <1>3, <1>4, <1>5, <1>6, <1>7, <1>8, <1>9, <1>10, <1>11, <1>12, <1>13, <1>14,
     <1>15, <1>16, <1>17, <1>18, <1>19, <1>20, <1>21, <1>22, <1>23, <1>24, <1>25, <1>26
  DEF Act, Body

(* Most steps move nothing that is read, held or committed.                *)
Still == UNCHANGED <<hand, assigned, pos, stored, owner, committed, handled, dropped, exposed>>

LEMMA StillSteps ==
  ASSUME NEW p \in Procs,
         \/ StartProcess(p) \/ Enter(p) \/ Configure(p) \/ ConfigureFails(p) \/ NewConsumer(p)
         \/ NewFails(p) \/ Subscribe(p) \/ SubscribeFails(p) \/ InstallHandler(p) \/ While(p)
         \/ PollError(p) \/ PollTimeout(p) \/ stop(p) \/ Fetch(p)
  PROVE  Still
<1> USE DEF Still, app, lib, group, history
<1>1. CASE StartProcess(p) \/ Enter(p) \/ Configure(p) \/ ConfigureFails(p) \/ NewConsumer(p)
  BY <1>1 DEF StartProcess, Enter, Configure, ConfigureFails, NewConsumer
<1>2. CASE NewFails(p) \/ Subscribe(p) \/ SubscribeFails(p) \/ InstallHandler(p) \/ While(p)
  BY <1>2 DEF NewFails, Subscribe, SubscribeFails, InstallHandler, While
<1>3. CASE PollError(p) \/ PollTimeout(p) \/ stop(p) \/ Fetch(p)
  BY <1>3 DEF PollError, PollTimeout, stop, Fetch
<1> QED  BY <1>1, <1>2, <1>3

(* A step that is still keeps what is said of reading and committing.      *)
LEMMA StillKeeps ==
  ASSUME IInv, Still
  PROVE  (\A q \in Procs : Positions(q)') /\ NoGap' /\ Unread'
<1> USE DEF IInv, Still
<1>1. \A q \in Procs : Positions(q)'
  BY DEF Positions, Start, ResetOffset
<1>2. NoGap'
  BY DEF NoGap, Covered
<1>3. Unread'
  BY DEF Unread, Fresh, RepeatsExplained
<1> QED  BY <1>1, <1>2, <1>3

(* The steps that are not still.                                           *)
Move(p) ==
  \/ PollMessage(p) \/ Process(p) \/ Close(p) \/ CloseCommitFails(p) \/ Die(p) \/ Assign(p)
  \/ Revoke(p) \/ LoseSession(p) \/ LearnLoss(p) \/ AutoCommit(p)

LEMMA ActMoves ==
  ASSUME NEW p \in Procs, Act(p)
  PROVE  Still \/ Move(p)
BY StillSteps DEF Act, Body, Move, SignalKills, Crash, Exit

(* Stored offsets keep to the positions.                                   *)
LEMMA PositionStep ==
  ASSUME IInv, NEW p \in Procs, Move(p)
  PROVE  \A q \in Procs : Positions(q)'
<1> USE ProcsAssumption
    DEF IInv, TypeOK, LibTypes, GroupTypes, Positions, Start, ResetOffset, NoOffset, app, lib,
        group, history
<1>1. CASE PollMessage(p)
  BY <1>1 DEF PollMessage, OffsetToStore, Available
<1>2. CASE Process(p)
  BY <1>2 DEF Process
<1>3. CASE Close(p)
  BY <1>3 DEF Close, LeaveAndReturn, Unassign, CommitStored
<1>4. CASE CloseCommitFails(p)
  BY <1>4 DEF CloseCommitFails, LeaveAndReturn, Unassign
<1>5. CASE Die(p)
  BY <1>5 DEF Die, Unassign
<1>6. CASE Assign(p)
  BY <1>6 DEF Assign
<1>7. CASE Revoke(p)
  BY <1>7 DEF Revoke, Unassign, CommitStored
<1>8. CASE LoseSession(p)
  BY <1>8 DEF LoseSession
<1>9. CASE LearnLoss(p)
  BY <1>9 DEF LearnLoss, Unassign
<1>10. CASE AutoCommit(p)
  BY <1>10 DEF AutoCommit, CommitStored
<1> QED
  BY <1>1, <1>2, <1>3, <1>4, <1>5, <1>6, <1>7, <1>8, <1>9, <1>10 DEF Move

(* What was taken up stays so: a held message is processed or dropped.     *)
LEMMA CoveredKept ==
  ASSUME IInv, NEW p \in Procs, Move(p), NEW o \in Offsets, Covered(o)
  PROVE  Covered(o)'
<1> USE DEF IInv, TypeOK, AppTypes, HistoryTypes, Covered, app, lib, group, history
<1>1. CASE PollMessage(p)
  <2>1. hand[p] # o
    BY <1>1 DEF PollMessage, Stage, NoOffset, Offsets
  <2> QED  BY <1>1, <2>1 DEF PollMessage
<1>2. CASE Process(p)
  <2>1. handled' = [handled EXCEPT ![hand[p]] = Twice(@)] /\ hand' = [hand EXCEPT ![p] = NoOffset]
        /\ dropped' = dropped
    BY <1>2 DEF Process
  <2>2. \A k \in 0 .. 2 : Twice(k) > 0
    BY DEF Twice
  <2>3. CASE hand[p] = o
    BY <2>1, <2>2, <2>3
  <2>4. CASE hand[p] # o
    BY <2>1, <2>4
  <2> QED  BY <2>3, <2>4
<1>3. CASE Die(p)
  <2>1. CASE hand[p] = o
    BY <1>3, <2>1 DEF Die, Offsets, NoOffset
  <2>2. CASE hand[p] # o
    BY <1>3, <2>2 DEF Die
  <2> QED  BY <2>1, <2>2
<1>4. CASE UNCHANGED <<hand, handled, dropped>>
  BY <1>4
<1> QED
  BY <1>1, <1>2, <1>3, <1>4
  DEF Move, Close, CloseCommitFails, LeaveAndReturn, Assign, Revoke, LoseSession, LearnLoss,
      AutoCommit

(* What nobody has read stays so, but for the message handed out.          *)
LEMMA FreshKept ==
  ASSUME IInv, NEW p \in Procs, Move(p), NEW o \in Offsets, Fresh(o),
         PollMessage(p) => o # pos[p]
  PROVE  Fresh(o)'
<1> USE DEF IInv, TypeOK, AppTypes, HistoryTypes, Fresh, app, lib, group, history
<1>1. CASE PollMessage(p)
  BY <1>1 DEF PollMessage
<1>2. CASE Process(p)
  BY <1>2 DEF Process, Offsets, NoOffset
<1>3. CASE Die(p)
  BY <1>3 DEF Die, Offsets, NoOffset
<1>4. CASE hand' = hand /\ handled' = handled /\ exposed \subseteq exposed'
  BY <1>4
<1> QED
  BY <1>1, <1>2, <1>3, <1>4
  DEF Move, Close, CloseCommitFails, LeaveAndReturn, Assign, Revoke, LoseSession, LearnLoss,
      AutoCommit

(* Only an owner's position is ever committed.                             *)
LEMMA CommitsPosition ==
  ASSUME IInv, NEW p \in Procs, Move(p)
  PROVE  committed' = committed \/ (owner = p /\ committed' = pos[p])
BY DEF IInv, Positions, Move, PollMessage, Process, Close, CloseCommitFails, Die, Assign, Revoke,
       LoseSession, LearnLoss, AutoCommit, LeaveAndReturn, CommitStored, app, lib, group, history

(* An owner after the step owned the partition before, where it stands or, *)
(* after handing out a message, one place before; or it starts anew.       *)
LEMMA OwnerStep ==
  ASSUME IInv, NEW p \in Procs, Move(p), NEW q \in Procs, owner' = q
  PROVE  \/ owner = q /\ pos'[q] = pos[q]
         \/ owner = q /\ q = p /\ PollMessage(p) /\ pos'[q] = pos[q] + 1
         \/ owner = None /\ Assign(p) /\ pos'[q] = Start
<1> USE ProcsAssumption
    DEF IInv, TypeOK, LibTypes, GroupTypes, Unassign, Start, app, lib, group, history
<1>1. CASE PollMessage(p)
  BY <1>1 DEF PollMessage
<1>2. CASE Process(p)
  BY <1>2 DEF Process
<1>3. CASE Close(p) \/ CloseCommitFails(p)
  BY <1>3 DEF Close, CloseCommitFails, LeaveAndReturn
<1>4. CASE Die(p)
  BY <1>4 DEF Die
<1>5. CASE Assign(p)
  BY <1>5 DEF Assign
<1>6. CASE Revoke(p)
  BY <1>6 DEF Revoke
<1>7. CASE LoseSession(p)
  BY <1>7 DEF LoseSession
<1>8. CASE LearnLoss(p)
  BY <1>8 DEF LearnLoss
<1>9. CASE AutoCommit(p)
  BY <1>9 DEF AutoCommit
<1> QED  BY <1>1, <1>2, <1>3, <1>4, <1>5, <1>6, <1>7, <1>8, <1>9 DEF Move

(* No step opens a gap below the committed offset or the owner's position. *)
LEMMA GapStep ==
  ASSUME IInv, NEW p \in Procs, Move(p)
  PROVE  NoGap'
<1> USE DEF IInv, NoGap
<1>1. \A o \in Offsets : o < committed' => Covered(o)
  BY CommitsPosition
<1>2. ASSUME NEW q \in Procs, NEW o \in Offsets, owner' = q, o < pos'[q]
      PROVE  Covered(o) \/ (PollMessage(p) /\ o = pos[p])
  <2>1. CASE owner = q /\ pos'[q] = pos[q]
    BY <1>2, <2>1
  <2>2. CASE owner = q /\ q = p /\ PollMessage(p) /\ pos'[q] = pos[q] + 1
    BY <1>2, <2>2 DEF TypeOK, LibTypes, Offsets
  <2>3. CASE pos'[q] = Start
    BY <1>2, <2>3 DEF Start, ResetOffset, Offsets
  <2> QED  BY <1>2, <2>1, <2>2, <2>3, OwnerStep
<1>3. ASSUME NEW o \in Offsets, PollMessage(p), o = pos[p]
      PROVE  Covered(o)'
  BY <1>3 DEF PollMessage, Covered, TypeOK, AppTypes
<1> QED  BY <1>1, <1>2, <1>3, CoveredKept

(* Where the group reads on nobody has read yet, after the step as well.   *)
LEMMA ReadOnStep ==
  ASSUME IInv, NEW p \in Procs, Move(p)
  PROVE  /\ \A q \in Procs, o \in Offsets : owner' = q /\ pos'[q] <= o => Fresh(o)'
         /\ owner' \notin Procs => \A o \in Offsets : committed' <= o => Fresh(o)'
<1> USE DEF IInv, Unread
<1>1. \A o \in exposed' : Fresh(o)'
  BY DEF Fresh
<1>2. PollMessage(p) /\ owner # p => pos[p] \in exposed'
  BY DEF PollMessage
<1>3. ASSUME NEW q \in Procs, NEW o \in Offsets, owner' = q, pos'[q] <= o
      PROVE  Fresh(o)'
  <2>1. CASE owner = q /\ pos'[q] = pos[q]
    <3>1. Fresh(o)
      BY <1>3, <2>1
    <3>2. CASE PollMessage(p) /\ o = pos[p]
      <4>1. owner # p
        BY <2>1, <3>2 DEF PollMessage, TypeOK, LibTypes
      <4> QED  BY <1>1, <1>2, <3>2, <4>1
    <3> QED  BY <3>1, <3>2, FreshKept
  <2>2. CASE owner = q /\ q = p /\ PollMessage(p) /\ pos'[q] = pos[q] + 1
    <3>1. pos[q] <= o /\ o # pos[p]
      BY <1>3, <2>2 DEF TypeOK, LibTypes, Offsets
    <3> QED  BY <2>2, <3>1, FreshKept
  <2>3. CASE owner = None /\ Assign(p) /\ pos'[q] = Start
    <3>1. committed <= o
      BY <1>3, <2>3 DEF Start, ResetOffset, Offsets, NoOffset
    <3>2. Fresh(o)
      BY <2>3, <3>1, ProcsAssumption
    <3>3. ~ PollMessage(p) \/ owner # p
      BY <2>3, ProcsAssumption
    <3> QED  BY <1>1, <1>2, <3>2, <3>3, FreshKept
  <2> QED  BY <1>3, <2>1, <2>2, <2>3, OwnerStep
<1>4. ASSUME owner' \notin Procs, NEW o \in Offsets, committed' <= o
      PROVE  Fresh(o)'
  <2>1. CASE owner \notin Procs
    <3>1. committed' = committed
      BY <2>1, CommitsPosition
    <3>2. Fresh(o)
      BY <1>4, <2>1, <3>1
    <3> QED  BY <1>1, <1>2, <2>1, <3>2, FreshKept
  <2>2. CASE owner \in Procs
    <3>1. owner = p /\ assigned[p] /\ ~ PollMessage(p)
      BY <1>4, <2>2
      DEF Move, PollMessage, Process, Close, CloseCommitFails, Die, Assign, Revoke, LoseSession,
          LearnLoss, AutoCommit, LeaveAndReturn, Stage, app, lib, group, history
    <3>2. CASE pos[p] <= o
      BY <3>1, <3>2, FreshKept
    <3>3. CASE o < pos[p]
      <4>1. committed' # pos[p]
        BY <1>4, <3>3 DEF Offsets, TypeOK, LibTypes
      <4>2. ~ Close(p) /\ ~ Revoke(p)
        BY <1>4, <3>1, <3>3, <4>1
        DEF Close, Revoke, LeaveAndReturn, CommitStored, Positions, Start, ResetOffset, Offsets,
            TypeOK, LibTypes
      <4>3. CloseCommitFails(p) \/ Die(p) \/ LoseSession(p)
        BY <1>4, <2>2, <4>2, <3>1, ProcsAssumption
        DEF Move, Process, Assign, LearnLoss, AutoCommit, app, lib, group, history
      <4>4. committed' = committed /\ exposed' = exposed \cup Uncommitted(p)
        BY <4>3 DEF CloseCommitFails, Die, LoseSession
      <4>5. o \in Uncommitted(p)
        BY <1>4, <3>1, <3>3, <4>4 DEF Uncommitted
      <4> QED  BY <1>1, <4>4, <4>5
    <3> QED  BY <3>2, <3>3 DEF Offsets, TypeOK, LibTypes
  <2> QED  BY <2>1, <2>2
<1> QED  BY <1>3, <1>4

(* A message in hand is nobody else's, or a disorderly end explains it.    *)
Sole(q) ==
  \/ hand[q] \in exposed
  \/ handled[hand[q]] = 0 /\ \A r \in Procs : hand[r] = hand[q] => r = q

LEMMA SoleStep ==
  ASSUME IInv, NEW p \in Procs, Move(p), NEW q \in Procs, hand'[q] \in Offsets
  PROVE  Sole(q)'
<1> USE DEF IInv, Unread, TypeOK, AppTypes, HistoryTypes, Sole, app, lib, group, history
<1>1. hand[q] \in Offsets => Sole(q)
  OBVIOUS
<1>2. CASE PollMessage(p)
  <2>1. /\ hand' = [hand EXCEPT ![p] = pos[p]] /\ handled' = handled
        /\ exposed \subseteq exposed' /\ (owner # p => pos[p] \in exposed')
        /\ (owner = p => exposed' = exposed)
    BY <1>2 DEF PollMessage
  <2>2. pos[p] \in Offsets
    BY <1>2, BoundsAssumption DEF PollMessage, Available, LibTypes, GroupTypes, InOrder, Offsets
  <2>3. owner = p => Fresh(pos[p])
    BY <2>2 DEF LibTypes
  <2>4. CASE q = p
    BY <2>1, <2>3, <2>4 DEF Fresh
  <2>5. CASE q # p
    BY <1>1, <2>1, <2>3, <2>5 DEF Fresh
  <2> QED  BY <2>4, <2>5
<1>3. CASE Process(p)
  <2>1. /\ handled' = [handled EXCEPT ![hand[p]] = Twice(@)] /\ exposed' = exposed
        /\ hand' = [hand EXCEPT ![p] = NoOffset]
    BY <1>3 DEF Process
  <2>2. q # p /\ hand'[q] = hand[q]
    BY <2>1 DEF Offsets, NoOffset
  <2>3. CASE hand[q] = hand[p]
    BY <1>1, <2>1, <2>2, <2>3
  <2>4. CASE hand[q] # hand[p]
    BY <1>1, <2>1, <2>2, <2>4 DEF Offsets, NoOffset
  <2> QED  BY <2>3, <2>4
<1>4. CASE Die(p)
  BY <1>1, <1>4 DEF Die, Offsets, NoOffset
<1>5. CASE hand' = hand /\ handled' = handled /\ exposed \subseteq exposed'
  BY <1>1, <1>5
<1> QED
  BY <1>2, <1>3, <1>4, <1>5
  DEF Move, Close, CloseCommitFails, LeaveAndReturn, Assign, Revoke, LoseSession, LearnLoss,
      AutoCommit

(* Only a message of a disorderly end is processed again.                  *)
LEMMA RepeatStep ==
  ASSUME IInv, NEW p \in Procs, Move(p)
  PROVE  RepeatsExplained'
<1> USE DEF IInv, Unread, TypeOK, AppTypes, HistoryTypes, RepeatsExplained, app, lib, group, history
<1>1. CASE Process(p)
  <2>1. handled' = [handled EXCEPT ![hand[p]] = Twice(@)] /\ exposed' = exposed
    BY <1>1 DEF Process
  <2>2. hand[p] \in Offsets
    BY <1>1 DEF Process, Stage
  <2>3. Twice(0) = 1
    BY DEF Twice
  <2>4. handled'[hand[p]] = 2 => hand[p] \in exposed
    BY <2>1, <2>2, <2>3
  <2> QED  BY <2>1, <2>2, <2>4
<1>2. CASE handled' = handled /\ exposed \subseteq exposed'
  BY <1>2
<1> QED
  BY <1>1, <1>2
  DEF Move, PollMessage, Close, CloseCommitFails, LeaveAndReturn, Die, Assign, Revoke,
      LoseSession, LearnLoss, AutoCommit

LEMMA UnreadStep ==
  ASSUME IInv, NEW p \in Procs, Move(p)
  PROVE  Unread'
BY ReadOnStep, SoleStep, RepeatStep DEF Unread, Sole

-----------------------------------------------------------------------------
(* No process and no message: nothing has been read.                       *)
LEMMA InitInv == Init => IInv
<1> SUFFICES ASSUME Init PROVE IInv
  OBVIOUS
<1> USE ProcsAssumption, BoundsAssumption DEF Init, Offsets, NoOffset
<1>1. TypeOK
  BY DEF TypeOK, AppTypes, LibTypes, GroupTypes, HistoryTypes, InOrder
<1>2. \A p \in Procs : Stage(p) /\ Positions(p)
  BY DEF Stage, Positions, Member
<1>3. NoGap /\ Unread
  BY DEF NoGap, Unread, Fresh, RepeatsExplained
<1> QED  BY <1>1, <1>2, <1>3 DEF IInv

LEMMA NextInv ==
  ASSUME IInv, [Next]_vars
  PROVE  IInv'
<1>1. CASE NewMessage
  <2>1. Still
    BY <1>1 DEF NewMessage, Still, app, lib, history
  <2>2. TypeOK'
    <3>1. end' \in 0 .. MaxMsgs /\ end <= end'
      BY <1>1, BoundsAssumption DEF IInv, NewMessage, TypeOK, GroupTypes
    <3>2. UNCHANGED <<app, lib, owner, committed, history>>
      BY <1>1 DEF NewMessage
    <3>3. AppTypes' /\ LibTypes' /\ GroupTypes' /\ HistoryTypes'
      BY <3>1, <3>2
      DEF IInv, TypeOK, AppTypes, LibTypes, GroupTypes, HistoryTypes, app, lib, history
    <3>4. InOrder'
      BY <3>1, <3>2, BoundsAssumption
      DEF IInv, TypeOK, LibTypes, GroupTypes, InOrder, lib, NoOffset
    <3> QED  BY <3>3, <3>4 DEF TypeOK
  <2>3. \A q \in Procs : Stage(q)'
    BY <1>1 DEF IInv, NewMessage, Stage, Member, app, lib, history
  <2> QED  BY <2>1, <2>2, <2>3, StillKeeps DEF IInv
<1>2. CASE ExpireDead
  <2>1. /\ owner \notin Procs /\ owner' = None /\ None \notin Procs
        /\ UNCHANGED <<app, lib, committed, end, history>>
    BY <1>2, ProcsAssumption DEF ExpireDead
  <2>2. TypeOK'
    BY <2>1
    DEF IInv, TypeOK, AppTypes, LibTypes, GroupTypes, HistoryTypes, InOrder, app, lib, history, Offsets
  <2>3. \A q \in Procs : Stage(q)' /\ Positions(q)'
    BY <2>1 DEF IInv, Stage, Member, Positions, Start, app, lib, history
  <2>4. NoGap'
    BY <2>1 DEF IInv, NoGap, Covered, app, lib, history
  <2>5. Unread'
    BY <2>1 DEF IInv, Unread, Fresh, RepeatsExplained, app, lib, history
  <2> QED  BY <2>2, <2>3, <2>4, <2>5 DEF IInv
<1>3. ASSUME NEW p \in Procs, Act(p)
      PROVE  IInv'
  <2>1. TypeOK' /\ \A q \in Procs : Stage(q)'
    BY <1>3, TypeStep, StageStep DEF IInv
  <2>2. (\A q \in Procs : Positions(q)') /\ NoGap' /\ Unread'
    BY <1>3, ActMoves, StillKeeps, PositionStep, GapStep, UnreadStep
  <2> QED  BY <2>1, <2>2 DEF IInv
<1>4. CASE UNCHANGED vars
  BY <1>4
  DEF vars, app, lib, group, history, IInv, TypeOK, AppTypes, LibTypes, GroupTypes, HistoryTypes,
      InOrder, Offsets, Stage, Member, Positions, Start, NoGap, Covered, Unread, Fresh,
      RepeatsExplained
<1> QED  BY <1>1, <1>2, <1>3, <1>4 DEF Next, Act

(* The strengthening holds in every reachable state.                       *)
THEOREM Invariance == Spec => []IInv
BY InitInv, NextInv, PTL DEF Spec

(* Types, and stored, read, fetched and logged positions in their order.   *)
THEOREM TypeCorrect == Spec => []TypeOK
<1>1. IInv => TypeOK
  BY DEF IInv
<1> QED  BY <1>1, Invariance, PTL

(* However processes come, die, lose and win the partition and commit,     *)
(* no committed offset passes over a message that nobody took up.          *)
THEOREM NothingPassedOver == Spec => []NothingSkipped
<1>1. IInv => NothingSkipped
  BY DEF IInv, NoGap, Covered, NothingSkipped, Held, Offsets, NoOffset
<1> QED  BY <1>1, Invariance, PTL

(* A message processed twice was read by a process that died, that lost    *)
(* its session or whose last commit failed.                                *)
THEOREM RepeatsHaveCause == Spec => []RepeatsExplained
<1>1. IInv => RepeatsExplained
  BY DEF IInv, Unread
<1> QED  BY <1>1, Invariance, PTL

(* After SIGINT a process takes no further message, in any later call.     *)
THEOREM StopStays == Spec => []StopIsFinal
<1>1. IInv => StopIsFinal
  BY DEF IInv, Stage, StopIsFinal, TypeOK, HistoryTypes
<1> QED  BY <1>1, Invariance, PTL

(* consumer() returns outside the group, with nothing in hand and nothing  *)
(* left behind but the configuration of a call in which rd_kafka_new       *)
(* returned NULL.                                                          *)
THEOREM ReturnsClean == Spec => []CleanReturn
<1>1. IInv => CleanReturn
  <2> SUFFICES ASSUME IInv, NEW p \in Procs, pc[p] = "returned"
               PROVE  /\ owner # p /\ ~assigned[p] /\ hand[p] = NoOffset
                      /\ rk[p] # "live" /\ ~topics[p]
                      /\ conf[p] \in {"none", "freed"} \/ (conf[p] = "app" /\ rk[p] = "null")
    BY DEF CleanReturn
  <2>1. Stage(p) /\ conf[p] \in {"none", "app", "handle", "freed"}
    BY DEF IInv, TypeOK, AppTypes
  <2> QED  BY <2>1 DEF Stage, Member
<1> QED  BY <1>1, Invariance, PTL
=============================================================================
