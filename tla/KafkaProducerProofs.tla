------------------------- MODULE KafkaProducerProofs -------------------------
(***************************************************************************)
(* Theorems about KafkaProducer, for any number of calls, any sizes and    *)
(* any limits of the queue and of the broker.  All of them follow from one *)
(* inductive invariant, IInv.                                              *)
(***************************************************************************)
EXTENDS KafkaProducer, TLAPS

(* Where the application thread is decides what the current call has       *)
(* already done; the calls before it have returned, those after it have    *)
(* not touched anything.                                                   *)
Control(c) ==
  /\ ret[c] = Running <=> (c > call \/ (c = call /\ pc # "idle"))
  /\ c > call => conf[c] = "none" /\ rk[c] = "none" /\ ~idem[c] /\ ~timedOut[c]
  /\ c = call /\ pc # "idle" =>
       /\ size[c] < SizeLimit
       /\ pc \notin {"poll", "flush", "destroy"} => out[c] = "none"
       /\ pc # "configure" => idem[c]
       /\ pc \in {"configure", "new"} => conf[c] = "app" /\ rk[c] = "none"
       /\ pc \notin {"configure", "new"} => conf[c] = "handle" /\ rk[c] = "live"
       /\ pc = "empty" => size[c] = 0
       /\ pc = "destroy" => reports[c] # << >> \/ out[c] = "none" \/ timedOut[c]
Current == pc # "idle" => call \in Calls

(* The life of one message: nothing of it exists outside librdkafka before *)
(* producev took it, and producev is reached with idempotence on.          *)
Message(c) ==
  /\ c > call => out[c] = "none"
  /\ out[c] = "none" => wire[c] = "none" /\ stray[c] = 0 /\ ~Logged(c) /\ reports[c] = << >>
  /\ out[c] # "none" => idem[c] /\ ret[c] # -1
  /\ out[c] = "reported" <=> reports[c] # << >>
  /\ out[c] \in Outq => rk[c] = "live" /\ c = call /\ pc # "idle"
  /\ out[c] = "purged" => timedOut[c]
  /\ wire[c] # "none" => out[c] = "inflight"

(* What librdkafka and the application believe about the log is true.      *)
Truth(c) ==
  /\ wire[c] = "stored" \/ out[c] = "delivered" => Logged(c)
  /\ wire[c] = "refused" \/ out[c] = "failed" => ~BrokerAccepts(c)
  /\ reports[c] = <<"delivered">> => Logged(c)
  /\ reports[c] = <<"failed">> => ~BrokerAccepts(c)
  /\ Logged(c) => BrokerAccepts(c)

(* What a call leaves behind.                                              *)
Settled(c) ==
  /\ ret[c] # Running /\ rk[c] = "live" => size[c] = 0
  /\ ret[c] # Running => (conf[c] = "handle" <=> rk[c] = "live")
  /\ ret[c] # Running /\ conf[c] = "app" => idem[c] /\ rk[c] = "none"
  /\ ret[c] = 0 => reports[c] # << >> \/ out[c] = "none" \/ timedOut[c]

IInv ==
  /\ TypeOK /\ Current
  /\ \A c \in Calls : Control(c) /\ Message(c) /\ Truth(c) /\ Settled(c)
  /\ NoDuplicate /\ OrderKept

-----------------------------------------------------------------------------
(* A message without a report has none of either kind.                     *)
LEMMA NoReport ==
  /\ << >> # <<"delivered">> /\ << >> # <<"failed">>
  /\ <<"delivered">> # <<"failed">>
<1>1. Len(<< >>) = 0 /\ Len(<<"delivered">>) = 1 /\ Len(<<"failed">>) = 1
  OBVIOUS
<1>2. <<"delivered">>[1] = "delivered" /\ <<"failed">>[1] = "failed"
  OBVIOUS
<1> QED BY <1>1, <1>2

LEMMA SizeLimitNat == SizeLimit \in Nat
  BY SMT DEF SizeLimit

LEMMA CallsNat == \A c \in Calls : c \in Nat
  BY CallsAssumption DEF Calls

(* What the broker's handling of a request does to the log: at most its    *)
(* own call is added.                                                      *)
StoreOutcome(d) ==
  /\ log' \in Seq(Calls)
  /\ \A c \in Calls : Logged(c)' <=> Logged(c) \/ (c = d /\ BrokerAccepts(d))

LEMMA StoreEffect ==
  ASSUME IInv, NEW d \in Calls, Store(d)
  PROVE  StoreOutcome(d)
<1>0. TypeOK
  BY DEF IInv
<1>1. CASE log' = log /\ (Logged(d) \/ ~BrokerAccepts(d))
  BY <1>0, <1>1 DEF TypeOK, Logged, StoreOutcome
<1>2. CASE log' = Append(log, d) /\ BrokerAccepts(d)
  <2>1. log \in Seq(Calls) /\ Len(log') = Len(log) + 1
    BY <1>0, <1>2 DEF TypeOK
  <2>2. \A n \in 1 .. Len(log) : log'[n] = log[n]
    BY <1>2, <2>1
  <2>3. log'[Len(log) + 1] = d
    BY <1>2, <2>1
  <2>4. DOMAIN log = 1 .. Len(log) /\ DOMAIN log' = 1 .. Len(log) + 1
    BY <1>2, <2>1
  <2> QED BY <1>2, <2>1, <2>2, <2>3, <2>4 DEF Logged, StoreOutcome
<1> QED BY <1>1, <1>2 DEF Store

(* What poll, flush and the retry's poll do to one message: nothing, or    *)
(* they report it, for the first time.                                     *)
ServeOutcome(d) ==
  \/ out[d] \notin Done /\ out' = out /\ reports' = reports
  \/ /\ out[d] \in Done /\ reports[d] = << >>
     /\ out' = [out EXCEPT ![d] = "reported"]
     /\ \/ out[d] = "delivered" /\ reports' = [reports EXCEPT ![d] = <<"delivered">>]
        \/ out[d] = "failed" /\ reports' = [reports EXCEPT ![d] = <<"failed">>]

LEMMA ServeEffect ==
  ASSUME IInv, pc # "idle", Serve(call)
  PROVE  call \in Calls /\ ServeOutcome(call)
<1> DEFINE d == call
<1>0. d \in Calls /\ TypeOK /\ Message(d)
  BY DEF IInv, Current
<1>1. CASE out[d] \notin Done
  BY <1>0, <1>1 DEF Serve, ServeOutcome
<1>2. CASE out[d] \in Done
  <2>1. reports[d] = << >>
    BY <1>0, <1>2 DEF Message, TypeOK, Done
  <2>2. Append(reports[d], out[d]) = <<out[d]>>
    BY <2>1
  <2>3. reports' = [reports EXCEPT ![d] = Append(reports[d], out[d])]
    BY <1>2 DEF Serve, dr_msg_cb
  <2> QED BY <1>0, <1>2, <2>1, <2>2, <2>3 DEF Serve, AfterReport, ServeOutcome, Done
<1> QED BY <1>1, <1>2


(* Types and the control point. *)
LEMMA TypeStep == IInv /\ [Next]_vars => TypeOK' /\ Current'
<1> SUFFICES ASSUME IInv, [Next]_vars PROVE TypeOK' /\ Current'
  BY DEF IInv
<1> USE CallsAssumption, CallsNat, SizeLimitNat, SizesAssumption DEF Stages, Outq, Done, Running, appVars, netVars, vars
<1>1. ASSUME NEW n \in Sizes, Call(n) PROVE TypeOK' /\ Current'
  BY <1>1 DEF Call, SizeRejected, Calls, IInv, TypeOK, Current, Message
<1>2. ASSUME NEW n \in Sizes, CallTooLarge(n) PROVE TypeOK' /\ Current'
  BY <1>2
       DEF CallTooLarge, Return, SizeRejected, Calls, IInv, TypeOK, Current, Message
<1>3. CASE Configure
  BY <1>3 DEF Configure, IInv, TypeOK, Current, Message
<1>4. CASE ConfigureFails
  BY <1>4 DEF ConfigureFails, Return, IInv, TypeOK, Current, Message
<1>5. CASE NewHandle
  BY <1>5 DEF NewHandle, IInv, TypeOK, Current, Message
<1>6. CASE NewFails
  BY <1>6 DEF NewFails, Return, IInv, TypeOK, Current, Message
<1>7. CASE EmptyBuffer
  <2>1. call \in Calls /\ ServeOutcome(call)
    BY <1>7, ServeEffect DEF EmptyBuffer
  <2> QED BY <1>7, <2>1
       DEF EmptyBuffer, Return, IInv, TypeOK, Current, Message, ServeOutcome
<1>8. CASE Produce
  BY <1>8 DEF Produce, IInv, TypeOK, Current, Message
<1>9. CASE QueueFull
  BY <1>9 DEF QueueFull, IInv, TypeOK, Current, Message
<1>10. CASE RetryPoll
  <2>1. call \in Calls /\ ServeOutcome(call)
    BY <1>10, ServeEffect DEF RetryPoll
  <2> QED BY <1>10, <2>1 DEF RetryPoll, IInv, TypeOK, Current, Message, ServeOutcome
<1>11. CASE ProduceRefused
  BY <1>11 DEF ProduceRefused, AfterRefusal, IInv, TypeOK, Current, Message
<1>12. CASE Poll
  <2>1. call \in Calls /\ ServeOutcome(call)
    BY <1>12, ServeEffect DEF Poll
  <2> QED BY <1>12, <2>1
       DEF Poll, AfterPoll, IInv, TypeOK, Current, Message, ServeOutcome
<1>13. CASE FlushServe
  <2>1. call \in Calls /\ ServeOutcome(call)
    BY <1>13, ServeEffect DEF FlushServe
  <2> QED BY <1>13, <2>1 DEF FlushServe, IInv, TypeOK, Current, Message, ServeOutcome
<1>14. CASE FlushDrained
  BY <1>14 DEF FlushDrained, IInv, TypeOK, Current, Message
<1>15. CASE FlushTimeout
  BY <1>15 DEF FlushTimeout, IInv, TypeOK, Current, Message
<1>16. CASE Destroy
  BY <1>16 DEF Destroy, Return, ReturnValue, IInv, TypeOK, Current, Message
<1>17. ASSUME NEW d \in Calls, LibSend(d) PROVE TypeOK' /\ Current'
  BY <1>17 DEF LibSend, IInv, TypeOK, Current, Message
<1>18. ASSUME NEW d \in Calls, Disconnect(d) PROVE TypeOK' /\ Current'
  BY <1>18 DEF Disconnect, IInv, TypeOK, Current, Message
<1>19. ASSUME NEW d \in Calls, BrokerHandle(d) PROVE TypeOK' /\ Current'
  <2>1. StoreOutcome(d)
    BY <1>19, StoreEffect DEF BrokerHandle
  <2> QED BY <1>19, <2>1
       DEF BrokerHandle, IInv, TypeOK, Current, Message, StoreOutcome
<1>20. ASSUME NEW d \in Calls, BrokerStray(d) PROVE TypeOK' /\ Current'
  <2>1. StoreOutcome(d)
    BY <1>20, StoreEffect DEF BrokerStray
  <2> QED BY <1>20, <2>1 DEF BrokerStray, IInv, TypeOK, Current, Message, StoreOutcome
<1>21. ASSUME NEW d \in Calls, LibAck(d) PROVE TypeOK' /\ Current'
  BY <1>21 DEF LibAck, IInv, TypeOK, Current, Message
<1>22. CASE UNCHANGED vars
  BY <1>22 DEF IInv, TypeOK, Current, Message
<1> QED BY <1>1, <1>2, <1>3, <1>4, <1>5, <1>6, <1>7, <1>8, <1>9, <1>10, <1>11,
     <1>12, <1>13, <1>14, <1>15, <1>16, <1>17, <1>18, <1>19, <1>20, <1>21, <1>22 DEF Next, Enter, Body, Environment

(* Where the thread is, and what that says of each call. *)
LEMMA ControlStep == IInv /\ [Next]_vars => \A c \in Calls : Control(c)'
<1> SUFFICES ASSUME IInv, [Next]_vars, NEW c \in Calls PROVE Control(c)'
  BY DEF IInv
<1> USE CallsAssumption, CallsNat, SizeLimitNat, SizesAssumption DEF Stages, Outq, Done, Running, appVars, netVars, vars
<1>1. ASSUME NEW n \in Sizes, Call(n) PROVE Control(c)'
  <2>1. CASE c = call + 1
    BY <2>1, <1>1
         DEF Call, SizeRejected, Calls, IInv, TypeOK, Current, Control, Message
  <2>2. CASE c # call + 1
    BY <2>2, <1>1
         DEF Call, SizeRejected, Calls, IInv, TypeOK, Current, Control, Message
  <2> QED BY <2>1, <2>2
<1>2. ASSUME NEW n \in Sizes, CallTooLarge(n) PROVE Control(c)'
  <2>1. CASE c = call + 1
    BY <2>1, <1>2
         DEF CallTooLarge, Return, SizeRejected, Calls, IInv, TypeOK, Current, Control, Message
  <2>2. CASE c # call + 1
    BY <2>2, <1>2
         DEF CallTooLarge, Return, SizeRejected, Calls, IInv, TypeOK, Current, Control, Message
  <2> QED BY <2>1, <2>2
<1>3. CASE Configure
  BY <1>3 DEF Configure, IInv, TypeOK, Current, Control, Message
<1>4. CASE ConfigureFails
  BY <1>4 DEF ConfigureFails, Return, IInv, TypeOK, Current, Control, Message
<1>5. CASE NewHandle
  BY <1>5 DEF NewHandle, IInv, TypeOK, Current, Control, Message
<1>6. CASE NewFails
  BY <1>6 DEF NewFails, Return, IInv, TypeOK, Current, Control, Message
<1>7. CASE EmptyBuffer
  <2>1. call \in Calls /\ ServeOutcome(call)
    BY <1>7, ServeEffect DEF EmptyBuffer
  <2>2. CASE c = call
    BY <2>2, <1>7, <2>1
         DEF EmptyBuffer, Return, IInv, TypeOK, Current, Control, Message, ServeOutcome
  <2>3. CASE c # call
    BY <2>3, <1>7, <2>1
         DEF EmptyBuffer, Return, IInv, TypeOK, Current, Control, Message, ServeOutcome
  <2> QED BY <2>2, <2>3
<1>8. CASE Produce
  BY <1>8 DEF Produce, IInv, TypeOK, Current, Control, Message
<1>9. CASE QueueFull
  BY <1>9 DEF QueueFull, IInv, TypeOK, Current, Control, Message
<1>10. CASE RetryPoll
  <2>1. call \in Calls /\ ServeOutcome(call)
    BY <1>10, ServeEffect DEF RetryPoll
  <2>2. CASE c = call
    BY <2>2, <1>10, <2>1
         DEF RetryPoll, IInv, TypeOK, Current, Control, Message, ServeOutcome
  <2>3. CASE c # call
    BY <2>3, <1>10, <2>1
         DEF RetryPoll, IInv, TypeOK, Current, Control, Message, ServeOutcome
  <2> QED BY <2>2, <2>3
<1>11. CASE ProduceRefused
  BY <1>11 DEF ProduceRefused, AfterRefusal, IInv, TypeOK, Current, Control, Message
<1>12. CASE Poll
  <2>1. call \in Calls /\ ServeOutcome(call)
    BY <1>12, ServeEffect DEF Poll
  <2>2. CASE c = call
    BY <2>2, <1>12, <2>1
         DEF Poll, AfterPoll, IInv, TypeOK, Current, Control, Message, ServeOutcome
  <2>3. CASE c # call
    BY <2>3, <1>12, <2>1
         DEF Poll, AfterPoll, IInv, TypeOK, Current, Control, Message, ServeOutcome
  <2> QED BY <2>2, <2>3
<1>13. CASE FlushServe
  <2>1. call \in Calls /\ ServeOutcome(call)
    BY <1>13, ServeEffect DEF FlushServe
  <2>2. CASE c = call
    BY <2>2, <1>13, <2>1
         DEF FlushServe, IInv, TypeOK, Current, Control, Message, ServeOutcome
  <2>3. CASE c # call
    BY <2>3, <1>13, <2>1
         DEF FlushServe, IInv, TypeOK, Current, Control, Message, ServeOutcome
  <2> QED BY <2>2, <2>3
<1>14. CASE FlushDrained
  BY <1>14 DEF FlushDrained, IInv, TypeOK, Current, Control, Message
<1>15. CASE FlushTimeout
  BY <1>15 DEF FlushTimeout, IInv, TypeOK, Current, Control, Message
<1>16. CASE Destroy
  BY <1>16 DEF Destroy, Return, ReturnValue, IInv, TypeOK, Current, Control, Message
<1>17. ASSUME NEW d \in Calls, LibSend(d) PROVE Control(c)'
  <2>1. CASE c = d
    BY <2>1, <1>17 DEF LibSend, IInv, TypeOK, Current, Control, Message
  <2>2. CASE c # d
    BY <2>2, <1>17 DEF LibSend, IInv, TypeOK, Current, Control, Message
  <2> QED BY <2>1, <2>2
<1>18. ASSUME NEW d \in Calls, Disconnect(d) PROVE Control(c)'
  <2>1. CASE c = d
    BY <2>1, <1>18 DEF Disconnect, IInv, TypeOK, Current, Control, Message
  <2>2. CASE c # d
    BY <2>2, <1>18 DEF Disconnect, IInv, TypeOK, Current, Control, Message
  <2> QED BY <2>1, <2>2
<1>19. ASSUME NEW d \in Calls, BrokerHandle(d) PROVE Control(c)'
  <2>1. StoreOutcome(d)
    BY <1>19, StoreEffect DEF BrokerHandle
  <2> QED BY <1>19, <2>1
       DEF BrokerHandle, IInv, TypeOK, Current, Control, Message, StoreOutcome
<1>20. ASSUME NEW d \in Calls, BrokerStray(d) PROVE Control(c)'
  <2>1. StoreOutcome(d)
    BY <1>20, StoreEffect DEF BrokerStray
  <2> QED BY <1>20, <2>1
       DEF BrokerStray, IInv, TypeOK, Current, Control, Message, StoreOutcome
<1>21. ASSUME NEW d \in Calls, LibAck(d) PROVE Control(c)'
  <2>1. CASE c = d
    BY <2>1, <1>21 DEF LibAck, IInv, TypeOK, Current, Control, Message
  <2>2. CASE c # d
    BY <2>2, <1>21 DEF LibAck, IInv, TypeOK, Current, Control, Message
  <2> QED BY <2>1, <2>2
<1>22. CASE UNCHANGED vars
  BY <1>22 DEF IInv, TypeOK, Current, Control, Message
<1> QED BY <1>1, <1>2, <1>3, <1>4, <1>5, <1>6, <1>7, <1>8, <1>9, <1>10, <1>11,
     <1>12, <1>13, <1>14, <1>15, <1>16, <1>17, <1>18, <1>19, <1>20, <1>21, <1>22 DEF Next, Enter, Body, Environment

(* The life of each message. *)
LEMMA MessageStep == IInv /\ [Next]_vars => \A c \in Calls : Message(c)'
<1> SUFFICES ASSUME IInv, [Next]_vars, NEW c \in Calls PROVE Message(c)'
  BY DEF IInv
<1> USE CallsAssumption, CallsNat, SizeLimitNat, SizesAssumption DEF Stages, Outq, Done, Running, appVars, netVars, vars
<1>l. log' = log => (Logged(c)' <=> Logged(c))
  BY DEF Logged
<1>s. size'[c] = size[c] => (BrokerAccepts(c)' <=> BrokerAccepts(c))
  BY DEF BrokerAccepts
<1>1. ASSUME NEW n \in Sizes, Call(n) PROVE Message(c)'
  <2>1. CASE c = call + 1
    BY <2>1, <1>1, <1>l, <1>s, NoReport
         DEF Call, SizeRejected, Calls, IInv, TypeOK, Current, Control, Message
  <2>2. CASE c # call + 1
    BY <2>2, <1>1, <1>l, <1>s, NoReport
         DEF Call, SizeRejected, Calls, IInv, TypeOK, Current, Control, Message
  <2> QED BY <2>1, <2>2
<1>2. ASSUME NEW n \in Sizes, CallTooLarge(n) PROVE Message(c)'
  <2>1. CASE c = call + 1
    BY <2>1, <1>2, <1>l, <1>s, NoReport
         DEF CallTooLarge, Return, SizeRejected, Calls, IInv, TypeOK, Current, Control, Message
  <2>2. CASE c # call + 1
    BY <2>2, <1>2, <1>l, <1>s, NoReport
         DEF CallTooLarge, Return, SizeRejected, Calls, IInv, TypeOK, Current, Control, Message
  <2> QED BY <2>1, <2>2
<1>3. CASE Configure
  BY <1>3, <1>l, <1>s, NoReport DEF Configure, IInv, TypeOK, Current, Control, Message
<1>4. CASE ConfigureFails
  BY <1>4, <1>l, <1>s, NoReport
       DEF ConfigureFails, Return, IInv, TypeOK, Current, Control, Message
<1>5. CASE NewHandle
  BY <1>5, <1>l, <1>s, NoReport DEF NewHandle, IInv, TypeOK, Current, Control, Message
<1>6. CASE NewFails
  BY <1>6, <1>l, <1>s, NoReport
       DEF NewFails, Return, IInv, TypeOK, Current, Control, Message
<1>7. CASE EmptyBuffer
  <2>1. call \in Calls /\ ServeOutcome(call)
    BY <1>7, ServeEffect DEF EmptyBuffer
  <2>2. CASE c = call
    <3>1. \/ out'[c] = out[c] /\ reports'[c] = reports[c]
          \/ out[c] \in Done /\ out'[c] = "reported" /\ reports'[c] # << >>
      BY <2>1, <2>2, NoReport DEF IInv, TypeOK, ServeOutcome
    <3> QED BY <3>1, <2>2, <1>7, <1>l, <1>s, NoReport
         DEF EmptyBuffer, Return, IInv, TypeOK, Current, Control, Message
  <2>3. CASE c # call
    BY <2>3, <1>7, <2>1, <1>l, <1>s, NoReport
         DEF EmptyBuffer, Return, IInv, TypeOK, Current, Control, Message, ServeOutcome
  <2> QED BY <2>2, <2>3
<1>8. CASE Produce
  BY <1>8, <1>l, <1>s, NoReport DEF Produce, IInv, TypeOK, Current, Control, Message
<1>9. CASE QueueFull
  BY <1>9, <1>l, <1>s, NoReport DEF QueueFull, IInv, TypeOK, Current, Control, Message
<1>10. CASE RetryPoll
  <2>1. call \in Calls /\ ServeOutcome(call)
    BY <1>10, ServeEffect DEF RetryPoll
  <2>2. CASE c = call
    <3>1. \/ out'[c] = out[c] /\ reports'[c] = reports[c]
          \/ out[c] \in Done /\ out'[c] = "reported" /\ reports'[c] # << >>
      BY <2>1, <2>2, NoReport DEF IInv, TypeOK, ServeOutcome
    <3> QED BY <3>1, <2>2, <1>10, <1>l, <1>s, NoReport
         DEF RetryPoll, IInv, TypeOK, Current, Control, Message
  <2>3. CASE c # call
    BY <2>3, <1>10, <2>1, <1>l, <1>s, NoReport
         DEF RetryPoll, IInv, TypeOK, Current, Control, Message, ServeOutcome
  <2> QED BY <2>2, <2>3
<1>11. CASE ProduceRefused
  BY <1>11, <1>l, <1>s, NoReport
       DEF ProduceRefused, AfterRefusal, IInv, TypeOK, Current, Control, Message
<1>12. CASE Poll
  <2>1. call \in Calls /\ ServeOutcome(call)
    BY <1>12, ServeEffect DEF Poll
  <2>2. CASE c = call
    <3>1. \/ out'[c] = out[c] /\ reports'[c] = reports[c]
          \/ out[c] \in Done /\ out'[c] = "reported" /\ reports'[c] # << >>
      BY <2>1, <2>2, NoReport DEF IInv, TypeOK, ServeOutcome
    <3> QED BY <3>1, <2>2, <1>12, <1>l, <1>s, NoReport
         DEF Poll, AfterPoll, IInv, TypeOK, Current, Control, Message
  <2>3. CASE c # call
    BY <2>3, <1>12, <2>1, <1>l, <1>s, NoReport
         DEF Poll, AfterPoll, IInv, TypeOK, Current, Control, Message, ServeOutcome
  <2> QED BY <2>2, <2>3
<1>13. CASE FlushServe
  <2>1. call \in Calls /\ ServeOutcome(call)
    BY <1>13, ServeEffect DEF FlushServe
  <2>2. CASE c = call
    <3>1. \/ out'[c] = out[c] /\ reports'[c] = reports[c]
          \/ out[c] \in Done /\ out'[c] = "reported" /\ reports'[c] # << >>
      BY <2>1, <2>2, NoReport DEF IInv, TypeOK, ServeOutcome
    <3> QED BY <3>1, <2>2, <1>13, <1>l, <1>s, NoReport
         DEF FlushServe, IInv, TypeOK, Current, Control, Message
  <2>3. CASE c # call
    BY <2>3, <1>13, <2>1, <1>l, <1>s, NoReport
         DEF FlushServe, IInv, TypeOK, Current, Control, Message, ServeOutcome
  <2> QED BY <2>2, <2>3
<1>14. CASE FlushDrained
  BY <1>14, <1>l, <1>s, NoReport
       DEF FlushDrained, IInv, TypeOK, Current, Control, Message
<1>15. CASE FlushTimeout
  BY <1>15, <1>l, <1>s, NoReport
       DEF FlushTimeout, IInv, TypeOK, Current, Control, Message
<1>16. CASE Destroy
  BY <1>16, <1>l, <1>s, NoReport
       DEF Destroy, Return, ReturnValue, IInv, TypeOK, Current, Control, Message
<1>17. ASSUME NEW d \in Calls, LibSend(d) PROVE Message(c)'
  <2>1. CASE c = d
    BY <2>1, <1>17, <1>l, <1>s, NoReport
         DEF LibSend, IInv, TypeOK, Current, Control, Message
  <2>2. CASE c # d
    BY <2>2, <1>17, <1>l, <1>s, NoReport
         DEF LibSend, IInv, TypeOK, Current, Control, Message
  <2> QED BY <2>1, <2>2
<1>18. ASSUME NEW d \in Calls, Disconnect(d) PROVE Message(c)'
  <2>1. CASE c = d
    BY <2>1, <1>18, <1>l, <1>s, NoReport
         DEF Disconnect, IInv, TypeOK, Current, Control, Message
  <2>2. CASE c # d
    BY <2>2, <1>18, <1>l, <1>s, NoReport
         DEF Disconnect, IInv, TypeOK, Current, Control, Message
  <2> QED BY <2>1, <2>2
<1>19. ASSUME NEW d \in Calls, BrokerHandle(d) PROVE Message(c)'
  <2>1. StoreOutcome(d)
    BY <1>19, StoreEffect DEF BrokerHandle
  <2> QED BY <1>19, <2>1, <1>l, <1>s, NoReport
       DEF BrokerHandle, IInv, TypeOK, Current, Control, Message, StoreOutcome
<1>20. ASSUME NEW d \in Calls, BrokerStray(d) PROVE Message(c)'
  <2>1. StoreOutcome(d)
    BY <1>20, StoreEffect DEF BrokerStray
  <2> QED BY <1>20, <2>1, <1>l, <1>s, NoReport
       DEF BrokerStray, IInv, TypeOK, Current, Control, Message, StoreOutcome
<1>21. ASSUME NEW d \in Calls, LibAck(d) PROVE Message(c)'
  <2>1. CASE c = d
    BY <2>1, <1>21, <1>l, <1>s, NoReport
         DEF LibAck, IInv, TypeOK, Current, Control, Message
  <2>2. CASE c # d
    BY <2>2, <1>21, <1>l, <1>s, NoReport
         DEF LibAck, IInv, TypeOK, Current, Control, Message
  <2> QED BY <2>1, <2>2
<1>22. CASE UNCHANGED vars
  BY <1>22, <1>l, <1>s, NoReport DEF IInv, TypeOK, Current, Control, Message
<1> QED BY <1>1, <1>2, <1>3, <1>4, <1>5, <1>6, <1>7, <1>8, <1>9, <1>10, <1>11,
     <1>12, <1>13, <1>14, <1>15, <1>16, <1>17, <1>18, <1>19, <1>20, <1>21, <1>22 DEF Next, Enter, Body, Environment

(* Beliefs about the log: an append only makes more of them true, and what *)
(* librdkafka reports it has read in a response.                           *)
LEMMA TruthStep == IInv /\ [Next]_vars => \A c \in Calls : Truth(c)'
<1> SUFFICES ASSUME IInv, [Next]_vars, NEW c \in Calls PROVE Truth(c)'
  OBVIOUS
<1>t. TypeOK /\ Current /\ Truth(c) /\ Message(c)
  BY DEF IInv
<1>1. ASSUME UNCHANGED <<log, out, wire, reports, size>> PROVE Truth(c)'
  BY <1>1, <1>t DEF Truth, Logged, BrokerAccepts
<1>2. ASSUME NEW n \in Sizes, Call(n) \/ CallTooLarge(n) PROVE Truth(c)'
  <2>1. UNCHANGED <<log, out, wire, reports>> /\ size' = [size EXCEPT ![call + 1] = n]
    BY <1>2 DEF Call, CallTooLarge, netVars
  <2>2. Logged(c)' <=> Logged(c)
    BY <2>1 DEF Logged
  <2>3. CASE c = call + 1
    <3>1. out[c] = "none" /\ wire[c] = "none" /\ reports[c] = << >> /\ ~Logged(c)
      BY <2>3, <1>t, CallsNat DEF Message, TypeOK
    <3> QED BY <3>1, <2>1, <2>2, NoReport DEF Truth
  <2>4. CASE c # call + 1
    <3>1. BrokerAccepts(c)' <=> BrokerAccepts(c)
      BY <2>1, <2>4, <1>t DEF BrokerAccepts, TypeOK
    <3> QED BY <3>1, <2>1, <2>2, <1>t DEF Truth
  <2> QED BY <2>3, <2>4
<1>3. ASSUME UNCHANGED <<log, size, reports>>, wire'[c] \in {wire[c], "none", "request"},
             out'[c] \notin Done \/ out'[c] = out[c]
      PROVE  Truth(c)'
  BY <1>3, <1>t DEF Truth, Logged, BrokerAccepts, Done
<1>4. ASSUME call \in Calls, ServeOutcome(call), UNCHANGED <<log, size, wire>> PROVE Truth(c)'
  <2>1. (Logged(c)' <=> Logged(c)) /\ (BrokerAccepts(c)' <=> BrokerAccepts(c))
    BY <1>4 DEF Logged, BrokerAccepts
  <2>2. CASE c = call
    BY <2>1, <2>2, <1>4, <1>t, NoReport DEF ServeOutcome, Truth, TypeOK, Done
  <2>3. CASE c # call
    BY <2>1, <2>3, <1>4, <1>t DEF ServeOutcome, Truth, TypeOK
  <2> QED BY <2>2, <2>3
<1>5. CASE Produce \/ Destroy
  BY <1>3, <1>5, <1>t DEF Produce, Destroy, netVars, TypeOK, Current, Done
<1>6. CASE EmptyBuffer \/ RetryPoll \/ Poll \/ FlushServe
  BY <1>4, <1>6, ServeEffect
     DEF EmptyBuffer, RetryPoll, Poll, FlushServe, appVars, netVars
<1>7. ASSUME NEW d \in Calls, LibSend(d) \/ Disconnect(d) PROVE Truth(c)'
  BY <1>3, <1>7, <1>t DEF LibSend, Disconnect, appVars, TypeOK, Done
<1>8. ASSUME NEW d \in Calls, LibAck(d) PROVE Truth(c)'
  BY <1>8, <1>t DEF LibAck, appVars, Truth, Logged, BrokerAccepts, TypeOK
<1>9. ASSUME NEW d \in Calls, BrokerHandle(d) \/ BrokerStray(d) PROVE Truth(c)'
  <2>1. StoreOutcome(d) /\ UNCHANGED <<out, reports, size>>
    BY <1>9, StoreEffect DEF BrokerHandle, BrokerStray, appVars
  <2>2. BrokerAccepts(c)' <=> BrokerAccepts(c)
    BY <2>1 DEF BrokerAccepts
  <2>3. wire'[c] = wire[c] \/ (c = d /\ wire'[c] = IF BrokerAccepts(d) THEN "stored" ELSE "refused")
    BY <1>9, <1>t DEF BrokerHandle, BrokerStray, TypeOK
  <2> QED BY <2>1, <2>2, <2>3, <1>t DEF Truth, StoreOutcome
<1>10. CASE \/ Configure \/ ConfigureFails \/ NewHandle \/ NewFails \/ QueueFull
            \/ ProduceRefused \/ FlushDrained \/ FlushTimeout \/ UNCHANGED vars
  BY <1>1, <1>10 DEF Configure, ConfigureFails, NewHandle, NewFails, QueueFull,
     ProduceRefused, FlushDrained, FlushTimeout, vars, appVars, netVars
<1> QED BY <1>2, <1>5, <1>6, <1>7, <1>8, <1>9, <1>10 DEF Next, Enter, Body, Environment

(* What each call leaves behind is decided by the step that returns.       *)
LEMMA SettledStep == IInv /\ [Next]_vars => \A c \in Calls : Settled(c)'
<1> SUFFICES ASSUME IInv, [Next]_vars, NEW c \in Calls PROVE Settled(c)'
  OBVIOUS
<1> USE CallsNat DEF Running
<1>t. TypeOK /\ Current /\ Settled(c) /\ Message(c) /\ Control(c)
  BY DEF IInv
<1>1. ASSUME ret'[c] = Running PROVE Settled(c)'
  BY <1>1 DEF Settled
<1>2. ASSUME UNCHANGED <<ret, conf, rk, idem, size>>,
             reports[c] # << >> => reports'[c] # << >>,
             out[c] = "none" /\ ret[c] = 0 => out'[c] = "none", timedOut[c] => timedOut'[c]
      PROVE  Settled(c)'
  BY <1>2, <1>t DEF Settled
<1>3. ASSUME NEW d \in Calls, LibSend(d) \/ Disconnect(d) \/ LibAck(d)
      PROVE  Settled(c)'
  <2>1. out[d] # "none"
    BY <1>3 DEF IInv, Message, LibSend, Disconnect, LibAck
  <2> QED BY <1>2, <1>3, <2>1, <1>t DEF LibSend, Disconnect, LibAck, appVars, TypeOK
<1>4. ASSUME NEW d \in Calls, BrokerHandle(d) \/ BrokerStray(d) PROVE Settled(c)'
  BY <1>2, <1>4 DEF BrokerHandle, BrokerStray, appVars
<1>5. ASSUME NEW n \in Sizes, Call(n) PROVE Settled(c)'
  BY <1>5, <1>t DEF Call, netVars, Control, Settled, TypeOK
<1>6. ASSUME NEW n \in Sizes, CallTooLarge(n) PROVE Settled(c)'
  BY <1>6, <1>t DEF CallTooLarge, Return, netVars, Control, Message, Settled, TypeOK
<1>7. CASE c = call /\ \/ Configure \/ NewHandle \/ Produce \/ QueueFull \/ RetryPoll
                       \/ ProduceRefused \/ Poll \/ FlushServe \/ FlushDrained \/ FlushTimeout
  BY <1>1, <1>7, <1>t DEF Control, Configure, NewHandle, Produce, QueueFull, RetryPoll,
     ProduceRefused, Poll, FlushServe, FlushDrained, FlushTimeout, appVars
<1>8. CASE c = call /\ (ConfigureFails \/ NewFails \/ EmptyBuffer \/ Destroy)
  BY <1>8, <1>t, ServeEffect DEF ConfigureFails, NewFails, EmptyBuffer, Destroy, Return,
     ReturnValue, ServeOutcome, Control, Message, Settled, TypeOK, Current, Outq, Done
<1>9. CASE c # call /\ Body
  <2>1. CASE EmptyBuffer \/ RetryPoll \/ Poll \/ FlushServe
    <3>1. call \in Calls /\ ServeOutcome(call)
      BY <2>1, ServeEffect DEF EmptyBuffer, RetryPoll, Poll, FlushServe
    <3> QED BY <3>1, <2>1, <1>9, <1>t DEF EmptyBuffer, RetryPoll, Poll, FlushServe, Return,
       ServeOutcome, Settled, TypeOK, appVars
  <2>2. CASE ~(EmptyBuffer \/ RetryPoll \/ Poll \/ FlushServe)
    BY <2>2, <1>9, <1>t DEF Body, Configure, ConfigureFails, NewHandle, NewFails, Produce,
       QueueFull, ProduceRefused, FlushDrained, FlushTimeout, Destroy, Return, ReturnValue,
       Settled, TypeOK, Current
  <2> QED BY <2>1, <2>2
<1>10. CASE UNCHANGED vars
  BY <1>10, <1>t DEF vars, appVars, Settled
<1> QED BY <1>3, <1>4, <1>5, <1>6, <1>7, <1>8, <1>9, <1>10 DEF Next, Enter, Body, Environment

(* The log only grows at its end, by the call whose request the broker     *)
(* handles.  With idempotence it is not there yet; and a call that is over *)
(* and whose flush drained has its verdict, so it adds nothing.            *)
LEMMA LogStep == IInv /\ [Next]_vars => NoDuplicate' /\ OrderKept'
<1> SUFFICES ASSUME IInv, [Next]_vars PROVE NoDuplicate' /\ OrderKept'
  OBVIOUS
<1>1. CASE log' = log
  <2>1. \A c \in Calls : timedOut[c] => timedOut'[c]
    BY CallsNat
         DEF IInv, TypeOK, Next, Enter, Body, Environment, vars, appVars, netVars,
       Call, CallTooLarge, Configure, ConfigureFails, NewHandle, NewFails, EmptyBuffer,
       Produce, QueueFull, RetryPoll, ProduceRefused, Poll, FlushServe, FlushDrained,
       FlushTimeout, Destroy, LibSend, Disconnect, BrokerHandle, BrokerStray, LibAck
  <2>2. \A n \in DOMAIN log : log[n] \in Calls
    BY DEF IInv, TypeOK
  <2> QED BY <1>1, <2>1, <2>2 DEF IInv, NoDuplicate, OrderKept
<1>2. ASSUME NEW d \in Calls, BrokerHandle(d) \/ BrokerStray(d), log' # log
      PROVE  NoDuplicate' /\ OrderKept'
  <2>1. /\ Store(d) /\ timedOut' = timedOut
        /\ wire[d] = "request" \/ stray[d] > 0
    BY <1>2 DEF BrokerHandle, BrokerStray
  <2>2. idem[d] /\ BrokerAccepts(d) /\ ret[d] # -1 /\ out[d] # "none"
    BY <2>1, <1>2 DEF Store, IInv, Message, TypeOK
  <2>3. ~Logged(d) /\ log' = Append(log, d)
    BY <2>1, <2>2, <1>2 DEF Store
  <2>4. \A c \in Calls : d < c /\ Logged(c) => timedOut[d]
    <3> SUFFICES ASSUME NEW c \in Calls, d < c, Logged(c) PROVE timedOut[d]
      OBVIOUS
    <3>1. d < call
      BY CallsNat DEF IInv, Message, TypeOK
    <3>2. ret[d] = 0
      BY <3>1, <2>2, CallsNat DEF IInv, Control, TypeOK, Running
    <3>3. reports[d] = << >>
      BY <2>2, <2>3 DEF IInv, Truth, TypeOK
    <3> QED BY <3>2, <3>3, <2>2 DEF IInv, Settled
  <2>5. /\ DOMAIN log = 1 .. Len(log) /\ DOMAIN log' = 1 .. Len(log) + 1
        /\ Len(log) \in Nat /\ log'[Len(log) + 1] = d
        /\ \A n \in 1 .. Len(log) : log'[n] = log[n] /\ log[n] \in Calls
    BY <2>3 DEF IInv, TypeOK
  <2>6. NoDuplicate'
    BY <2>3, <2>5 DEF IInv, NoDuplicate, Logged
  <2>7. OrderKept'
    BY <2>1, <2>4, <2>5 DEF IInv, OrderKept, Logged
  <2> QED BY <2>6, <2>7
<1>3. CASE log' # log
  BY <1>2, <1>3 DEF Next, Enter, Body, Environment, vars, netVars, Call, CallTooLarge,
     Configure, ConfigureFails, NewHandle, NewFails, EmptyBuffer, Produce, QueueFull,
     RetryPoll, ProduceRefused, Poll, FlushServe, FlushDrained, FlushTimeout, Destroy,
     LibSend, Disconnect, LibAck
<1> QED BY <1>1, <1>3

LEMMA InitInv == Init => IInv
<1> SUFFICES ASSUME Init PROVE IInv
  OBVIOUS
<1>1. TypeOK /\ Current
  BY CallsAssumption DEF Init, TypeOK, Current, Calls, Stages, Outq, Running
<1>2. \A c \in Calls : ~Logged(c)
  BY DEF Init, Logged
<1>3. NoDuplicate /\ OrderKept
  BY DEF Init, NoDuplicate, OrderKept
<1>4. ASSUME NEW c \in Calls PROVE Control(c) /\ Message(c) /\ Truth(c) /\ Settled(c)
  BY <1>2, NoReport, CallsAssumption
     DEF Init, Control, Message, Truth, Settled, Calls, Outq, Running
<1> QED BY <1>1, <1>3, <1>4 DEF IInv

THEOREM Invariance == Spec => []IInv
<1>1. IInv /\ [Next]_vars => IInv'
  BY TypeStep, ControlStep, MessageStep, TruthStep, SettledStep, LogStep DEF IInv
<1> QED BY <1>1, InitInv, PTL DEF Spec

-----------------------------------------------------------------------------
(* Type correctness, and dr_msg_cb at most once for each message.          *)
THEOREM TypeCorrect == Spec => []TypeOK
<1>1. IInv => TypeOK
  BY DEF IInv
<1> QED BY <1>1, Invariance, PTL

(* No message is stored twice, whatever connections broke on its way.      *)
THEOREM StoredOnce == Spec => []NoDuplicate
<1>1. IInv => NoDuplicate
  BY DEF IInv
<1> QED BY <1>1, Invariance, PTL

(* What dr_msg_cb prints about a message is true of the log.               *)
THEOREM ReportsAreHonest == Spec => []HonestReports
<1>1. IInv => HonestReports
  BY DEF IInv, Truth, HonestReports, Reported
<1> QED BY <1>1, Invariance, PTL

(* A call that returned -1 left nothing behind that could be stored.       *)
THEOREM RejectedIsSafeToRepeat == Spec => []RejectedNeverSent
<1>1. IInv => RejectedNeverSent
  BY DEF IInv, Message, RejectedNeverSent
<1> QED BY <1>1, Invariance, PTL

(* A call that returned keeps a handle only for an empty buffer.           *)
THEOREM NothingLeaks == Spec => []HandlesReleased
<1>1. IInv => HandlesReleased
  BY DEF IInv, Settled, HandlesReleased, Returned
<1> QED BY <1>1, Invariance, PTL

(* A message whose call returned 0 was reported, refused or timed out.     *)
THEOREM ZeroIsAccounted == Spec => []Accounted
<1>1. IInv => Accounted
  BY DEF IInv, Settled, Accounted
<1> QED BY <1>1, Invariance, PTL

(* Only a flush that timed out lets a later call overtake a message.       *)
THEOREM LogFollowsCalls == Spec => []OrderKept
<1>1. IInv => OrderKept
  BY DEF IInv
<1> QED BY <1>1, Invariance, PTL

(* With room for the largest message the guard admits, in a queue that is  *)
(* new for every call, producev never answers QUEUE_FULL.                  *)
THEOREM RetryLoopIsDead ==
  ASSUME QueueBytes >= SizeLimit - 1
  PROVE  Spec => []NeverRetries
<1>1. Init => NeverRetries
  BY DEF Init, NeverRetries
<1>2. IInv /\ NeverRetries /\ [Next]_vars => NeverRetries'
  <2> SUFFICES ASSUME IInv, NeverRetries, [Next]_vars PROVE NeverRetries'
    OBVIOUS
  <2>1. ~QueueFull
    <3> SUFFICES ASSUME QueueFull PROVE FALSE
      OBVIOUS
    <3>1. call \in Calls /\ size[call] \in Nat /\ size[call] < SizeLimit /\ out[call] = "none"
      BY DEF QueueFull, IInv, Current, Control, TypeOK
    <3>2. size[call] > QueueBytes
      BY <3>1, BytesAssumption DEF QueueFull, Room, Outq
    <3> QED BY <3>1, <3>2, SizeLimitNat, BytesAssumption
  <2> QED BY <2>1
       DEF NeverRetries, Next, Enter, Body, Environment, vars, appVars, netVars,
     Return, Call, CallTooLarge, Configure, ConfigureFails, NewHandle, NewFails, EmptyBuffer,
     Produce, RetryPoll, ProduceRefused, AfterRefusal, Poll, AfterPoll, FlushServe,
     FlushDrained, FlushTimeout, Destroy, LibSend, Disconnect, BrokerHandle, BrokerStray, LibAck
<1> QED BY <1>1, <1>2, Invariance, PTL DEF Spec

-----------------------------------------------------------------------------
(* Every step of the detailed specification is one the delivery promise    *)
(* allows: producev accepts, the broker stores, a poll or the flush tells, *)
(* and each return statement returns; all other steps change nothing there.*)
Promise == [Delivery!Next]_(Delivery!vars)

LEMMA RefinementStep == IInv /\ [Next]_vars => Promise
<1> SUFFICES ASSUME IInv, [Next]_vars PROVE Promise
  OBVIOUS
<1> USE CallsNat DEF Running
<1>t. TypeOK /\ Current
  BY DEF IInv
<1>1. ASSUME UNCHANGED <<out, log, reports, ret>> PROVE Promise
  BY <1>1 DEF Promise, Delivery!vars
<1>2. ASSUME NEW c \in Calls, NEW value \in {0, -1}, Return(c, value), ret[c] = Running,
             value = -1 => out[c] = "none",
             {x \in Calls : out[x] # "none"}' = {x \in Calls : out[x] # "none"},
             UNCHANGED <<log, reports>>
      PROVE  Promise
  BY <1>2 DEF Promise, Return, Delivery!Next, Delivery!Return
<1>3. ASSUME ServeOutcome(call), call \in Calls, pc # "idle", UNCHANGED <<log, ret>>
      PROVE  Promise
  <2>1. CASE UNCHANGED <<out, reports>>
    BY <1>1, <1>3, <2>1
  <2>2. ASSUME NEW v \in {"delivered", "failed"}, out[call] = v, reports[call] = << >>,
               out' = [out EXCEPT ![call] = "reported"],
               reports' = [reports EXCEPT ![call] = <<v>>]
        PROVE  Promise
    <3>1. Delivery!InLog(call) <=> v = "delivered"
      BY <1>3, <2>2 DEF IInv, Truth, Logged, Delivery!InLog
    <3>2. ret[call] = 1
      BY <1>3, <1>t DEF IInv, Control, TypeOK
    <3>3. {x \in Calls : out'[x] # "none"} = {x \in Calls : out[x] # "none"}
      BY <2>2, <1>3, <1>t DEF TypeOK
    <3>4. Delivery!Tell(call, v)
      BY <3>1, <3>2, <3>3, <1>3, <2>2 DEF Delivery!Tell
    <3> QED BY <3>4, <1>3, <2>2 DEF Promise, Delivery!Next
  <2> QED BY <1>3, <2>1, <2>2 DEF ServeOutcome, Done
<1>4. ASSUME NEW n \in Sizes, CallTooLarge(n) PROVE Promise
  <2>1. call + 1 \in Calls
    BY <1>4, <1>t, CallsAssumption DEF CallTooLarge, TypeOK, Calls
  <2>2. ret[call + 1] = Running /\ out[call + 1] = "none"
    BY <2>1, <1>4, <1>t DEF IInv, Control, Message, TypeOK
  <2> QED BY <1>2, <1>4, <2>1, <2>2 DEF CallTooLarge, netVars
<1>5. CASE ConfigureFails \/ NewFails
  <2>1. call \in Calls /\ ret[call] = Running /\ out[call] = "none"
    BY <1>5, <1>t DEF IInv, Control, ConfigureFails, NewFails, Current
  <2> QED BY <1>2, <1>5, <2>1 DEF ConfigureFails, NewFails, netVars
<1>6. CASE EmptyBuffer
  <2>1. call \in Calls /\ ret[call] = Running /\ out[call] = "none"
    BY <1>6, <1>t DEF IInv, Control, EmptyBuffer, Current
  <2>2. UNCHANGED <<out, reports>>
    BY <1>6, <2>1 DEF EmptyBuffer, Serve, Done
  <2> QED BY <1>2, <1>6, <2>1, <2>2 DEF EmptyBuffer, netVars
<1>7. CASE Produce
  <2>1. call \in Calls /\ ret[call] = Running /\ out[call] = "none"
    BY <1>7, <1>t DEF IInv, Control, Produce, Current
  <2>2. {x \in Calls : out'[x] # "none"} = {x \in Calls : out[x] # "none"} \cup {call}
    BY <1>7, <2>1, <1>t DEF Produce, TypeOK
  <2>3. Delivery!Accept(call)
    BY <1>7, <2>1, <2>2 DEF Produce, Delivery!Accept, netVars
  <2> QED BY <2>1, <2>3 DEF Promise, Delivery!Next, Delivery!Accept
<1>8. CASE RetryPoll \/ Poll \/ FlushServe
  <2>1. call \in Calls /\ ServeOutcome(call) /\ pc # "idle" /\ UNCHANGED <<log, ret>>
    BY <1>8, ServeEffect DEF RetryPoll, Poll, FlushServe, appVars, netVars
  <2> QED BY <1>3, <2>1
<1>9. CASE Destroy
  <2>1. call \in Calls /\ ret[call] = Running
    BY <1>9, <1>t DEF IInv, Control, Destroy, Current
  <2>2. {x \in Calls : out'[x] # "none"} = {x \in Calls : out[x] # "none"}
    BY <1>9, <2>1, <1>t DEF Destroy, TypeOK, Outq
  <2> QED BY <1>2, <1>9, <2>1, <2>2 DEF Destroy, ReturnValue
<1>10. ASSUME NEW c \in Calls, LibSend(c) \/ Disconnect(c) \/ LibAck(c) PROVE Promise
  <2>1. out[c] # "none" /\ out'[c] # "none" /\ \A x \in Calls : x # c => out'[x] = out[x]
    BY <1>10, <1>t DEF IInv, Message, LibSend, Disconnect, LibAck, TypeOK
  <2>2. {x \in Calls : out'[x] # "none"} = {x \in Calls : out[x] # "none"}
    BY <2>1
  <2> QED BY <1>10, <2>2
       DEF LibSend, Disconnect, LibAck, appVars, Promise, Delivery!vars
<1>11. ASSUME NEW c \in Calls, BrokerHandle(c) \/ BrokerStray(c) PROVE Promise
  <2>1. Store(c) /\ UNCHANGED <<out, reports, ret>> /\ out[c] # "none" /\ idem[c]
    BY <1>11, <1>t DEF BrokerHandle, BrokerStray, appVars, IInv, Message, TypeOK
  <2>2. CASE log' = log
    BY <1>1, <2>1, <2>2
  <2>3. CASE log' # log
    <3>1. log' = Append(log, c) /\ ~Delivery!InLog(c) /\ BrokerAccepts(c)
      BY <2>1, <2>3 DEF Store, Logged, Delivery!InLog
    <3>2. reports[c] # <<"failed">>
      BY <3>1 DEF IInv, Truth
    <3>3. Delivery!Store(c)
      BY <2>1, <3>1, <3>2 DEF Delivery!Store
    <3> QED BY <3>3 DEF Promise, Delivery!Next
  <2> QED BY <2>2, <2>3
<1>12. ASSUME NEW n \in Sizes, Call(n) PROVE Promise
  BY <1>1, <1>12 DEF Call, netVars
<1>13. CASE Configure \/ NewHandle \/ QueueFull \/ ProduceRefused \/ FlushDrained \/ FlushTimeout
  BY <1>1, <1>13 DEF Configure, NewHandle, QueueFull, ProduceRefused, FlushDrained,
     FlushTimeout, netVars
<1>14. CASE UNCHANGED vars
  BY <1>1, <1>14 DEF vars, appVars, netVars
<1> QED
  BY <1>4, <1>5, <1>6, <1>7, <1>8, <1>9, <1>10, <1>11, <1>12, <1>13, <1>14
     DEF Next, Enter, Body, Environment

(* producer() implements the delivery promise, for every constant.         *)
THEOREM Refinement == Spec => ImplementsDelivery
<1>1. Init => Delivery!Init
  BY DEF Init, Delivery!Init, Running
<1>2. IInv /\ [Next]_vars => [Delivery!Next]_(Delivery!vars)
  BY RefinementStep DEF Promise
<1> QED BY <1>1, <1>2, Invariance, PTL DEF Spec, ImplementsDelivery, Delivery!Spec
=============================================================================
