--------------------------- MODULE KafkaProducer ---------------------------
(***************************************************************************)
(* producer() of producer.c, the thread that calls it, and what librdkafka *)
(* and the broker do with the one message each call hands them.            *)
(*                                                                         *)
(* One application thread makes the calls 1 .. MaxCalls one after another. *)
(* Every call builds a configuration, a producer handle of its own, tries  *)
(* to enqueue its buffer, polls, flushes for ten seconds and destroys the  *)
(* handle.  librdkafka's threads and the broker run concurrently with it;  *)
(* a request already written to a socket may still reach the log after the *)
(* handle is gone.  A call is named by its number, and so is its message.  *)
(***************************************************************************)
EXTENDS Integers, Sequences

CONSTANTS MaxCalls,    \* bound: calls of producer() made by the application
          Sizes,       \* the buf_size values it passes
          QueueBytes,  \* librdkafka's queue.buffering.max.kbytes, in bytes
          Framing,     \* bytes a record batch adds to one message
          BrokerMax,   \* the broker's message.max.bytes
          MaxStrays    \* bound: requests of one call on dead connections

ASSUME CallsAssumption == MaxCalls \in Nat \ {0}
ASSUME SizesAssumption == Sizes \subseteq Nat
ASSUME BytesAssumption == QueueBytes \in Nat /\ Framing \in Nat /\ BrokerMax \in Nat
ASSUME StraysAssumption == MaxStrays \in Nat

SizeLimit == 33554400       \* the guard, and message.max.bytes

Calls == 1 .. MaxCalls

VARIABLES
  pc,        \* where the application thread is in producer()
  call,      \* number of the current (or last) call
  size,      \* buf_size of each call
  ret,       \* what each call returned, Running before that
  conf,      \* who owns each call's rd_kafka_conf_t
  rk,        \* each call's rd_kafka_t
  idem,      \* was enable.idempotence set in that configuration
  out,       \* the message inside librdkafka (rd_kafka_outq_len counts it)
  wire,      \* what the handle's live connection to the broker carries
  stray,     \* requests still travelling on connections that are dead
  log,       \* the partition's log, a sequence of calls
  reports,   \* history: the dr_msg_cb invocations for each call's message
  timedOut   \* history: the flush of that call gave up with a message left

appVars == <<pc, call, size, ret, conf, rk, idem>>
netVars == <<wire, stray, log>>
vars == <<appVars, netVars, out, reports, timedOut>>

Running == 1                      \* not a value producer() returns
Stages == {"idle", "configure", "new", "empty", "produce", "retry", "poll",
           "flush", "destroy"}
Outq == {"queued", "inflight", "delivered", "failed"}   \* in the output queue
Done == {"delivered", "failed"}   \* only the delivery report is left to serve
Logged(c) == \E n \in DOMAIN log : log[n] = c

Init ==
  /\ pc = "idle" /\ call = 0
  /\ size = [c \in Calls |-> 0] /\ ret = [c \in Calls |-> Running]
  /\ conf = [c \in Calls |-> "none"] /\ rk = [c \in Calls |-> "none"]
  /\ idem = [c \in Calls |-> FALSE]
  /\ out = [c \in Calls |-> "none"] /\ wire = [c \in Calls |-> "none"]
  /\ stray = [c \in Calls |-> 0] /\ log = << >>
  /\ reports = [c \in Calls |-> << >>] /\ timedOut = [c \in Calls |-> FALSE]

-----------------------------------------------------------------------------
\* The application thread.

Return(c, value) == ret' = [ret EXCEPT ![c] = value] /\ pc' = "idle"

NoSizeGuard(n) == FALSE              \* fault: the guard is missing
SizeRejected(n) == n >= SizeLimit

(* producer(brokers, topic, buf, n) is called and passes its size guard.   *)
Call(n) ==
  /\ pc = "idle" /\ call < MaxCalls /\ ~SizeRejected(n)
  /\ call' = call + 1 /\ size' = [size EXCEPT ![call + 1] = n]
  /\ conf' = [conf EXCEPT ![call + 1] = "app"]
  /\ pc' = "configure"
  /\ UNCHANGED <<ret, rk, idem, out, netVars, reports, timedOut>>

(* The size guard: nothing has been allocated when the call returns.       *)
CallTooLarge(n) ==
  /\ pc = "idle" /\ call < MaxCalls /\ SizeRejected(n)
  /\ call' = call + 1 /\ size' = [size EXCEPT ![call + 1] = n]
  /\ Return(call + 1, -1)
  /\ UNCHANGED <<conf, rk, idem, out, netVars, reports, timedOut>>

\* Fault: enable.idempotence is left out of the configuration.
ConfigurePlain ==
  /\ pc = "configure" /\ pc' = "new"
  /\ UNCHANGED <<call, size, ret, conf, rk, idem, out, netVars, reports, timedOut>>

(* bootstrap.servers, message.max.bytes and enable.idempotence are set.    *)
Configure ==
  /\ pc = "configure" /\ pc' = "new"
  /\ idem' = [idem EXCEPT ![call] = TRUE]
  /\ UNCHANGED <<call, size, ret, conf, rk, out, netVars, reports, timedOut>>

\* Fault: the error path forgets rd_kafka_conf_destroy, as kafak/producer.c does.
ConfigureFailsLeaking ==
  /\ pc = "configure" /\ Return(call, -1)
  /\ UNCHANGED <<call, size, conf, rk, idem, out, netVars, reports, timedOut>>

(* One of the three rd_kafka_conf_set calls refuses its value.             *)
ConfigureFails ==
  /\ pc = "configure" /\ Return(call, -1)
  /\ conf' = [conf EXCEPT ![call] = "freed"]
  /\ UNCHANGED <<call, size, rk, idem, out, netVars, reports, timedOut>>

(* rd_kafka_new succeeds and takes the configuration over.                 *)
NewHandle ==
  /\ pc = "new" /\ pc' = IF size[call] = 0 THEN "empty" ELSE "produce"
  /\ rk' = [rk EXCEPT ![call] = "live"]
  /\ conf' = [conf EXCEPT ![call] = "handle"]
  /\ UNCHANGED <<call, size, ret, idem, out, netVars, reports, timedOut>>

(* rd_kafka_new fails: the configuration stays with the application, which *)
(* returns without destroying it.                                          *)
NewFails ==
  /\ pc = "new" /\ Return(call, -1)
  /\ UNCHANGED <<call, size, conf, rk, idem, out, netVars, reports, timedOut>>

(* dr_msg_cb tells success from permanent failure by rkmessage->err.       *)
BlindReport(c) == "delivered"        \* fault: rkmessage->err is ignored
dr_msg_cb(c) == out[c]

ServeAgain(c) == out[c]              \* fault: the message stays in the queue
AfterReport(c) == "reported"

(* rd_kafka_poll and rd_kafka_flush run dr_msg_cb for a finished message,  *)
(* on the application's thread; librdkafka then frees the message.         *)
Serve(c) ==
  IF out[c] \in Done
  THEN /\ reports' = [reports EXCEPT ![c] = Append(@, dr_msg_cb(c))]
       /\ out' = [out EXCEPT ![c] = AfterReport(c)]
  ELSE UNCHANGED <<reports, out>>

(* An empty buffer: serve delivery reports, return -1, keep the handle.    *)
EmptyBuffer ==
  /\ pc = "empty" /\ Serve(call) /\ Return(call, -1)
  /\ UNCHANGED <<call, size, conf, rk, idem, netVars, timedOut>>

(* The room a handle's queue has left for a message.                       *)
Room(c) == QueueBytes - (IF out[c] \in Outq THEN size[c] ELSE 0)

(* rd_kafka_producev copies the buffer and queues the message.             *)
Produce ==
  /\ pc = "produce" /\ pc' = "poll"
  /\ size[call] <= Room(call)
  /\ out' = [out EXCEPT ![call] = "queued"]
  /\ UNCHANGED <<call, size, ret, conf, rk, idem, netVars, reports, timedOut>>

(* RD_KAFKA_RESP_ERR__QUEUE_FULL: poll for a second, then `goto retry`.    *)
QueueFull ==
  /\ pc = "produce" /\ pc' = "retry"
  /\ size[call] > Room(call)
  /\ UNCHANGED <<call, size, ret, conf, rk, idem, out, netVars, reports, timedOut>>

RetryPoll ==
  /\ pc = "retry" /\ pc' = "produce"
  /\ Serve(call)
  /\ UNCHANGED <<call, size, ret, conf, rk, idem, netVars, timedOut>>

(* Every other error of producev is printed, and the call goes on without  *)
(* its message.                                                            *)
AlwaysRetry == "retry"                \* fault: `goto retry` on every error
AfterRefusal == "poll"
ProduceRefused ==
  /\ pc = "produce" /\ pc' = AfterRefusal
  /\ UNCHANGED <<call, size, ret, conf, rk, idem, out, netVars, reports, timedOut>>

(* rd_kafka_poll(rk, 0).                                                   *)
SkipFlush == "destroy"                \* fault: rd_kafka_flush is not called
AfterPoll == "flush"
Poll ==
  /\ pc = "poll" /\ pc' = AfterPoll
  /\ Serve(call)
  /\ UNCHANGED <<call, size, ret, conf, rk, idem, netVars, timedOut>>

(* rd_kafka_flush(rk, 10000) serves reports until the queue is empty ...   *)
FlushServe ==
  /\ pc = "flush" /\ out[call] \in Done
  /\ Serve(call)
  /\ UNCHANGED <<appVars, netVars, timedOut>>

FlushDrained ==
  /\ pc = "flush" /\ pc' = "destroy" /\ out[call] \notin Outq
  /\ UNCHANGED <<call, size, ret, conf, rk, idem, out, netVars, reports, timedOut>>

\* Fault: rd_kafka_flush(rk, -1), which waits for ever.
FlushForever == FALSE /\ UNCHANGED vars

(* ... or ten seconds have passed with the message still in it.            *)
FlushTimeout ==
  /\ pc = "flush" /\ pc' = "destroy" /\ out[call] \in Outq
  /\ timedOut' = [timedOut EXCEPT ![call] = TRUE]
  /\ UNCHANGED <<call, size, ret, conf, rk, idem, out, netVars, reports>>

(* rd_kafka_destroy drops what is left in the queue without a report and   *)
(* closes the connection; a request already sent stays on its way.         *)
FailIfUndelivered(c) == IF out[c] \in Outq THEN -1 ELSE 0   \* fault
ReturnValue(c) == 0
Destroy ==
  /\ pc = "destroy" /\ Return(call, ReturnValue(call))
  /\ rk' = [rk EXCEPT ![call] = "destroyed"]
  /\ conf' = [conf EXCEPT ![call] = "freed"]
  /\ out' = [out EXCEPT ![call] = IF @ \in Outq THEN "purged" ELSE @]
  /\ stray' = [stray EXCEPT ![call] = IF wire[call] = "request" THEN @ + 1 ELSE @]
  /\ wire' = [wire EXCEPT ![call] = "none"]
  /\ UNCHANGED <<call, size, idem, log, reports, timedOut>>

-----------------------------------------------------------------------------
\* librdkafka's threads, the connections and the broker.

(* The broker thread of the handle sends the produce request.              *)
LibSend(c) ==
  /\ rk[c] = "live" /\ out[c] = "queued"
  /\ out' = [out EXCEPT ![c] = "inflight"]
  /\ wire' = [wire EXCEPT ![c] = "request"]
  /\ UNCHANGED <<appVars, stray, log, reports, timedOut>>

(* The connection breaks before the response: librdkafka queues the        *)
(* message again, and the broker may still read the request it has.        *)
Disconnect(c) ==
  /\ rk[c] = "live" /\ out[c] = "inflight"
  /\ wire[c] = "request" => stray[c] < MaxStrays
  /\ out' = [out EXCEPT ![c] = "queued"]
  /\ stray' = [stray EXCEPT ![c] = IF wire[c] = "request" THEN @ + 1 ELSE @]
  /\ wire' = [wire EXCEPT ![c] = "none"]
  /\ UNCHANGED <<appVars, log, reports, timedOut>>

BrokerAccepts(c) == size[c] + Framing <= BrokerMax

(* An idempotent producer's request is stored once, whatever the retries.  *)
Store(c) ==
  log' = IF BrokerAccepts(c) /\ ~(idem[c] /\ Logged(c)) THEN Append(log, c) ELSE log

(* The partition leader handles the request of the live connection.        *)
BrokerHandle(c) ==
  /\ wire[c] = "request" /\ Store(c)
  /\ wire' = [wire EXCEPT ![c] = IF BrokerAccepts(c) THEN "stored" ELSE "refused"]
  /\ UNCHANGED <<appVars, stray, out, reports, timedOut>>

(* It handles one that arrived on a connection that is gone by now.        *)
BrokerStray(c) ==
  /\ stray[c] > 0 /\ Store(c)
  /\ stray' = [stray EXCEPT ![c] = @ - 1]
  /\ UNCHANGED <<appVars, wire, out, reports, timedOut>>

(* librdkafka reads the response and puts the report on the handle's queue.*)
LibAck(c) ==
  /\ rk[c] = "live" /\ wire[c] \in {"stored", "refused"}
  /\ out' = [out EXCEPT ![c] = IF wire[c] = "stored" THEN "delivered" ELSE "failed"]
  /\ wire' = [wire EXCEPT ![c] = "none"]
  /\ UNCHANGED <<appVars, stray, log, reports, timedOut>>

-----------------------------------------------------------------------------
Body ==
  \/ Configure \/ ConfigureFails \/ NewHandle \/ NewFails \/ EmptyBuffer
  \/ Produce \/ QueueFull \/ RetryPoll \/ ProduceRefused
  \/ Poll \/ FlushServe \/ FlushDrained \/ FlushTimeout \/ Destroy

Enter == \E n \in Sizes : Call(n) \/ CallTooLarge(n)

Environment == \E c \in Calls :
  LibSend(c) \/ Disconnect(c) \/ BrokerHandle(c) \/ BrokerStray(c) \/ LibAck(c)

Next == Enter \/ Body \/ Environment

(* The thread inside producer() is scheduled; the network and the broker   *)
(* promise nothing.                                                        *)
Spec == Init /\ [][Next]_vars /\ WF_vars(Body)

-----------------------------------------------------------------------------
(* Types, and one fact about them: dr_msg_cb has run at most once for each *)
(* message, whether a poll, a retry's poll or the flush served it.         *)
TypeOK ==
  /\ pc \in Stages /\ call \in 0 .. MaxCalls
  /\ size \in [Calls -> Nat] /\ ret \in [Calls -> {Running, 0, -1}]
  /\ conf \in [Calls -> {"none", "app", "handle", "freed"}]
  /\ rk \in [Calls -> {"none", "live", "destroyed"}]
  /\ idem \in [Calls -> BOOLEAN]
  /\ out \in [Calls -> Outq \cup {"none", "reported", "purged"}]
  /\ wire \in [Calls -> {"none", "request", "stored", "refused"}]
  /\ stray \in [Calls -> Nat] /\ log \in Seq(Calls)
  /\ reports \in [Calls -> {<< >>, <<"delivered">>, <<"failed">>}]
  /\ timedOut \in [Calls -> BOOLEAN]

Returned(c) == ret[c] # Running
Reported(c, r) == reports[c] = <<r>>

(* No message is in the log twice, however often its connection broke and  *)
(* the request was sent again: producer() turns idempotence on.            *)
NoDuplicate == \A m, n \in DOMAIN log : log[m] = log[n] => m = n

(* What dr_msg_cb prints is true: a message reported delivered is in the   *)
(* log, and one reported failed is not and has no way left to get there.   *)
HonestReports == \A c \in Calls :
  /\ Reported(c, "delivered") => Logged(c)
  /\ Reported(c, "failed") => ~Logged(c) /\ (stray[c] = 0 \/ ~BrokerAccepts(c))

(* A caller that gets -1 may submit the same buffer again: the message is  *)
(* not in the log and nothing that could put it there is on its way.       *)
RejectedNeverSent == \A c \in Calls :
  ret[c] = -1 => ~Logged(c) /\ out[c] = "none" /\ wire[c] = "none" /\ stray[c] = 0

(* A call that returned has given everything back, with two exceptions:    *)
(* the handle of an empty buffer, and the configuration rd_kafka_new left  *)
(* to the application.                                                     *)
HandlesReleased == \A c \in Calls : Returned(c) =>
  /\ rk[c] = "live" => size[c] = 0
  /\ conf[c] = "handle" <=> rk[c] = "live"
  /\ conf[c] = "app" => idem[c] /\ rk[c] = "none"

(* The fate of a message whose call returned 0: dr_msg_cb has reported it  *)
(* unless producev refused it or the flush ran out of time.                *)
Accounted == \A c \in Calls :
  ret[c] = 0 => \/ reports[c] # << >>
                \/ out[c] = "none"
                \/ timedOut[c]

(* The log follows the order of the calls, except behind a message whose   *)
(* flush timed out: its request may be stored after later calls' messages. *)
OrderKept == \A m, n \in DOMAIN log :
  m < n /\ log[n] < log[m] => timedOut[log[n]]

(* Every handle is fresh, so a queue that admits one message of the size   *)
(* the guard lets through is never full: the retry loop is not entered.    *)
NeverRetries == pc # "retry"

(* Every call returns, whatever the broker does: the flush is bounded.     *)
Returns == \A c \in Calls : call = c ~> Returned(c)

(* With a queue smaller than the guard allows, a call whose message fits   *)
(* still returns; only a message that can never fit is retried for ever.   *)
ReturnsIfRoom == \A c \in Calls :
  call = c /\ size[c] <= QueueBytes ~> Returned(c)

Delivery == INSTANCE MessageDelivery WITH
  Messages <- Calls, accepted <- {c \in Calls : out[c] # "none"}, verdict <- reports

(* producer(), librdkafka and the broker together do nothing that the      *)
(* delivery promise does not allow.                                        *)
ImplementsDelivery == Delivery!Spec

(* producer.c:70 says dr_msg_cb "will be called once per message to inform *)
(* the application if delivery succeeded or failed".                       *)
CalledOncePerMessage == \A c \in Calls :
  ret[c] = 0 /\ out[c] # "none" => Len(reports[c]) = 1

=============================================================================
