# A verification model of kafka_client

TLA+ modules for the C program in `src/`: a Kafka producer and consumer on top
of librdkafka, a forwarder that posts alarms over HTTP, and the HTTP and JSON
libraries kept beside them. TLC checks the modules on small instances; TLAPS
proves theorems about the three components of the executable, about the HTTP
parser, the URL parser and the HTTP client, and about cJSON's trees for every
value of their constants.

## The system

The executable (`CMakeLists.txt:15`) is `main.c`, `soc.c`, `client.c`, `http.c`
and `producer.c`, linked with librdkafka. The rest of the tree is not built.

| Part | State it keeps | Operations | Status |
|---|---|---|---|
| `producer()`, `producer.c` | per call: a configuration, a handle, one message | configure, create, produce with a retry loop, poll, flush 10 s, destroy; callback `dr_msg_cb` | `KafkaProducer` |
| `consumer()`, `client.c` | the static flag `run`; per call: configuration, handle, subscription list, one message in hand | configure, create, subscribe, install `stop()` for SIGINT, poll loop, close, destroy | `KafkaConsumer` |
| `http_send()`, `http.c` | three static buffers; a descriptor per call | split a message by `strtok`, build body and header, connect, write, read once, close | `AlarmForwarder` |
| `socket_create/destroy`, `soc.c` | a descriptor | socket, setsockopt, connect, close | `AlarmForwarder` |
| `main()`, `main.c` | a file and its size | read a file, one call of `producer()` | not modelled |
| `http()`, `http/http.c` | statics: the parser, whether it was initialised, the caller's buffer | take a URL apart, send a GET, read loop, parser callbacks | `HttpClient` |
| `http_parser_execute`, `http/http_parser.c` | the parser's state word, counters, flags | `init`, `execute` with callbacks, the call with length zero, `pause` | `HttpParser` |
| `http_parser_parse_url`, same file | none | a URL to its fields | `UrlParser` |
| lists and references, `json/cJSON.c` | items on the heap | create, add, refer, detach, insert, replace, duplicate, delete | `JsonTree` |
| texts, `json/cJSON.c` | a parse buffer, a print buffer | parse, print, minify | `JsonText` |
| `json/cJSON_Utils.c` | none | pointers, patches, merge patches, sort, compare | `JsonPatch` |
| `src/bak.c` | a descriptor | enumerate interfaces, one fixed request | not modelled |
| `kafak/` | as `producer.c`, `client.c` | older copies | covered by the two modules where equal |
| tests, build files, compose file | none | | not modelled |

How the parts interact. `main` calls `producer`. `producer` and `consumer` do
not call each other: they meet at the broker. librdkafka runs threads of its
own beside the thread that calls it: it sends, reconnects, prefetches and
commits while the application is between two calls, and runs `dr_msg_cb` only
inside `rd_kafka_poll` and `rd_kafka_flush`. A signal handler interrupts
`consumer()` at any point. `http_send` is declared in `client.c:9` and called
there only in a comment (`client.c:195`); it calls `socket_create`.
`http/http.c` calls `http_parser_parse_url` once and `http_parser_execute` for
every read, which calls back `on_body`. `cJSON_Utils.c` works on the items of
`cJSON.c`; nothing in the executable calls either.

What is hard here:

- the producer's flush gives up while its request is still on its way, and the
  broker may store the message after the call has returned;
- a broken connection makes librdkafka send again what was perhaps stored;
- the consumer's offset is stored when a message is handed out, not when it is
  processed, and committed at some other time;
- members of the group die, are fenced, and are killed by a SIGINT that comes
  before the handler is installed;
- `run` is set once per process, not once per call;
- `http_send` has an error path that keeps its descriptor, writes into its
  `const` argument, and works in buffers of fixed size;
- the HTTP parser may be called with any cut of the input, its callbacks may
  pause it or fail at any of them, and where a body ends depends on headers that
  come in any order, twice, folded, or contradict each other;
- `http()` keeps that parser in a static that is initialised once, and gives it
  what `strlen` finds in a buffer that need not be terminated;
- cJSON's lists keep their last item in the first one's `prev`, references share
  children, and its printer and parser count in one pass and write in another;
- patches apply one after the other to a document that the earlier ones changed.

What correctness means for each modelled part:

- producer: a message is stored at most once; what the callback reports is
  true; a call that returned -1 stored nothing; a call returns; handles are
  given back; messages keep the order of the calls;
- consumer: the group passes no message over, repeats one only for a reason,
  a SIGINT ends the loop for good, a return leaves nothing behind (but for the
  configuration that a failed `rd_kafka_new` hands back), and every message is
  eventually processed;
- forwarder: 0 means the request was written whole; fields keep their names;
  descriptors are accounted for; the static buffers suffice; a buffer is
  posted at most once;
- HTTP parser: the callbacks tell the messages that were sent, however the bytes
  are cut, or end in an error; the header limit holds; a byte is not looked at
  for ever;
- HTTP client: a call asks the port its URL names, of 127.0.0.1, for the path
  and query its URL names, and gets the body of the answer to that request;
- URL parser: the fields together are the URL;
- cJSON: every item has one owner, a call does to the lists what it says, a text
  is understood as JSON is, and what is printed is read back and fits;
- utilities: generated patches turn the one document into the other.

The full list of hazards, each at its line, is in `PROJECT.json`.

## Modules

| Module | Contents |
|---|---|
| `MessageDelivery` | abstract: what the producer promises about one message per call |
| `KafkaProducer` | `producer()` with librdkafka's queue, connections and the broker; implements `MessageDelivery` |
| `KafkaProducerProofs` | theorems about `KafkaProducer` |
| `KafkaConsumer` | `consumer()` in several processes of a group, SIGINT, crashes, librdkafka and the coordinator |
| `KafkaConsumerProofs` | theorems about `KafkaConsumer` |
| `AlarmForwarder` | `http_send()` with `socket_create()` and `socket_destroy()` |
| `AlarmForwarderProofs` | theorems about `AlarmForwarder` |
| `HttpTokens` | the characters the HTTP parser tells apart; its tables and its matching of header names and values |
| `HttpMessages` | messages as a sender means them: their bytes, and the callbacks a receiver is to hear. Reference, not translated from the parser |
| `HttpEvents` | abstract: the order of callbacks `http_parser.h` promises |
| `HttpParser` | `http_parser_execute`, one action per case of its switch, with pauses, failures and cuts; implements `HttpEvents` |
| `HttpParserTypes`, `HttpParserProofs` | theorems about `HttpParser`: the first has the two lower layers of its invariant, the second the other two and the theorems |
| `UrlParser` | `http_parser_parse_url`, as functions on sequences of characters |
| `HttpClient` | `http()` called again and again, on `UrlParser` and on a parser reduced to what `HttpParser` does with whole heads and bodies |
| `HttpClientProofs` | theorems about `UrlParser` and `HttpClient` |
| `JsonForest` | abstract: calls of cJSON as changes of sequences |
| `JsonTree` | cJSON's items with `next`, `prev` and `child`, ownership and keys; implements `JsonForest` |
| `JsonTreeShape`, `JsonTreeProofs` | theorems about `JsonTree`: the first has what pointers say of lists, for any heap, the second the invariant and the theorems |
| `JsonText` | cJSON's parser and printer as functions on bytes, and an independent definition of what a JSON text means |
| `JsonPatch` | pointers, patches, merge patches, sorting and comparing, on the items of `JsonText` |
| `MCKafkaProducer`, `MCKafkaConsumer`, `MCAlarmForwarder`, `MCHttpParser`, `MCJsonTree`, `MCHttpClient` | the constants' values and the symmetry for TLC |
| `MCLibrary` | inputs for the pure functions of `JsonText`, `JsonPatch` and `UrlParser`, one behaviour for each, and what must hold of them |

Definitions whose comment says *fault* are not part of the behaviour: each is a
variant of the definition that follows it, broken as an edit of the code might
break it. Put in that definition's place it makes TLC report the property it
is paired with in `PROJECT.json`.

### KafkaProducer

`pc` is the place of the application thread in `producer()`; `conf`, `rk` and
`idem` are the configuration, the handle and whether `enable.idempotence` was
set; `out` is where the call's message is inside librdkafka; `wire` is what
the handle's live connection carries, `stray` counts requests on connections
that have died, and `log` is the partition. One action stands for each stage
of the function up to the next call of librdkafka that other threads can come
in between: `Call`/`CallTooLarge` (lines 33-39), `Configure`/`ConfigureFails`
(45-75), `NewHandle`/`NewFails` (77-92), `EmptyBuffer` (92-97), `Produce`,
`QueueFull`, `RetryPoll`, `ProduceRefused` (98-147), `Poll` (161),
`FlushServe`/`FlushDrained`/`FlushTimeout` (163-173) and `Destroy` (176-178).
`LibSend`, `Disconnect`, `BrokerHandle`, `BrokerStray` and `LibAck` are the
environment, modelled from how the code uses it: the idempotent producer's
broker drops a message it has, and one connection carries one request.

Sizes are the real ones. The guard lets 33554399 bytes through, which the
broker's limit refuses once framing is added: that is one of the sizes checked.

### KafkaConsumer

One partition, one group. Per process: `pc`, `run`, `handler`, the ownership
of configuration, handle and list, the offset `hand` of the message being
processed, and librdkafka's view (`assigned`, `pos`, `fetched`, `stored`); for
the group: `owner`, `committed`, `end`. `handled`, `dropped`, `exposed` and
`late` are history. Actions follow lines 41-211 one library call at a time.
`stop` is the handler; `SignalKills` is the same signal before line 140;
`Crash`, `Exit` and `StartProcess` end and start processes; `LoseSession` is a
live member the coordinator has given up, `LearnLoss` the moment it finds out.
A process that returned may call `consumer()` again with the `run` it has.

### AlarmForwarder

`strtok` separates at every single CR and LF. A message is therefore a sequence
of pieces, the empty ones included: each is where it begins, its length, what
`atoi` returns for it, and the character behind it. What the sender of
`main.c:10` means by a field is what stands between two CRLFs, that is between
two empty pieces; only the properties speak of it (`Place`, `Filled`). `Places`
is the eight `strtok` calls, each going on where the one before stopped. `Cut`
is what they do to the caller's buffer. Body and request lengths are computed
from the literals of the code (354 bytes of template, 208 of header, 4 of
trailer). One action for each
system call and each way it can fail: `SocketFails`, `ConnectFails`,
`WriteShort`, and `BrokenPipe` for the SIGPIPE nobody handles. The caller may
pass a new message, or the buffer as the last call left it. Not modelled: a
failing `malloc`, whose result is not checked, and `strnlen`, `strlncat` and
`strlncpy`, which nothing calls.

### HttpParser

`parser` is `struct http_parser`, `call` the locals of the call in progress, `p`
the next byte, `told` the callbacks so far with adjacent pieces of data joined.
`Execute` begins a call with any number of the bytes that are left, `ExecuteEof`
is the call with length zero, `Resume` is `http_parser_pause(parser, 0)`. Each
`case` of the switch is an action; `Break`, `Reexecute`, `Callback`, `Data` and
`Error` are the macros of the file, with the state they save before or after the
callback. A symbol is a character or a run of characters no table splits (a
header name is two or three symbols), so that a call can end inside of it.

Not modelled: `http_body_is_final`; builds without `HTTP_PARSER_STRICT`; the
scan limit of `s_header_value`'s inner loop; the bytes after an upgrade, which
the application reads. Peculiarities of the code that are in the model and that
the reference is told of: a folded `Connection: close` loses its flag with the
next continuation, a header whose name only begins with `Transfer-Encoding`
sets `uses_transfer_encoding`, and a call in which a
callback pauses the parser does not add its bytes to the header count (the
pause saves the count of the call's beginning), so that the header limit is
stated up to the first pause only. Answers 204 and 304 with a
Content-Length are read with the body it announces; the messages checked have
none.

### UrlParser

`Scan` is the first pass, one `UrlStep` per character with the state of
`parse_url_char`; `http_parse_host` reads the host field again. Offsets are
modulo `UINT16`, at a smaller width. `ScanStart`, `UrlStep`, `HostStart`, `HostStep`
and `PortStep` are the loops' beginnings and bodies, and the loops themselves
functions from the number of characters read. The result of a failure is the fields as
far as they were set, which `http()` goes on to use.

### HttpClient

A process makes calls of `http()`; `parser_response` and `is_init` are the
statics, `response_buf` the caller's buffer, which it clears or hands in again.
`http` is the function down to the request, `Write` connects and writes,
`WriteFails` is the `exit(-1)`, `Read` is one turn of the loop with
`parser_responder` and `on_body`, `ReadEnds` the rest. A unit of what a server
sends is half a head, a byte of a body or a NUL; a read takes any number of
them. `Strings` is what `strlen(rbuf)` finds: up to a NUL that was read, or,
where `memset` has cleared nothing behind what was read, with bytes nobody sent.
`http_parser_execute` returns the outcomes possible: half a head may be more
bytes than a body has left. `create_socket` is external; port 0 refuses. It is
always called for 127.0.0.1 (`http/http.c:274`), so the model has no address: the
URL's host goes into the `Host` header (`host_ip`) and decides nothing, and only
its port says which server is asked.

Of the request the target and the `Host` header are modelled, the method and the
other headers are constant. Nothing compares the lengths of `header[1024]` and
`host_ip[32]` (`http/http.c:190`, `:201`) with the URL's: that they have room is
assumed of the endpoints (`EndpointsAssumption`, `HostRoomAssumption`).

### JsonTree, JsonText, JsonPatch

`JsonTree` has the heap; a step is one call of the library, made by a caller that
keeps to `cJSON.h`: it passes items it holds, makes no cycle, and deletes nothing
a reference still points to. Keys are copies on the heap or the caller's.

`JsonText` and `JsonPatch` are functions. Items there have their list of
children and `last`, which says where the first child's `prev` leads: sorting
leaves it on no item or on another than the last, and an item that is appended
then goes where it leads, or is lost. Doubles are a mantissa and an exponent;
`compare_double` is equality. A parse returns the item and the offset, a print
buffer is its length, its content and whether it may grow.

A result that is used more than once there is the parameter of a local operator,
or bound by a quantifier over the set of it, and not named with LET: TLC's
coverage statistics expand a LET definition at every use, and these nest.

Not modelled: failing allocations in `JsonText` and `JsonPatch` (in `JsonTree` the
heap fills up), `cJSON_ParseWithLength` (only texts with their
NUL are parsed), `cJSON_InitHooks`, `cJSON_SetNumberHelper`,
`cJSON_SetValuestring`. What the code does and the properties allow for: `\u`
with wrong digits is read as 0 and an embedded `\u0000` ends the string;
`cJSON_Minify` loses its place in a string that ends in an escaped backslash;
`decode_pointer_inplace` writes `~1` one byte too far and does not move what
follows an escape, so that `detach_path` and `apply_patch` miss names with `~`
or `/` in them (`Plain` in `JsonPatch` leaves those names out of patches, not
out of `get_item_from_pointer`); `detach_path` compares without case whatever it
is asked; `cJSONUtils_GeneratePatches` sorts its arguments and leaves their
first items' `prev` wrong, so a patch must be applied to a duplicate;
`generate_merge_patch` sorts without case and compares with it; a merge patch
cannot say that a member is null; `cJSONUtils_ApplyPatches` stops at the first
failure with the earlier patches applied.

## Runs

| Run | Question | Bounds |
|---|---|---|
| `ProducerSafety` | all safety of the producer, that it implements `MessageDelivery`, and that every call returns with a broker that may do nothing | 3 calls, sizes {0, 1000, limit-1, limit}, 2 stray requests per call |
| `ProducerSmallQueue` | does a call return whose message fits a queue smaller than the guard | 2 calls, queue of 1000 bytes |
| `ProducerReports` | is `dr_msg_cb` called once per message, as `producer.c:70` says: no | 1 call |
| `ConsumerSafety` | nothing skipped, repeats explained, SIGINT final, clean returns | 2 processes, 2 messages, 2 faults, 2 signals, symmetric processes |
| `ConsumerStops` | does SIGINT end the loop | 2 processes, 1 message, 1 fault, 1 signal |
| `ConsumerProgress` | is every message processed in the end | 2 processes, 2 messages, 1 fault; no SIGINT, a process that one kills (`SignalKills`) is here one that crashes |
| `ForwarderSafety` | all properties of the forwarder | messages of 7 to 9 fields separated by CRLF, each field in turn empty or with a CR or LF in it, some with both; eight fields separated by LF alone, of the largest size and one byte more; 2 descriptors |
| `ParserMessages` | do the callbacks tell the messages sent | every header alone, every pair that concerns framing, chunks, trailers, upgrades, each followed by a second message; bytes cut anywhere; two pauses or failures on five of the connections; lengths of 8 bits |
| `ParserBytes` | do the code's assertions, the header limit and the order of callbacks hold for bytes that are no message | two to four arbitrary symbols after each of twelve beginnings, all three parser types, a limit of 18 |
| `JsonTree` | ownership, links, and that `JsonForest` is implemented | four items, one key, one reference; items symmetric |
| `Library` | are texts, buffers, patches and URLs handled as they mean | texts of up to seven pieces; items nested three deep with a limit of two; all pairs of 162 documents; URLs of up to nine characters and whole ones of all fields |
| `HttpClient` | does a call get its own body | two calls, six URLs (one with all fields, one with a host in brackets, four that fail or have no port), answers of up to four bytes, a pointer of 4 and an `rbuf` of 4 |

Why these are enough to be interesting. Overtaking in the log needs a call that
timed out and a later one; a third lets a message come in between. Two strays
let the same message arrive twice after it was stored. Two members are needed
for a takeover, and two messages to tell a message passed over from one that is
still to come; two faults cover a death and a fenced member in one run. Nine
fields and an empty one make fields move up by one, and a CR or LF inside a field
makes them move down; with both in one message the shifts cancel for the fields
behind. Two descriptors
let two writes fail and the next socket be refused. A message and its successor
are what a wrong body length confuses; two headers are what a contradiction
needs; every cut of every connection is tried, because a call may take any
number of the bytes left. Four items give a list of three in which something is
detached from the middle, and a reference to it. Texts and URLs are all the
short ones over the characters the code compares with. Two calls of `http()` are
one that leaves the parser in some state and one that finds it there; four bytes
of body overfill the three that a pointer of four keeps.

What they show. The producer keeps all it should, with three exceptions that
the properties name: an empty buffer keeps its handle (`HandlesReleased`), a
timeout leaves a message whose fate nobody learns (`Accounted`) and which may
overtake later ones (`OrderKept`). The retry loop on a full queue is never
entered with a queue of the guard's size or more (`NeverRetries`), because each
call has a handle of its own; with a smaller queue a message larger than the
queue is tried for ever, and `ReturnsIfRoom` says so. The consumer loses at
most the message in the hand of a process that died, and repeats messages only
after a disorderly end. The forwarder leaks one descriptor for each failed
write, shifts fields when one of the first eight has a CR or LF in it or when one
of them is empty and the message has more than eight, and holds messages of up
to 33554086 bytes, 313 fewer than `producer()` admits (that is with single
characters between the fields; CRLFs take seven bytes more of a message, which do
not go into the body).

The parser tells what was sent or reports an error, for every cut and every
pause, and its callbacks come in the order of `HttpEvents`. `http()` gets the
body of its own answer only as far as `sizeof` a pointer goes, counted over all
that is in the buffer, and only while every earlier answer of the process was
read whole, had no NUL in it and kept its connection, which the request itself
asks the server not to do: the first call of a process is the only one sure of
its body. No request goes out for a URL that did not parse, although the result
of the parse is not looked at: a failure leaves port 0. cJSON's operations keep
one owner for every item but a reference whose key could not be copied, which is
lost. Texts, buffers, patches and URLs are right with the exceptions listed
above.

`ProducerReports` is a disagreement between code and comment: the comment above
`rd_kafka_conf_set_dr_msg_cb` says the callback is called once per message, and
after a flush that timed out the handle is destroyed with the message in it.

`CHECK_DEADLOCK FALSE` stands where the system stops: the producer's and the
HTTP client's callers make `MaxCalls` calls, a connection ends, a pure function
has returned, and a heap that is full leaves a caller that may do nothing.
Consumer and forwarder never stop.

### Fairness

- `KafkaProducer!Spec`: weak fairness of the application thread's own steps
  only. The thread is scheduled, each library call it makes is bounded by its
  timeout, and nothing is asked of the broker or of the network. `Returns` and
  `ReturnsIfRoom` are checked under it.
- `KafkaConsumer!Spec`: weak fairness of each process's steps in `consumer()`
  for the same reason (`rd_kafka_consumer_poll` returns after 100 ms).
  `FairSpec`, used for `EveryMessageHandled` alone, adds weak fairness of
  assignment, expiry, prefetching and of learning a loss, which librdkafka's
  threads and the coordinator do without the application; and strong fairness
  of `PollMessage`: error events may come in front of a message, not for ever.
  The property assumes that some process stays in its loop and that rebalances
  end.
- `AlarmForwarder`, `HttpClient`: none. `connect`, `write` and `read` have no
  timeout.
- `HttpParser`: none. `CallMovesOn` is a measure that each step of a call
  lowers, instead of a liveness property. The others have nothing to wait for.

## Proofs

For each of the six there is a module that shows `Spec => []IInv` for an
inductive invariant `IInv` (`Invariance`; for `HttpClient`, `ClientInv` and
`ClientInvariant`) and derives the named theorems from
it. The assumptions are those declared with the constants: bounds are natural
numbers, messages are sequences of pieces one behind the other, `None` and
`Ghost` are not processes,
items are finitely many and `NULL` is none of them, endpoints are shorter than
what the offsets of a URL can count and leave room in `host_ip`.

`KafkaProducerProofs`, for any number of calls, sizes, queue and broker limits:
`TypeCorrect`, `StoredOnce`, `ReportsAreHonest`, `RejectedIsSafeToRepeat`,
`NothingLeaks`, `ZeroIsAccounted`, `LogFollowsCalls`, `RetryLoopIsDead` (which
assumes a queue of the guard's size or more) and `Refinement` (the producer implements
`MessageDelivery`). No property is inductive alone. `Control` says what the
current call has done at each `pc` and that later calls have touched nothing;
`Message` ties the message's place in librdkafka to the connection and the
report, and says that idempotence is on wherever a message exists; `Truth` says
that what library and application believe about the log is so; `Settled`
describes a call that is over. `NoDuplicate` then follows because a stored
message is recognised, and `OrderKept` because a message not yet stored when
its call is over belongs to a call that timed out. Each group is shown to be
preserved in a lemma of its own with one step per action (`TypeStep`,
`ControlStep`, `MessageStep`, `TruthStep`, `SettledStep`, `LogStep`).

`KafkaConsumerProofs`, for any processes, messages, faults and signals:
`TypeCorrect`, `NothingPassedOver`, `RepeatsHaveCause`, `StopStays`,
`ReturnsClean`. `Stage` says what a process owns at each `pc`, that only a
member has a partition and that the coordinator's owner knows that it has it;
`Positions` that the stored offset is the position, so a commit commits exactly
what was read. `NoGap` extends `NothingSkipped` from the committed offset to
the owner's position, which the next commit makes the committed one. `Unread`
is its mirror: from the owner's position on, and with no live owner from the
committed offset on, no message has been read, unless a disorderly end exposed
it; hence a message in hand is nobody else's or exposed, and processing it
again is explained. Most steps move nothing of this (`StillSteps`,
`StillKeeps`); for the others there is one lemma per part (`PositionStep`,
`GapStep`, `ReadOnStep`, `SoleStep`, `RepeatStep`).

`AlarmForwarderProofs`, for any messages and any limit of descriptors:
`TypeCorrect`, `DescriptorsKept`, `ZeroIsWhole`, `FieldsKeepPlace`,
`OneRequestPerBuffer` and `BuffersSuffice`. The lemmas are about the
parsing: a set of numbers has a least element (`LeastNatural`), so one `strtok`
finds the first filled piece (`StrtokFinds`); the eight places rise and pass no
filled piece over (`PlacesRise`, `EightPlaces`). For `FieldsKeepPlace` the
sender's fields come in: pieces further on are in the same field or a later one
(`PlaceGrows`), and a field without a CR or LF is one filled piece at most
(`FieldIsSplit`). By induction over the eight, where no field is split the k-th
token is at the k-th field or behind it (`TokensReach`); and where none of them is
empty, or nothing comes behind the eighth, it is not behind it (`TokensStay`,
`ArgumentsInPlace`). For `BuffersSuffice` eight pieces that are apart have seven
separators between them (`EightBehind`), which is what the template and the
first six leave of a message of `LargestMessage` bytes (`TokensFit`). A buffer that
was cut has too few tokens (`CutIsSpent`). The invariant adds that the caller's
buffer is never acceptable again, that a call under way has a request of eight
filled pieces, and what `sent` and `requests` are at each `pc`.

`HttpParserProofs`, for any bytes, any cut of them into calls, any callback that
pauses the parser or fails, any limits and all three parser types: `TypeCorrect`,
`AssertionsSound`, `HeadersStayBounded`, `CallsMoveOn` and `Refinement` (the
callbacks implement `HttpEvents`). Assumed is what `HttpParser` declares: that
lengths have a width (`ULLONG_MAX >= 16`), that an input is a sequence of symbols
with a type and a number of stops, and that the options are natural numbers and truth values. The
invariant has four layers, and each needs the ones before:

- `Typed` (`HttpParserTypes`): types, and where a call is. In each state one mark
  at most is set, the one of the state's token, it is not behind `p`, and while
  the call has bytes left the token's state has it set. This is what a callback
  needs to be given bytes of the call, and what `AssertionsHold` says of marks.
- `Framed` (`HttpParserTypes`): what the states of a body rely on. Chunk states
  have `F_CHUNKED`, a body of known length has some of it left, a chunk's data
  have as much left as its size said, the header states are those of the inner
  loop they are read in. Hence no `assert` can fail, and no subtraction from
  `content_length` goes below zero.
- `Ordered` (`HttpParserProofs`): what the last callback was, in each state, and
  how much of a chunk is still due. `HttpEvents` forbids by what was told, the
  code by its state word; this layer says that they agree, also after a callback
  that stopped the parser in the middle of a macro, for which `parser.state` is the
  state before or after the callback. An error is left out: its last bytes
  are never told.
- `Counted` (`HttpParserProofs`): the bytes since the head's first are no more than
  were counted, by the loop for some states and by the inner loops for others.

`Counted`, and with it `HeadersBounded`, speaks of states up to the first pause
(`stops = 0`). The macros save `nread` before they call back
(`http_parser.c:90`), and a pause returns without adding what the call counted,
so that no such bound holds after one.
There is a lemma for each case of the switch in each layer, named for the
action; common to all are those about the macros (`Go`, `Callback`, `Error`
and their relatives), of which each action is made. Three facts about data are
proved beside them: what `Join` does to the last entry of a sequence, that a
scan stops at the first byte that fails its test, and, by well-founded
induction, that a run of header bytes leaves everything but the fields it may
change alone. TLC checked the layers as invariants of `ParserMessages` (1,110,665
states) before they were proved.

`HttpClientProofs` has two parts. `UrlsParsedRight`, about `UrlParser` alone, is for
any URL with fewer characters than `UINT16` and with CONNECT or without: what
`http_parser_parse_url` accepts satisfies `FieldsRight`, which is what the run
`Library` checks on the short URLs. `struct http_parser_url` has offsets of 16
bits; of a longer URL they wrap, and nothing of the kind holds. (`http()` writes
path and query into `header[1024]`, so that it has no room for one either, and
`EndpointsAssumption` says so of the endpoints.) The two passes and the port are
loops, and the model writes each as a function from the number of characters
read; `LoopExists` and `LoopUnique` say, by well-founded induction, that such a
function exists and is what its equation says, so that what one step keeps
holds all along. What is kept of the first pass (`At`) is, for each state, which
fields the characters read so far are divided into and where each begins and
ends: `SchemaTo`, `HostFrom`, `PathFrom`, `QueryFrom`, `HashesTo` are those
divisions, each built on the one before. `HostAt` is the same for the second pass
over the host. A division that reaches the end of the URL is then one of its
`Readings`, as pieces of a sequence that meet make one piece (`Pieces`).
`PortValue`, from the first digit on and giving up when it is too large, and
`NumberOf`, from the last digit on, are shown to be one number. The attempt to
prove this found an error of the model: two guards of a CASE overlapped for a URL
that fails behind its host, where TLC takes the first and TLA+ leaves the choice
open. The conditions are nested now, in the order of the code.

`ClientAsked`, that a request asks what its URL names, and `ClientGetsItsBody`, for any
endpoints, any answers, any number
of calls and every way to cut what is sent into reads, rest on `ClientInv`:
`Asks`, that target, `Host` header and port are what `http` made of the URL's
fields, and that a request went out to no port 0 only; `Fresh`, that a process that has made
no call has the parser not initialised and an empty buffer; `Writes`, that a call
whose request has not gone out has, unless an earlier answer spoilt it, the parser
at its start and the buffer as it was handed in; and `Reads`, that after the first k
units of an answer the parser is in `StateAt` of k and the buffer holds what of
the first `TakenAt` units of the body fits behind what it held. `ReadOn` is the
step: reading n units more is feeding them one by one (`http_parser_execute`
is a loop too, over sets of outcomes, with one outcome in every such state),
and the buffer that was cut after one read and after the next is the one cut
after both (`OnBodyCuts`). `flawed` and `spoilt` are what the hypotheses say: a
NUL, bytes nobody sent, or an earlier call that left the static parser elsewhere.
TLC checked `ClientInv` on the run `HttpClient` before it was proved.
`ClientAsked` follows from `Asks` by what is proved of URLs (`UrlAsked`): a port that
is not 0 comes from a URL that was parsed, since only the end of the parse sets it
(`PortMeansParsed`); its fields are then right (`UrlsParsedRight`); and a path or a
query that the URL has not got is an empty text, since no character of either pass
was counted for it (`UnsetIsEmpty`, from `ScanBare` and `HostLeaves`).

`JsonTreeProofs`, for any finite heap, any number of keys and references:
`ListsAreLinked`, `ItemsOwnedOnce` and `PointersImplementForest` (every call is
the call of `JsonForest`, or leaves the forest as it is). Neither property is
inductive alone: what a call does to a list rests on where pointers lead that
are not followed in it, and what a deletion frees on there being no cycle. With
`K` the lists that the pointers lead to, the invariant is

- `Shape`: `K` is what `child` and `next` say, with `prev` as its mirror
  (`Rows`); no item is twice in `K` (`Once`); what is in a list is live and not
  the caller's (`Listed`); a live item in no list is linked to nothing, and is the
  caller's or a lost reference (`Loose`); nothing live points to what was freed
  (`Pointing`);
- `Acyclic`: every set of items has one that is in the list of none of them;
- `Keyed`: `strings` is the number of items with a key on the heap, and
  `cJSON_StringIsConst` agrees with where the key is.

`JsonTreeShape` has what is independent of the calls. A list in the model is a
recursive function that follows `next` as often as there are items, and what
`cJSON_Delete` frees is one that grows by a level at a time; `ListFrom` and
`Reached` are shown equal to `K` and to `Below`, the least set closed under `K`,
by the definition of a function over numbers up to a bound and a set that must
stop growing (`Iterates`, `StopsGrowing`). One lemma for each of `add_item_to_array`,
`Linked`, `Unlink` and `Exchanged` (`AppendRewires`, `LinkedRewires`, `UnlinkRewires`,
`ExchangedRewires`) says that it leaves the list with one item added, removed or
exchanged and every other as it was, with the cases of the first, the last and
the only item. `Rewire` and `RewireSound` take these to the whole heap,
and `ClearedSound` does it for deletion. Each call then has a
lemma (`AddItemToArrayStep` and so on) that it keeps `IInv` and is its step of
`JsonForest` or none; what a change of `K` means for the forest is shared between
them (`ForestAdd` and so on). The invariant was checked by TLC on the four items
of the run before it was proved.
`Places` in `JsonTree` binds a pair and not its two parts, because the prover does
not take the pattern.

Only model-checked, and why:

- liveness (`Returns`, `ReturnsIfRoom`, `StopReturns`, `EveryMessageHandled`),
  which is beyond what TLAPS does here, as is `ENABLED`;
- `AsSent` and `AllTold` of `HttpParser`: the invariant they need relates every
  state of the parser, with its counters and marks, to a place in the messages
  that were sent, and `HttpMessages` computes those bytes by folds over nested
  sequences. Not attempted;
- the properties of `MCLibrary`: `JsonText` and `JsonPatch` are `RECURSIVE`
  operators, which the prover cannot reason about. `UrlFieldsRight` is beside them
  and cannot be named in a theorem; what it says of each input, `FieldsRight`,
  is the statement of `UrlsParsedRight`.

## Plan

The components are in the order of how much depends on them, the executable
first; all that keep state over several steps have proofs. What is left to do:

1. `AsSent` and `AllTold` for messages with a body of known length: a place in the
   message for each state of the parser, as a further layer on `Ordered`.
2. `HttpClient` on top of `HttpParser` itself rather than of its reduction.
3. `cJSON_ParseWithLength` and failing allocations in `JsonText`.

## Not modelled

`main()` is straight-line: it reads a file and calls `producer()` once, and the
model of that takes any size. The conversion of the file's size
(`main.c:34`) is listed as a hazard, as is the port of `soc.c:45`: nothing says
what either should do, and a property would only restate the conversion.
`src/bak.c` and `kafak/` are not built and nothing calls them. The tests, build
files and the compose file keep no state. What is left out of a module is said
in the module's section above.
