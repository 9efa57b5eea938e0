--------------------------- MODULE AlarmForwarder ---------------------------
(***************************************************************************)
(* http_send() of http.c with socket_create() and socket_destroy() of      *)
(* soc.c: one thread splits a message into fields, builds an HTTP request  *)
(* from them and writes it to a connection of its own, call after call.    *)
(* The caller may call again with the same buffer, which strtok has cut.   *)
(*                                                                         *)
(* strtok's separators are the single characters CR and LF.  A message is  *)
(* the sequence of the pieces between them, the empty ones included: where *)
(* a piece is, its length, what atoi makes of it and the separator behind  *)
(* it.  Lengths are the real ones, so that framing and buffer sizes are    *)
(* the code's.  The sender of main.c:10 puts CRLF between two fields, that *)
(* is an empty piece; its fields are what the properties speak of.         *)
(***************************************************************************)
EXTENDS Integers, Sequences, FiniteSetsExt

CONSTANTS Messages,   \* what http_send is called with
          MaxFds      \* descriptors the process may have open

HEADER_BUF_SIZE == 33554944
OldBodySize == 1024 * 2048 * 3   \* fault: the size in main.c's comment
BODY_BUF_SIZE == 33554432
BODY_TEMPLATE == 354      \* bytes of the sprintf format besides its six %s
HEADER_TEMPLATE == 208    \* bytes of the strcat literals before the body
TRAILER == 4              \* the CRLF CRLF appended after the body
PORT == 8                 \* cameraName .. alarmBase, des_ip, temp_port

\* at counts from the start of the message; sep of the last piece says nothing.
Piece == [at : Nat, len : Nat, number : Int, sep : {"CR", "LF"}]

\* Pieces come one behind the other, a separator between them.
Apart(m) == \A i, j \in DOMAIN m : i < j => m[i].at + m[i].len < m[j].at

ASSUME MessagesAssumption == \A m \in Messages : m \in Seq(Piece) /\ Apart(m)
ASSUME FdsAssumption == MaxFds \in Nat

VARIABLES
  pc,       \* idle, or the system call http_send is about to make
  message,  \* what the caller put into its buffer
  buffer,   \* what the buffer, read up to its NUL, holds now
  request,  \* the pieces in g_header_buf, in the order they were parsed
  fds,      \* open descriptors
  sent,     \* bytes of the request that reached the peer
  ret,      \* what the last call returned
  failed,   \* history: calls whose write failed
  requests  \* history: requests written from this buffer, whole or not

caller == <<message, buffer>>
vars == <<pc, caller, request, fds, sent, ret, failed, requests>>

Init ==
  /\ pc = "idle" /\ message = << >> /\ buffer = << >> /\ request = << >>
  /\ fds = 0 /\ sent = 0 /\ ret = 0 /\ failed = 0 /\ requests = 0

Return(value) == pc' = "idle" /\ ret' = value

-----------------------------------------------------------------------------
\* One strtok(., "\r\n"): the first piece behind `after` that is not empty, or
\* the end of the message when there is none (strtok's NULL).
Strtok(m, after) ==
  Min({i \in after + 1 .. Len(m) : m[i].len > 0} \cup {Len(m) + 1})

\* The eight calls.  (Past the end the code has returned; here it stays there.)
Places(m) ==
  LET p1 == Strtok(m, 0)   p2 == Strtok(m, p1)  p3 == Strtok(m, p2)
      p4 == Strtok(m, p3)  p5 == Strtok(m, p4)  p6 == Strtok(m, p5)
      p7 == Strtok(m, p6)  p8 == Strtok(m, p7)
  IN  <<p1, p2, p3, p4, p5, p6, p7, p8>>

\* strtok writes a NUL behind every token: the caller's buffer, const or
\* not, ends at the first one from now on.
OnCopy(m) == m                       \* fault: strtok works on a copy
Cut(m) == IF Strtok(m, 0) <= Len(m) THEN SubSeq(m, 1, Strtok(m, 0)) ELSE m

Forwardable(m) ==
  LET port == Places(m)[PORT]
  IN  port <= Len(m) /\ m[port].number # 0

\* The arguments of sprintf in the order of the format, des_ip, temp_port.
Swapped(m) ==                        \* fault: alarmBase before alarmExtension
  [k \in 1 .. PORT |-> m[Places(m)[IF k = 5 THEN 6 ELSE IF k = 6 THEN 5 ELSE k]]]
Arguments(m) == [k \in 1 .. PORT |-> m[Places(m)[k]]]

BodyLen(r) ==
  BODY_TEMPLATE + r[1].len + r[2].len + r[3].len + r[4].len + r[5].len + r[6].len
ContentLength(r) == BodyLen(r)
Digits(n) == Cardinality({k \in 0 .. 9 : 10^k <= n})
HeaderLen(r) == HEADER_TEMPLATE + r[7].len + Digits(ContentLength(r))
RequestLen(r) == HeaderLen(r) + BodyLen(r) + TRAILER

-----------------------------------------------------------------------------
\* The caller fills its buffer, or passes it as the last call left it.
Fill(m) == message' = m /\ requests' = 0
PassAgain == UNCHANGED <<message, requests>>

(* msg is NULL or msg_len is 0.                                            *)
SendNothing ==
  /\ pc = "idle" /\ message' = << >> /\ buffer' = << >> /\ requests' = 0
  /\ Return(0) /\ sent' = 0
  /\ UNCHANGED <<request, fds, failed>>

(* One of the eight strtok calls finds no token, or the port is 0.         *)
Reject(m) ==
  /\ pc = "idle" /\ m # << >> /\ ~Forwardable(m)
  /\ buffer' = Cut(m) /\ Return(-1) /\ sent' = 0
  /\ UNCHANGED <<request, fds, failed>>

(* The message is parsed, and body and header are built in the globals.    *)
Build(m) ==
  /\ pc = "idle" /\ Forwardable(m)
  /\ buffer' = Cut(m)
  /\ request' = Arguments(m) /\ sent' = 0
  /\ pc' = "socket"
  /\ UNCHANGED <<fds, ret, failed>>

Socket ==
  /\ pc = "socket" /\ fds < MaxFds
  /\ fds' = fds + 1 /\ pc' = "connect"
  /\ UNCHANGED <<caller, request, sent, ret, failed, requests>>

(* socket() fails, for want of a descriptor if for nothing else.           *)
SocketFails ==
  /\ pc = "socket" /\ Return(-1)
  /\ UNCHANGED <<caller, request, fds, sent, failed, requests>>

(* A failed SO_BINDTODEVICE is only printed; the connection is made anyway.*)
Connect ==
  /\ pc = "connect" /\ pc' = "write"
  /\ UNCHANGED <<caller, request, fds, sent, ret, failed, requests>>

KeepSocket == fds                    \* fault: connect fails, no close(sock)
CloseTwice == fds - 2                \* fault: and the caller closes it too
CloseSocket == fds - 1
ConnectFails ==
  /\ pc = "connect" /\ Return(-1)
  /\ fds' = CloseSocket
  /\ UNCHANGED <<caller, request, sent, failed, requests>>

\* Where a write may stop: nothing, in the header, in the body, behind it.
Cuts(r) == {0, HeaderLen(r) - 1, HeaderLen(r) + BodyLen(r) - 1,
            HeaderLen(r) + BodyLen(r), RequestLen(r) - 1}

\* Fault: a short count is taken for success.
WriteIgnored ==
  /\ pc = "write" /\ pc' = "read"
  /\ sent' \in Cuts(request)
  /\ requests' = requests + 1
  /\ UNCHANGED <<caller, request, fds, ret, failed>>

(* write() takes the whole request.                                        *)
Write ==
  /\ pc = "write" /\ pc' = "read"
  /\ sent' = RequestLen(request)
  /\ requests' = requests + 1
  /\ UNCHANGED <<caller, request, fds, ret, failed>>

(* write() fails or takes a part: http_send returns with the socket open.  *)
WriteShort ==
  /\ pc = "write" /\ Return(-1)
  /\ sent' \in Cuts(request)
  /\ failed' = failed + 1 /\ requests' = requests + 1
  /\ UNCHANGED <<caller, request, fds>>

(* The peer has reset the connection: nobody handles SIGPIPE, the process   *)
(* ends, and the next one starts with nothing.                              *)
BrokenPipe ==
  /\ pc = "write" /\ pc' = "idle" /\ message' = << >> /\ buffer' = << >>
  /\ request' = << >> /\ fds' = 0 /\ sent' = 0 /\ ret' = 0
  /\ failed' = 0 /\ requests' = 0

(* One read(), whatever it returns; then socket_destroy.                   *)
Read ==
  /\ pc = "read" /\ Return(0)
  /\ fds' = fds - 1
  /\ UNCHANGED <<caller, request, sent, failed, requests>>

Call == \/ SendNothing
        \/ \E m \in Messages : Fill(m) /\ (Reject(m) \/ Build(m))
        \/ PassAgain /\ (Reject(buffer) \/ Build(buffer))
Step == \/ Socket \/ SocketFails \/ Connect \/ ConnectFails
        \/ Write \/ WriteShort \/ BrokenPipe \/ Read
Next == Call \/ Step

(* No fairness: nothing bounds the time connect, write and read may take.  *)
Spec == Init /\ [][Next]_vars

-----------------------------------------------------------------------------
(* Types, and no descriptor is closed that is not open. *)
TypeOK ==
  /\ pc \in {"idle", "socket", "connect", "write", "read"}
  /\ message \in Seq(Piece) /\ buffer \in Seq(Piece)
  /\ request = << >> \/ request \in [1 .. PORT -> Piece]
  /\ fds \in 0 .. MaxFds /\ sent \in Nat /\ ret \in {0, -1}
  /\ failed \in Nat /\ requests \in Nat

(* Every descriptor open outside a call was left by a write that failed,   *)
(* and each such write left one: nothing else leaks, nothing is closed     *)
(* twice.                                                                  *)
DescriptorsAccounted ==
  fds = failed + (IF pc \in {"connect", "write", "read"} THEN 1 ELSE 0)

(* The peer has a complete request when it has as many bytes of the body   *)
(* as Content-Length announces.                                            *)
PeerComplete == sent > 0 /\ sent >= HeaderLen(request) + ContentLength(request)

(* A caller that gets 0 for a message has handed the peer the complete     *)
(* request and the four bytes behind it.                                   *)
ZeroMeansSent ==
  pc = "idle" /\ ret = 0 /\ message # << >> =>
    PeerComplete /\ sent = HeaderLen(request) + ContentLength(request) + TRAILER

\* The sender's field that piece i belongs to: one more than there are CRLFs
\* before it.  A CR or LF alone is part of a field.
Place(m, i) ==
  1 + Cardinality({j \in 2 .. i - 1 : m[j - 1].sep = "CR" /\ m[j].len = 0 /\ m[j].sep = "LF"})
\* What strtok finds in field f: nothing, the field, or the parts of one that
\* has a CR or LF in it.
Filled(m, f) == {i \in DOMAIN m : Place(m, i) = f /\ m[i].len > 0}

(* No field is sent under another's name: what the request has for the     *)
(* k-th name is the message's k-th field, unless one of the first eight    *)
(* has a CR or LF in it, or one of them is empty and the message longer.   *)
(* (A message of eight fields shifts by a CR or LF in a field alone.)      *)
FieldsInPlace ==
  pc # "idle" =>
    \/ \A k \in 1 .. PORT : \E i \in Filled(message, k) : request[k] = message[i]
    \/ \E k \in 1 .. PORT : Cardinality(Filled(message, k)) > 1
    \/ /\ \E k \in 1 .. PORT : Filled(message, k) = {}
       /\ \E f \in PORT + 1 .. Len(message) : Filled(message, f) # {}

(* A peer sees one request, whole or broken off, from a buffer at most,    *)
(* however often the caller calls again after -1: the first call has cut   *)
(* the buffer, and a retry needs a fresh copy of the message.              *)
AtMostOneRequest == requests <= 1

\* strlen(msg) of a message as the caller passes it.
MessageLen(m) == m[Len(m)].at + m[Len(m)].len

(* Up to LargestMessage bytes a message fits the static buffers, body and  *)
(* request each with its NUL, whatever separates its fields; one byte more *)
(* is too much for the body when single characters do.  (producer() admits *)
(* up to 33554399 bytes, 313 more; nothing in http_send compares a length  *)
(* with a size.)                                                           *)
LargestMessage == 33554086
BuffersHold ==
  pc # "idle" /\ MessageLen(message) <= LargestMessage =>
    BodyLen(request) < BODY_BUF_SIZE /\ RequestLen(request) < HEADER_BUF_SIZE
=============================================================================
