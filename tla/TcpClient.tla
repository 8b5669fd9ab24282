------------------------------ MODULE TcpClient ------------------------------
(***************************************************************************)
(* The Modbus TCP client context of modbus_tcp_client.c: several           *)
(* application threads share one mb_tcp_client_ctx_t, whose mutex          *)
(* serializes their requests on one TCP connection.                        *)
(*                                                                         *)
(* A request is known to the code by its transaction identifier only.  The *)
(* model also numbers the requests of a connection (seq), so that the      *)
(* properties can tell which request a reply answers.  What a reply says   *)
(* is abstracted to how the code classifies it (ReplyKinds).  The server   *)
(* and the network are external: a request may be answered late, in any    *)
(* order or never, and the connection may break at any time.               *)
(*                                                                         *)
(* Beside some definitions stands a faulty form of them                    *)
(* (RequestLockSkipped, next_tid_stuck, ...) that no specification uses:   *)
(* the form a mistake in the code would have, on which the properties are  *)
(* seen to fail.                                                           *)
(***************************************************************************)
EXTENDS Integers, Sequences

CONSTANTS
  Threads,               \* application threads that use the context
  Units,                 \* unit identifiers the application configures
  MaxTid,                \* UINT16_MAX in the code: TIDs run over 1..MaxTid
  MaxCalls,              \* bound: API calls in a behaviour
  MaxBuffered,           \* bound: replies that wait to be read
  DisconnectWhileQueued  \* may disconnect be called while a request that has
                         \* already started is still waiting for the mutex?

NoThread == "no thread"

ASSUME ThreadsAssumption == NoThread \notin Threads
ASSUME TidAssumption   == MaxTid \in Nat \ {0}
ASSUME CallsAssumption == MaxCalls \in Nat /\ MaxBuffered \in Nat
ASSUME UnitsAssumption == Units # {}
ASSUME QueueAssumption == DisconnectWhileQueued \in BOOLEAN

VARIABLES
  pc,           \* where each thread is in the API call it is making
  initialized,  \* ctx->initialized
  mutex,        \* ctx->lock: not initialised, usable or destroyed
  owner,        \* the thread that holds ctx->lock
  sock,         \* ctx->sock: "open" or "closed" (-1)
  tid,          \* ctx->tid
  unit_id,      \* ctx->cfg.unit_id
  sent,         \* number of TIDs drawn on the present connection
  req,          \* the request each thread is making
  stale_seen,   \* the local of that name in transact()
  rc,           \* the local of that name in transact()
  got,          \* the reply each thread takes for its own
  result,       \* what each thread's request is about to return
  pending,      \* requests the server has and may still answer
  stream,       \* replies on their way to, or buffered at, the socket
  aligned,      \* the next unread byte of the socket begins a frame
  link,         \* the TCP connection itself: "up" or "down"
  calls         \* API calls made (for the bound)

ctx  == <<initialized, mutex, owner, sock, tid, unit_id>>
call == <<req, stale_seen, rc, got, result>>
net  == <<pending, stream, aligned, link>>
vars == <<pc, ctx, sent, call, net, calls>>

Requests == [seq : Nat, tid : 0 .. MaxTid, unit : Units]

(***************************************************************************)
(* How a received ADU is classified.  "good" and "exception" pass          *)
(* mb_pdu_check_response; "malformed" does not, or has no PDU at all;      *)
(* "badproto" is a complete frame of another protocol; "badlen" a header   *)
(* whose length field is 0 or too large; "cut" a frame of which only a     *)
(* part arrives before the socket's receive timeout.                       *)
(***************************************************************************)
ReplyKinds ==
  {"good", "exception", "malformed", "badproto", "badlen", "cut"}

Replies == [seq : Nat, tid : 0 .. MaxTid, unit : Units, kind : ReplyKinds]

Results ==
  {"none", "OK", "EXCEPTION", "ERR_ARG", "ERR_NOT_CONNECTED", "ERR_TRANSPORT",
   "ERR_TIMEOUT", "ERR_FRAME", "ERR_TID"}

Idle(t) == pc[t] = "idle"

Disconnecting == \E t \in Threads : pc[t] \in {"dlock", "dlocked", "destroy"}

NoRequest == [seq |-> 0, tid |-> 0, unit |-> CHOOSE u \in Units : TRUE]
NoReply   == [seq |-> 0, tid |-> 0, unit |-> CHOOSE u \in Units : TRUE,
              kind |-> "malformed"]

Init ==
  /\ pc = [t \in Threads |-> "idle"]
  /\ initialized = FALSE /\ mutex = "none" /\ owner = NoThread
  /\ sock = "closed" /\ tid = 0 /\ unit_id \in Units
  /\ sent = 0
  /\ req = [t \in Threads |-> NoRequest]
  /\ stale_seen = [t \in Threads |-> FALSE]
  /\ rc = [t \in Threads |-> "0"]
  /\ got = [t \in Threads |-> NoReply]
  /\ result = [t \in Threads |-> "none"]
  /\ pending = {} /\ stream = <<>> /\ aligned = TRUE /\ link = "down"
  /\ calls = 0

-----------------------------------------------------------------------------
(* The mutex.  Locking a destroyed mutex is undefined: the build may give  *)
(* it to the caller or fail and leave the caller unprotected.              *)

MutexLock(t) ==
  \/ mutex = "alive" /\ owner = NoThread /\ owner' = t
  \/ mutex # "alive" /\ owner' \in {t, owner}

MutexUnlock(t) == owner' = IF owner = t THEN NoThread ELSE owner

(* mb_tcp_close: the kernel drops what the socket has buffered, and later   *)
(* replies reach nobody.                                                   *)
CloseSocket ==
  /\ sock' = "closed" /\ link' = "down"
  /\ pending' = {} /\ stream' = <<>> /\ aligned' = TRUE

CountCall == calls < MaxCalls /\ calls' = calls + 1

-----------------------------------------------------------------------------
(* mb_tcp_client_connect.  A new connection carries no old bytes.          *)

Connect ==
  /\ \A u \in Threads : Idle(u)
  /\ CountCall
  /\ ~initialized
  /\ unit_id' \in Units
  /\ tid' = 0 /\ sent' = 0 /\ owner' = NoThread
  /\ \/ /\ initialized' = TRUE /\ mutex' = "alive"
        /\ sock' = "open" /\ link' = "up"
     \/ /\ initialized' = FALSE /\ mutex' = "destroyed"
        /\ sock' = "closed" /\ link' = "down"
  /\ UNCHANGED <<pc, call, pending, stream, aligned>>

(* mb_tcp_client_disconnect.  The caller starts no request while it runs   *)
(* (modbus_tcp_client.h); a request that started earlier may still be      *)
(* queued for the mutex only if DisconnectWhileQueued.                     *)

DisconnectBegin(t) ==
  /\ Idle(t) /\ ~Disconnecting
  /\ \A u \in Threads :
       pc[u] # "ulock" /\ (pc[u] = "lock" => DisconnectWhileQueued)
  /\ CountCall
  /\ initialized
  /\ pc' = [pc EXCEPT ![t] = "dlock"]
  /\ UNCHANGED <<ctx, sent, call, net>>

DisconnectLockSkipped(t) ==
  /\ pc[t] = "dlock"
  /\ pc' = [pc EXCEPT ![t] = "dlocked"]
  /\ UNCHANGED <<ctx, sent, call, net, calls>>

DisconnectLock(t) ==
  /\ pc[t] = "dlock"
  /\ MutexLock(t)
  /\ pc' = [pc EXCEPT ![t] = "dlocked"]
  /\ UNCHANGED <<initialized, mutex, sock, tid, unit_id, sent, call, net, calls>>

DisconnectClose(t) ==
  /\ pc[t] = "dlocked"
  /\ CloseSocket
  /\ initialized' = FALSE
  /\ MutexUnlock(t)
  /\ pc' = [pc EXCEPT ![t] = "destroy"]
  /\ UNCHANGED <<mutex, tid, unit_id, sent, call, calls>>

DisconnectDestroy(t) ==
  /\ pc[t] = "destroy"
  /\ mutex' = "destroyed"
  /\ pc' = [pc EXCEPT ![t] = "idle"]
  /\ UNCHANGED <<initialized, owner, sock, tid, unit_id, sent, call, net, calls>>

(* mb_tcp_client_set_unit_id *)

SetUnitIdBegin(t) ==
  /\ Idle(t) /\ ~Disconnecting
  /\ CountCall
  /\ initialized
  /\ pc' = [pc EXCEPT ![t] = "ulock"]
  /\ UNCHANGED <<ctx, sent, call, net>>

SetUnitId(t) ==
  /\ pc[t] = "ulock"
  /\ mutex = "alive" => owner = NoThread
  /\ unit_id' \in Units
  /\ pc' = [pc EXCEPT ![t] = "idle"]
  /\ UNCHANGED <<initialized, mutex, owner, sock, tid, sent, call, net, calls>>

-----------------------------------------------------------------------------
(* The read and write functions.  An argument the wrapper refuses never    *)
(* reaches transact(), nor does a call on a context that is not connected. *)

Return(t, code) ==
  /\ result' = [result EXCEPT ![t] = code]
  /\ pc' = [pc EXCEPT ![t] = "return"]

RequestRefused(t) ==
  /\ Idle(t)
  /\ CountCall
  /\ \/ Return(t, "ERR_ARG")
     \/ ~initialized /\ ~Disconnecting /\ Return(t, "ERR_NOT_CONNECTED")
  /\ UNCHANGED <<ctx, sent, req, stale_seen, rc, got, net>>

RequestBegin(t) ==
  /\ Idle(t) /\ ~Disconnecting
  /\ CountCall
  /\ initialized
  /\ pc' = [pc EXCEPT ![t] = "lock"]
  /\ UNCHANGED <<ctx, sent, call, net>>

RequestLockSkipped(t) ==
  /\ pc[t] = "lock"
  /\ pc' = [pc EXCEPT ![t] = "locked"]
  /\ UNCHANGED <<ctx, sent, call, net, calls>>

RequestLock(t) ==
  /\ pc[t] = "lock"
  /\ MutexLock(t)
  /\ pc' = [pc EXCEPT ![t] = "locked"]
  /\ UNCHANGED <<initialized, mutex, sock, tid, unit_id, sent, call, net, calls>>

next_tid_stuck   == IF tid = 0 THEN 1 ELSE tid
next_tid_no_wrap == tid + 1
next_tid == IF tid < MaxTid THEN tid + 1 ELSE 1

RequestNotConnected(t) ==
  /\ pc[t] = "locked"
  /\ sock = "closed"
  /\ MutexUnlock(t)
  /\ Return(t, "ERR_NOT_CONNECTED")
  /\ UNCHANGED <<initialized, mutex, sock, tid, unit_id, sent, req, stale_seen,
                 rc, got, net, calls>>

(* transact() draws a TID from the context before it sends.                *)
DrawRequest(t) ==
  /\ pc[t] = "locked"
  /\ sock = "open"
  /\ tid' = next_tid
  /\ sent' = sent + 1

(* mb_tcp_send_all fails: the connection is broken, or it is up and in     *)
(* step but the server does not read and SO_SNDTIMEO expires with the      *)
(* socket's buffer full.  Part of the request may have been sent.          *)
SendFails(t) ==
  /\ DrawRequest(t)
  /\ CloseSocket
  /\ MutexUnlock(t)
  /\ Return(t, "ERR_TRANSPORT")
  /\ UNCHANGED <<initialized, mutex, unit_id, req, stale_seen, rc, got, calls>>

(* mb_tcp_send_all succeeds: the bytes are in the socket's buffer, and     *)
(* reach the server if the connection is still up.                         *)
Send(t) ==
  /\ DrawRequest(t)
  /\ req' = [req EXCEPT ![t] = [seq |-> sent + 1, tid |-> next_tid,
                                unit |-> unit_id]]
  /\ pending' = IF link = "up" THEN pending \cup {req'[t]} ELSE pending
  /\ pc' = [pc EXCEPT ![t] = "wait"]
  /\ UNCHANGED <<initialized, mutex, owner, sock, unit_id, stale_seen, rc, got,
                 result, stream, aligned, link, calls>>

(* What recv_response makes of the frame at the head of the socket.        *)
recv_response(kind) ==
  CASE kind = "badlen"   -> "-1"
    [] kind = "cut"      -> "PARTIAL_TIMEOUT"
    [] kind = "badproto" -> "PROTOCOL_ID_ERROR"
    [] OTHER             -> "0"

(* The length test of transact() and mb_pdu_check_response.                *)
check_response(kind) ==
  CASE kind = "good"      -> "OK"
    [] kind = "exception" -> "EXCEPTION"
    [] OTHER              -> "ERR_FRAME"

(* The bytes recv_response leaves behind when it gives up inside a frame.  *)
LeavesAligned(kind) == kind \notin {"badlen", "cut"}

(* The loop of transact(): one frame is received.  A complete frame with   *)
(* another TID is discarded and the loop goes on.                          *)
Receive(t) ==
  /\ pc[t] = "wait"
  /\ stream # <<>> /\ aligned
  /\ LET frame == Head(stream)
         code  == recv_response(frame.kind)
         other == code = "0" /\ frame.tid # req[t].tid
     IN  /\ aligned' = LeavesAligned(frame.kind)
         /\ stream' = Tail(stream)
         /\ rc' = [rc EXCEPT ![t] = code]
         /\ stale_seen' = [stale_seen EXCEPT ![t] = @ \/ other]
         /\ got' = IF code = "0" /\ ~other THEN [got EXCEPT ![t] = frame] ELSE got
         /\ pc' = IF other THEN pc ELSE [pc EXCEPT ![t] = "finish"]
  /\ UNCHANGED <<ctx, sent, req, result, pending, link, calls>>

(* The deadline starts afresh with every wait.                             *)
TimeoutRestarts(t) ==
  /\ pc[t] = "wait"
  /\ UNCHANGED vars

(* The deadline has passed when the code next waits for a first byte.      *)
Timeout(t) ==
  /\ pc[t] = "wait"
  /\ rc' = [rc EXCEPT ![t] = "-2"]
  /\ pc' = [pc EXCEPT ![t] = "finish"]
  /\ UNCHANGED <<ctx, sent, req, stale_seen, got, result, net, calls>>

(* The peer closed or reset the connection: recv or poll fails.            *)
ReceiveFails(t) ==
  /\ pc[t] = "wait"
  /\ link = "down"
  /\ rc' = [rc EXCEPT ![t] = "-1"]
  /\ pc' = [pc EXCEPT ![t] = "finish"]
  /\ UNCHANGED <<ctx, sent, req, stale_seen, got, result, net, calls>>

(* The return code of transact() after the mutex is released.              *)
TransactResult(t) ==
  CASE rc[t] = "-2"                -> IF stale_seen[t] THEN "ERR_TID"
                                                       ELSE "ERR_TIMEOUT"
    [] rc[t] = "PARTIAL_TIMEOUT"   -> "ERR_TIMEOUT"
    [] rc[t] = "PROTOCOL_ID_ERROR" -> "ERR_FRAME"
    [] rc[t] = "-1"                -> "ERR_TRANSPORT"
    [] rc[t] = "0"                 -> check_response(got[t].kind)

(* The errors after which transact() closes the socket.                    *)
StreamSpoiltByError(t)   == rc[t] = "-1"
StreamSpoiltByTimeout(t) == rc[t] \in {"-1", "-2", "PARTIAL_TIMEOUT"}
StreamSpoilt(t) == rc[t] \in {"-1", "PARTIAL_TIMEOUT"}

(* The locals of transact() die with the call.                             *)
Finish(t) ==
  /\ pc[t] = "finish"
  /\ IF StreamSpoilt(t)
       THEN CloseSocket
       ELSE UNCHANGED <<sock, net>>
  /\ MutexUnlock(t)
  /\ Return(t, TransactResult(t))
  /\ stale_seen' = [stale_seen EXCEPT ![t] = FALSE]
  /\ rc' = [rc EXCEPT ![t] = "0"]
  /\ req' = [req EXCEPT ![t] = NoRequest]
  /\ got' = [got EXCEPT ![t] = NoReply]
  /\ UNCHANGED <<initialized, mutex, tid, unit_id, sent, calls>>

(* The call returns to the application.                                    *)
Returned(t) ==
  /\ pc[t] = "return"
  /\ pc' = [pc EXCEPT ![t] = "idle"]
  /\ result' = [result EXCEPT ![t] = "none"]
  /\ UNCHANGED <<ctx, sent, req, stale_seen, rc, got, net, calls>>

-----------------------------------------------------------------------------
(* The server and the network (external).  A server echoes the TID of a    *)
(* request, and may answer it over and over again; what it answers may be  *)
(* damaged, and the bytes after a damaged frame are not frames any more.   *)

ServerReplies ==
  /\ link = "up" /\ Len(stream) < MaxBuffered
  /\ \A i \in 1 .. Len(stream) : LeavesAligned(stream[i].kind)
  /\ \E m \in pending, k \in ReplyKinds :
       /\ pending' \in {pending, pending \ {m}}
       /\ stream' = Append(stream, [seq |-> m.seq, tid |-> m.tid,
                                    unit |-> m.unit, kind |-> k])
  /\ UNCHANGED <<pc, ctx, sent, call, aligned, link, calls>>

LinkDown ==
  /\ link = "up"
  /\ link' = "down"
  /\ UNCHANGED <<pc, ctx, sent, call, pending, stream, aligned, calls>>

(* Every call has returned and the bound on calls is used up.              *)
Quiet ==
  /\ calls = MaxCalls /\ \A t \in Threads : Idle(t)
  /\ UNCHANGED vars

-----------------------------------------------------------------------------
Transact(t) ==
  \/ RequestLock(t) \/ RequestNotConnected(t) \/ SendFails(t) \/ Send(t)
  \/ Receive(t) \/ Timeout(t) \/ ReceiveFails(t) \/ Finish(t) \/ Returned(t)

Disconnect(t) ==
  DisconnectLock(t) \/ DisconnectClose(t) \/ DisconnectDestroy(t)

Next ==
  \/ Connect
  \/ \E t \in Threads :
       \/ DisconnectBegin(t) \/ Disconnect(t)
       \/ SetUnitIdBegin(t) \/ SetUnitId(t)
       \/ RequestRefused(t) \/ RequestBegin(t) \/ Transact(t)
  \/ ServerReplies \/ LinkDown
  \/ Quiet

Spec == Init /\ [][Next]_vars

(* A thread inside a call keeps running: it is scheduled, and it gets the  *)
(* mutex when nobody else holds it for ever.  Its deadline arrives, however*)
(* many frames it receives meanwhile: it is fixed when the request has     *)
(* been sent, and looked at before every frame.                            *)
Fairness ==
  \A t \in Threads :
    /\ WF_vars(Transact(t) \/ Disconnect(t) \/ SetUnitId(t))
    /\ WF_vars(Timeout(t))

FairSpec == Spec /\ Fairness

-----------------------------------------------------------------------------
TypeOK ==
  /\ pc \in [Threads -> {"idle", "lock", "locked", "wait", "finish", "return",
                         "dlock", "dlocked", "destroy", "ulock"}]
  /\ initialized \in BOOLEAN
  /\ mutex \in {"none", "alive", "destroyed"}
  /\ owner \in Threads \cup {NoThread}
  /\ sock \in {"open", "closed"}
  /\ tid \in 0 .. MaxTid
  /\ unit_id \in Units
  /\ sent \in Nat
  /\ req \in [Threads -> Requests]
  /\ stale_seen \in [Threads -> BOOLEAN]
  /\ rc \in [Threads -> {"0", "-1", "-2", "PARTIAL_TIMEOUT", "PROTOCOL_ID_ERROR"}]
  /\ got \in [Threads -> Replies]
  /\ result \in [Threads -> Results]
  /\ pending \subseteq Requests
  /\ stream \in Seq(Replies)
  /\ aligned \in BOOLEAN
  /\ link \in {"up", "down"}
  /\ calls \in 0 .. MaxCalls

(* A request that succeeds, or reports an exception, was answered by the   *)
(* reply to that very request and for the unit it was addressed to, however*)
(* many earlier requests timed out and are answered late; a reply can be   *)
(* mistaken only if it is late by a whole cycle of MaxTid requests         *)
(* (transact's TID comparison and next_tid's wrap to 1).                   *)
OwnReply ==
  \A t \in Threads :
    pc[t] = "finish" /\ TransactResult(t) \in {"OK", "EXCEPTION"} =>
      \/ got[t].seq = req[t].seq /\ got[t].unit = req[t].unit
      \/ req[t].seq - got[t].seq >= MaxTid

(* No request is sent on, or waits for its reply from, a byte stream that  *)
(* is out of step with frame boundaries: transact closes the socket on     *)
(* each of the errors that leave a frame half read, and on no other does   *)
(* it need to.                                                             *)
TrustedStream ==
  sock = "open" /\ owner = NoThread => aligned

(* The header's promise that only one request is in flight: two threads    *)
(* are never both past the mutex, in transact or in disconnect.            *)
InFlight(t) == pc[t] \in {"locked", "wait", "finish", "dlocked"}

OneInFlight ==
  \A t, u \in Threads : InFlight(t) /\ InFlight(u) => t = u

(* No thread locks, or holds, a mutex that disconnect has destroyed        *)
(* (modbus_tcp_client.h: disconnect waits for an in-flight request).       *)
NoDestroyedMutex ==
  mutex # "alive" =>
    \A t \in Threads : ~InFlight(t) /\ pc[t] \notin {"lock", "ulock", "dlock"}

(* The connection is given up only for a reason: it is down, it is out of  *)
(* step, the application disconnects, or a request could not be sent and   *)
(* reports that.  In particular a request that was sent and merely times   *)
(* out, or finds a late reply, keeps it.                                   *)
ClosedForCause ==
  [][sock = "open" /\ sock' = "closed" =>
       \/ link = "down" \/ ~aligned \/ Disconnecting
       \/ \E t \in Threads : pc[t] = "locked" /\ result'[t] = "ERR_TRANSPORT"]_vars

(* What a thread is to the abstract service.                               *)
Place(t) ==
  CASE pc[t] \in {"lock", "dlock"}                -> "queue"
    [] InFlight(t)                                -> "connection"
    [] pc[t] \in {"return", "destroy", "ulock"}   -> "over"
    [] OTHER                                      -> "out"

Service == INSTANCE SerialService
             WITH Callers <- Threads, Channels <- {"connection"},
                  place <- [t \in Threads |-> Place(t)]

(* The client implements the abstract service, with the connection as its  *)
(* only channel: callers are served one at a time, a disconnect among      *)
(* them, in steps the service allows, and every call comes back, whatever  *)
(* the server does (transact, mb_tcp_client_disconnect).                   *)
ImplementsService == Service!Spec

-----------------------------------------------------------------------------
(* The inductive invariant behind the safety properties, for callers that  *)
(* disconnect only when no request is queued.                              *)

(* Who holds the mutex, and what a disconnect in progress excludes.        *)
MutexInv ==
  /\ initialized => mutex = "alive"
  /\ ~initialized => sock = "closed"
  /\ \A t \in Threads :
       /\ InFlight(t) => owner = t
       /\ pc[t] \notin {"idle", "return", "destroy"} => initialized
       /\ pc[t] \in {"dlock", "dlocked"} => \A u \in Threads \ {t} :
            pc[u] \in {"idle", "locked", "wait", "finish", "return"}
       /\ pc[t] = "destroy" =>
            /\ ~initialized /\ mutex = "alive"
            /\ \A u \in Threads \ {t} : pc[u] \in {"idle", "return"}

(* A closed socket holds nothing; a frame left half read is about to be    *)
(* answered by closing the socket, and a socket about to be closed is bad. *)
StreamInv ==
  /\ sock = "closed" => pending = {} /\ stream = <<>> /\ link = "down"
  /\ ~aligned => \E t \in Threads :
       pc[t] = "finish" /\ StreamSpoilt(t)
  /\ \A t \in Threads :
       pc[t] = "finish" /\ StreamSpoilt(t) =>
         link = "down" \/ ~aligned

(* A request or reply that is less than a TID cycle old has the TID that   *)
(* counting back from the context's TID, with the wrap, gives; and only    *)
(* the newest request has the newest number.                               *)
OnCycle(m) ==
  /\ m.seq \in 1 .. sent /\ m.tid \in 1 .. MaxTid
  /\ sent - m.seq < MaxTid =>
       m.tid \in {tid - (sent - m.seq), tid - (sent - m.seq) + MaxTid}

Agrees(m) ==
  \A t \in Threads : pc[t] \in {"wait", "finish"} /\ m.seq = req[t].seq =>
    m.unit = req[t].unit

TidInv ==
  /\ \A m \in pending : OnCycle(m) /\ Agrees(m)
  /\ \A i \in 1 .. Len(stream) : OnCycle(stream[i]) /\ Agrees(stream[i])
  /\ \A t \in Threads :
       /\ pc[t] \in {"wait", "finish"} =>
            req[t].seq = sent /\ req[t].tid = tid /\ sent > 0 /\ tid > 0
       /\ pc[t] = "finish" /\ rc[t] = "0" =>
            got[t].tid = tid /\ OnCycle(got[t]) /\ Agrees(got[t])

IInv == TypeOK /\ MutexInv /\ StreamInv /\ TidInv
=============================================================================
