----------------------------- MODULE TcpConnect ------------------------------
(***************************************************************************)
(* modbus_tcp.c in connect mode: the client thread that keeps an outbound  *)
(* link, the application thread that starts and stops it, and the frame    *)
(* builders, which both threads may call and which draw their transaction  *)
(* ids from the shared context.                                            *)
(*                                                                         *)
(* Descriptors are numbers that the kernel gives out again, lowest first,  *)
(* as soon as they are closed; other parts of the program open and close   *)
(* descriptors too.  They, the kernel and the remote end are external.     *)
(*                                                                         *)
(* Beside some definitions stands a faulty form of them, used by no        *)
(* specification, on which the properties are seen to fail.                *)
(***************************************************************************)
EXTENDS ModbusFrames

CONSTANTS
  Fds,        \* the descriptor numbers that are free at first
  MaxTid,     \* UINT16_MAX
  Requests,   \* arguments of the builders
  MaxStarts   \* bound: times the application starts the link

NoFd == -1

ASSUME FdsAssumption    == Fds \subseteq Nat
ASSUME TidAssumption    == MaxTid \in U16 \ {0}
ASSUME StartsAssumption == MaxStarts \in Nat

(* The arguments of the three builders, by their C types.                  *)
BasisArgs ==
  [op : {"basis"}, unit : U8, fc : Int, addr : Int, nb : U16, cap : Nat]
Fc06Args == [op : {"fc06"}, unit : U8, addr : U16, value : U16, cap : Nat]
Fc16Args == [op : {"fc16"}, unit : U8, addr : U16, values : Seq(U16), cap : Nat]

ASSUME RequestsAssumption == Requests \subseteq BasisArgs \cup Fc06Args \cup Fc16Args

VARIABLES
  initialized,   \* ctx->initialized
  keep_running,  \* ctx->keep_running
  stream_sock,   \* ctx->stream_sock
  tid,           \* ctx->tid
  lock,          \* ctx->lock: "none" before init, "free", or its holder
  thread,        \* where the client thread is
  sock,          \* its local: the socket
  connected,     \* its local
  stop,          \* where the application thread is in mb_tcp_stop
  target,        \* the descriptor that mb_tcp_stop read from stream_sock
  starts,        \* times the link was started (for the bound)
  fd,            \* what each descriptor number stands for
  online,        \* descriptors reported up, and not down, by on_link
  build,         \* where each thread is in a builder
  req,           \* the builder's arguments
  seen,          \* ctx->tid as the builder loaded it
  frame,         \* the builder's output
  recent         \* the last MaxTid transaction ids drawn (history)

app     == <<initialized, keep_running, stop, target, starts>>
link    == <<stream_sock, thread, sock, connected, online>>
builder == <<lock, tid, build, req, seen, frame, recent>>
vars    == <<app, link, builder, fd>>

Builders == {"link", "app"}
NoRequest == [op |-> "none"]

Init ==
  /\ initialized = FALSE /\ keep_running = FALSE /\ stream_sock = NoFd
  /\ tid = 0 /\ lock = "none"
  /\ thread = "none" /\ sock = NoFd /\ connected = FALSE
  /\ stop = "idle" /\ target = NoFd /\ starts = 0
  /\ fd = [n \in Fds |-> "free"] /\ online = {}
  /\ build = [b \in Builders |-> "idle"]
  /\ req = [b \in Builders |-> NoRequest]
  /\ seen = [b \in Builders |-> 0] /\ frame = [b \in Builders |-> Refused]
  /\ recent = <<>>

-----------------------------------------------------------------------------
(* Descriptors, and the rest of the program that uses them (external).     *)

Strange == {"other", "othershut"}

LowestFree(n) ==
  fd[n] = "free" /\ \A k \in Fds : fd[k] = "free" => n <= k

Closed(n) == IF n \in Fds THEN [fd EXCEPT ![n] = "free"] ELSE fd

OtherOpens ==
  /\ \E n \in Fds : LowestFree(n) /\ fd' = [fd EXCEPT ![n] = "other"]
  /\ UNCHANGED <<app, link, builder>>

OtherCloses(n) ==
  /\ fd[n] \in Strange
  /\ fd' = Closed(n)
  /\ UNCHANGED <<app, link, builder>>

-----------------------------------------------------------------------------
(* The client thread.                                                      *)

Goto(place) == thread' = place

LoopExitsIdle ==
  /\ thread = "top" /\ ~keep_running /\ ~connected
  /\ online' = online \ {sock}
  /\ Goto("exit")
  /\ UNCHANGED <<app, builder, stream_sock, sock, connected, fd>>

(* The flag is down: the link is reported down, but left to mb_tcp_stop.   *)
LoopExits ==
  /\ thread = "top" /\ ~keep_running
  /\ online' = online \ {sock}
  /\ Goto("exit")
  /\ UNCHANGED <<app, builder, stream_sock, sock, connected, fd>>

LoopEnters ==
  /\ thread = "top" /\ keep_running
  /\ Goto(IF connected THEN "process" ELSE "connect")
  /\ UNCHANGED <<app, builder, stream_sock, sock, connected, online, fd>>

(* mb_tcp_connect: socket() gives a number, and an attempt follows ...     *)
SocketOpens ==
  /\ thread = "connect"
  /\ \E n \in Fds :
       LowestFree(n) /\ sock' = n /\ fd' = [fd EXCEPT ![n] = "link"]
  /\ Goto("connecting")
  /\ UNCHANGED <<app, builder, stream_sock, connected, online>>

(* ... or not.                                                             *)
SocketFails ==
  /\ thread = "connect"
  /\ sock' = NoFd
  /\ Goto("retry")
  /\ UNCHANGED <<app, builder, stream_sock, connected, online, fd>>

(* A socket option, the address or the connection is refused, or nobody    *)
(* answers within the timeout.                                             *)
ConnectFails ==
  /\ thread = "connecting"
  /\ fd' = Closed(sock) /\ sock' = NoFd
  /\ Goto("retry")
  /\ UNCHANGED <<app, builder, stream_sock, connected, online>>

ConnectSucceeds ==
  /\ thread = "connecting"
  /\ Goto("publish")
  /\ UNCHANGED <<app, builder, stream_sock, sock, connected, online, fd>>

(* Only now does mb_tcp_stop see the socket.                               *)
LinkUp ==
  /\ thread = "publish"
  /\ stream_sock' = sock /\ connected' = TRUE /\ online' = online \cup {sock}
  /\ Goto("process")
  /\ UNCHANGED <<app, builder, sock, fd>>

(* The wait before the next attempt ends, early when the flag goes down.   *)
RetryEnds ==
  /\ thread = "retry"
  /\ Goto("top")
  /\ UNCHANGED <<app, builder, stream_sock, sock, connected, online, fd>>

(* In on_process, which builds and sends one request at most.              *)
InProcess == thread \in {"process", "processed"}

(* on_process has returned 0.                                              *)
ProcessContinues ==
  /\ InProcess /\ build["link"] = "idle"
  /\ Goto("top")
  /\ UNCHANGED <<app, builder, stream_sock, sock, connected, online, fd>>

(* on_process has failed: the link is reported down while the descriptor   *)
(* is still the link's ...                                                 *)
ProcessFails ==
  /\ InProcess /\ build["link"] = "idle"
  /\ online' = online \ {sock}
  /\ Goto("close")
  /\ UNCHANGED <<app, builder, stream_sock, sock, connected, fd>>

(* ... then it is closed ...                                               *)
LinkCloses ==
  /\ thread = "close"
  /\ fd' = Closed(sock)
  /\ Goto("clear")
  /\ UNCHANGED <<app, builder, stream_sock, sock, connected, online>>

LinkClearsSockOnly ==
  /\ thread = "clear"
  /\ sock' = NoFd /\ connected' = FALSE
  /\ Goto("top")
  /\ UNCHANGED <<app, builder, stream_sock, online, fd>>

LinkClearsNotConnected ==
  /\ thread = "clear"
  /\ sock' = NoFd /\ stream_sock' = NoFd
  /\ Goto("top")
  /\ UNCHANGED <<app, builder, connected, online, fd>>

(* ... and only then forgotten.  In between, mb_tcp_stop may read a number *)
(* that belongs to somebody else.                                          *)
LinkClears ==
  /\ thread = "clear"
  /\ sock' = NoFd /\ stream_sock' = NoFd /\ connected' = FALSE
  /\ Goto("top")
  /\ UNCHANGED <<app, builder, online, fd>>

-----------------------------------------------------------------------------
(* The builders, called by the client thread in on_process and by the      *)
(* application thread between start and stop.                              *)

MayBuild(b) ==
  /\ build[b] = "idle"
  /\ b = "link" => thread = "process"
  /\ b = "app" => initialized /\ stop = "idle"

Built(r, id) ==
  CASE r.op = "basis" -> tcp_build_request_basis(id, r.unit, r.fc, r.addr, r.nb, r.cap)
    [] r.op = "fc06"  -> tcp_build_fc06_request(id, r.unit, r.addr, r.value, r.cap)
    [] r.op = "fc16"  -> tcp_build_fc16_request(id, r.unit, r.addr, r.values, r.cap)

(* Arguments that are refused draw no transaction id.                      *)
BuildRefuses(b, r) ==
  /\ MayBuild(b) /\ Built(r, 0) = Refused
  /\ build' = [build EXCEPT ![b] = "built"] /\ req' = [req EXCEPT ![b] = r]
  /\ frame' = [frame EXCEPT ![b] = Refused]
  /\ UNCHANGED <<app, link, fd, lock, tid, seen, recent>>

BuildBegins(b, r) ==
  /\ MayBuild(b) /\ Built(r, 0) # Refused
  /\ build' = [build EXCEPT ![b] = "lock"] /\ req' = [req EXCEPT ![b] = r]
  /\ UNCHANGED <<app, link, fd, lock, tid, seen, frame, recent>>

BuildLocksNothing(b) ==
  /\ build[b] = "lock"
  /\ build' = [build EXCEPT ![b] = "draw"]
  /\ seen' = [seen EXCEPT ![b] = tid]
  /\ UNCHANGED <<app, link, fd, lock, tid, req, frame, recent>>

(* The lock is taken and ctx->tid is loaded ...                            *)
BuildLocks(b) ==
  /\ build[b] = "lock" /\ lock = "free"
  /\ lock' = b /\ build' = [build EXCEPT ![b] = "draw"]
  /\ seen' = [seen EXCEPT ![b] = tid]
  /\ UNCHANGED <<app, link, fd, tid, req, frame, recent>>

Drawn(b) == IF seen[b] < MaxTid THEN seen[b] + 1 ELSE 1

Last(s, n) == SubSeq(s, IF Len(s) > n THEN Len(s) - n + 1 ELSE 1, Len(s))

(* ... stored and released; the frame is filled in.                        *)
BuildDraws(b) ==
  /\ build[b] = "draw"
  /\ tid' = Drawn(b) /\ lock' = "free"
  /\ frame' = [frame EXCEPT ![b] = Built(req[b], Drawn(b))]
  /\ recent' = Last(Append(recent, Drawn(b)), MaxTid)
  /\ build' = [build EXCEPT ![b] = "built"] /\ seen' = [seen EXCEPT ![b] = 0]
  /\ UNCHANGED <<app, link, fd, req>>

(* The caller has sent the frame.                                          *)
BuildUsed(b) ==
  /\ build[b] = "built"
  /\ build' = [build EXCEPT ![b] = "idle"] /\ req' = [req EXCEPT ![b] = NoRequest]
  /\ frame' = [frame EXCEPT ![b] = Refused]
  /\ thread' = IF b = "link" THEN "processed" ELSE thread
  /\ UNCHANGED <<app, stream_sock, sock, connected, online, fd, lock, tid, seen,
                 recent>>

BuildGoesOn(b) == BuildLocks(b) \/ BuildDraws(b) \/ BuildUsed(b)

-----------------------------------------------------------------------------
(* The application: mb_tcp_start and mb_tcp_stop.                          *)

Start ==
  /\ ~initialized /\ starts < MaxStarts
  /\ initialized' = TRUE /\ keep_running' = TRUE /\ starts' = starts + 1
  /\ stream_sock' = NoFd /\ tid' = 0 /\ lock' = "free" /\ recent' = <<>>
  /\ thread' = "top" /\ sock' = NoFd /\ connected' = FALSE
  /\ UNCHANGED <<stop, target, fd, online, build, req, seen, frame>>

(* pthread_create() fails and the lock is destroyed again.                 *)
StartFails ==
  /\ ~initialized /\ starts < MaxStarts
  /\ keep_running' = TRUE /\ tid' = 0
  /\ UNCHANGED <<initialized, stop, target, starts, link, fd, lock, build, req,
                 seen, frame, recent>>

StopFlag ==
  /\ initialized /\ stop = "idle" /\ build["app"] = "idle"
  /\ keep_running' = FALSE /\ stop' = "read"
  /\ UNCHANGED <<initialized, target, starts, link, builder, fd>>

StopReads ==
  /\ stop = "read"
  /\ target' = stream_sock /\ stop' = "shut"
  /\ UNCHANGED <<initialized, keep_running, starts, link, builder, fd>>

(* shutdown() goes to whatever the number stands for by now.               *)
StopShuts ==
  /\ stop = "shut"
  /\ fd' = [n \in Fds |->
              IF n # target THEN fd[n]
              ELSE CASE fd[n] = "link"  -> "linkshut"
                     [] fd[n] = "other" -> "othershut"
                     [] OTHER           -> fd[n]]
  /\ stop' = "join"
  /\ UNCHANGED <<initialized, keep_running, target, starts, link, builder>>

StopDestroysFirst ==
  /\ stop = "join"
  /\ IF thread = "exit"
       THEN /\ fd' = Closed(stream_sock) /\ stream_sock' = NoFd
            /\ thread' = "none" /\ stop' = "idle" /\ target' = NoFd
            /\ initialized' = FALSE /\ UNCHANGED lock
       ELSE lock' = "none"
            /\ UNCHANGED <<fd, stream_sock, thread, stop, target, initialized>>
  /\ UNCHANGED <<keep_running, starts, sock, connected, online, tid, build, req,
                 seen, frame, recent>>

StopJoinTarget ==
  /\ stop = "join" /\ thread = "exit"
  /\ fd' = Closed(target) /\ stream_sock' = NoFd
  /\ thread' = "none" /\ lock' = "none"
  /\ initialized' = FALSE /\ stop' = "idle" /\ target' = NoFd
  /\ UNCHANGED <<keep_running, starts, sock, connected, online, tid, build, req,
                 seen, frame, recent>>

(* After the join stream_sock is read again: it may be another socket.     *)
StopJoin ==
  /\ stop = "join" /\ thread = "exit"
  /\ fd' = Closed(stream_sock) /\ stream_sock' = NoFd
  /\ thread' = "none" /\ lock' = "none"
  /\ initialized' = FALSE /\ stop' = "idle" /\ target' = NoFd
  /\ UNCHANGED <<keep_running, starts, sock, connected, online, tid, build, req,
                 seen, frame, recent>>

-----------------------------------------------------------------------------
ClientThread ==
  \/ LoopExits \/ LoopEnters \/ SocketOpens \/ SocketFails
  \/ ConnectFails \/ ConnectSucceeds \/ LinkUp \/ RetryEnds
  \/ ProcessContinues \/ ProcessFails \/ LinkCloses \/ LinkClears

Stop == StopReads \/ StopShuts \/ StopJoin

Next ==
  \/ ClientThread \/ Start \/ StartFails \/ StopFlag \/ Stop
  \/ OtherOpens \/ \E n \in Fds : OtherCloses(n)
  \/ \E b \in Builders :
       \/ BuildGoesOn(b)
       \/ \E r \in Requests : BuildRefuses(b, r) \/ BuildBegins(b, r)

Spec == Init /\ [][Next]_vars

(* The threads keep running: the socket's send and receive timeouts bound  *)
(* what on_process waits for, and it makes one attempt at the lock at a    *)
(* time.  If the thread tries again and again, socket() succeeds some time *)
(* (while a number is free) and the remote end accepts some time.          *)
Fairness ==
  /\ WF_vars(ClientThread) /\ WF_vars(Stop)
  /\ \A b \in Builders : WF_vars(BuildGoesOn(b))
  /\ SF_vars(SocketOpens) /\ SF_vars(ConnectSucceeds)

FairSpec == Spec /\ Fairness

-----------------------------------------------------------------------------
TypeOK ==
  /\ initialized \in BOOLEAN /\ keep_running \in BOOLEAN /\ connected \in BOOLEAN
  /\ stream_sock \in Fds \cup {NoFd} /\ sock \in Fds \cup {NoFd}
  /\ target \in Fds \cup {NoFd}
  /\ tid \in 0 .. MaxTid /\ lock \in {"none", "free"} \cup Builders
  /\ thread \in {"none", "top", "connect", "connecting", "publish", "retry",
                 "process", "processed", "close", "clear", "exit"}
  /\ stop \in {"idle", "read", "shut", "join"} /\ starts \in 0 .. MaxStarts
  /\ fd \in [Fds -> {"free", "link", "linkshut"} \cup Strange]
  /\ online \subseteq Fds
  /\ build \in [Builders -> {"idle", "lock", "draw", "built"}]
  /\ req \in [Builders -> Requests \cup {NoRequest}]
  /\ seen \in [Builders -> 0 .. MaxTid]
  /\ frame \in [Builders -> Seq(U8)]
  /\ recent \in Seq(1 .. MaxTid)

(* No step of the library closes a descriptor of another part of the       *)
(* program, although it closes the number before it forgets it.            *)
ClosesOwnOnly ==
  [][\A n \in Fds : fd[n] \in Strange /\ fd'[n] \notin Strange =>
       UNCHANGED <<thread, stop>>]_vars

(* The socket of a link is the thread's own and no other: every link       *)
(* reported up is reported down, once, while its number is still the       *)
(* link's; none leaks, and after mb_tcp_stop none is open or reported up,  *)
(* also when the thread connected after mb_tcp_stop looked for a socket to *)
(* shut down.                                                              *)
LinkExact ==
  /\ \A n \in Fds : fd[n] \in {"link", "linkshut"} => n = sock
  /\ \A n \in online : n = sock /\ fd[n] \in {"link", "linkshut"}
  /\ InProcess => online = {sock}
  /\ ~initialized => online = {} /\ \A n \in Fds : fd[n] \in {"free"} \cup Strange

(* The lock that mb_tcp_stop destroys is not in use: the client thread may *)
(* be in a builder until it is joined.                                     *)
LockAlive == \A b \in Builders : build[b] \in {"lock", "draw"} => lock # "none"

(* A transaction id comes back only when all others have been used since,  *)
(* whichever threads draw, and none is 0.                                  *)
TidsDistinct ==
  /\ \A i \in 1 .. Len(recent) : recent[i] # 0
  /\ \A i, j \in 1 .. Len(recent) : recent[i] = recent[j] => i = j

(* What mb_tcp_parse_request reads in a frame is what the builder was      *)
(* given, the length field covers the frame exactly, and a response built  *)
(* for it carries its transaction id.                                      *)
RoundTrip ==
  \A b \in Builders : build[b] = "built" /\ frame[b] # Refused =>
    LET r  == req[b]
        fc == CASE r.op = "basis" -> r.fc
                [] r.op = "fc06"  -> WRITE_SINGLE_REGISTER
                [] r.op = "fc16"  -> WRITE_MULTIPLE_REGISTERS
        qty == IF fc = WRITE_SINGLE_REGISTER THEN 1
               ELSE IF r.op = "fc16" THEN Len(r.values) ELSE r.nb
        answer == tcp_build_read_registers_response(
                    GetU16(frame[b], 1), fc, r.unit, <<0>>, TCP_MAX_ADU_LENGTH)
    IN  /\ tcp_parse_request(frame[b]) = [fc |-> fc, addr |-> r.addr, qty |-> qty]
        /\ Len(frame[b]) = TCP_PREFIX_LEN + GetU16(frame[b], 5)
        /\ GetU16(answer, 1) = GetU16(frame[b], 1)
        /\ Len(answer) = TCP_PREFIX_LEN + GetU16(answer, 5)

(* mb_tcp_stop returns, also when it finds no socket to shut down because  *)
(* the thread is still connecting.                                         *)
StopReturns == stop # "idle" ~> stop = "idle"

(* After a lost link or a failed attempt the thread brings the link up     *)
(* again, unless it is stopped or the rest of the program uses up all      *)
(* descriptors.                                                            *)
Reconnects ==
  <>[](\E n \in Fds : fd[n] \notin Strange) =>
    (thread = "top" /\ keep_running ~> online # {} \/ ~keep_running)
=============================================================================
