------------------------------ MODULE TcpServer ------------------------------
(***************************************************************************)
(* The Modbus TCP server: the server thread of modbus_tcp.c with the       *)
(* frame handler of modbus_tcp_server.c as its on_process callback, the    *)
(* application thread that starts and stops it, and the peers.             *)
(*                                                                         *)
(* A connection stands for its socket descriptor, which the kernel gives   *)
(* out again when it has been closed.  The peers, and what the kernel does *)
(* with signals and descriptors, are external.                             *)
(*                                                                         *)
(* Beside some definitions stands a faulty form of them (ProcessEndsEarly, *)
(* ShutdownSkipped, ...) that no specification uses: the form a mistake in *)
(* the code would have, on which the properties are seen to fail.          *)
(***************************************************************************)
EXTENDS Integers, Sequences

CONSTANTS
  Conns,       \* the connections peers make in a behaviour
  Cap,         \* ctx->client_cap: number of slots
  SlowConns,   \* connections whose peer may stop reading replies
  Signals,     \* may a signal interrupt select()?
  MaxFrames,   \* bound: frames a peer sends on a connection
  MaxStarts    \* bound: times the application starts the server

NoFd == "-1"
Listen == "listen_sock"

ASSUME CapAssumption     == Cap \in Nat \ {0}
ASSUME ConnsAssumption   == NoFd \notin Conns /\ Listen \notin Conns
ASSUME SlowAssumption    == SlowConns \subseteq Conns
ASSUME SignalsAssumption == Signals \in BOOLEAN
ASSUME BoundsAssumption  == MaxFrames \in Nat /\ MaxStarts \in Nat

VARIABLES
  initialized,   \* ctx->initialized
  keep_running,  \* ctx->keep_running
  listen_sock,   \* "closed", "open", or "shut" after shutdown()
  backlog,       \* connections the kernel holds for accept()
  client_fds,    \* ctx->client_fds
  thread,        \* where the server thread is
  readfds,       \* its readfds after select()
  slot,          \* its loop index over the slots
  new_socket,    \* its local: accepted and not yet in a slot
  stop,          \* where the thread that runs mb_tcp_stop is
  scan,          \* its loop index over the slots
  conn,          \* each connection as the server sees it
  eof,           \* connections whose peer has closed
  input,         \* frames received and not yet read, per connection
  frames,        \* frames the peer sent, per connection (for the bound)
  online,        \* connections reported up, and not down, by on_link
  starts         \* times the server was started (for the bound)

app    == <<initialized, keep_running, listen_sock, stop, scan, starts>>
server == <<client_fds, thread, readfds, slot, new_socket, online>>
peers  == <<conn, eof, input, frames, backlog>>
vars   == <<app, server, peers>>

Slots == 1 .. Cap

(* How server_on_process classifies a frame: a "request" for this unit,    *)
(* one it drops without a reply (another protocol or another unit), one    *)
(* whose length field is invalid, and one that never arrives completely.   *)
Frames == {"request", "ignored", "badlen", "partial"}

Held == {client_fds[i] : i \in Slots} \ {NoFd}

Init ==
  /\ initialized = FALSE /\ keep_running = FALSE /\ listen_sock = "closed"
  /\ backlog = <<>> /\ client_fds = [i \in Slots |-> NoFd]
  /\ thread = "none" /\ readfds = {} /\ slot = 1 /\ new_socket = NoFd
  /\ stop = "idle" /\ scan = 1
  /\ conn = [c \in Conns |-> "new"] /\ eof = {}
  /\ input = [c \in Conns |-> <<>>] /\ frames = [c \in Conns |-> 0]
  /\ online = {} /\ starts = 0

-----------------------------------------------------------------------------
(* The peers (external).                                                   *)

(* A peer connects.  Once the server has closed a connection, a new one    *)
(* may be given its descriptor: peers may come back without end.           *)
PeerConnects(c) ==
  /\ conn[c] \in {"new", "closed"} /\ listen_sock = "open"
  /\ conn' = [conn EXCEPT ![c] = "backlog"]
  /\ backlog' = Append(backlog, c)
  /\ eof' = eof \ {c}
  /\ input' = [input EXCEPT ![c] = <<>>] /\ frames' = [frames EXCEPT ![c] = 0]
  /\ UNCHANGED <<app, server>>

Connected(c) == conn[c] \in {"backlog", "accepted", "open"} /\ c \notin eof

PeerSends(c, kind) ==
  /\ Connected(c) /\ frames[c] < MaxFrames
  /\ \A i \in 1 .. Len(input[c]) : input[c][i] # "partial"
  /\ input' = [input EXCEPT ![c] = Append(@, kind)]
  /\ frames' = [frames EXCEPT ![c] = @ + 1]
  /\ UNCHANGED <<app, server, conn, eof, backlog>>

PeerCloses(c) ==
  /\ Connected(c)
  /\ eof' = eof \cup {c}
  /\ UNCHANGED <<app, server, conn, input, frames, backlog>>

-----------------------------------------------------------------------------
(* The server thread.                                                      *)

Readable(c) == input[c] # <<>> \/ c \in eof \/ conn[c] = "shut"

Watched == Held \cup {Listen}

Ready ==
  {c \in Held : Readable(c)}
    \cup (IF backlog # <<>> \/ listen_sock = "shut" THEN {Listen} ELSE {})

LoopExits ==
  /\ thread = "top" /\ ~keep_running
  /\ thread' = "exit"
  /\ UNCHANGED <<app, client_fds, readfds, slot, new_socket, online, peers>>

(* The loop test, and building the descriptor set.                         *)
LoopEnters ==
  /\ thread = "top" /\ keep_running
  /\ thread' = "select"
  /\ UNCHANGED <<app, client_fds, readfds, slot, new_socket, online, peers>>

SelectReady ==
  /\ thread = "select" /\ Ready # {}
  /\ readfds' = Ready /\ thread' = "accept"
  /\ UNCHANGED <<app, client_fds, slot, new_socket, online, peers>>

(* While nothing is readable a signal handler runs and select() fails with *)
(* EINTR: the descriptor set is left as it was built, and the code goes on *)
(* with it, into a blocking accept() first.                                *)
SelectInterrupted ==
  /\ thread = "select" /\ Signals /\ Ready = {}
  /\ readfds' = Watched /\ thread' = "accept"
  /\ UNCHANGED <<app, client_fds, slot, new_socket, online, peers>>

(* Nothing is readable for idle_poll_ms: sockets at end of file are closed *)
(* and reported down.                                                      *)
AtEof(c) == input[c] = <<>> /\ (c \in eof \/ conn[c] = "shut")

SelectTimesOut ==
  /\ thread = "select" /\ Ready = {}
  /\ thread' = "scan"
  /\ UNCHANGED <<app, client_fds, readfds, slot, new_socket, online, peers>>

IdleScan ==
  /\ thread = "scan"
  /\ LET dead == {c \in Held : AtEof(c)}
     IN  /\ conn' = [c \in Conns |-> IF c \in dead THEN "closed" ELSE conn[c]]
         /\ client_fds' = [i \in Slots |-> IF client_fds[i] \in dead THEN NoFd
                                           ELSE client_fds[i]]
         /\ online' = online \ dead
  /\ thread' = "top"
  /\ UNCHANGED <<app, readfds, slot, new_socket, eof, input, frames, backlog>>

(* No connection to accept in this round.                                  *)
AcceptSkipped ==
  /\ thread = "accept" /\ Listen \notin readfds
  /\ thread' = "process" /\ slot' = 1
  /\ UNCHANGED <<app, client_fds, readfds, new_socket, online, peers>>

(* accept() fails: the listening socket was shut down; or the process or   *)
(* the system is out of descriptors or of memory, and the connection stays *)
(* in the backlog; or the peer of the first pending connection has gone.   *)
(* The rest of the round is skipped.                                       *)
AcceptFails ==
  /\ thread = "accept" /\ Listen \in readfds
  /\ \/ /\ listen_sock = "shut" \/ backlog # <<>>
        /\ UNCHANGED <<conn, backlog>>
     \/ /\ backlog # <<>> /\ Head(backlog) \in eof
        /\ backlog' = Tail(backlog)
        /\ conn' = [conn EXCEPT ![Head(backlog)] = "closed"]
  /\ thread' = "top"
  /\ UNCHANGED <<app, client_fds, readfds, slot, new_socket, online, eof,
                 input, frames>>

(* accept() succeeds.  Until the thread has found a slot for it only the   *)
(* thread knows the new socket: mb_tcp_stop may go through the slots now.  *)
AcceptTakes ==
  /\ thread = "accept" /\ Listen \in readfds
  /\ listen_sock = "open" /\ backlog # <<>>
  /\ new_socket' = Head(backlog) /\ backlog' = Tail(backlog)
  /\ conn' = [conn EXCEPT ![Head(backlog)] = "accepted"]
  /\ thread' = "place"
  /\ UNCHANGED <<app, client_fds, readfds, slot, online, eof, input, frames>>

FreeSlots == {i \in Slots : client_fds[i] = NoFd}

(* The new descriptor is too large for an fd_set, or no slot is free: the  *)
(* connection is closed and the rest of the round is skipped.              *)
AcceptRejects ==
  /\ thread = "place"
  /\ conn' = [conn EXCEPT ![new_socket] = "closed"]
  /\ new_socket' = NoFd /\ thread' = "top"
  /\ UNCHANGED <<app, client_fds, readfds, slot, online, eof, input, frames,
                 backlog>>

AcceptPlaces ==
  /\ thread = "place"
  /\ \E i \in FreeSlots :
       /\ \A j \in FreeSlots : i <= j
       /\ client_fds' = [client_fds EXCEPT ![i] = new_socket]
  /\ conn' = [conn EXCEPT ![new_socket] = "open"]
  /\ online' = online \cup {new_socket}
  /\ new_socket' = NoFd /\ thread' = "process" /\ slot' = 1
  /\ UNCHANGED <<app, readfds, eof, input, frames, backlog>>

(* The loop over the slots: on_process is called for a slot whose socket   *)
(* is in readfds.                                                          *)
ProcessEndsEarly ==
  /\ thread = "process" /\ slot >= Cap
  /\ thread' = "top"
  /\ UNCHANGED <<app, client_fds, readfds, slot, new_socket, online, peers>>

ProcessEnds ==
  /\ thread = "process" /\ slot > Cap
  /\ thread' = "top"
  /\ UNCHANGED <<app, client_fds, readfds, slot, new_socket, online, peers>>

ProcessSkipsPastEnd ==
  /\ thread = "process" /\ slot <= Cap + 1
  /\ slot <= Cap => client_fds[slot] \notin readfds
  /\ slot' = slot + 1
  /\ UNCHANGED <<app, client_fds, thread, readfds, new_socket, online, peers>>

ProcessSkips ==
  /\ thread = "process" /\ slot <= Cap
  /\ client_fds[slot] \notin readfds
  /\ slot' = slot + 1
  /\ UNCHANGED <<app, client_fds, thread, readfds, new_socket, online, peers>>

ProcessCallsAll ==
  /\ thread = "process" /\ slot <= Cap
  /\ client_fds[slot] # NoFd
  /\ thread' = "recv"
  /\ UNCHANGED <<app, client_fds, readfds, slot, new_socket, online, peers>>

ProcessCalls ==
  /\ thread = "process" /\ slot <= Cap
  /\ client_fds[slot] \in readfds
  /\ thread' = "recv"
  /\ UNCHANGED <<app, client_fds, readfds, slot, new_socket, online, peers>>

Current == client_fds[slot]

(* on_process returned 0.                                                  *)
ProcessContinues ==
  /\ thread' = "process" /\ slot' = slot + 1
  /\ UNCHANGED <<client_fds, online, conn>>

ProcessDropsSilently ==
  /\ conn' = [conn EXCEPT ![Current] = "closed"]
  /\ client_fds' = [client_fds EXCEPT ![slot] = NoFd]
  /\ thread' = "process" /\ slot' = slot + 1
  /\ UNCHANGED online

ProcessDropsLeaking ==
  /\ client_fds' = [client_fds EXCEPT ![slot] = NoFd]
  /\ online' = online \ {Current}
  /\ thread' = "process" /\ slot' = slot + 1
  /\ UNCHANGED conn

(* on_process returned -1: close, free the slot, report the link down.     *)
ProcessDrops ==
  /\ conn' = [conn EXCEPT ![Current] = "closed"]
  /\ client_fds' = [client_fds EXCEPT ![slot] = NoFd]
  /\ online' = online \ {Current}
  /\ thread' = "process" /\ slot' = slot + 1

NextFrame(kind) == input[Current] # <<>> /\ Head(input[Current]) = kind

(* server_on_process: a complete frame is read and dispatched.             *)
HandleRequest ==
  /\ thread = "recv" /\ NextFrame("request")
  /\ input' = [input EXCEPT ![Current] = Tail(@)]
  /\ thread' = "send"
  /\ UNCHANGED <<app, client_fds, readfds, slot, new_socket, online, conn,
                 eof, frames, backlog>>

HandleIgnoredDropping ==
  /\ thread = "recv" /\ NextFrame("ignored")
  /\ input' = [input EXCEPT ![Current] = Tail(@)]
  /\ ProcessDrops
  /\ UNCHANGED <<app, readfds, new_socket, eof, frames, backlog>>

HandleIgnored ==
  /\ thread = "recv" /\ NextFrame("ignored")
  /\ input' = [input EXCEPT ![Current] = Tail(@)]
  /\ ProcessContinues
  /\ UNCHANGED <<app, readfds, new_socket, eof, frames, backlog>>

HandleBadLength ==
  /\ thread = "recv" /\ NextFrame("badlen")
  /\ input' = [input EXCEPT ![Current] = Tail(@)]
  /\ ProcessDrops
  /\ UNCHANGED <<app, readfds, new_socket, eof, frames, backlog>>

(* recv() reports end of file, or SO_RCVTIMEO expires before the frame is  *)
(* complete (or, on a socket with no data, before it begins).              *)
ReceiveFails ==
  /\ thread = "recv"
  /\ input[Current] # <<>> => Head(input[Current]) = "partial"
  /\ ProcessDrops
  /\ UNCHANGED <<app, readfds, new_socket, eof, input, frames, backlog>>

(* The reply is handed to the kernel.  There is no send timeout: a peer    *)
(* that does not read holds the thread here.                               *)
ReplySent ==
  /\ thread = "send" /\ conn[Current] = "open"
  /\ ProcessContinues
  /\ UNCHANGED <<app, readfds, new_socket, eof, input, frames, backlog>>

ReplyFails ==
  /\ thread = "send" /\ (Current \in eof \/ conn[Current] = "shut")
  /\ ProcessDrops
  /\ UNCHANGED <<app, readfds, new_socket, eof, input, frames, backlog>>

-----------------------------------------------------------------------------
(* The application: mb_tcp_server_start and mb_tcp_server_stop.            *)

Start ==
  /\ ~initialized /\ stop = "idle" /\ starts < MaxStarts
  /\ initialized' = TRUE /\ keep_running' = TRUE /\ listen_sock' = "open"
  /\ client_fds' = [i \in Slots |-> NoFd]
  /\ thread' = "top" /\ readfds' = {} /\ slot' = 1
  /\ starts' = starts + 1
  /\ UNCHANGED <<stop, scan, new_socket, online, peers>>

(* bind(), listen() or pthread_create() fails: everything is undone except *)
(* the flag, which nobody reads while the server is down.                  *)
StartFails ==
  /\ ~initialized /\ stop = "idle" /\ starts < MaxStarts
  /\ keep_running' = TRUE
  /\ UNCHANGED <<initialized, listen_sock, stop, scan, starts, server, peers>>

StopFlag ==
  /\ stop = "idle" /\ initialized
  /\ keep_running' = FALSE
  /\ stop' = "listen"
  /\ UNCHANGED <<initialized, listen_sock, scan, starts, server, peers>>

StopListen ==
  /\ stop = "listen"
  /\ listen_sock' = "shut"
  /\ stop' = "scan" /\ scan' = 1
  /\ UNCHANGED <<initialized, keep_running, starts, server, peers>>

ShutdownSkipped(fds) == UNCHANGED conn

Shutdown(fds) ==
  conn' = [c \in Conns |-> IF c \in fds /\ conn[c] = "open" THEN "shut"
                                                          ELSE conn[c]]

(* One slot of the loop that shuts the client sockets down.                *)
StopScan ==
  /\ stop = "scan"
  /\ IF scan <= Cap
       THEN Shutdown({client_fds[scan]}) /\ scan' = scan + 1 /\ UNCHANGED stop
       ELSE stop' = "join" /\ UNCHANGED <<conn, scan>>
  /\ UNCHANGED <<initialized, keep_running, listen_sock, starts, server, eof,
                 input, frames, backlog>>

(* Only the sockets that were shut down are closed.                        *)
StopJoinShutOnly ==
  /\ stop = "join" /\ thread = "exit"
  /\ thread' = "none" /\ listen_sock' = "closed"
  /\ conn' = [c \in Conns |-> IF conn[c] = "shut" THEN "stopped"
                              ELSE IF conn[c] = "backlog" THEN "closed"
                              ELSE conn[c]]
  /\ backlog' = <<>>
  /\ client_fds' = [i \in Slots |-> NoFd]
  /\ initialized' = FALSE /\ stop' = "idle"
  /\ UNCHANGED <<keep_running, scan, starts, readfds, slot, new_socket,
                 online, eof, input, frames>>

(* The server thread is joined and every remaining socket is closed; the   *)
(* kernel resets what was still in the backlog.  on_link is not called.    *)
StopJoin ==
  /\ stop = "join" /\ thread = "exit"
  /\ thread' = "none" /\ listen_sock' = "closed"
  /\ conn' = [c \in Conns |-> IF c \in Held THEN "stopped"
                              ELSE IF conn[c] = "backlog" THEN "closed"
                              ELSE conn[c]]
  /\ backlog' = <<>>
  /\ client_fds' = [i \in Slots |-> NoFd]
  /\ initialized' = FALSE /\ stop' = "idle"
  /\ UNCHANGED <<keep_running, scan, starts, readfds, slot, new_socket,
                 online, eof, input, frames>>

(* The server is stopped for good.                                         *)
Halted ==
  /\ ~initialized /\ starts = MaxStarts
  /\ UNCHANGED vars

-----------------------------------------------------------------------------
Peer ==
  \E c \in Conns :
    \/ PeerConnects(c) \/ PeerCloses(c)
    \/ \E kind \in Frames : PeerSends(c, kind)

ServerThread ==
  \/ LoopExits \/ LoopEnters \/ SelectReady \/ SelectTimesOut \/ IdleScan
  \/ AcceptSkipped \/ AcceptFails \/ AcceptTakes
  \/ AcceptRejects \/ AcceptPlaces
  \/ ProcessEnds \/ ProcessSkips \/ ProcessCalls
  \/ HandleRequest \/ HandleIgnored \/ HandleBadLength \/ ReceiveFails
  \/ ReplySent \/ ReplyFails

Stop == StopListen \/ StopScan \/ StopJoin

Next ==
  \/ Peer \/ ServerThread \/ SelectInterrupted
  \/ Start \/ StartFails \/ StopFlag \/ Stop
  \/ Halted

Spec == Init /\ [][Next]_vars

(* The two threads keep running, except that the server thread may hang in *)
(* send() for as long as the peer of a slow connection likes.              *)
Fairness ==
  /\ WF_vars(ServerThread /\ ~(thread = "send" /\ Current \in SlowConns
                                /\ conn[Current] = "open"))
  /\ WF_vars(Stop)

FairSpec == Spec /\ Fairness

-----------------------------------------------------------------------------
TypeOK ==
  /\ initialized \in BOOLEAN /\ keep_running \in BOOLEAN
  /\ listen_sock \in {"closed", "open", "shut"}
  /\ backlog \in Seq(Conns)
  /\ client_fds \in [Slots -> Conns \cup {NoFd}]
  /\ thread \in {"none", "top", "select", "scan", "accept", "place",
                 "process", "recv", "send", "exit"}
  /\ readfds \subseteq Conns \cup {Listen}
  /\ slot \in 1 .. Cap + 1 /\ scan \in 1 .. Cap + 1
  /\ stop \in {"idle", "listen", "scan", "join"}
  /\ conn \in [Conns -> {"new", "backlog", "accepted", "open", "shut", "closed",
                         "stopped"}]
  /\ eof \subseteq Conns
  /\ input \in [Conns -> Seq(Frames)]
  /\ frames \in [Conns -> 0 .. MaxFrames]
  /\ online \subseteq Conns
  /\ new_socket \in Conns \cup {NoFd}
  /\ starts \in 0 .. MaxStarts

(* on_link has reported up, and not down, exactly the connections the      *)
(* server holds, and those that mb_tcp_stop closed over its head: on every *)
(* path the thread itself takes, each link goes up once and down once.     *)
LinkAgrees == online = Held \cup {c \in Conns : conn[c] = "stopped"}

(* No socket outlives the server: also a connection accepted after         *)
(* mb_tcp_stop has been through the slots is closed.                       *)
StopClosesAll ==
  ~initialized => \A c \in Conns : conn[c] \in {"new", "closed", "stopped"}

(* The slots and the sockets agree: a held socket is open (or shut by      *)
(* mb_tcp_stop), no socket sits in two slots, and none that is open has    *)
(* been forgotten.                                                         *)
SlotsExact ==
  /\ \A c \in Conns : c \in Held <=> conn[c] \in {"open", "shut"}
  /\ \A i, j \in Slots : client_fds[i] = client_fds[j] =>
       i = j \/ client_fds[i] = NoFd

(* The comment over server_on_process: it is called for a readable socket. *)
CalledWhenReadable == thread = "recv" => Readable(Current)

(* A peer that is connected and sends only well-formed frames is never cut *)
(* off by the server thread.                                               *)
HealthyKept ==
  [][\A c \in Conns : conn[c] = "open" /\ conn'[c] = "closed" =>
       \/ c \in eof
       \/ input[c] # <<>> /\ Head(input[c]) \in {"badlen", "partial"}]_vars

(* The documentation's count of connected masters, kept from on_link: when *)
(* the server has stopped, no master is counted as online.                 *)
StopReportsDown == ~initialized => online = {}

(* The thread is in a call that may not return: send() to a peer that need *)
(* not read, or accept() with no connection to accept, where an            *)
(* interrupted select() leads it.                                          *)
Blocked ==
  \/ thread = "send" /\ Current \in SlowConns /\ conn[Current] = "open"
  \/ /\ thread = "accept" /\ Listen \in readfds
     /\ backlog = <<>> /\ listen_sock = "open"

(* An accept() that fails, or whose connection is rejected, ends the round *)
(* before the loop over the slots.                                         *)
RoundCutShort == thread \in {"accept", "place"} /\ thread' = "top"

(* Frames on a held connection are read, or the connection is closed,      *)
(* interrupted selects or not, with only two exceptions: the thread is     *)
(* blocked for ever; or rounds are cut short again and again, by a flood   *)
(* of connections that are rejected or for want of descriptors.  Neither   *)
(* the other clients nor the connections that are accepted can keep a      *)
(* client from being served.                                               *)
Served ==
  []<>~Blocked /\ ~[]<><<RoundCutShort>>_vars =>
    \A c \in Conns :
      c \in Held /\ input[c] # <<>> ~> input[c] = <<>> \/ c \notin Held

(* mb_tcp_stop returns, even when the server thread hangs in send() on a   *)
(* peer that does not read, or accepts a connection meanwhile.             *)
StopReturns == stop # "idle" ~> stop = "idle"

-----------------------------------------------------------------------------
(* The inductive invariant behind the safety properties.                   *)

(* What the positions of the two threads say about each other, about the   *)
(* socket that is accepted and not yet placed, and about the slot that is  *)
(* being served.                                                           *)
LifeInv ==
  /\ initialized <=> thread # "none"
  /\ stop # "idle" => initialized
  /\ ~initialized => \A i \in Slots : client_fds[i] = NoFd
  /\ ~initialized => listen_sock = "closed"
  /\ ~initialized => \A c \in Conns : conn[c] # "backlog"
  /\ thread = "place" => new_socket \in Conns
  /\ \A c \in Conns :
       conn[c] = "accepted" <=> thread = "place" /\ c = new_socket
  /\ thread \in {"recv", "send"} => slot \in Slots /\ Current # NoFd

(* The kernel's queue holds the connections that wait in it, each once.    *)
BacklogInv ==
  /\ \A i \in 1 .. Len(backlog) : conn[backlog[i]] = "backlog"
  /\ \A i, j \in 1 .. Len(backlog) : backlog[i] = backlog[j] => i = j

(* What select() found readable stays so until the thread has served it:   *)
(* the sockets still to be looked at are, and a socket accepted since then *)
(* is not in readfds.                                                      *)
ReadyInv ==
  /\ thread \in {"accept", "place"} =>
       \A c \in readfds \ {Listen} : c \in Held /\ Readable(c)
  /\ thread \in {"process", "recv", "send"} =>
       \A i \in Slots : client_fds[i] \in readfds =>
         i < slot \/ (i = slot /\ thread = "send") \/ Readable(client_fds[i])
  /\ thread = "recv" => Current \in readfds

IInv == TypeOK /\ LifeInv /\ BacklogInv /\ SlotsExact /\ LinkAgrees
=============================================================================
