--------------------------- MODULE TcpServerProofs ---------------------------
(***************************************************************************)
(* Proofs about TcpServer for every number of connections, slots, frames   *)
(* and starts: the inductive invariant IInv, and ReadyInv when no signal   *)
(* interrupts select().                                                    *)
(***************************************************************************)
EXTENDS TcpServer, TLAPS

(* The sentinels are told apart from each other and from connections.      *)
LEMMA Sentinels == NoFd # Listen /\ NoFd \notin Conns /\ Listen \notin Conns
BY ConnsAssumption DEF NoFd, Listen

(* Every step keeps the types of the state.                                *)
LEMMA TypeStep ==
  ASSUME TypeOK, LifeInv, [Next]_vars
  PROVE  TypeOK'
<1> USE CapAssumption, BoundsAssumption, Sentinels DEF Slots
<1>1. ASSUME NEW c \in Conns, PeerConnects(c) PROVE TypeOK'
  BY <1>1 DEF PeerConnects, TypeOK, app, server
<1>2. ASSUME NEW c \in Conns, PeerCloses(c) PROVE TypeOK'
  BY <1>2 DEF PeerCloses, TypeOK, app, server
<1>3. ASSUME NEW c \in Conns, NEW kind \in Frames, PeerSends(c, kind) PROVE TypeOK'
  <2>1. input' \in [Conns -> Seq(Frames)]
    BY <1>3 DEF PeerSends, TypeOK
  <2>2. frames' \in [Conns -> 0 .. MaxFrames]
    BY <1>3 DEF PeerSends, TypeOK
  <2> QED
    BY <1>3, <2>1, <2>2 DEF PeerSends, TypeOK, app, server
<1>4. CASE LoopExits \/ LoopEnters \/ SelectTimesOut
  BY <1>4 DEF LoopExits, LoopEnters, SelectTimesOut, TypeOK, app, peers
<1>5. CASE SelectReady \/ SelectInterrupted
  <2>1. Held \subseteq Conns
    BY DEF Held, TypeOK
  <2>2. Ready \subseteq Conns \cup {Listen} /\ Watched \subseteq Conns \cup {Listen}
    BY <2>1 DEF Ready, Watched
  <2> QED
    BY <1>5, <2>2 DEF SelectReady, SelectInterrupted, TypeOK, app, peers
<1>6. CASE IdleScan
  BY <1>6 DEF IdleScan, TypeOK, app
<1>7. CASE AcceptSkipped \/ AcceptFails
  <2>1. CASE AcceptSkipped
    BY <2>1 DEF AcceptSkipped, TypeOK, app, peers
  <2>2. CASE AcceptFails
    <3>1. backlog' = backlog \/ (backlog # <<>> /\ backlog' = Tail(backlog))
      BY <2>2 DEF AcceptFails
    <3>2. conn' \in [Conns -> {"new", "backlog", "accepted", "open", "shut",
                               "closed", "stopped"}]
      BY <2>2 DEF AcceptFails, TypeOK
    <3> QED
      <4>1. backlog' \in Seq(Conns)
        <5> backlog \in Seq(Conns)
          BY DEF TypeOK
        <5>1. backlog # <<>> => Tail(backlog) \in Seq(Conns)
          OBVIOUS
        <5> QED
          BY <3>1, <5>1
      <4> QED
        BY <2>2, <4>1, <3>2 DEF AcceptFails, TypeOK, app
  <2> QED
    BY <1>7, <2>1, <2>2
<1>8. CASE AcceptTakes
  BY <1>8 DEF AcceptTakes, TypeOK, app
<1>9. CASE AcceptRejects
  BY <1>9 DEF AcceptRejects, TypeOK, app
<1>10. CASE AcceptPlaces
  BY <1>10 DEF AcceptPlaces, FreeSlots, TypeOK, LifeInv, app
<1>11. CASE ProcessEnds \/ ProcessSkips \/ ProcessCalls
  BY <1>11 DEF ProcessEnds, ProcessSkips, ProcessCalls, TypeOK, app, peers
<1>12. CASE HandleRequest
  BY <1>12 DEF HandleRequest, NextFrame, Current, TypeOK, LifeInv, app
<1>13. CASE HandleIgnored
  BY <1>13 DEF HandleIgnored, ProcessContinues, NextFrame, Current, TypeOK, LifeInv, app
<1>14. CASE HandleBadLength
  BY <1>14 DEF HandleBadLength, ProcessDrops, NextFrame, Current, TypeOK, LifeInv, app
<1>15. CASE ReceiveFails
  BY <1>15 DEF ReceiveFails, ProcessDrops, Current, TypeOK, LifeInv, app
<1>16. CASE ReplySent
  BY <1>16 DEF ReplySent, ProcessContinues, Current, TypeOK, LifeInv, app
<1>17. CASE ReplyFails
  BY <1>17 DEF ReplyFails, ProcessDrops, Current, TypeOK, LifeInv, app
<1>18. CASE Start \/ StartFails
  <2>1. initialized' \in BOOLEAN /\ keep_running' \in BOOLEAN
    BY <1>18, Zenon DEF Start, StartFails, TypeOK
  <2> QED
    <3>1. CASE Start
      <4>1. readfds' \subseteq Conns \cup {Listen}
        BY <3>1 DEF Start
      <4>2. client_fds' \in [Slots -> Conns \cup {NoFd}]
        BY <3>1 DEF Start
      <4>3. starts' \in 0 .. MaxStarts /\ slot' \in 1 .. Cap + 1
        BY <3>1 DEF Start, TypeOK
      <4> QED
        BY <3>1, <2>1, <4>1, <4>2, <4>3 DEF Start, TypeOK, peers
    <3>2. CASE StartFails
      BY <3>2, <2>1 DEF StartFails, TypeOK, server, peers
    <3> QED
      BY <1>18, <3>1, <3>2
<1>19. CASE StopFlag \/ StopListen
  <2>1. initialized' \in BOOLEAN /\ keep_running' \in BOOLEAN
    BY <1>19, Zenon DEF StopFlag, StopListen, TypeOK
  <2> QED
    BY <1>19, <2>1 DEF StopFlag, StopListen, TypeOK, server, peers
<1>20. CASE StopScan
  BY <1>20 DEF StopScan, Shutdown, TypeOK, server
<1>21. CASE StopJoin
  <2>1. initialized' \in BOOLEAN /\ keep_running' \in BOOLEAN
    BY <1>21, Zenon DEF StopJoin, TypeOK
  <2>2. backlog' \in Seq(Conns)
    BY <1>21 DEF StopJoin
  <2> QED
    BY <1>21, <2>1, <2>2 DEF StopJoin, TypeOK
<1>22. CASE UNCHANGED vars
  BY <1>22 DEF TypeOK, vars, app, server, peers
<1> QED
  BY <1>1, <1>2, <1>3, <1>4, <1>5, <1>6, <1>7, <1>8, <1>9, <1>10, <1>11, <1>12,
    <1>13, <1>14, <1>15, <1>16, <1>17, <1>18, <1>19, <1>20, <1>21, <1>22
    DEF Next, Peer, ServerThread, Stop, Halted

(* Two slots never hold the same socket, so serving one leaves the others. *)
LEMMA HeldFacts ==
  ASSUME TypeOK, SlotsExact
  PROVE  /\ Held \subseteq Conns
         /\ \A i \in Slots : client_fds[i] # NoFd =>
              /\ client_fds[i] \in Held
              /\ conn[client_fds[i]] \in {"open", "shut"}
BY Sentinels DEF Held, SlotsExact, TypeOK

(* What the queue holds are connections.                                   *)
LEMMA QueueFacts ==
  ASSUME TypeOK, BacklogInv
  PROVE  /\ Len(backlog) \in Nat
         /\ \A i \in 1 .. Len(backlog) : backlog[i] \in Conns
         /\ backlog # <<>> =>
              /\ Len(backlog) > 0 /\ Head(backlog) = backlog[1]
              /\ Head(backlog) \in Conns /\ conn[Head(backlog)] = "backlog"
<1> backlog \in Seq(Conns)
  BY DEF TypeOK
<1>1. Len(backlog) \in Nat /\ \A i \in 1 .. Len(backlog) : backlog[i] \in Conns
  OBVIOUS
<1>2. ASSUME backlog # <<>>
      PROVE  Len(backlog) > 0 /\ Head(backlog) = backlog[1]
  BY <1>2
<1>3. ASSUME backlog # <<>>
      PROVE  Head(backlog) \in Conns /\ conn[Head(backlog)] = "backlog"
  <2>1. 1 \in 1 .. Len(backlog)
    BY <1>1, <1>2, <1>3
  <2> QED
    BY <1>1, <1>2, <1>3, <2>1 DEF BacklogInv
<1> QED
  BY <1>1, <1>2, <1>3

(* What dropping the connection that is being served does.                 *)
LEMMA DropFacts ==
  ASSUME TypeOK, LifeInv, SlotsExact, HandleBadLength \/ ReceiveFails \/ ReplyFails
  PROVE  /\ slot \in Slots /\ Current \in Conns /\ Current = client_fds[slot]
         /\ conn[Current] \in {"open", "shut"}
         /\ conn' = [conn EXCEPT ![Current] = "closed"]
         /\ client_fds' = [client_fds EXCEPT ![slot] = NoFd]
         /\ online' = online \ {Current}
         /\ backlog' = backlog
<1>1. thread \in {"recv", "send"} /\ ProcessDrops /\ backlog' = backlog
  BY DEF HandleBadLength, ReceiveFails, ReplyFails
<1>2. slot \in Slots /\ client_fds[slot] # NoFd
  BY <1>1 DEF LifeInv, Current
<1>3. Current \in Conns /\ Current = client_fds[slot]
  BY <1>2 DEF Current, TypeOK
<1>4. conn[Current] \in {"open", "shut"}
  BY <1>2, <1>3, HeldFacts
<1> QED
  BY <1>1, <1>2, <1>3, <1>4 DEF ProcessDrops

(* Every step keeps the positions of the threads consistent.               *)
LEMMA LifeStep ==
  ASSUME TypeOK, LifeInv, BacklogInv, SlotsExact, [Next]_vars
  PROVE  LifeInv'
<1> USE CapAssumption, Sentinels, HeldFacts DEF LifeInv, TypeOK
<1>1. ASSUME NEW c \in Conns, PeerConnects(c) PROVE LifeInv'
  BY <1>1 DEF PeerConnects, app, server, Current
<1>2. ASSUME NEW c \in Conns, PeerCloses(c) PROVE LifeInv'
  BY <1>2 DEF PeerCloses, app, server, Current
<1>3. ASSUME NEW c \in Conns, NEW kind \in Frames, PeerSends(c, kind) PROVE LifeInv'
  BY <1>3 DEF PeerSends, app, server, Current
<1>4. CASE LoopExits \/ LoopEnters \/ SelectTimesOut
  BY <1>4 DEF LoopExits, LoopEnters, SelectTimesOut, app, peers, Current
<1>5. CASE SelectReady \/ SelectInterrupted
  BY <1>5 DEF SelectReady, SelectInterrupted, app, peers, Current
<1>6. CASE IdleScan
  BY <1>6 DEF IdleScan, app, Current
<1>7. CASE AcceptSkipped \/ AcceptFails
  BY <1>7 DEF AcceptSkipped, AcceptFails, BacklogInv, app, peers, Current
<1>8. CASE AcceptTakes
  BY <1>8 DEF AcceptTakes, BacklogInv, app, Current
<1>9. CASE AcceptRejects
  BY <1>9 DEF AcceptRejects, app, Current
<1>10. CASE AcceptPlaces
  BY <1>10 DEF AcceptPlaces, FreeSlots, app, Current
<1>11. CASE ProcessEnds \/ ProcessSkips \/ ProcessCalls
  BY <1>11 DEF ProcessEnds, ProcessSkips, ProcessCalls, Slots, app, peers, Current
<1>12. CASE HandleRequest
  BY <1>12 DEF HandleRequest, app, Current
<1>13. CASE HandleIgnored
  BY <1>13 DEF HandleIgnored, ProcessContinues, app, Current
<1>14. CASE HandleBadLength
  BY <1>14 DEF HandleBadLength, ProcessDrops, Current, app
<1>15. CASE ReceiveFails
  BY <1>15 DEF ReceiveFails, ProcessDrops, Current, app
<1>16. CASE ReplySent
  BY <1>16 DEF ReplySent, ProcessContinues, Current, app
<1>17. CASE ReplyFails
  BY <1>17 DEF ReplyFails, ProcessDrops, Current, app
<1>18. CASE Start \/ StartFails
  BY <1>18 DEF Start, StartFails, server, peers, Current
<1>19. CASE StopFlag \/ StopListen
  BY <1>19 DEF StopFlag, StopListen, server, peers, Current
<1>20. CASE StopScan
  BY <1>20 DEF StopScan, Shutdown, server, Current
<1>21. CASE StopJoin
  BY <1>21 DEF StopJoin, Current
<1>22. CASE UNCHANGED vars
  BY <1>22 DEF vars, app, server, peers, Current
<1> QED
  BY <1>1, <1>2, <1>3, <1>4, <1>5, <1>6, <1>7, <1>8, <1>9, <1>10, <1>11, <1>12,
    <1>13, <1>14, <1>15, <1>16, <1>17, <1>18, <1>19, <1>20, <1>21, <1>22
    DEF Next, Peer, ServerThread, Stop, Halted

(* Every step keeps the kernel's queue exact.                              *)
LEMMA BacklogStep ==
  ASSUME TypeOK, LifeInv, BacklogInv, SlotsExact, [Next]_vars
  PROVE  BacklogInv'
<1> USE CapAssumption, Sentinels, HeldFacts DEF BacklogInv, TypeOK
<1> USE QueueFacts
<1>1. ASSUME NEW c \in Conns, PeerConnects(c) PROVE BacklogInv'
  <2>1. /\ Len(backlog') = Len(backlog) + 1 /\ backlog'[Len(backlog) + 1] = c
        /\ \A i \in 1 .. Len(backlog) : backlog'[i] = backlog[i]
    BY <1>1 DEF PeerConnects
  <2>2. conn[c] \in {"new", "closed"} /\ conn' = [conn EXCEPT ![c] = "backlog"]
    BY <1>1 DEF PeerConnects
  <2>3. \A i \in 1 .. Len(backlog') : i \in 1 .. Len(backlog) \/ i = Len(backlog) + 1
    BY <2>1
  <2>4. \A i \in 1 .. Len(backlog) : backlog[i] \in Conns /\ backlog[i] # c
    BY <2>2
  <2>5. ASSUME NEW i \in 1 .. Len(backlog') PROVE conn'[backlog'[i]] = "backlog"
    <3>1. CASE i \in 1 .. Len(backlog)
      <4>1. backlog'[i] = backlog[i] /\ backlog[i] \in Conns /\ backlog[i] # c
        BY <3>1, <2>1, <2>4
      <4> QED
        BY <3>1, <4>1, <2>2
    <3>2. CASE i = Len(backlog) + 1
      BY <3>2, <2>1, <2>2
    <3> QED
      BY <2>3, <3>1, <3>2
  <2>6. ASSUME NEW i \in 1 .. Len(backlog'), NEW j \in 1 .. Len(backlog'),
               backlog'[i] = backlog'[j]
        PROVE  i = j
    <3>1. CASE i \in 1 .. Len(backlog) /\ j \in 1 .. Len(backlog)
      <4>1. backlog'[i] = backlog[i] /\ backlog'[j] = backlog[j]
        BY <3>1, <2>1
      <4> QED
        BY <3>1, <4>1, <2>6
    <3>2. CASE i \in 1 .. Len(backlog) /\ j = Len(backlog) + 1
      BY <3>2, <2>1, <2>4, <2>6
    <3>3. CASE j \in 1 .. Len(backlog) /\ i = Len(backlog) + 1
      BY <3>3, <2>1, <2>4, <2>6
    <3> QED
      BY <2>3, <3>1, <3>2, <3>3
  <2> QED
    BY <2>5, <2>6
<1>2. CASE IdleScan
  <2>1. \A c \in Conns : conn[c] = "backlog" => conn'[c] = conn[c]
    BY <1>2 DEF IdleScan, SlotsExact
  <2> QED
    BY <1>2, <2>1 DEF IdleScan
<1>3. CASE AcceptFails \/ AcceptTakes
  <2>1. CASE UNCHANGED <<conn, backlog>>
    BY <2>1
  <2>2. ASSUME backlog # <<>>, backlog' = Tail(backlog),
               NEW x, conn' = [conn EXCEPT ![Head(backlog)] = x]
        PROVE  BacklogInv'
    <3>1. /\ Len(backlog') = Len(backlog) - 1
          /\ \A i \in 1 .. Len(backlog') : backlog'[i] = backlog[i + 1]
          /\ \A i \in 1 .. Len(backlog) : backlog[i] \in Conns
          /\ Len(backlog) \in Nat /\ Len(backlog) > 0 /\ Head(backlog) = backlog[1]
      BY <2>2
    <3>2. \A i \in 1 .. Len(backlog') :
            /\ i + 1 \in 1 .. Len(backlog) /\ 1 \in 1 .. Len(backlog) /\ i + 1 # 1
      BY <3>1
    <3> QED
      BY <2>2, <3>1, <3>2
  <2> QED
    BY <1>3, <2>1, <2>2 DEF AcceptFails, AcceptTakes
<1>9. ASSUME NEW c \in Conns, conn[c] # "backlog", NEW x,
             conn' = [conn EXCEPT ![c] = x], backlog' = backlog
      PROVE  BacklogInv'
  <2>1. \A i \in 1 .. Len(backlog) : conn'[backlog[i]] = conn[backlog[i]]
    BY <1>9
  <2> QED
    BY <1>9, <2>1
<1>4. CASE AcceptRejects \/ AcceptPlaces
  <2>1. new_socket \in Conns /\ conn[new_socket] # "backlog" /\ backlog' = backlog
    BY <1>4 DEF AcceptRejects, AcceptPlaces, LifeInv
  <2> QED
    BY <1>4, <2>1, <1>9 DEF AcceptRejects, AcceptPlaces
<1>5. CASE HandleBadLength \/ ReceiveFails \/ ReplyFails
  <2>1. Current \in Conns /\ conn[Current] # "backlog" /\ backlog' = backlog
        /\ conn' = [conn EXCEPT ![Current] = "closed"]
    BY <1>5, DropFacts
  <2> QED
    BY <2>1, <1>9
<1>6. CASE StopScan
  BY <1>6 DEF StopScan, Shutdown
<1>7. CASE StopJoin
  BY <1>7 DEF StopJoin
<1>8. CASE UNCHANGED <<conn, backlog>>
  BY <1>8
<1> QED
  BY <1>1, <1>2, <1>3, <1>4, <1>5, <1>6, <1>7, <1>8
    DEF Next, Peer, ServerThread, Stop, Halted, PeerCloses, PeerSends,
      LoopExits, LoopEnters, SelectReady, SelectInterrupted, SelectTimesOut,
      AcceptSkipped, ProcessEnds, ProcessSkips, ProcessCalls, HandleRequest,
      HandleIgnored, ProcessContinues, ReplySent, Start, StartFails, StopFlag,
      StopListen, vars, peers

(* Every step keeps slots and sockets in agreement.                        *)
LEMMA SlotsStep ==
  ASSUME TypeOK, LifeInv, BacklogInv, SlotsExact, [Next]_vars
  PROVE  SlotsExact'
<1> USE CapAssumption, Sentinels DEF SlotsExact, Held, TypeOK
<1>1. ASSUME NEW c \in Conns, PeerConnects(c) PROVE SlotsExact'
  BY <1>1 DEF PeerConnects, server
<1>2. CASE IdleScan
  BY <1>2 DEF IdleScan
<1>3. CASE AcceptFails \/ AcceptTakes
  <2>1. CASE UNCHANGED <<conn, client_fds>>
    BY <2>1
  <2>2. ASSUME backlog # <<>>, UNCHANGED client_fds,
               NEW x \in {"closed", "accepted"},
               conn' = [conn EXCEPT ![Head(backlog)] = x]
        PROVE  SlotsExact'
    <3>1. Head(backlog) \in Conns /\ conn[Head(backlog)] = "backlog"
      BY <2>2, QueueFacts
    <3> QED
      BY <2>2, <3>1
  <2> QED
    BY <1>3, <2>1, <2>2 DEF AcceptFails, AcceptTakes
<1>4. CASE AcceptRejects
  BY <1>4 DEF AcceptRejects, LifeInv
<1>5. CASE AcceptPlaces
  <2>1. /\ new_socket \in Conns /\ conn[new_socket] = "accepted"
        /\ conn' = [conn EXCEPT ![new_socket] = "open"]
    BY <1>5 DEF AcceptPlaces, LifeInv
  <2>2. PICK i \in Slots : client_fds[i] = NoFd
                          /\ client_fds' = [client_fds EXCEPT ![i] = new_socket]
    BY <1>5 DEF AcceptPlaces, FreeSlots
  <2>3. Held' = Held \cup {new_socket}
    BY <2>1, <2>2
  <2>4. \A j \in Slots : client_fds[j] # new_socket
    BY <2>1
  <2>5. \A c \in Conns : (c \in Held)' <=> (conn[c] \in {"open", "shut"})'
    BY <2>1, <2>3
  <2> QED
    BY <2>1, <2>2, <2>4, <2>5
<1>6. CASE HandleBadLength \/ ReceiveFails \/ ReplyFails
  <2>1. /\ slot \in Slots /\ Current \in Conns /\ Current = client_fds[slot]
        /\ conn[Current] \in {"open", "shut"}
        /\ conn' = [conn EXCEPT ![Current] = "closed"]
        /\ client_fds' = [client_fds EXCEPT ![slot] = NoFd]
    BY <1>6, DropFacts
  <2>2. Held' = Held \ {Current}
    BY <2>1
  <2> QED
    BY <2>1, <2>2
<1>7. CASE StopScan
  BY <1>7 DEF StopScan, Shutdown, server
<1>8. CASE StopJoin
  BY <1>8 DEF StopJoin, LifeInv
<1>9. CASE Start
  BY <1>9 DEF Start, LifeInv, peers
<1>10. CASE UNCHANGED <<conn, client_fds>>
  BY <1>10
<1> QED
  BY <1>1, <1>2, <1>3, <1>4, <1>5, <1>6, <1>7, <1>8, <1>9, <1>10
    DEF Next, Peer, ServerThread, Stop, Halted, PeerCloses, PeerSends,
      LoopExits, LoopEnters, SelectReady, SelectInterrupted, SelectTimesOut,
      AcceptSkipped, ProcessEnds, ProcessSkips, ProcessCalls, HandleRequest,
      HandleIgnored, ProcessContinues, ReplySent, StartFails, StopFlag,
      StopListen, vars, peers, server

(* Every step keeps the link reports in agreement with the slots.          *)
LEMMA LinkStep ==
  ASSUME TypeOK, LifeInv, BacklogInv, SlotsExact, LinkAgrees, [Next]_vars
  PROVE  LinkAgrees'
<1> DEFINE Stopped == {c \in Conns : conn[c] = "stopped"}
<1> USE CapAssumption, Sentinels DEF LinkAgrees, TypeOK
<1>1. ASSUME NEW c \in Conns, PeerConnects(c) PROVE LinkAgrees'
  BY <1>1 DEF PeerConnects, server, Held
<1>2. CASE IdleScan
  BY <1>2 DEF IdleScan, Held
<1>3. CASE AcceptFails \/ AcceptTakes
  <2>1. Held' = Held /\ online' = online
    <3>1. client_fds' = client_fds /\ online' = online
      BY <1>3 DEF AcceptFails, AcceptTakes
    <3> QED
      BY <3>1 DEF Held
  <2>2. \A c \in Conns : conn'[c] = "stopped" <=> conn[c] = "stopped"
    BY <1>3, QueueFacts DEF AcceptFails, AcceptTakes
  <2> QED
    BY <2>1, <2>2
<1>4. CASE AcceptRejects
  BY <1>4 DEF AcceptRejects, LifeInv, Held
<1>5. CASE AcceptPlaces
  <2>1. /\ new_socket \in Conns /\ conn[new_socket] = "accepted"
        /\ conn' = [conn EXCEPT ![new_socket] = "open"]
        /\ online' = online \cup {new_socket}
    BY <1>5 DEF AcceptPlaces, LifeInv
  <2>2. PICK i \in Slots : client_fds[i] = NoFd
                          /\ client_fds' = [client_fds EXCEPT ![i] = new_socket]
    BY <1>5 DEF AcceptPlaces, FreeSlots
  <2>3. Held' = Held \cup {new_socket}
    BY <2>1, <2>2 DEF Held
  <2>4. Stopped' = Stopped
    BY <2>1
  <2> QED
    BY <2>1, <2>3, <2>4
<1>6. CASE HandleBadLength \/ ReceiveFails \/ ReplyFails
  <2>1. /\ slot \in Slots /\ Current \in Conns /\ Current = client_fds[slot]
        /\ conn[Current] \in {"open", "shut"}
        /\ conn' = [conn EXCEPT ![Current] = "closed"]
        /\ client_fds' = [client_fds EXCEPT ![slot] = NoFd]
        /\ online' = online \ {Current}
    BY <1>6, DropFacts
  <2>2. Held' = Held \ {Current}
    BY <2>1 DEF Held, SlotsExact
  <2>3. Stopped' = Stopped /\ Current \notin Stopped
    BY <2>1
  <2> QED
    BY <2>1, <2>2, <2>3
<1>7. CASE StopScan
  BY <1>7 DEF StopScan, Shutdown, server, Held
<1>8. CASE StopJoin
  <2>1. Held' = {} /\ online' = online
    BY <1>8 DEF StopJoin, Held
  <2>2. Stopped' = Stopped \cup Held
    BY <1>8, HeldFacts DEF StopJoin
  <2> QED
    BY <2>1, <2>2
<1>9. CASE Start
  BY <1>9 DEF Start, LifeInv, peers, Held
<1>10. CASE UNCHANGED <<conn, client_fds, online>>
  BY <1>10 DEF Held
<1> QED
  BY <1>1, <1>2, <1>3, <1>4, <1>5, <1>6, <1>7, <1>8, <1>9, <1>10
    DEF Next, Peer, ServerThread, Stop, Halted, PeerCloses, PeerSends,
      LoopExits, LoopEnters, SelectReady, SelectInterrupted, SelectTimesOut,
      AcceptSkipped, ProcessEnds, ProcessSkips, ProcessCalls, HandleRequest,
      HandleIgnored, ProcessContinues, ReplySent, StartFails, StopFlag,
      StopListen, vars, peers, server

(* The invariant holds initially and every step preserves it.              *)
LEMMA InitInv == Init => IInv
<1> SUFFICES ASSUME Init PROVE IInv
  OBVIOUS
<1> USE CapAssumption, BoundsAssumption, Sentinels DEF Init
<1>1. initialized \in BOOLEAN /\ keep_running \in BOOLEAN
  BY Zenon
<1>2. /\ backlog \in Seq(Conns) /\ input \in [Conns -> Seq(Frames)]
      /\ readfds \subseteq Conns \cup {Listen}
  OBVIOUS
<1>3. TypeOK
  BY <1>1, <1>2 DEF TypeOK, Slots
<1>4. LifeInv /\ BacklogInv
  BY DEF LifeInv, BacklogInv
<1>5. SlotsExact /\ LinkAgrees
  BY DEF SlotsExact, LinkAgrees, Held
<1> QED
  BY <1>3, <1>4, <1>5 DEF IInv

(* The invariant is inductive.                                             *)
LEMMA InductiveStep == IInv /\ [Next]_vars => IInv'
BY TypeStep, LifeStep, BacklogStep, SlotsStep, LinkStep DEF IInv

(* The inductive invariant of the TCP server, for every number of          *)
(* connections, slots, frames and starts, with or without signals.         *)
THEOREM Invariance == Spec => []IInv
BY InitInv, InductiveStep, PTL DEF Spec

(* The state of the server thread, the slots and the peers is well-typed.  *)
THEOREM TypeCorrect == Spec => []TypeOK
<1>1. IInv => TypeOK
  BY DEF IInv
<1> QED
  BY <1>1, Invariance, PTL

(* The slots hold exactly the open sockets, each once, also while          *)
(* mb_tcp_stop goes through them.                                          *)
THEOREM SlotsAreExact == Spec => []SlotsExact
<1>1. IInv => SlotsExact
  BY DEF IInv
<1> QED
  BY <1>1, Invariance, PTL

(* on_link has reported up, and not down, exactly the sockets in the slots *)
(* and those that mb_tcp_stop closed.                                      *)
THEOREM LinksAreReported == Spec => []LinkAgrees
<1>1. IInv => LinkAgrees
  BY DEF IInv
<1> QED
  BY <1>1, Invariance, PTL

(* When mb_tcp_stop has returned no socket is left open, wherever the      *)
(* server thread was when it was called.                                   *)
THEOREM StoppedMeansClosed == Spec => []StopClosesAll
<1>1. IInv => StopClosesAll
  <2> SUFFICES ASSUME IInv, ~initialized, NEW c \in Conns
               PROVE  conn[c] \in {"new", "closed", "stopped"}
    BY DEF StopClosesAll
  <2>1. Held = {}
    BY DEF IInv, LifeInv, Held
  <2>2. conn[c] \notin {"open", "shut", "backlog", "accepted"}
    BY <2>1 DEF IInv, LifeInv, SlotsExact
  <2> QED
    BY <2>2 DEF IInv, TypeOK
<1> QED
  BY <1>1, Invariance, PTL

-----------------------------------------------------------------------------
(* Without signals: what select() found readable stays so.                 *)

(* A step of another party leaves a readable socket readable.              *)
LEMMA StaysReadable ==
  ASSUME TypeOK, NEW c \in Conns, Readable(c), c \in eof => c \in eof',
         input'[c] = input[c] \/ input'[c] # <<>>,
         conn[c] = "shut" => conn'[c] = "shut"
  PROVE  Readable(c)'
BY DEF Readable

(* Serving the socket in slot i leaves those in later slots readable.      *)
LEMMA LaterSlots ==
  ASSUME TypeOK, SlotsExact, slot \in Slots,
         NEW i \in Slots, i > slot, NEW d \in Conns, d = client_fds[i],
         Readable(d),
         \A c \in Conns : c # client_fds[slot] =>
            input'[c] = input[c] /\ conn'[c] = conn[c],
         eof' = eof
  PROVE  Readable(d)'
<1>1. d # client_fds[slot]
  <2>1. i # slot /\ d # NoFd
    BY Sentinels, CapAssumption DEF Slots
  <2> QED
    BY <2>1 DEF SlotsExact
<1> QED
  BY <1>1 DEF Readable

(* Without signals, every step keeps the descriptors found ready by        *)
(* select() readable until they are served.                                *)
LEMMA ReadyStep ==
  ASSUME IInv, ReadyInv, Signals = FALSE, [Next]_vars
  PROVE  ReadyInv'
<1> TypeOK /\ LifeInv /\ BacklogInv /\ SlotsExact
  BY DEF IInv
<1>t. slot \in Int /\ Cap \in Nat /\ Slots \subseteq Int
  BY CapAssumption DEF TypeOK, Slots
<1>h. /\ readfds \subseteq Conns \cup {Listen}
      /\ \A i \in Slots : client_fds[i] \in Conns \cup {NoFd}
      /\ \A i \in Slots : client_fds[i] \in readfds => client_fds[i] \in Conns
  BY Sentinels DEF TypeOK
<1>1. ASSUME UNCHANGED <<client_fds, thread, readfds, slot>>,
             \A c \in Conns : c \in Held /\ Readable(c) => Readable(c)'
      PROVE  ReadyInv'
  BY <1>1, <1>h, Sentinels DEF ReadyInv, Held, Current
<1>2. CASE Peer
  <2>1. UNCHANGED <<client_fds, thread, readfds, slot>>
    BY <1>2 DEF Peer, PeerConnects, PeerCloses, PeerSends, server
  <2>2. ASSUME NEW c \in Conns, c \in Held, Readable(c) PROVE Readable(c)'
    <3>0. conn[c] \in {"open", "shut"}
      BY <2>2 DEF SlotsExact
    <3>1. c \in eof => c \in eof'
      BY <1>2, <3>0 DEF Peer, PeerConnects, PeerCloses, PeerSends
    <3>2. input'[c] = input[c] \/ input'[c] # <<>>
      BY <1>2, <3>0 DEF Peer, PeerConnects, PeerCloses, PeerSends, TypeOK
    <3>3. conn[c] = "shut" => conn'[c] = "shut"
      BY <1>2 DEF Peer, PeerConnects, PeerCloses, PeerSends, TypeOK
    <3> QED
      BY <2>2, <3>1, <3>2, <3>3, StaysReadable
  <2> QED
    BY <1>1, <2>1, <2>2
<1>3. CASE LoopExits \/ LoopEnters \/ SelectTimesOut \/ IdleScan \/ AcceptFails
           \/ AcceptRejects \/ ProcessEnds \/ Start \/ StopJoin
  BY <1>3 DEF LoopExits, LoopEnters, SelectTimesOut, IdleScan, AcceptFails,
    AcceptRejects, ProcessEnds, Start, StopJoin, ReadyInv
<1>4. CASE SelectReady
  <2>1. thread' = "accept" /\ readfds' = Ready /\ UNCHANGED <<client_fds, peers>>
    BY <1>4 DEF SelectReady
  <2>2. Held' = Held /\ \A c : Readable(c)' <=> Readable(c)
    BY <2>1 DEF Held, Readable, peers
  <2> QED
    BY <2>1, <2>2 DEF ReadyInv, Ready
<1>5. CASE AcceptSkipped
  <2>1. /\ thread = "accept" /\ thread' = "process" /\ slot' = 1
        /\ UNCHANGED <<client_fds, readfds, peers>>
    BY <1>5 DEF AcceptSkipped
  <2>2. \A c : Readable(c)' <=> Readable(c)
    BY <2>1 DEF Readable, peers
  <2> QED
    BY <2>1, <2>2, <1>h, Sentinels DEF ReadyInv
<1>6. CASE AcceptTakes
  <2>1. /\ thread = "accept" /\ thread' = "place" /\ backlog # <<>>
        /\ conn' = [conn EXCEPT ![Head(backlog)] = "accepted"]
        /\ UNCHANGED <<client_fds, readfds, input, eof>>
    BY <1>6 DEF AcceptTakes
  <2>2. Head(backlog) \in Conns /\ conn[Head(backlog)] = "backlog"
    BY <2>1, QueueFacts
  <2>3. \A c \in Conns : Readable(c) => Readable(c)'
    BY <2>1, <2>2 DEF Readable, TypeOK
  <2>4. Held' = Held
    BY <2>1 DEF Held
  <2> QED
    BY <2>1, <2>3, <2>4, <1>h DEF ReadyInv
<1>7. CASE AcceptPlaces
  <2>1. /\ thread = "place" /\ thread' = "process" /\ slot' = 1
        /\ conn' = [conn EXCEPT ![new_socket] = "open"]
        /\ UNCHANGED <<readfds, input, eof>>
    BY <1>7 DEF AcceptPlaces
  <2>2. new_socket \in Conns /\ conn[new_socket] = "accepted"
    BY <2>1 DEF LifeInv
  <2>3. new_socket \notin Held /\ new_socket # Listen
    BY <2>2, Sentinels DEF SlotsExact
  <2>4. new_socket \notin readfds
    BY <2>1, <2>3 DEF ReadyInv
  <2>5. \A c \in Conns : Readable(c) => Readable(c)'
    BY <2>1, <2>2 DEF Readable, TypeOK
  <2>6. PICK i \in Slots : client_fds' = [client_fds EXCEPT ![i] = new_socket]
    BY <1>7 DEF AcceptPlaces, FreeSlots
  <2>7. ASSUME NEW j \in Slots, client_fds'[j] \in readfds
        PROVE  Readable(client_fds[j])'
    <3>1. client_fds'[j] = client_fds[j] /\ client_fds[j] \in Conns
      BY <2>4, <2>6, <2>7, <1>h DEF TypeOK
    <3>2. PICK d \in Conns : d = client_fds[j]
      BY <3>1
    <3>3. Readable(d)
      BY <3>1, <3>2, <2>1, <2>7, Sentinels DEF ReadyInv
    <3>4. Readable(d)'
      BY <3>3, <2>5
    <3> QED
      BY <3>1, <3>2, <3>4 DEF Readable
  <2> QED
    BY <2>1, <2>7 DEF ReadyInv
<1>8. CASE ProcessSkips \/ ProcessCalls
  <2>1. /\ thread = "process" /\ UNCHANGED <<client_fds, readfds, peers>>
        /\ \/ thread' = "process" /\ slot' = slot + 1 /\ client_fds[slot] \notin readfds
           \/ thread' = "recv" /\ slot' = slot /\ client_fds[slot] \in readfds
    BY <1>8 DEF ProcessSkips, ProcessCalls
  <2>2. \A c : Readable(c)' <=> Readable(c)
    BY <2>1 DEF Readable, peers
  <2> QED
    BY <2>1, <2>2, <1>t DEF ReadyInv, Current
<1>9. CASE HandleRequest \/ HandleIgnored \/ HandleBadLength \/ ReceiveFails
           \/ ReplySent \/ ReplyFails
  <2>1. thread \in {"recv", "send"} /\ slot \in Slots
    BY <1>9 DEF HandleRequest, HandleIgnored, HandleBadLength, ReceiveFails,
      ReplySent, ReplyFails, LifeInv
  <2>2. /\ readfds' = readfds /\ eof' = eof
        /\ \/ thread' = "send" /\ slot' = slot
           \/ thread' = "process" /\ slot' = slot + 1
    BY <1>9 DEF HandleRequest, HandleIgnored, HandleBadLength, ReceiveFails,
      ReplySent, ReplyFails, ProcessContinues, ProcessDrops
  <2>3. \A c \in Conns : c # client_fds[slot] =>
          input'[c] = input[c] /\ conn'[c] = conn[c]
    BY <1>9 DEF HandleRequest, HandleIgnored, HandleBadLength, ReceiveFails,
      ReplySent, ReplyFails, ProcessContinues, ProcessDrops, Current, TypeOK
  <2>4. \A i \in Slots : i # slot => client_fds'[i] = client_fds[i]
    BY <1>9 DEF HandleRequest, HandleIgnored, HandleBadLength, ReceiveFails,
      ReplySent, ReplyFails, ProcessContinues, ProcessDrops, TypeOK
  <2>5. ASSUME NEW i \in Slots, i > slot, client_fds'[i] \in readfds'
        PROVE  Readable(client_fds[i])'
    <3>1. client_fds'[i] = client_fds[i] /\ client_fds[i] \in readfds
      BY <2>2, <2>4, <2>5, <1>t
    <3>2. PICK d \in Conns : d = client_fds[i]
      BY <3>1, <1>h
    <3>3. Readable(d)
      BY <3>1, <3>2, <2>1, <2>5, <1>t DEF ReadyInv
    <3>4. Readable(d)'
      BY <3>2, <3>3, <2>1, <2>2, <2>3, <2>5, LaterSlots
    <3> QED
      BY <3>1, <3>2, <3>4 DEF Readable
  <2> QED
    BY <2>1, <2>2, <2>5, <1>t DEF ReadyInv
<1>10. CASE StopScan
  <2>1. UNCHANGED <<client_fds, thread, readfds, slot, input, eof>>
    BY <1>10 DEF StopScan, server
  <2>2. \A c \in Conns : conn[c] = "shut" => conn'[c] = "shut"
    BY <1>10 DEF StopScan, Shutdown, TypeOK
  <2>3. \A c \in Conns : Readable(c) => Readable(c)'
    BY <2>1, <2>2 DEF Readable
  <2> QED
    BY <1>1, <2>1, <2>3
<1>11. CASE StartFails \/ StopFlag \/ StopListen \/ UNCHANGED vars
  <2>1. UNCHANGED <<client_fds, thread, readfds, slot, input, eof, conn>>
    BY <1>11 DEF StartFails, StopFlag, StopListen, vars, server, peers
  <2> QED
    BY <1>1, <2>1 DEF Readable
<1> QED
  BY <1>2, <1>3, <1>4, <1>5, <1>6, <1>7, <1>8, <1>9, <1>10, <1>11
    DEF Next, ServerThread, Stop, Halted, SelectInterrupted

(* Without signals the process loop works on fresh results of select().    *)
THEOREM ReadyInvariance ==
  ASSUME Signals = FALSE
  PROVE  Spec => []ReadyInv
<1>1. Init => ReadyInv
  BY DEF Init, ReadyInv
<1>2. IInv /\ ReadyInv /\ [Next]_vars => ReadyInv'
  BY ReadyStep
<1> QED
  BY <1>1, <1>2, Invariance, PTL DEF Spec

(* Without signals server_on_process is called for readable sockets only.  *)
THEOREM CalledForReadable ==
  ASSUME Signals = FALSE
  PROVE  Spec => []CalledWhenReadable
<1>1. IInv /\ ReadyInv => CalledWhenReadable
  <2> SUFFICES ASSUME IInv, ReadyInv, thread = "recv" PROVE Readable(Current)
    BY DEF CalledWhenReadable
  <2>1. slot \in Slots /\ client_fds[slot] \in readfds /\ ~(slot < slot)
    BY CapAssumption DEF IInv, LifeInv, ReadyInv, Current, Slots
  <2> QED
    BY <2>1 DEF ReadyInv, Current
<1> QED
  BY <1>1, Invariance, ReadyInvariance, PTL

(* Without signals the server thread closes a connection only when its     *)
(* peer has closed it or has sent a malformed or incomplete frame.         *)
THEOREM HealthyPeersAreKept ==
  ASSUME Signals = FALSE
  PROVE  Spec => HealthyKept
<1> DEFINE Kept ==
      \A c \in Conns : conn[c] = "open" /\ conn'[c] = "closed" =>
        \/ c \in eof
        \/ input[c] # <<>> /\ Head(input[c]) \in {"badlen", "partial"}
<1>1. ASSUME IInv, CalledWhenReadable, [Next]_vars
      PROVE  [Kept]_vars
  <2> SUFFICES ASSUME NEW c \in Conns, conn[c] = "open", conn'[c] = "closed"
               PROVE  \/ c \in eof
                      \/ input[c] # <<>> /\ Head(input[c]) \in {"badlen", "partial"}
    OBVIOUS
  <2> TypeOK /\ LifeInv /\ BacklogInv /\ SlotsExact
    BY <1>1 DEF IInv
  <2>1. CASE IdleScan
    BY <2>1 DEF IdleScan, AtEof
  <2>2. CASE HandleBadLength \/ ReceiveFails \/ ReplyFails
    <3>1. c = Current
      BY <2>2, DropFacts DEF TypeOK
    <3>2. CASE HandleBadLength
      BY <3>1, <3>2 DEF HandleBadLength, NextFrame
    <3>3. CASE ReceiveFails
      BY <3>1, <3>3, <1>1 DEF ReceiveFails, CalledWhenReadable, Readable
    <3>4. CASE ReplyFails
      BY <3>1, <3>4 DEF ReplyFails
    <3> QED
      BY <2>2, <3>2, <3>3, <3>4
  <2>3. conn'[c] = conn[c] \/ conn'[c] # "closed" \/ IdleScan
        \/ HandleBadLength \/ ReceiveFails \/ ReplyFails
    <3>1. ASSUME AcceptFails \/ AcceptTakes PROVE conn'[c] = conn[c]
      BY <3>1, QueueFacts DEF AcceptFails, AcceptTakes, TypeOK
    <3>2. ASSUME AcceptRejects \/ AcceptPlaces PROVE conn'[c] = conn[c]
      BY <3>2 DEF AcceptRejects, AcceptPlaces, LifeInv, TypeOK
    <3>3. ASSUME StopScan \/ StopJoin PROVE conn'[c] # "closed"
      BY <3>3 DEF StopScan, Shutdown, StopJoin, TypeOK
    <3>4. ASSUME Peer PROVE conn'[c] # "closed"
      BY <3>4 DEF Peer, PeerConnects, PeerCloses, PeerSends, TypeOK
    <3> QED
      BY <3>1, <3>2, <3>3, <3>4, <1>1
        DEF Next, ServerThread, Stop, Halted, LoopExits, LoopEnters, SelectReady,
          SelectInterrupted, SelectTimesOut, AcceptSkipped, ProcessEnds,
          ProcessSkips, ProcessCalls, HandleRequest, HandleIgnored,
          ProcessContinues, ReplySent, Start, StartFails, StopFlag, StopListen,
          vars, peers
  <2> QED
    BY <2>1, <2>2, <2>3
<1>2. Spec => [][Kept]_vars
  BY <1>1, Invariance, CalledForReadable, PTL DEF Spec
<1> QED
  BY <1>2 DEF HealthyKept
=============================================================================
