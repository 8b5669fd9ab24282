-------------------------- MODULE TcpConnectProofs ---------------------------
(***************************************************************************)
(* Proofs, for every set of descriptors, every cycle of transaction ids    *)
(* and all arguments of the builders, of the safety properties of          *)
(* TcpConnect.                                                             *)
(***************************************************************************)
EXTENDS TcpConnect, ModbusFramesProofs

Ours == {"link", "linkshut"}

(* Who is where between mb_tcp_start and mb_tcp_stop, and that the lock    *)
(* lives exactly that long.                                                *)
LifeInv ==
  /\ initialized <=> thread # "none"
  /\ initialized <=> lock # "none"
  /\ stop # "idle" => initialized
  /\ build["app"] # "idle" => initialized /\ stop = "idle"
  /\ build["link"] # "idle" => thread = "process"

(* The socket, from its opening to its closing: where the thread is tells  *)
(* whether it has one, whether mb_tcp_stop can see it and whether it has   *)
(* been reported.                                                          *)
SockInv ==
  /\ \A n \in Fds : fd[n] \in Ours => n = sock /\ thread \notin {"none", "clear"}
  /\ thread \in {"connecting", "publish", "process", "processed", "close"} =>
       sock \in Fds /\ fd[sock] \in Ours
  /\ thread \in {"top", "exit"} /\ sock # NoFd => sock \in Fds /\ fd[sock] \in Ours
  /\ thread \in {"none", "connect", "connecting", "publish", "retry"} =>
       stream_sock = NoFd
  /\ thread \in {"top", "process", "processed", "close", "clear", "exit"} =>
       stream_sock = sock
  /\ thread # "none" => (connected <=> stream_sock # NoFd)
  /\ thread \in {"connect", "retry"} => sock = NoFd
  /\ online = IF thread \in {"top", "process", "processed"} THEN {sock} \cap Fds ELSE {}

(* Who draws holds the lock and has loaded the current id; counting back   *)
(* from that id, with the wrap, gives the ids drawn before.                *)
OnCycle(s, id) ==
  \A i \in 1 .. Len(s) : s[i] \in {id - (Len(s) - i), id - (Len(s) - i) + MaxTid}

DrawInv ==
  /\ \A b \in Builders : build[b] = "draw" => lock = b /\ seen[b] = tid
  /\ recent \in Seq(1 .. MaxTid) /\ Len(recent) <= MaxTid
  /\ initialized => OnCycle(recent, tid)
  /\ \A i, j \in 1 .. Len(recent) : recent[i] = recent[j] => i = j

(* A frame is what the builder makes of its arguments and of an id.        *)
FrameInv ==
  \A b \in Builders :
    /\ build[b] \in {"lock", "draw"} => req[b] \in Requests
    /\ build[b] = "built" /\ frame[b] # Refused =>
         req[b] \in Requests /\ \E id \in 1 .. MaxTid : frame[b] = Built(req[b], id)

IInv == TypeOK /\ LifeInv /\ SockInv /\ DrawInv /\ FrameInv


USE FdsAssumption, TidAssumption, StartsAssumption

-----------------------------------------------------------------------------
(* Who is where.                                                           *)

(* What every thread does to the bookkeeping of start and stop.            *)
LEMMA LifeStep == IInv /\ [Next]_vars => LifeInv'
<1> SUFFICES ASSUME IInv, [Next]_vars PROVE LifeInv'
  OBVIOUS
<1>1. TypeOK /\ LifeInv
  BY DEF IInv
<1> USE <1>1 DEF TypeOK, LifeInv, Builders
<1>2. CASE UNCHANGED vars
  BY <1>2 DEF vars, app, link, builder
<1>3. CASE ClientThread
  BY <1>3 DEF ClientThread, LoopExits, LoopEnters, SocketOpens, SocketFails, ConnectFails,
     ConnectSucceeds, LinkUp, RetryEnds, ProcessContinues, ProcessFails, LinkCloses,
     LinkClears, InProcess, Goto, app, builder
<1>4. CASE Start \/ StartFails
  BY <1>4 DEF Start, StartFails, link
<1>5. CASE StopFlag \/ Stop
  BY <1>5 DEF StopFlag, Stop, StopReads, StopShuts, StopJoin, link, builder
<1>6. CASE OtherOpens \/ \E n \in Fds : OtherCloses(n)
  BY <1>6 DEF OtherOpens, OtherCloses, app, link, builder
<1>7. ASSUME NEW b \in Builders, BuildGoesOn(b) PROVE LifeInv'
  BY <1>7 DEF BuildGoesOn, BuildLocks, BuildDraws, BuildUsed, app, link
<1>8. ASSUME NEW b \in Builders, NEW r \in Requests, BuildRefuses(b, r) \/ BuildBegins(b, r)
      PROVE  LifeInv'
  BY <1>8 DEF BuildRefuses, BuildBegins, MayBuild, app, link
<1> QED
  BY <1>2, <1>3, <1>4, <1>5, <1>6, <1>7, <1>8 DEF Next

-----------------------------------------------------------------------------
(* The socket.                                                             *)

(* Every step keeps the socket's book-keeping.                             *)
LEMMA SockStep == IInv /\ [Next]_vars => SockInv'
<1> SUFFICES ASSUME IInv, [Next]_vars PROVE SockInv'
  OBVIOUS
<1>1. TypeOK /\ LifeInv /\ SockInv
  BY DEF IInv
<1>0. NoFd \notin Fds
  BY DEF NoFd
<1> USE <1>0, <1>1 DEF TypeOK, LifeInv, SockInv, Ours, Strange
<1>2. CASE UNCHANGED vars
  BY <1>2 DEF vars, app, link, builder
<1>3. CASE LoopExits \/ LoopEnters
  BY <1>3 DEF LoopExits, LoopEnters, Goto
<1>4. CASE SocketOpens
  BY <1>4 DEF SocketOpens, LowestFree, Goto
<1>5. CASE SocketFails
  BY <1>5 DEF SocketFails, Goto
<1>6. CASE ConnectFails
  BY <1>6 DEF ConnectFails, Closed, Goto
<1>7. CASE ConnectSucceeds \/ LinkUp
  BY <1>7 DEF ConnectSucceeds, LinkUp, Goto
<1>8. CASE RetryEnds \/ ProcessContinues \/ ProcessFails
  BY <1>8 DEF RetryEnds, ProcessContinues, ProcessFails, InProcess, Goto
<1>9. CASE LinkCloses
  BY <1>9 DEF LinkCloses, Closed, Goto
<1>10. CASE LinkClears
  BY <1>10 DEF LinkClears, Goto
<1>11. CASE Start
  BY <1>11 DEF Start
<1>12. CASE StartFails \/ StopFlag \/ StopReads
  BY <1>12 DEF StartFails, StopFlag, StopReads, link
<1>13. CASE StopShuts
  BY <1>13 DEF StopShuts, link
<1>14. CASE StopJoin
  BY <1>14 DEF StopJoin, Closed
<1>15. CASE OtherOpens
  BY <1>15 DEF OtherOpens, LowestFree, link
<1>16. ASSUME NEW n \in Fds, OtherCloses(n) PROVE SockInv'
  BY <1>16 DEF OtherCloses, Closed, link
<1>17. ASSUME NEW b \in Builders, BuildGoesOn(b) PROVE SockInv'
  BY <1>17 DEF BuildGoesOn, BuildLocks, BuildDraws, BuildUsed, link, Builders
<1>18. ASSUME NEW b \in Builders, NEW r \in Requests, BuildRefuses(b, r) \/ BuildBegins(b, r)
       PROVE  SockInv'
  BY <1>18 DEF BuildRefuses, BuildBegins, link
<1> QED
  BY <1>2, <1>3, <1>4, <1>5, <1>6, <1>7, <1>8, <1>9, <1>10, <1>11, <1>12, <1>13, <1>14,
     <1>15, <1>16, <1>17, <1>18 DEF Next, ClientThread, Stop

-----------------------------------------------------------------------------
(* The transaction ids.                                                    *)

(* Ids that lie on the cycle, at most MaxTid of them, are distinct.        *)
LEMMA CycleDistinct ==
  ASSUME NEW s \in Seq(1 .. MaxTid), Len(s) <= MaxTid, NEW id \in 0 .. MaxTid,
         OnCycle(s, id)
  PROVE  \A i, j \in 1 .. Len(s) : s[i] = s[j] => i = j
<1> MaxTid \in Nat /\ MaxTid >= 1
  BY SMT DEF U16
<1> SUFFICES ASSUME NEW i \in 1 .. Len(s), NEW j \in 1 .. Len(s), s[i] = s[j]
             PROVE  i = j
  OBVIOUS
<1>1. /\ s[i] \in {id - (Len(s) - i), id - (Len(s) - i) + MaxTid}
      /\ s[j] \in {id - (Len(s) - j), id - (Len(s) - j) + MaxTid}
  BY DEF OnCycle
<1>2. PICK n \in Nat : n = Len(s)
  OBVIOUS
<1>3. i \in 1 .. n /\ j \in 1 .. n /\ n <= MaxTid
  BY <1>2
<1> QED
  BY <1>1, <1>2, <1>3

(* The id after id, with the wrap that leaves 0 out.                       *)
Following(id) == IF id < MaxTid THEN id + 1 ELSE 1

(* Drawing the next id, and forgetting the oldest, stays on the cycle.     *)
LEMMA CycleGrows ==
  ASSUME NEW s \in Seq(1 .. MaxTid), Len(s) <= MaxTid, NEW id \in 0 .. MaxTid,
         OnCycle(s, id)
  PROVE  /\ Following(id) \in 1 .. MaxTid
         /\ Last(Append(s, Following(id)), MaxTid) \in Seq(1 .. MaxTid)
         /\ Len(Last(Append(s, Following(id)), MaxTid)) <= MaxTid
         /\ OnCycle(Last(Append(s, Following(id)), MaxTid), Following(id))
<1>0. MaxTid \in Nat /\ MaxTid >= 1
  BY SMT DEF U16
<1>1. PICK d \in 1 .. MaxTid : d = Following(id) /\ d = IF id < MaxTid THEN id + 1 ELSE 1
  BY <1>0 DEF Following
<1>2. PICK n \in Nat : n = Len(s) /\ n <= MaxTid
  OBVIOUS
<1>3. PICK u \in Seq(1 .. MaxTid) :
        /\ u = Append(s, d) /\ Len(u) = n + 1 /\ u[n + 1] = d
        /\ \A i \in 1 .. n : u[i] = s[i]
  <2>1. Append(s, d) \in Seq(1 .. MaxTid) /\ Len(Append(s, d)) = Len(s) + 1
    OBVIOUS
  <2>2. Append(s, d)[Len(s) + 1] = d
    OBVIOUS
  <2>3. ASSUME NEW i \in 1 .. Len(s) PROVE Append(s, d)[i] = s[i]
    OBVIOUS
  <2> QED
    BY <1>2, <2>1, <2>2, <2>3, Zenon
<1>4. ASSUME NEW i \in 1 .. n + 1
      PROVE  u[i] \in {d - (n + 1 - i), d - (n + 1 - i) + MaxTid}
  <2>1. CASE i = n + 1
    BY <1>0, <1>3, <2>1
  <2>2. CASE i \in 1 .. n
    <3>1. s[i] \in {id - (n - i), id - (n - i) + MaxTid} /\ s[i] \in 1 .. MaxTid
      <4>1. i \in 1 .. Len(s)
        BY <1>2, <2>2
      <4>2. s[i] \in {id - (Len(s) - i), id - (Len(s) - i) + MaxTid}
        BY <4>1, Zenon DEF OnCycle
      <4>3. s[i] \in 1 .. MaxTid
        BY <1>0, <4>1
      <4> QED
        BY <1>2, <4>2, <4>3, Zenon
    <3>2. PICK x \in 1 .. MaxTid : x = s[i] /\ x = u[i]
      BY <1>3, <2>2, <3>1
    <3>3. x \in {d - (n + 1 - i), d - (n + 1 - i) + MaxTid}
      BY <1>0, <1>1, <1>2, <2>2, <3>1, <3>2
    <3> QED
      BY <3>2, <3>3
  <2> QED
    BY <2>1, <2>2
<1>5. CASE n + 1 <= MaxTid
  <2>1. Last(u, MaxTid) = u
    BY <1>0, <1>3, <1>5 DEF Last
  <2>2. OnCycle(u, d)
    <3> SUFFICES ASSUME NEW i \in 1 .. Len(u)
                 PROVE  u[i] \in {d - (Len(u) - i), d - (Len(u) - i) + MaxTid}
      BY DEF OnCycle
    <3>1. i \in 1 .. n + 1 /\ Len(u) = n + 1
      BY <1>3, Zenon
    <3>2. u[i] \in {d - (n + 1 - i), d - (n + 1 - i) + MaxTid}
      BY <1>4, <3>1, Zenon
    <3> QED
      BY <3>1, <3>2
  <2>3. Len(u) <= MaxTid
    BY <1>3, <1>5
  <2> QED
    BY <1>1, <1>3, <2>1, <2>2, <2>3, Zenon
<1>6. CASE n = MaxTid
  <2>1. PICK t \in Seq(1 .. MaxTid) :
          /\ t = Last(u, MaxTid) /\ Len(t) = MaxTid
          /\ \A i \in 1 .. MaxTid : t[i] = u[i + 1]
    <3>1. Last(u, MaxTid) = SubSeq(u, 2, MaxTid + 1)
      BY <1>0, <1>3, <1>6 DEF Last
    <3>2. MaxTid + 1 \in Nat /\ 2 <= MaxTid + 1 + 1 /\ Len(u) = MaxTid + 1
      BY <1>0, <1>3, <1>6
    <3>3. /\ SubSeq(u, 2, MaxTid + 1) \in Seq(1 .. MaxTid)
          /\ Len(SubSeq(u, 2, MaxTid + 1)) = MaxTid
      BY <1>0, <3>2
    <3>4. ASSUME NEW i \in 1 .. MaxTid PROVE SubSeq(u, 2, MaxTid + 1)[i] = u[i + 1]
      BY <1>0, <3>2
    <3> QED
      BY <3>1, <3>3, <3>4, Zenon
  <2>2. ASSUME NEW i \in 1 .. MaxTid
        PROVE  t[i] \in {d - (MaxTid - i), d - (MaxTid - i) + MaxTid}
    <3>1. i + 1 \in 1 .. n + 1 /\ n + 1 - (i + 1) = MaxTid - i
      BY <1>0, <1>6
    <3> QED
      BY <1>4, <2>1, <3>1
  <2>3. OnCycle(t, d)
    BY <2>1, <2>2 DEF OnCycle
  <2> QED
    BY <1>0, <1>1, <1>3, <2>1, <2>3
<1> QED
  BY <1>0, <1>2, <1>5, <1>6

(* Every step keeps the drawing of transaction ids in order.               *)
LEMMA DrawStep == IInv /\ [Next]_vars => DrawInv'
<1> SUFFICES ASSUME IInv, [Next]_vars PROVE DrawInv'
  OBVIOUS
<1>1. TypeOK /\ LifeInv /\ DrawInv
  BY DEF IInv
<1>2. ASSUME UNCHANGED <<lock, tid, build, seen, recent, initialized>> PROVE DrawInv'
  BY <1>1, <1>2 DEF DrawInv, OnCycle
<1>3. ASSUME UNCHANGED builder, initialized' = initialized PROVE DrawInv'
  BY <1>2, <1>3 DEF builder
<1>4. CASE UNCHANGED vars
  BY <1>3, <1>4 DEF vars, app
<1>5. CASE ClientThread
  BY <1>3, <1>5 DEF ClientThread, LoopExits, LoopEnters, SocketOpens, SocketFails,
     ConnectFails, ConnectSucceeds, LinkUp, RetryEnds, ProcessContinues, ProcessFails,
     LinkCloses, LinkClears, app
<1>6. CASE Start
  <2>1. recent' = <<>> /\ build' = build
    BY <1>6 DEF Start
  <2>2. \A b \in Builders : build[b] # "draw"
    BY <1>1, <1>6 DEF Start, TypeOK, LifeInv, Builders
  <2>3. Len(recent') = 0 /\ recent' \in Seq(1 .. MaxTid) /\ 0 <= MaxTid
    BY <2>1, SMT DEF U16
  <2> QED
    BY <2>1, <2>2, <2>3 DEF DrawInv, OnCycle
<1>7. CASE StartFails
  <2>1. UNCHANGED <<lock, build, seen, recent, initialized>> /\ ~initialized
    BY <1>7 DEF StartFails
  <2>2. \A b \in Builders : build[b] # "draw"
    BY <1>1, <1>7 DEF StartFails, TypeOK, LifeInv, Builders
  <2> QED
    BY <1>1, <2>1, <2>2 DEF DrawInv
<1>8. CASE StopFlag \/ StopReads \/ StopShuts
  BY <1>3, <1>8 DEF StopFlag, StopReads, StopShuts
<1>9. CASE StopJoin
  <2>1. UNCHANGED <<build, seen, recent, tid>> /\ ~initialized'
    BY <1>9 DEF StopJoin
  <2>2. \A b \in Builders : build[b] # "draw"
    BY <1>1, <1>9 DEF StopJoin, TypeOK, LifeInv, Builders
  <2> QED
    BY <1>1, <2>1, <2>2 DEF DrawInv
<1>10. CASE OtherOpens \/ \E n \in Fds : OtherCloses(n)
  BY <1>3, <1>10 DEF OtherOpens, OtherCloses, app
<1>11. ASSUME NEW b \in Builders, NEW r \in Requests, BuildRefuses(b, r) \/ BuildBegins(b, r)
       PROVE  DrawInv'
  <2>1. UNCHANGED <<lock, tid, seen, recent, initialized>>
    BY <1>11 DEF BuildRefuses, BuildBegins, app
  <2>2. \A c \in Builders : build'[c] = "draw" => build[c] = "draw"
    BY <1>1, <1>11 DEF BuildRefuses, BuildBegins, TypeOK
  <2> QED
    BY <1>1, <2>1, <2>2 DEF DrawInv, OnCycle
<1>12. ASSUME NEW b \in Builders, BuildLocks(b) PROVE DrawInv'
  <2>1. /\ UNCHANGED <<tid, recent, initialized>> /\ lock = "free" /\ lock' = b
        /\ build' = [build EXCEPT ![b] = "draw"] /\ seen' = [seen EXCEPT ![b] = tid]
    BY <1>12 DEF BuildLocks, app
  <2>2. \A c \in Builders : build'[c] = "draw" => lock' = c /\ seen'[c] = tid'
    BY <1>1, <2>1 DEF DrawInv, TypeOK, Builders
  <2> QED
    BY <1>1, <2>1, <2>2 DEF DrawInv, OnCycle
<1>13. ASSUME NEW b \in Builders, BuildDraws(b) PROVE DrawInv'
  <2>1. /\ build[b] = "draw" /\ tid' = Drawn(b) /\ lock' = "free"
        /\ recent' = Last(Append(recent, Drawn(b)), MaxTid)
        /\ build' = [build EXCEPT ![b] = "built"]
    BY <1>13 DEF BuildDraws
  <2>2. \A c \in Builders : build'[c] # "draw"
    BY <1>1, <2>1 DEF DrawInv, TypeOK, Builders
  <2>3. Drawn(b) = Following(tid)
    BY <1>1, <2>1 DEF DrawInv, Drawn, Following
  <2>4. initialized
    BY <1>1, <2>1 DEF LifeInv, Builders
  <2>5. /\ recent' \in Seq(1 .. MaxTid) /\ Len(recent') <= MaxTid /\ tid' \in 1 .. MaxTid
        /\ OnCycle(recent', tid')
    BY <1>1, <2>1, <2>3, <2>4, CycleGrows DEF DrawInv, TypeOK
  <2>6. \A i, j \in 1 .. Len(recent') : recent'[i] = recent'[j] => i = j
    BY <2>5, CycleDistinct
  <2> QED
    BY <2>2, <2>5, <2>6 DEF DrawInv, OnCycle
<1>14. ASSUME NEW b \in Builders, BuildUsed(b) PROVE DrawInv'
  <2>1. UNCHANGED <<lock, tid, seen, recent, initialized>>
    BY <1>14 DEF BuildUsed, app
  <2>2. \A c \in Builders : build'[c] = "draw" => build[c] = "draw"
    BY <1>1, <1>14 DEF BuildUsed, TypeOK
  <2> QED
    BY <1>1, <2>1, <2>2 DEF DrawInv, OnCycle
<1> QED
  BY <1>4, <1>5, <1>6, <1>7, <1>8, <1>9, <1>10, <1>11, <1>12, <1>13, <1>14
     DEF Next, Stop, BuildGoesOn

-----------------------------------------------------------------------------
(* The frames.                                                             *)

(* What a builder is asked for.                                            *)
AskedFc(r) == IF r.op = "basis" THEN r.fc
              ELSE IF r.op = "fc06" THEN WRITE_SINGLE_REGISTER
              ELSE WRITE_MULTIPLE_REGISTERS
AskedQty(r) == IF r.op = "basis" THEN r.nb
               ELSE IF r.op = "fc06" THEN r.value ELSE Len(r.values)

(* A transaction id fits its field.                                        *)
LEMMA TidWord == ASSUME NEW id \in 0 .. MaxTid PROVE Word(id)
<1>1. MaxTid \in Nat /\ MaxTid <= 65535
  BY SMT DEF U16
<1> QED
  BY <1>1 DEF Word

(* A builder that does not refuse makes a frame of its arguments.          *)
LEMMA BuiltFrame ==
  ASSUME NEW r \in Requests, NEW id, Word(id), Built(r, id) # Refused
  PROVE  /\ Frames(Built(r, id), id, AskedFc(r), r.addr, AskedQty(r))
         /\ Word(r.addr) /\ Word(AskedQty(r)) /\ AskedFc(r) \in U8 /\ r.unit \in U8
<1>1. CASE r \in BasisArgs
  <2>1. /\ r.op = "basis" /\ r.unit \in U8 /\ r.fc \in Int /\ r.addr \in Int
        /\ r.nb \in U16 /\ r.cap \in Nat
    BY <1>1 DEF BasisArgs
  <2>2. Built(r, id) = tcp_build_request_basis(id, r.unit, r.fc, r.addr, r.nb, r.cap)
    BY <2>1, Zenon DEF Built
  <2>3. Frames(Built(r, id), id, r.fc, r.addr, r.nb)
    BY <2>1, <2>2, BasisFrame
  <2>4. r.fc \in U8 /\ r.addr \in U16
    BY <2>2, Zenon DEF tcp_build_request_basis
  <2>5. AskedFc(r) = r.fc /\ AskedQty(r) = r.nb
    BY <2>1, Zenon DEF AskedFc, AskedQty
  <2>6. Word(r.addr) /\ Word(r.nb)
    BY <2>1, <2>4, WordOf
  <2> QED
    BY <2>1, <2>3, <2>4, <2>5, <2>6, Zenon
<1>2. CASE r \in Fc06Args
  <2>1. /\ r.op = "fc06" /\ r.unit \in U8 /\ r.addr \in U16
        /\ r.value \in U16 /\ r.cap \in Nat
    BY <1>2 DEF Fc06Args
  <2>2. "fc06" # "basis"
    OBVIOUS
  <2>3. Built(r, id) = tcp_build_fc06_request(id, r.unit, r.addr, r.value, r.cap)
    BY <2>1 DEF Built
  <2>4. Frames(Built(r, id), id, WRITE_SINGLE_REGISTER, r.addr, r.value)
    BY <2>1, <2>3, Fc06Frame
  <2>5. AskedFc(r) = WRITE_SINGLE_REGISTER /\ AskedQty(r) = r.value
    BY <2>1, <2>2, Zenon DEF AskedFc, AskedQty
  <2>6. Word(r.addr) /\ Word(r.value)
    BY <2>1, WordOf
  <2>7. WRITE_SINGLE_REGISTER \in U8
    BY SMT DEF WRITE_SINGLE_REGISTER, U8
  <2> QED
    BY <2>1, <2>4, <2>5, <2>6, <2>7, Zenon
<1>3. CASE r \in Fc16Args
  <2>1. /\ r.op = "fc16" /\ r.unit \in U8 /\ r.addr \in U16
        /\ r.values \in Seq(U16) /\ r.cap \in Nat
    BY <1>3 DEF Fc16Args
  <2>2. "fc16" # "basis" /\ "fc16" # "fc06"
    OBVIOUS
  <2>3. Built(r, id) = tcp_build_fc16_request(id, r.unit, r.addr, r.values, r.cap)
    BY <2>1 DEF Built
  <2>4. /\ Frames(Built(r, id), id, WRITE_MULTIPLE_REGISTERS, r.addr, Len(r.values))
    BY <2>1, <2>3, Fc16Frame
  <2>5. AskedFc(r) = WRITE_MULTIPLE_REGISTERS /\ AskedQty(r) = Len(r.values)
    BY <2>1, <2>2, Zenon DEF AskedFc, AskedQty
  <2>6. Word(r.addr)
    BY <2>1, WordOf
  <2>7. Word(Len(r.values))
    <3>1. PICK num \in Nat : num = Len(r.values)
      BY <2>1
    <3>2. ~(num > MAX_WRITE_REGISTERS)
      BY <2>3, <3>1 DEF tcp_build_fc16_request
    <3> QED
      BY <3>1, <3>2, SMT DEF MAX_WRITE_REGISTERS, Word
  <2>8. WRITE_MULTIPLE_REGISTERS \in U8
    BY SMT DEF WRITE_MULTIPLE_REGISTERS, U8
  <2> QED
    BY <2>1, <2>4, <2>5, <2>6, <2>7, <2>8, Zenon
<1> QED
  BY <1>1, <1>2, <1>3, RequestsAssumption

(* What a builder makes is a sequence of bytes.                            *)
LEMMA BuiltBytes ==
  ASSUME NEW r \in Requests, NEW id, Word(id) PROVE Built(r, id) \in Seq(U8)
<1>1. CASE Built(r, id) = Refused
  BY <1>1 DEF Refused
<1>2. CASE Built(r, id) # Refused
  BY <1>2, BuiltFrame, FrameParsed
<1> QED
  BY <1>1, <1>2

(* Every step keeps frames tied to the arguments they were built from.     *)
LEMMA FrameStep == IInv /\ [Next]_vars => FrameInv'
<1> SUFFICES ASSUME IInv, [Next]_vars PROVE FrameInv'
  OBVIOUS
<1>1. TypeOK /\ DrawInv /\ FrameInv
  BY DEF IInv
<1>2. ASSUME UNCHANGED <<build, req, frame>> PROVE FrameInv'
  BY <1>1, <1>2 DEF FrameInv, Built
<1>3. CASE UNCHANGED vars
  BY <1>2, <1>3 DEF vars, builder
<1>4. CASE ClientThread
  BY <1>2, <1>4 DEF ClientThread, LoopExits, LoopEnters, SocketOpens, SocketFails,
     ConnectFails, ConnectSucceeds, LinkUp, RetryEnds, ProcessContinues, ProcessFails,
     LinkCloses, LinkClears, builder
<1>5. CASE Start \/ StartFails \/ StopFlag \/ Stop
  BY <1>2, <1>5 DEF Start, StartFails, StopFlag, Stop, StopReads, StopShuts, StopJoin,
     builder
<1>6. CASE OtherOpens \/ \E n \in Fds : OtherCloses(n)
  BY <1>2, <1>6 DEF OtherOpens, OtherCloses, builder
<1>7. ASSUME NEW b \in Builders, NEW place, NEW r, NEW f,
             /\ build' = [build EXCEPT ![b] = place] /\ req' = [req EXCEPT ![b] = r]
             /\ frame' = [frame EXCEPT ![b] = f]
             /\ place \in {"lock", "draw"} => r \in Requests
             /\ place = "built" /\ f # Refused =>
                  r \in Requests /\ \E id \in 1 .. MaxTid : f = Built(r, id)
      PROVE  FrameInv'
  <2> SUFFICES ASSUME NEW c \in Builders
               PROVE  /\ build'[c] \in {"lock", "draw"} => req'[c] \in Requests
                      /\ build'[c] = "built" /\ frame'[c] # Refused =>
                           /\ req'[c] \in Requests
                           /\ \E id \in 1 .. MaxTid : frame'[c] = Built(req'[c], id)
    BY Zenon DEF FrameInv, Built
  <2>1. CASE c = b
    <3>1. build'[c] = place /\ req'[c] = r /\ frame'[c] = f
      BY <1>1, <1>7, <2>1 DEF TypeOK
    <3> QED
      BY <1>7, <3>1, Zenon
  <2>2. CASE c # b
    <3>1. build'[c] = build[c] /\ req'[c] = req[c] /\ frame'[c] = frame[c]
      BY <1>1, <1>7, <2>2 DEF TypeOK
    <3> QED
      BY <1>1, <3>1, Zenon DEF FrameInv
  <2> QED
    BY <2>1, <2>2
<1>8. ASSUME NEW b \in Builders PROVE /\ req = [req EXCEPT ![b] = req[b]]
                                     /\ frame = [frame EXCEPT ![b] = frame[b]]
  BY <1>1 DEF TypeOK
<1>9. ASSUME NEW b \in Builders, BuildLocks(b) PROVE FrameInv'
  <2>1. /\ build[b] = "lock" /\ build' = [build EXCEPT ![b] = "draw"]
        /\ req' = [req EXCEPT ![b] = req[b]] /\ frame' = [frame EXCEPT ![b] = frame[b]]
    BY <1>8, <1>9 DEF BuildLocks
  <2>2. req[b] \in Requests
    BY <1>1, <2>1 DEF FrameInv
  <2> QED
    BY <1>7, <2>1, <2>2
<1>10. ASSUME NEW b \in Builders, BuildDraws(b) PROVE FrameInv'
  <2>1. /\ build[b] = "draw" /\ build' = [build EXCEPT ![b] = "built"]
        /\ req' = [req EXCEPT ![b] = req[b]]
        /\ frame' = [frame EXCEPT ![b] = Built(req[b], Drawn(b))]
    BY <1>8, <1>10 DEF BuildDraws
  <2>2. req[b] \in Requests
    BY <1>1, <2>1 DEF FrameInv
  <2>3. Drawn(b) \in 1 .. MaxTid
    <3>1. MaxTid \in Nat /\ MaxTid >= 1
      BY SMT DEF U16
    <3>2. seen[b] \in 0 .. MaxTid
      BY <1>1 DEF TypeOK
    <3> QED
      BY <3>1, <3>2 DEF Drawn
  <2>4. "built" \notin {"lock", "draw"}
    OBVIOUS
  <2> QED
    BY <1>7, <2>1, <2>2, <2>3, <2>4
<1>11. ASSUME NEW b \in Builders, BuildUsed(b) PROVE FrameInv'
  <2>1. /\ build' = [build EXCEPT ![b] = "idle"] /\ req' = [req EXCEPT ![b] = NoRequest]
        /\ frame' = [frame EXCEPT ![b] = Refused]
    BY <1>11 DEF BuildUsed
  <2> QED
    BY <1>7, <2>1
<1>12. ASSUME NEW b \in Builders, NEW r \in Requests, BuildRefuses(b, r) PROVE FrameInv'
  <2>1. /\ build' = [build EXCEPT ![b] = "built"] /\ req' = [req EXCEPT ![b] = r]
        /\ frame' = [frame EXCEPT ![b] = Refused]
    BY <1>12 DEF BuildRefuses
  <2> QED
    BY <1>7, <2>1
<1>13. ASSUME NEW b \in Builders, NEW r \in Requests, BuildBegins(b, r) PROVE FrameInv'
  <2>1. /\ build' = [build EXCEPT ![b] = "lock"] /\ req' = [req EXCEPT ![b] = r]
        /\ frame' = [frame EXCEPT ![b] = frame[b]]
    BY <1>8, <1>13 DEF BuildBegins
  <2> QED
    BY <1>7, <2>1
<1> QED
  BY <1>3, <1>4, <1>5, <1>6, <1>9, <1>10, <1>11, <1>12, <1>13 DEF Next, BuildGoesOn

-----------------------------------------------------------------------------
(* Types.                                                                  *)

(* Types are kept.                                                         *)
LEMMA TypeStep == IInv /\ [Next]_vars => TypeOK'
<1> SUFFICES ASSUME IInv, [Next]_vars PROVE TypeOK'
  OBVIOUS
<1>1. TypeOK /\ LifeInv /\ SockInv /\ DrawInv /\ FrameInv
  BY DEF IInv
<1>0. MaxTid \in Nat /\ MaxTid >= 1
  BY SMT DEF U16
<1>2. CASE UNCHANGED vars
  BY <1>1, <1>2 DEF vars, app, link, builder, TypeOK
<1>3. CASE ClientThread
  <2>1. UNCHANGED <<app, builder>> /\ TypeOK
    BY <1>1, <1>3 DEF ClientThread, LoopExits, LoopEnters, SocketOpens, SocketFails,
       ConnectFails, ConnectSucceeds, LinkUp, RetryEnds, ProcessContinues, ProcessFails,
       LinkCloses, LinkClears
  <2>2. /\ stream_sock' \in Fds \cup {NoFd} /\ sock' \in Fds \cup {NoFd}
        /\ connected' \in BOOLEAN /\ online' \subseteq Fds
        /\ fd' \in [Fds -> {"free", "link", "linkshut"} \cup Strange]
        /\ thread' \in {"none", "top", "connect", "connecting", "publish", "retry",
                        "process", "processed", "close", "clear", "exit"}
    BY <1>1, <1>3 DEF ClientThread, LoopExits, LoopEnters, SocketOpens, SocketFails,
       ConnectFails, ConnectSucceeds, LinkUp, RetryEnds, ProcessContinues, ProcessFails,
       LinkCloses, LinkClears, Goto, Closed, TypeOK, SockInv
  <2> QED
    BY <2>1, <2>2 DEF TypeOK, app, builder
<1>4. CASE Start
  <2>1. recent' \in Seq(1 .. MaxTid)
    BY <1>4 DEF Start
  <2>2. starts' \in 0 .. MaxStarts /\ tid' \in 0 .. MaxTid
    BY <1>0, <1>1, <1>4 DEF Start, TypeOK
  <2> QED
    BY <1>1, <1>4, <2>1, <2>2 DEF Start, TypeOK
<1>5. CASE StartFails
  <2>1. tid' \in 0 .. MaxTid
    BY <1>0, <1>5 DEF StartFails
  <2> QED
    BY <1>1, <1>5, <2>1 DEF StartFails, TypeOK, link
<1>6. CASE StopFlag \/ StopReads
  BY <1>1, <1>6 DEF StopFlag, StopReads, TypeOK, link, builder
<1>7. CASE StopShuts
  <2>1. fd' \in [Fds -> {"free", "link", "linkshut"} \cup Strange]
    BY <1>1, <1>7 DEF StopShuts, TypeOK, Strange
  <2> QED
    BY <1>1, <1>7, <2>1 DEF StopShuts, TypeOK, link, builder
<1>8. CASE StopJoin
  BY <1>1, <1>8 DEF StopJoin, Closed, TypeOK
<1>9. CASE OtherOpens \/ \E n \in Fds : OtherCloses(n)
  <2>1. fd' \in [Fds -> {"free", "link", "linkshut"} \cup Strange]
    BY <1>1, <1>9 DEF OtherOpens, OtherCloses, Closed, TypeOK, Strange
  <2>2. UNCHANGED <<app, link, builder>>
    BY <1>9 DEF OtherOpens, OtherCloses
  <2> QED
    BY <1>1, <2>1, <2>2 DEF TypeOK, app, link, builder
<1>10. ASSUME NEW b \in Builders, BuildLocks(b) PROVE TypeOK'
  BY <1>1, <1>10 DEF BuildLocks, TypeOK, app, link
<1>11. ASSUME NEW b \in Builders, BuildDraws(b) PROVE TypeOK'
  <2>1. seen[b] \in 0 .. MaxTid
    BY <1>1 DEF TypeOK
  <2>2. Drawn(b) \in 0 .. MaxTid
    BY <1>0, <2>1 DEF Drawn
  <2>3. req[b] \in Requests
    BY <1>1, <1>11 DEF FrameInv, BuildDraws
  <2>4. Built(req[b], Drawn(b)) \in Seq(U8)
    BY <2>2, <2>3, TidWord, BuiltBytes
  <2>5. PICK f \in Seq(U8) : frame' = [frame EXCEPT ![b] = f]
    BY <1>11, <2>4 DEF BuildDraws
  <2>6. 0 \in 0 .. MaxTid
    BY <1>0
  <2>7. /\ frame' \in [Builders -> Seq(U8)] /\ tid' \in 0 .. MaxTid
        /\ seen' \in [Builders -> 0 .. MaxTid]
    BY <1>1, <1>11, <2>2, <2>5, <2>6 DEF BuildDraws, TypeOK
  <2>8. recent' \in Seq(1 .. MaxTid)
    BY DrawStep DEF DrawInv
  <2>9. build' \in [Builders -> {"idle", "lock", "draw", "built"}]
    BY <1>1, <1>11 DEF BuildDraws, TypeOK
  <2> QED
    BY <1>1, <1>11, <2>7, <2>8, <2>9 DEF BuildDraws, TypeOK, app, link
<1>12. ASSUME NEW b \in Builders, BuildUsed(b) PROVE TypeOK'
  <2>1. Refused \in Seq(U8)
    BY DEF Refused
  <2>2. frame' \in [Builders -> Seq(U8)]
    BY <1>1, <1>12, <2>1 DEF BuildUsed, TypeOK
  <2> QED
    BY <1>1, <1>12, <2>2 DEF BuildUsed, TypeOK, app
<1>13. ASSUME NEW b \in Builders, NEW r \in Requests, BuildRefuses(b, r) PROVE TypeOK'
  <2>1. Refused \in Seq(U8)
    BY DEF Refused
  <2>2. frame' \in [Builders -> Seq(U8)]
    BY <1>1, <1>13, <2>1 DEF BuildRefuses, TypeOK
  <2> QED
    BY <1>1, <1>13, <2>2 DEF BuildRefuses, TypeOK, app, link
<1>14. ASSUME NEW b \in Builders, NEW r \in Requests, BuildBegins(b, r) PROVE TypeOK'
  BY <1>1, <1>14 DEF BuildBegins, TypeOK, app, link
<1> QED
  BY <1>2, <1>3, <1>4, <1>5, <1>6, <1>7, <1>8, <1>9, <1>10, <1>11, <1>12, <1>13, <1>14
     DEF Next, Stop, BuildGoesOn

-----------------------------------------------------------------------------
(* The theorems.                                                           *)

(* The invariant holds at first.                                           *)
LEMMA InitInv == Init => IInv
<1> SUFFICES ASSUME Init PROVE IInv
  OBVIOUS
<1>0. MaxTid \in Nat /\ MaxTid >= 1
  BY SMT DEF U16
<1>1. Refused \in Seq(U8) /\ recent \in Seq(1 .. MaxTid) /\ Len(recent) = 0
  BY DEF Init, Refused
<1>2. TypeOK
  <2>1. 0 \in 0 .. MaxTid /\ 0 \in 0 .. MaxStarts
    BY <1>0
  <2> QED
    BY <1>1, <2>1 DEF Init, TypeOK, Builders, Strange
<1>3. LifeInv /\ SockInv
  BY DEF Init, LifeInv, SockInv, Builders, Ours, NoFd
<1>4. DrawInv
  BY <1>0, <1>1 DEF Init, DrawInv, Builders
<1>5. FrameInv
  BY DEF Init, FrameInv, Builders
<1> QED
  BY <1>2, <1>3, <1>4, <1>5 DEF IInv

(* The inductive invariant holds in every state of the program.            *)
THEOREM Invariance == Spec => []IInv
<1>1. IInv /\ [Next]_vars => IInv'
  BY TypeStep, LifeStep, SockStep, DrawStep, FrameStep DEF IInv
<1> QED
  BY <1>1, InitInv, PTL DEF Spec

(* Every variable keeps its type: in particular every frame that a builder *)
(* makes, from any arguments of its C types, is a sequence of bytes.       *)
THEOREM TypeCorrect == Spec => []TypeOK
<1>1. IInv => TypeOK
  BY DEF IInv
<1> QED
  BY <1>1, Invariance, PTL

(* For any number of descriptors, the socket of a link is the thread's own *)
(* and no other, reported up and down once, and none is left open or       *)
(* reported up by mb_tcp_stop.                                             *)
THEOREM LinksAreExact == Spec => []LinkExact
<1>1. IInv => LinkExact
  <2> SUFFICES ASSUME IInv PROVE LinkExact
    OBVIOUS
  <2>1. TypeOK /\ LifeInv /\ SockInv
    BY DEF IInv
  <2>2. NoFd \notin Fds
    BY DEF NoFd
  <2> QED
    BY <2>1, <2>2 DEF TypeOK, LifeInv, SockInv, LinkExact, InProcess, Ours, Strange
<1> QED
  BY <1>1, Invariance, PTL

(* No builder ever uses the lock before mb_tcp_init or after mb_tcp_stop   *)
(* has destroyed it.                                                       *)
THEOREM LockOutlivesBuilders == Spec => []LockAlive
<1>1. IInv => LockAlive
  BY DEF IInv, TypeOK, LifeInv, LockAlive, Builders
<1> QED
  BY <1>1, Invariance, PTL

(* For every length of the cycle, UINT16_MAX included, and whichever       *)
(* threads draw: an id comes back only when all others have been used.     *)
THEOREM TransactionIdsDiffer == Spec => []TidsDistinct
<1>1. IInv => TidsDistinct
  <2> SUFFICES ASSUME IInv PROVE TidsDistinct
    OBVIOUS
  <2>1. DrawInv
    BY DEF IInv
  <2>2. MaxTid \in Nat
    BY SMT DEF U16
  <2>3. \A i \in 1 .. Len(recent) : recent[i] # 0
    BY <2>1, <2>2 DEF DrawInv
  <2> QED
    BY <2>1, <2>3 DEF DrawInv, TidsDistinct
<1> QED
  BY <1>1, Invariance, PTL

(* The library closes no descriptor of another part of the program.        *)
THEOREM OnlyOwnClosed == Spec => ClosesOwnOnly
<1>1. ASSUME IInv, [Next]_vars
      PROVE  [\A n \in Fds : fd[n] \in Strange /\ fd'[n] \notin Strange =>
                UNCHANGED <<thread, stop>>]_vars
  <2>1. TypeOK /\ LifeInv /\ SockInv
    BY <1>1 DEF IInv
  <2> SUFFICES ASSUME NEW n \in Fds, fd[n] \in Strange, fd'[n] \notin Strange
               PROVE  UNCHANGED <<thread, stop>>
    OBVIOUS
  <2>2. fd[n] \notin Ours
    BY DEF Strange, Ours
  <2>3. CASE UNCHANGED fd
    BY <2>3
  <2>4. CASE ConnectFails \/ LinkCloses
    BY <2>1, <2>2, <2>4 DEF TypeOK, SockInv, ConnectFails, LinkCloses, Closed
  <2>5. CASE SocketOpens
    BY <2>1, <2>5 DEF TypeOK, SocketOpens, LowestFree, Strange
  <2>6. CASE StopShuts
    BY <2>1, <2>6 DEF TypeOK, StopShuts, Strange
  <2>7. CASE StopJoin
    <3>1. n # stream_sock
      BY <2>1, <2>2, <2>7 DEF TypeOK, SockInv, StopJoin, NoFd
    <3> QED
      BY <2>1, <2>7, <3>1 DEF TypeOK, StopJoin, Closed
  <2>8. CASE OtherOpens \/ \E k \in Fds : OtherCloses(k)
    BY <2>8 DEF OtherOpens, OtherCloses, app, link
  <2> QED
    BY <1>1, <2>3, <2>4, <2>5, <2>6, <2>7, <2>8
       DEF Next, vars, ClientThread, LoopExits, LoopEnters, SocketFails, ConnectSucceeds,
           LinkUp, RetryEnds, ProcessContinues, ProcessFails, LinkClears, Start, StartFails,
           StopFlag, Stop, StopReads, BuildGoesOn, BuildLocks, BuildDraws, BuildUsed,
           BuildRefuses, BuildBegins
<1> QED
  BY <1>1, Invariance, PTL DEF Spec, ClosesOwnOnly

(* What mb_tcp_parse_request reads in a frame is what the builder was      *)
(* given, for all arguments of the builders' C types and every id, and the *)
(* response to it carries its transaction id.                              *)
THEOREM FramesRoundTrip == Spec => []RoundTrip
<1>1. ASSUME IInv, NEW b \in Builders, build[b] = "built", frame[b] # Refused
      PROVE  LET r  == req[b]
                 fc == CASE r.op = "basis" -> r.fc
                         [] r.op = "fc06"  -> WRITE_SINGLE_REGISTER
                         [] r.op = "fc16"  -> WRITE_MULTIPLE_REGISTERS
                 qty == IF fc = WRITE_SINGLE_REGISTER THEN 1
                        ELSE IF r.op = "fc16" THEN Len(r.values) ELSE r.nb
                 answer == tcp_build_read_registers_response(
                             GetU16(frame[b], 1), fc, r.unit, <<0>>, TCP_MAX_ADU_LENGTH)
             IN  /\ tcp_parse_request(frame[b]) = [fc |-> fc, addr |-> r.addr, qty |-> qty]
                 /\ Len(frame[b]) = TCP_PREFIX_LEN + GetU16(frame[b], 5)
                 /\ GetU16(answer, 1) = GetU16(frame[b], 1)
                 /\ Len(answer) = TCP_PREFIX_LEN + GetU16(answer, 5)
  <2>1. FrameInv
    BY <1>1 DEF IInv
  <2>2. PICK r \in Requests : r = req[b] /\ \E id \in 1 .. MaxTid : frame[b] = Built(r, id)
    BY <1>1, <2>1 DEF FrameInv
  <2>3. PICK id \in 1 .. MaxTid : frame[b] = Built(r, id)
    BY <2>2
  <2>4. PICK m : m = frame[b]
    OBVIOUS
  <2>5. Word(id)
    <3>1. MaxTid \in Nat
      BY SMT DEF U16
    <3>2. id \in 0 .. MaxTid
      BY <3>1
    <3> QED
      BY <3>2, TidWord
  <2>6. /\ Frames(m, id, AskedFc(r), r.addr, AskedQty(r))
        /\ Word(r.addr) /\ Word(AskedQty(r)) /\ AskedFc(r) \in U8 /\ r.unit \in U8
    BY <1>1, <2>3, <2>4, <2>5, BuiltFrame
  <2>7. /\ GetU16(m, 1) = id /\ Len(m) = TCP_PREFIX_LEN + GetU16(m, 5)
        /\ tcp_parse_request(m) =
             [fc |-> AskedFc(r), addr |-> r.addr,
              qty |-> IF AskedFc(r) = WRITE_SINGLE_REGISTER THEN 1 ELSE AskedQty(r)]
    BY <2>6, FrameParsed
  <2>8. PICK answer : answer = tcp_build_read_registers_response(
                                 id, AskedFc(r), r.unit, <<0>>, TCP_MAX_ADU_LENGTH)
    OBVIOUS
  <2>9. GetU16(answer, 1) = id /\ Len(answer) = TCP_PREFIX_LEN + GetU16(answer, 5)
    <3>1. 0 \in U16
      BY SMT DEF U16
    <3>2. PICK data \in Seq(U16) : data = <<0>> /\ Len(data) = 1
      <4>1. <<0>> \in Seq(U16) /\ Len(<<0>>) = 1
        BY <3>1
      <4> QED
        BY <4>1, Zenon
    <3>3. PICK cap \in Nat :
            /\ cap = TCP_MAX_ADU_LENGTH /\ Len(data) <= MAX_READ_REGISTERS
            /\ cap >= TCP_PREFIX_LEN + 3 + 2 * Len(data)
      BY <3>2, SMT DEF TCP_MAX_ADU_LENGTH, MAX_READ_REGISTERS, TCP_PREFIX_LEN
    <3>4. answer = tcp_build_read_registers_response(id, AskedFc(r), r.unit, data, cap)
      BY <2>8, <3>2, <3>3, Zenon
    <3> QED
      BY <2>5, <2>6, <3>3, <3>4, ResponseFrame
  <2>10. AskedFc(r) = CASE r.op = "basis" -> r.fc
                        [] r.op = "fc06"  -> WRITE_SINGLE_REGISTER
                        [] r.op = "fc16"  -> WRITE_MULTIPLE_REGISTERS
    BY RequestsAssumption DEF AskedFc, BasisArgs, Fc06Args, Fc16Args
  <2>11. (IF AskedFc(r) = WRITE_SINGLE_REGISTER THEN 1 ELSE AskedQty(r))
           = IF AskedFc(r) = WRITE_SINGLE_REGISTER THEN 1
             ELSE IF r.op = "fc16" THEN Len(r.values) ELSE r.nb
    BY RequestsAssumption DEF AskedFc, AskedQty, BasisArgs, Fc06Args, Fc16Args
  <2> QED
    BY <2>2, <2>4, <2>7, <2>8, <2>9, <2>10, <2>11, Zenon
<1>2. IInv => RoundTrip
  BY <1>1, Zenon DEF RoundTrip
<1> QED
  BY <1>2, Invariance, PTL
=============================================================================
