--------------------------- MODULE TcpClientProofs ---------------------------
(***************************************************************************)
(* Proofs, for every set of threads, every TID range and every bound, of   *)
(* the safety properties of TcpClient.                                     *)
(***************************************************************************)
EXTENDS TcpClient, TLAPS

USE ThreadsAssumption, TidAssumption, CallsAssumption, UnitsAssumption

(* The sentinels of a call that has not sent anything are well typed.      *)
LEMMA SentinelTypes == NoRequest \in Requests /\ NoReply \in Replies
  BY DEF NoRequest, NoReply, Requests, Replies, ReplyKinds

(* Closing the socket leaves the network variables well typed.             *)
LEMMA CloseTypes ==
  ASSUME CloseSocket
  PROVE  /\ sock' \in {"open", "closed"} /\ link' \in {"up", "down"}
         /\ pending' \subseteq Requests /\ stream' \in Seq(Replies)
         /\ aligned' \in BOOLEAN
<1>1. aligned' \in BOOLEAN
  BY DEF CloseSocket
<1>2. stream' \in Seq(Replies)
  BY DEF CloseSocket
<1> QED
  BY <1>1, <1>2 DEF CloseSocket

(* A TID drawn from a well typed context is one of 1..MaxTid.              *)
LEMMA NextTidType == ASSUME tid \in 0 .. MaxTid PROVE next_tid \in 1 .. MaxTid
  BY DEF next_tid

(* Every step of the client, the server and the network keeps the types.   *)
LEMMA TypeStep == TypeOK /\ [Next]_vars => TypeOK'
<1> SUFFICES ASSUME TypeOK, [Next]_vars PROVE TypeOK'
  OBVIOUS
<1>1. CASE Connect
  <2>1. initialized' \in BOOLEAN
    BY <1>1 DEF Connect
  <2>2. calls' \in 0 .. MaxCalls
    BY <1>1 DEF Connect, CountCall, TypeOK
  <2>3. /\ sock' \in {"open", "closed"} /\ link' \in {"up", "down"}
        /\ mutex' \in {"none", "alive", "destroyed"}
    BY <1>1 DEF Connect
  <2> QED
    BY <1>1, <2>1, <2>2, <2>3 DEF Connect, TypeOK, call
<1>2. ASSUME NEW t \in Threads, DisconnectBegin(t) PROVE TypeOK'
  BY <1>2 DEF DisconnectBegin, CountCall, TypeOK, ctx, call, net
<1>3. ASSUME NEW t \in Threads, DisconnectLock(t) PROVE TypeOK'
  BY <1>3 DEF DisconnectLock, MutexLock, TypeOK, call, net
<1>4. ASSUME NEW t \in Threads, DisconnectClose(t) PROVE TypeOK'
  <2>1. initialized' \in BOOLEAN
    BY <1>4 DEF DisconnectClose
  <2>2. owner' \in Threads \cup {NoThread}
    BY <1>4 DEF DisconnectClose, MutexUnlock, TypeOK
  <2> QED
    BY <1>4, <2>1, <2>2, CloseTypes DEF DisconnectClose, TypeOK, call
<1>5. ASSUME NEW t \in Threads, DisconnectDestroy(t) PROVE TypeOK'
  BY <1>5 DEF DisconnectDestroy, TypeOK, call, net
<1>6. ASSUME NEW t \in Threads, SetUnitIdBegin(t) PROVE TypeOK'
  BY <1>6 DEF SetUnitIdBegin, CountCall, TypeOK, ctx, call, net
<1>7. ASSUME NEW t \in Threads, SetUnitId(t) PROVE TypeOK'
  BY <1>7 DEF SetUnitId, TypeOK, call, net
<1>8. ASSUME NEW t \in Threads, RequestRefused(t) PROVE TypeOK'
  <2>1. result' \in [Threads -> Results]
    BY <1>8 DEF RequestRefused, Return, Results, TypeOK
  <2> QED
    BY <1>8, <2>1 DEF RequestRefused, Return, CountCall, TypeOK, ctx, net
<1>9. ASSUME NEW t \in Threads, RequestBegin(t) PROVE TypeOK'
  BY <1>9 DEF RequestBegin, CountCall, TypeOK, ctx, call, net
<1>10. ASSUME NEW t \in Threads, RequestLock(t) PROVE TypeOK'
  BY <1>10 DEF RequestLock, MutexLock, TypeOK, call, net
<1>11. ASSUME NEW t \in Threads, RequestNotConnected(t) PROVE TypeOK'
  <2>1. result' \in [Threads -> Results]
    BY <1>11 DEF RequestNotConnected, Return, Results, TypeOK
  <2> QED
    BY <1>11, <2>1 DEF RequestNotConnected, MutexUnlock, Return, TypeOK, net
<1>12. ASSUME NEW t \in Threads, SendFails(t) PROVE TypeOK'
  <2>1. result' \in [Threads -> Results]
    BY <1>12 DEF SendFails, Return, Results, TypeOK
  <2>2. owner' \in Threads \cup {NoThread}
    BY <1>12 DEF SendFails, MutexUnlock, TypeOK
  <2>3. tid' \in 0 .. MaxTid /\ sent' \in Nat
    BY <1>12, NextTidType DEF SendFails, DrawRequest, TypeOK
  <2> QED
    BY <1>12, <2>1, <2>2, <2>3, CloseTypes DEF SendFails, Return, TypeOK
<1>13. ASSUME NEW t \in Threads, Send(t) PROVE TypeOK'
  <2>1. tid' \in 0 .. MaxTid /\ sent' \in Nat
    BY <1>13, NextTidType DEF Send, DrawRequest, TypeOK
  <2>2. [seq |-> sent + 1, tid |-> next_tid, unit |-> unit_id] \in Requests
    BY NextTidType DEF Requests, TypeOK
  <2>3. req' \in [Threads -> Requests] /\ req'[t] \in Requests
    BY <1>13, <2>2 DEF Send, TypeOK
  <2>4. pending' \subseteq Requests
    BY <1>13, <2>3 DEF Send, TypeOK
  <2> QED
    BY <1>13, <2>1, <2>3, <2>4 DEF Send, TypeOK
<1>14. ASSUME NEW t \in Threads, Receive(t) PROVE TypeOK'
  <2>1. aligned' \in BOOLEAN
    BY <1>14 DEF Receive, LeavesAligned
  <2>2. stream' \in Seq(Replies) /\ Head(stream) \in Replies
    BY <1>14 DEF Receive, TypeOK
  <2>3. rc' \in [Threads -> {"0", "-1", "-2", "PARTIAL_TIMEOUT",
                             "PROTOCOL_ID_ERROR"}]
    BY <1>14 DEF Receive, recv_response, TypeOK
  <2>4. stale_seen' \in [Threads -> BOOLEAN]
    BY <1>14 DEF Receive, TypeOK
  <2>5. got' \in [Threads -> Replies]
    BY <1>14, <2>2 DEF Receive, TypeOK
  <2>6. pc' = pc \/ pc' = [pc EXCEPT ![t] = "finish"]
    BY <1>14 DEF Receive
  <2> QED
    BY <1>14, <2>1, <2>2, <2>3, <2>4, <2>5, <2>6 DEF Receive, TypeOK, ctx
<1>15. ASSUME NEW t \in Threads, Timeout(t) PROVE TypeOK'
  BY <1>15 DEF Timeout, TypeOK, ctx, net
<1>16. ASSUME NEW t \in Threads, ReceiveFails(t) PROVE TypeOK'
  BY <1>16 DEF ReceiveFails, TypeOK, ctx, net
<1>17. ASSUME NEW t \in Threads, Finish(t) PROVE TypeOK'
  <2>1. TransactResult(t) \in Results
    BY DEF TransactResult, check_response, Results, TypeOK
  <2>2. result' \in [Threads -> Results]
    BY <1>17, <2>1 DEF Finish, StreamSpoilt, Return, TypeOK
  <2>3. owner' \in Threads \cup {NoThread}
    BY <1>17 DEF Finish, StreamSpoilt, MutexUnlock, TypeOK
  <2>4. /\ sock' \in {"open", "closed"} /\ link' \in {"up", "down"}
        /\ pending' \subseteq Requests /\ stream' \in Seq(Replies)
        /\ aligned' \in BOOLEAN
    BY <1>17, CloseTypes DEF Finish, StreamSpoilt, TypeOK, net
  <2>5. stale_seen' \in [Threads -> BOOLEAN]
    BY <1>17 DEF Finish, StreamSpoilt, TypeOK
  <2>6. req' \in [Threads -> Requests] /\ got' \in [Threads -> Replies]
    BY <1>17, SentinelTypes DEF Finish, StreamSpoilt, TypeOK
  <2> QED
    BY <1>17, <2>2, <2>3, <2>4, <2>5, <2>6 DEF Finish, StreamSpoilt, Return, TypeOK
<1>18. CASE ServerReplies
  <2>1. PICK m \in pending, k \in ReplyKinds :
          /\ pending' \in {pending, pending \ {m}}
          /\ stream' = Append(stream, [seq |-> m.seq, tid |-> m.tid,
                                       unit |-> m.unit, kind |-> k])
    BY <1>18 DEF ServerReplies
  <2>2. [seq |-> m.seq, tid |-> m.tid, unit |-> m.unit, kind |-> k] \in Replies
    BY DEF TypeOK, Requests, Replies
  <2>3. stream' \in Seq(Replies)
    BY <2>1, <2>2 DEF TypeOK
  <2> QED
    BY <1>18, <2>1, <2>3 DEF ServerReplies, TypeOK, ctx, call
<1>19. CASE LinkDown
  BY <1>19 DEF LinkDown, TypeOK, ctx, call
<1>20. CASE UNCHANGED vars
  BY <1>20 DEF TypeOK, vars, ctx, call, net
<1>21. ASSUME NEW t \in Threads, Returned(t) PROVE TypeOK'
  BY <1>21 DEF Returned, TypeOK, Results, ctx, net
<1> QED
  BY <1>1, <1>2, <1>3, <1>4, <1>5, <1>6, <1>7, <1>8, <1>9, <1>10, <1>11, <1>12,
     <1>13, <1>14, <1>15, <1>16, <1>17, <1>18, <1>19, <1>20, <1>21
  DEF Next, Transact, Disconnect, Quiet

(* Arithmetic of the TID cycle: a TID x drawn s - q requests ago keeps its *)
(* place when the next TID is drawn, with or without the wrap to 1.        *)
LEMMA CycleArithmetic ==
  ASSUME NEW s \in Nat, NEW c \in 0 .. MaxTid, NEW q \in 1 .. s,
         NEW x \in 1 .. MaxTid, NEW d \in Nat,
         d = IF c < MaxTid THEN c + 1 ELSE 1,
         s - q < MaxTid => x \in {c - (s - q), c - (s - q) + MaxTid},
         (s + 1) - q < MaxTid
  PROVE  x \in {d - (s + 1 - q), d - (s + 1 - q) + MaxTid}
<1>1. x = c - (s - q) \/ x = c - (s - q) + MaxTid
  OBVIOUS
<1>2. CASE c < MaxTid
  BY <1>1, <1>2
<1>3. CASE c = MaxTid
  BY <1>1, <1>3
<1> QED
  BY <1>2, <1>3


(* Who may hold the mutex, and what a disconnect excludes, is preserved by *)
(* every step of callers that disconnect only when no request is queued.   *)
LEMMA MutexStep ==
  ASSUME DisconnectWhileQueued = FALSE, TypeOK, MutexInv, [Next]_vars
  PROVE  MutexInv'
<1>1. CASE Connect
  BY <1>1 DEF Connect, CountCall, Idle, MutexInv, TypeOK, InFlight, ctx, call,
    net
<1>2. ASSUME NEW t \in Threads, DisconnectBegin(t) PROVE MutexInv'
  BY <1>2 DEF DisconnectBegin, CountCall, Idle, Disconnecting, MutexInv,
    TypeOK, InFlight, ctx, call, net
<1>3. ASSUME NEW t \in Threads, DisconnectLock(t) PROVE MutexInv'
  BY <1>3 DEF DisconnectLock, MutexLock, MutexInv, TypeOK, InFlight, ctx,
    call, net
<1>4. ASSUME NEW t \in Threads, DisconnectClose(t) PROVE MutexInv'
  BY <1>4 DEF DisconnectClose, MutexUnlock, CloseSocket, MutexInv, TypeOK,
    InFlight, ctx, call, net
<1>5. ASSUME NEW t \in Threads, DisconnectDestroy(t) PROVE MutexInv'
  BY <1>5 DEF DisconnectDestroy, MutexInv, TypeOK, InFlight, ctx, call, net
<1>6. ASSUME NEW t \in Threads, SetUnitIdBegin(t) PROVE MutexInv'
  BY <1>6 DEF SetUnitIdBegin, Idle, Disconnecting, MutexInv, TypeOK, InFlight,
    ctx, call, net
<1>7. ASSUME NEW t \in Threads, SetUnitId(t) PROVE MutexInv'
  BY <1>7 DEF SetUnitId, MutexInv, TypeOK, InFlight, ctx, call, net
<1>8. ASSUME NEW t \in Threads, RequestRefused(t) PROVE MutexInv'
  BY <1>8 DEF RequestRefused, Return, MutexInv, TypeOK, InFlight, ctx, call, net
<1>9. ASSUME NEW t \in Threads, RequestBegin(t) PROVE MutexInv'
  BY <1>9 DEF RequestBegin, Idle, Disconnecting, MutexInv, TypeOK, InFlight,
    ctx, call, net
<1>10. ASSUME NEW t \in Threads, RequestLock(t) PROVE MutexInv'
  BY <1>10 DEF RequestLock, MutexLock, MutexInv, TypeOK, InFlight, ctx, call,
    net
<1>11. ASSUME NEW t \in Threads, RequestNotConnected(t) PROVE MutexInv'
  BY <1>11 DEF RequestNotConnected, MutexUnlock, Return, MutexInv, TypeOK,
    InFlight, ctx, call, net
<1>12. ASSUME NEW t \in Threads, SendFails(t) PROVE MutexInv'
  BY <1>12 DEF SendFails, DrawRequest, MutexUnlock, CloseSocket, Return,
    MutexInv, TypeOK, InFlight, ctx, call, net
<1>13. ASSUME NEW t \in Threads, Send(t) PROVE MutexInv'
  BY <1>13 DEF Send, DrawRequest, MutexInv, TypeOK, InFlight, ctx, call, net
<1>14. ASSUME NEW t \in Threads, Receive(t) PROVE MutexInv'
  BY <1>14 DEF Receive, MutexInv, TypeOK, InFlight, ctx, call, net
<1>15. ASSUME NEW t \in Threads, Timeout(t) PROVE MutexInv'
  BY <1>15 DEF Timeout, MutexInv, TypeOK, InFlight, ctx, call, net
<1>16. ASSUME NEW t \in Threads, ReceiveFails(t) PROVE MutexInv'
  BY <1>16 DEF ReceiveFails, MutexInv, TypeOK, InFlight, ctx, call, net
<1>17. ASSUME NEW t \in Threads, Finish(t) PROVE MutexInv'
  BY <1>17 DEF Finish, StreamSpoilt, MutexUnlock, CloseSocket, Return, MutexInv, TypeOK,
    InFlight, ctx, call, net
<1>18. CASE ServerReplies
  BY <1>18 DEF ServerReplies, MutexInv, TypeOK, InFlight, ctx, call, net
<1>19. CASE LinkDown
  BY <1>19 DEF LinkDown, MutexInv, TypeOK, InFlight, ctx, call, net
<1>20. CASE UNCHANGED vars
  BY <1>20 DEF vars, MutexInv, TypeOK, InFlight, ctx, call, net
<1>21. ASSUME NEW t \in Threads, Returned(t) PROVE MutexInv'
  BY <1>21 DEF Returned, MutexInv, TypeOK, InFlight, ctx, net
<1> QED
  BY <1>1, <1>2, <1>3, <1>4, <1>5, <1>6, <1>7, <1>8, <1>9, <1>10, <1>11,
    <1>12, <1>13, <1>14, <1>15, <1>16, <1>17, <1>18, <1>19, <1>20,
    <1>21 DEF Next,
    Transact, Disconnect, Quiet

(* A socket is closed exactly when its stream may be out of step: every    *)
(* step preserves the link between the two.                                *)
LEMMA StreamStep ==
  ASSUME TypeOK, MutexInv, StreamInv, [Next]_vars
  PROVE  StreamInv'
<1>1. CASE Connect
  BY <1>1 DEF Connect, CountCall, Idle, StreamInv, StreamSpoilt, MutexInv, TypeOK, InFlight,
    ctx, call, net
<1>2. ASSUME NEW t \in Threads, DisconnectBegin(t) PROVE StreamInv'
  BY <1>2 DEF DisconnectBegin, CountCall, Idle, Disconnecting, StreamInv, StreamSpoilt,
    MutexInv, TypeOK, InFlight, ctx, call, net
<1>3. ASSUME NEW t \in Threads, DisconnectLock(t) PROVE StreamInv'
  BY <1>3 DEF DisconnectLock, MutexLock, StreamInv, StreamSpoilt, MutexInv, TypeOK,
    InFlight, ctx, call, net
<1>4. ASSUME NEW t \in Threads, DisconnectClose(t) PROVE StreamInv'
  BY <1>4 DEF DisconnectClose, MutexUnlock, CloseSocket, StreamInv, StreamSpoilt, MutexInv,
    TypeOK, InFlight, ctx, call, net
<1>5. ASSUME NEW t \in Threads, DisconnectDestroy(t) PROVE StreamInv'
  BY <1>5 DEF DisconnectDestroy, StreamInv, StreamSpoilt, MutexInv, TypeOK, InFlight, ctx,
    call, net
<1>6. ASSUME NEW t \in Threads, SetUnitIdBegin(t) PROVE StreamInv'
  BY <1>6 DEF SetUnitIdBegin, Idle, Disconnecting, StreamInv, StreamSpoilt, MutexInv,
    TypeOK, InFlight, ctx, call, net
<1>7. ASSUME NEW t \in Threads, SetUnitId(t) PROVE StreamInv'
  BY <1>7 DEF SetUnitId, StreamInv, StreamSpoilt, MutexInv, TypeOK, InFlight, ctx, call, net
<1>8. ASSUME NEW t \in Threads, RequestRefused(t) PROVE StreamInv'
  <2>1. pc[t] = "idle" /\ pc' = [pc EXCEPT ![t] = "return"]
    BY <1>8 DEF RequestRefused, Return, Idle
  <2> QED
    BY <1>8, <2>1 DEF RequestRefused, StreamInv, StreamSpoilt, TypeOK, ctx, net
<1>9. ASSUME NEW t \in Threads, RequestBegin(t) PROVE StreamInv'
  BY <1>9 DEF RequestBegin, Idle, Disconnecting, StreamInv, StreamSpoilt, MutexInv, TypeOK,
    InFlight, ctx, call, net
<1>10. ASSUME NEW t \in Threads, RequestLock(t) PROVE StreamInv'
  BY <1>10 DEF RequestLock, MutexLock, StreamInv, StreamSpoilt, MutexInv, TypeOK, InFlight,
    ctx, call, net
<1>11. ASSUME NEW t \in Threads, RequestNotConnected(t) PROVE StreamInv'
  BY <1>11 DEF RequestNotConnected, MutexUnlock, Return, StreamInv, StreamSpoilt, MutexInv,
    TypeOK, InFlight, ctx, call, net
<1>12. ASSUME NEW t \in Threads, SendFails(t) PROVE StreamInv'
  BY <1>12 DEF SendFails, DrawRequest, MutexUnlock, CloseSocket, Return,
    StreamInv, StreamSpoilt, MutexInv, TypeOK, InFlight, ctx, call, net
<1>13. ASSUME NEW t \in Threads, Send(t) PROVE StreamInv'
  BY <1>13 DEF Send, DrawRequest, StreamInv, StreamSpoilt, MutexInv, TypeOK, InFlight, ctx,
    call, net
<1>14. ASSUME NEW t \in Threads, Receive(t) PROVE StreamInv'
  <2>1. pc[t] = "wait" /\ sock' = sock /\ link' = link
    BY <1>14 DEF Receive, ctx
  <2>2. sock = "open"
    BY <1>14 DEF Receive, StreamInv, StreamSpoilt, TypeOK
  <2>3. aligned' = FALSE => pc'[t] = "finish" /\ rc'[t] \in {"-1", "PARTIAL_TIMEOUT"}
    BY <1>14 DEF Receive, recv_response, LeavesAligned, TypeOK
  <2>4. pc'[t] = "finish" /\ rc'[t] \in {"-1", "PARTIAL_TIMEOUT"} => ~aligned'
    BY <1>14 DEF Receive, recv_response, LeavesAligned, TypeOK
  <2>5. aligned /\ \A u \in Threads \ {t} : pc'[u] = pc[u] /\ rc'[u] = rc[u]
    BY <1>14 DEF Receive, TypeOK
  <2> QED
    BY <2>1, <2>2, <2>3, <2>4, <2>5 DEF StreamInv, StreamSpoilt, TypeOK
<1>15. ASSUME NEW t \in Threads, Timeout(t) PROVE StreamInv'
  BY <1>15 DEF Timeout, StreamInv, StreamSpoilt, MutexInv, TypeOK, InFlight, ctx, call, net
<1>16. ASSUME NEW t \in Threads, ReceiveFails(t) PROVE StreamInv'
  BY <1>16 DEF ReceiveFails, StreamInv, StreamSpoilt, MutexInv, TypeOK, InFlight, ctx, call,
    net
<1>17. ASSUME NEW t \in Threads, Finish(t) PROVE StreamInv'
  BY <1>17 DEF Finish, MutexUnlock, CloseSocket, Return, StreamInv, StreamSpoilt, MutexInv,
    TypeOK, InFlight, ctx, call, net
<1>18. CASE ServerReplies
  BY <1>18 DEF ServerReplies, StreamInv, StreamSpoilt, MutexInv, TypeOK, InFlight, ctx,
    call, net
<1>19. CASE LinkDown
  BY <1>19 DEF LinkDown, StreamInv, StreamSpoilt, MutexInv, TypeOK, InFlight, ctx, call, net
<1>20. CASE UNCHANGED vars
  BY <1>20 DEF vars, StreamInv, StreamSpoilt, MutexInv, TypeOK, InFlight, ctx, call, net
<1>21. ASSUME NEW t \in Threads, Returned(t) PROVE StreamInv'
  BY <1>21 DEF Returned, StreamInv, StreamSpoilt, MutexInv, TypeOK, InFlight, ctx, net
<1> QED
  BY <1>1, <1>2, <1>3, <1>4, <1>5, <1>6, <1>7, <1>8, <1>9, <1>10, <1>11,
    <1>12, <1>13, <1>14, <1>15, <1>16, <1>17, <1>18, <1>19, <1>20,
    <1>21 DEF Next,
    Transact, Disconnect, Quiet

(* Every request and reply on the connection keeps its place in the cycle  *)
(* of TIDs, the wrap of next_tid included.                                 *)
LEMMA TidStep ==
  ASSUME TypeOK, MutexInv, StreamInv, TidInv, [Next]_vars
  PROVE  TidInv'
<1>1. CASE Connect
  <2>1. pending' = {} /\ stream' = <<>>
    BY <1>1 DEF Connect, MutexInv, StreamInv
  <2> QED
    BY <1>1, <2>1 DEF Connect, Idle, TidInv, TypeOK
<1>2. ASSUME NEW t \in Threads, DisconnectBegin(t) PROVE TidInv'
  BY <1>2 DEF DisconnectBegin, CountCall, Idle, Disconnecting, TidInv,
    OnCycle, Agrees, TypeOK, ctx, call, net
<1>3. ASSUME NEW t \in Threads, DisconnectLock(t) PROVE TidInv'
  BY <1>3 DEF DisconnectLock, MutexLock, TidInv, OnCycle, Agrees, TypeOK, ctx,
    call, net
<1>4. ASSUME NEW t \in Threads, DisconnectClose(t) PROVE TidInv'
  BY <1>4 DEF DisconnectClose, MutexUnlock, CloseSocket, TidInv, OnCycle,
    Agrees, TypeOK, ctx, call, net
<1>5. ASSUME NEW t \in Threads, DisconnectDestroy(t) PROVE TidInv'
  BY <1>5 DEF DisconnectDestroy, TidInv, OnCycle, Agrees, TypeOK, ctx, call,
    net
<1>6. ASSUME NEW t \in Threads, SetUnitIdBegin(t) PROVE TidInv'
  BY <1>6 DEF SetUnitIdBegin, Idle, Disconnecting, TidInv, OnCycle, Agrees,
    TypeOK, ctx, call, net
<1>7. ASSUME NEW t \in Threads, SetUnitId(t) PROVE TidInv'
  BY <1>7 DEF SetUnitId, TidInv, OnCycle, Agrees, TypeOK, ctx, call, net
<1>8. ASSUME NEW t \in Threads, RequestRefused(t) PROVE TidInv'
  BY <1>8 DEF RequestRefused, Return, TidInv, OnCycle, Agrees, TypeOK, ctx, call, net
<1>9. ASSUME NEW t \in Threads, RequestBegin(t) PROVE TidInv'
  BY <1>9 DEF RequestBegin, Idle, Disconnecting, TidInv, OnCycle, Agrees,
    TypeOK, ctx, call, net
<1>10. ASSUME NEW t \in Threads, RequestLock(t) PROVE TidInv'
  BY <1>10 DEF RequestLock, MutexLock, TidInv, OnCycle, Agrees, TypeOK, ctx,
    call, net
<1>11. ASSUME NEW t \in Threads, RequestNotConnected(t) PROVE TidInv'
  BY <1>11 DEF RequestNotConnected, MutexUnlock, Return, TidInv, OnCycle,
    Agrees, TypeOK, ctx, call, net
<1>12. ASSUME NEW t \in Threads, SendFails(t) PROVE TidInv'
  <2>1. \A u \in Threads : pc'[u] \notin {"wait", "finish"}
    BY <1>12 DEF SendFails, DrawRequest, Return, MutexInv, InFlight, TypeOK
  <2> QED
    BY <1>12, <2>1 DEF SendFails, CloseSocket, TidInv, TypeOK
<1>13. ASSUME NEW t \in Threads, Send(t) PROVE TidInv'
  <2>1. \A u \in Threads \ {t} : pc[u] \notin {"wait", "finish"}
    BY <1>13 DEF Send, DrawRequest, MutexInv, InFlight
  <2>2. /\ tid' = next_tid /\ sent' = sent + 1 /\ stream' = stream
        /\ pc' = [pc EXCEPT ![t] = "wait"]
        /\ req'[t] = [seq |-> sent + 1, tid |-> next_tid, unit |-> unit_id]
    BY <1>13 DEF Send, DrawRequest, TypeOK
  <2>3. \A u \in Threads : pc'[u] \in {"wait", "finish"} => u = t /\ pc'[u] = "wait"
    BY <2>1, <2>2 DEF TypeOK
  <2>4. ASSUME NEW m, m.seq \in Nat, m.tid \in Nat, OnCycle(m)
        PROVE  OnCycle(m)' /\ Agrees(m)'
    <3>1. m.seq # req'[t].seq
      BY <2>2, <2>4 DEF OnCycle, TypeOK
    <3>2. m.seq \in 1 .. sent' /\ m.tid \in 1 .. MaxTid
      BY <2>2, <2>4 DEF OnCycle, TypeOK
    <3>3. sent' - m.seq < MaxTid =>
            m.tid \in {tid' - (sent' - m.seq), tid' - (sent' - m.seq) + MaxTid}
      <4>1. sent \in Nat /\ tid \in 0 .. MaxTid /\ m.seq \in 1 .. sent
        BY <2>4 DEF OnCycle, TypeOK
      <4>2. sent - m.seq < MaxTid =>
              m.tid \in {tid - (sent - m.seq), tid - (sent - m.seq) + MaxTid}
        BY <2>4 DEF OnCycle
      <4>3. tid' \in Nat /\ tid' = IF tid < MaxTid THEN tid + 1 ELSE 1
        BY <2>2, <4>1 DEF next_tid
      <4>4. ASSUME (sent + 1) - m.seq < MaxTid
            PROVE  m.tid \in {tid' - (sent + 1 - m.seq),
                              tid' - (sent + 1 - m.seq) + MaxTid}
        BY <3>2, <4>1, <4>2, <4>3, <4>4, CycleArithmetic
      <4> QED
        BY <2>2, <4>1, <4>4
    <3> QED
      BY <2>3, <3>1, <3>2, <3>3 DEF Agrees, OnCycle
  <2>5. \A i \in 1 .. Len(stream') : OnCycle(stream[i])' /\ Agrees(stream[i])'
    <3> SUFFICES ASSUME NEW i \in 1 .. Len(stream)
                 PROVE  OnCycle(stream[i])' /\ Agrees(stream[i])'
      BY <2>2
    <3>1. stream[i] \in Replies /\ OnCycle(stream[i])
      BY DEF TypeOK, TidInv
    <3>2. PICK m : m = stream[i]
      OBVIOUS
    <3>3. m.seq \in Nat /\ m.tid \in Nat /\ OnCycle(m)
      BY <3>1, <3>2 DEF Replies
    <3>4. OnCycle(m)' /\ Agrees(m)'
      BY <2>4, <3>3
    <3> QED
      BY <2>2, <3>2, <3>4 DEF OnCycle, Agrees
  <2>6. \A m \in pending' : OnCycle(m)' /\ Agrees(m)'
    <3>1. \A m \in pending : OnCycle(m)' /\ Agrees(m)'
      <4> SUFFICES ASSUME NEW m \in pending PROVE OnCycle(m)' /\ Agrees(m)'
        OBVIOUS
      <4>1. m.seq \in Nat /\ m.tid \in Nat /\ OnCycle(m)
        BY DEF TypeOK, TidInv, Requests
      <4> QED
        BY <2>4, <4>1
    <3>2. OnCycle(req[t])' /\ Agrees(req[t])'
      BY <2>2, <2>3, NextTidType DEF OnCycle, Agrees, TypeOK
    <3> QED
      BY <1>13, <3>1, <3>2 DEF Send, OnCycle, Agrees
  <2> QED
    BY <2>2, <2>3, <2>5, <2>6, NextTidType DEF TidInv, TypeOK
<1>14. ASSUME NEW t \in Threads, Receive(t) PROVE TidInv'
  BY <1>14 DEF Receive, TidInv, OnCycle, Agrees, TypeOK, ctx, call, net
<1>15. ASSUME NEW t \in Threads, Timeout(t) PROVE TidInv'
  BY <1>15 DEF Timeout, TidInv, OnCycle, Agrees, TypeOK, ctx, call, net
<1>16. ASSUME NEW t \in Threads, ReceiveFails(t) PROVE TidInv'
  BY <1>16 DEF ReceiveFails, TidInv, OnCycle, Agrees, TypeOK, ctx, call, net
<1>17. ASSUME NEW t \in Threads, Finish(t) PROVE TidInv'
  BY <1>17 DEF Finish, StreamSpoilt, MutexUnlock, CloseSocket, Return, TidInv, OnCycle,
    Agrees, TypeOK, ctx, call, net
<1>18. CASE ServerReplies
  BY <1>18 DEF ServerReplies, TidInv, OnCycle, Agrees, TypeOK, ctx, call, net
<1>19. CASE LinkDown
  BY <1>19 DEF LinkDown, TidInv, OnCycle, Agrees, TypeOK, ctx, call, net
<1>20. CASE UNCHANGED vars
  BY <1>20 DEF vars, TidInv, OnCycle, Agrees, TypeOK, ctx, call, net
<1>21. ASSUME NEW t \in Threads, Returned(t) PROVE TidInv'
  BY <1>21 DEF Returned, TidInv, OnCycle, Agrees, TypeOK, ctx, net
<1> QED
  BY <1>1, <1>2, <1>3, <1>4, <1>5, <1>6, <1>7, <1>8, <1>9, <1>10, <1>11,
    <1>12, <1>13, <1>14, <1>15, <1>16, <1>17, <1>18, <1>19, <1>20,
    <1>21 DEF Next,
    Transact, Disconnect, Quiet

(* The inductive invariant holds initially ...                             *)
LEMMA InitInv == Init => IInv
<1> SUFFICES ASSUME Init PROVE IInv
  OBVIOUS
<1>1. TypeOK
  <2>1. initialized \in BOOLEAN /\ aligned \in BOOLEAN
    BY DEF Init
  <2>2. stream \in Seq(Replies) /\ result \in [Threads -> Results]
    BY DEF Init, Results
  <2>3. req \in [Threads -> Requests] /\ got \in [Threads -> Replies]
    BY SentinelTypes DEF Init
  <2> QED
    BY <2>1, <2>2, <2>3 DEF Init, TypeOK
<1>2. MutexInv /\ StreamInv
  BY DEF Init, MutexInv, StreamInv, InFlight
<1>3. TidInv
  BY DEF Init, TidInv
<1> QED
  BY <1>1, <1>2, <1>3 DEF IInv

(* ... and every step preserves it.                                        *)
LEMMA InductiveStep ==
  ASSUME DisconnectWhileQueued = FALSE, IInv, [Next]_vars
  PROVE  IInv'
  BY TypeStep, MutexStep, StreamStep, TidStep DEF IInv

(* The variables of the client keep their types, whatever the callers do.  *)
THEOREM TypeCorrect == Spec => []TypeOK
<1>1. Init => TypeOK
  BY InitInv DEF IInv
<1> QED
  BY <1>1, TypeStep, PTL DEF Spec

(* The inductive invariant holds throughout, for callers that disconnect   *)
(* only when no request is queued.                                         *)
THEOREM Invariance ==
  ASSUME DisconnectWhileQueued = FALSE
  PROVE  Spec => []IInv
<1>1. IInv /\ [Next]_vars => IInv'
  BY InductiveStep
<1> QED
  BY <1>1, InitInv, PTL DEF Spec

(* A request that succeeds was answered by its own reply, unless a reply   *)
(* is late by a whole cycle of TIDs.                                       *)
THEOREM RepliesAreOwn ==
  ASSUME DisconnectWhileQueued = FALSE
  PROVE  Spec => []OwnReply
<1>1. IInv => OwnReply
  <2> SUFFICES ASSUME IInv PROVE OwnReply
    OBVIOUS
  <2> SUFFICES ASSUME NEW t \in Threads, pc[t] = "finish",
                      TransactResult(t) \in {"OK", "EXCEPTION"},
                      req[t].seq - got[t].seq < MaxTid
               PROVE  got[t].seq = req[t].seq /\ got[t].unit = req[t].unit
    <3>1. ASSUME NEW u \in Threads
          PROVE  req[u].seq \in Nat /\ got[u].seq \in Nat
      BY DEF IInv, TypeOK, Requests, Replies
    <3> QED
      BY <3>1 DEF OwnReply
  <2>1. rc[t] = "0"
    BY DEF TransactResult, IInv, TypeOK
  <2>2. /\ req[t].seq = sent /\ got[t].tid = tid
        /\ OnCycle(got[t]) /\ Agrees(got[t])
    BY <2>1 DEF IInv, TidInv
  <2>3. got[t].seq = sent
    BY <2>2 DEF OnCycle, IInv, TypeOK
  <2> QED
    BY <2>2, <2>3 DEF Agrees
<1> QED
  BY <1>1, Invariance, PTL

(* Requests never overlap on the connection.                               *)
THEOREM RequestsAreSerialized ==
  ASSUME DisconnectWhileQueued = FALSE
  PROVE  Spec => []OneInFlight
<1>1. IInv => OneInFlight
  BY DEF IInv, MutexInv, OneInFlight
<1> QED
  BY <1>1, Invariance, PTL

(* The mutex outlives every call that uses it.                             *)
THEOREM MutexOutlivesCalls ==
  ASSUME DisconnectWhileQueued = FALSE
  PROVE  Spec => []NoDestroyedMutex
<1>1. IInv => NoDestroyedMutex
  BY DEF IInv, MutexInv, NoDestroyedMutex, InFlight
<1> QED
  BY <1>1, Invariance, PTL

(* Nobody ever sends a request on, or reads a reply from, a stream that is *)
(* out of step.                                                            *)
THEOREM StreamIsTrusted ==
  ASSUME DisconnectWhileQueued = FALSE
  PROVE  Spec => []TrustedStream
<1>1. IInv => TrustedStream
  BY DEF IInv, StreamInv, MutexInv, InFlight, TrustedStream, TypeOK
<1> QED
  BY <1>1, Invariance, PTL

(* The connection is given up only when it is down, out of step,           *)
(* disconnected by the application, or does not take a request: never for  *)
(* a plain timeout of one that was sent.                                   *)
THEOREM ConnectionIsKept ==
  ASSUME DisconnectWhileQueued = FALSE
  PROVE  Spec => ClosedForCause
<1>1. ASSUME IInv, [Next]_vars, sock = "open", sock' = "closed"
      PROVE  \/ link = "down" \/ ~aligned \/ Disconnecting
             \/ \E t \in Threads :
                  pc[t] = "locked" /\ result'[t] = "ERR_TRANSPORT"
  <2>1. CASE Connect
    BY <1>1, <2>1 DEF Connect, IInv, MutexInv
  <2>2. ASSUME NEW t \in Threads, DisconnectClose(t) PROVE Disconnecting
    BY <2>2 DEF DisconnectClose, Disconnecting
  <2>3. ASSUME NEW t \in Threads, SendFails(t)
        PROVE  pc[t] = "locked" /\ result'[t] = "ERR_TRANSPORT"
    BY <1>1, <2>3 DEF SendFails, DrawRequest, Return, IInv, TypeOK
  <2>4. ASSUME NEW t \in Threads, Finish(t) PROVE link = "down" \/ ~aligned
    BY <1>1, <2>4 DEF Finish, StreamSpoilt, IInv, StreamInv, net
  <2>5. ASSUME NEW t \in Threads,
               \/ DisconnectBegin(t) \/ DisconnectLock(t) \/ DisconnectDestroy(t)
               \/ SetUnitIdBegin(t) \/ SetUnitId(t) \/ RequestRefused(t)
               \/ RequestBegin(t) \/ RequestLock(t) \/ RequestNotConnected(t)
               \/ Send(t) \/ Receive(t) \/ Timeout(t) \/ ReceiveFails(t)
               \/ Returned(t)
        PROVE  sock' = sock
    BY <2>5 DEF DisconnectBegin, DisconnectLock, DisconnectDestroy,
      SetUnitIdBegin, SetUnitId, RequestRefused, RequestBegin, RequestLock,
      RequestNotConnected, Send, Receive, Timeout, ReceiveFails, Returned, ctx
  <2>6. CASE ServerReplies \/ LinkDown \/ UNCHANGED vars
    BY <1>1, <2>6 DEF ServerReplies, LinkDown, vars, ctx
  <2> QED
    BY <1>1, <2>1, <2>2, <2>3, <2>4, <2>5, <2>6
    DEF Next, Transact, Disconnect, Quiet
<1>2. IInv /\ [Next]_vars =>
        [sock = "open" /\ sock' = "closed" =>
           \/ link = "down" \/ ~aligned \/ Disconnecting
           \/ \E t \in Threads :
                pc[t] = "locked" /\ result'[t] = "ERR_TRANSPORT"]_vars
  BY <1>1
<1> QED
  BY <1>2, Invariance, PTL DEF Spec, ClosedForCause

-----------------------------------------------------------------------------
(* The refinement of SerialService: what a step does to the place of a     *)
(* thread.                                                                 *)
Moves(t, from, to) ==
  /\ Place(t) = from /\ Place(t)' = to
  /\ \A u \in Threads \ {t} : Place(u)' = Place(u)

(* Where a thread stands for SerialService, by its program counter.        *)
LEMMA PlaceOf ==
  ASSUME NEW t \in Threads
  PROVE  /\ pc[t] \in {"lock", "dlock"} => Place(t) = "queue"
         /\ InFlight(t) => Place(t) = "connection"
         /\ pc[t] \in {"return", "destroy", "ulock"} => Place(t) = "over"
         /\ pc[t] = "idle" => Place(t) = "out"
         /\ pc'[t] \in {"lock", "dlock"} => Place(t)' = "queue"
         /\ InFlight(t)' => Place(t)' = "connection"
         /\ pc'[t] \in {"return", "destroy", "ulock"} => Place(t)' = "over"
         /\ pc'[t] = "idle" => Place(t)' = "out"
<1>1. /\ pc[t] \in {"lock", "dlock"} => Place(t) = "queue"
      /\ InFlight(t) => Place(t) = "connection"
      /\ pc[t] \in {"return", "destroy", "ulock"} => Place(t) = "over"
      /\ pc[t] = "idle" => Place(t) = "out"
  BY DEF Place, InFlight
<1>2. /\ pc'[t] \in {"lock", "dlock"} => Place(t)' = "queue"
      /\ InFlight(t)' => Place(t)' = "connection"
      /\ pc'[t] \in {"return", "destroy", "ulock"} => Place(t)' = "over"
      /\ pc'[t] = "idle" => Place(t)' = "out"
  BY DEF Place, InFlight
<1> QED
  BY <1>1, <1>2

(* A step that changes one thread's pc moves no other thread.              *)
LEMMA OthersStay ==
  ASSUME TypeOK, NEW t \in Threads, NEW s, pc' = [pc EXCEPT ![t] = s]
  PROVE  pc'[t] = s /\ \A u \in Threads \ {t} : Place(u)' = Place(u)
<1>1. pc'[t] = s /\ \A u \in Threads \ {t} : pc'[u] = pc[u]
  BY DEF TypeOK
<1> QED
  BY <1>1 DEF Place, InFlight

(* Every step is a move the service allows, or moves nobody.               *)
LEMMA StepMoves ==
  ASSUME TypeOK, MutexInv, [Next]_vars
  PROVE  \/ \A t \in Threads : Place(t)' = Place(t)
         \/ \E t \in Threads :
              \/ Moves(t, "out", "queue") \/ Moves(t, "out", "over")
              \/ Moves(t, "queue", "over") \/ Moves(t, "over", "out")
              \/ Moves(t, "connection", "over")
              \/ /\ Moves(t, "queue", "connection")
                 /\ \A u \in Threads : Place(u) # "connection"
<1>1. ASSUME NEW t \in Threads, DisconnectBegin(t) \/ RequestBegin(t)
      PROVE  Moves(t, "out", "queue")
  <2>1. /\ pc[t] = "idle"
        /\ \E s \in {"dlock", "lock"} : pc' = [pc EXCEPT ![t] = s]
    BY <1>1 DEF DisconnectBegin, RequestBegin, Idle
  <2> QED
    BY <2>1, PlaceOf, OthersStay DEF Moves
<1>2. ASSUME NEW t \in Threads, SetUnitIdBegin(t) \/ RequestRefused(t)
      PROVE  Moves(t, "out", "over")
  <2>1. /\ pc[t] = "idle"
        /\ \E s \in {"ulock", "return"} : pc' = [pc EXCEPT ![t] = s]
    BY <1>2 DEF SetUnitIdBegin, RequestRefused, Return, Idle
  <2> QED
    BY <2>1, PlaceOf, OthersStay DEF Moves
<1>3. ASSUME NEW t \in Threads, DisconnectLock(t) \/ RequestLock(t)
      PROVE  /\ Moves(t, "queue", "connection")
             /\ \A u \in Threads : Place(u) # "connection"
  <2>1. /\ pc[t] \in {"dlock", "lock"} /\ MutexLock(t)
        /\ \E s \in {"dlocked", "locked"} : pc' = [pc EXCEPT ![t] = s]
    BY <1>3 DEF DisconnectLock, RequestLock
  <2>2. Moves(t, "queue", "connection")
    BY <2>1, PlaceOf, OthersStay DEF Moves, InFlight
  <2>3. owner = NoThread
    BY <2>1 DEF MutexInv, MutexLock
  <2>4. ASSUME NEW u \in Threads, Place(u) = "connection"
        PROVE  FALSE
    <3>1. InFlight(u)
      BY <2>4 DEF Place
    <3> QED
      BY <2>3, <3>1, ThreadsAssumption DEF MutexInv
  <2> QED
    BY <2>2, <2>4
<1>4. ASSUME NEW t \in Threads,
             \/ DisconnectClose(t) \/ RequestNotConnected(t) \/ SendFails(t)
             \/ Finish(t)
      PROVE  Moves(t, "connection", "over")
  <2>1. /\ InFlight(t)
        /\ \E s \in {"destroy", "return"} : pc' = [pc EXCEPT ![t] = s]
    BY <1>4 DEF DisconnectClose, RequestNotConnected, SendFails, DrawRequest, Finish,
                Return, InFlight
  <2> QED
    BY <2>1, PlaceOf, OthersStay DEF Moves
<1>5. ASSUME NEW t \in Threads, DisconnectDestroy(t) \/ SetUnitId(t) \/ Returned(t)
      PROVE  Moves(t, "over", "out")
  <2>1. /\ pc[t] \in {"destroy", "ulock", "return"} /\ pc' = [pc EXCEPT ![t] = "idle"]
    BY <1>5 DEF DisconnectDestroy, SetUnitId, Returned
  <2> QED
    BY <2>1, PlaceOf, OthersStay DEF Moves
<1>6. ASSUME NEW t \in Threads, Send(t) \/ Receive(t) \/ Timeout(t) \/ ReceiveFails(t)
      PROVE  \A u \in Threads : Place(u)' = Place(u)
  <2>1. /\ InFlight(t)
        /\ \/ pc' = pc
           \/ \E s \in {"wait", "finish"} : pc' = [pc EXCEPT ![t] = s]
    BY <1>6 DEF Send, DrawRequest, Receive, Timeout, ReceiveFails, InFlight
  <2>2. CASE pc' = pc
    BY <2>2 DEF Place, InFlight
  <2>3. CASE \E s \in {"wait", "finish"} : pc' = [pc EXCEPT ![t] = s]
    <3>1. /\ pc'[t] \in {"wait", "finish"}
          /\ \A u \in Threads \ {t} : Place(u)' = Place(u)
      BY <2>3, OthersStay
    <3>2. Place(t)' = "connection" /\ Place(t) = "connection"
      BY <2>1, <3>1, PlaceOf DEF InFlight
    <3> QED
      BY <3>1, <3>2
  <2> QED
    BY <2>1, <2>2, <2>3
<1>7. ASSUME pc' = pc
      PROVE  \A u \in Threads : Place(u)' = Place(u)
  BY <1>7 DEF Place, InFlight
<1>8. CASE Connect \/ ServerReplies \/ LinkDown \/ UNCHANGED vars
  BY <1>7, <1>8 DEF Connect, ServerReplies, LinkDown, vars
<1> QED
  BY <1>1, <1>2, <1>3, <1>4, <1>5, <1>6, <1>8 DEF Next, Transact, Disconnect, Quiet

(* modbus_tcp_client.h: "only one request is in flight at a time".  For    *)
(* callers that disconnect only when no request is queued, the client      *)
(* implements the safety part of the service: whoever gets the connection  *)
(* was queued for it and finds it free.                                    *)
THEOREM ServesInTurn ==
  ASSUME DisconnectWhileQueued = FALSE
  PROVE  Spec => Service!Safety
<1>1. Init => Service!Init
  BY PlaceOf DEF Init, Service!Init
<1>2. ASSUME IInv, [Next]_vars
      PROVE  [Service!Next]_[t \in Threads |-> Place(t)]
  <2>1. CASE \A t \in Threads : Place(t)' = Place(t)
    BY <2>1
  <2>2. ASSUME NEW t \in Threads, NEW a, NEW b, Moves(t, a, b)
        PROVE  Service!Move(t, a, b)
    <3>1. [u \in Threads |-> Place(u)]'
            = [[u \in Threads |-> Place(u)] EXCEPT ![t] = b]
      BY <2>2 DEF Moves
    <3> QED
      BY <2>2, <3>1 DEF Moves, Service!Move
  <2>3. ASSUME NEW t \in Threads, Moves(t, "out", "queue") \/ Moves(t, "out", "over")
        PROVE  Service!Next
    BY <2>2, <2>3 DEF Service!Next, Service!Arrive
  <2>4. ASSUME NEW t \in Threads, Moves(t, "queue", "over") \/ Moves(t, "over", "out")
        PROVE  Service!Next
    BY <2>2, <2>4 DEF Service!Next, Service!Withdraw, Service!Return
  <2>5. ASSUME NEW t \in Threads, Moves(t, "connection", "over")
        PROVE  Service!Next
    BY <2>2, <2>5 DEF Service!Next, Service!Leave
  <2>6. ASSUME NEW t \in Threads, Moves(t, "queue", "connection"),
               \A u \in Threads : Place(u) # "connection"
        PROVE  Service!Next
    BY <2>2, <2>6 DEF Service!Next, Service!Enter, Service!Free
  <2> QED
    BY <1>2, <2>1, <2>3, <2>4, <2>5, <2>6, StepMoves DEF IInv
<1> QED
  BY <1>1, <1>2, Invariance, PTL DEF Spec, Service!Safety
=============================================================================
