--------------------------- MODULE RtuClientProofs ---------------------------
(***************************************************************************)
(* Proofs, for every set of threads, contexts, paths and settings, of the  *)
(* safety properties of RtuClient, and that it implements the safety part  *)
(* of SerialService.                                                       *)
(***************************************************************************)
EXTENDS RtuClient, FiniteSetTheorems, TLAPS

USE NamesAssumption, PathAssumption, ConfigAssumption

(* A thread that has a call in progress on its context; one that holds the *)
(* context's mutex; one that disconnects it.                               *)
Uses(t) ==
  pc[t] \in {"lock", "locked", "ulock", "dlock", "dlocked"} \/ OnBus(t)
Holds(t) == pc[t] \in {"locked", "dlocked"} \/ OnBus(t)
Leaving(t) == pc[t] \in {"dlock", "dlocked", "destroy"}

(* A connected context has a usable mutex, a bus and its settings; another *)
(* has no bus.                                                             *)
CtxInv ==
  \A c \in Ctxs :
    /\ initialized[c] =>
         /\ mutex[c] = "alive" /\ shared_bus[c] \in Devices
         /\ unit_id[c] \in Units /\ baud_rate[c] \in Bauds
    /\ ~initialized[c] => shared_bus[c] = NoBus

(* Calls in progress are on connected contexts, past the mutex only with   *)
(* the mutex.                                                              *)
CallInv ==
  \A t \in Threads :
    /\ pc[t] # "crashed"
    /\ Uses(t) => on[t] \in Ctxs /\ initialized[on[t]]
    /\ Holds(t) => owner[on[t]] = t
    /\ pc[t] = "destroy" => on[t] \in Ctxs /\ ~initialized[on[t]]

(* A disconnect is the only one on its context, and nobody is queued there.*)
LeaveInv ==
  \A t, u \in Threads :
    Leaving(t) /\ u # t /\ on[u] = on[t] =>
      pc[u] \notin {"lock", "ulock"} /\ ~Leaving(u)

(* A port runs with the settings of every context attached to it.          *)
PortInv ==
  \A c \in Ctxs :
    initialized[c] =>
      buses[shared_bus[c]].baud_rate = effective_baud_rate(baud_rate[c])

(* Who is in a transaction holds the mutex of the bus.                     *)
HolderInv == \A t \in Threads : OnBus(t) => buses[Bus(t)].holder = t

(* As long as the port stays open, the record knows the last transaction.  *)
LastInv ==
  \A d \in Devices :
    last[d].open /\ last[d].unit # NoUnit =>
      d \in shared_buses /\ buses[d].last_unit_id = last[d].unit

(* After the flush the transaction is the latest one on the device, and    *)
(* all that is in the input queue arrived during it.                       *)
InputInv ==
  \A t \in Threads :
    pc[t] \in {"send", "echo", "sent"} =>
      /\ req[t].seq = seq[Dev(t)]
      /\ \A i \in 1 .. Len(rx[Dev(t)]) : rx[Dev(t)][i].heard = req[t].seq

Attachments == CtxInv /\ CallInv /\ LeaveInv

(* Canonical paths are their own canonical path.                           *)
LEMMA DeviceFacts ==
  /\ Devices \subseteq Paths
  /\ \A d \in Devices : realpath[d] = d
  /\ \A p \in Paths : realpath[p] \in Devices
  BY DEF Devices

(* A thread on the bus is on the bus of its context, which is connected.   *)
LEMMA OnBusFacts ==
  ASSUME TypeOK, CtxInv, CallInv, NEW t \in Threads, OnBus(t)
  PROVE  /\ on[t] \in Ctxs /\ initialized[on[t]] /\ owner[on[t]] = t
         /\ Bus(t) = shared_bus[on[t]] /\ Bus(t) \in Devices /\ Dev(t) = Bus(t)
  BY DeviceFacts DEF CtxInv, CallInv, Uses, Holds, Bus, Dev, TypeOK

(* Contexts, calls and disconnects: kept by every step of an application   *)
(* that disconnects a context only when nobody is queued on it.            *)
LEMMA AttachmentsStep ==
  TypeOK /\ Attachments /\ ~DisconnectWhileQueued /\ [Next]_vars => Attachments'
<1> SUFFICES ASSUME TypeOK, CtxInv, CallInv, LeaveInv, ~DisconnectWhileQueued,
                    [Next]_vars
             PROVE  CtxInv' /\ CallInv' /\ LeaveInv'
  BY DEF Attachments
<1> USE DEF Uses, Holds, Leaving, OnBus
<1>1. ASSUME NEW t \in Threads, NEW c \in Ctxs, Connect(t, c)
      PROVE  CtxInv' /\ CallInv' /\ LeaveInv'
  <2>1. PICK device \in Paths, b \in Bauds, u \in Units :
          /\ shared_bus' = [shared_bus EXCEPT ![c] = realpath[device]]
          /\ unit_id' = [unit_id EXCEPT ![c] = u]
          /\ baud_rate' = [baud_rate EXCEPT ![c] = b]
    BY <1>1 DEF Connect, shared_bus_attach, resolve_bus_key
  <2>2. CtxInv'
    BY <1>1, <2>1, DeviceFacts DEF Connect, CtxInv, TypeOK
  <2>3. \A t2 \in Threads : Uses(t2) \/ Leaving(t2) => on[t2] # c
    BY <1>1 DEF Connect, InCall, Idle
  <2>4. pc' = pc /\ on' = on
    BY <1>1 DEF Connect, call
  <2>5. CallInv'
    BY <1>1, <2>3, <2>4 DEF Connect, CallInv, TypeOK
  <2>6. LeaveInv'
    BY <2>4 DEF LeaveInv
  <2> QED
    BY <2>2, <2>5, <2>6
<1>2. ASSUME NEW t \in Threads, NEW c \in Ctxs, ConnectFails(t, c)
      PROVE  CtxInv' /\ CallInv' /\ LeaveInv'
  BY <1>2 DEF ConnectFails, CtxInv, CallInv, LeaveInv, call, TypeOK
<1>3. ASSUME NEW t \in Threads, NEW c \in Ctxs, DisconnectBegin(t, c)
      PROVE  CtxInv' /\ CallInv' /\ LeaveInv'
  <2>1. CtxInv'
    BY <1>3 DEF DisconnectBegin, CtxInv, ctx
  <2>2. CallInv'
    BY <1>3 DEF DisconnectBegin, CallInv, ctx, Idle, TypeOK
  <2>3. LeaveInv'
    BY <1>3 DEF DisconnectBegin, LeaveInv, Disconnecting, Idle, TypeOK
  <2> QED
    BY <2>1, <2>2, <2>3
<1>4. ASSUME NEW t \in Threads, NEW c \in Ctxs, SetUnitIdBegin(t, c)
      PROVE  CtxInv' /\ CallInv' /\ LeaveInv'
  <2>1. CtxInv'
    BY <1>4 DEF SetUnitIdBegin, CtxInv, ctx
  <2>2. CallInv'
    BY <1>4 DEF SetUnitIdBegin, CallInv, ctx, Idle, TypeOK
  <2>3. LeaveInv'
    BY <1>4 DEF SetUnitIdBegin, LeaveInv, Disconnecting, Idle, TypeOK
  <2> QED
    BY <2>1, <2>2, <2>3
<1>5. ASSUME NEW t \in Threads, NEW c \in Ctxs, RequestRefused(t, c)
      PROVE  CtxInv' /\ CallInv' /\ LeaveInv'
  <2>1. /\ pc[t] = "idle" /\ pc' = [pc EXCEPT ![t] = "return"]
        /\ on' = on /\ UNCHANGED ctx
    BY <1>5 DEF RequestRefused, Return, Idle
  <2> QED
    BY <2>1 DEF CtxInv, CallInv, LeaveInv, ctx, TypeOK
<1>6. ASSUME NEW t \in Threads, NEW c \in Ctxs, RequestBegin(t, c)
      PROVE  CtxInv' /\ CallInv' /\ LeaveInv'
  <2>1. CtxInv'
    BY <1>6 DEF RequestBegin, CtxInv, ctx
  <2>2. CallInv'
    BY <1>6 DEF RequestBegin, CallInv, ctx, Idle, TypeOK
  <2>3. LeaveInv'
    BY <1>6 DEF RequestBegin, LeaveInv, Disconnecting, Idle, TypeOK
  <2> QED
    BY <2>1, <2>2, <2>3
<1>7. ASSUME NEW t \in Threads, DisconnectLock(t)
      PROVE  CtxInv' /\ CallInv' /\ LeaveInv'
  <2>1. /\ pc[t] = "dlock" /\ on[t] \in Ctxs /\ owner[on[t]] = NoThread
        /\ owner' = [owner EXCEPT ![on[t]] = t]
        /\ pc' = [pc EXCEPT ![t] = "dlocked"]
        /\ on' = on /\ initialized' = initialized /\ mutex' = mutex
        /\ unit_id' = unit_id /\ baud_rate' = baud_rate /\ shared_bus' = shared_bus
    BY <1>7 DEF DisconnectLock, MutexLock, CallInv, CtxInv, call
  <2>2. CallInv'
    BY <2>1 DEF CallInv, TypeOK
  <2> QED
    BY <2>1, <2>2 DEF CtxInv, LeaveInv, TypeOK
<1>8. ASSUME NEW t \in Threads, DisconnectDetach(t)
      PROVE  CtxInv' /\ CallInv' /\ LeaveInv'
  <2>1. /\ pc[t] = "dlocked" /\ on[t] \in Ctxs /\ owner[on[t]] = t
        /\ pc' = [pc EXCEPT ![t] = "destroy"]
        /\ initialized' = [initialized EXCEPT ![on[t]] = FALSE]
        /\ shared_bus' = [shared_bus EXCEPT ![on[t]] = NoBus]
        /\ owner' = [owner EXCEPT ![on[t]] = NoThread]
        /\ on' = on /\ mutex' = mutex /\ unit_id' = unit_id /\ baud_rate' = baud_rate
    BY <1>8 DEF DisconnectDetach, shared_bus_detach, MutexUnlock, CallInv, call
  <2>2. CtxInv'
    BY <2>1 DEF CtxInv, TypeOK
  <2>3. \A u \in Threads : u # t /\ on[u] = on[t] => ~Uses(u) /\ ~Leaving(u)
    BY <2>1 DEF LeaveInv, CallInv, TypeOK
  <2>4. CallInv'
    BY <2>1, <2>3 DEF CallInv, TypeOK
  <2>5. LeaveInv'
    BY <2>1 DEF LeaveInv, TypeOK
  <2> QED
    BY <2>2, <2>4, <2>5
<1>9. ASSUME NEW t \in Threads, DisconnectDestroy(t)
      PROVE  CtxInv' /\ CallInv' /\ LeaveInv'
  <2>1. /\ pc[t] = "destroy" /\ on[t] \in Ctxs /\ ~initialized[on[t]]
        /\ mutex' = [mutex EXCEPT ![on[t]] = "destroyed"]
        /\ pc' = [pc EXCEPT ![t] = "idle"]
        /\ on' = [on EXCEPT ![t] = NoCtx]
        /\ initialized' = initialized /\ owner' = owner /\ unit_id' = unit_id
        /\ baud_rate' = baud_rate /\ shared_bus' = shared_bus
    BY <1>9 DEF DisconnectDestroy, CallInv
  <2> QED
    BY <2>1 DEF CtxInv, CallInv, LeaveInv, TypeOK
<1>10. ASSUME NEW t \in Threads, SetUnitId(t)
       PROVE  CtxInv' /\ CallInv' /\ LeaveInv'
  <2>1. CtxInv'
    BY <1>10 DEF SetUnitId, CtxInv, TypeOK
  <2>2. CallInv' /\ LeaveInv'
    BY <1>10 DEF SetUnitId, CallInv, LeaveInv, TypeOK
  <2> QED
    BY <2>1, <2>2
<1>11. ASSUME NEW t \in Threads, RequestLock(t)
       PROVE  CtxInv' /\ CallInv' /\ LeaveInv'
  <2>1. /\ pc[t] = "lock" /\ on[t] \in Ctxs /\ owner[on[t]] = NoThread
        /\ owner' = [owner EXCEPT ![on[t]] = t]
        /\ pc' = [pc EXCEPT ![t] = "locked"]
        /\ on' = on /\ initialized' = initialized /\ mutex' = mutex
        /\ unit_id' = unit_id /\ baud_rate' = baud_rate /\ shared_bus' = shared_bus
    BY <1>11 DEF RequestLock, MutexLock, CallInv, CtxInv, call
  <2>2. CallInv'
    BY <2>1 DEF CallInv, TypeOK
  <2> QED
    BY <2>1, <2>2 DEF CtxInv, LeaveInv, TypeOK
<1>12. ASSUME NEW t \in Threads, BusLock(t)
       PROVE  CtxInv' /\ CallInv' /\ LeaveInv'
  <2>1. /\ pc[t] = "locked" /\ pc' = [pc EXCEPT ![t] = "silence"]
        /\ on' = on /\ UNCHANGED ctx
    BY <1>12 DEF BusLock, Bus, CallInv, CtxInv, call, Devices
  <2> QED
    BY <2>1 DEF CtxInv, CallInv, LeaveInv, ctx, TypeOK
<1>13. ASSUME NEW t \in Threads, \/ wait_bus_silence(t) \/ Flush(t) \/ Send(t)
                                 \/ EchoReads(t)
       PROVE  CtxInv' /\ CallInv' /\ LeaveInv'
  <2>1. /\ OnBus(t) /\ on' = on /\ UNCHANGED ctx
        /\ \E s \in {"flush", "send", "echo", "sent"} : pc' = [pc EXCEPT ![t] = s]
    BY <1>13 DEF wait_bus_silence, Flush, BeginTransaction, Send, EchoReads, call
  <2> QED
    BY <2>1 DEF CtxInv, CallInv, LeaveInv, ctx, TypeOK
<1>14. ASSUME NEW t \in Threads,
              RequestBroadcastRead(t) \/ \E code : OnBus(t) /\ EndTransaction(t, code)
       PROVE  CtxInv' /\ CallInv' /\ LeaveInv'
  <2>1. /\ Holds(t) /\ ~Leaving(t) /\ on[t] \in Ctxs
        /\ owner' = [owner EXCEPT ![on[t]] = NoThread]
        /\ pc' = [pc EXCEPT ![t] = "return"]
        /\ on' = on /\ initialized' = initialized /\ mutex' = mutex
        /\ unit_id' = unit_id /\ baud_rate' = baud_rate /\ shared_bus' = shared_bus
    BY <1>14 DEF RequestBroadcastRead, EndTransaction, MutexUnlock, Return, CallInv
  <2>2. CallInv'
    BY <2>1 DEF CallInv, TypeOK
  <2> QED
    BY <2>1, <2>2 DEF CtxInv, LeaveInv, TypeOK
<1>15. ASSUME NEW t \in Threads, Returned(t)
       PROVE  CtxInv' /\ CallInv' /\ LeaveInv'
  BY <1>15 DEF Returned, CtxInv, CallInv, LeaveInv, ctx, TypeOK
<1>16. ASSUME UNCHANGED <<pc, on, ctx>>
       PROVE  CtxInv' /\ CallInv' /\ LeaveInv'
  BY <1>16 DEF CtxInv, CallInv, LeaveInv, ctx
<1> QED
  BY <1>1, <1>2, <1>3, <1>4, <1>5, <1>6, <1>7, <1>8, <1>9, <1>10, <1>11, <1>12,
     <1>13, <1>14, <1>15, <1>16
  DEF Next, Transact, Disconnect, SendFails, EchoFails, BroadcastDone, Receive,
      ReceiveFails, SlaveReplies, Tick, Quiet, vars, call

-----------------------------------------------------------------------------
(* The contexts attached to the bus p.                                     *)
Attached(p) == {c \in Ctxs : shared_bus[c] = p}

(* The attached contexts can be counted.                                   *)
LEMMA AttachedFinite ==
  ASSUME NEW p
  PROVE  /\ IsFiniteSet(Attached(p)) /\ Cardinality(Attached(p)) \in Nat
         /\ IsFiniteSet(Attached(p)') /\ Cardinality(Attached(p)') \in Nat
         /\ Cardinality(Attached(p)') <= Cardinality(Ctxs)
<1>1. Attached(p) \in SUBSET Ctxs /\ Attached(p)' \in SUBSET Ctxs
  BY DEF Attached
<1>2. IsFiniteSet(Attached(p)) /\ IsFiniteSet(Attached(p)')
  BY <1>1, FS_Subset
<1> QED
  BY <1>1, <1>2, FS_Subset, FS_CardinalityType

(* The reference of one context is counted once.                           *)
LEMMA AttachCounts ==
  ASSUME TypeOK, NEW c \in Ctxs, NEW p \in Paths, shared_bus[c] = NoBus,
         shared_bus' = [shared_bus EXCEPT ![c] = p]
  PROVE  /\ Cardinality(Attached(p)') = Cardinality(Attached(p)) + 1
         /\ \A q \in Paths \ {p} : Attached(q)' = Attached(q)
<1>1. Attached(p)' = Attached(p) \cup {c} /\ c \notin Attached(p)
  BY DEF Attached, TypeOK
<1>2. Cardinality(Attached(p)') = Cardinality(Attached(p)) + 1
  BY <1>1, AttachedFinite, FS_AddElement
<1>3. \A q \in Paths \ {p} : Attached(q)' = Attached(q)
  BY DEF Attached, TypeOK
<1> QED
  BY <1>2, <1>3

(* bus_release takes one context off one bus.                              *)
LEMMA DetachCounts ==
  ASSUME TypeOK, NEW c \in Ctxs, NEW p \in Paths, shared_bus[c] = p,
         shared_bus' = [shared_bus EXCEPT ![c] = NoBus]
  PROVE  /\ Cardinality(Attached(p)') = Cardinality(Attached(p)) - 1
         /\ \A q \in Paths \ {p} : Attached(q)' = Attached(q)
<1>1. Attached(p)' = Attached(p) \ {c} /\ c \in Attached(p)
  BY DEF Attached, TypeOK
<1>2. Cardinality(Attached(p)') = Cardinality(Attached(p)) - 1
  BY <1>1, AttachedFinite, FS_RemoveElement
<1>3. \A q \in Paths \ {p} : Attached(q)' = Attached(q)
  BY DEF Attached, TypeOK
<1> QED
  BY <1>2, <1>3

(* The last context on a bus is alone there.                               *)
LEMMA LastAlone ==
  ASSUME TypeOK, NEW c \in Ctxs, NEW e \in Ctxs, shared_bus[c] = shared_bus[e],
         Cardinality(Attached(shared_bus[c])) <= 1
  PROVE  c = e
<1> DEFINE S == Attached(shared_bus[c])
<1>1. c \in S /\ e \in S
  BY DEF Attached
<1>2. IsFiniteSet(S) /\ Cardinality(S) \in Nat
  BY AttachedFinite
<1>3. Cardinality(S \ {c}) = Cardinality(S) - 1 /\ IsFiniteSet(S \ {c})
  BY <1>1, <1>2, FS_RemoveElement
<1>4. Cardinality(S \ {c}) = 0
  BY <1>2, <1>3, FS_CardinalityType
<1>5. S \ {c} = {}
  BY <1>3, <1>4, FS_EmptySet
<1> QED
  BY <1>1, <1>5

(* RefcntExact, bus by bus.                                                *)
Counted(p) ==
  /\ buses[p].refcnt = Cardinality(Attached(p))
  /\ p \in shared_buses <=> buses[p].refcnt > 0

(* RefcntExact, bus by bus.                                                *)
LEMMA RefcntCounted ==
  /\ RefcntExact <=> \A p \in Paths : Counted(p)
  /\ RefcntExact' <=> \A p \in Paths : Counted(p)'
  BY DEF RefcntExact, Counted, Attached

(* A connected context's bus is in the registry.                           *)
LEMMA ConnectedOpen ==
  ASSUME TypeOK, CtxInv, RefcntExact, NEW c \in Ctxs, initialized[c]
  PROVE  /\ shared_bus[c] \in shared_buses /\ shared_bus[c] \in Paths
         /\ buses[shared_bus[c]].refcnt = Cardinality(Attached(shared_bus[c]))
         /\ buses[shared_bus[c]].refcnt \in Nat \ {0}
<1>1. shared_bus[c] \in Paths
  BY DeviceFacts DEF CtxInv
<1>2. c \in Attached(shared_bus[c])
  BY DEF Attached
<1>3. Cardinality(Attached(shared_bus[c])) \in Nat \ {0}
  BY <1>2, AttachedFinite, FS_EmptySet
<1> QED
  BY <1>1, <1>3, RefcntCounted DEF Counted

Registered == RefcntExact /\ PortInv /\ HolderInv

(* Steps that neither attach nor detach, nor change who is on a bus.       *)
KeepsBuses ==
  /\ UNCHANGED <<registry, shared_bus, baud_rate, initialized>>
  /\ \A u \in Threads : OnBus(u)' => OnBus(u) /\ on'[u] = on[u]

(* Steps that leave registry and contexts alone.                           *)
LEMMA RegisteredKept == Registered /\ KeepsBuses => Registered'
  BY DEF Registered, KeepsBuses, RefcntExact, PortInv, HolderInv, Bus, registry

(* The registry: reference counts, settings and mutex holders              *)
(* (bus_acquire, bus_release, the transaction's lock and unlock).          *)
LEMMA RegisteredStep ==
  TypeOK /\ Attachments /\ Registered /\ Attachments' /\ [Next]_vars => Registered'
<1> SUFFICES ASSUME TypeOK, Attachments, Registered, Attachments', [Next]_vars
             PROVE  Registered'
  OBVIOUS
<1>0. /\ CtxInv /\ CallInv /\ LeaveInv /\ RefcntExact /\ PortInv /\ HolderInv
      /\ CtxInv' /\ CallInv'
  BY DEF Attachments, Registered
<1>1. ASSUME NEW t \in Threads, NEW c \in Ctxs, Connect(t, c)
      PROVE  Registered'
  <2>1. PICK device \in Paths, b \in Bauds :
          /\ shared_bus_attach(c, realpath[device], b)
          /\ baud_rate' = [baud_rate EXCEPT ![c] = b]
    BY <1>1 DEF Connect, resolve_bus_key
  <2> DEFINE p == realpath[device]
  <2>2. /\ p \in Paths /\ shared_bus[c] = NoBus
        /\ shared_bus' = [shared_bus EXCEPT ![c] = p]
        /\ initialized' = [initialized EXCEPT ![c] = TRUE]
        /\ pc' = pc /\ on' = on
    BY <1>0, <1>1, <2>1 DEF Connect, CtxInv, shared_bus_attach, call
  <2>3. /\ Cardinality(Attached(p)') = Cardinality(Attached(p)) + 1
        /\ \A q \in Paths \ {p} : Attached(q)' = Attached(q)
    BY <2>2, AttachCounts
  <2>4. \A u \in Threads : OnBus(u) => on[u] # c
    BY <1>1 DEF Connect, InCall, Idle, OnBus
  <2>5. \A q \in Paths \ {p} : buses'[q] = buses[q]
    BY <2>1 DEF shared_bus_attach, TypeOK
  <2>6. CASE p \in shared_buses
    <3>1. /\ shared_buses' = shared_buses
          /\ buses'[p] = [buses[p] EXCEPT !.refcnt = @ + 1]
          /\ buses[p].baud_rate = effective_baud_rate(b)
      BY <2>1, <2>2, <2>6 DEF shared_bus_attach, bus_settings_match, TypeOK
    <3>2. buses[p] \in BusRecords
      BY <2>2 DEF TypeOK
    <3>3. /\ buses'[p].baud_rate = buses[p].baud_rate
          /\ buses'[p].holder = buses[p].holder
          /\ buses'[p].refcnt = buses[p].refcnt + 1
      BY <3>1, <3>2 DEF BusRecords
    <3>4. RefcntExact'
      <4>0. buses[p].refcnt = Cardinality(Attached(p)) /\ buses[p].refcnt \in Nat
        BY <1>0, <2>2, RefcntCounted, AttachedFinite DEF Counted
      <4>1. Counted(p)'
        BY <2>3, <2>6, <3>1, <3>3, <4>0 DEF Counted
      <4>2. \A q \in Paths \ {p} : Counted(q)'
        BY <1>0, <2>3, <2>5, <3>1, RefcntCounted DEF Counted
      <4> QED
        BY <4>1, <4>2, RefcntCounted
    <3>5. PortInv'
      <4> SUFFICES ASSUME NEW e \in Ctxs, initialized'[e]
                   PROVE  buses'[shared_bus'[e]].baud_rate
                            = effective_baud_rate(baud_rate'[e])
        BY DEF PortInv, effective_baud_rate
      <4>1. CASE e = c
        BY <2>1, <2>2, <3>1, <3>3, <4>1 DEF TypeOK
      <4>2. CASE e # c
        <5>1. /\ initialized[e] /\ shared_bus'[e] = shared_bus[e]
              /\ baud_rate'[e] = baud_rate[e] /\ shared_bus[e] \in Paths
          BY <1>0, <2>1, <2>2, <4>2, DeviceFacts DEF TypeOK, CtxInv
        <5> QED
          BY <1>0, <5>1, <2>5, <3>3 DEF PortInv
      <4> QED
        BY <4>1, <4>2
    <3>6. HolderInv'
      <4> SUFFICES ASSUME NEW u \in Threads, OnBus(u)
                   PROVE  buses'[shared_bus'[on[u]]].holder = u
        BY <2>2 DEF HolderInv, Bus, OnBus
      <4>1. /\ on[u] \in Ctxs /\ on[u] # c /\ shared_bus[on[u]] \in Paths
            /\ buses[shared_bus[on[u]]].holder = u
        BY <1>0, <2>4, OnBusFacts, DeviceFacts DEF HolderInv, Bus
      <4> QED
        BY <2>2, <2>5, <3>3, <4>1 DEF TypeOK
    <3> QED
      BY <3>4, <3>5, <3>6 DEF Registered
  <2>7. CASE p \notin shared_buses
    <3>1. /\ shared_buses' = shared_buses \cup {p}
          /\ buses'[p] = OpenedBus(b)
      BY <2>1, <2>2, <2>7 DEF shared_bus_attach, TypeOK
    <3>2. /\ buses'[p].baud_rate = effective_baud_rate(b)
          /\ buses'[p].refcnt = 1
      BY <3>1 DEF OpenedBus
    <3>3. /\ Cardinality(Attached(p)) = 0
      BY <1>0, <2>2, <2>7, AttachedFinite, RefcntCounted DEF Counted
    <3>4. RefcntExact'
      <4>1. Counted(p)'
        BY <2>3, <3>1, <3>2, <3>3 DEF Counted
      <4>2. \A q \in Paths \ {p} : Counted(q)'
        BY <1>0, <2>3, <2>5, <3>1, RefcntCounted DEF Counted
      <4> QED
        BY <4>1, <4>2, RefcntCounted
    <3>5. \A e \in Ctxs : initialized[e] => shared_bus[e] # p /\ shared_bus[e] \in Paths
      BY <1>0, <2>7, ConnectedOpen
    <3>6. PortInv'
      <4> SUFFICES ASSUME NEW e \in Ctxs, initialized'[e]
                   PROVE  buses'[shared_bus'[e]].baud_rate
                            = effective_baud_rate(baud_rate'[e])
        BY DEF PortInv, effective_baud_rate
      <4>1. CASE e = c
        BY <2>1, <2>2, <3>2, <4>1 DEF TypeOK
      <4>2. CASE e # c
        <5>1. /\ initialized[e] /\ shared_bus'[e] = shared_bus[e]
              /\ baud_rate'[e] = baud_rate[e]
          BY <2>1, <2>2, <4>2 DEF TypeOK
        <5> QED
          BY <1>0, <5>1, <2>5, <3>5 DEF PortInv
      <4> QED
        BY <4>1, <4>2
    <3>7. HolderInv'
      BY <1>0, <2>2, <2>4, <2>5, <3>5, OnBusFacts DEF HolderInv, OnBus, Bus, TypeOK
    <3> QED
      BY <3>4, <3>6, <3>7 DEF Registered
  <2> QED
    BY <2>6, <2>7
<1>2. ASSUME NEW t \in Threads, DisconnectDetach(t)
      PROVE  Registered'
  <2>0. PICK c \in Ctxs, p \in Paths : c = on[t] /\ p = shared_bus[c]
    BY <1>0, <1>2, DeviceFacts DEF DisconnectDetach, CallInv, CtxInv, Uses
  <2>1. /\ pc[t] = "dlocked" /\ c \in Ctxs /\ owner[c] = t /\ initialized[c]
        /\ pc' = [pc EXCEPT ![t] = "destroy"]
        /\ initialized' = [initialized EXCEPT ![c] = FALSE]
        /\ shared_bus' = [shared_bus EXCEPT ![c] = NoBus]
        /\ on' = on /\ baud_rate' = baud_rate
        /\ shared_bus_detach(c, p)
    BY <1>0, <1>2, <2>0 DEF DisconnectDetach, shared_bus_detach, CallInv, Uses, Holds, call
  <2>2. /\ p \in shared_buses
        /\ buses[p].refcnt = Cardinality(Attached(p)) /\ buses[p].refcnt \in Nat \ {0}
    BY <1>0, <2>0, <2>1, ConnectedOpen
  <2>3. /\ Cardinality(Attached(p)') = Cardinality(Attached(p)) - 1
        /\ \A q \in Paths \ {p} : Attached(q)' = Attached(q)
    BY <2>0, <2>1, DetachCounts
  <2>4. \A q \in Paths \ {p} : buses'[q] = buses[q]
    BY <2>1 DEF shared_bus_detach, TypeOK
  <2>5. \A u \in Threads : OnBus(u)' => OnBus(u) /\ on[u] # c
    BY <1>0, <2>1 DEF OnBus, CallInv, Holds, TypeOK
  <2>6. \A e \in Ctxs : initialized'[e] =>
          e # c /\ initialized[e] /\ shared_bus'[e] = shared_bus[e] /\ shared_bus[e] \in Paths
    BY <1>0, <2>1, DeviceFacts DEF CtxInv, TypeOK
  <2>7. CASE buses[p].refcnt > 1
    <3>1. /\ shared_buses' = shared_buses
          /\ buses'[p] = [buses[p] EXCEPT !.refcnt = @ - 1]
      BY <2>1, <2>2, <2>7 DEF shared_bus_detach, TypeOK
    <3>2. buses[p] \in BusRecords
      BY <2>2 DEF TypeOK
    <3>3. /\ buses'[p].baud_rate = buses[p].baud_rate
          /\ buses'[p].holder = buses[p].holder
          /\ buses'[p].refcnt = buses[p].refcnt - 1
      BY <3>1, <3>2 DEF BusRecords
    <3>4. RefcntExact'
      <4>1. Counted(p)'
        BY <2>2, <2>3, <2>7, <3>1, <3>3 DEF Counted
      <4>2. \A q \in Paths \ {p} : Counted(q)'
        BY <1>0, <2>3, <2>4, <3>1, RefcntCounted DEF Counted
      <4> QED
        BY <4>1, <4>2, RefcntCounted
    <3>5. PortInv'
      BY <1>0, <2>1, <2>4, <2>6, <3>3 DEF PortInv, effective_baud_rate
    <3>6. HolderInv'
      <4> SUFFICES ASSUME NEW u \in Threads, OnBus(u)'
                   PROVE  buses'[shared_bus'[on[u]]].holder = u
        BY <2>1 DEF HolderInv, Bus
      <4>1. /\ on[u] \in Ctxs /\ on[u] # c /\ shared_bus[on[u]] \in Paths
            /\ buses[shared_bus[on[u]]].holder = u
        BY <1>0, <2>5, OnBusFacts, DeviceFacts DEF HolderInv, Bus
      <4> QED
        BY <2>1, <2>4, <3>3, <4>1 DEF TypeOK
    <3> QED
      BY <3>4, <3>5, <3>6 DEF Registered
  <2>8. CASE ~(buses[p].refcnt > 1)
    <3>1. /\ shared_buses' = shared_buses \ {p}
          /\ buses'[p] = ClosedBus
      BY <2>1, <2>2, <2>8 DEF shared_bus_detach, TypeOK
    <3>2. \A e \in Ctxs : shared_bus[e] = p => e = c
      BY <2>0, <2>1, <2>2, <2>8, LastAlone
    <3>3. RefcntExact'
      <4>1. Counted(p)'
        BY <2>2, <2>3, <2>8, <3>1 DEF Counted, ClosedBus
      <4>2. \A q \in Paths \ {p} : Counted(q)'
        BY <1>0, <2>3, <2>4, <3>1, RefcntCounted DEF Counted
      <4> QED
        BY <4>1, <4>2, RefcntCounted
    <3>4. PortInv'
      BY <1>0, <2>1, <2>4, <2>6, <3>2 DEF PortInv, effective_baud_rate
    <3>5. HolderInv'
      <4> SUFFICES ASSUME NEW u \in Threads, OnBus(u)'
                   PROVE  buses'[shared_bus'[on[u]]].holder = u
        BY <2>1 DEF HolderInv, Bus
      <4>1. /\ on[u] \in Ctxs /\ on[u] # c /\ shared_bus[on[u]] \in Paths
            /\ buses[shared_bus[on[u]]].holder = u
        BY <1>0, <2>5, OnBusFacts, DeviceFacts DEF HolderInv, Bus
      <4> QED
        BY <2>1, <2>4, <3>2, <4>1 DEF TypeOK
    <3> QED
      BY <3>3, <3>4, <3>5 DEF Registered
  <2> QED
    BY <2>7, <2>8
<1>3. ASSUME NEW t \in Threads, BusLock(t)
      PROVE  Registered'
  <2>1. /\ pc[t] = "locked" /\ on[t] \in Ctxs /\ initialized[on[t]]
        /\ shared_bus[on[t]] \in Devices /\ Bus(t) = shared_bus[on[t]] /\ Bus(t) \in Paths
    BY <1>0, <1>3, DeviceFacts DEF BusLock, Bus, CallInv, CtxInv, Uses
  <2>2. /\ buses[Bus(t)].holder = NoThread
        /\ buses' = [buses EXCEPT ![Bus(t)].holder = t]
        /\ pc' = [pc EXCEPT ![t] = "silence"]
        /\ on' = on /\ shared_buses' = shared_buses /\ shared_bus' = shared_bus
        /\ baud_rate' = baud_rate /\ initialized' = initialized
    BY <1>3, <2>1 DEF BusLock, call, ctx
  <2>3. \A q \in Paths : /\ buses'[q].refcnt = buses[q].refcnt
                         /\ buses'[q].baud_rate = buses[q].baud_rate
                         /\ buses'[q].holder = IF q = Bus(t) THEN t ELSE buses[q].holder
    BY <2>1, <2>2 DEF TypeOK, BusRecords
  <2>4. RefcntExact'
    <3>1. \A q \in Paths : Attached(q)' = Attached(q)
      BY <2>2 DEF Attached
    <3> QED
      BY <1>0, <2>2, <2>3, <3>1, RefcntCounted DEF Counted
  <2>5. PortInv'
    BY <1>0, <2>2, <2>3, DeviceFacts DEF PortInv, CtxInv, effective_baud_rate
  <2>6. HolderInv'
    <3> SUFFICES ASSUME NEW u \in Threads, OnBus(u)'
                 PROVE  buses'[shared_bus[on[u]]].holder = u
      BY <2>2 DEF HolderInv, Bus
    <3>1. CASE u = t
      BY <2>1, <2>3, <3>1
    <3>2. CASE u # t
      <4>1. OnBus(u)
        BY <2>2, <3>2 DEF OnBus, TypeOK
      <4>2. buses[shared_bus[on[u]]].holder = u /\ shared_bus[on[u]] \in Paths
        BY <1>0, <4>1, OnBusFacts, DeviceFacts DEF HolderInv, Bus
      <4>3. shared_bus[on[u]] # Bus(t)
        BY <2>2, <4>2
      <4> QED
        BY <2>3, <4>2, <4>3
    <3> QED
      BY <3>1, <3>2 DEF BusRecords
  <2> QED
    BY <2>4, <2>5, <2>6 DEF Registered
<1>4. ASSUME NEW t \in Threads, NEW code, OnBus(t), EndTransaction(t, code)
      PROVE  Registered'
  <2>1. /\ on[t] \in Ctxs /\ Bus(t) = shared_bus[on[t]] /\ Bus(t) \in Paths
    BY <1>0, <1>4, OnBusFacts, DeviceFacts
  <2>2. /\ buses' = [buses EXCEPT ![Bus(t)] =
                       [[@ EXCEPT !.last_unit_id = unit_id[on[t]]] EXCEPT !.holder = NoThread]]
        /\ pc' = [pc EXCEPT ![t] = "return"]
        /\ on' = on /\ shared_buses' = shared_buses /\ shared_bus' = shared_bus
        /\ baud_rate' = baud_rate /\ initialized' = initialized
    BY <1>4 DEF EndTransaction, Return, mark_bus_transaction_done
  <2>3. \A q \in Paths : /\ buses'[q].refcnt = buses[q].refcnt
                         /\ buses'[q].baud_rate = buses[q].baud_rate
                         /\ q # Bus(t) => buses'[q].holder = buses[q].holder
    BY <2>1, <2>2 DEF TypeOK, BusRecords
  <2>4. RefcntExact'
    <3>1. \A q \in Paths : Attached(q)' = Attached(q)
      BY <2>2 DEF Attached
    <3> QED
      BY <1>0, <2>2, <2>3, <3>1, RefcntCounted DEF Counted
  <2>5. PortInv'
    BY <1>0, <2>2, <2>3, DeviceFacts DEF PortInv, CtxInv, effective_baud_rate
  <2>6. HolderInv'
    <3> SUFFICES ASSUME NEW u \in Threads, OnBus(u)'
                 PROVE  buses'[shared_bus[on[u]]].holder = u
      BY <2>2 DEF HolderInv, Bus
    <3>1. u # t /\ OnBus(u)
      BY <2>2 DEF OnBus, TypeOK
    <3>2. buses[shared_bus[on[u]]].holder = u /\ shared_bus[on[u]] \in Paths
      BY <1>0, <3>1, OnBusFacts, DeviceFacts DEF HolderInv, Bus
    <3>3. buses[Bus(t)].holder = t
      BY <1>0, <1>4 DEF HolderInv
    <3> QED
      BY <2>3, <3>1, <3>2, <3>3
  <2> QED
    BY <2>4, <2>5, <2>6 DEF Registered
<1>5. ASSUME NEW t \in Threads, NEW c \in Ctxs,
             \/ ConnectFails(t, c) \/ DisconnectBegin(t, c) \/ SetUnitIdBegin(t, c)
             \/ RequestRefused(t, c) \/ RequestBegin(t, c)
      PROVE  KeepsBuses
  <2>1. UNCHANGED <<registry, shared_bus, baud_rate, initialized>>
    BY <1>5 DEF ConnectFails, DisconnectBegin, SetUnitIdBegin, RequestRefused,
                RequestBegin, ctx
  <2>2. \/ pc' = pc /\ on' = on
        \/ /\ pc[t] = "idle"
           /\ \E s \in {"dlock", "ulock", "return", "lock"} : pc' = [pc EXCEPT ![t] = s]
           /\ on' = on \/ on' = [on EXCEPT ![t] = c]
    BY <1>5 DEF ConnectFails, DisconnectBegin, SetUnitIdBegin, RequestRefused,
                RequestBegin, Return, Idle, call
  <2> QED
    BY <2>1, <2>2 DEF KeepsBuses, OnBus, TypeOK
<1>6. ASSUME NEW t \in Threads,
             \/ DisconnectLock(t) \/ DisconnectDestroy(t) \/ SetUnitId(t)
             \/ RequestLock(t) \/ RequestBroadcastRead(t) \/ Returned(t)
      PROVE  KeepsBuses
  BY <1>6 DEF DisconnectLock, DisconnectDestroy, SetUnitId, RequestLock,
              RequestBroadcastRead, Returned, Return, KeepsBuses, OnBus, ctx, call,
              registry, TypeOK
<1>7. ASSUME NEW t \in Threads,
             wait_bus_silence(t) \/ Flush(t) \/ Send(t) \/ EchoReads(t)
      PROVE  KeepsBuses
  <2>1. /\ OnBus(t) /\ on' = on /\ UNCHANGED <<ctx, registry>>
        /\ \E s \in {"flush", "send", "echo", "sent"} : pc' = [pc EXCEPT ![t] = s]
    BY <1>7 DEF wait_bus_silence, Flush, BeginTransaction, Send, EchoReads, call, OnBus
  <2> QED
    BY <2>1 DEF KeepsBuses, OnBus, ctx, registry, TypeOK
<1>8. ASSUME UNCHANGED <<pc, on, ctx, registry>>
      PROVE  KeepsBuses
  BY <1>8 DEF KeepsBuses, OnBus, ctx, registry
<1> QED
  BY <1>1, <1>2, <1>3, <1>4, <1>5, <1>6, <1>7, <1>8, RegisteredKept
  DEF Next, Transact, Disconnect, SendFails, EchoFails, BroadcastDone, Receive,
      ReceiveFails, SlaveReplies, Tick, Quiet, vars, call, OnBus

-----------------------------------------------------------------------------
(* The sentinels of a thread outside a transaction are well typed.         *)
LEMMA SentinelTypes == NoRequest \in RequestRecords /\ NoFrame \in Frames
  BY DEF NoRequest, NoFrame, RequestRecords, Frames

(* Replacing one value of a function by one of the same type.              *)
LEMMA ExceptType ==
  ASSUME NEW S, NEW T, NEW f \in [S -> T], NEW x \in S, NEW v \in T
  PROVE  [f EXCEPT ![x] = v] \in [S -> T]
  OBVIOUS

(* What counting attached contexts gives is within the type of the count.  *)
UncountedBus ==
  [baud_rate : Nat, refcnt : Int, holder : Threads \cup {NoThread},
   last_unit_id : Units \cup {NoUnit}]

(* An exact count is in range.                                             *)
LEMMA CountTypes ==
  ASSUME RefcntExact', buses' \in [Paths -> UncountedBus]
  PROVE  buses' \in [Paths -> BusRecords]
<1> SUFFICES ASSUME NEW p \in Paths PROVE buses'[p].refcnt \in 0 .. Cardinality(Ctxs)
  BY DEF BusRecords, UncountedBus
<1>1. buses'[p].refcnt = Cardinality(Attached(p)')
  BY RefcntCounted DEF Counted
<1>2. Cardinality(Ctxs) \in Nat
  BY FS_CardinalityType
<1> QED
  BY <1>1, <1>2, AttachedFinite

(* What a transaction leaves behind when it ends.                          *)
LEMMA EndTypes ==
  ASSUME TypeOK, CtxInv, CallInv, RefcntExact', NEW t \in Threads, OnBus(t),
         NEW code \in Results, EndTransaction(t, code)
  PROVE  /\ buses' \in [Paths -> BusRecords]
         /\ quiet' \in [Devices -> 0 .. MaxQuiet]
         /\ last' \in [Devices -> [unit : Units \cup {NoUnit}, open : BOOLEAN]]
         /\ owner' \in [Ctxs -> Threads \cup {NoThread}]
         /\ result' \in [Threads -> Results]
         /\ pc' = [pc EXCEPT ![t] = "return"]
<1>1. /\ on[t] \in Ctxs /\ Bus(t) \in Paths /\ Dev(t) \in Devices
      /\ unit_id[on[t]] \in Units
  BY OnBusFacts, DeviceFacts DEF CtxInv
<1>2. buses' \in [Paths -> BusRecords]
  <2> DEFINE b == [[buses[Bus(t)] EXCEPT !.last_unit_id = unit_id[on[t]]]
                     EXCEPT !.holder = NoThread]
  <2>0. buses[Bus(t)] \in BusRecords /\ unit_id[on[t]] \in Units
    BY <1>1 DEF TypeOK
  <2>1. b \in BusRecords
    BY <2>0 DEF BusRecords
  <2>2. buses' = [buses EXCEPT ![Bus(t)] = b]
    BY DEF EndTransaction, mark_bus_transaction_done
  <2>3. buses \in [Paths -> BusRecords]
    BY DEF TypeOK
  <2> HIDE DEF b
  <2> QED
    BY <1>1, <2>1, <2>2, <2>3, ExceptType
<1>3. last' \in [Devices -> [unit : Units \cup {NoUnit}, open : BOOLEAN]]
  BY <1>1 DEF EndTransaction, TypeOK
<1>4. quiet' \in [Devices -> 0 .. MaxQuiet]
  BY <1>1 DEF EndTransaction, TypeOK
<1>5. owner' \in [Ctxs -> Threads \cup {NoThread}]
  BY DEF EndTransaction, MutexUnlock, TypeOK
<1>6. result' \in [Threads -> Results] /\ pc' = [pc EXCEPT ![t] = "return"]
  BY DEF EndTransaction, Return, TypeOK
<1> QED
  BY <1>2, <1>3, <1>4, <1>5, <1>6

(* Types are kept.                                                         *)
LEMMA TypeStep ==
  TypeOK /\ Attachments /\ Registered /\ Registered' /\ [Next]_vars => TypeOK'
<1> SUFFICES ASSUME TypeOK, Attachments, Registered, Registered', [Next]_vars
             PROVE  TypeOK'
  OBVIOUS
<1>0. CtxInv /\ CallInv /\ RefcntExact /\ RefcntExact'
  BY DEF Attachments, Registered
<1>1. ASSUME NEW t \in Threads, NEW c \in Ctxs, Connect(t, c)
      PROVE  TypeOK'
  <2>1. PICK device \in Paths, b \in Bauds, u \in Units :
          /\ shared_bus_attach(c, realpath[device], b)
          /\ unit_id' = [unit_id EXCEPT ![c] = u]
          /\ baud_rate' = [baud_rate EXCEPT ![c] = b]
    BY <1>1 DEF Connect, resolve_bus_key
  <2>2. realpath[device] \in Paths /\ realpath[realpath[device]] \in Devices
    BY DeviceFacts
  <2>3. buses' \in [Paths -> UncountedBus]
    <3> DEFINE p == realpath[device]
               one == [buses[p] EXCEPT !.refcnt = @ + 1]
    <3>1. buses \in [Paths -> UncountedBus]
      BY DEF TypeOK, BusRecords, UncountedBus
    <3>2. one \in UncountedBus
      BY <2>2, <3>1 DEF UncountedBus
    <3>3. OpenedBus(b) \in UncountedBus
      <4>1. effective_baud_rate(b) \in Nat
        BY DEF effective_baud_rate
      <4> QED
        BY <4>1 DEF OpenedBus, UncountedBus
    <3>4. buses' = [buses EXCEPT ![p] = one] \/ buses' = [buses EXCEPT ![p] = OpenedBus(b)]
      BY <2>1 DEF shared_bus_attach
    <3> HIDE DEF p, one
    <3>5. p \in Paths
      BY <2>2 DEF p
    <3> QED
      BY <3>1, <3>2, <3>3, <3>4, <3>5, ExceptType
  <2>4. /\ shared_bus' \in [Ctxs -> Paths \cup {NoBus}]
        /\ shared_buses' \subseteq Paths
    BY <2>1, <2>2 DEF shared_bus_attach, TypeOK
  <2>5. rx' \in [Devices -> Seq(Frames)]
    <3> DEFINE none == <<>>
    <3>1. rx' = rx \/ rx' = [rx EXCEPT ![realpath[realpath[device]]] = none]
      BY <2>1 DEF shared_bus_attach
    <3>2. rx \in [Devices -> Seq(Frames)] /\ none \in Seq(Frames)
      BY DEF TypeOK
    <3> HIDE DEF none
    <3> QED
      BY <2>2, <3>1, <3>2, ExceptType
  <2>6. calls' \in 0 .. MaxCalls
    BY <1>1 DEF Connect, CountCall, TypeOK
  <2> QED
    BY <1>0, <1>1, <2>1, <2>3, <2>4, <2>5, <2>6, CountTypes DEF Connect, TypeOK, call
<1>2. ASSUME NEW t \in Threads, NEW c \in Ctxs, ConnectFails(t, c)
      PROVE  TypeOK'
  BY <1>2 DEF ConnectFails, CountCall, TypeOK, call, registry, wire
<1>3. ASSUME NEW t \in Threads, NEW c \in Ctxs,
             DisconnectBegin(t, c) \/ SetUnitIdBegin(t, c)
      PROVE  TypeOK'
  <2>1. /\ pc' = [pc EXCEPT ![t] = "dlock"] \/ pc' = [pc EXCEPT ![t] = "ulock"]
        /\ on' = [on EXCEPT ![t] = c]
        /\ calls' \in 0 .. MaxCalls
        /\ UNCHANGED <<req, result, got, ctx, registry, wire>>
    BY <1>3 DEF DisconnectBegin, SetUnitIdBegin, CountCall, TypeOK
  <2> QED
    BY <2>1 DEF TypeOK, ctx, registry, wire
<1>4. ASSUME NEW t \in Threads, NEW c \in Ctxs, RequestRefused(t, c)
      PROVE  TypeOK'
  <2>1. result' \in [Threads -> Results] /\ pc' = [pc EXCEPT ![t] = "return"]
    BY <1>4 DEF RequestRefused, Return, TypeOK, Results
  <2> QED
    BY <1>4, <2>1 DEF RequestRefused, CountCall, TypeOK, ctx, registry, wire
<1>5. ASSUME NEW t \in Threads, NEW c \in Ctxs, RequestBegin(t, c)
      PROVE  TypeOK'
  <2>1. PICK r \in Requests :
          req' = [req EXCEPT ![t] = [NoRequest EXCEPT !.fc = r.fc, !.shape = r.shape]]
    BY <1>5 DEF RequestBegin
  <2>2. r.fc \in {"read", "write"} /\ r.shape \in Nat
    OBVIOUS
  <2>3. req' \in [Threads -> RequestRecords]
    BY <2>1, <2>2 DEF TypeOK, NoRequest, RequestRecords
  <2> QED
    BY <1>5, <2>3 DEF RequestBegin, CountCall, TypeOK, ctx, registry, wire
<1>6. ASSUME NEW t \in Threads, DisconnectLock(t)
      PROVE  TypeOK'
  <2>1. owner' \in [Ctxs -> Threads \cup {NoThread}]
    BY <1>6 DEF DisconnectLock, MutexLock, TypeOK
  <2> QED
    BY <1>6, <2>1 DEF DisconnectLock, TypeOK, call, registry, wire
<1>7. ASSUME NEW t \in Threads, DisconnectDetach(t)
      PROVE  TypeOK'
  <2>1. /\ on[t] \in Ctxs /\ shared_bus[on[t]] \in Paths
        /\ realpath[shared_bus[on[t]]] \in Devices
    BY <1>0, <1>7, DeviceFacts DEF DisconnectDetach, CallInv, CtxInv, Uses
  <2>2. buses' \in [Paths -> UncountedBus]
    <3> DEFINE p == shared_bus[on[t]]
               one == [buses[p] EXCEPT !.refcnt = @ - 1]
    <3>1. buses \in [Paths -> UncountedBus]
      BY DEF TypeOK, BusRecords, UncountedBus
    <3>2. one \in UncountedBus
      BY <2>1, <3>1 DEF UncountedBus
    <3>3. ClosedBus \in UncountedBus
      BY DEF ClosedBus, UncountedBus
    <3>4. buses' = [buses EXCEPT ![p] = one] \/ buses' = [buses EXCEPT ![p] = ClosedBus]
      BY <1>7 DEF DisconnectDetach, shared_bus_detach
    <3> HIDE DEF p, one
    <3>5. p \in Paths
      BY <2>1 DEF p
    <3> QED
      BY <3>1, <3>2, <3>3, <3>4, <3>5, ExceptType
  <2>3. /\ shared_bus' \in [Ctxs -> Paths \cup {NoBus}]
        /\ shared_buses' \subseteq Paths
    BY <1>7 DEF DisconnectDetach, shared_bus_detach, TypeOK
  <2>4. rx' \in [Devices -> Seq(Frames)]
    <3> DEFINE none == <<>>
    <3>1. rx' = rx \/ rx' = [rx EXCEPT ![realpath[shared_bus[on[t]]]] = none]
      BY <1>7 DEF DisconnectDetach, shared_bus_detach
    <3>2. rx \in [Devices -> Seq(Frames)] /\ none \in Seq(Frames)
      BY DEF TypeOK
    <3> HIDE DEF none
    <3> QED
      BY <2>1, <3>1, <3>2, ExceptType
  <2>5. last' \in [Devices -> [unit : Units \cup {NoUnit}, open : BOOLEAN]]
    <3> DEFINE d == realpath[shared_bus[on[t]]]
               shut == [last[d] EXCEPT !.open = FALSE]
    <3>1. last' = last \/ last' = [last EXCEPT ![d] = shut]
      BY <1>7 DEF DisconnectDetach, shared_bus_detach
    <3>2. last \in [Devices -> [unit : Units \cup {NoUnit}, open : BOOLEAN]]
      BY DEF TypeOK
    <3>3. shut \in [unit : Units \cup {NoUnit}, open : BOOLEAN]
      <4>1. last[d] \in [unit : Units \cup {NoUnit}, open : BOOLEAN]
        BY <2>1, <3>2
      <4> HIDE DEF d
      <4> QED
        BY <4>1
    <3> HIDE DEF d, shut
    <3>4. d \in Devices
      BY <2>1 DEF d
    <3> QED
      BY <3>1, <3>2, <3>3, <3>4, ExceptType
  <2>6. owner' \in [Ctxs -> Threads \cup {NoThread}]
    BY <1>7 DEF DisconnectDetach, MutexUnlock, TypeOK
  <2> QED
    BY <1>0, <1>7, <2>2, <2>3, <2>4, <2>5, <2>6, CountTypes
    DEF DisconnectDetach, TypeOK, call
<1>8. ASSUME NEW t \in Threads, DisconnectDestroy(t)
      PROVE  TypeOK'
  BY <1>8 DEF DisconnectDestroy, TypeOK, registry, wire
<1>9. ASSUME NEW t \in Threads, SetUnitId(t)
      PROVE  TypeOK'
  <2>1. unit_id' \in [Ctxs -> Units \cup {0}]
    BY <1>9 DEF SetUnitId, TypeOK
  <2> QED
    BY <1>9, <2>1 DEF SetUnitId, TypeOK, registry, wire
<1>10. ASSUME NEW t \in Threads, RequestLock(t)
       PROVE  TypeOK'
  <2>1. owner' \in [Ctxs -> Threads \cup {NoThread}]
    BY <1>10 DEF RequestLock, MutexLock, TypeOK
  <2>2. unit_id[on[t]] \in Nat
    BY <1>0, <1>10 DEF RequestLock, CallInv, Uses, TypeOK
  <2>3. req' \in [Threads -> RequestRecords]
    <3> DEFINE r == [req[t] EXCEPT !.unit = unit_id[on[t]]]
    <3>1. req' = [req EXCEPT ![t] = r]
      BY <1>10 DEF RequestLock
    <3>2. req \in [Threads -> RequestRecords] /\ req[t] \in RequestRecords
      BY DEF TypeOK
    <3>3. r \in RequestRecords
      BY <2>2, <3>2 DEF RequestRecords
    <3> HIDE DEF r
    <3> QED
      BY <3>1, <3>2, <3>3, ExceptType
  <2> QED
    BY <1>10, <2>1, <2>3 DEF RequestLock, TypeOK, registry, wire
<1>11. ASSUME NEW t \in Threads, RequestBroadcastRead(t)
       PROVE  TypeOK'
  <2>1. owner' \in [Ctxs -> Threads \cup {NoThread}]
    BY <1>11 DEF RequestBroadcastRead, MutexUnlock, TypeOK
  <2>2. result' \in [Threads -> Results] /\ pc' = [pc EXCEPT ![t] = "return"]
    BY <1>11 DEF RequestBroadcastRead, Return, TypeOK, Results
  <2> QED
    BY <1>11, <2>1, <2>2 DEF RequestBroadcastRead, TypeOK, registry, wire
<1>12. ASSUME NEW t \in Threads, BusLock(t)
       PROVE  TypeOK'
  <2>1. buses' \in [Paths -> BusRecords]
    <3> DEFINE b == [buses[Bus(t)] EXCEPT !.holder = t]
    <3>1. buses \in [Paths -> BusRecords]
      BY DEF TypeOK
    <3>2. CASE UNCHANGED buses
      BY <3>1, <3>2
    <3>3. CASE Bus(t) # NoBus
      <4>1. Bus(t) \in Paths
        BY <1>0, <1>12, <3>3 DEF BusLock, Bus, CallInv, Uses, TypeOK
      <4>2. b \in BusRecords
        BY <3>1, <4>1 DEF BusRecords
      <4>3. buses' = [buses EXCEPT ![Bus(t)] = b]
        BY <1>12, <3>3 DEF BusLock
      <4> HIDE DEF b
      <4> QED
        BY <3>1, <4>1, <4>2, <4>3, ExceptType
    <3> QED
      BY <1>12, <3>2, <3>3 DEF BusLock
  <2>2. pc' = [pc EXCEPT ![t] = "crashed"] \/ pc' = [pc EXCEPT ![t] = "silence"]
    BY <1>12 DEF BusLock
  <2> QED
    BY <1>12, <2>1, <2>2 DEF BusLock, TypeOK, call, ctx, wire
<1>13. ASSUME NEW t \in Threads, wait_bus_silence(t)
       PROVE  TypeOK'
  BY <1>13 DEF wait_bus_silence, TypeOK, call, ctx, registry, wire
<1>14. ASSUME NEW t \in Threads, Flush(t)
       PROVE  TypeOK'
  <2>1. Dev(t) \in Devices
    BY <1>0, <1>14, OnBusFacts DEF Flush, BeginTransaction, OnBus
  <2>2. rx' \in [Devices -> Seq(Frames)] /\ seq' \in [Devices -> Nat]
    BY <1>14, <2>1 DEF Flush, BeginTransaction, TypeOK
  <2>3. req' \in [Threads -> RequestRecords]
    <3> DEFINE r == [req[t] EXCEPT !.seq = seq[Dev(t)] + 1]
    <3>1. req' = [req EXCEPT ![t] = r]
      BY <1>14 DEF Flush, BeginTransaction
    <3>2. /\ req \in [Threads -> RequestRecords] /\ req[t] \in RequestRecords
          /\ seq[Dev(t)] + 1 \in Nat
      BY <2>1 DEF TypeOK
    <3>3. r \in RequestRecords
      BY <3>2 DEF RequestRecords
    <3> HIDE DEF r
    <3> QED
      BY <3>1, <3>2, <3>3, ExceptType
  <2> QED
    BY <1>14, <2>2, <2>3 DEF Flush, BeginTransaction, TypeOK, ctx, registry
<1>15. ASSUME NEW t \in Threads, OnBus(t)
       PROVE  Transmitted(t) \in [Devices -> SUBSET [req : RequestRecords, rest : BOOLEAN]]
  <2> DEFINE L == line[Dev(t)] \cup {[req |-> req[t], rest |-> FALSE]}
  <2>1. Dev(t) \in Devices
    BY <1>0, <1>15, OnBusFacts
  <2>2. /\ line \in [Devices -> SUBSET [req : RequestRecords, rest : BOOLEAN]]
        /\ L \in SUBSET [req : RequestRecords, rest : BOOLEAN]
    <3>1. req[t] \in RequestRecords
      BY DEF TypeOK
    <3>2. [req |-> req[t], rest |-> FALSE] \in [req : RequestRecords, rest : BOOLEAN]
      BY <3>1
    <3> QED
      BY <2>1, <3>2 DEF TypeOK
  <2>3. Transmitted(t) = line \/ Transmitted(t) = [line EXCEPT ![Dev(t)] = L]
    BY DEF Transmitted
  <2> HIDE DEF L
  <2> QED
    BY <2>1, <2>2, <2>3, ExceptType
<1>16. ASSUME NEW t \in Threads, Send(t)
       PROVE  TypeOK'
  <2>1. OnBus(t)
    BY <1>16 DEF Send, OnBus
  <2>2. line' \in [Devices -> SUBSET [req : RequestRecords, rest : BOOLEAN]]
    BY <1>15, <1>16, <2>1 DEF Send
  <2>3. \A kind \in {"echo", "garbled"} : FrameOf(req[t], kind, req[t].seq) \in Frames
    BY DEF FrameOf, TypeOK, RequestRecords, Frames
  <2>4. rx' \in [Devices -> Seq(Frames)]
    <3>1. Dev(t) \in Devices
      BY <1>0, <2>1, OnBusFacts
    <3>2. CASE UNCHANGED rx
      BY <3>2 DEF TypeOK
    <3>3. ASSUME NEW f \in Frames, rx' = [rx EXCEPT ![Dev(t)] = Append(@, f)]
          PROVE  rx' \in [Devices -> Seq(Frames)]
      BY <3>1, <3>3 DEF TypeOK
    <3> QED
      BY <1>16, <2>3, <3>2, <3>3 DEF Send
  <2>5. pc' = [pc EXCEPT ![t] = "echo"] \/ pc' = [pc EXCEPT ![t] = "sent"]
    BY <1>16 DEF Send
  <2> QED
    BY <1>16, <2>2, <2>4, <2>5 DEF Send, TypeOK, call, ctx, registry
<1>17. ASSUME NEW t \in Threads, EchoReads(t)
       PROVE  TypeOK'
  <2>1. Dev(t) \in Devices
    BY <1>0, <1>17, OnBusFacts DEF EchoReads, OnBus
  <2>2. rx' \in [Devices -> Seq(Frames)]
    BY <1>17, <2>1 DEF EchoReads, TypeOK
  <2> QED
    BY <1>17, <2>2 DEF EchoReads, TypeOK, call, ctx, registry
<1>18. ASSUME NEW t \in Threads,
              \/ SendFails(t) \/ EchoFails(t) \/ BroadcastDone(t) \/ ReceiveFails(t)
       PROVE  TypeOK'
  <2>1. OnBus(t)
    BY <1>18 DEF SendFails, EchoFails, BroadcastDone, ReceiveFails, OnBus
  <2>2. PICK code \in Results : EndTransaction(t, code)
    BY <1>18 DEF SendFails, EchoFails, BroadcastDone, ReceiveFails, Results
  <2>3. line' \in [Devices -> SUBSET [req : RequestRecords, rest : BOOLEAN]]
    BY <1>15, <1>18, <2>1 DEF SendFails, EchoFails, BroadcastDone, ReceiveFails, TypeOK
  <2>4. got' = got /\ rx' = rx
    BY <1>18 DEF SendFails, EchoFails, BroadcastDone, ReceiveFails
  <2> QED
    BY <1>0, <2>1, <2>2, <2>3, <2>4, EndTypes DEF EndTransaction, TypeOK
<1>19. ASSUME NEW t \in Threads, Receive(t)
       PROVE  TypeOK'
  <2> DEFINE f == Head(rx[Dev(t)])
  <2>1. OnBus(t) /\ Dev(t) \in Devices
    BY <1>0, <1>19, OnBusFacts DEF Receive, OnBus
  <2>2. f \in Frames /\ Tail(rx[Dev(t)]) \in Seq(Frames)
    BY <1>19, <2>1 DEF Receive, TypeOK
  <2>3. PICK code \in Results : EndTransaction(t, code)
    BY <1>19 DEF Receive, ResponseCodes, Results
  <2>4. RestOf(f) \in [req : RequestRecords, rest : BOOLEAN]
    BY <2>2 DEF RestOf, Frames, RequestRecords
  <2>5. line' \in [Devices -> SUBSET [req : RequestRecords, rest : BOOLEAN]]
    <3> DEFINE L == line[Dev(t)] \cup {RestOf(f)}
    <3>1. line' = line \/ line' = [line EXCEPT ![Dev(t)] = L]
      BY <1>19 DEF Receive
    <3>2. /\ line \in [Devices -> SUBSET [req : RequestRecords, rest : BOOLEAN]]
          /\ L \in SUBSET [req : RequestRecords, rest : BOOLEAN]
      BY <2>1, <2>4 DEF TypeOK
    <3> HIDE DEF L
    <3> QED
      BY <2>1, <3>1, <3>2, ExceptType
  <2>6. rx' \in [Devices -> Seq(Frames)] /\ got' \in [Threads -> Frames]
    BY <1>19, <2>1, <2>2 DEF Receive, TypeOK
  <2> QED
    BY <1>0, <2>1, <2>3, <2>5, <2>6, EndTypes DEF EndTransaction, TypeOK
<1>20. ASSUME NEW t \in Threads, Returned(t)
       PROVE  TypeOK'
  <2>1. /\ req' \in [Threads -> RequestRecords] /\ got' \in [Threads -> Frames]
        /\ result' \in [Threads -> Results]
    BY <1>20, SentinelTypes DEF Returned, TypeOK, Results
  <2> QED
    BY <1>20, <2>1 DEF Returned, TypeOK, ctx, registry, wire
<1>21. ASSUME NEW d \in Devices, SlaveReplies(d)
       PROVE  TypeOK'
  <2>1. PICK m \in line[d] :
          /\ line' = [line EXCEPT ![d] = @ \ {m}]
          /\ \/ UNCHANGED rx
             \/ \E kind \in {"good", "exception", "garbled"} :
                  rx' = [rx EXCEPT ![d] = Append(@, FrameOf(m.req, kind, seq[d]))]
    BY <1>21 DEF SlaveReplies
  <2>2. m.req \in RequestRecords /\ seq[d] \in Nat
    BY DEF TypeOK
  <2>3. \A kind \in {"good", "exception", "garbled"} :
          FrameOf(m.req, kind, seq[d]) \in Frames
    BY <2>2 DEF FrameOf, RequestRecords, Frames
  <2>4. ASSUME NEW f \in Frames, rx' = [rx EXCEPT ![d] = Append(@, f)]
        PROVE  rx' \in [Devices -> Seq(Frames)]
    BY <2>4 DEF TypeOK
  <2>5. rx' \in [Devices -> Seq(Frames)]
    BY <2>1, <2>3, <2>4 DEF TypeOK
  <2>6. line' \in [Devices -> SUBSET [req : RequestRecords, rest : BOOLEAN]]
    BY <2>1 DEF TypeOK
  <2> QED
    BY <1>21, <2>5, <2>6 DEF SlaveReplies, TypeOK, call, ctx, registry
<1>22. ASSUME NEW d \in Devices, Tick(d)
       PROVE  TypeOK'
  BY <1>22 DEF Tick, TypeOK, call, ctx, registry
<1>23. CASE UNCHANGED vars
  BY <1>23 DEF TypeOK, vars, call, ctx, registry, wire
<1> QED
  BY <1>1, <1>2, <1>3, <1>4, <1>5, <1>6, <1>7, <1>8, <1>9, <1>10, <1>11, <1>12, <1>13,
     <1>14, <1>16, <1>17, <1>18, <1>19, <1>20, <1>21, <1>22, <1>23
  DEF Next, Transact, Disconnect, Quiet

-----------------------------------------------------------------------------
(* The steps of one thread.                                                *)
ThreadStep(t) ==
  \/ \E c \in Ctxs :
       \/ Connect(t, c) \/ ConnectFails(t, c) \/ DisconnectBegin(t, c)
       \/ SetUnitIdBegin(t, c) \/ RequestRefused(t, c) \/ RequestBegin(t, c)
  \/ Disconnect(t) \/ SetUnitId(t) \/ Transact(t)

(* Every step is a thread's, a device's, or none.                          *)
LEMMA StepKinds ==
  [Next]_vars => \/ \E t \in Threads : ThreadStep(t)
                 \/ \E d \in Devices : SlaveReplies(d) \/ Tick(d)
                 \/ UNCHANGED vars
  BY DEF Next, ThreadStep, Quiet

(* A thread touches no other thread's call.                                *)
LEMMA ActsAlone ==
  ASSUME TypeOK, NEW t \in Threads, ThreadStep(t), NEW u \in Threads, u # t
  PROVE  /\ pc'[u] = pc[u] /\ on'[u] = on[u] /\ req'[u] = req[u]
         /\ result'[u] = result[u] /\ got'[u] = got[u]
<1>1. ASSUME NEW c \in Ctxs,
             \/ Connect(t, c) \/ ConnectFails(t, c) \/ DisconnectBegin(t, c)
             \/ SetUnitIdBegin(t, c) \/ RequestRefused(t, c) \/ RequestBegin(t, c)
      PROVE  /\ pc'[u] = pc[u] /\ on'[u] = on[u] /\ req'[u] = req[u]
             /\ result'[u] = result[u] /\ got'[u] = got[u]
  BY <1>1 DEF Connect, ConnectFails, DisconnectBegin, SetUnitIdBegin, RequestRefused,
              RequestBegin, Return, TypeOK, call
<1>2. CASE Disconnect(t) \/ SetUnitId(t)
  BY <1>2 DEF Disconnect, DisconnectLock, DisconnectDetach, DisconnectDestroy, SetUnitId,
              TypeOK, call
<1>3. CASE \/ RequestLock(t) \/ RequestBroadcastRead(t) \/ BusLock(t)
           \/ wait_bus_silence(t) \/ Flush(t) \/ Send(t) \/ EchoReads(t) \/ Returned(t)
  BY <1>3 DEF RequestLock, RequestBroadcastRead, BusLock, wait_bus_silence, Flush,
              BeginTransaction, Send, EchoReads, Returned, Return, TypeOK, call
<1>4. CASE \/ SendFails(t) \/ EchoFails(t) \/ BroadcastDone(t) \/ Receive(t)
           \/ ReceiveFails(t)
  BY <1>4 DEF SendFails, EchoFails, BroadcastDone, Receive, ReceiveFails,
              EndTransaction, Return, TypeOK
<1> QED
  BY <1>1, <1>2, <1>3, <1>4 DEF ThreadStep, Transact

(* Two threads on the bus are on different devices.                        *)
LEMMA BusesDiffer ==
  ASSUME TypeOK, CtxInv, CallInv, HolderInv,
         NEW t \in Threads, OnBus(t), NEW u \in Threads, OnBus(u), u # t
  PROVE  Bus(u) # Bus(t) /\ Dev(u) # Dev(t)
  BY OnBusFacts DEF HolderInv

(* What a thread on the bus relies on: its context and port stay as they   *)
(* are, and so does what is known of the last transaction and of the       *)
(* transactions of its device; the silence grows, and what is added to the *)
(* input arrives during its transaction.                                   *)
Undisturbed(u) ==
  /\ shared_bus'[on[u]] = shared_bus[on[u]]
  /\ buses'[Bus(u)].baud_rate = buses[Bus(u)].baud_rate
  /\ last'[Dev(u)] = last[Dev(u)]
  /\ quiet'[Dev(u)] >= quiet[Dev(u)]
  /\ seq'[Dev(u)] = seq[Dev(u)]
  /\ \/ rx'[Dev(u)] = rx[Dev(u)]
     \/ \E f \in Frames :
          f.heard = seq[Dev(u)] /\ rx'[Dev(u)] = Append(rx[Dev(u)], f)

(* A thread on a bus is not disturbed by what other threads do.            *)
LEMMA OthersUndisturbed ==
  ASSUME TypeOK, CtxInv, CallInv, Registered,
         NEW t \in Threads, ThreadStep(t), NEW u \in Threads, u # t, OnBus(u)
  PROVE  Undisturbed(u)
<1>0. RefcntExact /\ HolderInv
  BY DEF Registered
<1>u. /\ on[u] \in Ctxs /\ initialized[on[u]] /\ owner[on[u]] = u
      /\ Bus(u) = shared_bus[on[u]] /\ Bus(u) \in Devices /\ Dev(u) = Bus(u)
      /\ Bus(u) \in Paths /\ Bus(u) \in shared_buses /\ quiet[Dev(u)] \in Nat
  BY <1>0, OnBusFacts, DeviceFacts, ConnectedOpen DEF TypeOK
<1>1. ASSUME NEW c \in Ctxs, Connect(t, c)
      PROVE  Undisturbed(u)
  <2>1. PICK device \in Paths, b \in Bauds : shared_bus_attach(c, realpath[device], b)
    BY <1>1 DEF Connect, resolve_bus_key
  <2> DEFINE p == realpath[device]
  <2>2. p \in Devices /\ realpath[p] = p
    BY DeviceFacts
  <2>3. on[u] # c /\ last' = last /\ quiet' = quiet /\ seq' = seq
    BY <1>1 DEF Connect, InCall, Idle, OnBus
  <2>4. shared_bus'[on[u]] = shared_bus[on[u]]
    BY <1>u, <2>1, <2>3 DEF shared_bus_attach, TypeOK
  <2>5. CASE p \in shared_buses
    <3>1. buses' = [buses EXCEPT ![p].refcnt = @ + 1] /\ rx' = rx
      BY <2>1, <2>5 DEF shared_bus_attach
    <3>2. buses'[Bus(u)].baud_rate = buses[Bus(u)].baud_rate
      BY <1>u, <3>1 DEF TypeOK, BusRecords
    <3> QED
      BY <1>u, <2>3, <2>4, <3>1, <3>2 DEF Undisturbed
  <2>6. CASE p \notin shared_buses
    <3>1. /\ buses' = [buses EXCEPT ![p] = OpenedBus(b)]
          /\ rx' = [rx EXCEPT ![p] = <<>>]
      BY <2>1, <2>2, <2>6 DEF shared_bus_attach
    <3>2. buses'[Bus(u)] = buses[Bus(u)] /\ rx'[Dev(u)] = rx[Dev(u)]
      BY <1>u, <2>6, <3>1 DEF TypeOK
    <3> QED
      BY <1>u, <2>3, <2>4, <3>2 DEF Undisturbed
  <2> QED
    BY <2>5, <2>6
<1>2. CASE DisconnectDetach(t)
  <2>0. PICK c \in Ctxs, p \in Paths : c = on[t] /\ p = shared_bus[c]
    BY <1>2, DeviceFacts DEF DisconnectDetach, CallInv, CtxInv, Uses
  <2>1. /\ pc[t] = "dlocked" /\ owner[c] = t /\ initialized[c]
        /\ shared_bus_detach(c, p) /\ quiet' = quiet /\ seq' = seq
    BY <1>2, <2>0 DEF DisconnectDetach, CallInv, Uses, Holds
  <2>2. on[u] # c
    BY <1>u, <2>1
  <2>3. shared_bus'[on[u]] = shared_bus[on[u]]
    BY <1>u, <2>1, <2>2 DEF shared_bus_detach, TypeOK
  <2>4. p \in Devices /\ realpath[p] = p
    BY <2>0, <2>1, DeviceFacts DEF CtxInv
  <2>5. CASE buses[p].refcnt > 1
    <3>1. /\ buses' = [buses EXCEPT ![p].refcnt = @ - 1]
          /\ rx' = rx /\ last' = last
      BY <2>1, <2>5 DEF shared_bus_detach
    <3>2. buses'[Bus(u)].baud_rate = buses[Bus(u)].baud_rate
      BY <1>u, <3>1 DEF TypeOK, BusRecords
    <3> QED
      BY <1>u, <2>1, <2>3, <3>1, <3>2 DEF Undisturbed
  <2>6. CASE ~(buses[p].refcnt > 1)
    <3>1. Bus(u) # p
      BY <1>0, <1>u, <2>0, <2>1, <2>2, <2>6, ConnectedOpen, LastAlone
    <3>2. /\ buses' = [buses EXCEPT ![p] = ClosedBus]
          /\ rx' = [rx EXCEPT ![p] = <<>>]
          /\ last' = [last EXCEPT ![p].open = FALSE]
      BY <2>1, <2>4, <2>6 DEF shared_bus_detach
    <3>3. /\ buses'[Bus(u)] = buses[Bus(u)] /\ rx'[Dev(u)] = rx[Dev(u)]
          /\ last'[Dev(u)] = last[Dev(u)]
      BY <1>u, <3>1, <3>2 DEF TypeOK
    <3> QED
      BY <1>u, <2>1, <2>3, <3>3 DEF Undisturbed
  <2> QED
    BY <2>5, <2>6
<1>3. CASE BusLock(t)
  <2>1. /\ UNCHANGED <<ctx, wire>>
        /\ buses' = buses \/ buses' = [buses EXCEPT ![Bus(t)].holder = t]
    BY <1>3 DEF BusLock
  <2>2. buses'[Bus(u)].baud_rate = buses[Bus(u)].baud_rate
    <3>1. buses \in [Paths -> BusRecords] /\ buses[Bus(u)] \in BusRecords
      BY <1>u DEF TypeOK
    <3>2. CASE buses' = buses
      BY <3>2
    <3>3. CASE buses' = [buses EXCEPT ![Bus(t)].holder = t] /\ Bus(t) # Bus(u)
      BY <1>u, <3>1, <3>3
    <3>4. CASE buses' = [buses EXCEPT ![Bus(t)].holder = t] /\ Bus(t) = Bus(u)
      <4>1. buses'[Bus(u)] = [buses[Bus(u)] EXCEPT !.holder = t]
        BY <1>u, <3>1, <3>4
      <4> QED
        BY <3>1, <4>1 DEF BusRecords
    <3> QED
      BY <2>1, <3>2, <3>3, <3>4
  <2> QED
    BY <1>u, <2>1, <2>2 DEF Undisturbed, ctx, wire
<1>4. ASSUME OnBus(t), NEW code, EndTransaction(t, code),
             rx' = rx \/ rx' = [rx EXCEPT ![Dev(t)] = Tail(@)]
      PROVE  Undisturbed(u)
  <2>1. Bus(u) # Bus(t) /\ Dev(u) # Dev(t)
    BY <1>0, <1>4, BusesDiffer
  <2>2. /\ buses'[Bus(u)] = buses[Bus(u)] /\ last'[Dev(u)] = last[Dev(u)]
        /\ quiet'[Dev(u)] = quiet[Dev(u)] /\ seq' = seq /\ shared_bus' = shared_bus
        /\ rx'[Dev(u)] = rx[Dev(u)]
    BY <1>4, <1>u, <2>1 DEF EndTransaction, TypeOK
  <2> QED
    BY <1>u, <2>2 DEF Undisturbed
<1>5. CASE Flush(t) \/ Send(t) \/ EchoReads(t)
  <2>1. OnBus(t)
    BY <1>5 DEF Flush, BeginTransaction, Send, EchoReads, OnBus
  <2>2. Dev(u) # Dev(t)
    BY <1>0, <2>1, BusesDiffer
  <2>3. UNCHANGED <<ctx, registry, quiet, last>>
    BY <1>5 DEF Flush, BeginTransaction, Send, EchoReads
  <2>4. seq'[Dev(u)] = seq[Dev(u)] /\ rx'[Dev(u)] = rx[Dev(u)]
    BY <1>5, <1>u, <2>2 DEF Flush, BeginTransaction, Send, EchoReads, TypeOK
  <2> QED
    BY <1>u, <2>3, <2>4 DEF Undisturbed, ctx, registry
<1>6. CASE UNCHANGED <<shared_bus, registry, wire>>
  BY <1>6, <1>u DEF Undisturbed, registry, wire
<1>7. ASSUME NEW c \in Ctxs,
             \/ ConnectFails(t, c) \/ DisconnectBegin(t, c)
             \/ SetUnitIdBegin(t, c) \/ RequestRefused(t, c) \/ RequestBegin(t, c)
      PROVE  UNCHANGED <<shared_bus, registry, wire>>
  BY <1>7 DEF ConnectFails, DisconnectBegin, SetUnitIdBegin, RequestRefused,
              RequestBegin, ctx
<1>8. CASE \/ DisconnectLock(t) \/ DisconnectDestroy(t) \/ SetUnitId(t) \/ RequestLock(t)
           \/ RequestBroadcastRead(t) \/ wait_bus_silence(t) \/ Returned(t)
  <2>1. UNCHANGED <<shared_bus, registry, wire>>
    BY <1>8 DEF DisconnectLock, DisconnectDestroy, SetUnitId, RequestLock,
                RequestBroadcastRead, wait_bus_silence, Returned, ctx
  <2> QED
    BY <1>6, <2>1
<1>9. CASE \/ SendFails(t) \/ EchoFails(t) \/ BroadcastDone(t) \/ Receive(t)
           \/ ReceiveFails(t)
  <2>1. OnBus(t) /\ \E code : EndTransaction(t, code)
    BY <1>9 DEF SendFails, EchoFails, BroadcastDone, Receive, ReceiveFails, OnBus
  <2>2. rx' = rx \/ rx' = [rx EXCEPT ![Dev(t)] = Tail(@)]
    BY <1>9 DEF SendFails, EchoFails, BroadcastDone, Receive, ReceiveFails
  <2> QED
    BY <1>4, <2>1, <2>2
<1> QED
  BY <1>1, <1>2, <1>3, <1>5, <1>6, <1>7, <1>8, <1>9 DEF ThreadStep, Disconnect, Transact

(* Nor by what happens on the wire, except that its own reply arrives.     *)
LEMMA WireUndisturbed ==
  ASSUME TypeOK, CtxInv, CallInv, NEW d \in Devices, SlaveReplies(d) \/ Tick(d),
         NEW u \in Threads, OnBus(u)
  PROVE  Undisturbed(u)
<1>u. /\ on[u] \in Ctxs /\ Bus(u) \in Devices /\ Dev(u) = Bus(u)
      /\ quiet[Dev(u)] \in Nat
  BY OnBusFacts DEF TypeOK
<1>1. CASE Tick(d)
  <2>1. quiet'[Dev(u)] >= quiet[Dev(u)]
    BY <1>1, <1>u DEF Tick, TypeOK
  <2> QED
    BY <1>1, <2>1 DEF Tick, Undisturbed, ctx, registry
<1>2. CASE SlaveReplies(d)
  <2>1. PICK m \in line[d] :
          \/ UNCHANGED rx
          \/ \E kind \in {"good", "exception", "garbled"} :
               rx' = [rx EXCEPT ![d] = Append(@, FrameOf(m.req, kind, seq[d]))]
    BY <1>2 DEF SlaveReplies
  <2>2. UNCHANGED <<ctx, registry, seq, quiet, last>>
    BY <1>2 DEF SlaveReplies
  <2>3. \A kind \in {"good", "exception", "garbled"} :
          /\ FrameOf(m.req, kind, seq[d]) \in Frames
          /\ FrameOf(m.req, kind, seq[d]).heard = seq[d]
    <3>1. m.req \in RequestRecords /\ seq[d] \in Nat
      BY DEF TypeOK
    <3> QED
      BY <3>1 DEF FrameOf, RequestRecords, Frames
  <2>4. \/ rx'[Dev(u)] = rx[Dev(u)]
        \/ \E f \in Frames :
             f.heard = seq[Dev(u)] /\ rx'[Dev(u)] = Append(rx[Dev(u)], f)
    <3>1. CASE UNCHANGED rx \/ Dev(u) # d
      BY <2>1, <3>1, <1>u DEF TypeOK
    <3>2. ASSUME NEW f \in Frames, f.heard = seq[d], Dev(u) = d,
                 rx' = [rx EXCEPT ![d] = Append(@, f)]
          PROVE  f.heard = seq[Dev(u)] /\ rx'[Dev(u)] = Append(rx[Dev(u)], f)
      BY <3>2 DEF TypeOK
    <3> QED
      BY <2>1, <2>3, <3>1, <3>2
  <2> QED
    BY <1>u, <2>2, <2>4 DEF Undisturbed, ctx, registry
<1> QED
  BY <1>1, <1>2

(* Which step brings a thread to each place of a transaction.              *)
LEMMA OwnStep ==
  ASSUME TypeOK, NEW t \in Threads, ThreadStep(t)
  PROVE  /\ pc'[t] = "silence" => BusLock(t)
         /\ pc'[t] = "flush" => wait_bus_silence(t)
         /\ pc'[t] = "send" => Flush(t)
         /\ pc'[t] = "echo" => Send(t)
         /\ pc'[t] = "sent" => Send(t) \/ EchoReads(t)
         /\ pc'[t] = "return" =>
              \/ result'[t] \notin {"OK", "EXCEPTION"}
              \/ BroadcastDone(t) \/ Receive(t)
<1>1. ASSUME NEW c \in Ctxs,
             \/ Connect(t, c) \/ ConnectFails(t, c) \/ DisconnectBegin(t, c)
             \/ SetUnitIdBegin(t, c) \/ RequestBegin(t, c)
      PROVE  pc'[t] \in {"idle", "dlock", "ulock", "lock"}
  BY <1>1 DEF Connect, ConnectFails, DisconnectBegin, SetUnitIdBegin, RequestBegin,
              Idle, TypeOK
<1>2. ASSUME NEW c \in Ctxs, RequestRefused(t, c)
      PROVE  pc'[t] = "return" /\ result'[t] \notin {"OK", "EXCEPTION"}
  BY <1>2 DEF RequestRefused, Return, TypeOK
<1>3. CASE Disconnect(t) \/ SetUnitId(t) \/ RequestLock(t) \/ Returned(t)
  BY <1>3 DEF Disconnect, DisconnectLock, DisconnectDetach, DisconnectDestroy, SetUnitId,
              RequestLock, Returned, TypeOK
<1>4. CASE RequestBroadcastRead(t)
  BY <1>4 DEF RequestBroadcastRead, Return, TypeOK
<1>5. CASE BusLock(t)
  BY <1>5 DEF BusLock, TypeOK
<1>6. CASE wait_bus_silence(t)
  BY <1>6 DEF wait_bus_silence, TypeOK
<1>7. CASE Flush(t)
  BY <1>7 DEF Flush, BeginTransaction, TypeOK
<1>8. CASE Send(t)
  BY <1>8 DEF Send, TypeOK
<1>9. CASE EchoReads(t)
  BY <1>9 DEF EchoReads, TypeOK
<1>10. CASE SendFails(t) \/ EchoFails(t) \/ ReceiveFails(t)
  BY <1>10 DEF SendFails, EchoFails, ReceiveFails, EndTransaction, Return, TypeOK
<1>11. CASE BroadcastDone(t) \/ Receive(t)
  BY <1>11 DEF BroadcastDone, Receive, EndTransaction, Return, TypeOK
<1> QED
  BY <1>1, <1>2, <1>3, <1>4, <1>5, <1>6, <1>7, <1>8, <1>9, <1>10, <1>11
  DEF ThreadStep, Transact

-----------------------------------------------------------------------------
(* The record of a bus keeps up with its last transaction.                 *)
LEMMA LastStep ==
  ASSUME TypeOK, CtxInv, CallInv, Registered, LastInv, [Next]_vars
  PROVE  LastInv'
<1>0. RefcntExact /\ HolderInv
  BY DEF Registered
<1>d. Devices \subseteq Paths
  BY DeviceFacts
<1>1. ASSUME NEW t \in Threads, NEW c \in Ctxs, Connect(t, c)
      PROVE  LastInv'
  <2>1. PICK device \in Paths, b \in Bauds : shared_bus_attach(c, realpath[device], b)
    BY <1>1 DEF Connect, resolve_bus_key
  <2>2. PICK p \in Paths : p = realpath[device]
    OBVIOUS
  <2>3. last' = last
    BY <1>1 DEF Connect
  <2>4. CASE p \in shared_buses
    <3>1. buses' = [buses EXCEPT ![p].refcnt = @ + 1] /\ shared_buses' = shared_buses
      BY <2>1, <2>2, <2>4 DEF shared_bus_attach
    <3>2. \A d \in Paths : buses'[d].last_unit_id = buses[d].last_unit_id
      BY <3>1 DEF TypeOK, BusRecords
    <3> QED
      BY <1>d, <2>3, <3>1, <3>2 DEF LastInv
  <2>5. CASE p \notin shared_buses
    <3>1. /\ buses' = [buses EXCEPT ![p] = OpenedBus(b)]
          /\ shared_buses' = shared_buses \cup {p}
      BY <2>1, <2>2, <2>5 DEF shared_bus_attach
    <3>2. \A d \in Paths : d # p => buses'[d] = buses[d]
      BY <3>1 DEF TypeOK
    <3> QED
      BY <1>d, <2>3, <2>5, <3>1, <3>2 DEF LastInv
  <2> QED
    BY <2>4, <2>5
<1>2. ASSUME NEW t \in Threads, DisconnectDetach(t)
      PROVE  LastInv'
  <2>0. PICK c \in Ctxs, p \in Devices : c = on[t] /\ p = shared_bus[c]
    BY <1>2, DeviceFacts DEF DisconnectDetach, CallInv, CtxInv, Uses
  <2>1. shared_bus_detach(c, p) /\ p \in Paths /\ realpath[p] = p
    BY <1>2, <2>0, DeviceFacts DEF DisconnectDetach
  <2>2. CASE buses[p].refcnt > 1
    <3>1. /\ buses' = [buses EXCEPT ![p].refcnt = @ - 1]
          /\ shared_buses' = shared_buses /\ last' = last
      BY <2>1, <2>2 DEF shared_bus_detach
    <3>2. \A d \in Paths : buses'[d].last_unit_id = buses[d].last_unit_id
      BY <3>1 DEF TypeOK, BusRecords
    <3> QED
      BY <1>d, <3>1, <3>2 DEF LastInv
  <2>3. CASE ~(buses[p].refcnt > 1)
    <3>1. /\ buses' = [buses EXCEPT ![p] = ClosedBus]
          /\ shared_buses' = shared_buses \ {p}
          /\ last' = [last EXCEPT ![p].open = FALSE]
      BY <2>1, <2>3 DEF shared_bus_detach
    <3>2. \A d \in Devices : d # p => buses'[d] = buses[d] /\ last'[d] = last[d]
      BY <1>d, <3>1 DEF TypeOK
    <3>3. ~last'[p].open
      BY <3>1 DEF TypeOK
    <3> QED
      BY <3>1, <3>2, <3>3 DEF LastInv
  <2> QED
    BY <2>2, <2>3
<1>3. ASSUME NEW t \in Threads, BusLock(t)
      PROVE  LastInv'
  <2>1. /\ shared_buses' = shared_buses /\ last' = last
        /\ buses' = buses \/ buses' = [buses EXCEPT ![Bus(t)].holder = t]
    BY <1>3 DEF BusLock, wire
  <2>2. ASSUME NEW d \in Paths, buses' # buses
        PROVE  buses'[d].last_unit_id = buses[d].last_unit_id
    <3>1. buses \in [Paths -> BusRecords] /\ buses[d] \in BusRecords
      BY DEF TypeOK
    <3>2. buses'[d] = buses[d] \/ buses'[d] = [buses[d] EXCEPT !.holder = t]
      BY <2>1, <2>2, <3>1
    <3> QED
      BY <3>1, <3>2 DEF BusRecords
  <2>3. \A d \in Paths : buses'[d].last_unit_id = buses[d].last_unit_id
    BY <2>2
  <2> QED
    BY <1>d, <2>1, <2>3 DEF LastInv
<1>4. ASSUME NEW t \in Threads, OnBus(t), NEW code, EndTransaction(t, code)
      PROVE  LastInv'
  <2>1. /\ on[t] \in Ctxs /\ Bus(t) \in Devices /\ Dev(t) = Bus(t)
        /\ Bus(t) \in Paths /\ Bus(t) \in shared_buses
    BY <1>0, <1>4, OnBusFacts, ConnectedOpen, DeviceFacts
  <2>2. PICK p, v : p \in Devices /\ p = Bus(t) /\ v = unit_id[on[t]]
    BY <2>1
  <2>3. /\ buses' = [buses EXCEPT ![p] =
              [mark_bus_transaction_done(@, v) EXCEPT !.holder = NoThread]]
        /\ last' = [last EXCEPT ![p] = [unit |-> v, open |-> TRUE]]
        /\ shared_buses' = shared_buses
    BY <1>4, <2>1, <2>2 DEF EndTransaction
  <2>4. p \in Devices /\ p \in Paths /\ buses[p] \in BusRecords
    BY <1>d, <2>1, <2>2 DEF TypeOK
  <2>5. buses'[p].last_unit_id = v /\ last'[p].unit = v
    BY <1>d, <2>3, <2>4 DEF TypeOK, BusRecords, mark_bus_transaction_done
  <2>6. \A d \in Devices : d # p => buses'[d] = buses[d] /\ last'[d] = last[d]
    BY <1>d, <2>3 DEF TypeOK
  <2> QED
    BY <2>1, <2>2, <2>3, <2>5, <2>6 DEF LastInv
<1>5. CASE UNCHANGED <<registry, last>>
  BY <1>5 DEF LastInv, registry
<1>6. ASSUME NEW t \in Threads, NEW c \in Ctxs,
             \/ ConnectFails(t, c) \/ DisconnectBegin(t, c)
             \/ SetUnitIdBegin(t, c) \/ RequestRefused(t, c) \/ RequestBegin(t, c)
      PROVE  LastInv'
  <2>1. UNCHANGED <<registry, last>>
    BY <1>6 DEF ConnectFails, DisconnectBegin, SetUnitIdBegin, RequestRefused,
                RequestBegin, wire
  <2> QED
    BY <1>5, <2>1
<1>7. ASSUME NEW t \in Threads,
             \/ DisconnectLock(t) \/ DisconnectDestroy(t) \/ SetUnitId(t)
             \/ RequestLock(t) \/ RequestBroadcastRead(t) \/ wait_bus_silence(t)
             \/ Flush(t) \/ Send(t) \/ EchoReads(t) \/ Returned(t)
      PROVE  LastInv'
  <2>1. UNCHANGED <<registry, last>>
    BY <1>7 DEF DisconnectLock, DisconnectDestroy, SetUnitId, RequestLock, EchoReads,
                RequestBroadcastRead, wait_bus_silence, Returned, Flush,
                BeginTransaction, Send, wire
  <2> QED
    BY <1>5, <2>1
<1>8. ASSUME NEW t \in Threads,
             \/ SendFails(t) \/ EchoFails(t) \/ BroadcastDone(t) \/ Receive(t)
             \/ ReceiveFails(t)
      PROVE  LastInv'
  <2>1. OnBus(t) /\ \E code : EndTransaction(t, code)
    BY <1>8 DEF SendFails, EchoFails, BroadcastDone, Receive, ReceiveFails, OnBus
  <2> QED
    BY <1>4, <2>1
<1>9. ASSUME NEW d \in Devices, SlaveReplies(d) \/ Tick(d)
      PROVE  LastInv'
  BY <1>5, <1>9 DEF SlaveReplies, Tick
<1>10. CASE UNCHANGED vars
  BY <1>5, <1>10 DEF vars, wire
<1> QED
  BY <1>1, <1>2, <1>3, <1>6, <1>7, <1>8, <1>9, <1>10, StepKinds
  DEF ThreadStep, Disconnect, Transact

-----------------------------------------------------------------------------
(* The configured waits are lengths of time.                               *)
LEMMA WaitTypes ==
  ASSUME TypeOK, CtxInv, PortInv, NEW c \in Ctxs, initialized[c]
  PROVE  effective_inter_frame(c) \in Nat /\ effective_handoff_silence(c) \in Nat
<1>1. /\ InterFrame[c] \in Nat \cup {TIMING_DISABLED} /\ DefaultHandoff \in Nat
      /\ Handoff[c] \in Nat \cup {TIMING_DISABLED}
  BY TimingAssumption
<1>2. T35[buses[shared_bus[c]].baud_rate] \in Nat
  <2>1. PICK b \in Bauds : buses[shared_bus[c]].baud_rate = effective_baud_rate(b)
    BY DEF CtxInv, PortInv
  <2> QED
    BY <2>1, TimingAssumption DEF effective_baud_rate
<1>3. \A x \in Nat \cup {TIMING_DISABLED}, y \in Nat : effective_timing(x, y) \in Nat
  BY DEF effective_timing, TIMING_DISABLED
<1> QED
  BY <1>1, <1>2, <1>3 DEF effective_inter_frame, effective_handoff_silence

(* wait_bus_silence waits long enough for what the record remembers.       *)
LEMMA WaitsEnough ==
  ASSUME TypeOK, CtxInv, CallInv, PortInv, LastInv, NEW t \in Threads,
         wait_bus_silence(t), last[Dev(t)].unit # NoUnit, last[Dev(t)].open
  PROVE  SilentFor(t)
<1>1. /\ OnBus(t) /\ on[t] \in Ctxs /\ initialized[on[t]]
      /\ Dev(t) = Bus(t) /\ Dev(t) \in Devices
  BY OnBusFacts DEF wait_bus_silence, OnBus
<1>2. PICK inter \in Nat, hand \in Nat, q \in Nat :
        /\ inter = effective_inter_frame(on[t])
        /\ hand = effective_handoff_silence(on[t])
        /\ q = quiet[Dev(t)]
  BY <1>1, WaitTypes DEF TypeOK
<1>3. buses[Bus(t)].last_unit_id = last[Dev(t)].unit
  BY <1>1 DEF LastInv
<1>4. q >= RequiredSilence(t)
  BY <1>2 DEF wait_bus_silence
<1>5. q >= inter /\ (last[Dev(t)].unit # req[t].unit => q >= hand)
  BY <1>2, <1>3, <1>4 DEF RequiredSilence
<1> QED
  BY <1>2, <1>5 DEF SilentFor

(* Silence that has passed stays enough for who is undisturbed.            *)
LEMMA SilentKept ==
  ASSUME TypeOK, CtxInv, CallInv, PortInv, TypeOK', NEW u \in Threads, OnBus(u),
         Undisturbed(u), on'[u] = on[u], req'[u].unit = req[u].unit
  PROVE  /\ Bus(u)' = Bus(u) /\ Dev(u)' = Dev(u)
         /\ SilentFor(u) => SilentFor(u)'
<1>1. Bus(u)' = Bus(u) /\ Dev(u)' = Dev(u)
  BY DEF Undisturbed, Bus, Dev
<1>2. /\ effective_inter_frame(on[u])' = effective_inter_frame(on[u])
      /\ effective_handoff_silence(on[u])' = effective_handoff_silence(on[u])
  BY DEF Undisturbed, Bus, effective_inter_frame, effective_handoff_silence
<1>3. /\ effective_inter_frame(on[u]) \in Nat
      /\ effective_handoff_silence(on[u]) \in Nat
      /\ Dev(u) \in Devices
  BY OnBusFacts, WaitTypes
<1>4. quiet[Dev(u)] \in Nat /\ quiet'[Dev(u)] \in Nat
  BY <1>3 DEF TypeOK
<1>5. quiet'[Dev(u)] >= quiet[Dev(u)] /\ last'[Dev(u)] = last[Dev(u)]
  BY DEF Undisturbed
<1>6. ASSUME SilentFor(u) PROVE SilentFor(u)'
  <2>1. /\ quiet'[Dev(u)] >= effective_inter_frame(on[u])
        /\ last[Dev(u)].unit # req[u].unit =>
             quiet'[Dev(u)] >= effective_handoff_silence(on[u])
    BY <1>3, <1>4, <1>5, <1>6 DEF SilentFor
  <2> QED
    BY <1>1, <1>2, <1>5, <2>1 DEF SilentFor
<1> QED
  BY <1>1, <1>6

(* The silence before a transmission is kept by every step.                *)
LEMMA SilenceStep ==
  ASSUME TypeOK, Attachments, Registered, LastInv, Silence, TypeOK', [Next]_vars
  PROVE  Silence'
<1>0. CtxInv /\ CallInv /\ PortInv /\ HolderInv
  BY DEF Attachments, Registered
<1>1. ASSUME NEW u \in Threads, pc[u] \in {"flush", "send"}, Undisturbed(u),
             on'[u] = on[u], req'[u].unit = req[u].unit,
             last'[Dev(u)'].unit # NoUnit, last'[Dev(u)'].open
      PROVE  SilentFor(u)'
  <2>1. OnBus(u)
    BY <1>1 DEF OnBus
  <2>2. Dev(u)' = Dev(u) /\ (SilentFor(u) => SilentFor(u)')
    BY <1>0, <1>1, <2>1, SilentKept
  <2> QED
    BY <1>1, <2>2 DEF Undisturbed, Silence
<1>2. ASSUME NEW t \in Threads, ThreadStep(t), NEW u \in Threads,
             pc'[u] \in {"flush", "send"},
             last'[Dev(u)'].unit # NoUnit, last'[Dev(u)'].open
      PROVE  SilentFor(u)'
  <2>1. CASE u # t
    <3>1. /\ pc[u] = pc'[u] /\ on'[u] = on[u] /\ req'[u] = req[u] /\ OnBus(u)
      BY <1>2, <2>1, ActsAlone DEF OnBus
    <3>2. Undisturbed(u)
      BY <1>0, <1>2, <2>1, <3>1, OthersUndisturbed
    <3> QED
      BY <1>1, <1>2, <3>1, <3>2
  <2>2. CASE u = t /\ wait_bus_silence(t)
    <3>1. UNCHANGED <<call, ctx, registry, wire>>
      BY <2>2 DEF wait_bus_silence
    <3>2. SilentFor(t)' <=> SilentFor(t)
      BY <3>1 DEF SilentFor, Dev, Bus, effective_inter_frame, effective_handoff_silence,
                  call, ctx, registry, wire
    <3>3. last[Dev(t)].unit # NoUnit /\ last[Dev(t)].open
      BY <1>2, <2>2, <3>1 DEF Dev, Bus, call, ctx, wire
    <3> QED
      BY <1>0, <2>2, <3>2, <3>3, WaitsEnough
  <2>3. CASE u = t /\ Flush(t)
    <3>1. pc[t] = "flush" /\ on' = on /\ UNCHANGED <<ctx, registry, quiet, last>>
      BY <2>3 DEF Flush, BeginTransaction
    <3>2. req'[t].unit = req[t].unit
      <4>1. req[t] \in RequestRecords /\ req'[t] = [req[t] EXCEPT !.seq = seq[Dev(t)] + 1]
        BY <2>3 DEF Flush, BeginTransaction, TypeOK
      <4> QED
        BY <4>1 DEF RequestRecords
    <3>3. Dev(t)' = Dev(t) /\ (SilentFor(t)' <=> SilentFor(t))
      BY <3>1, <3>2 DEF SilentFor, Dev, Bus, effective_inter_frame,
                        effective_handoff_silence, ctx, registry
    <3> QED
      BY <1>2, <2>3, <3>1, <3>3 DEF Silence
  <2> QED
    BY <1>2, <2>1, <2>2, <2>3, OwnStep
<1>3. ASSUME NEW d \in Devices, SlaveReplies(d) \/ Tick(d), NEW u \in Threads,
             pc'[u] \in {"flush", "send"},
             last'[Dev(u)'].unit # NoUnit, last'[Dev(u)'].open
      PROVE  SilentFor(u)'
  <2>1. pc' = pc /\ on' = on /\ req' = req
    BY <1>3 DEF SlaveReplies, Tick, call
  <2>2. Undisturbed(u)
    BY <1>0, <1>3, <2>1, WireUndisturbed DEF OnBus
  <2> QED
    BY <1>1, <1>3, <2>1, <2>2
<1>4. CASE UNCHANGED vars
  BY <1>4 DEF Silence, SilentFor, Dev, Bus, effective_inter_frame,
              effective_handoff_silence, vars, call, ctx, registry, wire
<1>5. (\E t \in Threads : ThreadStep(t)) \/ (\E d \in Devices : SlaveReplies(d) \/ Tick(d))
        => Silence'
  BY <1>2, <1>3 DEF Silence
<1> QED
  BY <1>4, <1>5, StepKinds

-----------------------------------------------------------------------------
(* After the flush, only replies to this transaction arrive.               *)
LEMMA InputStep ==
  ASSUME TypeOK, Attachments, Registered, InputInv, TypeOK', [Next]_vars
  PROVE  InputInv'
<1> DEFINE Heard(u) ==
      /\ req[u].seq = seq[Dev(u)]
      /\ \A i \in 1 .. Len(rx[Dev(u)]) : rx[Dev(u)][i].heard = req[u].seq
<1>0. CtxInv /\ CallInv /\ PortInv /\ HolderInv
  BY DEF Attachments, Registered
<1>i. ASSUME NEW u \in Threads, pc[u] \in {"send", "echo", "sent"}
      PROVE  Heard(u)
  BY <1>i DEF InputInv
<1>1. ASSUME NEW u \in Threads, pc[u] \in {"send", "echo", "sent"}, Undisturbed(u),
             on'[u] = on[u], req'[u] = req[u]
      PROVE  Heard(u)'
  <2>1. OnBus(u)
    BY <1>1 DEF OnBus
  <2>2. Dev(u)' = Dev(u) /\ Dev(u) \in Devices
    BY <1>0, <1>1, <2>1, SilentKept, OnBusFacts
  <2>3. Heard(u) /\ rx[Dev(u)] \in Seq(Frames)
    BY <1>1, <1>i, <2>2 DEF TypeOK
  <2>4. \A i \in 1 .. Len(rx'[Dev(u)]) : rx'[Dev(u)][i].heard = req[u].seq
    BY <1>1, <2>3 DEF Undisturbed
  <2> QED
    BY <1>1, <2>2, <2>3, <2>4 DEF Undisturbed
<1>2. ASSUME NEW t \in Threads, Flush(t)
      PROVE  Heard(t)'
  <2>1. Dev(t) \in Devices /\ on' = on /\ shared_bus' = shared_bus
    BY <1>0, <1>2, OnBusFacts DEF Flush, BeginTransaction, OnBus, ctx
  <2>2. Dev(t)' = Dev(t)
    BY <2>1 DEF Dev, Bus
  <2>3. /\ seq'[Dev(t)] = seq[Dev(t)] + 1 /\ rx'[Dev(t)] = <<>>
        /\ req'[t] = [req[t] EXCEPT !.seq = seq[Dev(t)] + 1]
    BY <1>2, <2>1 DEF Flush, BeginTransaction, TypeOK
  <2>4. req'[t].seq = seq[Dev(t)] + 1
    <3>1. req[t] \in RequestRecords
      BY DEF TypeOK
    <3> QED
      BY <2>3, <3>1 DEF RequestRecords
  <2> QED
    BY <2>2, <2>3, <2>4
<1>3. ASSUME NEW t \in Threads, Send(t)
      PROVE  Heard(t)'
  <2>1. Dev(t) \in Devices /\ on' = on /\ shared_bus' = shared_bus /\ req' = req
        /\ seq' = seq
    BY <1>0, <1>3, OnBusFacts DEF Send, OnBus, ctx, call
  <2>2. Dev(t)' = Dev(t)
    BY <2>1 DEF Dev, Bus
  <2>3. Heard(t) /\ rx[Dev(t)] \in Seq(Frames)
    BY <1>3, <1>i, <2>1 DEF Send, TypeOK
  <2>4. \/ rx' = rx
        \/ \E kind \in {"echo", "garbled"} :
             rx'[Dev(t)] = Append(rx[Dev(t)], FrameOf(req[t], kind, req[t].seq))
    BY <1>3, <2>1 DEF Send, TypeOK
  <2>5. \A kind \in {"echo", "garbled"} :
          /\ FrameOf(req[t], kind, req[t].seq) \in Frames
          /\ FrameOf(req[t], kind, req[t].seq).heard = req[t].seq
    BY DEF FrameOf, TypeOK, RequestRecords, Frames
  <2>6. ASSUME NEW f \in Frames, f.heard = req[t].seq,
               rx'[Dev(t)] = Append(rx[Dev(t)], f)
        PROVE  \A i \in 1 .. Len(rx'[Dev(t)]) : rx'[Dev(t)][i].heard = req[t].seq
    BY <2>3, <2>6
  <2> QED
    BY <2>1, <2>2, <2>3, <2>4, <2>5, <2>6
<1>4. ASSUME NEW t \in Threads, EchoReads(t)
      PROVE  Heard(t)'
  <2>1. Dev(t) \in Devices /\ on' = on /\ shared_bus' = shared_bus /\ req' = req
        /\ seq' = seq
    BY <1>0, <1>4, OnBusFacts DEF EchoReads, OnBus, ctx, call
  <2>2. Dev(t)' = Dev(t)
    BY <2>1 DEF Dev, Bus
  <2>3. Heard(t) /\ rx[Dev(t)] \in Seq(Frames) /\ rx[Dev(t)] # <<>>
    BY <1>4, <1>i, <2>1 DEF EchoReads, TypeOK
  <2>4. rx'[Dev(t)] = Tail(rx[Dev(t)])
    BY <1>4, <2>1 DEF EchoReads, TypeOK
  <2>5. \A i \in 1 .. Len(rx'[Dev(t)]) : rx'[Dev(t)][i].heard = req[t].seq
    BY <2>3, <2>4
  <2> QED
    BY <2>1, <2>2, <2>3, <2>5
<1>5. ASSUME NEW t \in Threads, ThreadStep(t), NEW u \in Threads,
             pc'[u] \in {"send", "echo", "sent"}
      PROVE  Heard(u)'
  <2>1. CASE u # t
    <3>1. /\ pc[u] = pc'[u] /\ on'[u] = on[u] /\ req'[u] = req[u] /\ OnBus(u)
      BY <1>5, <2>1, ActsAlone DEF OnBus
    <3>2. Undisturbed(u)
      BY <1>0, <1>5, <2>1, <3>1, OthersUndisturbed
    <3> QED
      BY <1>1, <1>5, <3>1, <3>2
  <2>2. CASE u = t
    BY <1>2, <1>3, <1>4, <1>5, <2>2, OwnStep
  <2> QED
    BY <2>1, <2>2
<1>6. ASSUME NEW d \in Devices, SlaveReplies(d) \/ Tick(d), NEW u \in Threads,
             pc'[u] \in {"send", "echo", "sent"}
      PROVE  Heard(u)'
  <2>1. pc' = pc /\ on' = on /\ req' = req
    BY <1>6 DEF SlaveReplies, Tick, call
  <2>2. Undisturbed(u)
    BY <1>0, <1>6, <2>1, WireUndisturbed DEF OnBus
  <2> QED
    BY <1>1, <1>6, <2>1, <2>2
<1>7. CASE UNCHANGED vars
  BY <1>7 DEF InputInv, Dev, Bus, vars, call, ctx, wire
<1>8. (\E t \in Threads : ThreadStep(t)) \/ (\E d \in Devices : SlaveReplies(d) \/ Tick(d))
        => InputInv'
  BY <1>5, <1>6 DEF InputInv
<1> QED
  BY <1>7, <1>8, StepKinds

(* What a call returns is the reply to its own request.                    *)
LEMMA FreshStep ==
  ASSUME TypeOK, Attachments, InputInv, FreshReply, [Next]_vars
  PROVE  FreshReply'
<1> DEFINE Fresh(u) ==
      pc[u] = "return" /\ result[u] \in {"OK", "EXCEPTION"} /\ ~Broadcast(u) =>
        /\ got[u].heard = req[u].seq
        /\ got[u].unit = req[u].unit /\ got[u].fc = req[u].fc
        /\ result[u] = "OK" => got[u].shape = req[u].shape
<1>0. CtxInv /\ CallInv
  BY DEF Attachments
<1>1. ASSUME NEW u \in Threads, pc'[u] = pc[u], req'[u] = req[u],
             result'[u] = result[u], got'[u] = got[u]
      PROVE  Fresh(u)'
  BY <1>1 DEF FreshReply, Broadcast
<1>2. ASSUME NEW t \in Threads, Receive(t)
      PROVE  Fresh(t)'
  <2>1. Dev(t) \in Devices /\ pc[t] = "sent"
    BY <1>0, <1>2, OnBusFacts DEF Receive, OnBus
  <2>2. rx[Dev(t)] \in Seq(Frames) /\ rx[Dev(t)] # <<>>
    BY <1>2, <2>1 DEF Receive, TypeOK
  <2>3. PICK f \in Frames : f = Head(rx[Dev(t)])
    BY <2>2
  <2>4. f.heard = req[t].seq
    <3>1. 1 \in 1 .. Len(rx[Dev(t)]) /\ f = rx[Dev(t)][1]
      BY <2>2, <2>3
    <3> QED
      BY <2>1, <3>1 DEF InputInv
  <2>5. PICK code \in ResponseCodes(req[t], f) : EndTransaction(t, code)
    BY <1>2, <2>3 DEF Receive
  <2>6. result'[t] = code /\ req' = req
    BY <2>5 DEF EndTransaction, Return, TypeOK
  <2>7. got'[t] = f
    BY <1>2, <2>3 DEF Receive, TypeOK
  <2>8. code \in {"OK", "EXCEPTION"} =>
          f.fc = req[t].fc /\ f.unit = req[t].unit /\ (code = "OK" => f.shape = req[t].shape)
    BY <2>5 DEF ResponseCodes
  <2> QED
    BY <2>4, <2>6, <2>7, <2>8
<1>3. ASSUME NEW t \in Threads, BroadcastDone(t)
      PROVE  Fresh(t)'
  BY <1>3 DEF BroadcastDone, EndTransaction, Broadcast
<1>4. ASSUME NEW t \in Threads, ThreadStep(t), NEW u \in Threads
      PROVE  Fresh(u)'
  <2>1. CASE u # t
    BY <1>1, <1>4, <2>1, ActsAlone
  <2>2. CASE u = t
    BY <1>2, <1>3, <1>4, <2>2, OwnStep
  <2> QED
    BY <2>1, <2>2
<1>5. CASE UNCHANGED <<pc, call>>
  BY <1>5 DEF FreshReply, Broadcast, call
<1>6. ASSUME NEW d \in Devices, SlaveReplies(d) \/ Tick(d)
      PROVE  UNCHANGED <<pc, call>>
  BY <1>6 DEF SlaveReplies, Tick
<1>7. (\E t \in Threads : ThreadStep(t)) => FreshReply'
  BY <1>4 DEF FreshReply
<1> QED
  BY <1>5, <1>6, <1>7, StepKinds DEF vars

-----------------------------------------------------------------------------
(* The inductive invariant.                                                *)
IInv ==
  /\ TypeOK /\ Attachments /\ Registered /\ LastInv /\ Silence /\ InputInv
  /\ FreshReply

(* The invariant holds at first.                                           *)
LEMMA InitInv == Init => IInv
<1> SUFFICES ASSUME Init PROVE IInv
  OBVIOUS
<1>1. TypeOK
  <2>1. /\ req \in [Threads -> RequestRecords] /\ got \in [Threads -> Frames]
        /\ result \in [Threads -> Results]
    BY SentinelTypes DEF Init, Results
  <2>2. buses \in [Paths -> BusRecords]
    <3>1. Cardinality(Ctxs) \in Nat
      BY FS_CardinalityType
    <3>2. ClosedBus \in BusRecords
      BY <3>1 DEF ClosedBus, BusRecords
    <3> QED
      BY <3>2 DEF Init
  <2>3. /\ rx \in [Devices -> Seq(Frames)]
        /\ line \in [Devices -> SUBSET [req : RequestRecords, rest : BOOLEAN]]
    BY DEF Init
  <2>4. /\ quiet \in [Devices -> 0 .. MaxQuiet]
        /\ last \in [Devices -> [unit : Units \cup {NoUnit}, open : BOOLEAN]]
    BY DEF Init
  <2> QED
    BY <2>1, <2>2, <2>3, <2>4 DEF Init, TypeOK
<1>2. Attachments
  BY DEF Init, Attachments, CtxInv, CallInv, LeaveInv, Uses, Holds, Leaving, OnBus
<1>3. RefcntExact
  <2> SUFFICES ASSUME NEW p \in Paths PROVE Counted(p)
    BY RefcntCounted
  <2>1. Attached(p) = {}
    BY DEF Init, Attached
  <2>2. Cardinality(Attached(p)) = 0
    BY <2>1, FS_EmptySet
  <2> QED
    BY <2>2 DEF Init, Counted, ClosedBus
<1>4. PortInv /\ HolderInv
  BY DEF Init, PortInv, HolderInv, OnBus
<1>5. LastInv
  BY DEF Init, LastInv
<1>6. Silence /\ InputInv /\ FreshReply
  BY DEF Init, Silence, InputInv, FreshReply
<1> QED
  BY <1>1, <1>2, <1>3, <1>4, <1>5, <1>6 DEF IInv, Registered

(* The invariant is inductive.                                             *)
LEMMA InductiveStep ==
  ASSUME ~DisconnectWhileQueued, IInv, [Next]_vars
  PROVE  IInv'
<1>1. TypeOK /\ Attachments /\ Registered /\ LastInv /\ Silence /\ InputInv /\ FreshReply
  BY DEF IInv
<1>2. Attachments'
  BY <1>1, AttachmentsStep
<1>3. Registered'
  BY <1>1, <1>2, RegisteredStep
<1>4. TypeOK'
  BY <1>1, <1>3, TypeStep
<1>5. LastInv'
  BY <1>1, LastStep DEF Attachments
<1>6. Silence' /\ InputInv' /\ FreshReply'
  BY <1>1, <1>4, SilenceStep, InputStep, FreshStep
<1> QED
  BY <1>2, <1>3, <1>4, <1>5, <1>6 DEF IInv

(* For callers that disconnect a context only when no request is queued on *)
(* it, the inductive invariant holds throughout.                           *)
THEOREM Invariance ==
  ASSUME ~DisconnectWhileQueued
  PROVE  Spec => []IInv
<1>1. IInv /\ [Next]_vars => IInv'
  BY InductiveStep
<1> QED
  BY <1>1, InitInv, PTL DEF Spec

(* The variables keep their types; in particular the reference count stays *)
(* within the number of contexts.                                          *)
THEOREM TypeCorrect ==
  ASSUME ~DisconnectWhileQueued
  PROVE  Spec => []TypeOK
<1>1. IInv => TypeOK
  BY DEF IInv
<1> QED
  BY <1>1, Invariance, PTL

(* The registry counts its contexts exactly: no port is closed under a     *)
(* context that uses it and none is leaked (shared_bus_attach and          *)
(* shared_bus_detach).                                                     *)
THEOREM ReferencesAreCounted ==
  ASSUME ~DisconnectWhileQueued
  PROVE  Spec => []RefcntExact
<1>1. IInv => RefcntExact
  BY DEF IInv, Registered
<1> QED
  BY <1>1, Invariance, PTL

(* The contexts on a device agree on its serial settings                   *)
(* (bus_settings_match).                                                   *)
THEOREM SettingsAreShared ==
  ASSUME ~DisconnectWhileQueued
  PROVE  Spec => []SettingsShared
<1>1. CtxInv /\ PortInv => SettingsShared
  BY DEF CtxInv, PortInv, SettingsShared
<1>2. IInv => SettingsShared
  BY <1>1 DEF IInv, Attachments, Registered
<1> QED
  BY <1>2, Invariance, PTL

(* Nobody transmits before the silence its context asks for has passed     *)
(* since the last transaction on the open port (wait_bus_silence,          *)
(* mark_bus_transaction_done).                                             *)
THEOREM SilenceIsKept ==
  ASSUME ~DisconnectWhileQueued
  PROVE  Spec => []Silence
<1>1. IInv => Silence
  BY DEF IInv
<1> QED
  BY <1>1, Invariance, PTL

(* A reply that is accepted arrived during the transaction that accepts    *)
(* it and answers its request (the flush, then mb_pdu_check_response).     *)
THEOREM RepliesAreFresh ==
  ASSUME ~DisconnectWhileQueued
  PROVE  Spec => []FreshReply
<1>1. IInv => FreshReply
  BY DEF IInv
<1> QED
  BY <1>1, Invariance, PTL

(* No thread uses the mutex or the bus of a context after a disconnect has *)
(* destroyed them.                                                         *)
THEOREM ContextsOutliveCalls ==
  ASSUME ~DisconnectWhileQueued
  PROVE  Spec => []ContextAlive
<1>1. TypeOK /\ CtxInv /\ CallInv /\ RefcntExact => ContextAlive
  <2> SUFFICES ASSUME TypeOK, CtxInv, CallInv, RefcntExact, NEW t \in Threads
               PROVE  /\ pc[t] # "crashed"
                      /\ Uses(t) => mutex[on[t]] = "alive" /\ shared_bus[on[t]] \in shared_buses
    BY DEF ContextAlive, Uses
  <2>1. pc[t] # "crashed" /\ (Uses(t) => on[t] \in Ctxs /\ initialized[on[t]])
    BY DEF CallInv
  <2>2. \A c \in Ctxs : initialized[c] => mutex[c] = "alive" /\ shared_bus[c] \in shared_buses
    BY ConnectedOpen DEF CtxInv
  <2> QED
    BY <2>1, <2>2
<1>2. IInv => ContextAlive
  BY <1>1 DEF IInv, Attachments, Registered
<1> QED
  BY <1>2, Invariance, PTL

-----------------------------------------------------------------------------
(* The refinement of SerialService.  The place of a thread by its pc.      *)
LEMMA PlaceOf ==
  ASSUME NEW t \in Threads
  PROVE  /\ pc[t] \in {"lock", "locked"} => Place(t) = "queue"
         /\ OnBus(t) => Place(t) = Dev(t)
         /\ pc[t] \in {"return", "ulock", "dlock", "dlocked", "destroy"} =>
              Place(t) = "over"
         /\ pc[t] \in {"idle", "crashed"} => Place(t) = "out"
  BY DEF Place, OnBus

(* The same of the next state.                                             *)
LEMMA PlaceOfNext ==
  ASSUME NEW t \in Threads
  PROVE  /\ pc'[t] \in {"lock", "locked"} => Place(t)' = "queue"
         /\ OnBus(t)' => Place(t)' = Dev(t)'
         /\ pc'[t] \in {"return", "ulock", "dlock", "dlocked", "destroy"} =>
              Place(t)' = "over"
         /\ pc'[t] \in {"idle", "crashed"} => Place(t)' = "out"
  BY DEF Place, OnBus

(* A step of one thread moves no other.                                    *)
LEMMA OthersStay ==
  ASSUME TypeOK, CtxInv, CallInv, Registered,
         NEW t \in Threads, ThreadStep(t), NEW u \in Threads, u # t
  PROVE  Place(u)' = Place(u)
<1>1. pc'[u] = pc[u] /\ on'[u] = on[u]
  BY ActsAlone
<1>2. CASE OnBus(u)
  <2>1. Dev(u)' = Dev(u)
    BY <1>1, <1>2, OthersUndisturbed DEF Undisturbed, Dev, Bus
  <2> QED
    BY <1>1, <1>2, <2>1, PlaceOf, PlaceOfNext DEF OnBus
<1>3. CASE ~OnBus(u)
  BY <1>1, <1>3 DEF Place, OnBus
<1> QED
  BY <1>2, <1>3

(* What a thread's own step does to its place.                             *)
Moves(t, from, to) == Place(t) = from /\ Place(t)' = to

(* Every step of a thread is a stutter or a move SerialService allows.     *)
LEMMA OwnMove ==
  ASSUME TypeOK, CtxInv, CallInv, HolderInv, NEW t \in Threads, ThreadStep(t)
  PROVE  \/ Place(t)' = Place(t)
         \/ Moves(t, "out", "queue") \/ Moves(t, "out", "over")
         \/ Moves(t, "queue", "over") \/ Moves(t, "over", "out")
         \/ \E d \in Devices :
              \/ Moves(t, d, "over")
              \/ Moves(t, "queue", d) /\ \A u \in Threads : Place(u) # d
<1> USE PlaceOf, PlaceOfNext DEF Moves
<1>1. ASSUME NEW c \in Ctxs, Connect(t, c) \/ ConnectFails(t, c)
      PROVE  Place(t)' = Place(t)
  BY <1>1 DEF Connect, ConnectFails, Idle
<1>2. ASSUME NEW c \in Ctxs,
             DisconnectBegin(t, c) \/ SetUnitIdBegin(t, c) \/ RequestRefused(t, c)
      PROVE  Moves(t, "out", "over")
  <2>1. pc[t] = "idle" /\ pc'[t] \in {"dlock", "ulock", "return"}
    BY <1>2 DEF DisconnectBegin, SetUnitIdBegin, RequestRefused, Return, Idle, TypeOK
  <2> QED
    BY <2>1
<1>3. ASSUME NEW c \in Ctxs, RequestBegin(t, c)
      PROVE  Moves(t, "out", "queue")
  BY <1>3 DEF RequestBegin, Idle, TypeOK
<1>4. CASE DisconnectLock(t) \/ DisconnectDetach(t)
  BY <1>4 DEF DisconnectLock, DisconnectDetach, TypeOK
<1>5. CASE DisconnectDestroy(t) \/ SetUnitId(t) \/ Returned(t)
  BY <1>5 DEF DisconnectDestroy, SetUnitId, Returned, TypeOK
<1>6. CASE RequestLock(t)
  BY <1>6 DEF RequestLock, TypeOK
<1>7. CASE RequestBroadcastRead(t)
  BY <1>7 DEF RequestBroadcastRead, Return, TypeOK
<1>8. CASE BusLock(t)
  <2>1. /\ pc[t] = "locked" /\ on[t] \in Ctxs /\ shared_bus[on[t]] \in Devices
    BY <1>8 DEF BusLock, CallInv, CtxInv, Uses
  <2>2. PICK d \in Devices : d = Bus(t) /\ d = Dev(t)
    BY <2>1, DeviceFacts DEF Bus, Dev
  <2>3. /\ buses[d].holder = NoThread /\ pc' = [pc EXCEPT ![t] = "silence"]
        /\ on' = on /\ shared_bus' = shared_bus
    BY <1>8, <2>2, DeviceFacts DEF BusLock, call, ctx
  <2>4. Moves(t, "queue", d)
    <3>1. OnBus(t)' /\ Dev(t)' = d
      BY <2>2, <2>3 DEF OnBus, Dev, Bus, TypeOK
    <3> QED
      BY <2>1, <3>1
  <2>5. ASSUME NEW u \in Threads, Place(u) = d
        PROVE  FALSE
    <3>1. d \notin {"out", "queue", "over"}
      BY DeviceFacts
    <3>2. OnBus(u)
      BY <2>5, <3>1 DEF Place
    <3>3. Bus(u) = d
      BY <2>5, <3>2, OnBusFacts
    <3> QED
      BY <2>3, <3>2, <3>3 DEF HolderInv
  <2> QED
    BY <2>4, <2>5
<1>9. CASE wait_bus_silence(t) \/ Flush(t) \/ Send(t) \/ EchoReads(t)
  <2>1. OnBus(t) /\ OnBus(t)' /\ on' = on /\ shared_bus' = shared_bus
    BY <1>9 DEF wait_bus_silence, Flush, BeginTransaction, Send, EchoReads, OnBus,
                TypeOK, call, ctx
  <2>2. Dev(t)' = Dev(t)
    BY <2>1 DEF Dev, Bus
  <2> QED
    BY <2>1, <2>2
<1>10. CASE \/ SendFails(t) \/ EchoFails(t) \/ BroadcastDone(t) \/ Receive(t)
            \/ ReceiveFails(t)
  <2>1. OnBus(t) /\ pc'[t] = "return"
    BY <1>10 DEF SendFails, EchoFails, BroadcastDone, Receive, ReceiveFails, OnBus,
                 EndTransaction, Return, TypeOK
  <2>2. Dev(t) \in Devices
    BY <2>1, OnBusFacts
  <2> QED
    BY <2>1, <2>2
<1> QED
  BY <1>1, <1>2, <1>3, <1>4, <1>5, <1>6, <1>7, <1>8, <1>9, <1>10
  DEF ThreadStep, Disconnect, Transact

(* The abstract service sees the step of a thread as a move of its own.    *)
LEMMA ServiceStep ==
  ASSUME IInv, [Next]_vars
  PROVE  \/ Service!Next
         \/ [t \in Threads |-> Place(t)]' = [t \in Threads |-> Place(t)]
<1>0. TypeOK /\ CtxInv /\ CallInv /\ HolderInv /\ Registered
  BY DEF IInv, Attachments, Registered
<1>1. ASSUME NEW t \in Threads, ThreadStep(t)
      PROVE  \/ Service!Next
             \/ [u \in Threads |-> Place(u)]' = [u \in Threads |-> Place(u)]
  <2>1. \A u \in Threads : u # t => Place(u)' = Place(u)
    BY <1>0, <1>1, OthersStay
  <2>2. CASE Place(t)' = Place(t)
    BY <2>1, <2>2
  <2>3. ASSUME NEW a, NEW b, Moves(t, a, b)
        PROVE  Service!Move(t, a, b)
    <3>1. [u \in Threads |-> Place(u)]'
            = [[u \in Threads |-> Place(u)] EXCEPT ![t] = b]
      BY <2>1, <2>3 DEF Moves
    <3> QED
      BY <2>3, <3>1 DEF Moves, Service!Move
  <2>4. CASE Moves(t, "out", "queue") \/ Moves(t, "out", "over")
    BY <2>3, <2>4 DEF Service!Next, Service!Arrive
  <2>5. CASE Moves(t, "queue", "over")
    BY <2>3, <2>5 DEF Service!Next, Service!Withdraw
  <2>6. CASE Moves(t, "over", "out")
    BY <2>3, <2>6 DEF Service!Next, Service!Return
  <2>7. ASSUME NEW d \in Devices, Moves(t, d, "over")
        PROVE  Service!Next
    BY <2>3, <2>7 DEF Service!Next, Service!Leave
  <2>8. ASSUME NEW d \in Devices, Moves(t, "queue", d), \A u \in Threads : Place(u) # d
        PROVE  Service!Next
    BY <2>3, <2>8 DEF Service!Next, Service!Enter, Service!Free
  <2> QED
    BY <1>0, <1>1, <2>2, <2>4, <2>5, <2>6, <2>7, <2>8, OwnMove
<1>2. ASSUME UNCHANGED <<pc, on, shared_bus>>
      PROVE  [u \in Threads |-> Place(u)]' = [u \in Threads |-> Place(u)]
  BY <1>2 DEF Place, OnBus, Dev, Bus
<1>3. ASSUME NEW d \in Devices, SlaveReplies(d) \/ Tick(d)
      PROVE  UNCHANGED <<pc, on, shared_bus>>
  BY <1>3 DEF SlaveReplies, Tick, call, ctx
<1>4. CASE UNCHANGED vars
  BY <1>2, <1>4 DEF vars, call, ctx
<1> QED
  BY <1>1, <1>2, <1>3, <1>4, StepKinds

(* modbus_rtu_client.h: the transactions of all contexts on a device are   *)
(* serialized.  The client implements the safety part of the service: who  *)
(* gets on a bus was queued for it and finds it free.                      *)
THEOREM ServesDevicesInTurn ==
  ASSUME ~DisconnectWhileQueued
  PROVE  Spec => ServesInTurn
<1>1. Init => Service!Init
  BY DEF Init, Service!Init, Place, OnBus
<1>2. IInv /\ [Next]_vars => [Service!Next]_[t \in Threads |-> Place(t)]
  BY ServiceStep
<1> QED
  BY <1>1, <1>2, Invariance, PTL DEF Spec, ServesInTurn, Service!Safety
====
