------------------------------ MODULE RtuClient ------------------------------
(***************************************************************************)
(* The Modbus RTU client of modbus_rtu_client.c: application threads use   *)
(* client contexts; the contexts of one serial device share a bus record   *)
(* (descriptor, mutex, reference count, last transaction) that a           *)
(* process-wide registry keeps under the canonical path of the device.     *)
(*                                                                         *)
(* A bus record is named by its registry key.  The registry lock covers    *)
(* look-up, opening and counting, and nothing blocks on another thread     *)
(* while it is held, so an attach and a detach are one step each.          *)
(*                                                                         *)
(* RTU replies carry no transaction identifier.  The model numbers the     *)
(* transactions of a device (seq) so that the properties can tell them     *)
(* apart; the code cannot.  A request is its function code and its shape:  *)
(* what mb_pdu_check_response compares beyond the function code.  The      *)
(* slaves and the line are external: a request may be answered late or     *)
(* never, and what arrives may be garbled.                                 *)
(*                                                                         *)
(* Beside some definitions stands a faulty form (FlushSkipped, ...) that   *)
(* no specification uses: the form a mistake in the code would have, on    *)
(* which the properties are seen to fail.                                  *)
(***************************************************************************)
EXTENDS Integers, Sequences, FiniteSets

CONSTANTS
  Threads,         \* application threads
  Ctxs,            \* client contexts
  Paths,           \* paths under which serial devices can be named
  realpath,        \* the canonical path of each path (external)
  Bauds,           \* baud rates the application configures; 0 is the default
  Units,           \* unit identifiers it configures; 0 is broadcast
  Requests,        \* what it asks for: function code class and shape
  InterFrame,      \* cfg.inter_frame_delay_us of each context, in ticks
  Handoff,         \* cfg.bus_handoff_silence_ms of each context, in ticks
  T35,             \* mb_rtu_t35_us for each effective baud rate, in ticks
  DefaultHandoff,  \* MB_RTU_CLIENT_DEFAULT_HANDOFF_SILENCE_MS, in ticks
  LocalEcho,       \* cfg.local_echo: transmitted bytes come back
  MaxCalls,        \* bound: API calls in a behaviour
  MaxQuiet,        \* bound: ticks of silence that are told apart
  DisconnectWhileQueued  \* may disconnect be called while a request that has
                         \* already started waits for the context's mutex?

NoThread == "no thread"
NoBus    == "no bus"
NoCtx    == "no context"
NoUnit   == -1

TIMING_DISABLED == -1    \* UINT32_MAX in the code: -1 as a 32-bit pattern
BROADCAST       == 0     \* MODBUS_RTU_BROADCAST_ADDRESS

ASSUME NamesAssumption ==
  /\ NoThread \notin Threads /\ NoBus \notin Paths /\ NoCtx \notin Ctxs
  /\ Paths \cap {"out", "queue", "over"} = {}
  /\ IsFiniteSet(Ctxs)
ASSUME PathAssumption ==
  /\ realpath \in [Paths -> Paths]
  /\ \A p \in Paths : realpath[realpath[p]] = realpath[p]
ASSUME ConfigAssumption ==
  /\ Units \subseteq Nat /\ Units # {}
  /\ Bauds \subseteq Nat
  /\ Requests \subseteq [fc : {"read", "write"}, shape : Nat] /\ Requests # {}
  /\ LocalEcho \in BOOLEAN /\ DisconnectWhileQueued \in BOOLEAN
  /\ MaxCalls \in Nat /\ MaxQuiet \in Nat
ASSUME TimingAssumption ==
  /\ \A c \in Ctxs : /\ InterFrame[c] \in Nat \cup {TIMING_DISABLED}
                    /\ Handoff[c] \in Nat \cup {TIMING_DISABLED}
  /\ \A b \in Bauds : T35[IF b = 0 THEN 9600 ELSE b] \in Nat
  /\ DefaultHandoff \in Nat

VARIABLES
  pc,            \* where each thread is in the API call it is making
  on,            \* the context that call is about
  req,           \* the request each thread is making
  result,        \* what the call is about to return
  got,           \* the response frame each thread has accepted
  initialized,   \* ctx->initialized
  mutex,         \* ctx->lock: not initialised, usable or destroyed
  owner,         \* the thread that holds ctx->lock
  unit_id,       \* ctx->cfg.unit_id
  baud_rate,     \* ctx->cfg.baud_rate, standing for all serial settings
  shared_bus,    \* ctx->shared_bus
  shared_buses,  \* the keys in the registry
  buses,         \* the bus records
  seq,           \* transactions begun on each device
  line,          \* requests the slaves of a device may still answer
  rx,            \* the input queue of each device
  quiet,         \* ticks since the last transaction on each device ended
  last,          \* that transaction's unit, and whether the port has stayed
                 \* open since
  calls          \* API calls made (for the bound)

call     == <<on, req, result, got>>
ctx      == <<initialized, mutex, owner, unit_id, baud_rate, shared_bus>>
registry == <<shared_buses, buses>>
wire     == <<seq, line, rx, quiet, last>>
vars     == <<pc, call, ctx, registry, wire, calls>>

Devices == {realpath[p] : p \in Paths}

NoRequest == [fc |-> "none", shape |-> 0, unit |-> 0, seq |-> 0]
NoFrame   == [fc |-> "none", shape |-> 0, unit |-> 0, seq |-> 0,
              kind |-> "garbled", heard |-> 0]
ClosedBus == [baud_rate |-> 0, refcnt |-> 0, holder |-> NoThread,
              last_unit_id |-> NoUnit]

Init ==
  /\ pc = [t \in Threads |-> "idle"]
  /\ on = [t \in Threads |-> NoCtx]
  /\ req = [t \in Threads |-> NoRequest]
  /\ result = [t \in Threads |-> "none"]
  /\ got = [t \in Threads |-> NoFrame]
  /\ initialized = [c \in Ctxs |-> FALSE]
  /\ mutex = [c \in Ctxs |-> "none"]
  /\ owner = [c \in Ctxs |-> NoThread]
  /\ unit_id = [c \in Ctxs |-> 0]
  /\ baud_rate = [c \in Ctxs |-> 0]
  /\ shared_bus = [c \in Ctxs |-> NoBus]
  /\ shared_buses = {}
  /\ buses = [p \in Paths |-> ClosedBus]
  /\ seq = [d \in Devices |-> 0]
  /\ line = [d \in Devices |-> {}]
  /\ rx = [d \in Devices |-> <<>>]
  /\ quiet = [d \in Devices |-> MaxQuiet]
  /\ last = [d \in Devices |-> [unit |-> NoUnit, open |-> TRUE]]
  /\ calls = 0

CountCall == calls < MaxCalls /\ calls' = calls + 1

Idle(t)          == pc[t] = "idle"
InCall(c)        == \E t \in Threads : ~Idle(t) /\ on[t] = c
Disconnecting(c) ==
  \E t \in Threads : pc[t] \in {"dlock", "dlocked", "destroy"} /\ on[t] = c

(* pthread_mutex_lock and _unlock on ctx->lock (external).  Locking a mutex *)
(* that has been destroyed is undefined: the caller gets it or goes on     *)
(* without it.                                                             *)
MutexLock(t, c) ==
  \/ mutex[c] = "alive" /\ owner[c] = NoThread /\ owner' = [owner EXCEPT ![c] = t]
  \/ mutex[c] # "alive" /\ owner' \in {owner, [owner EXCEPT ![c] = t]}

MutexUnlock(t, c) ==
  owner' = IF owner[c] = t THEN [owner EXCEPT ![c] = NoThread] ELSE owner

-----------------------------------------------------------------------------
(* The registry of shared buses.                                           *)

effective_baud_rate(b) == IF b = 0 THEN 9600 ELSE b

resolve_bus_key_verbatim(device) == device
resolve_bus_key(device) == realpath[device]

bus_settings_match_loose(p, b) == b = 0 \/ buses[p].baud_rate = b
bus_settings_match(p, b) == buses[p].baud_rate = effective_baud_rate(b)

(* The record after open_bus_locked and the increment that follows it.     *)
OpenedBus(b) ==
  [baud_rate |-> effective_baud_rate(b), refcnt |-> 1, holder |-> NoThread,
   last_unit_id |-> NoUnit]

(* Attach context c to the bus with key p: reuse the record, or open the   *)
(* port and link a new one, whose input queue is empty.                    *)
shared_bus_attach(c, p, b) ==
  /\ shared_bus' = [shared_bus EXCEPT ![c] = p]
  /\ IF p \in shared_buses
       THEN /\ bus_settings_match(p, b)
            /\ buses' = [buses EXCEPT ![p].refcnt = @ + 1]
            /\ UNCHANGED <<shared_buses, rx>>
       ELSE /\ buses' = [buses EXCEPT ![p] = OpenedBus(b)]
            /\ shared_buses' = shared_buses \cup {p}
            /\ rx' = [rx EXCEPT ![realpath[p]] = <<>>]

(* Drop c's reference; the last one closes the port and frees the record,  *)
(* and with it what it knows of the last transaction.                      *)
shared_bus_detach_early(c, p) ==
  /\ shared_bus' = [shared_bus EXCEPT ![c] = NoBus]
  /\ shared_buses' = IF buses[p].refcnt <= 2 THEN shared_buses \ {p} ELSE shared_buses
  /\ buses' = [buses EXCEPT ![p] = IF @.refcnt <= 2 THEN ClosedBus
                                   ELSE [@ EXCEPT !.refcnt = @ - 1]]
  /\ UNCHANGED <<rx, last>>

shared_bus_detach(c, p) ==
  /\ shared_bus' = [shared_bus EXCEPT ![c] = NoBus]
  /\ IF buses[p].refcnt > 1
       THEN /\ buses' = [buses EXCEPT ![p].refcnt = @ - 1]
            /\ UNCHANGED <<shared_buses, rx, last>>
       ELSE /\ buses' = [buses EXCEPT ![p] = ClosedBus]
            /\ shared_buses' = shared_buses \ {p}
            /\ rx' = [rx EXCEPT ![realpath[p]] = <<>>]
            /\ last' = [last EXCEPT ![realpath[p]].open = FALSE]

-----------------------------------------------------------------------------
(* mb_rtu_client_connect, which nobody calls on a context that is in use.  *)

Connect(t, c) ==
  /\ Idle(t) /\ ~InCall(c)
  /\ CountCall
  /\ ~initialized[c]
  /\ \E device \in Paths, b \in Bauds, u \in Units :
       /\ shared_bus_attach(c, resolve_bus_key(device), b)
       /\ unit_id' = [unit_id EXCEPT ![c] = u]
       /\ baud_rate' = [baud_rate EXCEPT ![c] = b]
  /\ initialized' = [initialized EXCEPT ![c] = TRUE]
  /\ mutex' = [mutex EXCEPT ![c] = "alive"]
  /\ owner' = [owner EXCEPT ![c] = NoThread]
  /\ UNCHANGED <<pc, call, seq, line, quiet, last>>

(* The port cannot be opened, or is open with other settings.  A failed    *)
(* connect destroys the mutex it has initialised.                          *)
ConnectFails(t, c) ==
  /\ Idle(t) /\ ~InCall(c)
  /\ CountCall
  /\ ~initialized[c]
  /\ \E device \in Paths, b \in Bauds :
       resolve_bus_key(device) \in shared_buses =>
         ~bus_settings_match(resolve_bus_key(device), b)
  /\ mutex' = [mutex EXCEPT ![c] = "destroyed"]
  /\ UNCHANGED <<pc, call, initialized, owner, unit_id, baud_rate, shared_bus,
                 registry, wire>>

(* mb_rtu_client_disconnect.  The caller starts no request while it runs   *)
(* (modbus_rtu_client.h); one that started earlier may still be queued for *)
(* the mutex only if DisconnectWhileQueued.                                *)

DisconnectBegin(t, c) ==
  /\ Idle(t) /\ ~Disconnecting(c)
  /\ \A u \in Threads : on[u] = c =>
       pc[u] # "ulock" /\ (pc[u] = "lock" => DisconnectWhileQueued)
  /\ CountCall
  /\ initialized[c]
  /\ pc' = [pc EXCEPT ![t] = "dlock"]
  /\ on' = [on EXCEPT ![t] = c]
  /\ UNCHANGED <<req, result, got, ctx, registry, wire>>

DisconnectLockSkipped(t) ==
  /\ pc[t] = "dlock"
  /\ pc' = [pc EXCEPT ![t] = "dlocked"]
  /\ UNCHANGED <<call, ctx, registry, wire, calls>>

DisconnectLock(t) ==
  /\ pc[t] = "dlock"
  /\ MutexLock(t, on[t])
  /\ pc' = [pc EXCEPT ![t] = "dlocked"]
  /\ UNCHANGED <<call, initialized, mutex, unit_id, baud_rate, shared_bus,
                 registry, wire, calls>>

DisconnectDetach(t) ==
  /\ pc[t] = "dlocked"
  /\ shared_bus_detach(on[t], shared_bus[on[t]])
  /\ initialized' = [initialized EXCEPT ![on[t]] = FALSE]
  /\ MutexUnlock(t, on[t])
  /\ pc' = [pc EXCEPT ![t] = "destroy"]
  /\ UNCHANGED <<call, mutex, unit_id, baud_rate, seq, line, quiet, calls>>

DisconnectDestroy(t) ==
  /\ pc[t] = "destroy"
  /\ mutex' = [mutex EXCEPT ![on[t]] = "destroyed"]
  /\ pc' = [pc EXCEPT ![t] = "idle"]
  /\ on' = [on EXCEPT ![t] = NoCtx]
  /\ UNCHANGED <<req, result, got, initialized, owner, unit_id, baud_rate, shared_bus,
                 registry, wire, calls>>

(* mb_rtu_client_set_unit_id *)

SetUnitIdBegin(t, c) ==
  /\ Idle(t) /\ ~Disconnecting(c)
  /\ CountCall
  /\ initialized[c]
  /\ pc' = [pc EXCEPT ![t] = "ulock"]
  /\ on' = [on EXCEPT ![t] = c]
  /\ UNCHANGED <<req, result, got, ctx, registry, wire>>

SetUnitId(t) ==
  /\ pc[t] = "ulock"
  /\ mutex[on[t]] = "alive" => owner[on[t]] = NoThread
  /\ \E u \in Units : unit_id' = [unit_id EXCEPT ![on[t]] = u]
  /\ pc' = [pc EXCEPT ![t] = "idle"]
  /\ on' = [on EXCEPT ![t] = NoCtx]
  /\ UNCHANGED <<req, result, got, initialized, mutex, owner, baud_rate, shared_bus,
                 registry, wire, calls>>

-----------------------------------------------------------------------------
(* The read and write functions.  A call that is refused for its arguments *)
(* or because the context is not connected never reaches the bus.          *)

Return(t, code) ==
  /\ result' = [result EXCEPT ![t] = code]
  /\ pc' = [pc EXCEPT ![t] = "return"]

RequestRefused(t, c) ==
  /\ Idle(t)
  /\ CountCall
  /\ \/ Return(t, "ERR_ARG")
     \/ ~initialized[c] /\ ~Disconnecting(c) /\ Return(t, "ERR_NOT_CONNECTED")
  /\ UNCHANGED <<on, req, got, ctx, registry, wire>>

RequestBegin(t, c) ==
  /\ Idle(t) /\ ~Disconnecting(c)
  /\ CountCall
  /\ initialized[c]
  /\ \E r \in Requests :
       req' = [req EXCEPT ![t] = [NoRequest EXCEPT !.fc = r.fc, !.shape = r.shape]]
  /\ on' = [on EXCEPT ![t] = c]
  /\ pc' = [pc EXCEPT ![t] = "lock"]
  /\ UNCHANGED <<result, got, ctx, registry, wire>>

(* With ctx->lock held, the unit id is read once for the whole transaction.*)
RequestLock(t) ==
  /\ pc[t] = "lock"
  /\ MutexLock(t, on[t])
  /\ req' = [req EXCEPT ![t].unit = unit_id[on[t]]]
  /\ pc' = [pc EXCEPT ![t] = "locked"]
  /\ UNCHANGED <<on, result, got, initialized, mutex, unit_id, baud_rate,
                 shared_bus, registry, wire, calls>>

Refused(t) == req[t].unit = BROADCAST /\ req[t].fc # "write"

RequestBroadcastRead(t) ==
  /\ pc[t] = "locked"
  /\ Refused(t)
  /\ MutexUnlock(t, on[t])
  /\ Return(t, "ERR_ARG")
  /\ UNCHANGED <<on, req, got, initialized, mutex, unit_id, baud_rate,
                 shared_bus, registry, wire, calls>>

Bus(t) == shared_bus[on[t]]
Dev(t) == realpath[Bus(t)]

(* bus_transaction_begin.  A context that has been disconnected meanwhile  *)
(* has no bus: the code dereferences NULL.                                 *)
BusLock(t) ==
  /\ pc[t] = "locked"
  /\ ~Refused(t)
  /\ IF Bus(t) = NoBus
       THEN UNCHANGED buses /\ pc' = [pc EXCEPT ![t] = "crashed"]
       ELSE /\ buses[Bus(t)].holder = NoThread
            /\ buses' = [buses EXCEPT ![Bus(t)].holder = t]
            /\ pc' = [pc EXCEPT ![t] = "silence"]
  /\ UNCHANGED <<call, ctx, shared_buses, wire, calls>>

effective_timing(configured, default_value) ==
  CASE configured = TIMING_DISABLED -> 0
    [] configured = 0               -> default_value
    [] OTHER                        -> configured

effective_inter_frame(c) ==
  effective_timing(InterFrame[c], T35[buses[shared_bus[c]].baud_rate])

effective_handoff_silence(c) == effective_timing(Handoff[c], DefaultHandoff)

(* The silence wait_bus_silence waits for.                                 *)
RequiredSilence(t) ==
  LET b     == buses[Bus(t)]
      inter == effective_inter_frame(on[t])
      hand  == effective_handoff_silence(on[t])
  IN  IF b.last_unit_id = NoUnit THEN 0
      ELSE IF b.last_unit_id # req[t].unit /\ hand > inter THEN hand
      ELSE inter

wait_bus_silence(t) ==
  /\ pc[t] = "silence"
  /\ quiet[Dev(t)] >= RequiredSilence(t)
  /\ pc' = [pc EXCEPT ![t] = "flush"]
  /\ UNCHANGED <<call, ctx, registry, wire, calls>>

mark_bus_transaction_done_never(b, unit) == b
mark_bus_transaction_done(b, unit) == [b EXCEPT !.last_unit_id = unit]

(* bus_transaction_end, and the release of ctx->lock that follows it.      *)
EndTransaction(t, code) ==
  /\ buses' = [buses EXCEPT ![Bus(t)] =
       [mark_bus_transaction_done(@, unit_id[on[t]]) EXCEPT !.holder = NoThread]]
  /\ quiet' = [quiet EXCEPT ![Dev(t)] = 0]
  /\ last' = [last EXCEPT ![Dev(t)] = [unit |-> unit_id[on[t]], open |-> TRUE]]
  /\ MutexUnlock(t, on[t])
  /\ Return(t, code)
  /\ UNCHANGED <<on, req, initialized, mutex, unit_id, baud_rate, shared_bus,
                 shared_buses, seq, calls>>

(* tcflush.  The transaction is numbered here: what arrives from now on    *)
(* arrives during it.                                                      *)
BeginTransaction(t) ==
  /\ pc[t] = "flush"
  /\ seq' = [seq EXCEPT ![Dev(t)] = @ + 1]
  /\ req' = [req EXCEPT ![t].seq = seq[Dev(t)] + 1]
  /\ pc' = [pc EXCEPT ![t] = "send"]
  /\ UNCHANGED <<on, result, got, ctx, registry, line, quiet, last, calls>>

FlushSkipped(t) == BeginTransaction(t) /\ UNCHANGED rx
Flush(t) == BeginTransaction(t) /\ rx' = [rx EXCEPT ![Dev(t)] = <<>>]

Broadcast(t) == req[t].unit = BROADCAST

(* The request is on the line; slaves do not answer a broadcast.           *)
Transmitted(t) ==
  IF Broadcast(t) THEN line
  ELSE [line EXCEPT ![Dev(t)] = @ \cup {[req |-> req[t], rest |-> FALSE]}]

FrameOf(r, kind, heard) ==
  [fc |-> r.fc, shape |-> r.shape, unit |-> r.unit, seq |-> r.seq,
   kind |-> kind, heard |-> heard]

(* send_frame, with the TX-enable hook around it.  The transceiver may     *)
(* return the bytes it sends, damaged if they collided.                    *)
Send(t) ==
  /\ pc[t] = "send"
  /\ line' = Transmitted(t)
  /\ IF LocalEcho
       THEN /\ \E kind \in {"echo", "garbled"} :
                 rx' = [rx EXCEPT ![Dev(t)] =
                          Append(@, FrameOf(req[t], kind, req[t].seq))]
            /\ pc' = [pc EXCEPT ![t] = "echo"]
       ELSE UNCHANGED rx /\ pc' = [pc EXCEPT ![t] = "sent"]
  /\ UNCHANGED <<call, ctx, registry, seq, quiet, last, calls>>

(* write or tcdrain fails; the frame may be out all the same.              *)
SendFailsHolding(t) ==
  /\ pc[t] = "send"
  /\ line' \in {line, Transmitted(t)}
  /\ MutexUnlock(t, on[t])
  /\ Return(t, "ERR_TRANSPORT")
  /\ UNCHANGED <<on, req, got, initialized, mutex, unit_id, baud_rate, shared_bus,
                 registry, seq, rx, quiet, last, calls>>

SendFails(t) ==
  /\ pc[t] = "send"
  /\ line' \in {line, Transmitted(t)}
  /\ EndTransaction(t, "ERR_TRANSPORT")
  /\ UNCHANGED <<got, rx>>

(* The echo is read and compared before anything else.                     *)
EchoReads(t) ==
  /\ pc[t] = "echo"
  /\ rx[Dev(t)] # <<>>
  /\ Head(rx[Dev(t)]).kind = "echo"
  /\ rx' = [rx EXCEPT ![Dev(t)] = Tail(@)]
  /\ pc' = [pc EXCEPT ![t] = "sent"]
  /\ UNCHANGED <<call, ctx, registry, seq, line, quiet, last, calls>>

EchoFails(t) ==
  /\ pc[t] = "echo"
  /\ EndTransaction(t, "ERR_TRANSPORT")
  /\ UNCHANGED <<got, line, rx>>

BroadcastDone(t) ==
  /\ pc[t] = "sent"
  /\ Broadcast(t)
  /\ EndTransaction(t, "OK")
  /\ UNCHANGED <<got, line, rx>>

(* What recv_response, io_err_to_client_err and mb_pdu_check_response make *)
(* of the frame f.  A garbled one can end in any of three errors, by what  *)
(* its bytes happen to say; no garbled frame has a matching CRC.           *)
ResponseCodesRaw(r, f) ==
  IF f.kind \in {"garbled", "echo"} THEN {"-10", "-11", "-2"}
  ELSE IF f.fc # r.fc THEN {"-10"}
  ELSE IF f.unit # r.unit THEN {"-12"}
  ELSE IF f.kind = "exception" THEN {"EXCEPTION"}
  ELSE IF f.shape # r.shape THEN {"ERR_FRAME"}
  ELSE {"OK"}

ResponseCodes(r, f) ==
  IF f.kind \in {"garbled", "echo"} THEN {"ERR_FRAME", "ERR_CRC", "ERR_TIMEOUT"}
  ELSE IF f.fc # r.fc THEN {"ERR_FRAME"}
  ELSE IF f.unit # r.unit THEN {"ERR_UNIT_ID"}
  ELSE IF f.kind = "exception" THEN {"EXCEPTION"}
  ELSE IF f.shape # r.shape THEN {"ERR_FRAME"}
  ELSE {"OK"}

(* A frame that is given up before its end may leave the rest of itself    *)
(* still to arrive.                                                        *)
GivenUp(r, f) == f.kind \in {"garbled", "echo"} \/ f.fc # r.fc

RestOf(f) ==
  [req |-> [fc |-> f.fc, shape |-> f.shape, unit |-> f.unit, seq |-> f.seq],
   rest |-> TRUE]

Receive(t) ==
  /\ pc[t] = "sent"
  /\ ~Broadcast(t)
  /\ rx[Dev(t)] # <<>>
  /\ LET f == Head(rx[Dev(t)])
     IN  /\ \E code \in ResponseCodes(req[t], f) : EndTransaction(t, code)
         /\ got' = [got EXCEPT ![t] = f]
         /\ \/ UNCHANGED line
            \/ /\ GivenUp(req[t], f)
               /\ line' = [line EXCEPT ![Dev(t)] = @ \cup {RestOf(f)}]
  /\ rx' = [rx EXCEPT ![Dev(t)] = Tail(@)]

(* The deadline passes, or the port fails.                                 *)
ReceiveFails(t) ==
  /\ pc[t] = "sent"
  /\ ~Broadcast(t)
  /\ \E code \in {"ERR_TIMEOUT", "ERR_TRANSPORT"} : EndTransaction(t, code)
  /\ UNCHANGED <<got, line, rx>>

(* The call returns to the application; its locals die.                    *)
Returned(t) ==
  /\ pc[t] = "return"
  /\ pc' = [pc EXCEPT ![t] = "idle"]
  /\ on' = [on EXCEPT ![t] = NoCtx]
  /\ req' = [req EXCEPT ![t] = NoRequest]
  /\ result' = [result EXCEPT ![t] = "none"]
  /\ got' = [got EXCEPT ![t] = NoFrame]
  /\ UNCHANGED <<ctx, registry, wire, calls>>

-----------------------------------------------------------------------------
(* The slaves, the line and time (external).  What arrives while the port  *)
(* is closed is lost.                                                      *)

IsOpen(d) == \E p \in shared_buses : realpath[p] = d

SlaveReplies(d) ==
  \E m \in line[d] :
    /\ line' = [line EXCEPT ![d] = @ \ {m}]
    /\ IF IsOpen(d)
         THEN \E kind \in IF m.rest THEN {"garbled"}
                          ELSE {"good", "exception", "garbled"} :
                rx' = [rx EXCEPT ![d] = Append(@, FrameOf(m.req, kind, seq[d]))]
         ELSE UNCHANGED rx
    /\ UNCHANGED <<pc, call, ctx, registry, seq, quiet, last, calls>>

Tick(d) ==
  /\ quiet[d] < MaxQuiet
  /\ quiet' = [quiet EXCEPT ![d] = @ + 1]
  /\ UNCHANGED <<pc, call, ctx, registry, seq, line, rx, last, calls>>

(* Every call has returned and the bound on calls is used up.              *)
Quiet ==
  /\ calls = MaxCalls /\ \A t \in Threads : Idle(t)
  /\ UNCHANGED vars

-----------------------------------------------------------------------------
Transact(t) ==
  \/ RequestLock(t) \/ RequestBroadcastRead(t) \/ BusLock(t)
  \/ wait_bus_silence(t) \/ Flush(t) \/ Send(t) \/ SendFails(t)
  \/ EchoReads(t) \/ EchoFails(t) \/ BroadcastDone(t)
  \/ Receive(t) \/ ReceiveFails(t) \/ Returned(t)

Disconnect(t) ==
  DisconnectLock(t) \/ DisconnectDetach(t) \/ DisconnectDestroy(t)

Next ==
  \/ \E t \in Threads, c \in Ctxs :
       \/ Connect(t, c) \/ ConnectFails(t, c) \/ DisconnectBegin(t, c)
       \/ SetUnitIdBegin(t, c) \/ RequestRefused(t, c) \/ RequestBegin(t, c)
  \/ \E t \in Threads : Disconnect(t) \/ SetUnitId(t) \/ Transact(t)
  \/ \E d \in Devices : SlaveReplies(d) \/ Tick(d)
  \/ Quiet

Spec == Init /\ [][Next]_vars

(* A thread inside a call keeps running, gets a mutex that is released,    *)
(* and its deadline arrives; time passes.  Slaves need not answer.         *)
Fairness ==
  /\ \A t \in Threads : WF_vars(Transact(t) \/ Disconnect(t) \/ SetUnitId(t))
  /\ \A d \in Devices : WF_vars(Tick(d))

FairSpec == Spec /\ Fairness

-----------------------------------------------------------------------------
RequestRecords ==
  [fc : {"read", "write", "none"}, shape : Nat, unit : Nat, seq : Nat]
Frames ==
  [fc : {"read", "write", "none"}, shape : Nat, unit : Nat, seq : Nat,
   kind : {"good", "exception", "garbled", "echo"}, heard : Nat]
BusRecords ==
  [baud_rate : Nat, refcnt : 0 .. Cardinality(Ctxs),
   holder : Threads \cup {NoThread}, last_unit_id : Units \cup {NoUnit}]
Results ==
  {"none", "OK", "EXCEPTION", "ERR_ARG", "ERR_NOT_CONNECTED", "ERR_TRANSPORT",
   "ERR_TIMEOUT", "ERR_FRAME", "ERR_UNIT_ID", "ERR_CRC"}

TypeOK ==
  /\ pc \in [Threads -> {"idle", "lock", "locked", "silence", "flush", "send",
                         "echo", "sent", "return", "dlock", "dlocked",
                         "destroy", "ulock", "crashed"}]
  /\ on \in [Threads -> Ctxs \cup {NoCtx}]
  /\ req \in [Threads -> RequestRecords]
  /\ result \in [Threads -> Results]
  /\ got \in [Threads -> Frames]
  /\ initialized \in [Ctxs -> BOOLEAN]
  /\ mutex \in [Ctxs -> {"none", "alive", "destroyed"}]
  /\ owner \in [Ctxs -> Threads \cup {NoThread}]
  /\ unit_id \in [Ctxs -> Units \cup {0}]
  /\ baud_rate \in [Ctxs -> Bauds \cup {0}]
  /\ shared_bus \in [Ctxs -> Paths \cup {NoBus}]
  /\ shared_buses \subseteq Paths
  /\ buses \in [Paths -> BusRecords]
  /\ seq \in [Devices -> Nat]
  /\ line \in [Devices -> SUBSET [req : RequestRecords, rest : BOOLEAN]]
  /\ rx \in [Devices -> Seq(Frames)]
  /\ quiet \in [Devices -> 0 .. MaxQuiet]
  /\ last \in [Devices -> [unit : Units \cup {NoUnit}, open : BOOLEAN]]
  /\ calls \in 0 .. MaxCalls

OnBus(t) == pc[t] \in {"silence", "flush", "send", "echo", "sent"}

(* The reference count is the number of attached contexts; a record is in  *)
(* the registry exactly as long as there is one, so neither can a port be  *)
(* closed that another context still uses, nor can one be leaked.          *)
RefcntExact ==
  \A p \in Paths :
    /\ buses[p].refcnt = Cardinality({c \in Ctxs : shared_bus[c] = p})
    /\ p \in shared_buses <=> buses[p].refcnt > 0

(* All contexts on a device use the serial settings its port was opened    *)
(* with, the defaults taken into account (bus_settings_match).             *)
SettingsShared ==
  \A c, e \in Ctxs :
    shared_bus[c] # NoBus /\ shared_bus[c] = shared_bus[e] =>
      effective_baud_rate(baud_rate[c]) = effective_baud_rate(baud_rate[e])

(* The silence the context is configured for, after the transaction that   *)
(* came before on the device: T3.5, and the handoff silence when that one  *)
(* addressed another unit.                                                 *)
SilentFor(t) ==
  /\ quiet[Dev(t)] >= effective_inter_frame(on[t])
  /\ last[Dev(t)].unit # req[t].unit =>
       quiet[Dev(t)] >= effective_handoff_silence(on[t])

(* Whoever is about to transmit has let that silence pass, as long as the  *)
(* port has stayed open since (wait_bus_silence under the bus mutex).  The *)
(* header, which measures it "from the end of the previous transaction on  *)
(* the path", does not make this exception; the bus record does, as it is  *)
(* freed with the last context.                                            *)
Silence ==
  \A t \in Threads :
    pc[t] \in {"flush", "send"} /\ last[Dev(t)].unit # NoUnit /\ last[Dev(t)].open
      => SilentFor(t)

(* A reply that is accepted arrived during this very transaction, from the *)
(* unit and for the function code it asked, and, for a success, with the   *)
(* shape it asked for.  So a late reply is mistaken for a later one's only *)
(* if it overtakes the flush and the two requests look the same.           *)
FreshReply ==
  \A t \in Threads :
    pc[t] = "return" /\ result[t] \in {"OK", "EXCEPTION"} /\ ~Broadcast(t) =>
      /\ got[t].heard = req[t].seq
      /\ got[t].unit = req[t].unit /\ got[t].fc = req[t].fc
      /\ result[t] = "OK" => got[t].shape = req[t].shape

(* modbus_rtu_client.h: disconnect waits for an in-flight request.  No     *)
(* thread uses a context's mutex after it is destroyed, nor its bus after  *)
(* it is detached.                                                         *)
ContextAlive ==
  \A t \in Threads :
    /\ pc[t] # "crashed"
    /\ pc[t] \in {"lock", "locked", "ulock", "dlock", "dlocked"} \/ OnBus(t) =>
         mutex[on[t]] = "alive" /\ shared_bus[on[t]] \in shared_buses

(* What a thread is to the abstract service, which has a channel for each  *)
(* serial device.                                                          *)
Place(t) ==
  CASE pc[t] \in {"lock", "locked"} -> "queue"
    [] OnBus(t)                     -> Dev(t)
    [] pc[t] \in {"return", "ulock", "dlock", "dlocked", "destroy"} -> "over"
    [] OTHER                        -> "out"

Service == INSTANCE SerialService
             WITH Callers <- Threads, Channels <- Devices,
                  place <- [t \in Threads |-> Place(t)]

(* modbus_rtu_client.h: transactions on one device are serialized across   *)
(* all contexts, by whatever path (a symlink, say) each names the device,  *)
(* and however they connect and disconnect meanwhile: whoever gets on the  *)
(* bus was queued for it and finds it free (shared_bus_attach, realpath    *)
(* keys, bus_transaction_begin).                                           *)
ServesInTurn == Service!Safety

(* The client implements the whole service: besides, every call comes back *)
(* through both mutexes, the silence and every error path (transact,       *)
(* bus_transaction_end).                                                   *)
ImplementsService == Service!Spec
=============================================================================
