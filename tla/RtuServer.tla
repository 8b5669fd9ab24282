------------------------------ MODULE RtuServer ------------------------------
(***************************************************************************)
(* The Modbus RTU server: the frame handler of modbus_rtu_server.c as the  *)
(* on_process callback of the thread of modbus_rtu.c, the application that *)
(* starts and stops it, and the serial line.                               *)
(*                                                                         *)
(* The line is modelled byte by byte, with real CRCs: a multi-drop bus     *)
(* carries the master's requests to every slave and the other slaves'      *)
(* replies, and nothing but their bytes tells them apart.  What goes over  *)
(* the line, when, and how it is damaged is external.  Bytes in the        *)
(* kernel's buffer and bytes still on the wire are one sequence, of which  *)
(* a read gets any prefix.                                                 *)
(*                                                                         *)
(* Time is counted in ticks of TickUs microseconds.  A tick is longer than *)
(* a frame and than the thread's 1 ms poll interval: at most one tick      *)
(* passes while a frame arrives, and a thread that waits has polled before *)
(* the next.                                                               *)
(*                                                                         *)
(* The callbacks' requests are compared with what the master sent since    *)
(* the server last had nothing in its buffers (sent, executed).            *)
(*                                                                         *)
(* Beside some definitions stands a faulty form of them that no            *)
(* specification uses: the form a mistake in the code would have, on which *)
(* the properties are seen to fail.                                        *)
(***************************************************************************)
EXTENDS ModbusFrames

CONSTANTS
  Requests,       \* request frames the master sends (byte sequences)
  OtherData,      \* registers in another slave's reply to a read
  Configs,        \* [unit_id, local_echo] the application starts the server with
  ReadSizes,      \* how many bytes a read may get, when not all there are
  RxCap,          \* size of rx_buffer and adu (MODBUS_RTU_MAX_ADU_LENGTH)
  ReturnCodes,    \* what the callbacks return
  InterFrameUs,   \* cfg.inter_frame_delay_us
  BaudRate,       \* cfg.baud_rate, with 8 data bits, 1 stop bit, no parity
  TickUs,         \* microseconds in a tick
  Timeout,        \* recv_timeout_ms in ticks
  NoiseBytes,     \* what a damaged byte may read as
  NoiseAt,        \* positions in a frame at which a byte may be damaged
  Slow,           \* may a callback or a write take longer than a tick?
  Impatient,      \* may others send while this server is busy, on a line on
                  \* which its transmissions come back?
  MaxFrames,      \* bound: requests the master sends
  MaxNoise,       \* bound: bytes damaged or lost on the line
  MaxStarts       \* bound: times the application starts the server

UNIT_ID_ANY == 255   \* MB_RTU_SERVER_UNIT_ID_ANY
Never == -1          \* a time stamp of 0 in the code

ASSUME RequestAssumption ==
  \A f \in Requests : f \in Seq(U8) /\ Len(f) >= RTU_MIN_REQ_LENGTH
ASSUME ConfigAssumption  ==
  Configs # {} /\ Configs \subseteq [unit_id : U8, local_echo : BOOLEAN]
ASSUME DataAssumption    == OtherData \in Seq(U16)
ASSUME CapAssumption     ==
  RxCap \in Nat /\ RxCap >= RTU_MIN_REQ_LENGTH /\ ReadSizes \subseteq Nat
ASSUME CodeAssumption    == ReturnCodes \subseteq Int
ASSUME TimingAssumption  ==
  /\ InterFrameUs \in Nat \cup {TIMING_OFF} /\ BaudRate \in Nat
  /\ TickUs \in Nat \ {0} /\ Timeout \in Nat
ASSUME NoiseAssumption   == NoiseBytes \subseteq U8 /\ NoiseAt \subseteq Nat
ASSUME BoundsAssumption  ==
  /\ Slow \in BOOLEAN /\ Impatient \in BOOLEAN
  /\ MaxFrames \in Nat /\ MaxNoise \in Nat /\ MaxStarts \in Nat

VARIABLES
  \* the application and the transport
  app,           \* "idle", "starting" or "stopping"
  initialized,   \* transport.initialized
  keep_running,  \* transport.keep_running
  serial_fd,     \* "open" or "closed"
  link,          \* what on_link reported last: up or not
  cfg,           \* the configuration of this start
  \* the server thread
  thread,        \* where it is
  rx_buffer,     \* the first rx_len bytes of ctx->rx_buffer
  last_rx,       \* ticks since ctx->last_rx_us, or Never
  adu,           \* the request being handled
  request_end,   \* ticks since request_end_us, or Never
  resp,          \* the response to send, then what is left of its echo
  \* the line
  input,         \* bytes on their way to the server: in the kernel or on the wire
  ticked,        \* has a tick passed since the last frame began?
  asked,         \* the request another slave may still answer
  frames,        \* requests sent (for the bound)
  noise,         \* bytes damaged (for the bound)
  starts,        \* starts (for the bound)
  \* what the properties compare
  sent,          \* requests the master sent
  executed,      \* requests that reached the callbacks
  disturbed,     \* has a byte been damaged, lost, or left on the line?
  undrained      \* was a reply left on the line because its drain failed?

lifecycle == <<app, initialized, keep_running, serial_fd, link, cfg, starts>>
server    == <<thread, rx_buffer, last_rx, adu, request_end, resp>>
line      == <<input, ticked, asked, frames, noise>>
history   == <<sent, executed, disturbed, undrained>>
vars      == <<lifecycle, server, line, history>>

Init ==
  /\ app = "idle" /\ initialized = FALSE /\ keep_running = FALSE
  /\ serial_fd = "closed" /\ link = FALSE
  /\ cfg = CHOOSE c \in Configs : TRUE
  /\ thread = "none" /\ rx_buffer = <<>> /\ last_rx = Never
  /\ adu = <<>> /\ request_end = Never /\ resp = <<>>
  /\ input = <<>> /\ ticked = FALSE /\ asked = <<>>
  /\ frames = 0 /\ noise = 0 /\ starts = 0
  /\ sent = <<>> /\ executed = <<>> /\ disturbed = FALSE /\ undrained = FALSE

unit_id_matches(unit_id) ==
  \/ unit_id = BROADCAST_ADDRESS
  \/ cfg.unit_id = UNIT_ID_ANY
  \/ unit_id = cfg.unit_id

is_write(fc) == fc \in WriteSingle \cup WriteMultiple

IsBroadcast(f) == f[1] = BROADCAST_ADDRESS

(* The requests this server executes.                                      *)
ForUs(f) == unit_id_matches(f[1]) /\ (IsBroadcast(f) => is_write(f[2]))

-----------------------------------------------------------------------------
(* Finding a request in the buffer.                                        *)

Drop(s, n) == SubSeq(s, n + 1, Len(s))

FRAME_ERROR == -10

get_complete_request_len_unchecked(b) ==
  IF Len(b) < 2 THEN 0
  ELSE IF b[2] \in WriteMultiple
  THEN IF Len(b) <= 6 \/ Len(b) < 9 + b[7] THEN 0 ELSE 9 + b[7]
  ELSE IF Len(b) < RTU_MIN_REQ_LENGTH THEN 0 ELSE RTU_MIN_REQ_LENGTH

(* The length of the request at the beginning of b, 0 if more bytes are    *)
(* needed to tell or to complete it.                                       *)
get_complete_request_len(b) ==
  CASE Len(b) < 2 -> 0
    [] Len(b) >= 2 /\ b[2] \in WriteMultiple ->
         CASE Len(b) <= 6                  -> 0
           [] Len(b) > 6 /\ (b[7] = 0 \/ 9 + b[7] > RxCap) -> FRAME_ERROR
           [] OTHER -> IF Len(b) < 9 + b[7] THEN 0 ELSE 9 + b[7]
    [] OTHER -> IF RxCap < RTU_MIN_REQ_LENGTH THEN FRAME_ERROR
                ELSE IF Len(b) < RTU_MIN_REQ_LENGTH THEN 0
                ELSE RTU_MIN_REQ_LENGTH

(* Bytes are dropped one by one until a request whose CRC is right, or the *)
(* beginning of what may become one, stands at the front of the buffer.    *)
(* The frame is <<>> when there is none yet.                               *)
extract_request_frame_whole(b) ==
  LET n == get_complete_request_len(b)
  IN  CASE n > 0 /\ validate_crc(SubSeq(b, 1, n)) ->
             [frame |-> SubSeq(b, 1, n), rest |-> Drop(b, n)]
        [] n > 0 /\ ~validate_crc(SubSeq(b, 1, n)) -> [frame |-> <<>>, rest |-> Drop(b, n)]
        [] n = 0 -> [frame |-> <<>>, rest |-> b]
        [] OTHER -> [frame |-> <<>>, rest |-> Drop(b, 1)]

(* Nothing can be said of the bytes yet, or they begin with a request.     *)
LoopEnds[b \in Seq(U8)] ==
  LET n == get_complete_request_len(b)
  IN  n = 0 \/ (n > 0 /\ validate_crc(SubSeq(b, 1, n)))

extract_request_frame(b) ==
  LET at[left \in Seq(U8)] ==
        LET n == get_complete_request_len(left)
        IN  [frame |-> SubSeq(left, 1, n), rest |-> Drop(left, n)]
  IN  at[Drop(b, CHOOSE k \in 0 .. Len(b) :
                   /\ LoopEnds[Drop(b, k)]
                   /\ \A j \in 0 .. k - 1 : ~LoopEnds[Drop(b, j)])]

(* The thread has nothing to do but wait for bytes.                        *)
Parsed ==
  get_complete_request_len(rx_buffer) = 0 /\ last_rx <= Timeout

Settled == thread = "top" /\ input = <<>> /\ Parsed

-----------------------------------------------------------------------------
(* Handling a request: the PDU layer between two frames.                   *)

PduOf(f) ==
  LET len == Len(f) - 1 - RTU_CRC_LEN
  IN  [fc |-> f[2], addr |-> GetU16(f, 3), val |-> GetU16(f, 5),
       bc |-> IF len > 5 THEN f[7] ELSE 0,
       bytes |-> [i \in 0 .. len - 7 |-> f[i + 8]], len |-> len]

PduBytes(r) ==
  CASE r.fc >= 128 -> <<r.fc, r.b1>>
    [] r.fc \in ReadBits \cup ReadRegisters ->
         <<r.fc, r.b1>> \o [i \in 1 .. r.len - 2 |-> r.bytes[i - 1]]
    [] OTHER -> <<r.fc>> \o U16Bytes(r.addr) \o U16Bytes(r.val)

Response(f, rc) ==
  LET req    == PduOf(f)
      supply == [i \in 0 .. req.val - 1 |-> 1]
      answer == handle_request(req, Callbacks, rc, supply).resp
  IN  append_crc(<<f[1]>> \o PduBytes(answer), RTU_MAX_ADU_LENGTH)

SilenceTicks ==
  (effective_timing(InterFrameUs, t35_us(BaudRate, 8, 1, "none")) + TickUs - 1)
    \div TickUs

(* A byte on the line is damaged, or lost (external).                      *)
NoiseHits ==
  /\ thread # "none" /\ noise < MaxNoise
  /\ noise' = noise + 1 /\ disturbed' = TRUE

-----------------------------------------------------------------------------
(* The server thread: mb_rtu_thread and server_on_process.                 *)

(* on_process up to the handling of a request: the assembly timeout, the   *)
(* bytes that have arrived, as many as fit, and the next request.          *)
TimedOutNever == FALSE
TimedOut == rx_buffer # <<>> /\ last_rx > Timeout

Kept == IF TimedOut THEN <<>> ELSE rx_buffer

Room == RxCap - Len(Kept)

Poll(n) ==
  /\ thread = "top" /\ keep_running
  /\ n \in ReadSizes \cup {0, Len(input), Room}
  /\ n <= Len(input) /\ n <= Room
  /\ \E found \in {extract_request_frame(Kept \o SubSeq(input, 1, n))} :
     LET age   == CASE n > 0                -> 0
                    [] n = 0 /\ Kept = <<>> -> Never
                    [] OTHER                -> last_rx
         ours  == found.frame # <<>> /\ ForUs(found.frame)
     IN  /\ input' = Drop(input, n)
         /\ rx_buffer' = found.rest
         /\ last_rx' = IF found.rest = <<>> THEN Never ELSE age
         /\ adu' = IF ours THEN found.frame ELSE <<>>
         /\ request_end' = IF ours THEN age ELSE Never
         /\ thread' = IF ours THEN "handle" ELSE "top"
  /\ UNCHANGED <<lifecycle, resp, ticked, asked, frames, noise, history>>

(* read() fails: on_process returns -1 and the thread just goes on.        *)
PollFails ==
  /\ thread = "top" /\ keep_running
  /\ rx_buffer' = Kept
  /\ last_rx' = IF TimedOut THEN Never ELSE last_rx
  /\ UNCHANGED <<lifecycle, thread, adu, request_end, resp, line, history>>

(* The callback runs; a broadcast is not answered.                         *)
Handle ==
  /\ thread = "handle"
  /\ executed' = Append(executed, adu)
  /\ \E rc \in ReturnCodes :
       resp' = IF IsBroadcast(adu) THEN <<>> ELSE Response(adu, rc)
  /\ thread' = IF IsBroadcast(adu) THEN "top" ELSE "silence"
  /\ adu' = <<>>
  /\ request_end' = IF IsBroadcast(adu) THEN Never ELSE request_end
  /\ UNCHANGED <<lifecycle, rx_buffer, last_rx, line, sent, disturbed, undrained>>

wait_response_silence ==
  /\ thread = "silence" /\ request_end >= SilenceTicks
  /\ thread' = "send" /\ request_end' = Never
  /\ UNCHANGED <<lifecycle, rx_buffer, last_rx, adu, resp, line, history>>

SendFrameKeepsEcho ==
  /\ thread = "send"
  /\ thread' = "top" /\ resp' = <<>>
  /\ input' = IF cfg.local_echo THEN input \o resp ELSE input
  /\ UNCHANGED <<lifecycle, rx_buffer, last_rx, adu, request_end, ticked,
                 asked, frames, noise, history>>

(* send_frame, to the end of tcdrain.  With local echo the bytes come back *)
(* and are discarded next; one of them may get lost.  Neither the wait for *)
(* the port in write_all nor tcdrain has a timeout: a port that takes no   *)
(* bytes holds the thread here, also when it is to stop.                   *)
SendFrame ==
  /\ thread = "send"
  /\ IF cfg.local_echo
       THEN /\ thread' = "echo" /\ UNCHANGED resp
            /\ \/ input' = input \o resp /\ UNCHANGED <<noise, disturbed>>
               \/ NoiseHits /\ input' = input \o Tail(resp)
       ELSE thread' = "top" /\ resp' = <<>> /\ UNCHANGED <<input, noise, disturbed>>
  /\ UNCHANGED <<lifecycle, rx_buffer, last_rx, adu, request_end, ticked,
                 asked, frames, sent, executed, undrained>>

(* write() fails, or all is written and tcdrain() fails (a signal will do).*)
(* Then the echo is not discarded.                                         *)
SendFails ==
  /\ thread = "send"
  /\ thread' = "top" /\ resp' = <<>>
  /\ \/ UNCHANGED <<input, noise, disturbed, undrained>>
     \/ cfg.local_echo /\ NoiseHits /\ undrained' = TRUE /\ input' = input \o resp
  /\ UNCHANGED <<lifecycle, rx_buffer, last_rx, adu, request_end, ticked,
                 asked, frames, sent, executed>>

(* discard_echo: as many bytes as were sent, whatever they are.            *)
EchoReads ==
  /\ thread = "echo" /\ input # <<>>
  /\ LET n == IF Len(input) < Len(resp) THEN Len(input) ELSE Len(resp)
     IN  /\ input' = Drop(input, n)
         /\ resp' = Drop(resp, n)
         /\ thread' = IF n = Len(resp) THEN "top" ELSE "echo"
  /\ UNCHANGED <<lifecycle, rx_buffer, last_rx, adu, request_end, ticked,
                 asked, frames, noise, history>>

EchoWaits ==
  /\ thread = "echo" /\ input = <<>>
  /\ UNCHANGED vars

EchoTimesOut ==
  /\ thread = "echo" /\ input = <<>>
  /\ thread' = "top" /\ resp' = <<>>
  /\ UNCHANGED <<lifecycle, rx_buffer, last_rx, adu, request_end, line, history>>

ThreadExits ==
  /\ thread = "top" /\ ~keep_running
  /\ thread' = "exit"
  /\ UNCHANGED <<lifecycle, rx_buffer, last_rx, adu, request_end, resp, line, history>>

-----------------------------------------------------------------------------
(* The application: mb_rtu_server_start and mb_rtu_server_stop.            *)

(* The context is cleared, the port opened and flushed, the thread made:   *)
(* it runs before the link is reported and before the call returns.        *)
Start ==
  /\ app = "idle" /\ ~initialized /\ starts < MaxStarts
  /\ app' = "starting" /\ starts' = starts + 1
  /\ cfg' \in Configs
  /\ keep_running' = TRUE /\ serial_fd' = "open" /\ thread' = "top"
  /\ rx_buffer' = <<>> /\ last_rx' = Never
  /\ \E n \in ReadSizes \cup {0, Len(input)} : input' = Drop(input, n)
  /\ executed' = <<>> /\ disturbed' = (sent # <<>>)
  /\ UNCHANGED <<initialized, link, adu, request_end, resp, ticked, asked,
                 frames, noise, sent, undrained>>

StartLinks ==
  /\ app = "starting"
  /\ app' = "idle" /\ initialized' = TRUE /\ link' = TRUE
  /\ UNCHANGED <<keep_running, serial_fd, cfg, starts, server, line, history>>

(* The port cannot be opened, or the thread not created.                   *)
StartFails ==
  /\ app = "idle" /\ ~initialized /\ starts < MaxStarts
  /\ starts' = starts + 1
  /\ cfg' \in Configs
  /\ keep_running' = FALSE /\ rx_buffer' = <<>> /\ last_rx' = Never
  /\ executed' = <<>>
  /\ UNCHANGED <<app, initialized, serial_fd, link, thread, adu, request_end,
                 resp, line, sent, disturbed, undrained>>

StopFlag ==
  /\ app = "idle" /\ initialized
  /\ app' = "stopping" /\ keep_running' = FALSE
  /\ UNCHANGED <<initialized, serial_fd, link, cfg, starts, server, line, history>>

StopJoin ==
  /\ app = "stopping" /\ thread = "exit"
  /\ thread' = "none"
  /\ link' = FALSE /\ serial_fd' = "closed"
  /\ app' = "idle" /\ initialized' = FALSE
  /\ UNCHANGED <<keep_running, cfg, starts, rx_buffer, last_rx, adu, request_end,
                 resp, line, history>>

-----------------------------------------------------------------------------
(* The line (external).                                                    *)

(* Of what passes while the port is closed one frame is enough: the port   *)
(* may be opened in the middle of it.                                      *)
LineFree ==
  IF thread = "none" THEN input = <<>> ELSE Impatient \/ ~cfg.local_echo \/ Settled

(* With nothing in its buffers the server remembers nothing of before.     *)
Forgotten == thread = "none" \/ (Settled /\ rx_buffer = <<>>)

(* A frame in which a byte is lost, or reads as noise.                     *)
Damaged(f) ==
  LET at == NoiseAt \cap 1 .. Len(f)
  IN  {SubSeq(f, 1, i - 1) \o Drop(f, i) : i \in at}
        \cup {[f EXCEPT ![i] = b] : i \in at, b \in NoiseBytes}

OnTheWire(f) == input' = input \o f /\ ticked' = (ticked /\ input # <<>>)

MasterSends(f) ==
  /\ LineFree /\ frames < MaxFrames
  /\ frames' = frames + 1
  /\ asked' = IF unit_id_matches(f[1]) THEN <<>> ELSE f
  /\ sent' = IF Forgotten THEN <<f>> ELSE Append(sent, f)
  /\ executed' = IF Forgotten THEN <<>> ELSE executed
  /\ undrained' = (undrained /\ ~Forgotten)
  /\ \/ /\ OnTheWire(f)
        /\ disturbed' = (disturbed /\ ~Forgotten)
        /\ UNCHANGED noise
     \/ NoiseHits /\ \E g \in Damaged(f) : OnTheWire(g)
  /\ UNCHANGED <<lifecycle, server>>

OtherReply(f) ==
  IF f[2] \in ReadRegisters
    THEN rtu_build_read_registers_response(f[2], f[1], OtherData, RTU_MAX_ADU_LENGTH)
    ELSE Response(f, 0)

SlaveReplies ==
  /\ LineFree /\ asked # <<>>
  /\ asked' = <<>>
  /\ \/ OnTheWire(OtherReply(asked)) /\ UNCHANGED <<noise, disturbed>>
     \/ NoiseHits /\ \E g \in Damaged(OtherReply(asked)) : OnTheWire(g)
  /\ UNCHANGED <<lifecycle, server, frames, sent, executed, undrained>>

Older(age, limit) == IF age = Never \/ age > limit THEN age ELSE age + 1

Tick ==
  /\ last_rx \in 0 .. Timeout \/ request_end \in 0 .. SilenceTicks - 1
  /\ thread = "top" => Parsed
  /\ thread = "silence" => request_end < SilenceTicks
  /\ thread \in {"handle", "send", "echo"} => Slow
  /\ thread = "top" /\ input # <<>> => ~ticked
  /\ ticked' = TRUE
  /\ last_rx' = Older(last_rx, Timeout)
  /\ request_end' = Older(request_end, SilenceTicks - 1)
  /\ UNCHANGED <<lifecycle, thread, rx_buffer, adu, resp, input, asked,
                 frames, noise, history>>

(* Nothing more happens on the line, and the server is stopped for good.   *)
Halted ==
  /\ ~initialized /\ app = "idle" /\ starts = MaxStarts
  /\ UNCHANGED vars

-----------------------------------------------------------------------------
Thread ==
  \/ (\E n \in 0 .. Len(input) : Poll(n)) \/ Handle \/ wait_response_silence \/ SendFrame \/ SendFails
  \/ EchoReads \/ EchoTimesOut \/ ThreadExits

Next ==
  \/ Thread \/ PollFails
  \/ Start \/ StartLinks \/ StartFails \/ StopFlag \/ StopJoin
  \/ (\E f \in Requests : MasterSends(f)) \/ SlaveReplies
  \/ Tick
  \/ Halted

Spec == Init /\ [][Next]_vars

(* The thread keeps running, except that the port may hold it in a write   *)
(* for as long as it likes; time passes; a call in progress goes on.       *)
Fairness ==
  /\ WF_vars(Thread /\ thread # "send") /\ WF_vars(Tick)
  /\ WF_vars(StartLinks \/ StopJoin)

FairSpec == Spec /\ Fairness

-----------------------------------------------------------------------------
TypeOK ==
  /\ app \in {"idle", "starting", "stopping"}
  /\ initialized \in BOOLEAN /\ keep_running \in BOOLEAN
  /\ serial_fd \in {"open", "closed"} /\ link \in BOOLEAN
  /\ cfg \in Configs
  /\ thread \in {"none", "top", "handle", "silence", "send", "echo", "exit"}
  /\ rx_buffer \in Seq(U8) /\ Len(rx_buffer) <= RxCap
  /\ last_rx \in {Never} \cup 0 .. Timeout + 1
  /\ adu \in Seq(U8) /\ (adu # <<>>) = (thread = "handle")
  /\ resp \in Seq(U8) /\ (resp # <<>>) = (thread \in {"silence", "send", "echo"})
  /\ request_end \in {Never} \cup Nat
  /\ input \in Seq(U8) /\ ticked \in BOOLEAN
  /\ asked \in Requests \cup {<<>>}
  /\ frames \in 0 .. MaxFrames /\ noise \in 0 .. MaxNoise /\ starts \in 0 .. MaxStarts
  /\ sent \in Seq(Requests) /\ executed \in Seq(Seq(U8))
  /\ disturbed \in BOOLEAN /\ undrained \in BOOLEAN

(* g lies whole among the bytes of f.                                      *)
Within(g, f) ==
  \E k \in 0 .. Len(f) - Len(g) : SubSeq(f, k + 1, k + Len(g)) = g

(* The requests of b are found, in order, in the exchanges that the        *)
(* requests of a began, b[i] in that of a[at[i]]: it is that request, or   *)
(* lies in another slave's reply to it.  A request of a for this server is *)
(* found at most once.                                                     *)
Traced(at, b, a) ==
  /\ \A i \in 1 .. Len(b) :
       /\ ForUs(b[i])
       /\ \/ b[i] = a[at[i]]
          \/ ~unit_id_matches(a[at[i]][1]) /\ Within(b[i], OtherReply(a[at[i]]))
  /\ \A i, j \in 1 .. Len(b) : i < j =>
       at[i] < at[j] \/ (at[i] = at[j] /\ ~ForUs(a[at[i]]))

(* What reaches the callbacks is what the master sent to this server, in   *)
(* its order and at most as often: no request is put together from pieces  *)
(* of several frames, or taken from the echo of the server's own reply     *)
(* (extract_request_frame, unit_id_matches, discard_echo).  There are two  *)
(* exceptions.  Another slave's reply whose data happen to spell a whole   *)
(* request for this server: extract_request_frame comes upon it as it      *)
(* skips the reply byte by byte, and it is executed.  And a reply of the   *)
(* server's own whose drain failed: its echo may be executed, although     *)
(* modbus_rtu_server.h says the echo of each response is discarded.        *)
Authentic ==
  undrained \/ \E at \in [1 .. Len(executed) -> 1 .. Len(sent)] :
                 Traced(at, executed, sent)

(* modbus_rtu_server.h: bytes are skipped until a valid request is found.  *)
(* When the server has dealt with all that arrived, and nothing was        *)
(* damaged since its buffer was last empty, it has executed every request  *)
(* it was sent, once and in order: the search costs no request.  This is   *)
(* so only on lines whose other traffic does not mislead the rule for the  *)
(* length of a request, with callbacks that are not Slow, and with others  *)
(* that are not Impatient.                                                 *)
NothingMissed ==
  Settled /\ ~disturbed =>
    \E at \in [1 .. Len(executed) -> 1 .. Len(sent)] :
      /\ Traced(at, executed, sent)
      /\ \A j \in 1 .. Len(sent) :
           ForUs(sent[j]) => \E i \in 1 .. Len(executed) : at[i] = j

(* A full buffer always yields a request or loses a byte: the server never *)
(* waits for the rest of a frame that it has no room for.                  *)
NeverWedged == Len(rx_buffer) = RxCap => get_complete_request_len(rx_buffer) # 0

(* No write takes for ever.                                                *)
PortTakesBytes == []<>(thread # "send")

(* What is left of a frame that never completes is dropped in the end: the *)
(* buffer does not stay behind to spoil later requests.                    *)
BufferDrains ==
  PortTakesBytes =>
    (thread = "top" /\ rx_buffer # <<>> ~> rx_buffer = <<>> \/ thread = "none")

(* mb_rtu_stop returns, wherever the thread is when it is called, unless   *)
(* the port holds the thread in a write for ever.                          *)
StopReturns == PortTakesBytes => (app = "stopping" ~> app = "idle")
=============================================================================
