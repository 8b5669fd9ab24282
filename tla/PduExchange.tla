----------------------------- MODULE PduExchange -----------------------------
(***************************************************************************)
(* One Modbus exchange through the PDU layer: a client function builds a   *)
(* request (or another vendor's client sends one), the server side         *)
(* dispatches it to the application's callbacks, and the client checks and *)
(* decodes the response (or another vendor's server's).  The transports    *)
(* are left out here: they carry PDUs unchanged or not at all.             *)
(***************************************************************************)
EXTENDS ModbusPdu

CONSTANTS
  Addresses,     \* start addresses used in requests
  Fields,        \* values of the 16-bit field after the address
  Lengths,       \* lengths of other vendors' PDUs
  Bytes,         \* values of one-byte fields of other vendors' PDUs
  ReturnCodes,   \* what callbacks return
  HandlerSets,   \* the callbacks an application may install
  DataOf(_, _)   \* DataOf(fc, n): data vectors of n registers or bits

Vector(fc, n) ==
  [0 .. n - 1 -> IF CallbackOf(fc) \in {"read_bits", "write_bits"} THEN U8 ELSE U16]

ASSUME AddressAssumption == Addresses \subseteq U16
ASSUME FieldAssumption   == Fields \subseteq U16
ASSUME LengthAssumption  == Lengths \subseteq 1 .. MAX_PDU_LENGTH
ASSUME ByteAssumption    == Bytes \subseteq U8
ASSUME CodeAssumption    == ReturnCodes \subseteq Int
ASSUME HandlerAssumption == HandlerSets \subseteq SUBSET Callbacks
ASSUME DataAssumption ==
  \A fc \in FunctionCodes : \A n \in Fields :
    n \in 1 .. MaxQuantity(fc) =>
      \A d \in DataOf(fc, n) : d \in Vector(fc, n)

VARIABLES
  phase,    \* "idle", "request", "response" or "done"
  origin,   \* who sent the request: this "library" or an "other" client
  served,   \* who answered it: this "library" or an "other" server
  data,     \* the data vector the caller of a write function gave
  req,      \* the request PDU
  resp,     \* the response PDU
  call,     \* the callback invocation the dispatch made
  rc,       \* what that callback returned
  supply,   \* what a read callback filled in
  result,   \* what the client function returned
  out       \* what it stored for its caller

vars == <<phase, origin, served, data, req, resp, call, rc, supply, result, out>>

NoPdu == [fc |-> 0, addr |-> 0, val |-> 0, bc |-> 0, bytes |-> NoBytes, len |-> 0]

Init ==
  /\ phase = "idle" /\ origin = "library" /\ served = "library"
  /\ data = NoBytes /\ req = NoPdu /\ resp = build_exception(0, 0)
  /\ call = NoCall /\ rc = 0 /\ supply = NoBytes
  /\ result = "none" /\ out = NoBytes

server == <<served, resp, call, rc, supply>>
client == <<result, out>>

(* read_registers, read_bits: the argument check and the request.          *)
ClientReads(fc, addr, qty) ==
  /\ phase = "idle"
  /\ fc \in ReadBits \cup ReadRegisters
  /\ IF qty = 0 \/ qty > MaxQuantity(fc)
       THEN phase' = "done" /\ result' = "ERR_ARG" /\ UNCHANGED req
       ELSE phase' = "request" /\ req' = build_read(fc, addr, qty) /\ UNCHANGED result
  /\ UNCHANGED <<origin, data, server, out>>

(* write_single_coil, write_single_register                                *)
ClientWritesSingle(fc, addr, value) ==
  /\ phase = "idle"
  /\ fc \in WriteSingle
  /\ phase' = "request"
  /\ req' = build_read(fc, addr,
              IF fc = WRITE_SINGLE_REGISTER THEN value
              ELSE IF value % 256 # 0 THEN COIL_ON ELSE COIL_OFF)
  /\ data' = [i \in {0} |-> IF fc = WRITE_SINGLE_REGISTER THEN value ELSE value % 256]
  /\ UNCHANGED <<origin, server, client>>

(* write_multiple_registers, write_multiple_coils                          *)
ClientWritesMultiple(fc, addr, qty) ==
  /\ phase = "idle"
  /\ fc \in WriteMultiple
  /\ \/ /\ qty = 0 \/ qty > MaxQuantity(fc)
        /\ phase' = "done" /\ result' = "ERR_ARG"
        /\ UNCHANGED <<req, data>>
     \/ /\ qty # 0 /\ qty <= MaxQuantity(fc)
        /\ data' \in DataOf(fc, qty)
        /\ phase' = "request"
        /\ req' = build_write_multiple(fc, addr, qty, data')
        /\ UNCHANGED result
  /\ UNCHANGED <<origin, server, out>>

(* Another client may send any PDU (external).                             *)
OtherRequest(fc, addr, val, bc, len) ==
  /\ phase = "idle"
  /\ phase' = "request" /\ origin' = "other"
  /\ req' = [fc |-> fc, addr |-> addr, val |-> val, bc |-> bc,
             bytes |-> [i \in 0 .. len - 7 |-> bc], len |-> len]
  /\ UNCHANGED <<data, server, client>>

(* The server dispatches the request to the application.                   *)
Dispatch(handlers, code) ==
  /\ phase = "request"
  /\ phase' = "response" /\ served' = "library"
  /\ rc' = code
  /\ IF req.fc \in ReadBits \cup ReadRegisters /\ ~BadQuantity(req) /\ code = 0
       THEN supply' \in DataOf(req.fc, req.val)
       ELSE supply' = NoBytes
  /\ LET outcome == handle_request(req, handlers, code, supply')
     IN  resp' = outcome.resp /\ call' = outcome.call
  /\ UNCHANGED <<origin, data, req, client>>

(* Another server may answer anything (external).                          *)
OtherResponse(fc, b1, addr, val, len) ==
  /\ phase = "request" /\ origin = "library"
  /\ phase' = "response" /\ served' = "other"
  /\ resp' = [fc |-> fc, b1 |-> b1, addr |-> addr, val |-> val,
              bytes |-> NoBytes, len |-> len]
  /\ UNCHANGED <<origin, data, req, call, rc, supply, client>>

(* The client checks the response and, after a good read, decodes it.      *)
Check ==
  /\ phase = "response" /\ origin = "library"
  /\ phase' = "done"
  /\ LET code == check_response(req, resp)
     IN  /\ result' = IF code = ERR_FRAME THEN "ERR_FRAME"
                      ELSE IF code = 0 THEN "OK" ELSE "EXCEPTION"
         /\ out' = IF /\ code = 0 /\ served = "library"
                      /\ req.fc \in ReadBits \cup ReadRegisters
                     THEN Decode(req.fc, resp.bytes, req.val) ELSE NoBytes
  /\ UNCHANGED <<origin, data, req, server>>

(* The exchange is over and the next one begins.                           *)
Again ==
  /\ phase = "done" \/ (phase = "response" /\ origin = "other")
  /\ phase' = "idle" /\ origin' = "library" /\ served' = "library"
  /\ data' = NoBytes /\ req' = NoPdu /\ resp' = build_exception(0, 0)
  /\ call' = NoCall /\ rc' = 0 /\ supply' = NoBytes
  /\ result' = "none" /\ out' = NoBytes

Next ==
  \/ \E fc \in FunctionCodes, addr \in Addresses, val \in Fields :
       \/ ClientReads(fc, addr, val)
       \/ ClientWritesSingle(fc, addr, val)
       \/ ClientWritesMultiple(fc, addr, val)
  \/ \E fc \in Bytes \cup FunctionCodes, addr \in Addresses, val \in Fields,
        bc \in Bytes, len \in Lengths : OtherRequest(fc, addr, val, bc, len)
  \/ \E handlers \in HandlerSets, code \in ReturnCodes : Dispatch(handlers, code)
  \/ \E fc \in {req.fc, WithException(req.fc), 255}, b1 \in Bytes,
        echo \in {<<req.addr, req.val>>, <<0, req.val>>, <<req.addr, 0>>},
        len \in Lengths : OtherResponse(fc, b1, echo[1], echo[2], len)
  \/ Check
  \/ Again

Spec == Init /\ [][Next]_vars

-----------------------------------------------------------------------------
(* What a reader of coils sees of the value a writer gave: 0 or 1.         *)
Normal(fc, v, n) ==
  IF CallbackOf(fc) \in {"read_bits", "write_bits"}
    THEN [i \in 0 .. n - 1 |-> IF v[i] # 0 THEN 1 ELSE 0] ELSE v

Quantity(r) == IF r.fc \in WriteSingle THEN 1 ELSE r.val

TypeOK ==
  /\ phase \in {"idle", "request", "response", "done"}
  /\ origin \in {"library", "other"} /\ served \in {"library", "other"}
  /\ req.fc \in U8 /\ req.addr \in U16 /\ req.val \in U16 /\ req.bc \in U8
  /\ req.len \in 0 .. MAX_PDU_LENGTH
  /\ resp.fc \in U8 /\ resp.b1 \in U8 /\ resp.len \in 0 .. MAX_PDU_LENGTH
  /\ rc \in Int
  /\ result \in {"none", "OK", "EXCEPTION", "ERR_FRAME", "ERR_ARG"}

(* A callback is only ever invoked for a non-empty range that lies inside  *)
(* the 16-bit address space and fits both the arrays of the dispatcher and *)
(* the limits of the protocol, whatever PDU a client sends.                *)
SafeCallback ==
  call.fn # "none" =>
    /\ call.fn = CallbackOf(req.fc) /\ req.fc \in FunctionCodes
    /\ call.qty \in 1 .. MaxQuantity(req.fc)
    /\ call.addr + call.qty <= AddressSpace

(* Client and server of this library agree: the client reports success     *)
(* exactly when the callback ran and succeeded, on the range the caller    *)
(* asked for, and otherwise an exception, never a malformed frame.         *)
Agreement ==
  phase = "done" /\ served = "library" /\ result # "ERR_ARG" =>
    /\ result \in {"OK", "EXCEPTION"}
    /\ result = "OK" <=> (call.fn # "none" /\ rc = 0)
    /\ call.fn # "none" => call.addr = req.addr /\ call.qty = Quantity(req)

(* Data survives the packing into bytes and the unpacking: what the write  *)
(* callback receives is what the caller wrote, and what the caller of a    *)
(* read function gets is what the read callback supplied.                  *)
DataIntact ==
  phase = "done" /\ served = "library" /\ result = "OK" =>
    IF req.fc \in ReadBits \cup ReadRegisters
      THEN out = Normal(req.fc, supply, req.val)
      ELSE call.data = Normal(req.fc, data, Quantity(req))

(* Every response fits a PDU, and its one-byte count field is exact: the   *)
(* truncation to uint8_t never bites.                                      *)
ResponseExact ==
  phase = "response" /\ served = "library" =>
    /\ resp.len \in 2 .. MAX_PDU_LENGTH
    /\ resp.fc \in ReadBits \cup ReadRegisters => resp.b1 = resp.len - 2

(* Whatever another server answers, a read that succeeds has received as   *)
(* many data bytes as mb_pdu_get_registers and mb_pdu_get_bits will read,  *)
(* and a write that succeeds was echoed exactly.                           *)
SuccessIsExact ==
  phase = "done" /\ result = "OK" =>
    /\ resp.fc = req.fc
    /\ IF req.fc \in ReadBits \cup ReadRegisters
         THEN resp.len - 2 = DataBytes(req.fc, req.val)
         ELSE resp.addr = req.addr /\ resp.val = req.val
=============================================================================
