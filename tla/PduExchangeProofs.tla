-------------------------- MODULE PduExchangeProofs --------------------------
(***************************************************************************)
(* Proofs about the PDU layer for every address, quantity, length, return  *)
(* code and set of callbacks: what TLC checks on the boundary values.      *)
(***************************************************************************)
EXTENDS PduExchange, TLAPS

(* The fields of a request the dispatcher looks at, as the wire types them. *)
ReqFields(r) ==
  r.fc \in U8 /\ r.addr \in U16 /\ r.val \in U16 /\ r.bc \in U8 /\ r.len \in Nat

(* What every outcome of a dispatch satisfies: the callback's range, and   *)
(* the agreement between the callback and the response.                    *)
GoodCall(r, o) ==
  o.call.fn # "none" =>
    /\ o.call.fn = CallbackOf(r.fc) /\ r.fc \in FunctionCodes
    /\ o.call.qty \in 1 .. MaxQuantity(r.fc)
    /\ o.call.addr + o.call.qty <= AddressSpace
    /\ o.call.addr = r.addr /\ o.call.qty = Quantity(r)

IsException(r, p) ==
  p.fc = WithException(r.fc) /\ p.len = 2 /\ p.b1 \in 1 .. 255

IsSuccess(r, p) ==
  /\ p.fc = r.fc
  /\ IF r.fc \in ReadBits \cup ReadRegisters
       THEN p.len = 2 + DataBytes(r.fc, r.val) /\ p.b1 = p.len - 2 /\ p.len <= MAX_PDU_LENGTH
       ELSE p.len = 5 /\ p.addr = r.addr /\ p.val = r.val /\ p.b1 \in U8

GoodResponse(r, c, o) ==
  IF o.call.fn # "none" /\ c = 0 THEN IsSuccess(r, o.resp)
                                 ELSE IsException(r, o.resp)

(* The high byte of a 16-bit field is a byte.                              *)
LEMMA HighByte == ASSUME NEW x \in U16 PROVE x \div 256 \in U8
<1>1. x \in Nat /\ x <= 65535
  BY SMT DEF U16
<1>2. x \div 256 \in Int /\ 256 * (x \div 256) <= x
  BY <1>1
<1>3. x < 256 * (x \div 256) + 256
  BY <1>1
<1>4. ASSUME NEW q \in Int, x < 256 * q + 256, 256 * q <= x PROVE q \in 0 .. 255
  BY <1>1, <1>4
<1> QED
  BY <1>2, <1>3, <1>4 DEF U8

(* A 16-bit address is inside the address space.                           *)
LEMMA InSpace ==
  ASSUME NEW x \in U16 PROVE x \in Nat /\ x + 1 <= AddressSpace
  BY SMT DEF U16, AddressSpace

(* The two values a coil is written with are 16-bit values.                *)
LEMMA CoilValues == COIL_ON \in U16 /\ COIL_OFF \in U16
  BY DEF COIL_ON, COIL_OFF, U16

(* A quantity that was not refused, at an address that does not overflow.  *)
LEMMA AcceptedRange ==
  ASSUME NEW a \in U16, NEW q \in U16, NEW m \in Nat,
         ~(q = 0 \/ q > m), ~range_overflows(a, q)
  PROVE  q \in 1 .. m /\ a + q <= AddressSpace
<1>1. a \in Nat /\ q \in Nat /\ AddressSpace \in Nat
  BY InSpace DEF AddressSpace
<1> QED
  BY <1>1 DEF range_overflows

(* The names of the callbacks, and the limits, of the function codes.      *)
LEMMA CodeFacts ==
  ASSUME NEW fc \in FunctionCodes
  PROVE  /\ CallbackOf(fc) \in Callbacks /\ CallbackOf(fc) # "none"
         /\ MaxQuantity(fc) \in 1 .. 2000 /\ fc \in 1 .. 16
         /\ \A n \in 1 .. MaxQuantity(fc) : DataBytes(fc, n) \in 1 .. 250
  BY DEF FunctionCodes, ReadBits, ReadRegisters, WriteSingle, WriteMultiple,
    READ_COILS, READ_DISCRETE_INPUTS, READ_HOLDING_REGISTERS,
    READ_INPUT_REGISTERS, WRITE_SINGLE_COIL, WRITE_SINGLE_REGISTER,
    WRITE_MULTIPLE_COILS, WRITE_MULTIPLE_REGISTERS, CallbackOf, Callbacks,
    MaxQuantity, MAX_READ_BITS, MAX_READ_REGISTERS, MAX_WRITE_BITS,
    MAX_WRITE_REGISTERS, DataBytes, bit_byte_count

(* Every limit is a number.                                                *)
LEMMA MaxQuantityNat == ASSUME NEW fc PROVE MaxQuantity(fc) \in Nat
  BY DEF MaxQuantity, MAX_READ_BITS, MAX_READ_REGISTERS, MAX_WRITE_BITS,
    MAX_WRITE_REGISTERS

(* An exception response is two bytes with a nonzero code.                 *)
LEMMA RefuseOutcome ==
  ASSUME NEW r, ReqFields(r), NEW k \in 1 .. 4, NEW c
  PROVE  GoodCall(r, Refuse(r, k)) /\ GoodResponse(r, c, Refuse(r, k))
  BY DEF ReqFields, Refuse, GoodCall, GoodResponse, NoCall, build_exception,
    IsException

(* An invocation of the callback in range gives a good outcome.            *)
LEMMA InvokeOutcome ==
  ASSUME NEW r, ReqFields(r), r.fc \in FunctionCodes, NEW c, NEW d, NEW p,
         NEW q, q = Quantity(r), q \in 1 .. MaxQuantity(r.fc),
         r.addr + q <= AddressSpace, IsSuccess(r, p)
  PROVE  LET o == Invoke(r, q, d, c, p)
         IN  GoodCall(r, o) /\ GoodResponse(r, c, o)
<1> DEFINE o == Invoke(r, q, d, c, p)
<1>1. o.call = [fn |-> CallbackOf(r.fc), addr |-> r.addr, qty |-> q, data |-> d]
  BY DEF Invoke
<1>2. GoodCall(r, o)
  BY <1>1 DEF GoodCall
<1>3. CASE c = 0
  <2>1. o.resp = p
    BY <1>3 DEF Invoke
  <2>2. o.call.fn # "none"
    BY <1>1, CodeFacts
  <2> QED
    BY <1>2, <1>3, <2>1, <2>2 DEF GoodResponse
<1>4. CASE c # 0
  <2>1. exception_from_callback_rc(c) \in 1 .. 255
    BY DEF exception_from_callback_rc, SERVER_DEVICE_FAILURE
  <2>2. o.resp = build_exception(r.fc, exception_from_callback_rc(c))
    BY <1>4 DEF Invoke
  <2> QED
    BY <1>2, <1>4, <2>1, <2>2 DEF GoodResponse, IsException, build_exception
<1> QED
  BY <1>2, <1>3, <1>4

(* Whatever the request, the callbacks installed, what they return and     *)
(* what they supply, the dispatch is safe and its response fits it.        *)
LEMMA DispatchOutcome ==
  ASSUME NEW r, ReqFields(r), NEW h, NEW c, NEW s
  PROVE  LET o == handle_request(r, h, c, s)
         IN  GoodCall(r, o) /\ GoodResponse(r, c, o)
<1> DEFINE o == handle_request(r, h, c, s)
<1>1. ASSUME NEW k \in 1 .. 4, o = Refuse(r, k)
      PROVE  GoodCall(r, o) /\ GoodResponse(r, c, o)
  BY <1>1, RefuseOutcome
<1>2. CASE r.fc \notin FunctionCodes
  BY <1>1, <1>2 DEF handle_request, ILLEGAL_FUNCTION
<1>3. CASE r.fc \in FunctionCodes /\ (r.len < 5 \/ CallbackOf(r.fc) \notin h)
  BY <1>1, <1>3 DEF handle_request, ILLEGAL_FUNCTION, ILLEGAL_DATA_VALUE
<1>4. CASE /\ r.fc \in FunctionCodes /\ ~(r.len < 5) /\ CallbackOf(r.fc) \in h
           /\ r.fc \in ReadBits \cup ReadRegisters
  <2> DEFINE p == build_read_response(r.fc, r.val, s)
  <2>1. o = handle_read(r, c, s)
    BY <1>4 DEF handle_request, FunctionCodes, ReadBits, ReadRegisters, WriteSingle,
      WriteMultiple, READ_COILS, READ_DISCRETE_INPUTS, READ_HOLDING_REGISTERS,
      READ_INPUT_REGISTERS, WRITE_SINGLE_COIL, WRITE_SINGLE_REGISTER,
      WRITE_MULTIPLE_COILS, WRITE_MULTIPLE_REGISTERS
  <2>2. CASE BadQuantity(r) \/ range_overflows(r.addr, r.val)
    BY <1>1, <2>1, <2>2 DEF handle_read, ILLEGAL_DATA_VALUE, ILLEGAL_DATA_ADDRESS
  <2>3. CASE ~BadQuantity(r) /\ ~range_overflows(r.addr, r.val)
    <3>1. r.val \in 1 .. MaxQuantity(r.fc) /\ r.addr + r.val <= AddressSpace
      <4>1. MaxQuantity(r.fc) \in Nat
        BY MaxQuantityNat
      <4>2. r.addr \in U16 /\ r.val \in U16
        BY DEF ReqFields
      <4>3. ~(r.val = 0 \/ r.val > MaxQuantity(r.fc))
        BY <2>3 DEF BadQuantity
      <4> QED
        BY <2>3, <4>1, <4>2, <4>3, AcceptedRange
    <3>2. DataBytes(r.fc, r.val) \in 1 .. 250
      BY <1>4, <3>1, CodeFacts
    <3>3. IsSuccess(r, p)
      BY <1>4, <3>2 DEF IsSuccess, build_read_response, MAX_PDU_LENGTH
    <3>4. r.val = Quantity(r)
      BY <1>4 DEF Quantity, FunctionCodes, ReadBits, ReadRegisters, WriteSingle,
      WriteMultiple, READ_COILS, READ_DISCRETE_INPUTS, READ_HOLDING_REGISTERS,
      READ_INPUT_REGISTERS, WRITE_SINGLE_COIL, WRITE_SINGLE_REGISTER,
      WRITE_MULTIPLE_COILS, WRITE_MULTIPLE_REGISTERS
    <3>5. o = Invoke(r, r.val, NoBytes, c, p)
      BY <2>1, <2>3 DEF handle_read
    <3> QED
      BY <1>4, <3>1, <3>3, <3>4, <3>5, InvokeOutcome
  <2> QED
    BY <2>2, <2>3
<1>5. CASE /\ r.fc \in FunctionCodes /\ ~(r.len < 5) /\ CallbackOf(r.fc) \in h
           /\ r.fc \in WriteSingle
  <2> DEFINE p == build_write_echo(r)
  <2>1. o = handle_write_single(r, c)
    BY <1>5 DEF handle_request, FunctionCodes, ReadBits, ReadRegisters, WriteSingle,
      WriteMultiple, READ_COILS, READ_DISCRETE_INPUTS, READ_HOLDING_REGISTERS,
      READ_INPUT_REGISTERS, WRITE_SINGLE_COIL, WRITE_SINGLE_REGISTER,
      WRITE_MULTIPLE_COILS, WRITE_MULTIPLE_REGISTERS
  <2>2. CASE r.fc = WRITE_SINGLE_COIL /\ r.val \notin {COIL_ON, COIL_OFF}
    BY <1>1, <2>1, <2>2 DEF handle_write_single, ILLEGAL_DATA_VALUE
  <2>3. CASE ~(r.fc = WRITE_SINGLE_COIL /\ r.val \notin {COIL_ON, COIL_OFF})
    <3>1. PICK d : o = Invoke(r, 1, d, c, p)
      BY <2>1, <2>3 DEF handle_write_single
    <3>2. IsSuccess(r, p)
      BY <1>5, HighByte DEF IsSuccess, build_write_echo, ReqFields, FunctionCodes, ReadBits, ReadRegisters, WriteSingle,
      WriteMultiple, READ_COILS, READ_DISCRETE_INPUTS, READ_HOLDING_REGISTERS,
      READ_INPUT_REGISTERS, WRITE_SINGLE_COIL, WRITE_SINGLE_REGISTER,
      WRITE_MULTIPLE_COILS, WRITE_MULTIPLE_REGISTERS
    <3>3. 1 = Quantity(r) /\ 1 \in 1 .. MaxQuantity(r.fc)
      <4>1. MaxQuantity(r.fc) \in 1 .. 2000
        BY <1>5, CodeFacts
      <4> QED
        BY <1>5, <4>1, SMT DEF Quantity
    <3>4. r.addr + 1 <= AddressSpace
      BY InSpace DEF ReqFields
    <3> QED
      BY <1>5, <3>1, <3>2, <3>3, <3>4, InvokeOutcome
  <2> QED
    BY <2>2, <2>3
<1>6. CASE /\ r.fc \in FunctionCodes /\ ~(r.len < 5) /\ CallbackOf(r.fc) \in h
           /\ r.fc \in WriteMultiple
  <2> DEFINE p   == build_write_echo(r)
             bad == \/ r.len <= 5 \/ BadQuantity(r)
                    \/ r.bc # DataBytes(r.fc, r.val) % 256
                    \/ r.len # 6 + DataBytes(r.fc, r.val)
  <2>1. o = handle_write_multiple(r, c)
    BY <1>6 DEF handle_request, FunctionCodes, ReadBits, ReadRegisters, WriteSingle,
      WriteMultiple, READ_COILS, READ_DISCRETE_INPUTS, READ_HOLDING_REGISTERS,
      READ_INPUT_REGISTERS, WRITE_SINGLE_COIL, WRITE_SINGLE_REGISTER,
      WRITE_MULTIPLE_COILS, WRITE_MULTIPLE_REGISTERS
  <2>2. CASE bad \/ range_overflows(r.addr, r.val)
    BY <1>1, <2>1, <2>2 DEF handle_write_multiple, ILLEGAL_DATA_VALUE,
      ILLEGAL_DATA_ADDRESS
  <2>3. CASE ~bad /\ ~range_overflows(r.addr, r.val)
    <3>1. r.val \in 1 .. MaxQuantity(r.fc) /\ r.addr + r.val <= AddressSpace
      <4>1. MaxQuantity(r.fc) \in Nat
        BY MaxQuantityNat
      <4>2. r.addr \in U16 /\ r.val \in U16
        BY DEF ReqFields
      <4>3. ~(r.val = 0 \/ r.val > MaxQuantity(r.fc))
        BY <2>3 DEF BadQuantity
      <4> QED
        BY <2>3, <4>1, <4>2, <4>3, AcceptedRange
    <3>2. IsSuccess(r, p)
      BY <1>6, HighByte DEF IsSuccess, build_write_echo, ReqFields, FunctionCodes, ReadBits, ReadRegisters, WriteSingle,
      WriteMultiple, READ_COILS, READ_DISCRETE_INPUTS, READ_HOLDING_REGISTERS,
      READ_INPUT_REGISTERS, WRITE_SINGLE_COIL, WRITE_SINGLE_REGISTER,
      WRITE_MULTIPLE_COILS, WRITE_MULTIPLE_REGISTERS
    <3>3. r.val = Quantity(r)
      BY <1>6 DEF Quantity, FunctionCodes, ReadBits, ReadRegisters, WriteSingle,
      WriteMultiple, READ_COILS, READ_DISCRETE_INPUTS, READ_HOLDING_REGISTERS,
      READ_INPUT_REGISTERS, WRITE_SINGLE_COIL, WRITE_SINGLE_REGISTER,
      WRITE_MULTIPLE_COILS, WRITE_MULTIPLE_REGISTERS
    <3>4. o = Invoke(r, r.val, Decode(r.fc, r.bytes, r.val), c, p)
      BY <2>1, <2>3 DEF handle_write_multiple
    <3> QED
      BY <1>6, <3>1, <3>2, <3>3, <3>4, InvokeOutcome
  <2> QED
    BY <2>2, <2>3
<1> QED
  BY <1>2, <1>3, <1>4, <1>5, <1>6 DEF FunctionCodes

(* The client's check accepts exactly what the dispatch built as success,  *)
(* and reads an exception code out of an exception.                        *)
LEMMA CheckOutcome ==
  ASSUME NEW r, r.fc \in FunctionCodes, NEW p, p.len \in Nat
  PROVE  /\ IsSuccess(r, p) /\ DataBytes(r.fc, r.val) \in 1 .. 250 =>
              check_response(r, p) = 0
         /\ IsSuccess(r, p) /\ r.fc \in WriteSingle \cup WriteMultiple =>
              check_response(r, p) = 0
         /\ IsException(r, p) => check_response(r, p) = p.b1 /\ p.b1 \in 1 .. 255
         /\ check_response(r, p) = 0 =>
              /\ p.fc = r.fc
              /\ r.fc \in ReadBits \cup ReadRegisters =>
                   p.len = 2 + DataBytes(r.fc, r.val)
              /\ r.fc \in WriteSingle \cup WriteMultiple =>
                   p.addr = r.addr /\ p.val = r.val
<1>1. r.fc \in 1 .. 16 /\ WithException(r.fc) # r.fc
  BY CodeFacts DEF WithException
<1>2. \/ r.fc \in ReadBits \cup ReadRegisters
      \/ r.fc \in WriteSingle \cup WriteMultiple
  BY DEF FunctionCodes
<1>3. ~(/\ r.fc \in ReadBits \cup ReadRegisters
        /\ r.fc \in WriteSingle \cup WriteMultiple)
  BY DEF ReadBits, ReadRegisters, WriteSingle, WriteMultiple, READ_COILS,
    READ_DISCRETE_INPUTS, READ_HOLDING_REGISTERS, READ_INPUT_REGISTERS,
    WRITE_SINGLE_COIL, WRITE_SINGLE_REGISTER, WRITE_MULTIPLE_COILS,
    WRITE_MULTIPLE_REGISTERS
<1>4. ASSUME IsSuccess(r, p), DataBytes(r.fc, r.val) \in 1 .. 250
      PROVE  check_response(r, p) = 0
  BY <1>1, <1>2, <1>3, <1>4 DEF IsSuccess, check_response
<1>5. ASSUME IsSuccess(r, p), r.fc \in WriteSingle \cup WriteMultiple
      PROVE  check_response(r, p) = 0
  BY <1>1, <1>3, <1>5 DEF IsSuccess, check_response
<1>6. ASSUME IsException(r, p)
      PROVE  check_response(r, p) = p.b1 /\ p.b1 \in 1 .. 255
  BY <1>1, <1>6 DEF IsException, check_response
<1>7. ASSUME check_response(r, p) = 0
      PROVE  /\ p.fc = r.fc
             /\ r.fc \in ReadBits \cup ReadRegisters =>
                  p.len = 2 + DataBytes(r.fc, r.val)
             /\ r.fc \in WriteSingle \cup WriteMultiple =>
                  p.addr = r.addr /\ p.val = r.val
  <2>1. CASE p.len < 1 \/ p.fc = WithException(r.fc)
    BY <1>7, <2>1 DEF check_response, ERR_FRAME
  <2>2. CASE ~(p.len < 1) /\ p.fc # WithException(r.fc)
    BY <1>7, <2>2 DEF check_response, ERR_FRAME
  <2> QED
    BY <2>1, <2>2
<1> QED
  BY <1>4, <1>5, <1>6, <1>7

-----------------------------------------------------------------------------
(* The inductive invariant of an exchange.                                 *)

Outcome == [resp |-> resp, call |-> call]

Verdict(code) ==
  IF code = ERR_FRAME THEN "ERR_FRAME" ELSE IF code = 0 THEN "OK" ELSE "EXCEPTION"

(* Requests of this library pass the client's own argument check.          *)
ClientRequest ==
  /\ req.fc \in FunctionCodes
  /\ req.fc \in ReadBits \cup ReadRegisters => req.val \in 1 .. MaxQuantity(req.fc)

ExchangeInv ==
  /\ phase \in {"idle", "request", "response", "done"}
  /\ served \in {"library", "other"}
  /\ ReqFields(req) /\ resp.len \in Nat
  /\ phase \in {"idle", "request"} => call = NoCall
  /\ phase # "done" => result = "none"
  /\ phase \in {"request", "response"} /\ origin = "library" => ClientRequest
  /\ phase = "done" => result = "ERR_ARG" \/ ClientRequest
  /\ phase \in {"response", "done"} /\ served = "library" /\ result # "ERR_ARG" =>
       GoodCall(req, Outcome) /\ GoodResponse(req, rc, Outcome)
  /\ served = "other" \/ result = "ERR_ARG" => call = NoCall
  /\ phase = "done" /\ result # "ERR_ARG" =>
       result = Verdict(check_response(req, resp))

(* The absent request is well typed ...                                    *)
LEMMA NoPduFields == ReqFields(NoPdu)
<1>1. 0 \in U8 /\ 0 \in U16 /\ 0 \in Nat
  BY SMT DEF U8, U16
<1> QED
  BY <1>1 DEF ReqFields, NoPdu

(* ... and so are the requests built by the client.                        *)
LEMMA BuildFields ==
  ASSUME NEW fc \in FunctionCodes, NEW a \in U16, NEW v \in U16, NEW d
  PROVE  /\ ReqFields(build_read(fc, a, v))
         /\ v \in 1 .. MaxQuantity(fc) => ReqFields(build_write_multiple(fc, a, v, d))
<1>1. fc \in U8 /\ 0 \in U8 /\ 5 \in Nat
  <2>1. fc \in 1 .. 16
    BY CodeFacts
  <2> QED
    BY <2>1 DEF U8
<1>2. ReqFields(build_read(fc, a, v))
  BY <1>1 DEF ReqFields, build_read
<1>3. ASSUME v \in 1 .. MaxQuantity(fc)
      PROVE  ReqFields(build_write_multiple(fc, a, v, d))
  <2>1. DataBytes(fc, v) \in 1 .. 250
    BY <1>3, CodeFacts
  <2>2. DataBytes(fc, v) % 256 \in U8 /\ 6 + DataBytes(fc, v) \in Nat
    BY <2>1 DEF U8
  <2> QED
    BY <1>1, <2>2 DEF ReqFields, build_write_multiple
<1> QED
  BY <1>2, <1>3

(* The exchange starts in the invariant ...                                *)
LEMMA ExchangeInit == Init => ExchangeInv
<1> SUFFICES ASSUME Init PROVE ExchangeInv
  OBVIOUS
<1>1. ReqFields(req)
  BY NoPduFields DEF Init
<1>2. resp.len \in Nat
  BY DEF Init, build_exception
<1> QED
  BY <1>1, <1>2 DEF Init, ExchangeInv

(* ... and every step keeps it.                                            *)
LEMMA ExchangeStep == ExchangeInv /\ [Next]_vars => ExchangeInv'
<1> SUFFICES ASSUME ExchangeInv, [Next]_vars PROVE ExchangeInv'
  OBVIOUS
<1> USE AddressAssumption, FieldAssumption, LengthAssumption, ByteAssumption
<1>1. ASSUME NEW fc \in FunctionCodes, NEW addr \in Addresses, NEW val \in Fields,
             ClientReads(fc, addr, val)
      PROVE  ExchangeInv'
  <2>1. addr \in U16 /\ val \in U16 /\ val \in Nat /\ MaxQuantity(fc) \in Nat
    BY InSpace, MaxQuantityNat
  <2>2. CASE val = 0 \/ val > MaxQuantity(fc)
    BY <1>1, <2>2 DEF ClientReads, ExchangeInv, server
  <2>3. CASE ~(val = 0 \/ val > MaxQuantity(fc))
    <3>1. phase' = "request" /\ req' = build_read(fc, addr, val) /\ result' = result
      BY <1>1, <2>3 DEF ClientReads
    <3>2. req'.fc = fc /\ req'.val = val
      BY <3>1 DEF build_read
    <3>3. ReqFields(req')
      BY <2>1, <3>1, BuildFields
    <3>4. ClientRequest'
      BY <2>1, <2>3, <3>2 DEF ClientRequest
    <3> QED
      BY <1>1, <3>1, <3>3, <3>4 DEF ClientReads, ExchangeInv, server
  <2> QED
    BY <2>2, <2>3
<1>2. ASSUME NEW fc \in FunctionCodes, NEW addr \in Addresses, NEW val \in Fields,
             ClientWritesSingle(fc, addr, val)
      PROVE  ExchangeInv'
  <2>1. PICK v \in U16 : req' = build_read(fc, addr, v)
    <3>1. COIL_ON \in U16 /\ COIL_OFF \in U16
      BY CoilValues
    <3>2. val \in U16
      OBVIOUS
    <3> QED
      BY <1>2, <3>1, <3>2 DEF ClientWritesSingle
  <2>2. req'.fc = fc /\ ReqFields(req')
    BY <2>1, BuildFields DEF build_read
  <2>3. fc \notin ReadBits \cup ReadRegisters
    BY <1>2 DEF ClientWritesSingle, ReadBits, ReadRegisters, WriteSingle,
      WriteMultiple, READ_COILS, READ_DISCRETE_INPUTS, READ_HOLDING_REGISTERS,
      READ_INPUT_REGISTERS, WRITE_SINGLE_COIL, WRITE_SINGLE_REGISTER,
      WRITE_MULTIPLE_COILS, WRITE_MULTIPLE_REGISTERS
  <2>4. ClientRequest'
    BY <2>2, <2>3 DEF ClientRequest
  <2> QED
    BY <1>2, <2>2, <2>4 DEF ClientWritesSingle, ExchangeInv, server, client
<1>3. ASSUME NEW fc \in FunctionCodes, NEW addr \in Addresses, NEW val \in Fields,
             ClientWritesMultiple(fc, addr, val)
      PROVE  ExchangeInv'
  <2>1. addr \in U16 /\ val \in U16 /\ val \in Nat /\ MaxQuantity(fc) \in Nat
    BY InSpace, MaxQuantityNat
  <2>2. CASE val = 0 \/ val > MaxQuantity(fc)
    BY <1>3, <2>1, <2>2 DEF ClientWritesMultiple, ExchangeInv, server
  <2>3. CASE ~(val = 0 \/ val > MaxQuantity(fc))
    <3>1. /\ phase' = "request" /\ result' = result
          /\ req' = build_write_multiple(fc, addr, val, data')
      BY <1>3, <2>3 DEF ClientWritesMultiple
    <3>2. req'.fc = fc
      BY <3>1 DEF build_write_multiple
    <3>3. val \in 1 .. MaxQuantity(fc)
      BY <2>1, <2>3
    <3>4. ReqFields(req')
      BY <2>1, <3>1, <3>3, BuildFields
    <3>5. fc \notin ReadBits \cup ReadRegisters
      BY <1>3 DEF ClientWritesMultiple, ReadBits, ReadRegisters, WriteSingle,
      WriteMultiple, READ_COILS, READ_DISCRETE_INPUTS, READ_HOLDING_REGISTERS,
      READ_INPUT_REGISTERS, WRITE_SINGLE_COIL, WRITE_SINGLE_REGISTER,
      WRITE_MULTIPLE_COILS, WRITE_MULTIPLE_REGISTERS
    <3>6. ClientRequest'
      BY <3>2, <3>5 DEF ClientRequest
    <3> QED
      BY <1>3, <3>1, <3>4, <3>6 DEF ClientWritesMultiple, ExchangeInv, server
  <2> QED
    BY <2>2, <2>3
<1>4. ASSUME NEW fc \in Bytes \cup FunctionCodes, NEW addr \in Addresses,
             NEW val \in Fields, NEW bc \in Bytes, NEW len \in Lengths,
             OtherRequest(fc, addr, val, bc, len)
      PROVE  ExchangeInv'
  <2>1. fc \in U8 /\ addr \in U16 /\ val \in U16 /\ bc \in U8 /\ len \in Nat
    BY CodeFacts DEF U8, MAX_PDU_LENGTH
  <2>2. ReqFields(req')
    BY <1>4, <2>1 DEF OtherRequest, ReqFields
  <2> QED
    BY <1>4, <2>2 DEF OtherRequest, ExchangeInv, server, client
<1>5. ASSUME NEW handlers \in HandlerSets, NEW code \in ReturnCodes,
             Dispatch(handlers, code)
      PROVE  ExchangeInv'
  <2> DEFINE o == handle_request(req, handlers, code, supply')
  <2>1. resp' = o.resp /\ call' = o.call /\ rc' = code
    BY <1>5 DEF Dispatch
  <2>2. GoodCall(req, o) /\ GoodResponse(req, code, o)
    BY DispatchOutcome DEF ExchangeInv
  <2> HIDE DEF o
  <2>3. Outcome'.call = o.call /\ Outcome'.resp = o.resp
    BY <2>1 DEF Outcome
  <2>4. GoodCall(req, Outcome') /\ GoodResponse(req, code, Outcome')
    BY <2>2, <2>3 DEF GoodCall, GoodResponse
  <2>5. resp'.len \in Nat
    <3>1. req.fc \in FunctionCodes /\ o.call.fn # "none" => req.val \in Nat
      BY InSpace DEF ExchangeInv, ReqFields
    <3>2. IsSuccess(req, o.resp) => o.resp.len \in Nat
      <4>1. req.val \in Nat
        BY InSpace DEF ExchangeInv, ReqFields
      <4>2. DataBytes(req.fc, req.val) \in Nat
        BY <4>1 DEF DataBytes, bit_byte_count
      <4> QED
        BY <4>2 DEF IsSuccess
    <3> QED
      BY <2>1, <2>2, <3>2 DEF GoodResponse, IsException
  <2> QED
    BY <1>5, <2>1, <2>4, <2>5 DEF Dispatch, ExchangeInv, ClientRequest, client
<1>6. ASSUME NEW fc, NEW b1 \in Bytes, NEW a, NEW v, NEW len \in Lengths,
             OtherResponse(fc, b1, a, v, len)
      PROVE  ExchangeInv'
  <2>1. len \in Nat
    BY DEF MAX_PDU_LENGTH
  <2>2. resp'.len \in Nat
    BY <1>6, <2>1 DEF OtherResponse
  <2> QED
    BY <1>6, <2>2 DEF OtherResponse, ExchangeInv, ClientRequest, client
<1>7. CASE Check
  <2>1. result' = Verdict(check_response(req, resp))
    BY <1>7 DEF Check, Verdict
  <2>2. result' # "ERR_ARG"
    BY <2>1 DEF Verdict
  <2>3. /\ phase = "response" /\ phase' = "done" /\ ClientRequest
        /\ UNCHANGED <<origin, req, served, resp, call, rc>>
    BY <1>7 DEF Check, ExchangeInv, server
  <2>4. Outcome' = Outcome /\ ClientRequest'
    BY <2>3 DEF Outcome, ClientRequest
  <2>5. result # "ERR_ARG"
    BY <2>3 DEF ExchangeInv
  <2>6. served = "library" => GoodCall(req, Outcome) /\ GoodResponse(req, rc, Outcome)
    BY <2>3, <2>5 DEF ExchangeInv
  <2> QED
    BY <2>1, <2>2, <2>3, <2>4, <2>6 DEF ExchangeInv
<1>8. CASE Again
  <2>1. ReqFields(req')
    BY <1>8, NoPduFields DEF Again
  <2>2. resp'.len \in Nat
    BY <1>8 DEF Again, build_exception
  <2> QED
    BY <1>8, <2>1, <2>2 DEF Again, ExchangeInv
<1>9. CASE UNCHANGED vars
  BY <1>9 DEF vars, ExchangeInv, ClientRequest, Outcome
<1> QED
  BY <1>1, <1>2, <1>3, <1>4, <1>5, <1>6, <1>7, <1>8, <1>9 DEF Next

-----------------------------------------------------------------------------
(* The invariant holds throughout.                                         *)
THEOREM ExchangeInvariance == Spec => []ExchangeInv
  BY ExchangeInit, ExchangeStep, PTL DEF Spec

(* No PDU a client can send makes the dispatcher call the application with *)
(* an empty, oversized or overflowing range.                               *)
THEOREM CallbacksAreSafe == Spec => []SafeCallback
<1>1. ExchangeInv => SafeCallback
  <2> SUFFICES ASSUME ExchangeInv, call.fn # "none" PROVE SafeCallback
    BY DEF SafeCallback
  <2>1. call # NoCall
    BY DEF NoCall
  <2>2. phase \in {"response", "done"} /\ served # "other" /\ result # "ERR_ARG"
    BY <2>1 DEF ExchangeInv
  <2>3. GoodCall(req, Outcome) /\ Outcome.call = call
    BY <2>2 DEF ExchangeInv, Outcome
  <2> QED
    BY <2>3 DEF GoodCall, SafeCallback
<1> QED
  BY <1>1, ExchangeInvariance, PTL

(* The client's verdict on the library's own response.                     *)
LEMMA VerdictOfDispatch ==
  ASSUME ExchangeInv, phase = "done", served = "library", result # "ERR_ARG"
  PROVE  result = IF call.fn # "none" /\ rc = 0 THEN "OK" ELSE "EXCEPTION"
<1>1. /\ ClientRequest /\ resp.len \in Nat
      /\ GoodCall(req, Outcome) /\ GoodResponse(req, rc, Outcome)
      /\ result = Verdict(check_response(req, resp))
  BY DEF ExchangeInv
<1>2. Outcome.call = call /\ Outcome.resp = resp /\ req.fc \in FunctionCodes
  BY <1>1 DEF Outcome, ClientRequest
<1>3. CASE call.fn # "none" /\ rc = 0
  <2>1. IsSuccess(req, resp)
    BY <1>1, <1>2, <1>3 DEF GoodResponse
  <2>2. \/ DataBytes(req.fc, req.val) \in 1 .. 250
        \/ req.fc \in WriteSingle \cup WriteMultiple
    BY <1>1, CodeFacts DEF ClientRequest, FunctionCodes
  <2>3. check_response(req, resp) = 0
    <3>1. CASE DataBytes(req.fc, req.val) \in 1 .. 250
      BY <1>1, <1>2, <2>1, <3>1, CheckOutcome
    <3>2. CASE req.fc \in WriteSingle \cup WriteMultiple
      BY <1>1, <1>2, <2>1, <3>2, CheckOutcome
    <3> QED
      BY <2>2, <3>1, <3>2
  <2> QED
    BY <1>1, <1>3, <2>3 DEF Verdict, ERR_FRAME
<1>4. CASE ~(call.fn # "none" /\ rc = 0)
  <2>1. IsException(req, resp)
    BY <1>1, <1>2, <1>4 DEF GoodResponse
  <2>2. check_response(req, resp) \in 1 .. 255
    BY <1>1, <1>2, <2>1, CheckOutcome
  <2> QED
    BY <1>1, <1>4, <2>2 DEF Verdict, ERR_FRAME
<1> QED
  BY <1>3, <1>4

(* Client and server of this library agree on what was executed.           *)
THEOREM ClientAndServerAgree == Spec => []Agreement
<1>1. ExchangeInv => Agreement
  <2> SUFFICES ASSUME ExchangeInv, phase = "done", served = "library",
                      result # "ERR_ARG"
               PROVE  /\ result \in {"OK", "EXCEPTION"}
                      /\ result = "OK" <=> (call.fn # "none" /\ rc = 0)
                      /\ call.fn # "none" =>
                           call.addr = req.addr /\ call.qty = Quantity(req)
    BY DEF Agreement
  <2>1. GoodCall(req, Outcome) /\ Outcome.call = call
    BY DEF ExchangeInv, Outcome
  <2>2. result = IF call.fn # "none" /\ rc = 0 THEN "OK" ELSE "EXCEPTION"
    BY VerdictOfDispatch
  <2>3. call.fn # "none" => call.addr = req.addr /\ call.qty = Quantity(req)
    BY <2>1 DEF GoodCall
  <2> QED
    BY <2>2, <2>3
<1> QED
  BY <1>1, ExchangeInvariance, PTL

(* A success was checked against the request, whoever answered.            *)
THEOREM SuccessesAreExact == Spec => []SuccessIsExact
<1>1. ExchangeInv => SuccessIsExact
  <2> SUFFICES ASSUME ExchangeInv, phase = "done", result = "OK"
               PROVE  /\ resp.fc = req.fc
                      /\ IF req.fc \in ReadBits \cup ReadRegisters
                           THEN resp.len - 2 = DataBytes(req.fc, req.val)
                           ELSE resp.addr = req.addr /\ resp.val = req.val
    BY DEF SuccessIsExact
  <2>1. /\ req.fc \in FunctionCodes /\ resp.len \in Nat
        /\ result = Verdict(check_response(req, resp))
    BY DEF ExchangeInv, ClientRequest
  <2>2. check_response(req, resp) = 0
    BY <2>1 DEF Verdict
  <2>3. /\ resp.fc = req.fc
        /\ req.fc \in ReadBits \cup ReadRegisters =>
             resp.len = 2 + DataBytes(req.fc, req.val)
        /\ req.fc \in WriteSingle \cup WriteMultiple =>
             resp.addr = req.addr /\ resp.val = req.val
    BY <2>1, <2>2, CheckOutcome
  <2>4. DataBytes(req.fc, req.val) \in Int
    <3>1. req.val \in Nat
      BY InSpace DEF ExchangeInv, ReqFields
    <3> QED
      BY <3>1 DEF DataBytes, bit_byte_count
  <2> QED
    BY <2>1, <2>3, <2>4 DEF FunctionCodes
<1> QED
  BY <1>1, ExchangeInvariance, PTL
-----------------------------------------------------------------------------
(* The codecs.                                                             *)

(* A register is put back together from its two bytes.                     *)
LEMMA RegistersSurvive ==
  ASSUME NEW n \in Nat, NEW d \in [0 .. n - 1 -> U16]
  PROVE  get_registers(put_registers(d, n), n) = d
<1>1. ASSUME NEW i \in 0 .. n - 1
      PROVE  256 * put_registers(d, n)[2 * i] + put_registers(d, n)[2 * i + 1] = d[i]
  <2>0. d[i] \in U16
    OBVIOUS
  <2>1. PICK x \in Nat : x = d[i]
    BY <2>0, InSpace
  <2>2. /\ 2 * i \in 0 .. 2 * n - 1 /\ (2 * i) % 2 = 0 /\ (2 * i) \div 2 = i
        /\ 2 * i + 1 \in 0 .. 2 * n - 1 /\ (2 * i + 1) % 2 # 0 /\ (2 * i + 1) \div 2 = i
    OBVIOUS
  <2>3. /\ put_registers(d, n)[2 * i] = d[i] \div 256
        /\ put_registers(d, n)[2 * i + 1] = d[i] % 256
    BY <2>2 DEF put_registers
  <2>4. 256 * (x \div 256) + (x % 256) = x
    BY <2>1
  <2> QED
    BY <2>1, <2>3, <2>4
<1> QED
  BY <1>1 DEF get_registers

(* The bits of a byte.                                                     *)
LEMMA BitsOfByte ==
  ASSUME NEW a \in {0, 1}, NEW b \in {0, 1}, NEW c \in {0, 1}, NEW d \in {0, 1},
         NEW e \in {0, 1}, NEW f \in {0, 1}, NEW g \in {0, 1}, NEW h \in {0, 1},
         NEW s, s = a + 2 * b + 4 * c + 8 * d + 16 * e + 32 * f + 64 * g + 128 * h
  PROVE  /\ (s \div 1) % 2 = a /\ (s \div 2) % 2 = b /\ (s \div 4) % 2 = c
         /\ (s \div 8) % 2 = d /\ (s \div 16) % 2 = e /\ (s \div 32) % 2 = f
         /\ (s \div 64) % 2 = g /\ (s \div 128) % 2 = h
  OBVIOUS

(* A coil is found again in its byte, as 0 or 1.                           *)
LEMMA BitsSurvive ==
  ASSUME NEW n \in Nat, NEW v
  PROVE  unpack_bits(pack_bits(v, n), n) =
           [i \in 0 .. n - 1 |-> IF v[i] # 0 THEN 1 ELSE 0]
<1>1. ASSUME NEW i \in 0 .. n - 1
      PROVE  (pack_bits(v, n)[i \div 8] \div Power2[i % 8]) % 2 =
               IF v[i] # 0 THEN 1 ELSE 0
  <2>1. PICK j \in 0 .. bit_byte_count(n) - 1, k \in 0 .. 7 :
          j = i \div 8 /\ k = i % 8 /\ i = 8 * j + k
    <3>1. /\ i \div 8 \in 0 .. ((n + 7) \div 8) - 1 /\ i % 8 \in 0 .. 7
          /\ i = 8 * (i \div 8) + (i % 8)
      OBVIOUS
    <3> QED
      BY <3>1 DEF bit_byte_count
  <2>2. PICK a \in {0, 1}, b \in {0, 1}, c \in {0, 1}, d \in {0, 1},
             e \in {0, 1}, f \in {0, 1}, g \in {0, 1}, h \in {0, 1} :
          /\ a = Bit(v, n, 8 * j) /\ b = Bit(v, n, 8 * j + 1)
          /\ c = Bit(v, n, 8 * j + 2) /\ d = Bit(v, n, 8 * j + 3)
          /\ e = Bit(v, n, 8 * j + 4) /\ f = Bit(v, n, 8 * j + 5)
          /\ g = Bit(v, n, 8 * j + 6) /\ h = Bit(v, n, 8 * j + 7)
    <3>1. \A x : Bit(v, n, x) \in {0, 1}
      BY DEF Bit
    <3> QED
      BY <3>1, Zenon
  <2>3. PICK s : s = a + 2 * b + 4 * c + 8 * d + 16 * e + 32 * f + 64 * g + 128 * h
    OBVIOUS
  <2>4. pack_bits(v, n)[j] = s
    BY <2>2, <2>3 DEF pack_bits
  <2>5. /\ (s \div 1) % 2 = a /\ (s \div 2) % 2 = b /\ (s \div 4) % 2 = c
        /\ (s \div 8) % 2 = d /\ (s \div 16) % 2 = e /\ (s \div 32) % 2 = f
        /\ (s \div 64) % 2 = g /\ (s \div 128) % 2 = h
    BY <2>3, BitsOfByte
  <2>6. (s \div Power2[k]) % 2 = Bit(v, n, i)
    <3>1. /\ Power2[0] = 1 /\ Power2[1] = 2 /\ Power2[2] = 4 /\ Power2[3] = 8
          /\ Power2[4] = 16 /\ Power2[5] = 32 /\ Power2[6] = 64 /\ Power2[7] = 128
      BY DEF Power2
    <3>2. k \in {0, 1, 2, 3, 4, 5, 6, 7} /\ 8 * j + 0 = 8 * j
      OBVIOUS
    <3>3. CASE k = 0
      BY <2>1, <2>2, <2>5, <3>1, <3>2, <3>3
    <3>4. CASE k = 1
      BY <2>1, <2>2, <2>5, <3>1, <3>4
    <3>5. CASE k = 2
      BY <2>1, <2>2, <2>5, <3>1, <3>5
    <3>6. CASE k = 3
      BY <2>1, <2>2, <2>5, <3>1, <3>6
    <3>7. CASE k = 4
      BY <2>1, <2>2, <2>5, <3>1, <3>7
    <3>8. CASE k = 5
      BY <2>1, <2>2, <2>5, <3>1, <3>8
    <3>9. CASE k = 6
      BY <2>1, <2>2, <2>5, <3>1, <3>9
    <3>10. CASE k = 7
      BY <2>1, <2>2, <2>5, <3>1, <3>10
    <3> QED
      BY <3>2, <3>3, <3>4, <3>5, <3>6, <3>7, <3>8, <3>9, <3>10
  <2>7. Bit(v, n, i) = IF v[i] # 0 THEN 1 ELSE 0
    BY DEF Bit
  <2> QED
    BY <2>1, <2>4, <2>6, <2>7
<1> QED
  BY <1>1 DEF unpack_bits

(* What is decoded is what was encoded, for every function code with data. *)
LEMMA CodecInverse ==
  ASSUME NEW fc \in ReadBits \cup ReadRegisters \cup WriteMultiple,
         NEW n \in Nat, NEW d \in Vector(fc, n)
  PROVE  Decode(fc, Encode(fc, d, n), n) = Normal(fc, d, n)
<1>1. CASE fc \in ReadBits \cup {WRITE_MULTIPLE_COILS}
  <2>1. CallbackOf(fc) \in {"read_bits", "write_bits"}
    BY <1>1 DEF CallbackOf, ReadBits, ReadRegisters, READ_COILS, READ_DISCRETE_INPUTS,
      READ_HOLDING_REGISTERS, READ_INPUT_REGISTERS, WRITE_SINGLE_COIL, WRITE_MULTIPLE_COILS
  <2>2. Decode(fc, Encode(fc, d, n), n) = unpack_bits(pack_bits(d, n), n)
    BY <1>1, Zenon DEF Decode, Encode
  <2>3. Normal(fc, d, n) = [i \in 0 .. n - 1 |-> IF d[i] # 0 THEN 1 ELSE 0]
    BY <2>1, Zenon DEF Normal
  <2> QED
    BY <2>2, <2>3, BitsSurvive, Zenon
<1>2. CASE fc \notin ReadBits \cup {WRITE_MULTIPLE_COILS}
  <2>1. CallbackOf(fc) \notin {"read_bits", "write_bits"}
    BY <1>2 DEF CallbackOf, ReadBits, ReadRegisters, WriteMultiple, READ_COILS,
      READ_DISCRETE_INPUTS, READ_HOLDING_REGISTERS, READ_INPUT_REGISTERS,
      WRITE_SINGLE_COIL, WRITE_MULTIPLE_COILS, WRITE_MULTIPLE_REGISTERS
  <2>2. Decode(fc, Encode(fc, d, n), n) = get_registers(put_registers(d, n), n)
    BY <1>2, Zenon DEF Decode, Encode
  <2>3. Normal(fc, d, n) = d /\ d \in [0 .. n - 1 -> U16]
    BY <2>1, Zenon DEF Normal, Vector
  <2> QED
    BY <2>2, <2>3, RegistersSurvive, Zenon
<1> QED
  BY <1>1, <1>2
-----------------------------------------------------------------------------
(* The data of an exchange.                                                *)

Reads == ReadBits \cup ReadRegisters

(* What a write request delivers to the callback.                          *)
Delivered(r) ==
  IF r.fc \in WriteSingle
    THEN [i \in {0} |-> IF r.fc = WRITE_SINGLE_REGISTER THEN r.val
                        ELSE IF r.val = COIL_ON THEN 1 ELSE 0]
    ELSE Decode(r.fc, r.bytes, r.val)

(* A request of this library delivers what its caller gave.                *)
Faithful ==
  IF req.fc \in Reads THEN req.val \in Fields
                      ELSE Delivered(req) = Normal(req.fc, data, Quantity(req))

DataInv ==
  /\ phase \in {"idle", "done"} => origin = "library"
  /\ phase \in {"request", "response"} /\ origin = "library" => Faithful
  /\ phase = "done" /\ result # "ERR_ARG" => Faithful
  /\ phase \in {"response", "done"} /\ served = "library" /\ call.fn # "none" =>
       IF req.fc \in Reads
         THEN rc = 0 /\ origin = "library" =>
                Decode(req.fc, resp.bytes, req.val) = Normal(req.fc, supply, req.val)
         ELSE call.data = Delivered(req)
  /\ phase = "done" /\ served = "library" /\ result = "OK" /\ req.fc \in Reads =>
       out = Decode(req.fc, resp.bytes, req.val)

(* Reading and writing functions are different ones.                       *)
LEMMA KindsDiffer ==
  ASSUME NEW fc
  PROVE  /\ fc \in WriteSingle => fc \notin Reads /\ fc \notin WriteMultiple
         /\ fc \in WriteMultiple => fc \notin Reads
         /\ fc \in FunctionCodes => fc \in Reads \cup WriteSingle \cup WriteMultiple
  BY DEF Reads, FunctionCodes, ReadBits, ReadRegisters, WriteSingle,
    WriteMultiple, READ_COILS, READ_DISCRETE_INPUTS, READ_HOLDING_REGISTERS,
    READ_INPUT_REGISTERS, WRITE_SINGLE_COIL, WRITE_SINGLE_REGISTER,
    WRITE_MULTIPLE_COILS, WRITE_MULTIPLE_REGISTERS

(* What the dispatch hands to a write callback, and makes of what a read   *)
(* callback supplies.                                                      *)
LEMMA DispatchData ==
  ASSUME NEW r, NEW h, NEW c, NEW s, NEW o, o = handle_request(r, h, c, s),
         o.call.fn # "none"
  PROVE  IF r.fc \in Reads
           THEN ~BadQuantity(r) /\ (c = 0 => o.resp.bytes = Encode(r.fc, s, r.val))
           ELSE o.call.data = Delivered(r)
<1>1. ASSUME NEW k, o = Refuse(r, k) PROVE FALSE
  BY <1>1 DEF Refuse, NoCall
<1>2. r.fc \in FunctionCodes /\ ~(r.len < 5) /\ CallbackOf(r.fc) \in h
  BY <1>1 DEF handle_request
<1>3. CASE r.fc \in Reads
  <2>1. o = handle_read(r, c, s)
    BY <1>2, <1>3, KindsDiffer DEF handle_request, Reads
  <2>2. ~BadQuantity(r)
    BY <1>1, <2>1 DEF handle_read
  <2>3. o = Invoke(r, r.val, NoBytes, c, build_read_response(r.fc, r.val, s))
    BY <1>1, <2>1 DEF handle_read
  <2>4. c = 0 => o.resp.bytes = Encode(r.fc, s, r.val)
    BY <2>3 DEF Invoke, build_read_response
  <2> QED
    BY <1>3, <2>2, <2>4
<1>4. CASE r.fc \in WriteSingle
  <2>1. o = handle_write_single(r, c)
    BY <1>2, <1>4, KindsDiffer DEF handle_request, Reads
  <2>2. o.call.data = Delivered(r)
    BY <1>1, <1>4, <2>1 DEF handle_write_single, Invoke, Delivered
  <2> QED
    BY <1>4, <2>2, KindsDiffer
<1>5. CASE r.fc \in WriteMultiple
  <2>1. o = handle_write_multiple(r, c)
    BY <1>2, <1>5, KindsDiffer DEF handle_request, Reads
  <2>2. o = Invoke(r, r.val, Decode(r.fc, r.bytes, r.val), c, build_write_echo(r))
    BY <1>1, <2>1 DEF handle_write_multiple
  <2>3. o.call.data = Delivered(r)
    BY <1>5, <2>2, KindsDiffer DEF Invoke, Delivered
  <2> QED
    BY <1>5, <2>3, KindsDiffer
<1> QED
  BY <1>2, <1>3, <1>4, <1>5, KindsDiffer

(* At first there is no data under way.                                    *)
LEMMA DataInit == Init => DataInv
  BY DEF Init, DataInv

(* Every step of an exchange keeps the data it carries.                    *)
LEMMA DataStep == ExchangeInv /\ DataInv /\ [Next]_vars => DataInv'
<1> SUFFICES ASSUME ExchangeInv, DataInv, [Next]_vars PROVE DataInv'
  OBVIOUS
<1>1. ASSUME NEW fc \in FunctionCodes, NEW addr \in Addresses, NEW val \in Fields,
             ClientReads(fc, addr, val)
      PROVE  DataInv'
  <2>1. /\ phase = "idle" /\ fc \in Reads /\ UNCHANGED <<origin, call>> /\ call = NoCall
        /\ \/ phase' = "done" /\ result' = "ERR_ARG"
           \/ phase' = "request" /\ req' = build_read(fc, addr, val)
    BY <1>1 DEF ClientReads, Reads, server, ExchangeInv
  <2>2. phase' = "request" => Faithful'
    BY <2>1 DEF Faithful, build_read
  <2>3. call'.fn = "none" /\ origin' = "library"
    BY <2>1 DEF NoCall, DataInv
  <2> QED
    BY <2>1, <2>2, <2>3 DEF DataInv
<1>2. ASSUME NEW fc \in FunctionCodes, NEW addr \in Addresses, NEW val \in Fields,
             ClientWritesSingle(fc, addr, val)
      PROVE  DataInv'
  <2>1. PICK w : /\ w = IF fc = WRITE_SINGLE_REGISTER THEN val ELSE val % 256
                 /\ data' = [i \in {0} |-> w]
    BY <1>2 DEF ClientWritesSingle
  <2>2. PICK v : /\ v = IF fc = WRITE_SINGLE_REGISTER THEN w
                        ELSE IF w # 0 THEN COIL_ON ELSE COIL_OFF
                 /\ req' = build_read(fc, addr, v)
    BY <1>2, <2>1 DEF ClientWritesSingle
  <2>3. req'.fc = fc /\ req'.val = v /\ fc \in WriteSingle /\ phase' = "request"
    BY <1>2, <2>2 DEF build_read, ClientWritesSingle
  <2>4. Delivered(req') = [i \in {0} |-> IF fc = WRITE_SINGLE_REGISTER THEN w
                                        ELSE IF w # 0 THEN 1 ELSE 0]
    BY <2>2, <2>3 DEF Delivered, COIL_ON, COIL_OFF
  <2>5. Normal(fc, data', 1) = [i \in {0} |-> IF fc = WRITE_SINGLE_REGISTER THEN w
                                             ELSE IF w # 0 THEN 1 ELSE 0]
    <3>1. CASE fc = WRITE_SINGLE_REGISTER
      <4>1. CallbackOf(fc) = "write_registers"
        BY <3>1 DEF CallbackOf, ReadBits, ReadRegisters, READ_COILS, READ_DISCRETE_INPUTS,
          READ_HOLDING_REGISTERS, READ_INPUT_REGISTERS, WRITE_SINGLE_COIL,
          WRITE_SINGLE_REGISTER, WRITE_MULTIPLE_COILS
      <4> QED
        BY <2>1, <3>1, <4>1 DEF Normal
    <3>2. CASE fc = WRITE_SINGLE_COIL
      <4>1. CallbackOf(fc) = "write_bits" /\ fc # WRITE_SINGLE_REGISTER
        BY <3>2 DEF CallbackOf, ReadBits, ReadRegisters, READ_COILS, READ_DISCRETE_INPUTS,
          READ_HOLDING_REGISTERS, READ_INPUT_REGISTERS, WRITE_SINGLE_COIL,
          WRITE_SINGLE_REGISTER, WRITE_MULTIPLE_COILS
      <4>2. 0 .. 1 - 1 = {0}
        OBVIOUS
      <4> QED
        BY <2>1, <4>1, <4>2 DEF Normal
    <3> QED
      BY <2>3, <3>1, <3>2 DEF WriteSingle
  <2>6. Faithful'
    BY <2>3, <2>4, <2>5, KindsDiffer DEF Faithful, Quantity
  <2> QED
    BY <2>3, <2>6 DEF DataInv
<1>3. ASSUME NEW fc \in FunctionCodes, NEW addr \in Addresses, NEW val \in Fields,
             ClientWritesMultiple(fc, addr, val)
      PROVE  DataInv'
  <2>1. val \in Nat /\ MaxQuantity(fc) \in Nat /\ fc \in WriteMultiple
    BY <1>3, InSpace, MaxQuantityNat, FieldAssumption DEF ClientWritesMultiple
  <2>2. CASE val = 0 \/ val > MaxQuantity(fc)
    <3>1. phase' = "done" /\ result' = "ERR_ARG" /\ origin' = "library" /\ call' = NoCall
      BY <1>3, <2>1, <2>2 DEF ClientWritesMultiple, ExchangeInv, DataInv, server
    <3> QED
      BY <3>1 DEF DataInv, NoCall
  <2>3. CASE ~(val = 0 \/ val > MaxQuantity(fc))
    <3>1. /\ phase' = "request" /\ data' \in DataOf(fc, val)
          /\ req' = build_write_multiple(fc, addr, val, data')
      BY <1>3, <2>3 DEF ClientWritesMultiple
    <3>2. val \in 1 .. MaxQuantity(fc)
      BY <2>1, <2>3
    <3>3. data' \in Vector(fc, val)
      BY <3>1, <3>2, DataAssumption
    <3>4. /\ req'.fc = fc /\ req'.val = val /\ req'.bytes = Encode(fc, data', val)
      BY <3>1 DEF build_write_multiple
    <3>5. Decode(fc, Encode(fc, data', val), val) = Normal(fc, data', val)
      BY <2>1, <3>3, CodecInverse
    <3>6. Faithful'
      BY <2>1, <3>4, <3>5, KindsDiffer DEF Faithful, Delivered, Quantity
    <3> QED
      BY <3>1, <3>6 DEF DataInv
  <2> QED
    BY <2>2, <2>3
<1>4. ASSUME NEW fc, NEW addr, NEW val, NEW bc, NEW len,
             OtherRequest(fc, addr, val, bc, len)
      PROVE  DataInv'
  BY <1>4 DEF OtherRequest, DataInv
<1>5. ASSUME NEW handlers \in HandlerSets, NEW code \in ReturnCodes,
             Dispatch(handlers, code)
      PROVE  DataInv'
  <2>1. PICK o : o = handle_request(req, handlers, code, supply')
    OBVIOUS
  <2>2. /\ resp' = o.resp /\ call' = o.call /\ rc' = code /\ phase = "request"
        /\ phase' = "response" /\ UNCHANGED <<origin, data, req>>
    BY <1>5, <2>1 DEF Dispatch
  <2>3. origin = "library" => Faithful
    BY <2>2 DEF DataInv
  <2>4. Faithful' <=> Faithful
    BY <2>2 DEF Faithful
  <2>5. ASSUME o.call.fn # "none", req.fc \in Reads, code = 0, origin = "library"
        PROVE  Decode(req.fc, o.resp.bytes, req.val) = Normal(req.fc, supply', req.val)
    <3>1. ~BadQuantity(req) /\ o.resp.bytes = Encode(req.fc, supply', req.val)
      BY <2>1, <2>5, DispatchData
    <3>2. supply' \in DataOf(req.fc, req.val)
      BY <1>5, <2>5, <3>1 DEF Dispatch, Reads
    <3>3. req.val \in Fields /\ req.fc \in FunctionCodes
      BY <2>3, <2>5 DEF Faithful, Reads, FunctionCodes
    <3>4. req.val \in Nat /\ MaxQuantity(req.fc) \in Nat
      BY <3>3, FieldAssumption, InSpace, MaxQuantityNat
    <3>5. req.val \in 1 .. MaxQuantity(req.fc)
      BY <3>1, <3>4 DEF BadQuantity
    <3>6. supply' \in Vector(req.fc, req.val)
      BY <3>2, <3>3, <3>5, DataAssumption
    <3>7. req.fc \in ReadBits \cup ReadRegisters \cup WriteMultiple
      BY <2>5 DEF Reads
    <3> QED
      BY <3>1, <3>4, <3>6, <3>7, CodecInverse
  <2>6. ASSUME o.call.fn # "none", req.fc \notin Reads PROVE o.call.data = Delivered(req)
    BY <2>1, <2>6, DispatchData
  <2> QED
    BY <2>2, <2>3, <2>4, <2>5, <2>6 DEF DataInv
<1>6. ASSUME NEW fc, NEW b1, NEW a, NEW v, NEW len, OtherResponse(fc, b1, a, v, len)
      PROVE  DataInv'
  <2>1. /\ phase = "request" /\ phase' = "response" /\ served' = "other"
        /\ UNCHANGED <<origin, data, req>>
    BY <1>6 DEF OtherResponse
  <2> QED
    BY <2>1 DEF DataInv, Faithful
<1>7. CASE Check
  <2>1. /\ phase = "response" /\ phase' = "done" /\ origin = "library"
        /\ UNCHANGED <<origin, data, req, served, resp, call, rc, supply>>
        /\ result' = Verdict(check_response(req, resp))
        /\ out' = IF /\ check_response(req, resp) = 0 /\ served = "library"
                     /\ req.fc \in Reads
                    THEN Decode(req.fc, resp.bytes, req.val) ELSE NoBytes
    BY <1>7 DEF Check, server, Verdict, Reads
  <2>2. result' = "OK" => check_response(req, resp) = 0
    BY <2>1 DEF Verdict
  <2>3. Faithful'
    BY <2>1 DEF DataInv, Faithful
  <2> QED
    BY <2>1, <2>2, <2>3 DEF DataInv
<1>8. CASE Again
  BY <1>8 DEF Again, DataInv
<1>9. CASE UNCHANGED vars
  BY <1>9 DEF vars, DataInv, Faithful
<1> QED
  BY <1>1, <1>2, <1>3, <1>4, <1>5, <1>6, <1>7, <1>8, <1>9 DEF Next

(* What the codecs deliver at the other end is what was given at this one. *)
THEOREM DataInvariance == Spec => []DataInv
  BY DataInit, DataStep, ExchangeInvariance, PTL DEF Spec

(* Data survives an exchange of any length that the protocol allows, from  *)
(* the caller of a write function to the callback, and from the callback   *)
(* to the caller of a read function.                                       *)
THEOREM DataSurvives == Spec => []DataIntact
<1>1. ExchangeInv /\ DataInv => DataIntact
  <2> SUFFICES ASSUME ExchangeInv, DataInv, phase = "done", served = "library",
                      result = "OK"
               PROVE  IF req.fc \in Reads
                        THEN out = Normal(req.fc, supply, req.val)
                        ELSE call.data = Normal(req.fc, data, Quantity(req))
    BY DEF DataIntact, Reads
  <2>1. call.fn # "none" /\ rc = 0
    BY VerdictOfDispatch
  <2>2. Faithful /\ origin = "library"
    BY DEF DataInv
  <2> QED
    BY <2>1, <2>2 DEF DataInv, Faithful
<1> QED
  BY <1>1, ExchangeInvariance, DataInvariance, PTL

(* Every response fits a PDU, and its one-byte count is exact.             *)
THEOREM ResponsesAreExact == Spec => []ResponseExact
<1>1. ExchangeInv => ResponseExact
  <2> SUFFICES ASSUME ExchangeInv, phase = "response", served = "library"
               PROVE  /\ resp.len \in 2 .. MAX_PDU_LENGTH
                      /\ resp.fc \in Reads => resp.b1 = resp.len - 2
    BY DEF ResponseExact, Reads
  <2>1. /\ GoodCall(req, Outcome) /\ GoodResponse(req, rc, Outcome) /\ resp.len \in Nat
        /\ Outcome.resp = resp /\ Outcome.call = call /\ ReqFields(req)
    BY DEF ExchangeInv, Outcome
  <2>2. CASE IsException(req, resp)
    <3>1. resp.fc >= 128
      <4>1. req.fc \in 0 .. 255
        BY <2>1 DEF ReqFields, U8
      <4> QED
        BY <2>2, <4>1 DEF IsException, WithException
    <3>2. resp.fc \notin Reads
      BY <3>1 DEF Reads, ReadBits, ReadRegisters, READ_COILS, READ_DISCRETE_INPUTS,
        READ_HOLDING_REGISTERS, READ_INPUT_REGISTERS
    <3> QED
      BY <2>2, <3>2 DEF IsException, MAX_PDU_LENGTH
  <2>3. CASE call.fn # "none" /\ IsSuccess(req, resp)
    <3>1. CASE req.fc \in Reads
      <4>1. DataBytes(req.fc, req.val) \in 1 .. 250
        <5>1. req.fc \in FunctionCodes /\ call.qty = Quantity(req)
              /\ call.qty \in 1 .. MaxQuantity(req.fc)
          BY <2>1, <2>3 DEF GoodCall
        <5>2. Quantity(req) = req.val
          BY <3>1, KindsDiffer DEF Quantity
        <5> QED
          BY <5>1, <5>2, CodeFacts
      <4> QED
        BY <2>3, <3>1, <4>1 DEF IsSuccess, Reads, MAX_PDU_LENGTH
    <3>2. CASE req.fc \notin Reads
      BY <2>3, <3>2 DEF IsSuccess, Reads, MAX_PDU_LENGTH
    <3> QED
      BY <3>1, <3>2
  <2> QED
    BY <2>1, <2>2, <2>3 DEF GoodResponse
<1> QED
  BY <1>1, ExchangeInvariance, PTL
=============================================================================
