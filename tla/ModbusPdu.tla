------------------------------ MODULE ModbusPdu ------------------------------
(***************************************************************************)
(* The transport-independent PDU layer of modbus_pdu.c as operators:       *)
(* request builders, response check, bit and register codecs, and the      *)
(* dispatch of one request to the application's callbacks.                 *)
(*                                                                         *)
(* A PDU is a record of its fields.  A request has its function code fc,   *)
(* its address, the 16-bit field after it (val: a quantity or a value),    *)
(* the byte count field bc, the data bytes and the length len of the whole *)
(* PDU.  A response has fc, its second byte b1 (exception code or byte     *)
(* count), the echoed addr and val, the data bytes and len.                *)
(*                                                                         *)
(* Beside some definitions stands a faulty form of them (with a longer     *)
(* name), used by no specification: the form a mistake in the code would   *)
(* have, on which the properties are seen to fail.                         *)
(***************************************************************************)
EXTENDS Integers

READ_COILS == 1
READ_DISCRETE_INPUTS == 2
READ_HOLDING_REGISTERS == 3
READ_INPUT_REGISTERS == 4
WRITE_SINGLE_COIL == 5
WRITE_SINGLE_REGISTER == 6
WRITE_MULTIPLE_COILS == 15
WRITE_MULTIPLE_REGISTERS == 16

ReadBits      == {READ_COILS, READ_DISCRETE_INPUTS}
ReadRegisters == {READ_HOLDING_REGISTERS, READ_INPUT_REGISTERS}
WriteSingle   == {WRITE_SINGLE_COIL, WRITE_SINGLE_REGISTER}
WriteMultiple == {WRITE_MULTIPLE_COILS, WRITE_MULTIPLE_REGISTERS}
FunctionCodes == ReadBits \cup ReadRegisters \cup WriteSingle \cup WriteMultiple

MAX_READ_REGISTERS  == 125
MAX_WRITE_REGISTERS == 123
MAX_READ_BITS       == 2000
MAX_WRITE_BITS      == 1968
MAX_PDU_LENGTH      == 253
COIL_ON             == 65280
COIL_OFF            == 0
AddressSpace        == 65536

ILLEGAL_FUNCTION      == 1
ILLEGAL_DATA_ADDRESS  == 2
ILLEGAL_DATA_VALUE    == 3
SERVER_DEVICE_FAILURE == 4
ERR_FRAME             == -1

U16 == 0 .. 65535
U8  == 0 .. 255

range_overflows_late(addr, qty) == addr + qty > AddressSpace + 1
range_overflows(addr, qty) == addr + qty > AddressSpace

bit_byte_count(qty) == (qty + 7) \div 8

(* Number of data bytes a function code needs for a quantity.              *)
DataBytes(fc, qty) ==
  IF fc \in ReadBits \cup {WRITE_MULTIPLE_COILS} THEN bit_byte_count(qty)
                                                 ELSE qty * 2

-----------------------------------------------------------------------------
(* Codecs.  Coils travel eight to a byte, the first one in the lowest bit; *)
(* a register travels as two bytes, the high one first.                    *)

NoBytes == [i \in {} |-> 0]

Bit(values, qty, i) == IF i < qty /\ values[i] # 0 THEN 1 ELSE 0

pack_bits(values, qty) ==
  [j \in 0 .. bit_byte_count(qty) - 1 |->
       Bit(values, qty, 8 * j)          + 2 * Bit(values, qty, 8 * j + 1)
     + 4 * Bit(values, qty, 8 * j + 2)  + 8 * Bit(values, qty, 8 * j + 3)
     + 16 * Bit(values, qty, 8 * j + 4) + 32 * Bit(values, qty, 8 * j + 5)
     + 64 * Bit(values, qty, 8 * j + 6) + 128 * Bit(values, qty, 8 * j + 7)]

Power2 == [k \in 0 .. 7 |-> CASE k = 0 -> 1  [] k = 1 -> 2  [] k = 2 -> 4
                              [] k = 3 -> 8  [] k = 4 -> 16 [] k = 5 -> 32
                              [] k = 6 -> 64 [] k = 7 -> 128]

unpack_bits_reversed(bytes, qty) ==
  [i \in 0 .. qty - 1 |-> (bytes[i \div 8] \div Power2[7 - (i % 8)]) % 2]

unpack_bits(bytes, qty) ==
  [i \in 0 .. qty - 1 |-> (bytes[i \div 8] \div Power2[i % 8]) % 2]

put_registers(data, qty) ==
  [j \in 0 .. 2 * qty - 1 |->
     IF j % 2 = 0 THEN data[j \div 2] \div 256 ELSE data[j \div 2] % 256]

get_registers(bytes, qty) ==
  [i \in 0 .. qty - 1 |-> 256 * bytes[2 * i] + bytes[2 * i + 1]]

Encode(fc, data, qty) ==
  IF fc \in ReadBits \cup {WRITE_MULTIPLE_COILS} THEN pack_bits(data, qty)
                                                 ELSE put_registers(data, qty)

Decode(fc, bytes, qty) ==
  IF fc \in ReadBits \cup {WRITE_MULTIPLE_COILS} THEN unpack_bits(bytes, qty)
                                                 ELSE get_registers(bytes, qty)

-----------------------------------------------------------------------------
(* Requests: mb_pdu_build_read, _write_single, _write_registers, _coils.   *)

build_read(fc, addr, val) ==
  [fc |-> fc, addr |-> addr, val |-> val, bc |-> 0, bytes |-> NoBytes, len |-> 5]

build_write_multiple(fc, addr, qty, data) ==
  [fc |-> fc, addr |-> addr, val |-> qty, bc |-> DataBytes(fc, qty) % 256,
   bytes |-> Encode(fc, data, qty), len |-> 6 + DataBytes(fc, qty)]

(* Responses.                                                              *)

WithException(fc) == IF fc < 128 THEN fc + 128 ELSE fc

build_exception(fc, code) ==
  [fc |-> WithException(fc), b1 |-> code, addr |-> 0, val |-> 0,
   bytes |-> NoBytes, len |-> 2]

build_read_response_count(fc, qty, data) ==
  [fc |-> fc, b1 |-> qty % 256, addr |-> 0, val |-> 0,
   bytes |-> Encode(fc, data, qty), len |-> 2 + DataBytes(fc, qty)]

build_read_response(fc, qty, data) ==
  [fc |-> fc, b1 |-> DataBytes(fc, qty) % 256, addr |-> 0, val |-> 0,
   bytes |-> Encode(fc, data, qty), len |-> 2 + DataBytes(fc, qty)]

build_write_echo_decoded(req) ==
  [fc |-> req.fc, b1 |-> req.addr \div 256, addr |-> req.addr,
   val |-> IF req.val = COIL_ON THEN 1 ELSE req.val,
   bytes |-> NoBytes, len |-> 5]

build_write_echo(req) ==
  [fc |-> req.fc, b1 |-> req.addr \div 256, addr |-> req.addr, val |-> req.val,
   bytes |-> NoBytes, len |-> 5]

check_response_by_fc(req, resp) ==
  IF resp.fc = WithException(req.fc) THEN resp.b1
  ELSE IF resp.fc = req.fc THEN 0 ELSE ERR_FRAME

check_response(req, resp) ==
  CASE resp.len < 1 -> ERR_FRAME
    [] resp.len >= 1 /\ resp.fc = WithException(req.fc) ->
         IF resp.len # 2 \/ resp.b1 = 0 THEN ERR_FRAME ELSE resp.b1
    [] resp.len >= 1 /\ resp.fc # WithException(req.fc) ->
         IF \/ resp.fc # req.fc
            \/ /\ req.fc \in ReadBits \cup ReadRegisters
               /\ \/ resp.len # 2 + DataBytes(req.fc, req.val)
                  \/ resp.b1 # DataBytes(req.fc, req.val) % 256
            \/ /\ req.fc \in WriteSingle \cup WriteMultiple
               /\ \/ resp.len # 5
                  \/ resp.addr # req.addr \/ resp.val # req.val
            \/ req.fc \notin FunctionCodes
           THEN ERR_FRAME ELSE 0

-----------------------------------------------------------------------------
(* Dispatch: mb_pdu_handle_request.  handlers is the set of callbacks the  *)
(* application installed, rc what the callback it reaches returns and      *)
(* supply the data a read callback fills in.  The outcome is the response  *)
(* together with the callback invocation, if there was one.                *)

Callbacks == {"read_registers", "write_registers", "read_bits", "write_bits"}

CallbackOf(fc) ==
  CASE fc \in ReadBits      -> "read_bits"
    [] fc \in ReadRegisters -> "read_registers"
    [] fc \in {WRITE_SINGLE_COIL, WRITE_MULTIPLE_COILS} -> "write_bits"
    [] OTHER                -> "write_registers"

MaxQuantity(fc) ==
  CASE fc \in ReadBits      -> MAX_READ_BITS
    [] fc \in ReadRegisters -> MAX_READ_REGISTERS
    [] fc = WRITE_MULTIPLE_COILS -> MAX_WRITE_BITS
    [] OTHER                -> MAX_WRITE_REGISTERS

exception_from_callback_rc(rc) ==
  IF rc \in {1, 2, 3, 4, 5, 6, 8, 10, 11} THEN rc ELSE SERVER_DEVICE_FAILURE

NoCall == [fn |-> "none", addr |-> 0, qty |-> 0, data |-> NoBytes]

Refuse(req, code) == [resp |-> build_exception(req.fc, code), call |-> NoCall]

(* The callback is invoked; its return code decides the response.          *)
Invoke(req, qty, data, rc, success) ==
  [resp |-> IF rc # 0
              THEN build_exception(req.fc, exception_from_callback_rc(rc))
              ELSE success,
   call |-> [fn |-> CallbackOf(req.fc), addr |-> req.addr, qty |-> qty,
             data |-> data]]

BadQuantity(req) == req.val = 0 \/ req.val > MaxQuantity(req.fc)

handle_read(req, rc, supply) ==
  IF BadQuantity(req) THEN Refuse(req, ILLEGAL_DATA_VALUE)
  ELSE IF range_overflows(req.addr, req.val)
  THEN Refuse(req, ILLEGAL_DATA_ADDRESS)
  ELSE Invoke(req, req.val, NoBytes, rc,
              build_read_response(req.fc, req.val, supply))

handle_write_single(req, rc) ==
  IF req.fc = WRITE_SINGLE_COIL /\ req.val \notin {COIL_ON, COIL_OFF}
  THEN Refuse(req, ILLEGAL_DATA_VALUE)
  ELSE LET value == IF req.fc = WRITE_SINGLE_REGISTER THEN req.val
                    ELSE IF req.val = COIL_ON THEN 1 ELSE 0
       IN  Invoke(req, 1, [i \in {0} |-> value], rc, build_write_echo(req))

handle_write_multiple(req, rc) ==
  IF \/ req.len <= 5 \/ BadQuantity(req)
     \/ req.bc # DataBytes(req.fc, req.val) % 256
     \/ req.len # 6 + DataBytes(req.fc, req.val)
  THEN Refuse(req, ILLEGAL_DATA_VALUE)
  ELSE IF range_overflows(req.addr, req.val)
  THEN Refuse(req, ILLEGAL_DATA_ADDRESS)
  ELSE Invoke(req, req.val, Decode(req.fc, req.bytes, req.val), rc,
              build_write_echo(req))

handle_request(req, handlers, rc, supply) ==
  IF req.fc \notin FunctionCodes THEN Refuse(req, ILLEGAL_FUNCTION)
  ELSE IF req.len < 5 THEN Refuse(req, ILLEGAL_DATA_VALUE)
  ELSE IF CallbackOf(req.fc) \notin handlers THEN Refuse(req, ILLEGAL_FUNCTION)
  ELSE CASE req.fc \in ReadBits \cup ReadRegisters -> handle_read(req, rc, supply)
         [] req.fc \in WriteSingle   -> handle_write_single(req, rc)
         [] req.fc \in WriteMultiple -> handle_write_multiple(req, rc)
=============================================================================
