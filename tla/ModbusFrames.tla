---------------------------- MODULE ModbusFrames -----------------------------
(***************************************************************************)
(* The frames around a PDU: CRC, timing and frame helpers of modbus_rtu.c  *)
(* and the MBAP helpers of modbus_tcp.c.  A frame is the sequence of its   *)
(* bytes.  A builder that refuses its arguments returns Refused.           *)
(*                                                                         *)
(* Beside some definitions stands a faulty form of them, used by no        *)
(* specification, on which the properties are seen to fail.                *)
(***************************************************************************)
EXTENDS ModbusPdu, Sequences

RTU_CRC_LEN        == 2
RTU_MIN_REQ_LENGTH == 8
RTU_MAX_ADU_LENGTH == 256
TCP_PREFIX_LEN     == 6
TCP_MIN_REQ_LENGTH == 12
TCP_MAX_ADU_LENGTH == 260
BROADCAST_ADDRESS  == 0

Refused == <<>>

(* A 16-bit field, and an array of registers: the high byte comes first.   *)
U16Bytes(x) == <<x \div 256, x % 256>>
GetU16(b, i) == 256 * b[i] + b[i + 1]

RegisterBytes(values) ==
  [j \in 1 .. 2 * Len(values) |->
     U16Bytes(values[(j + 1) \div 2])[IF j % 2 = 1 THEN 1 ELSE 2]]

-----------------------------------------------------------------------------
(* CRC-16.                                                                 *)

(* a ^ b, four bits at a time.                                             *)
XorU4 ==
  [a \in 0 .. 15 |-> [b \in 0 .. 15 |->
     LET d(p) == p * ((a \div p + b \div p) % 2) IN d(1) + d(2) + d(4) + d(8)]]

Xor(a, b) ==
  LET d(p) == p * XorU4[(a \div p) % 16][(b \div p) % 16]
  IN  d(1) + d(16) + d(256) + d(4096)

(* A bit is shifted out, with the polynomial 0xA001.                       *)
ShiftBit(c) == IF c % 2 = 1 THEN Xor(c \div 2, 40961) ELSE c \div 2

(* The inner loop: the eight bits of a byte.                               *)
TakeByte(c, byte) ==
  LET shift[x \in U16] == ShiftBit(x)
      shift4(x)        == shift[shift[shift[shift[x]]]]
  IN  shift4(shift4(Xor(c, byte)))

(* The outer loop: the value of crc after each byte.                       *)
CrcSteps(data) ==
  LET take == [c \in U16 |-> [byte \in U8 |-> TakeByte(c, byte)]]
      crc[i \in 0 .. Len(data)] ==
        IF i = 0 THEN 65535 ELSE take[crc[i - 1]][data[i]]
  IN  crc

crc16[data \in Seq(U8)] == CrcSteps(data)[Len(data)]

append_crc(frame, cap) ==
  IF cap < Len(frame) + RTU_CRC_LEN THEN Refused
  ELSE LET crc == crc16[frame] IN frame \o <<crc % 256, crc \div 256>>

validate_crc(frame) ==
  /\ Len(frame) >= RTU_CRC_LEN
  /\ LET n == Len(frame) - RTU_CRC_LEN
     IN  crc16[SubSeq(frame, 1, n)] = frame[n + 1] + 256 * frame[n + 2]

-----------------------------------------------------------------------------
(* Timing, in microseconds.                                                *)

TIMING_OFF == -1    \* MB_RTU_TIMING_DISABLED: -1 as a 32-bit pattern

effective_timing(configured, default_value) ==
  CASE configured = TIMING_OFF -> 0
    [] configured = 0          -> default_value
    [] OTHER                   -> configured

OrDefault(value, default_value) == IF value = 0 THEN default_value ELSE value

t35_us(baud, data_bits, stop_bits, parity) ==
  LET baud_rate == OrDefault(baud, 9600)
      char_bits == 1 + OrDefault(data_bits, 8) + OrDefault(stop_bits, 1)
                     + IF parity = "none" THEN 0 ELSE 1
  IN  IF baud_rate > 19200 THEN 1750
      ELSE (char_bits * 3500000 + baud_rate - 1) \div baud_rate

-----------------------------------------------------------------------------
(* RTU frames.                                                             *)

rtu_build_request_basis(unit_id, function, addr, nb, cap) ==
  IF cap < RTU_MIN_REQ_LENGTH \/ function \notin U8 \/ addr \notin U16 THEN Refused
  ELSE append_crc(<<unit_id, function>> \o U16Bytes(addr) \o U16Bytes(nb), cap)

rtu_build_fc06_request(unit_id, addr, value, cap) ==
  rtu_build_request_basis(unit_id, WRITE_SINGLE_REGISTER, addr, value, cap)

rtu_build_fc16_request(unit_id, addr, values, cap) ==
  LET num == Len(values)
  IN  IF num = 0 \/ num > MAX_WRITE_REGISTERS \/ cap < 9 + 2 * num THEN Refused
      ELSE append_crc(<<unit_id, WRITE_MULTIPLE_REGISTERS>> \o U16Bytes(addr)
                        \o U16Bytes(num) \o <<(2 * num) % 256>>
                        \o RegisterBytes(values), cap)

rtu_build_read_registers_response(fc, unit_id, data, cap) ==
  LET total_len == 5 + 2 * Len(data)
  IN  IF \/ Len(data) > MAX_READ_REGISTERS
         \/ cap < total_len \/ total_len > RTU_MAX_ADU_LENGTH THEN Refused
      ELSE append_crc(<<unit_id, fc, (2 * Len(data)) % 256>>
                        \o RegisterBytes(data), cap)

(* What a parser stores through its three pointers, or NotParsed.          *)
NotParsed == [fc |-> -1, addr |-> -1, qty |-> -1]

ParsedAt(b, at) ==
  [fc |-> b[at], addr |-> GetU16(b, at + 1),
   qty |-> IF b[at] = WRITE_SINGLE_REGISTER THEN 1 ELSE GetU16(b, at + 3)]

rtu_parse_request(request) ==
  IF Len(request) < RTU_MIN_REQ_LENGTH \/ ~validate_crc(request) THEN NotParsed
  ELSE ParsedAt(request, 2)

-----------------------------------------------------------------------------
(* MBAP frames.                                                            *)

(* The length field counts the unit id and the PDU.                        *)
MbapPduOnly(tid, unit_id, pdu) ==
  U16Bytes(tid) \o <<0, 0>> \o U16Bytes(Len(pdu)) \o <<unit_id>> \o pdu

Mbap(tid, unit_id, pdu) ==
  U16Bytes(tid) \o <<0, 0>> \o U16Bytes(1 + Len(pdu)) \o <<unit_id>> \o pdu

tcp_build_request_basis(tid, unit_id, function, addr, nb, cap) ==
  IF cap < TCP_MIN_REQ_LENGTH \/ function \notin U8 \/ addr \notin U16 THEN Refused
  ELSE Mbap(tid, unit_id, <<function>> \o U16Bytes(addr) \o U16Bytes(nb))

tcp_build_fc06_request(tid, unit_id, addr, value, cap) ==
  IF cap < TCP_MIN_REQ_LENGTH THEN Refused
  ELSE Mbap(tid, unit_id,
            <<WRITE_SINGLE_REGISTER>> \o U16Bytes(addr) \o U16Bytes(value))

tcp_build_fc16_request(tid, unit_id, addr, values, cap) ==
  LET num == Len(values)
  IN  IF \/ num = 0 \/ num > MAX_WRITE_REGISTERS
         \/ cap < TCP_PREFIX_LEN + 7 + 2 * num THEN Refused
      ELSE Mbap(tid, unit_id, <<WRITE_MULTIPLE_REGISTERS>> \o U16Bytes(addr)
                  \o U16Bytes(num) \o <<(2 * num) % 256>> \o RegisterBytes(values))

tcp_parse_request(request) ==
  IF Len(request) < TCP_PREFIX_LEN THEN NotParsed
  ELSE LET mbap_len == GetU16(request, 5)
       IN  IF \/ mbap_len < 6 \/ mbap_len > TCP_MAX_ADU_LENGTH - TCP_PREFIX_LEN
              \/ Len(request) < TCP_PREFIX_LEN + mbap_len
           THEN NotParsed ELSE ParsedAt(request, 8)

tcp_build_read_registers_response(tid, fc, unit_id, data, cap) ==
  IF Len(data) > MAX_READ_REGISTERS \/ cap < TCP_PREFIX_LEN + 3 + 2 * Len(data)
  THEN Refused
  ELSE Mbap(tid, unit_id, <<fc, (2 * Len(data)) % 256>> \o RegisterBytes(data))
=============================================================================
