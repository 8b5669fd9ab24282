-------------------------- MODULE ModbusFramesProofs --------------------------
(***************************************************************************)
(* What the frame helpers of modbus_tcp.c and modbus_rtu.c put into a      *)
(* frame and read from it, proved for all arguments of their C types.      *)
(***************************************************************************)
EXTENDS ModbusFrames, FiniteSetTheorems, WellFoundedInduction, TLAPS

(* A number that a 16-bit field holds, and its two bytes.                  *)
Word(x) == x \in Nat /\ x <= 65535
Hi(x) == x \div 256
Lo(x) == x % 256

(* A uint16_t is a word.                                                   *)
LEMMA WordOf == ASSUME NEW x \in U16 PROVE Word(x)
<1>1. PICK m \in Nat : m = 65535
  OBVIOUS
<1>2. U16 = 0 .. m
  BY <1>1, SMT DEF U16
<1>3. x \in Nat /\ x <= m
  BY <1>2
<1> QED
  BY <1>1, <1>3 DEF Word

(* The two bytes of a 16-bit field, and that they give the field back.     *)
LEMMA FieldBytes ==
  ASSUME NEW x, Word(x)
  PROVE  Hi(x) \in U8 /\ Lo(x) \in U8 /\ 256 * Hi(x) + Lo(x) = x
<1>0. x \in Nat /\ x <= 65535
  BY DEF Word
<1>1. /\ x \div 256 \in Int /\ x % 256 \in 0 .. 255
      /\ 256 * (x \div 256) + (x % 256) = x
  BY <1>0
<1>2. ASSUME NEW q \in Int, NEW r \in 0 .. 255, 256 * q + r = x
      PROVE  q \in 0 .. 255
  BY <1>0, <1>2
<1>3. x \div 256 \in U8 /\ x % 256 \in U8
  BY <1>1, <1>2 DEF U8
<1> QED
  BY <1>1, <1>3, SMT DEF Hi, Lo

(* The two bytes of a field as a sequence.                                 *)
LEMMA FieldSeq ==
  ASSUME NEW x, Word(x)
  PROVE  /\ U16Bytes(x) \in Seq(U8) /\ Len(U16Bytes(x)) = 2
         /\ U16Bytes(x)[1] = Hi(x) /\ U16Bytes(x)[2] = Lo(x)
<1>1. x \div 256 \in U8 /\ x % 256 \in U8
  BY FieldBytes DEF Hi, Lo
<1>2. U16Bytes(x) \in Seq(U8)
  BY <1>1, SMT DEF U16Bytes
<1>3. Len(U16Bytes(x)) = 2 /\ U16Bytes(x)[1] = x \div 256 /\ U16Bytes(x)[2] = x % 256
  BY <1>1, SMT DEF U16Bytes
<1> QED
  BY <1>2, <1>3, SMT DEF Hi, Lo

(* A field is read where its two bytes stand.                              *)
LEMMA FieldRead ==
  ASSUME NEW x, Word(x), NEW b, NEW i, NEW j, j = i + 1, b[i] = Hi(x), b[j] = Lo(x)
  PROVE  GetU16(b, i) = x
  BY FieldBytes, SMT DEF GetU16

(* Where the parts of a sequence put together lie.                         *)
Joins(c, a, m, b) ==
  /\ Len(c) = m + Len(b)
  /\ \A i \in 1 .. m : c[i] = a[i]
  /\ \A i \in 1 .. Len(b) : c[m + i] = b[i]

(* What a concatenation holds, as one fact to cite.                        *)
LEMMA Joined ==
  ASSUME NEW a \in Seq(U8), NEW m, m = Len(a), NEW b \in Seq(U8)
  PROVE  \E c \in Seq(U8) : c = a \o b /\ Joins(c, a, m, b)
<1>1. ASSUME NEW i \in 1 .. Len(b) PROVE (a \o b)[Len(a) + i] = b[i]
  OBVIOUS
<1>2. ASSUME NEW i \in 1 .. Len(a) PROVE (a \o b)[i] = a[i]
  OBVIOUS
<1>3. a \o b \in Seq(U8) /\ Len(a \o b) = Len(a) + Len(b)
  OBVIOUS
<1> QED
  BY <1>1, <1>2, <1>3, Zenon DEF Joins

(* The header: transaction id, protocol, length and unit, then the PDU.    *)
Headed(m, x, y, pdu) ==
  /\ m \in Seq(U8) /\ Len(m) = 7 + Len(pdu)
  /\ m[1] = x[1] /\ m[2] = x[2] /\ m[5] = y[1] /\ m[6] = y[2]
  /\ \A i \in 1 .. Len(pdu) : m[7 + i] = pdu[i]

(* The six parts of an MBAP header and the PDU stand where the parser      *)
(* looks for them.                                                         *)
LEMMA Header ==
  ASSUME NEW x \in Seq(U8), Len(x) = 2, NEW z \in Seq(U8), Len(z) = 2,
         NEW y \in Seq(U8), Len(y) = 2, NEW u \in Seq(U8), Len(u) = 1, NEW pdu \in Seq(U8)
  PROVE  Headed(x \o z \o y \o u \o pdu, x, y, pdu)
<1>0. /\ \A i \in {1, 2} : i \in 1 .. 2 /\ i \in 1 .. Len(y) /\ i \in 1 .. 4
      /\ \A i \in {1, 2, 5, 6} : i \in 1 .. 6 /\ i \in 1 .. 7
      /\ 2 + Len(z) = 4 /\ 4 + Len(y) = 6 /\ 6 + Len(u) = 7 /\ 4 + 1 = 5 /\ 4 + 2 = 6
  OBVIOUS
<1>1. PICK a \in Seq(U8) : a = x \o z /\ Joins(a, x, 2, z)
  BY Joined
<1>2. Len(a) = 4 /\ a[1] = x[1] /\ a[2] = x[2]
  BY <1>0, <1>1, Zenon DEF Joins
<1>3. PICK b \in Seq(U8) : b = a \o y /\ Joins(b, a, 4, y)
  BY <1>2, Joined
<1>4. Len(b) = 6 /\ b[1] = x[1] /\ b[2] = x[2] /\ b[5] = y[1] /\ b[6] = y[2]
  <2>1. b[4 + 1] = y[1] /\ b[4 + 2] = y[2]
    BY <1>0, <1>3, Zenon DEF Joins
  <2> QED
    BY <1>0, <1>2, <1>3, <2>1, Zenon DEF Joins
<1>5. PICK c \in Seq(U8) : c = b \o u /\ Joins(c, b, 6, u)
  BY <1>4, Joined
<1>6. Len(c) = 7 /\ c[1] = x[1] /\ c[2] = x[2] /\ c[5] = y[1] /\ c[6] = y[2]
  BY <1>0, <1>4, <1>5, Zenon DEF Joins
<1>7. PICK m \in Seq(U8) : m = c \o pdu /\ Joins(m, c, 7, pdu)
  BY <1>6, Joined
<1>8. m[1] = x[1] /\ m[2] = x[2] /\ m[5] = y[1] /\ m[6] = y[2]
  BY <1>0, <1>6, <1>7, Zenon DEF Joins
<1>9. m = x \o z \o y \o u \o pdu
  BY <1>1, <1>3, <1>5, <1>7, Zenon
<1> QED
  BY <1>7, <1>8, <1>9, Zenon DEF Joins, Headed

(* What a frame with an MBAP header carries.                               *)
Carries(m, id, pdu) ==
  /\ m \in Seq(U8) /\ Len(m) = 7 + Len(pdu)
  /\ GetU16(m, 1) = id /\ GetU16(m, 5) = 1 + Len(pdu)
  /\ \A i \in 1 .. Len(pdu) : m[7 + i] = pdu[i]

(* A frame carries the transaction id, the length and the PDU that the    *)
(* builder made it of.                                                     *)
LEMMA MbapCarries ==
  ASSUME NEW id, Word(id), NEW unit \in U8, NEW pdu \in Seq(U8), Word(1 + Len(pdu))
  PROVE  Carries(Mbap(id, unit, pdu), id, pdu)
<1>1. PICK n : n = 1 + Len(pdu) /\ Word(n)
  OBVIOUS
<1>2. PICK x \in Seq(U8) : x = U16Bytes(id) /\ Len(x) = 2 /\ x[1] = Hi(id) /\ x[2] = Lo(id)
  BY FieldSeq, Zenon
<1>3. PICK y \in Seq(U8) : y = U16Bytes(n) /\ Len(y) = 2 /\ y[1] = Hi(n) /\ y[2] = Lo(n)
  BY <1>1, FieldSeq, Zenon
<1>4. PICK z \in Seq(U8) : z = <<0, 0>> /\ Len(z) = 2
  <2>1. 0 \in U8
    BY DEF U8
  <2>2. <<0, 0>> \in Seq(U8) /\ Len(<<0, 0>>) = 2
    BY <2>1
  <2> QED
    BY <2>2, Zenon
<1>5. PICK u \in Seq(U8) : u = <<unit>> /\ Len(u) = 1
  <2>1. <<unit>> \in Seq(U8) /\ Len(<<unit>>) = 1
    OBVIOUS
  <2> QED
    BY <2>1, Zenon
<1>6. PICK m : m = x \o z \o y \o u \o pdu /\ Headed(m, x, y, pdu)
  BY <1>2, <1>3, <1>4, <1>5, Header
<1>7. m = Mbap(id, unit, pdu)
  BY <1>1, <1>2, <1>3, <1>4, <1>5, <1>6, Zenon DEF Mbap
<1>8. 1 + 1 = 2 /\ 5 + 1 = 6
  OBVIOUS
<1>9. m[1] = Hi(id) /\ m[2] = Lo(id) /\ m[5] = Hi(n) /\ m[6] = Lo(n)
  BY <1>2, <1>3, <1>6, Zenon DEF Headed
<1>10. GetU16(m, 1) = id
  BY <1>8, <1>9, FieldRead
<1>11. GetU16(m, 5) = n
  BY <1>1, <1>8, <1>9, FieldRead
<1> QED
  BY <1>1, <1>6, <1>7, <1>10, <1>11, Zenon DEF Carries, Headed

(* The start of a request's PDU: function code, address and quantity.      *)
Asks(pdu, fc, addr, qty) ==
  /\ pdu \in Seq(U8) /\ pdu[1] = fc
  /\ pdu[2] = Hi(addr) /\ pdu[3] = Lo(addr) /\ pdu[4] = Hi(qty) /\ pdu[5] = Lo(qty)

(* The five bytes every request PDU begins with.                           *)
LEMMA PduAsks ==
  ASSUME NEW fc \in U8, NEW addr, Word(addr), NEW qty, Word(qty)
  PROVE  \E pdu \in Seq(U8) :
           /\ pdu = <<fc>> \o U16Bytes(addr) \o U16Bytes(qty)
           /\ Asks(pdu, fc, addr, qty) /\ Len(pdu) = 5
<1>1. PICK x \in Seq(U8) :
        x = U16Bytes(addr) /\ Len(x) = 2 /\ x[1] = Hi(addr) /\ x[2] = Lo(addr)
  BY FieldSeq, Zenon
<1>2. PICK y \in Seq(U8) :
        y = U16Bytes(qty) /\ Len(y) = 2 /\ y[1] = Hi(qty) /\ y[2] = Lo(qty)
  BY FieldSeq, Zenon
<1>3. PICK f \in Seq(U8) : f = <<fc>> /\ Len(f) = 1 /\ f[1] = fc
  <2>1. <<fc>> \in Seq(U8) /\ Len(<<fc>>) = 1 /\ <<fc>>[1] = fc
    OBVIOUS
  <2> QED
    BY <2>1, Zenon
<1>4. /\ 1 \in 1 .. 1 /\ \A i \in {1, 2, 3} : i \in 1 .. 3
      /\ \A i \in {1, 2} : i \in 1 .. Len(x) /\ i \in 1 .. Len(y)
      /\ 1 + Len(x) = 3 /\ 3 + Len(y) = 5
      /\ 1 + 1 = 2 /\ 1 + 2 = 3 /\ 3 + 1 = 4 /\ 3 + 2 = 5
  BY <1>1, <1>2
<1>5. PICK a \in Seq(U8) : a = f \o x /\ Joins(a, f, 1, x)
  BY <1>3, Joined
<1>6. Len(a) = 3 /\ a[1] = fc /\ a[1 + 1] = x[1] /\ a[1 + 2] = x[2]
  BY <1>3, <1>4, <1>5, Zenon DEF Joins
<1>7. PICK p \in Seq(U8) : p = a \o y /\ Joins(p, a, 3, y)
  BY <1>6, Joined
<1>8. /\ Len(p) = 5 /\ p[1] = a[1] /\ p[2] = a[2] /\ p[3] = a[3]
      /\ p[3 + 1] = y[1] /\ p[3 + 2] = y[2]
  BY <1>4, <1>7, Zenon DEF Joins
<1>9. p[1] = fc /\ p[2] = x[1] /\ p[3] = x[2] /\ p[4] = y[1] /\ p[5] = y[2]
  BY <1>4, <1>6, <1>8, Zenon
<1>10. Asks(p, fc, addr, qty)
  BY <1>1, <1>2, <1>9, Zenon DEF Asks
<1> QED
  BY <1>1, <1>2, <1>3, <1>5, <1>7, <1>8, <1>10, Zenon

(* The bytes of an array of registers.                                     *)
LEMMA RegisterBytesType ==
  ASSUME NEW values \in Seq(U16)
  PROVE  RegisterBytes(values) \in Seq(U8) /\ Len(RegisterBytes(values)) = 2 * Len(values)
<1>0. PICK n \in Nat : n = Len(values)
  OBVIOUS
<1>1. ASSUME NEW j \in 1 .. 2 * n
      PROVE  U16Bytes(values[(j + 1) \div 2])[IF j % 2 = 1 THEN 1 ELSE 2] \in U8
  <2>1. PICK k \in 1 .. n : k = (j + 1) \div 2
    OBVIOUS
  <2>2. values[k] \in U16
    BY <1>0, <2>1
  <2>3. PICK x : x = values[k] /\ Word(x)
    BY <2>2, WordOf
  <2>4. U16Bytes(x)[1] \in U8 /\ U16Bytes(x)[2] \in U8
    <3>1. U16Bytes(x)[1] = Hi(x) /\ U16Bytes(x)[2] = Lo(x)
      BY <2>3, FieldSeq
    <3>2. Hi(x) \in U8 /\ Lo(x) \in U8
      BY <2>3, FieldBytes
    <3> QED
      BY <3>1, <3>2, Zenon
  <2>5. CASE j % 2 = 1
    BY <2>1, <2>3, <2>4, <2>5, Zenon
  <2>6. CASE j % 2 # 1
    BY <2>1, <2>3, <2>4, <2>6, Zenon
  <2> QED
    BY <2>5, <2>6
<1>2. RegisterBytes(values) =
        [j \in 1 .. 2 * n |-> U16Bytes(values[(j + 1) \div 2])[IF j % 2 = 1 THEN 1 ELSE 2]]
  BY <1>0, Zenon DEF RegisterBytes
<1>3. RegisterBytes(values) \in [1 .. 2 * n -> U8]
  BY <1>1, <1>2, Zenon
<1>4. PICK w \in [1 .. 2 * n -> U8] : w = RegisterBytes(values)
  BY <1>3
<1>5. w \in Seq(U8) /\ Len(w) = 2 * n
  <2>1. PICK k \in Nat : k = 2 * n
    OBVIOUS
  <2> QED
    BY <2>1
<1> QED
  BY <1>0, <1>4, <1>5

-----------------------------------------------------------------------------
(* The frame of a request: what it carries, within what a parser accepts.  *)
Frames(m, id, fc, addr, qty) ==
  \E pdu \in Seq(U8) :
    /\ Carries(m, id, pdu) /\ Asks(pdu, fc, addr, qty)
    /\ Len(pdu) >= 5 /\ Len(pdu) <= 253

(* The length field of a PDU that fits a frame does not overflow.          *)
LEMMA ShortPdu ==
  ASSUME NEW pdu \in Seq(U8), Len(pdu) <= 254 PROVE Word(1 + Len(pdu))
<1>1. Len(pdu) \in Nat
  OBVIOUS
<1> QED
  BY <1>1 DEF Word

(* The frame of a request of five bytes: a read, or a write of one value.  *)
LEMMA BasisPdu ==
  ASSUME NEW id, Word(id), NEW unit \in U8, NEW fc \in U8,
         NEW addr, Word(addr), NEW qty, Word(qty)
  PROVE  Frames(Mbap(id, unit, <<fc>> \o U16Bytes(addr) \o U16Bytes(qty)),
                id, fc, addr, qty)
<1>1. PICK pdu \in Seq(U8) :
        /\ pdu = <<fc>> \o U16Bytes(addr) \o U16Bytes(qty)
        /\ Asks(pdu, fc, addr, qty) /\ Len(pdu) = 5
  BY PduAsks
<1>2. Len(pdu) >= 5 /\ Len(pdu) <= 253 /\ Len(pdu) <= 254
  BY <1>1
<1>3. Word(1 + Len(pdu))
  BY <1>2, ShortPdu
<1>4. Carries(Mbap(id, unit, pdu), id, pdu)
  BY <1>3, MbapCarries
<1>5. PICK m : m = Mbap(id, unit, pdu)
  OBVIOUS
<1>6. /\ Carries(m, id, pdu) /\ Asks(pdu, fc, addr, qty)
      /\ Len(pdu) >= 5 /\ Len(pdu) <= 253
  BY <1>1, <1>2, <1>4, <1>5, Zenon
<1>7. Frames(m, id, fc, addr, qty)
  <2> HIDE <1>1, <1>2, <1>4, <1>5
  <2> QED
    BY <1>6, SMT DEF Frames
<1> QED
  BY <1>1, <1>5, <1>7, Zenon

(* mb_tcp_build_request_basis, when it accepts its arguments.              *)
LEMMA BasisFrame ==
  ASSUME NEW id, Word(id), NEW unit \in U8, NEW fc \in Int, NEW addr \in Int,
         NEW nb \in U16, NEW cap \in Nat,
         tcp_build_request_basis(id, unit, fc, addr, nb, cap) # Refused
  PROVE  Frames(tcp_build_request_basis(id, unit, fc, addr, nb, cap), id, fc, addr, nb)
<1>1. /\ fc \in U8 /\ addr \in U16
      /\ tcp_build_request_basis(id, unit, fc, addr, nb, cap)
           = Mbap(id, unit, <<fc>> \o U16Bytes(addr) \o U16Bytes(nb))
  BY Zenon DEF tcp_build_request_basis
<1>2. Word(addr) /\ Word(nb)
  BY <1>1, WordOf
<1> QED
  BY <1>1, <1>2, BasisPdu

(* mb_tcp_build_fc06_request.                                              *)
LEMMA Fc06Frame ==
  ASSUME NEW id, Word(id), NEW unit \in U8, NEW addr \in U16, NEW value \in U16,
         NEW cap \in Nat, tcp_build_fc06_request(id, unit, addr, value, cap) # Refused
  PROVE  Frames(tcp_build_fc06_request(id, unit, addr, value, cap),
                id, WRITE_SINGLE_REGISTER, addr, value)
<1>1. tcp_build_fc06_request(id, unit, addr, value, cap)
        = Mbap(id, unit, <<WRITE_SINGLE_REGISTER>> \o U16Bytes(addr) \o U16Bytes(value))
  BY Zenon DEF tcp_build_fc06_request
<1>2. Word(addr) /\ Word(value)
  BY WordOf
<1>3. WRITE_SINGLE_REGISTER \in U8
  BY SMT DEF WRITE_SINGLE_REGISTER, U8
<1> QED
  BY <1>1, <1>2, <1>3, BasisPdu

(* mb_tcp_build_fc16_request: the quantity counts the values that follow.  *)
LEMMA Fc16Frame ==
  ASSUME NEW id, Word(id), NEW unit \in U8, NEW addr \in U16, NEW values \in Seq(U16),
         NEW cap \in Nat, tcp_build_fc16_request(id, unit, addr, values, cap) # Refused
  PROVE  Frames(tcp_build_fc16_request(id, unit, addr, values, cap),
                id, WRITE_MULTIPLE_REGISTERS, addr, Len(values))
<1>1. PICK num \in Nat : num = Len(values)
  OBVIOUS
<1>2. PICK count : count = (2 * num) % 256
  OBVIOUS
<1>3. /\ ~(num > MAX_WRITE_REGISTERS)
      /\ tcp_build_fc16_request(id, unit, addr, values, cap)
           = Mbap(id, unit, <<WRITE_MULTIPLE_REGISTERS>> \o U16Bytes(addr) \o U16Bytes(num)
                              \o <<count>> \o RegisterBytes(values))
  BY <1>1, <1>2, SMT DEF tcp_build_fc16_request
<1>4. num <= 123 /\ count \in U8
  <2>1. num <= 123
    BY <1>3, SMT DEF MAX_WRITE_REGISTERS
  <2>2. (2 * num) % 256 \in 0 .. 255
    OBVIOUS
  <2> QED
    BY <1>2, <2>1, <2>2 DEF U8
<1>5. Word(num) /\ Word(addr)
  BY <1>4, WordOf DEF Word
<1>6. WRITE_MULTIPLE_REGISTERS \in U8
  BY SMT DEF WRITE_MULTIPLE_REGISTERS, U8
<1>7. PICK head \in Seq(U8) :
        /\ head = <<WRITE_MULTIPLE_REGISTERS>> \o U16Bytes(addr) \o U16Bytes(num)
        /\ Asks(head, WRITE_MULTIPLE_REGISTERS, addr, num) /\ Len(head) = 5
  BY <1>5, <1>6, PduAsks
<1>8. PICK data \in Seq(U8) : data = RegisterBytes(values) /\ Len(data) = 2 * num
  BY <1>1, RegisterBytesType
<1>9. PICK one \in Seq(U8) : one = <<count>> /\ Len(one) = 1
  <2>1. <<count>> \in Seq(U8) /\ Len(<<count>>) = 1
    BY <1>4
  <2> QED
    BY <2>1, Zenon
<1>10. PICK a \in Seq(U8) : a = head \o one /\ Joins(a, head, 5, one)
  BY <1>7, Joined
<1>11. \A i \in {1, 2, 3, 4, 5} : i \in 1 .. 5 /\ i \in 1 .. 6
  OBVIOUS
<1>12. 5 + Len(one) = 6
  BY <1>9
<1>13. Len(a) = 6 /\ \A i \in {1, 2, 3, 4, 5} : a[i] = head[i]
  BY <1>10, <1>11, <1>12, Zenon DEF Joins
<1>14. PICK pdu \in Seq(U8) : pdu = a \o data /\ Joins(pdu, a, 6, data)
  BY <1>13, Joined
<1>15. \A i \in {1, 2, 3, 4, 5} : pdu[i] = head[i]
  BY <1>11, <1>13, <1>14, Zenon DEF Joins
<1>16. Asks(pdu, WRITE_MULTIPLE_REGISTERS, addr, num)
  BY <1>7, <1>15, Zenon DEF Asks
<1>17. Len(pdu) = 6 + 2 * num
  BY <1>8, <1>14, Zenon DEF Joins
<1>18. Len(pdu) >= 5 /\ Len(pdu) <= 253 /\ Len(pdu) <= 254
  BY <1>4, <1>17
<1>19. Carries(Mbap(id, unit, pdu), id, pdu)
  BY <1>18, ShortPdu, MbapCarries
<1>20. tcp_build_fc16_request(id, unit, addr, values, cap) = Mbap(id, unit, pdu)
  BY <1>3, <1>7, <1>8, <1>9, <1>10, <1>14, Zenon
<1> QED
  BY <1>1, <1>16, <1>18, <1>19, <1>20, SMT DEF Frames

(* mb_tcp_parse_request reads what the frame was built from, and the       *)
(* length field covers the frame.                                          *)
LEMMA FrameParsed ==
  ASSUME NEW m, NEW id, NEW fc, NEW addr, Word(addr), NEW qty, Word(qty),
         Frames(m, id, fc, addr, qty)
  PROVE  /\ m \in Seq(U8) /\ GetU16(m, 1) = id /\ Len(m) = TCP_PREFIX_LEN + GetU16(m, 5)
         /\ tcp_parse_request(m) =
              [fc |-> fc, addr |-> addr,
               qty |-> IF fc = WRITE_SINGLE_REGISTER THEN 1 ELSE qty]
<1>1. PICK pdu \in Seq(U8) :
        /\ Carries(m, id, pdu) /\ Asks(pdu, fc, addr, qty)
        /\ Len(pdu) >= 5 /\ Len(pdu) <= 253
  BY SMT DEF Frames
<1>2. PICK n \in Nat : n = Len(pdu) /\ n >= 5 /\ n <= 253
  BY <1>1
<1>3. /\ m \in Seq(U8) /\ Len(m) = 7 + n /\ GetU16(m, 1) = id /\ GetU16(m, 5) = 1 + n
      /\ \A i \in 1 .. n : m[7 + i] = pdu[i]
  BY <1>1, <1>2, Zenon DEF Carries
<1>4. \A i \in {1, 2, 3, 4, 5} : i \in 1 .. n
  BY <1>2
<1>5. /\ 7 + 1 = 8 /\ 7 + 2 = 9 /\ 7 + 3 = 10 /\ 7 + 4 = 11 /\ 7 + 5 = 12
      /\ 8 + 1 = 9 /\ 9 + 1 = 10 /\ 8 + 3 = 11 /\ 11 + 1 = 12
  OBVIOUS
<1>6. /\ m[7 + 1] = fc /\ m[7 + 2] = Hi(addr) /\ m[7 + 3] = Lo(addr)
      /\ m[7 + 4] = Hi(qty) /\ m[7 + 5] = Lo(qty)
  BY <1>1, <1>3, <1>4, Zenon DEF Asks
<1>7. /\ m[8] = fc /\ m[9] = Hi(addr) /\ m[10] = Lo(addr)
      /\ m[11] = Hi(qty) /\ m[12] = Lo(qty)
  BY <1>5, <1>6, Zenon
<1>8. GetU16(m, 9) = addr /\ GetU16(m, 11) = qty
  BY <1>5, <1>7, FieldRead
<1>9. ParsedAt(m, 8) = [fc |-> fc, addr |-> addr,
                        qty |-> IF fc = WRITE_SINGLE_REGISTER THEN 1 ELSE qty]
  BY <1>5, <1>7, <1>8, Zenon DEF ParsedAt
<1>10. tcp_parse_request(m) = ParsedAt(m, 8)
  <2>1. /\ ~(Len(m) < TCP_PREFIX_LEN) /\ ~(1 + n < 6)
        /\ ~(1 + n > TCP_MAX_ADU_LENGTH - TCP_PREFIX_LEN)
        /\ ~(Len(m) < TCP_PREFIX_LEN + (1 + n))
    BY <1>2, <1>3, SMT DEF TCP_PREFIX_LEN, TCP_MAX_ADU_LENGTH
  <2> QED
    BY <1>3, <2>1, Zenon DEF tcp_parse_request
<1>11. Len(m) = TCP_PREFIX_LEN + GetU16(m, 5)
  BY <1>2, <1>3, SMT DEF TCP_PREFIX_LEN
<1> QED
  BY <1>3, <1>9, <1>10, <1>11, Zenon

(* mb_tcp_build_read_registers_response: the response carries the given    *)
(* transaction id, and its length field covers it.                         *)
LEMMA ResponseFrame ==
  ASSUME NEW id, Word(id), NEW unit \in U8, NEW fc \in U8, NEW data \in Seq(U16),
         NEW cap \in Nat, Len(data) <= MAX_READ_REGISTERS,
         cap >= TCP_PREFIX_LEN + 3 + 2 * Len(data),
         NEW m, m = tcp_build_read_registers_response(id, fc, unit, data, cap)
  PROVE  /\ m \in Seq(U8) /\ GetU16(m, 1) = id
         /\ Len(m) = TCP_PREFIX_LEN + GetU16(m, 5)
<1>1. PICK num \in Nat : num = Len(data) /\ num <= 125
  BY SMT DEF MAX_READ_REGISTERS
<1>2. PICK count \in U8 : count = (2 * num) % 256
  <2>1. (2 * num) % 256 \in 0 .. 255
    OBVIOUS
  <2> QED
    BY <2>1 DEF U8
<1>3. PICK head \in Seq(U8) : head = <<fc, count>> /\ Len(head) = 2
  <2>1. <<fc, count>> \in Seq(U8) /\ Len(<<fc, count>>) = 2
    OBVIOUS
  <2> QED
    BY <2>1, Zenon
<1>4. PICK bytes \in Seq(U8) : bytes = RegisterBytes(data) /\ Len(bytes) = 2 * num
  BY <1>1, RegisterBytesType
<1>5. PICK pdu \in Seq(U8) : pdu = head \o bytes /\ Joins(pdu, head, 2, bytes)
  BY <1>3, Joined
<1>6. Len(pdu) = 2 + 2 * num
  BY <1>4, <1>5, Zenon DEF Joins
<1>7. Len(pdu) <= 254
  BY <1>1, <1>6
<1>8. Carries(Mbap(id, unit, pdu), id, pdu)
  BY <1>7, ShortPdu, MbapCarries
<1>9. m = Mbap(id, unit, pdu)
  <2>1. /\ ~(Len(data) > MAX_READ_REGISTERS)
        /\ ~(cap < TCP_PREFIX_LEN + 3 + 2 * Len(data))
    BY <1>1, SMT DEF MAX_READ_REGISTERS, TCP_PREFIX_LEN
  <2>2. (2 * Len(data)) % 256 = count
    BY <1>1, <1>2
  <2>3. tcp_build_read_registers_response(id, fc, unit, data, cap)
          = Mbap(id, unit, <<fc, (2 * Len(data)) % 256>> \o RegisterBytes(data))
    BY <2>1 DEF tcp_build_read_registers_response
  <2> QED
    BY <1>3, <1>4, <1>5, <2>2, <2>3, Zenon
<1>10. /\ m \in Seq(U8) /\ GetU16(m, 1) = id
       /\ Len(m) = 7 + Len(pdu) /\ GetU16(m, 5) = 1 + Len(pdu)
  BY <1>8, <1>9, Zenon DEF Carries
<1>11. Len(m) = TCP_PREFIX_LEN + GetU16(m, 5)
  BY <1>6, <1>10, SMT DEF TCP_PREFIX_LEN
<1> QED
  BY <1>10, <1>11, Zenon

-----------------------------------------------------------------------------
(* Loops: least elements, induction and recursion over 0 .. n.             *)

(* A nonempty set of numbers has a least one: of the intervals up to its   *)
(* elements one is minimal.                                                *)
LEMMA Least ==
  ASSUME NEW T, T \subseteq Nat, T # {}
  PROVE  \E x \in T : \A y \in T : x <= y
<1> DEFINE I == {0 .. x : x \in T}
           R == StrictSubsetOrdering(Nat)
<1>1. ASSUME NEW x \in T PROVE 0 .. x \in SUBSET Nat /\ IsFiniteSet(0 .. x)
  BY FS_Interval
<1>2. I \subseteq FiniteSubsetsOf(Nat) /\ I # {}
  BY <1>1 DEF FiniteSubsetsOf
<1>3. IsWellFoundedOn(R, FiniteSubsetsOf(Nat))
  BY FS_StrictSubsetOrderingWellFounded
<1>4. PICK i \in I : \A j \in I : ~(<<j, i>> \in R)
  <2> HIDE DEF R, I
  <2> QED
    BY <1>2, <1>3, WFMin
<1>5. PICK x \in T : i = 0 .. x
  OBVIOUS
<1>6. ASSUME NEW y \in T, y < x PROVE FALSE
  <2>1. 0 .. y \in I /\ 0 .. y \subseteq 0 .. x
    BY <1>6
  <2>3. x \in 0 .. x /\ x \notin 0 .. y
    BY <1>6
  <2>4. <<0 .. y, 0 .. x>> \in R
    BY <1>1, <2>1, <2>3 DEF StrictSubsetOrdering
  <2> QED
    BY <1>4, <1>5, <2>1, <2>4
<1> QED
  BY <1>6

(* Induction along a function: what the first value has and every step     *)
(* keeps, all values have.                                                 *)
LEMMA AllAlong ==
  ASSUME NEW S, NEW n \in Nat, NEW f, f[0] \in S,
         \A i \in 1 .. n : f[i - 1] \in S => f[i] \in S
  PROVE  \A i \in 0 .. n : f[i] \in S
<1> DEFINE T == {i \in 0 .. n : f[i] \notin S}
<1>1. SUFFICES ASSUME T # {} PROVE FALSE
  OBVIOUS
<1>2. PICK x \in T : \A y \in T : x <= y
  <2>1. T \subseteq Nat
    OBVIOUS
  <2> HIDE DEF T
  <2> QED
    BY <1>1, <2>1, Least
<1>3. x \in 1 .. n /\ f[x - 1] \notin S
  BY <1>2
<1>4. x - 1 \in T
  BY <1>3
<1> QED
  BY <1>2, <1>3, <1>4

(* g is computed from x0 by n turns of a loop whose body is F.             *)
Follows(g, x0, n, F) == g[0] = x0 /\ \A i \in 1 .. n : g[i] = F[<<g[i - 1], i>>]

(* A function can be defined by recursion over 0 .. n.                     *)
LEMMA Recursion ==
  ASSUME NEW S, NEW x0 \in S, NEW n \in Nat, NEW F \in [S \X (1 .. n) -> S]
  PROVE  \E g \in [0 .. n -> S] : Follows(g, x0, n, F)
<1> DEFINE G(m, g) ==
             /\ g \in [0 .. m -> S] /\ g[0] = x0
             /\ \A i \in 1 .. m : g[i] = F[<<g[i - 1], i>>]
           T == {m \in 0 .. n : ~ \E g : G(m, g)}
<1>1. SUFFICES ASSUME T # {} PROVE FALSE
  <2>1. n \notin T
    BY <1>1
  <2> QED
    BY <2>1 DEF Follows
<1>2. PICK m \in T : \A y \in T : m <= y
  <2>1. T \subseteq Nat
    OBVIOUS
  <2> HIDE DEF T
  <2> QED
    BY <1>1, <2>1, Least
<1>3. \E g : G(0, g)
  <2>1. G(0, [i \in 0 .. 0 |-> x0])
    OBVIOUS
  <2> QED
    BY <2>1
<1>4. m \in 1 .. n /\ m - 1 \in 0 .. n
  <2> HIDE DEF G
  <2> QED
    BY <1>2, <1>3
<1>5. m - 1 \notin T
  <2>1. m \in Nat
    BY <1>4
  <2> HIDE DEF T
  <2> QED
    BY <1>2, <2>1
<1>6. PICK g : G(m - 1, g)
  BY <1>4, <1>5
<1>7. g[m - 1] \in S /\ F[<<g[m - 1], m>>] \in S
  BY <1>4, <1>6
<1> DEFINE h == [i \in 0 .. m |-> IF i = m THEN F[<<g[m - 1], m>>] ELSE g[i]]
<1>8. h \in [0 .. m -> S] /\ h[0] = x0
  BY <1>4, <1>6, <1>7
<1>9. ASSUME NEW i \in 1 .. m PROVE h[i] = F[<<h[i - 1], i>>]
  <2>1. i \in 0 .. m /\ i - 1 \in 0 .. m /\ i - 1 # m
    BY <1>4
  <2>2. h[i - 1] = g[i - 1]
    BY <2>1
  <2>3. CASE i = m
    BY <2>1, <2>2, <2>3
  <2>4. CASE i # m
    <3>1. i \in 1 .. m - 1
      BY <1>4, <2>4
    <3>2. h[i] = g[i]
      BY <2>1, <2>4
    <3> QED
      BY <1>6, <2>2, <3>1, <3>2
  <2> QED
    BY <2>3, <2>4
<1>10. G(m, h)
  BY <1>8, <1>9
<1> QED
  BY <1>2, <1>10

-----------------------------------------------------------------------------
(* CRC-16.                                                                 *)

(* A word is a uint16_t.                                                   *)
LEMMA WordIn == ASSUME NEW x, Word(x) PROVE x \in U16
<1>1. PICK m \in Nat : m = 65535
  OBVIOUS
<1>2. U16 = 0 .. m
  BY <1>1, SMT DEF U16
<1>3. x \in Nat /\ x <= m
  BY <1>1, SMT DEF Word
<1>4. x \in 0 .. m
  BY <1>3
<1> QED
  BY <1>2, <1>4

(* ^ of four bits.                                                         *)
LEMMA XorNibble ==
  ASSUME NEW a \in 0 .. 15, NEW b \in 0 .. 15 PROVE XorU4[a][b] \in 0 .. 15
<1> DEFINE d(p) == (a \div p + b \div p) % 2
<1>1. d(1) \in 0 .. 1 /\ d(2) \in 0 .. 1 /\ d(4) \in 0 .. 1 /\ d(8) \in 0 .. 1
  OBVIOUS
<1>2. XorU4[a][b] = 1 * d(1) + 2 * d(2) + 4 * d(4) + 8 * d(8)
  BY DEF XorU4
<1> HIDE DEF d
<1> QED
  BY <1>1, <1>2

(* ^ of two numbers has 16 bits.                                           *)
LEMMA XorWord ==
  ASSUME NEW a \in Nat, NEW b \in Nat PROVE Xor(a, b) \in U16
<1> DEFINE x(p) == XorU4[(a \div p) % 16][(b \div p) % 16]
<1>1. ASSUME NEW p \in {1, 16, 256, 4096} PROVE x(p) \in 0 .. 15
  <2>1. (a \div p) % 16 \in 0 .. 15 /\ (b \div p) % 16 \in 0 .. 15
    OBVIOUS
  <2> QED
    BY <2>1, XorNibble
<1>2. PICK s \in 0 .. 15 : s = x(1)
  BY <1>1
<1>3. PICK t \in 0 .. 15 : t = x(16)
  BY <1>1
<1>4. PICK u \in 0 .. 15 : u = x(256)
  BY <1>1
<1>5. PICK v \in 0 .. 15 : v = x(4096)
  BY <1>1
<1>6. Xor(a, b) = s + 16 * t + 256 * u + 4096 * v
  BY <1>2, <1>3, <1>4, <1>5 DEF Xor
<1> HIDE DEF x
<1>7. Xor(a, b) \in Nat /\ Xor(a, b) <= 65535
  BY <1>6
<1> QED
  BY <1>7, WordIn DEF Word

(* One turn of the inner loop of mb_rtu_crc16 gives 16 bits, ...           *)
LEMMA ShiftWord ==
  ASSUME NEW c \in U16 PROVE ShiftBit(c) \in U16
<1>1. c \in Nat /\ c <= 65535
  BY WordOf DEF Word
<1>2. c \div 2 \in Nat /\ c \div 2 <= 65535 /\ 40961 \in Nat
  BY <1>1
<1>3. c \div 2 \in U16
  BY <1>2, WordIn DEF Word
<1>4. Xor(c \div 2, 40961) \in U16
  BY <1>2, XorWord
<1> QED
  BY <1>3, <1>4 DEF ShiftBit

(* ... and so do the eight of a byte.                                      *)
LEMMA TakeWord ==
  ASSUME NEW c \in U16, NEW byte \in U8 PROVE TakeByte(c, byte) \in U16
<1>1. c \in Nat /\ byte \in Nat
  <2>1. byte \in Nat
    BY SMT DEF U8
  <2> QED
    BY <2>1, WordOf DEF Word
<1>2. Xor(c, byte) \in U16
  BY <1>1, XorWord
<1> DEFINE shift == [x \in U16 |-> ShiftBit(x)]
<1>3. \A x \in U16 : shift[x] \in U16
  BY ShiftWord
<1>4. TakeByte(c, byte) =
        shift[shift[shift[shift[shift[shift[shift[shift[Xor(c, byte)]]]]]]]]
  BY DEF TakeByte
<1> HIDE DEF shift
<1> QED
  BY <1>2, <1>3, <1>4, Zenon

(* The values of crc in a run of the loop over the bytes.                  *)
Turns(data, crc) ==
  /\ crc[0] = 65535
  /\ \A i \in 1 .. Len(data) : crc[i] = TakeByte(crc[i - 1], data[i])

(* The loop over the bytes can be run, and crc stays a uint16_t.           *)
LEMMA CrcRecursion ==
  ASSUME NEW data \in Seq(U8)
  PROVE  /\ \A i \in 0 .. Len(data) : CrcSteps(data)[i] \in U16
         /\ Turns(data, CrcSteps(data))
<1>3. PICK z \in U16 : z = 65535
  <2>1. 65535 \in U16
    BY SMT DEF U16
  <2> QED
    BY <2>1
<1> DEFINE take == [c \in U16 |-> [byte \in U8 |-> TakeByte(c, byte)]]
           Steps(f) == f = [i \in 0 .. Len(data) |->
                              IF i = 0 THEN z ELSE take[f[i - 1]][data[i]]]
           n == Len(data)
<1>0. n \in Nat /\ \A i \in 1 .. n : data[i] \in U8
  OBVIOUS
<1>1. CrcSteps(data) = CHOOSE f : Steps(f)
  BY <1>3 DEF CrcSteps
<1>2. \A c \in U16, b \in U8 : take[c][b] \in U16 /\ take[c][b] = TakeByte(c, b)
  BY TakeWord
<1> HIDE DEF n, take
<1>4. \E f : Steps(f)
  <2> DEFINE F == [p \in U16 \X (1 .. n) |-> take[p[1]][data[p[2]]]]
  <2>1. F \in [U16 \X (1 .. n) -> U16]
    BY <1>0, <1>2
  <2>2. \A c \in U16, i \in 1 .. n : F[<<c, i>>] = take[c][data[i]]
    OBVIOUS
  <2> HIDE DEF F
  <2>3. PICK g \in [0 .. n -> U16] : Follows(g, z, n, F)
    BY <1>0, <2>1, Recursion
  <2>4. ASSUME NEW i \in 0 .. n
        PROVE  g[i] = IF i = 0 THEN z ELSE take[g[i - 1]][data[i]]
    <3>1. i # 0 => i \in 1 .. n /\ g[i - 1] \in U16
      BY <1>0
    <3>2. CASE i = 0
      BY <2>3, <3>2 DEF Follows
    <3>3. CASE i # 0
      <4>1. g[i] = F[<<g[i - 1], i>>]
        BY <2>3, <3>1, <3>3 DEF Follows
      <4> QED
        BY <2>2, <3>1, <3>3, <4>1
    <3> QED
      BY <3>2, <3>3
  <2>5. Steps(g)
    BY <2>4 DEF n
  <2> QED
    BY <2>5
<1>5. PICK f : f = CrcSteps(data) /\ Steps(f)
  BY <1>1, <1>4
<1>6. /\ f[0] \in U16 /\ f[0] = z
      /\ \A i \in 1 .. n : f[i - 1] \in U16 =>
           f[i] \in U16 /\ f[i] = TakeByte(f[i - 1], data[i])
  <2>1. \A i \in 0 .. n : f[i] = IF i = 0 THEN z ELSE take[f[i - 1]][data[i]]
    BY <1>5 DEF n
  <2>2. f[0] = z
    BY <1>0, <2>1
  <2>3. ASSUME NEW i \in 1 .. n, f[i - 1] \in U16
        PROVE  f[i] \in U16 /\ f[i] = TakeByte(f[i - 1], data[i])
    <3>1. f[i] = take[f[i - 1]][data[i]] /\ data[i] \in U8
      BY <1>0, <2>1
    <3> QED
      BY <1>2, <2>3, <3>1
  <2> QED
    BY <2>2, <2>3
<1>7. \A i \in 0 .. n : f[i] \in U16
  BY <1>0, <1>6, AllAlong
<1>8. \A i \in 1 .. n : f[i] = TakeByte(f[i - 1], data[i])
  <2>1. \A i \in 1 .. n : i - 1 \in 0 .. n
    BY <1>0
  <2> QED
    BY <1>6, <1>7, <2>1
<1>9. Turns(data, f)
  BY <1>3, <1>6, <1>8 DEF n, Turns
<1> QED
  BY <1>5, <1>7, <1>9 DEF n

(* A CRC has 16 bits.                                                      *)
LEMMA CrcWord ==
  ASSUME NEW data \in Seq(U8) PROVE crc16[data] \in U16
<1>1. crc16[data] = CrcSteps(data)[Len(data)]
  BY DEF crc16
<1>2. Len(data) \in 0 .. Len(data)
  OBVIOUS
<1> QED
  BY <1>1, <1>2, CrcRecursion

(* What append_crc adds to a frame.                                        *)
Sealed(g, f) ==
  /\ g \in Seq(U8) /\ Len(g) = Len(f) + 2
  /\ \A i \in 1 .. Len(f) : g[i] = f[i]
  /\ validate_crc(g)

(* A frame that append_crc has completed is a sequence of bytes that       *)
(* validate_crc accepts.                                                   *)
LEMMA AppendSeals ==
  ASSUME NEW f \in Seq(U8), NEW cap, append_crc(f, cap) # Refused
  PROVE  Sealed(append_crc(f, cap), f)
<1>1. PICK c : c = crc16[f] /\ Word(c)
  BY CrcWord, WordOf
<1>2. PICK h, l \in U8 : h = c \div 256 /\ l = c % 256 /\ 256 * h + l = c
  BY <1>1, FieldBytes DEF Hi, Lo
<1>0. l + 256 * h = c
  BY <1>2, SMT DEF U8
<1>3. append_crc(f, cap) = f \o <<l, h>>
  <2>1. append_crc(f, cap) = f \o <<crc16[f] % 256, crc16[f] \div 256>>
    BY DEF append_crc
  <2>2. crc16[f] % 256 = l /\ crc16[f] \div 256 = h
    BY <1>1, <1>2
  <2> QED
    BY <2>1, <2>2
<1>4. PICK g \in Seq(U8) : g = f \o <<l, h>>
  <2>1. <<l, h>> \in Seq(U8)
    OBVIOUS
  <2>2. f \o <<l, h>> \in Seq(U8)
    BY <2>1
  <2> QED
    BY <2>2
<1>5. Len(g) = Len(f) + 2
  BY <1>4
<1>6. \A i \in 1 .. Len(f) : g[i] = f[i]
  BY <1>4
<1>7. g[Len(f) + 1] = l /\ g[Len(f) + 2] = h
  BY <1>4
<1>8. SubSeq(g, 1, Len(f)) = f
  BY <1>4, <1>5, <1>6
<1>9. validate_crc(g)
  <2>1. Len(f) \in Nat /\ Len(g) - RTU_CRC_LEN = Len(f) /\ Len(g) >= RTU_CRC_LEN
    BY <1>5 DEF RTU_CRC_LEN
  <2>2. crc16[SubSeq(g, 1, Len(f))] = g[Len(f) + 1] + 256 * g[Len(f) + 2]
    BY <1>0, <1>1, <1>7, <1>8
  <2> QED
    BY <2>1, <2>2 DEF validate_crc
<1> QED
  BY <1>3, <1>4, <1>5, <1>6, <1>9 DEF Sealed

-----------------------------------------------------------------------------
(* What the CRC tells apart.                                               *)

(* Division by two, ...                                                    *)
LEMMA Halved ==
  ASSUME NEW a \in Nat
  PROVE  /\ a \div 2 \in Nat /\ a % 2 \in 0 .. 1 /\ 2 * (a \div 2) + (a % 2) = a
         /\ (a \div 2) \div 2 = a \div 4 /\ (a \div 4) \div 2 = a \div 8 /\ a \div 1 = a
  OBVIOUS

(* ... and by sixteen.                                                     *)
LEMMA Sixteenths ==
  ASSUME NEW a \in Nat
  PROVE  /\ a \div 16 \in Nat /\ a % 16 \in 0 .. 15 /\ 16 * (a \div 16) + (a % 16) = a
         /\ (a \div 16) \div 16 = a \div 256 /\ (a \div 256) \div 16 = a \div 4096
         /\ a \div 1 = a
  OBVIOUS

(* The four bits of a number below 16.                                     *)
LEMMA NibbleBits ==
  ASSUME NEW a \in 0 .. 15
  PROVE  a = (a % 2) + 2 * ((a \div 2) % 2) + 4 * ((a \div 4) % 2) + 8 * ((a \div 8) % 2)
<1>1. PICK q \in Nat, b \in 0 .. 1 : q = a \div 2 /\ b = a % 2 /\ 2 * q + b = a
  BY Halved
<1>2. PICK r \in Nat, c \in 0 .. 1 : r = q \div 2 /\ c = q % 2 /\ 2 * r + c = q
  BY Halved
<1>3. PICK s \in Nat, d \in 0 .. 1 : s = r \div 2 /\ d = r % 2 /\ 2 * s + d = r
  BY Halved
<1>4. s \in 0 .. 1 /\ a = b + 2 * c + 4 * d + 8 * s
  BY <1>1, <1>2, <1>3
<1>5. r = a \div 4 /\ s = a \div 8 /\ s % 2 = s
  BY <1>1, <1>2, <1>3, <1>4, Halved
<1> QED
  BY <1>1, <1>2, <1>3, <1>4, <1>5, Zenon

(* Bits that two sums have in common.                                      *)
LEMMA SameParity ==
  ASSUME NEW x \in Nat, NEW y \in Nat, NEW z \in Nat, (x + z) % 2 = (y + z) % 2
  PROVE  x % 2 = y % 2
  OBVIOUS

(* ^ of four bits is commutative and, with one operand fixed, one to one.  *)
LEMMA XorNibbleOneToOne ==
  ASSUME NEW a \in 0 .. 15, NEW b \in 0 .. 15, NEW c \in 0 .. 15
  PROVE  /\ XorU4[a][c] = XorU4[c][a]
         /\ XorU4[a][c] = XorU4[b][c] => a = b
<1>1. ASSUME NEW x \in 0 .. 15, NEW y \in 0 .. 15
      PROVE  XorU4[x][y] = 1 * ((x \div 1 + y \div 1) % 2) + 2 * ((x \div 2 + y \div 2) % 2)
                         + 4 * ((x \div 4 + y \div 4) % 2) + 8 * ((x \div 8 + y \div 8) % 2)
  BY DEF XorU4
<1>2. XorU4[a][c] = XorU4[c][a]
  <2>1. \A p \in {1, 2, 4, 8} : a \div p + c \div p = c \div p + a \div p
    OBVIOUS
  <2> QED
    BY <1>1, <2>1
<1>3. ASSUME XorU4[a][c] = XorU4[b][c] PROVE a = b
  <2> DEFINE A(p) == (a \div p + c \div p) % 2
             B(p) == (b \div p + c \div p) % 2
  <2>1. \A p \in {1, 2, 4, 8} : A(p) \in 0 .. 1 /\ B(p) \in 0 .. 1
    OBVIOUS
  <2>2. 1 * A(1) + 2 * A(2) + 4 * A(4) + 8 * A(8) = 1 * B(1) + 2 * B(2) + 4 * B(4) + 8 * B(8)
    <3>1. XorU4[a][c] = 1 * A(1) + 2 * A(2) + 4 * A(4) + 8 * A(8)
      BY <1>1
    <3>2. XorU4[b][c] = 1 * B(1) + 2 * B(2) + 4 * B(4) + 8 * B(8)
      BY <1>1
    <3> HIDE DEF A, B
    <3> QED
      BY <1>3, <3>1, <3>2
  <2>3. \A p \in {1, 2, 4, 8} : A(p) = B(p)
    <3> HIDE DEF A, B
    <3> QED
      BY <2>1, <2>2
  <2>4. ASSUME NEW p \in {1, 2, 4, 8} PROVE (a \div p) % 2 = (b \div p) % 2
    <3>1. PICK x \in Nat, y \in Nat, z \in Nat : x = a \div p /\ y = b \div p /\ z = c \div p
      OBVIOUS
    <3>2. A(p) = B(p)
      BY <2>3
    <3>3. (x + z) % 2 = (y + z) % 2
      BY <3>1, <3>2
    <3>4. x % 2 = y % 2
      BY <3>3, SameParity
    <3> QED
      BY <3>1, <3>4
  <2>5. a \div 1 = a /\ b \div 1 = b
    OBVIOUS
  <2>6. a % 2 = b % 2 /\ (a \div 2) % 2 = (b \div 2) % 2 /\ (a \div 4) % 2 = (b \div 4) % 2
        /\ (a \div 8) % 2 = (b \div 8) % 2
    BY <2>4, <2>5
  <2> QED
    BY <2>6, NibbleBits
<1> QED
  BY <1>2, <1>3

(* The same, as a fact about one result.                                   *)
LEMMA XorNibbleCancels ==
  ASSUME NEW a \in 0 .. 15, NEW b \in 0 .. 15, NEW c \in 0 .. 15, NEW r,
         r = XorU4[a][c], r = XorU4[b][c]
  PROVE  a = b
<1>1. XorU4[a][c] = XorU4[b][c]
  OBVIOUS
<1>2. XorU4[a][c] = XorU4[b][c] => a = b
  BY XorNibbleOneToOne, Zenon
<1> QED
  BY <1>1, <1>2, Zenon

(* The four hexadecimal digits of a word.                                  *)
Digit(x, p) == (x \div p) % 16

Spells(x, a, b, c, d) ==
  /\ a \in 0 .. 15 /\ b \in 0 .. 15 /\ c \in 0 .. 15 /\ d \in 0 .. 15
  /\ x = a + 16 * b + 256 * c + 4096 * d

Has(x, a, b, c, d) ==
  /\ Spells(x, a, b, c, d)
  /\ a = Digit(x, 1) /\ b = Digit(x, 16) /\ c = Digit(x, 256) /\ d = Digit(x, 4096)

(* Every word has four digits, ...                                         *)
LEMMA WordDigits ==
  ASSUME NEW x, Word(x) PROVE \E a, b, c, d : Has(x, a, b, c, d)
<1>0. x \in Nat /\ x <= 65535
  BY DEF Word
<1>1. PICK q \in Nat, a \in 0 .. 15 : q = x \div 16 /\ a = x % 16 /\ 16 * q + a = x
  BY <1>0, Sixteenths
<1>2. PICK r \in Nat, b \in 0 .. 15 : r = q \div 16 /\ b = q % 16 /\ 16 * r + b = q
  BY Sixteenths
<1>3. PICK s \in Nat, c \in 0 .. 15 : s = r \div 16 /\ c = r % 16 /\ 16 * s + c = r
  BY Sixteenths
<1>4. s \in 0 .. 15 /\ x = a + 16 * b + 256 * c + 4096 * s
  BY <1>0, <1>1, <1>2, <1>3
<1>5. r = x \div 256 /\ s = x \div 4096 /\ x \div 1 = x /\ s % 16 = s
  BY <1>0, <1>1, <1>2, <1>3, <1>4, Sixteenths
<1>6. Digit(x, 1) = a /\ Digit(x, 16) = b /\ Digit(x, 256) = c /\ Digit(x, 4096) = s
  BY <1>1, <1>2, <1>3, <1>5 DEF Digit
<1>7. Has(x, a, b, c, s)
  BY <1>4, <1>6 DEF Has, Spells
<1> QED
  BY <1>7

(* ... that tell it from all others.                                       *)
LEMMA SpellsOnce ==
  ASSUME NEW x, NEW a, NEW b, NEW c, NEW d, NEW s, NEW t, NEW u, NEW v,
         Spells(x, a, b, c, d), Spells(x, s, t, u, v)
  PROVE  a = s /\ b = t /\ c = u /\ d = v
<1>1. /\ a \in 0 .. 15 /\ b \in 0 .. 15 /\ c \in 0 .. 15 /\ d \in 0 .. 15
      /\ s \in 0 .. 15 /\ t \in 0 .. 15 /\ u \in 0 .. 15 /\ v \in 0 .. 15
      /\ a + 16 * b + 256 * c + 4096 * d = s + 16 * t + 256 * u + 4096 * v
  BY DEF Spells
<1> QED
  BY <1>1

(* The digits make it up.                                                  *)
LEMMA SpellsSame ==
  ASSUME NEW x, NEW y, NEW a, NEW b, NEW c, NEW d, Spells(x, a, b, c, d), Spells(y, a, b, c, d)
  PROVE  x = y
  BY DEF Spells

(* They are below sixteen.                                                 *)
LEMMA HasDigits ==
  ASSUME NEW x, NEW a, NEW b, NEW c, NEW d, Has(x, a, b, c, d)
  PROVE  a \in 0 .. 15 /\ b \in 0 .. 15 /\ c \in 0 .. 15 /\ d \in 0 .. 15
  BY DEF Has, Spells

(* ^ digit by digit.                                                       *)
LEMMA XorDigits ==
  ASSUME NEW x, NEW a, NEW b, NEW c, NEW d, Has(x, a, b, c, d),
         NEW y, NEW e, NEW f, NEW g, NEW h, Has(y, e, f, g, h)
  PROVE  Spells(Xor(x, y), XorU4[a][e], XorU4[b][f], XorU4[c][g], XorU4[d][h])
<1>1. /\ a \in 0 .. 15 /\ b \in 0 .. 15 /\ c \in 0 .. 15 /\ d \in 0 .. 15
      /\ e \in 0 .. 15 /\ f \in 0 .. 15 /\ g \in 0 .. 15 /\ h \in 0 .. 15
  BY DEF Has, Spells
<1>2. PICK s \in 0 .. 15, t \in 0 .. 15, u \in 0 .. 15, v \in 0 .. 15 :
        s = XorU4[a][e] /\ t = XorU4[b][f] /\ u = XorU4[c][g] /\ v = XorU4[d][h]
  BY <1>1, XorNibble, Zenon
<1>3. Xor(x, y) = 1 * s + 16 * t + 256 * u + 4096 * v
  <2>1. /\ (x \div 1) % 16 = a /\ (x \div 16) % 16 = b
        /\ (x \div 256) % 16 = c /\ (x \div 4096) % 16 = d
    BY DEF Has, Digit
  <2>2. /\ (y \div 1) % 16 = e /\ (y \div 16) % 16 = f
        /\ (y \div 256) % 16 = g /\ (y \div 4096) % 16 = h
    BY DEF Has, Digit
  <2>3. Xor(x, y) = 1 * XorU4[a][e] + 16 * XorU4[b][f] + 256 * XorU4[c][g] + 4096 * XorU4[d][h]
    BY <2>1, <2>2 DEF Xor
  <2> QED
    BY <1>2, <2>3
<1>4. Spells(Xor(x, y), s, t, u, v)
  BY <1>3 DEF Spells
<1> QED
  BY <1>2, <1>4

(* ^ is commutative and, with one operand fixed, one to one.               *)
LEMMA XorOneToOne ==
  ASSUME NEW x, NEW y, NEW z, Word(x), Word(y), Word(z)
  PROVE  /\ Xor(x, z) = Xor(z, x)
         /\ Xor(x, z) = Xor(y, z) => x = y
<1>1. PICK a, b, c, d : Has(x, a, b, c, d)
  BY WordDigits
<1>2. PICK e, f, g, h : Has(y, e, f, g, h)
  BY WordDigits
<1>3. PICK i, j, k, l : Has(z, i, j, k, l)
  BY WordDigits
<1>4. /\ a \in 0 .. 15 /\ b \in 0 .. 15 /\ c \in 0 .. 15 /\ d \in 0 .. 15
      /\ e \in 0 .. 15 /\ f \in 0 .. 15 /\ g \in 0 .. 15 /\ h \in 0 .. 15
      /\ i \in 0 .. 15 /\ j \in 0 .. 15 /\ k \in 0 .. 15 /\ l \in 0 .. 15
  BY <1>1, <1>2, <1>3, HasDigits
<1>5. Spells(Xor(x, z), XorU4[a][i], XorU4[b][j], XorU4[c][k], XorU4[d][l])
  BY <1>1, <1>3, XorDigits
<1>6. Xor(x, z) = Xor(z, x)
  <2>1. Spells(Xor(z, x), XorU4[i][a], XorU4[j][b], XorU4[k][c], XorU4[l][d])
    BY <1>1, <1>3, XorDigits
  <2>2. /\ XorU4[a][i] = XorU4[i][a] /\ XorU4[b][j] = XorU4[j][b]
        /\ XorU4[c][k] = XorU4[k][c] /\ XorU4[d][l] = XorU4[l][d]
    BY <1>4, XorNibbleOneToOne, Zenon
  <2> QED
    BY <1>5, <2>1, <2>2, SpellsSame
<1>7. ASSUME Xor(x, z) = Xor(y, z) PROVE x = y
  <2>1. Spells(Xor(x, z), XorU4[e][i], XorU4[f][j], XorU4[g][k], XorU4[h][l])
    BY <1>2, <1>3, <1>7, XorDigits
  <2>2. /\ XorU4[a][i] = XorU4[e][i] /\ XorU4[b][j] = XorU4[f][j]
        /\ XorU4[c][k] = XorU4[g][k] /\ XorU4[d][l] = XorU4[h][l]
    BY <1>5, <2>1, SpellsOnce
  <2>3. a = e /\ b = f /\ c = g /\ d = h
    <3>1. a = e
      <4>1. PICK r : r = XorU4[a][i] /\ r = XorU4[e][i]
        BY <2>2, Zenon
      <4> QED
        BY <1>4, <4>1, XorNibbleCancels, Zenon
    <3>2. b = f
      <4>1. PICK r : r = XorU4[b][j] /\ r = XorU4[f][j]
        BY <2>2, Zenon
      <4> QED
        BY <1>4, <4>1, XorNibbleCancels, Zenon
    <3>3. c = g
      <4>1. PICK r : r = XorU4[c][k] /\ r = XorU4[g][k]
        BY <2>2, Zenon
      <4> QED
        BY <1>4, <4>1, XorNibbleCancels, Zenon
    <3>4. d = h
      <4>1. PICK r : r = XorU4[d][l] /\ r = XorU4[h][l]
        BY <2>2, Zenon
      <4> QED
        BY <1>4, <4>1, XorNibbleCancels, Zenon
    <3> QED
      BY <3>1, <3>2, <3>3, <3>4
  <2>4. Spells(x, a, b, c, d) /\ Spells(y, e, f, g, h)
    BY <1>1, <1>2 DEF Has
  <2>5. Spells(y, a, b, c, d)
    BY <2>3, <2>4
  <2> QED
    BY <2>4, <2>5, SpellsSame
<1> QED
  BY <1>6, <1>7

(* The polynomial sets the highest bit of a word that was shifted.         *)
LEMMA HighBit ==
  ASSUME NEW x \in Nat, x <= 32767 PROVE Xor(x, 40961) >= 32768
<1>1. Word(x) /\ Word(40961)
  BY DEF Word
<1>2. PICK a, b, c, d : Has(x, a, b, c, d)
  BY <1>1, WordDigits
<1>3. PICK e, f, g, h : Has(40961, e, f, g, h)
  BY <1>1, WordDigits
<1>4. d \in 0 .. 7
  <2>1. /\ a \in 0 .. 15 /\ b \in 0 .. 15 /\ c \in 0 .. 15 /\ d \in 0 .. 15
        /\ x = a + 16 * b + 256 * c + 4096 * d
    BY <1>2 DEF Has, Spells
  <2> QED
    BY <2>1
<1>5. h = 10
  <2>1. /\ e \in 0 .. 15 /\ f \in 0 .. 15 /\ g \in 0 .. 15 /\ h \in 0 .. 15
        /\ 40961 = e + 16 * f + 256 * g + 4096 * h
    BY <1>3 DEF Has, Spells
  <2> QED
    BY <2>1
<1>p. PICK s, t, u, v :
        s = XorU4[a][e] /\ t = XorU4[b][f] /\ u = XorU4[c][g] /\ v = XorU4[d][h]
  OBVIOUS
<1>6. /\ s \in 0 .. 15 /\ t \in 0 .. 15 /\ u \in 0 .. 15 /\ v \in 0 .. 15
      /\ Xor(x, 40961) = s + 16 * t + 256 * u + 4096 * v /\ v = XorU4[d][10]
  <2>1. Spells(Xor(x, 40961), XorU4[a][e], XorU4[b][f], XorU4[c][g], XorU4[d][h])
    BY <1>2, <1>3, XorDigits
  <2>2. Spells(Xor(x, 40961), s, t, u, v)
    BY <1>p, <2>1
  <2>3. v = XorU4[d][10]
    BY <1>5, <1>p
  <2> QED
    BY <2>2, <2>3 DEF Spells
<1>7. v >= 8
  <2> DEFINE m(n) == (d \div n + 10 \div n) % 2
  <2>1. XorU4[d][10] = 1 * m(1) + 2 * m(2) + 4 * m(4) + 8 * m(8)
    BY <1>4 DEF XorU4
  <2>2. m(1) \in 0 .. 1 /\ m(2) \in 0 .. 1 /\ m(4) \in 0 .. 1 /\ m(8) = 1
    BY <1>4
  <2> HIDE DEF m
  <2> QED
    BY <1>6, <2>1, <2>2
<1> QED
  BY <1>6, <1>7

(* A turn of the inner loop is one to one: the bit that is shifted out is  *)
(* found again in the highest one.                                         *)
LEMMA ShiftOneToOne ==
  ASSUME NEW c \in U16, NEW d \in U16, ShiftBit(c) = ShiftBit(d) PROVE c = d
<1>0. Word(c) /\ Word(d) /\ Word(40961)
  <2>1. Word(40961)
    BY DEF Word
  <2> QED
    BY <2>1, WordOf
<1>1. PICK k : k = 40961
  OBVIOUS
<1>2. PICK p \in Nat, e \in 0 .. 1 : p = c \div 2 /\ e = c % 2 /\ 2 * p + e = c /\ p <= 32767
  <2>1. c \in Nat /\ c <= 65535
    BY <1>0 DEF Word
  <2>2. PICK p \in Nat, e \in 0 .. 1 : p = c \div 2 /\ e = c % 2 /\ 2 * p + e = c
    BY <2>1, Halved
  <2>3. p <= 32767
    BY <2>1, <2>2
  <2> QED
    BY <2>2, <2>3
<1>3. PICK q \in Nat, f \in 0 .. 1 : q = d \div 2 /\ f = d % 2 /\ 2 * q + f = d /\ q <= 32767
  <2>1. d \in Nat /\ d <= 65535
    BY <1>0 DEF Word
  <2>2. PICK q \in Nat, f \in 0 .. 1 : q = d \div 2 /\ f = d % 2 /\ 2 * q + f = d
    BY <2>1, Halved
  <2>3. q <= 32767
    BY <2>1, <2>2
  <2> QED
    BY <2>2, <2>3
<1>4. Word(p) /\ Word(q) /\ Word(k)
  <2>0. ASSUME NEW x \in Nat, x <= 32767 PROVE Word(x)
    BY <2>0 DEF Word
  <2>1. Word(p) /\ Word(q)
    BY <1>2, <1>3, <2>0
  <2> QED
    BY <1>0, <1>1, <2>1
<1>5. Xor(p, k) >= 32768 /\ Xor(q, k) >= 32768
  BY <1>1, <1>2, <1>3, HighBit
<1>6. /\ ShiftBit(c) = IF e = 1 THEN Xor(p, k) ELSE p
      /\ ShiftBit(d) = IF f = 1 THEN Xor(q, k) ELSE q
  <2>1. /\ ShiftBit(c) = IF c % 2 = 1 THEN Xor(c \div 2, k) ELSE c \div 2
        /\ ShiftBit(d) = IF d % 2 = 1 THEN Xor(d \div 2, k) ELSE d \div 2
    BY <1>1 DEF ShiftBit
  <2>2. c % 2 = e /\ c \div 2 = p /\ d % 2 = f /\ d \div 2 = q
    BY <1>2, <1>3
  <2> QED
    BY <2>1, <2>2
<1>7. CASE e = 1 /\ f = 1
  <2>1. Xor(p, k) = Xor(q, k)
    BY <1>6, <1>7, Zenon
  <2>2. p = q
    BY <1>4, <2>1, XorOneToOne
  <2> QED
    BY <1>2, <1>3, <1>7, <2>2
<1>8. CASE e = 1 /\ f = 0
  <2>1. Xor(p, k) = q
    <3>1. f # 1
      BY <1>8
    <3> QED
      BY <1>6, <1>8, <3>1, Zenon
  <2> QED
    BY <1>3, <1>5, <2>1
<1>9. CASE e = 0 /\ f = 1
  <2>1. Xor(q, k) = p
    <3>1. e # 1
      BY <1>9
    <3> QED
      BY <1>6, <1>9, <3>1, Zenon
  <2> QED
    BY <1>2, <1>5, <2>1
<1>10. CASE e = 0 /\ f = 0
  <2>1. e # 1 /\ f # 1
    BY <1>10
  <2>2. p = q
    BY <1>6, <2>1, Zenon
  <2> QED
    BY <1>2, <1>3, <1>10, <2>2
<1> QED
  BY <1>7, <1>8, <1>9, <1>10
(* Eight turns are one to one too, ...                                     *)
LEMMA TakeOneToOne ==
  ASSUME NEW c \in U16, NEW d \in U16, NEW x \in U8, NEW y \in U8,
         TakeByte(c, x) = TakeByte(d, y)
  PROVE  Xor(c, x) = Xor(d, y)
<1>1. c \in Nat /\ d \in Nat /\ x \in Nat /\ y \in Nat
  <2>1. Word(c) /\ Word(d)
    BY WordOf
  <2>2. x \in Nat /\ y \in Nat
    BY SMT DEF U8
  <2> QED
    BY <2>1, <2>2 DEF Word
<1>2. Xor(c, x) \in U16 /\ Xor(d, y) \in U16
  BY <1>1, XorWord
<1> DEFINE shift == [v \in U16 |-> ShiftBit(v)]
<1>3. \A v \in U16 : shift[v] \in U16
  BY ShiftWord
<1>4. \A v, w \in U16 : shift[v] = shift[w] => v = w
  BY ShiftOneToOne
<1>5. /\ TakeByte(c, x) =
           shift[shift[shift[shift[shift[shift[shift[shift[Xor(c, x)]]]]]]]]
      /\ TakeByte(d, y) =
           shift[shift[shift[shift[shift[shift[shift[shift[Xor(d, y)]]]]]]]]
  BY DEF TakeByte
<1> HIDE DEF shift
<1>6. PICK v \in U16, w \in U16 : v = Xor(c, x) /\ w = Xor(d, y)
  BY <1>2
<1>7. \A t, u \in U16 : shift[shift[t]] = shift[shift[u]] => t = u
  BY <1>3, <1>4
<1>8. \A t, u \in U16 : shift[shift[shift[shift[t]]]] = shift[shift[shift[shift[u]]]] => t = u
  BY <1>3, <1>7
<1>9. \A t \in U16 : shift[shift[shift[shift[t]]]] \in U16
  BY <1>3
<1>10. v = w
  BY <1>5, <1>6, <1>8, <1>9, Zenon
<1> QED
  BY <1>6, <1>10

(* ... so what the loop over the bytes makes of a byte tells crc before    *)
(* it, and the byte.                                                       *)
LEMMA TakeKeepsApart ==
  ASSUME NEW c \in U16, NEW d \in U16, NEW x \in U8, NEW y \in U8
  PROVE  /\ TakeByte(c, x) = TakeByte(d, x) => c = d
         /\ TakeByte(c, x) = TakeByte(c, y) => x = y
<1>1. Word(c) /\ Word(d)
  BY WordOf
<1>2. Word(x) /\ Word(y)
  <2>1. x \in 0 .. 255 /\ y \in 0 .. 255
    BY DEF U8
  <2> QED
    BY <2>1 DEF Word
<1>3. ASSUME TakeByte(c, x) = TakeByte(d, x) PROVE c = d
  <2>1. Xor(c, x) = Xor(d, x)
    BY <1>3, TakeOneToOne
  <2> QED
    BY <1>1, <1>2, <2>1, XorOneToOne
<1>4. ASSUME TakeByte(c, x) = TakeByte(c, y) PROVE x = y
  <2>1. Xor(c, x) = Xor(c, y)
    BY <1>4, TakeOneToOne
  <2>2. Xor(x, c) = Xor(c, x) /\ Xor(y, c) = Xor(c, y)
    BY <1>1, <1>2, XorOneToOne
  <2>3. Xor(x, c) = Xor(y, c)
    BY <2>1, <2>2, Zenon
  <2> QED
    BY <1>1, <1>2, <2>3, XorOneToOne
<1> QED
  BY <1>3, <1>4

(* The members of a sequence of bytes.                                     *)
LEMMA ByteAt == ASSUME NEW s \in Seq(U8), NEW i \in 1 .. Len(s) PROVE s[i] \in U8
  OBVIOUS

(* g is f with another byte in one place.                                  *)
OneByteOff(f, g) ==
  /\ f \in Seq(U8) /\ g \in Seq(U8) /\ Len(f) = Len(g)
  /\ \E k \in 1 .. Len(f) :
       f[k] # g[k] /\ \A i \in 1 .. Len(f) : i # k => f[i] = g[i]

(* Two sequences of bytes that differ in one place have different CRCs:    *)
(* crc is the same before that place and different from there on.          *)
LEMMA CrcKeepsApart ==
  ASSUME NEW s, NEW t, OneByteOff(s, t) PROVE crc16[s] # crc16[t]
<1>0. s \in Seq(U8) /\ t \in Seq(U8)
  BY DEF OneByteOff
<1>n. PICK n \in Nat : n = Len(s) /\ n = Len(t)
  BY <1>0 DEF OneByteOff
<1>k. PICK k \in 1 .. n : s[k] # t[k] /\ \A i \in 1 .. n : i # k => s[i] = t[i]
  BY <1>n DEF OneByteOff
<1>1. PICK f : f = CrcSteps(s) /\ (\A i \in 0 .. n : f[i] \in U16) /\ Turns(s, f)
  BY <1>0, <1>n, CrcRecursion
<1>2. PICK g : g = CrcSteps(t) /\ (\A i \in 0 .. n : g[i] \in U16) /\ Turns(t, g)
  BY <1>0, <1>n, CrcRecursion
<1>3. /\ f[0] = g[0]
      /\ \A i \in 1 .. n : f[i] = TakeByte(f[i - 1], s[i]) /\ g[i] = TakeByte(g[i - 1], t[i])
  BY <1>n, <1>1, <1>2 DEF Turns
<1>4. \A i \in 1 .. n : s[i] \in U8 /\ t[i] \in U8 /\ f[i - 1] \in U16 /\ g[i - 1] \in U16
  <2>1. \A i \in 1 .. n : i - 1 \in 0 .. n
    OBVIOUS
  <2>2. ASSUME NEW i \in 1 .. n PROVE s[i] \in U8 /\ t[i] \in U8
    <3>1. i \in 1 .. Len(s) /\ i \in 1 .. Len(t)
      BY <1>n
    <3> QED
      BY <1>0, <3>1, ByteAt
  <2>3. ASSUME NEW i \in 1 .. n PROVE f[i - 1] \in U16 /\ g[i - 1] \in U16
    BY <1>1, <1>2, <2>1
  <2> QED
    BY <2>2, <2>3
<1> DEFINE h == [i \in 0 .. n |-> IF (i < k /\ f[i] = g[i]) \/ (~(i < k) /\ f[i] # g[i])
                                  THEN 1 ELSE 0]
<1>h. ASSUME NEW i \in 0 .. n
      PROVE  h[i] \in {1} <=> IF i < k THEN f[i] = g[i] ELSE f[i] # g[i]
  <2>1. h[i] = IF (i < k /\ f[i] = g[i]) \/ (~(i < k) /\ f[i] # g[i]) THEN 1 ELSE 0
    OBVIOUS
  <2> HIDE DEF h
  <2> QED
    BY <2>1
<1> HIDE DEF h
<1>5. h[0] \in {1}
  <2>1. 0 \in 0 .. n /\ 0 < k
    OBVIOUS
  <2> QED
    BY <1>3, <1>h, <2>1
<1>6. ASSUME NEW i \in 1 .. n, h[i - 1] \in {1} PROVE h[i] \in {1}
  <2>0. i - 1 \in 0 .. n /\ i \in 0 .. n
    OBVIOUS
  <2>1. IF i - 1 < k THEN f[i - 1] = g[i - 1] ELSE f[i - 1] # g[i - 1]
    BY <1>6, <1>h, <2>0
  <2>2. f[i] = TakeByte(f[i - 1], s[i]) /\ g[i] = TakeByte(g[i - 1], t[i])
    BY <1>3
  <2>3. CASE i < k
    <3>1. f[i - 1] = g[i - 1] /\ s[i] = t[i]
      BY <1>k, <2>1, <2>3
    <3>2. f[i] = g[i]
      BY <2>2, <3>1
    <3> QED
      BY <1>h, <2>0, <2>3, <3>2
  <2>4. CASE i = k
    <3>1. f[i - 1] = g[i - 1] /\ s[i] # t[i]
      BY <1>k, <2>1, <2>4
    <3>2. TakeByte(f[i - 1], s[i]) # TakeByte(f[i - 1], t[i])
      BY <1>4, <3>1, TakeKeepsApart
    <3>3. f[i] # g[i]
      BY <2>2, <3>1, <3>2
    <3> QED
      BY <1>h, <2>0, <2>4, <3>3
  <2>5. CASE i > k
    <3>1. f[i - 1] # g[i - 1] /\ s[i] = t[i]
      BY <1>k, <2>1, <2>5
    <3>2. TakeByte(f[i - 1], s[i]) # TakeByte(g[i - 1], s[i])
      BY <1>4, <3>1, TakeKeepsApart
    <3>3. f[i] # g[i]
      BY <2>2, <3>1, <3>2
    <3> QED
      BY <1>h, <2>0, <2>5, <3>3
  <2> QED
    BY <2>3, <2>4, <2>5
<1>7. \A i \in 0 .. n : h[i] \in {1}
  <2>1. PICK S : S = {1}
    OBVIOUS
  <2>2. h[0] \in S /\ \A i \in 1 .. n : h[i - 1] \in S => h[i] \in S
    BY <1>5, <1>6, <2>1
  <2>3. \A i \in 0 .. n : h[i] \in S
    BY <2>2, AllAlong
  <2> QED
    BY <2>1, <2>3
<1>8. f[n] # g[n]
  <2>1. n \in 0 .. n /\ ~(n < k)
    OBVIOUS
  <2> QED
    BY <1>7, <1>h, <2>1
<1> QED
  BY <1>0, <1>n, <1>1, <1>2, <1>8 DEF crc16
(* The two bytes of a CRC, ...                                             *)
IsPair(x, lo, hi) == lo \in 0 .. 255 /\ hi \in 0 .. 255 /\ x = lo + 256 * hi

(* ... which tell it from all others.                                      *)
LEMMA PairOnce ==
  ASSUME NEW x, NEW a, NEW b, NEW c, NEW d, IsPair(x, a, b), IsPair(x, c, d)
  PROVE  a = c /\ b = d
<1>1. /\ a \in 0 .. 255 /\ b \in 0 .. 255 /\ c \in 0 .. 255 /\ d \in 0 .. 255
      /\ a + 256 * b = c + 256 * d
  BY DEF IsPair
<1> QED
  BY <1>1

(* ... and make it up.                                                     *)
LEMMA PairSame ==
  ASSUME NEW x, NEW y, NEW a, NEW b, IsPair(x, a, b), IsPair(y, a, b) PROVE x = y
  BY DEF IsPair

(* A frame is the bytes s and the two bytes of a CRC.                      *)
CrcAfter(f, n, s, lo, hi) ==
  /\ s \in Seq(U8) /\ Len(s) = n /\ \A i \in 1 .. n : s[i] = f[i]
  /\ lo = f[n + 1] /\ hi = f[n + 2] /\ IsPair(crc16[s], lo, hi)

(* The parts of a frame that mb_rtu_validate_crc accepts.                  *)
LEMMA CrcParts ==
  ASSUME NEW f \in Seq(U8), NEW n \in Nat, Len(f) = n + 2, validate_crc(f)
  PROVE  \E s, lo, hi : CrcAfter(f, n, s, lo, hi)
<1>1. SubSeq(f, 1, n) \in Seq(U8) /\ Len(SubSeq(f, 1, n)) = n
  OBVIOUS
<1>2. \A i \in 1 .. n : SubSeq(f, 1, n)[i] = f[i]
  OBVIOUS
<1>3. Len(f) - RTU_CRC_LEN = n /\ Len(f) >= RTU_CRC_LEN
  BY DEF RTU_CRC_LEN
<1>4. crc16[SubSeq(f, 1, n)] = f[n + 1] + 256 * f[n + 2]
  BY <1>3 DEF validate_crc
<1>5. n + 1 \in 1 .. Len(f) /\ n + 2 \in 1 .. Len(f)
  OBVIOUS
<1>6. f[n + 1] \in 0 .. 255 /\ f[n + 2] \in 0 .. 255
  BY <1>5, ByteAt DEF U8
<1>7. CrcAfter(f, n, SubSeq(f, 1, n), f[n + 1], f[n + 2])
  BY <1>1, <1>2, <1>4, <1>6 DEF CrcAfter, IsPair
<1> QED
  BY <1>7, Zenon

(* mb_rtu_validate_crc notices a damaged byte, whichever it is and         *)
(* whatever it reads as: of two frames that differ in one byte, of the     *)
(* data or of the CRC itself, it accepts at most one.                      *)
THEOREM DamagedByteIsNoticed ==
  \A f, g : OneByteOff(f, g) /\ validate_crc(f) => ~validate_crc(g)
<1> SUFFICES ASSUME NEW f, NEW g, OneByteOff(f, g), validate_crc(f), validate_crc(g) PROVE FALSE
  OBVIOUS
<1>1. f \in Seq(U8) /\ g \in Seq(U8) /\ Len(f) = Len(g)
  BY DEF OneByteOff
<1>2. PICK n \in Nat : Len(f) = n + 2 /\ Len(g) = n + 2
  <2>1. Len(f) >= 2 /\ Len(f) \in Nat
    BY <1>1 DEF validate_crc, RTU_CRC_LEN
  <2>2. Len(f) - 2 \in Nat /\ Len(f) = (Len(f) - 2) + 2
    BY <2>1
  <2> QED
    BY <1>1, <2>2
<1>3. PICK k \in 1 .. n + 2 : f[k] # g[k] /\ \A i \in 1 .. n + 2 : i # k => f[i] = g[i]
  BY <1>2 DEF OneByteOff
<1>4. PICK s, a, b : CrcAfter(f, n, s, a, b)
  BY <1>1, <1>2, CrcParts
<1>5. PICK t, c, d : CrcAfter(g, n, t, c, d)
  BY <1>1, <1>2, CrcParts
<1>6. s \in Seq(U8) /\ Len(s) = n /\ \A i \in 1 .. n : s[i] = f[i]
  BY <1>4, Zenon DEF CrcAfter
<1>7. t \in Seq(U8) /\ Len(t) = n /\ \A i \in 1 .. n : t[i] = g[i]
  BY <1>5, Zenon DEF CrcAfter
<1>8. a = f[n + 1] /\ b = f[n + 2] /\ IsPair(crc16[s], a, b)
  BY <1>4, Zenon DEF CrcAfter
<1>9. c = g[n + 1] /\ d = g[n + 2] /\ IsPair(crc16[t], c, d)
  BY <1>5, Zenon DEF CrcAfter
<1>10. n + 1 \in 1 .. n + 2 /\ n + 2 \in 1 .. n + 2 /\ n + 1 # n + 2
  OBVIOUS
<1>11. CASE k \in 1 .. n
  <2>1. k # n + 1 /\ k # n + 2
    BY <1>11
  <2>2. a = c /\ b = d
    BY <1>3, <1>8, <1>9, <1>10, <2>1
  <2>3. s[k] # t[k] /\ \A i \in 1 .. n : i # k => s[i] = t[i]
    <3>1. s[k] # t[k]
      BY <1>3, <1>6, <1>7, <1>11
    <3>2. ASSUME NEW i \in 1 .. n, i # k PROVE s[i] = t[i]
      <4>1. i \in 1 .. n + 2
        OBVIOUS
      <4> QED
        BY <1>3, <1>6, <1>7, <3>2, <4>1
    <3> QED
      BY <3>1, <3>2
  <2>4. crc16[s] # crc16[t]
    <3>1. OneByteOff(s, t)
      BY <1>6, <1>7, <1>11, <2>3, Zenon DEF OneByteOff
    <3> QED
      BY <3>1, CrcKeepsApart
  <2> QED
    BY <1>8, <1>9, <2>2, <2>4, PairSame
<1>12. CASE k \notin 1 .. n
  <2>1. ASSUME NEW i \in 1 .. n PROVE s[i] = t[i]
    <3>1. i \in 1 .. n + 2 /\ i # k
      BY <1>12
    <3> QED
      BY <1>3, <1>6, <1>7, <3>1
  <2>2. s = t
    BY <1>6, <1>7, <2>1
  <2>4. a = c /\ b = d
    BY <1>8, <1>9, <2>2, PairOnce
  <2>5. k = n + 1 \/ k = n + 2
    BY <1>12
  <2> QED
    BY <1>3, <1>8, <1>9, <2>4, <2>5
<1> QED
  BY <1>11, <1>12

-----------------------------------------------------------------------------
(* RTU requests.                                                           *)

(* The start of a request: unit, function code, address and quantity.      *)
RtuAsks(f, unit, fc, addr, qty) ==
  /\ f \in Seq(U8) /\ f[1] = unit /\ f[2] = fc
  /\ f[3] = Hi(addr) /\ f[4] = Lo(addr) /\ f[5] = Hi(qty) /\ f[6] = Lo(qty)

(* The six bytes every RTU request begins with.                            *)
LEMMA RtuHead ==
  ASSUME NEW unit \in U8, NEW fc \in U8, NEW addr, Word(addr), NEW qty, Word(qty)
  PROVE  \E f \in Seq(U8) :
           /\ f = <<unit, fc>> \o U16Bytes(addr) \o U16Bytes(qty)
           /\ RtuAsks(f, unit, fc, addr, qty) /\ Len(f) = 6
<1>1. PICK x \in Seq(U8) :
        x = U16Bytes(addr) /\ Len(x) = 2 /\ x[1] = Hi(addr) /\ x[2] = Lo(addr)
  BY FieldSeq, Zenon
<1>2. PICK y \in Seq(U8) :
        y = U16Bytes(qty) /\ Len(y) = 2 /\ y[1] = Hi(qty) /\ y[2] = Lo(qty)
  BY FieldSeq, Zenon
<1>3. PICK h \in Seq(U8) : h = <<unit, fc>> /\ Len(h) = 2 /\ h[1] = unit /\ h[2] = fc
  <2>1. /\ <<unit, fc>> \in Seq(U8) /\ Len(<<unit, fc>>) = 2
        /\ <<unit, fc>>[1] = unit /\ <<unit, fc>>[2] = fc
    OBVIOUS
  <2> QED
    BY <2>1, Zenon
<1>4. /\ \A i \in {1, 2} : i \in 1 .. 2 /\ i \in 1 .. Len(x) /\ i \in 1 .. Len(y)
      /\ \A i \in {1, 2, 3, 4} : i \in 1 .. 4
      /\ 2 + Len(x) = 4 /\ 4 + Len(y) = 6
      /\ 2 + 1 = 3 /\ 2 + 2 = 4 /\ 4 + 1 = 5 /\ 4 + 2 = 6
  BY <1>1, <1>2
<1>5. PICK a \in Seq(U8) : a = h \o x /\ Joins(a, h, 2, x)
  BY <1>3, Joined
<1>6. Len(a) = 4 /\ a[1] = unit /\ a[2] = fc /\ a[2 + 1] = x[1] /\ a[2 + 2] = x[2]
  BY <1>3, <1>4, <1>5, Zenon DEF Joins
<1>7. PICK f \in Seq(U8) : f = a \o y /\ Joins(f, a, 4, y)
  BY <1>6, Joined
<1>8. /\ Len(f) = 6 /\ f[1] = a[1] /\ f[2] = a[2] /\ f[3] = a[3] /\ f[4] = a[4]
      /\ f[4 + 1] = y[1] /\ f[4 + 2] = y[2]
  BY <1>4, <1>7, Zenon DEF Joins
<1>9. RtuAsks(f, unit, fc, addr, qty)
  BY <1>1, <1>2, <1>4, <1>6, <1>8, Zenon DEF RtuAsks
<1> QED
  BY <1>1, <1>2, <1>3, <1>5, <1>7, <1>8, <1>9, Zenon

(* A request that was sealed asks for the same.                            *)
LEMMA SealedAsks ==
  ASSUME NEW f, NEW unit, NEW fc, NEW addr, NEW qty, RtuAsks(f, unit, fc, addr, qty),
         Len(f) >= 6, NEW g, Sealed(g, f)
  PROVE  RtuAsks(g, unit, fc, addr, qty)
<1>1. f \in Seq(U8)
  BY DEF RtuAsks
<1>2. \A i \in {1, 2, 3, 4, 5, 6} : i \in 1 .. Len(f)
  BY <1>1
<1>3. \A i \in {1, 2, 3, 4, 5, 6} : g[i] = f[i]
  BY <1>2, Zenon DEF Sealed
<1> QED
  BY <1>3, Zenon DEF RtuAsks, Sealed

(* mb_rtu_build_request_basis, when it accepts its arguments.              *)
LEMMA RtuBasisFrame ==
  ASSUME NEW unit \in U8, NEW fc \in Int, NEW addr \in Int, NEW nb \in U16, NEW cap,
         NEW g, g = rtu_build_request_basis(unit, fc, addr, nb, cap), g # Refused
  PROVE  /\ fc \in U8 /\ Word(addr) /\ Word(nb)
         /\ RtuAsks(g, unit, fc, addr, nb) /\ Len(g) = RTU_MIN_REQ_LENGTH /\ validate_crc(g)
<1>1. /\ fc \in U8 /\ addr \in U16
      /\ g = append_crc(<<unit, fc>> \o U16Bytes(addr) \o U16Bytes(nb), cap)
  BY Zenon DEF rtu_build_request_basis
<1>2. Word(addr) /\ Word(nb)
  BY <1>1, WordOf
<1>3. PICK f \in Seq(U8) :
        /\ f = <<unit, fc>> \o U16Bytes(addr) \o U16Bytes(nb)
        /\ RtuAsks(f, unit, fc, addr, nb) /\ Len(f) = 6
  BY <1>1, <1>2, RtuHead
<1>4. Sealed(g, f)
  BY <1>1, <1>3, AppendSeals
<1>5. RtuAsks(g, unit, fc, addr, nb)
  <2>1. Len(f) >= 6
    BY <1>3
  <2> QED
    BY <1>3, <1>4, <2>1, SealedAsks
<1>6. validate_crc(g) /\ Len(g) = Len(f) + 2
  BY <1>4 DEF Sealed
<1>7. Len(g) = RTU_MIN_REQ_LENGTH
  BY <1>3, <1>6 DEF RTU_MIN_REQ_LENGTH
<1> QED
  BY <1>1, <1>2, <1>5, <1>6, <1>7

(* mb_rtu_build_fc16_request: the byte count covers the values.            *)
LEMMA RtuFc16Frame ==
  ASSUME NEW unit \in U8, NEW addr \in U16, NEW values \in Seq(U16), NEW cap \in Nat,
         NEW g, g = rtu_build_fc16_request(unit, addr, values, cap), g # Refused
  PROVE  /\ Word(addr) /\ Word(Len(values))
         /\ RtuAsks(g, unit, WRITE_MULTIPLE_REGISTERS, addr, Len(values))
         /\ validate_crc(g) /\ Len(values) \in 1 .. 123
         /\ g[7] = 2 * Len(values) /\ Len(g) = 9 + 2 * Len(values)
<1>1. PICK num \in Nat : num = Len(values)
  OBVIOUS
<1>2. PICK count : count = (2 * num) % 256
  OBVIOUS
<1>3. /\ ~(num > MAX_WRITE_REGISTERS) /\ num # 0
      /\ g = append_crc(<<unit, WRITE_MULTIPLE_REGISTERS>> \o U16Bytes(addr)
                          \o U16Bytes(num) \o <<count>> \o RegisterBytes(values), cap)
  BY <1>1, <1>2, SMT DEF rtu_build_fc16_request
<1>4. num \in 1 .. 123 /\ count = 2 * num /\ count \in U8
  <2>1. num \in 1 .. 123
    BY <1>3, SMT DEF MAX_WRITE_REGISTERS
  <2>2. (2 * num) % 256 = 2 * num /\ 2 * num \in 0 .. 255
    BY <2>1
  <2> QED
    BY <1>2, <2>1, <2>2 DEF U8
<1>5. Word(num) /\ Word(addr)
  BY <1>4, WordOf DEF Word
<1>6. WRITE_MULTIPLE_REGISTERS \in U8
  BY SMT DEF WRITE_MULTIPLE_REGISTERS, U8
<1>7. PICK head \in Seq(U8) :
        /\ head = <<unit, WRITE_MULTIPLE_REGISTERS>> \o U16Bytes(addr) \o U16Bytes(num)
        /\ RtuAsks(head, unit, WRITE_MULTIPLE_REGISTERS, addr, num) /\ Len(head) = 6
  BY <1>5, <1>6, RtuHead
<1>8. PICK data \in Seq(U8) : data = RegisterBytes(values) /\ Len(data) = 2 * num
  BY <1>1, RegisterBytesType
<1>9. PICK one \in Seq(U8) : one = <<count>> /\ Len(one) = 1 /\ one[1] = count
  <2>1. <<count>> \in Seq(U8) /\ Len(<<count>>) = 1 /\ <<count>>[1] = count
    BY <1>4
  <2> QED
    BY <2>1, Zenon
<1>10. PICK a \in Seq(U8) : a = head \o one /\ Joins(a, head, 6, one)
  BY <1>7, Joined
<1>11. /\ \A i \in {1, 2, 3, 4, 5, 6} : i \in 1 .. 6 /\ i \in 1 .. 7
       /\ 7 \in 1 .. 7 /\ 6 + 1 = 7 /\ 1 \in 1 .. Len(one) /\ 6 + Len(one) = 7
  BY <1>9
<1>13. /\ Len(a) = 7 /\ a[6 + 1] = count
       /\ \A i \in {1, 2, 3, 4, 5, 6} : a[i] = head[i]
  BY <1>9, <1>10, <1>11, Zenon DEF Joins
<1>14. PICK f \in Seq(U8) : f = a \o data /\ Joins(f, a, 7, data)
  BY <1>13, Joined
<1>15. f[7] = count /\ \A i \in {1, 2, 3, 4, 5, 6} : f[i] = head[i]
  BY <1>11, <1>13, <1>14, Zenon DEF Joins
<1>16. RtuAsks(f, unit, WRITE_MULTIPLE_REGISTERS, addr, num)
  BY <1>7, <1>15, Zenon DEF RtuAsks
<1>17. Len(f) = 7 + 2 * num
  BY <1>8, <1>14, Zenon DEF Joins
<1>18. g = append_crc(f, cap)
  BY <1>3, <1>7, <1>8, <1>9, <1>10, <1>14, Zenon
<1>19. Sealed(g, f)
  BY <1>18, AppendSeals
<1>20. Len(f) >= 6 /\ 7 \in 1 .. Len(f)
  BY <1>4, <1>17
<1>21. RtuAsks(g, unit, WRITE_MULTIPLE_REGISTERS, addr, num)
  BY <1>16, <1>19, <1>20, SealedAsks
<1>22. validate_crc(g) /\ g[7] = count /\ Len(g) = Len(f) + 2
  BY <1>15, <1>19, <1>20 DEF Sealed
<1>23. Len(g) = 9 + 2 * num
  BY <1>17, <1>22
<1> QED
  BY <1>1, <1>4, <1>5, <1>21, <1>22, <1>23

(* mb_rtu_parse_request reads what the request was built from.             *)
LEMMA RtuParsed ==
  ASSUME NEW g, NEW unit, NEW fc, NEW addr, Word(addr), NEW qty, Word(qty),
         RtuAsks(g, unit, fc, addr, qty), Len(g) >= RTU_MIN_REQ_LENGTH, validate_crc(g)
  PROVE  rtu_parse_request(g) = [fc |-> fc, addr |-> addr,
                                 qty |-> IF fc = WRITE_SINGLE_REGISTER THEN 1 ELSE qty]
<1>1. 2 + 1 = 3 /\ 2 + 3 = 5 /\ 3 + 1 = 4 /\ 5 + 1 = 6
  OBVIOUS
<1>2. GetU16(g, 3) = addr /\ GetU16(g, 5) = qty
  BY <1>1, FieldRead DEF RtuAsks
<1>3. ParsedAt(g, 2) = [fc |-> fc, addr |-> addr,
                        qty |-> IF fc = WRITE_SINGLE_REGISTER THEN 1 ELSE qty]
  BY <1>1, <1>2, Zenon DEF ParsedAt, RtuAsks
<1>4. ~(Len(g) < RTU_MIN_REQ_LENGTH)
  BY DEF RtuAsks, RTU_MIN_REQ_LENGTH
<1> QED
  BY <1>3, <1>4 DEF rtu_parse_request

(* A frame is refused, or mb_rtu_parse_request reads this from it.         *)
ReadsBack(f, fc, addr, qty) ==
  f # Refused => rtu_parse_request(f) = [fc |-> fc, addr |-> addr, qty |-> qty]

(* For all arguments of their C types: what mb_rtu_build_request_basis,    *)
(* _fc06_request and _fc16_request accept, mb_rtu_parse_request reads back *)
(* from the frame, CRC included.                                           *)
THEOREM RtuRequestsRoundTrip ==
  /\ \A unit \in U8, fc \in Int, addr \in Int, nb \in U16, cap \in Nat :
       ReadsBack(rtu_build_request_basis(unit, fc, addr, nb, cap),
                 fc, addr, IF fc = WRITE_SINGLE_REGISTER THEN 1 ELSE nb)
  /\ \A unit \in U8, addr \in U16, value \in U16, cap \in Nat :
       ReadsBack(rtu_build_fc06_request(unit, addr, value, cap),
                 WRITE_SINGLE_REGISTER, addr, 1)
  /\ \A unit \in U8, addr \in U16, values \in Seq(U16), cap \in Nat :
       ReadsBack(rtu_build_fc16_request(unit, addr, values, cap),
                 WRITE_MULTIPLE_REGISTERS, addr, Len(values))
<1>1. ASSUME NEW unit \in U8, NEW fc \in Int, NEW addr \in Int, NEW nb \in U16, NEW cap \in Nat
      PROVE  ReadsBack(rtu_build_request_basis(unit, fc, addr, nb, cap),
                       fc, addr, IF fc = WRITE_SINGLE_REGISTER THEN 1 ELSE nb)
  <2> SUFFICES ASSUME NEW f, f = rtu_build_request_basis(unit, fc, addr, nb, cap), f # Refused
               PROVE  rtu_parse_request(f) = [fc |-> fc, addr |-> addr,
                        qty |-> IF fc = WRITE_SINGLE_REGISTER THEN 1 ELSE nb]
    BY Zenon DEF ReadsBack
  <2>1. /\ Word(addr) /\ Word(nb) /\ RtuAsks(f, unit, fc, addr, nb)
        /\ Len(f) = RTU_MIN_REQ_LENGTH /\ validate_crc(f)
    BY RtuBasisFrame
  <2>2. Len(f) >= RTU_MIN_REQ_LENGTH
    BY <2>1 DEF RTU_MIN_REQ_LENGTH
  <2> QED
    BY <2>1, <2>2, RtuParsed
<1>2. ASSUME NEW unit \in U8, NEW addr \in U16, NEW value \in U16, NEW cap \in Nat
      PROVE  ReadsBack(rtu_build_fc06_request(unit, addr, value, cap),
                       WRITE_SINGLE_REGISTER, addr, 1)
  <2>1. addr \in Int /\ WRITE_SINGLE_REGISTER \in Int
    BY WordOf DEF Word, WRITE_SINGLE_REGISTER
  <2>2. ReadsBack(rtu_build_request_basis(unit, WRITE_SINGLE_REGISTER, addr, value, cap),
                  WRITE_SINGLE_REGISTER, addr, 1)
    BY <1>1, <2>1
  <2> QED
    BY <2>2, Zenon DEF rtu_build_fc06_request
<1>3. ASSUME NEW unit \in U8, NEW addr \in U16, NEW values \in Seq(U16), NEW cap \in Nat
      PROVE  ReadsBack(rtu_build_fc16_request(unit, addr, values, cap),
                       WRITE_MULTIPLE_REGISTERS, addr, Len(values))
  <2> SUFFICES ASSUME NEW f, f = rtu_build_fc16_request(unit, addr, values, cap), f # Refused
               PROVE  rtu_parse_request(f) =
                        [fc |-> WRITE_MULTIPLE_REGISTERS, addr |-> addr, qty |-> Len(values)]
    BY Zenon DEF ReadsBack
  <2>1. /\ Word(addr) /\ Word(Len(values)) /\ validate_crc(f)
        /\ RtuAsks(f, unit, WRITE_MULTIPLE_REGISTERS, addr, Len(values))
        /\ Len(values) \in 1 .. 123 /\ Len(f) = 9 + 2 * Len(values)
    BY RtuFc16Frame
  <2>2. Len(f) >= RTU_MIN_REQ_LENGTH
    BY <2>1 DEF RTU_MIN_REQ_LENGTH
  <2>3. WRITE_MULTIPLE_REGISTERS # WRITE_SINGLE_REGISTER
    BY DEF WRITE_MULTIPLE_REGISTERS, WRITE_SINGLE_REGISTER
  <2> QED
    BY <2>1, <2>2, <2>3, RtuParsed
<1> QED
  BY <1>1, <1>2, <1>3, Zenon
===============================================================================
