--------------------------- MODULE RtuServerProofs ---------------------------
(***************************************************************************)
(* Proofs, for every set of requests, every configuration, every size of   *)
(* the buffer and every way the line behaves, of the safety properties of  *)
(* RtuServer that do not depend on which CRCs happen to collide.           *)
(***************************************************************************)
EXTENDS RtuServer, ModbusFramesProofs

USE CapAssumption

(* A whole request: as long as its function code and byte count say, with  *)
(* the right CRC.                                                          *)
WholeRequest(f) ==
  /\ f \in Seq(U8) /\ Len(f) >= RTU_MIN_REQ_LENGTH
  /\ get_complete_request_len(f) = Len(f)
  /\ validate_crc(f)

(* A byte is a number.                                                     *)
LEMMA ByteNat == ASSUME NEW x \in U8 PROVE x \in Nat
  BY SMT DEF U8

(* What get_complete_request_len may return.                               *)
LEMMA CompleteLen ==
  ASSUME NEW b \in Seq(U8), NEW n, n = get_complete_request_len(b)
  PROVE  \/ n = 0 \/ n = FRAME_ERROR
         \/ n \in Nat /\ n >= RTU_MIN_REQ_LENGTH /\ n <= Len(b) /\ n <= RxCap
<1>1. Len(b) > 6 => b[7] \in Nat
  <2>1. Len(b) > 6 => b[7] \in U8
    OBVIOUS
  <2> QED
    BY <2>1, ByteNat
<1>2. CASE Len(b) < 2
  BY <1>2 DEF get_complete_request_len
<1>3. CASE Len(b) >= 2 /\ b[2] \in WriteMultiple
  <2>1. CASE Len(b) <= 6
    BY <1>3, <2>1 DEF get_complete_request_len
  <2>2. CASE Len(b) > 6 /\ (b[7] = 0 \/ 9 + b[7] > RxCap)
    BY <1>3, <2>2 DEF get_complete_request_len
  <2>3. CASE Len(b) > 6 /\ ~(b[7] = 0 \/ 9 + b[7] > RxCap)
    <3>1. n = IF Len(b) < 9 + b[7] THEN 0 ELSE 9 + b[7]
      BY <1>3, <2>3 DEF get_complete_request_len
    <3> QED
      BY <1>1, <2>3, <3>1 DEF RTU_MIN_REQ_LENGTH
  <2> QED
    BY <2>1, <2>2, <2>3
<1>4. CASE Len(b) >= 2 /\ b[2] \notin WriteMultiple
  <2>1. n = IF RxCap < RTU_MIN_REQ_LENGTH THEN FRAME_ERROR
            ELSE IF Len(b) < RTU_MIN_REQ_LENGTH THEN 0 ELSE RTU_MIN_REQ_LENGTH
    BY <1>4 DEF get_complete_request_len
  <2> QED
    BY <2>1 DEF RTU_MIN_REQ_LENGTH
<1> QED
  BY <1>2, <1>3, <1>4

(* The length depends on no byte after the request.                        *)
LEMMA CompletePrefix ==
  ASSUME NEW b \in Seq(U8), NEW n \in Nat, n = get_complete_request_len(b),
         n >= RTU_MIN_REQ_LENGTH, n <= Len(b), n <= RxCap
  PROVE  get_complete_request_len(SubSeq(b, 1, n)) = n
<1>1. PICK f \in Seq(U8) : f = SubSeq(b, 1, n) /\ Len(f) = n /\ f[2] = b[2] /\ f[7] = b[7]
  <2>1. /\ SubSeq(b, 1, n) \in Seq(U8) /\ Len(SubSeq(b, 1, n)) = n
        /\ SubSeq(b, 1, n)[2] = b[2] /\ SubSeq(b, 1, n)[7] = b[7]
    BY DEF RTU_MIN_REQ_LENGTH
  <2> QED
    BY <2>1
<1>2. Len(b) >= 2 /\ Len(b) > 6 /\ Len(f) >= 2 /\ Len(f) > 6 /\ b[7] \in U8
  BY <1>1 DEF RTU_MIN_REQ_LENGTH
<1>3. b[7] \in Nat
  BY <1>2, ByteNat
<1>4. CASE b[2] \in WriteMultiple
  <2>1. ~(b[7] = 0 \/ 9 + b[7] > RxCap)
    BY <1>2, <1>4 DEF get_complete_request_len, FRAME_ERROR, RTU_MIN_REQ_LENGTH
  <2>2. n = 9 + b[7]
    BY <1>2, <1>3, <1>4, <2>1 DEF get_complete_request_len, RTU_MIN_REQ_LENGTH
  <2>3. get_complete_request_len(f) = 9 + f[7]
    BY <1>1, <1>2, <1>3, <1>4, <2>1, <2>2 DEF get_complete_request_len
  <2> QED
    BY <1>1, <2>2, <2>3
<1>5. CASE b[2] \notin WriteMultiple
  <2>1. n = RTU_MIN_REQ_LENGTH
    BY <1>2, <1>5 DEF get_complete_request_len, RTU_MIN_REQ_LENGTH, FRAME_ERROR
  <2>2. get_complete_request_len(f) = RTU_MIN_REQ_LENGTH
    BY <1>1, <1>2, <1>5, <2>1 DEF get_complete_request_len, RTU_MIN_REQ_LENGTH
  <2> QED
    BY <1>1, <2>1, <2>2
<1> QED
  BY <1>4, <1>5

(* What is left after bytes were dropped.                                  *)
LEMMA Dropped ==
  ASSUME NEW S, NEW b \in Seq(S), NEW k \in 0 .. Len(b)
  PROVE  /\ Drop(b, k) \in Seq(S) /\ Len(Drop(b, k)) = Len(b) - k
         /\ Drop(b, Len(b)) = <<>>
  BY DEF Drop

(* The loop of extract_request_frame ends: at the latest when all bytes    *)
(* are dropped.                                                            *)
LEMMA Extracts ==
  ASSUME NEW b \in Seq(U8), NEW r, r = extract_request_frame(b)
  PROVE  /\ r.rest \in Seq(U8) /\ Len(r.rest) <= Len(b)
         /\ r.frame \in Seq(U8)
         /\ r.frame # <<>> => WholeRequest(r.frame)
<1> DEFINE Ends(k) == LoopEnds[Drop(b, k)] /\ \A j \in 0 .. k - 1 : ~LoopEnds[Drop(b, j)]
           T == {k \in 0 .. Len(b) : LoopEnds[Drop(b, k)]}
<1>1. Len(b) \in T
  <2>1. Drop(b, Len(b)) = <<>> /\ Drop(b, Len(b)) \in Seq(U8)
    BY Dropped
  <2>2. get_complete_request_len(<<>>) = 0
    BY DEF get_complete_request_len
  <2>3. LoopEnds[Drop(b, Len(b))]
    BY <2>1, <2>2 DEF LoopEnds
  <2> QED
    BY <2>3
<1>2. \E k \in 0 .. Len(b) : Ends(k)
  <2>1. T \subseteq Nat /\ T # {}
    BY <1>1
  <2>2. PICK k \in T : \A j \in T : k <= j
    <3> HIDE DEF T
    <3> QED
      BY <2>1, Least
  <2>3. k \in 0 .. Len(b) /\ LoopEnds[Drop(b, k)]
    BY <2>2
  <2>4. ASSUME NEW j \in 0 .. k - 1 PROVE ~LoopEnds[Drop(b, j)]
    <3>1. j \in 0 .. Len(b) /\ ~(k <= j)
      BY <2>3
    <3>2. j \notin T
      <4> HIDE DEF T
      <4> QED
        BY <2>2, <3>1
    <3> QED
      BY <3>1, <3>2
  <2> QED
    BY <2>3, <2>4
<1>3. PICK k \in 0 .. Len(b) : Ends(k) /\ k = CHOOSE i \in 0 .. Len(b) : Ends(i)
  <2> HIDE DEF Ends
  <2> QED
    BY <1>2
<1>4. PICK left \in Seq(U8) : left = Drop(b, k) /\ Len(left) <= Len(b)
  <2>1. Drop(b, k) \in Seq(U8) /\ Len(Drop(b, k)) = Len(b) - k
    BY Dropped
  <2>2. Len(b) \in Nat /\ k \in Nat
    OBVIOUS
  <2>3. Len(Drop(b, k)) <= Len(b)
    BY <2>1, <2>2
  <2> QED
    BY <2>1, <2>3
<1>5. PICK n : n = get_complete_request_len(left)
  OBVIOUS
<1>6. r = [frame |-> SubSeq(left, 1, n), rest |-> Drop(left, n)]
  BY <1>3, <1>4, <1>5 DEF extract_request_frame
<1>7. n = 0 \/ (n > 0 /\ validate_crc(SubSeq(left, 1, n)))
  BY <1>3, <1>4, <1>5 DEF LoopEnds
<1>8. CASE n = 0
  <2>1. SubSeq(left, 1, 0) = <<>> /\ Drop(left, 0) = left
    BY DEF Drop
  <2> QED
    BY <1>4, <1>6, <1>8, <2>1
<1>9. CASE n # 0
  <2>1. n \in Nat /\ n >= RTU_MIN_REQ_LENGTH /\ n <= Len(left) /\ n <= RxCap
    BY <1>5, <1>7, <1>9, CompleteLen DEF FRAME_ERROR
  <2>2. SubSeq(left, 1, n) \in Seq(U8) /\ Len(SubSeq(left, 1, n)) = n
    BY <2>1
  <2>3. Drop(left, n) \in Seq(U8) /\ Len(Drop(left, n)) <= Len(left)
    BY <2>1, Dropped
  <2>4. WholeRequest(SubSeq(left, 1, n))
    BY <1>5, <1>7, <1>9, <2>1, <2>2, CompletePrefix DEF WholeRequest
  <2> QED
    BY <1>4, <1>6, <2>2, <2>3, <2>4
<1> QED
  BY <1>8, <1>9

(* A whole request is recognised whatever follows it.                      *)
LEMMA WholeLen ==
  ASSUME NEW f, WholeRequest(f), NEW b \in Seq(U8),
         Len(f) <= Len(b), b[2] = f[2], b[7] = f[7]
  PROVE  get_complete_request_len(b) = Len(f)
<1>1. /\ f \in Seq(U8) /\ Len(f) >= 8 /\ get_complete_request_len(f) = Len(f)
  BY DEF WholeRequest, RTU_MIN_REQ_LENGTH
<1>2. f[7] \in Nat
  <2>1. f[7] \in U8
    BY <1>1
  <2> QED
    BY <2>1, ByteNat
<1>3. PICK n \in Nat, m \in Nat : n = Len(f) /\ m = Len(b) /\ n >= 8 /\ n <= m
  BY <1>1
<1>4. CASE f[2] \in WriteMultiple
  <2>1. ~(f[7] = 0 \/ 9 + f[7] > RxCap)
    BY <1>1, <1>3, <1>4 DEF get_complete_request_len, FRAME_ERROR
  <2>2. n = 9 + f[7]
    BY <1>1, <1>2, <1>3, <1>4, <2>1 DEF get_complete_request_len
  <2>3. get_complete_request_len(b) = 9 + b[7]
    BY <1>2, <1>3, <1>4, <2>1, <2>2 DEF get_complete_request_len
  <2> QED
    BY <1>3, <2>2, <2>3
<1>5. CASE f[2] \notin WriteMultiple
  <2>1. n = RTU_MIN_REQ_LENGTH
    BY <1>1, <1>3, <1>5 DEF get_complete_request_len, RTU_MIN_REQ_LENGTH, FRAME_ERROR
  <2>2. get_complete_request_len(b) = RTU_MIN_REQ_LENGTH
    BY <1>3, <1>5, <2>1 DEF get_complete_request_len, RTU_MIN_REQ_LENGTH
  <2> QED
    BY <1>3, <2>1, <2>2
<1> QED
  BY <1>4, <1>5

(* A whole request that stands at the front of the buffer is taken as it   *)
(* is, and what follows it is kept.                                        *)
LEMMA WholeFound ==
  ASSUME NEW f, WholeRequest(f), NEW rest \in Seq(U8)
  PROVE  extract_request_frame(f \o rest) = [frame |-> f, rest |-> rest]
<1>1. f \in Seq(U8) /\ validate_crc(f) /\ Len(f) >= 8 /\ Len(f) \in Nat
  BY DEF WholeRequest, RTU_MIN_REQ_LENGTH
<1>2. PICK b \in Seq(U8) : b = f \o rest
  <2>1. f \o rest \in Seq(U8)
    BY <1>1
  <2> QED
    BY <2>1
<1>3. /\ Len(b) = Len(f) + Len(rest) /\ Len(f) <= Len(b) /\ b[2] = f[2] /\ b[7] = f[7]
  BY <1>1, <1>2
<1>4. SubSeq(b, 1, Len(f)) = f
  BY <1>1, <1>2
<1>5. SubSeq(b, Len(f) + 1, Len(b)) = rest
  BY <1>1, <1>2, <1>3
<1>6. Drop(b, 0) = b /\ Drop(b, Len(f)) = rest
  BY <1>5 DEF Drop
<1>7. get_complete_request_len(b) = Len(f)
  BY <1>3, WholeLen
<1>8. LoopEnds[Drop(b, 0)]
  <2>1. LoopEnds[b] = (\/ Len(f) = 0
                       \/ Len(f) > 0 /\ validate_crc(SubSeq(b, 1, Len(f))))
    BY <1>7 DEF LoopEnds
  <2>2. validate_crc(SubSeq(b, 1, Len(f))) /\ Len(f) > 0
    <3>1. Len(f) > 0
      BY <1>1
    <3> QED
      BY <1>1, <1>4, <3>1, Zenon
  <2>3. LoopEnds[b]
    BY <2>1, <2>2, Zenon
  <2> QED
    BY <1>6, <2>3, Zenon
<1> DEFINE Ends(k) == LoopEnds[Drop(b, k)] /\ \A j \in 0 .. k - 1 : ~LoopEnds[Drop(b, j)]
<1>9. Ends(0) /\ 0 \in 0 .. Len(b)
  BY <1>8
<1>10. ASSUME NEW k \in 0 .. Len(b), Ends(k) PROVE k = 0
  <2>1. k # 0 => 0 \in 0 .. k - 1
    OBVIOUS
  <2> QED
    BY <1>8, <1>10, <2>1
<1>11. 0 = CHOOSE k \in 0 .. Len(b) : Ends(k)
  <2> HIDE DEF Ends
  <2> QED
    BY <1>9, <1>10
<1>12. extract_request_frame(b) =
         [frame |-> SubSeq(b, 1, Len(f)), rest |-> Drop(b, Len(f))]
  BY <1>6, <1>7, <1>11 DEF extract_request_frame
<1> QED
  BY <1>2, <1>4, <1>6, <1>12

(* A frame is refused, too long, or found in the buffer as it is, and      *)
(* nothing of what follows it is lost.                                     *)
FoundWhole(f) ==
  f # Refused /\ Len(f) <= RxCap =>
    \A rest \in Seq(U8) : extract_request_frame(f \o rest) = [frame |-> f, rest |-> rest]

(* The library's own master and server agree on what a request is, for all *)
(* arguments: a request of mb_rtu_build_request_basis (of no               *)
(* write-multiple function), _fc06_request or _fc16_request that fits the  *)
(* buffer is found there, whole, whatever follows it.                      *)
THEOREM BuiltRequestsAreFound ==
  /\ \A unit \in U8, fc \in Int \ WriteMultiple, addr \in Int, nb \in U16, cap \in Nat :
       FoundWhole(rtu_build_request_basis(unit, fc, addr, nb, cap))
  /\ \A unit \in U8, addr \in U16, value \in U16, cap \in Nat :
       FoundWhole(rtu_build_fc06_request(unit, addr, value, cap))
  /\ \A unit \in U8, addr \in U16, values \in Seq(U16), cap \in Nat :
       FoundWhole(rtu_build_fc16_request(unit, addr, values, cap))
<1>1. ASSUME NEW unit \in U8, NEW fc \in Int \ WriteMultiple, NEW addr \in Int,
             NEW nb \in U16, NEW cap \in Nat
      PROVE  FoundWhole(rtu_build_request_basis(unit, fc, addr, nb, cap))
  <2> SUFFICES ASSUME NEW f, f = rtu_build_request_basis(unit, fc, addr, nb, cap), f # Refused,
                      NEW rest \in Seq(U8)
               PROVE  extract_request_frame(f \o rest) = [frame |-> f, rest |-> rest]
    BY Zenon DEF FoundWhole
  <2>1. RtuAsks(f, unit, fc, addr, nb) /\ Len(f) = RTU_MIN_REQ_LENGTH /\ validate_crc(f)
    BY RtuBasisFrame
  <2>2. f \in Seq(U8) /\ f[2] = fc
    BY <2>1 DEF RtuAsks
  <2>3. get_complete_request_len(f) = Len(f)
    BY <1>1, <2>1, <2>2 DEF get_complete_request_len, RTU_MIN_REQ_LENGTH
  <2>4. Len(f) >= RTU_MIN_REQ_LENGTH
    BY <2>1 DEF RTU_MIN_REQ_LENGTH
  <2> QED
    BY <2>1, <2>2, <2>3, <2>4, WholeFound DEF WholeRequest
<1>2. ASSUME NEW unit \in U8, NEW addr \in U16, NEW values \in Seq(U16), NEW cap \in Nat
      PROVE  FoundWhole(rtu_build_fc16_request(unit, addr, values, cap))
  <2> SUFFICES ASSUME NEW f, f = rtu_build_fc16_request(unit, addr, values, cap), f # Refused,
                      Len(f) <= RxCap, NEW rest \in Seq(U8)
               PROVE  extract_request_frame(f \o rest) = [frame |-> f, rest |-> rest]
    BY Zenon DEF FoundWhole
  <2>1. /\ RtuAsks(f, unit, WRITE_MULTIPLE_REGISTERS, addr, Len(values)) /\ validate_crc(f)
        /\ Len(values) \in 1 .. 123 /\ f[7] = 2 * Len(values) /\ Len(f) = 9 + 2 * Len(values)
    BY RtuFc16Frame
  <2>2. f \in Seq(U8) /\ f[2] \in WriteMultiple
    BY <2>1 DEF RtuAsks, WriteMultiple
  <2>3. PICK n \in 1 .. 123 : f[7] = 2 * n /\ Len(f) = 9 + 2 * n /\ 9 + 2 * n <= RxCap
    BY <2>1
  <2>4. get_complete_request_len(f) = Len(f)
    <3>1. /\ ~(Len(f) < 2) /\ Len(f) >= 2 /\ ~(Len(f) <= 6) /\ Len(f) > 6
          /\ ~(f[7] = 0 \/ 9 + f[7] > RxCap) /\ ~(Len(f) < 9 + f[7])
      BY <2>3
    <3>2. get_complete_request_len(f) = 9 + f[7]
      BY <2>2, <3>1 DEF get_complete_request_len
    <3> QED
      BY <2>3, <3>2
  <2>5. Len(f) >= RTU_MIN_REQ_LENGTH
    BY <2>3 DEF RTU_MIN_REQ_LENGTH
  <2> QED
    BY <2>1, <2>2, <2>4, <2>5, WholeFound DEF WholeRequest
<1>3. ASSUME NEW unit \in U8, NEW addr \in U16, NEW value \in U16, NEW cap \in Nat
      PROVE  FoundWhole(rtu_build_fc06_request(unit, addr, value, cap))
  <2>1. addr \in Int
    BY WordOf DEF Word
  <2>2. WRITE_SINGLE_REGISTER \in Int \ WriteMultiple
    BY DEF WRITE_SINGLE_REGISTER, WriteMultiple, WRITE_MULTIPLE_COILS, WRITE_MULTIPLE_REGISTERS
  <2>3. FoundWhole(rtu_build_request_basis(unit, WRITE_SINGLE_REGISTER, addr, value, cap))
    BY <1>1, <2>1, <2>2
  <2> QED
    BY <2>3, Zenon DEF rtu_build_fc06_request
<1> QED
  BY <1>1, <1>2, <1>3, Zenon

-----------------------------------------------------------------------------
(* The response to a request.                                              *)

(* The three forms of a response: an exception, the data of a read, the    *)
(* echo of a write.                                                        *)
Exceptional(r) == r.fc \in U8 /\ r.fc >= 128 /\ r.b1 \in U8
Reading(r) ==
  /\ r.fc \in ReadBits \cup ReadRegisters /\ r.b1 \in U8
  /\ r.len - 2 \in 1 .. 250 /\ \A i \in 0 .. r.len - 3 : r.bytes[i] \in U8
Writing(r) == r.fc \in WriteSingle \cup WriteMultiple /\ Word(r.addr) /\ Word(r.val)

(* A byte with its high bit set is a byte.                                 *)
LEMMA ExceptionCode ==
  ASSUME NEW fc \in U8, NEW code \in 1 .. 11
  PROVE  Exceptional(build_exception(fc, code))
<1>1. fc \in 0 .. 255
  BY DEF U8
<1>2. WithException(fc) \in 0 .. 255 /\ WithException(fc) >= 128
  BY <1>1 DEF WithException
<1>3. code \in 0 .. 255
  OBVIOUS
<1> QED
  BY <1>2, <1>3 DEF build_exception, Exceptional, U8

(* exception_from_callback_rc maps every return code to an exception code. *)
LEMMA CallbackCode ==
  ASSUME NEW rc PROVE exception_from_callback_rc(rc) \in 1 .. 11
<1>1. rc \in {1, 2, 3, 4, 5, 6, 8, 10, 11} => rc \in 1 .. 11
  OBVIOUS
<1> QED
  BY <1>1 DEF exception_from_callback_rc, SERVER_DEVICE_FAILURE

(* Bytes packed from bits or taken from registers of the value 1.          *)
LEMMA EncodedBytes ==
  ASSUME NEW fc, NEW qty \in Nat, NEW supply, supply = [i \in 0 .. qty - 1 |-> 1]
  PROVE  \A i \in 0 .. DataBytes(fc, qty) - 1 : Encode(fc, supply, qty)[i] \in U8
<1>1. ASSUME NEW i \in 0 .. bit_byte_count(qty) - 1 PROVE pack_bits(supply, qty)[i] \in U8
  <2> DEFINE B(k) == Bit(supply, qty, k)
  <2>1. \A k : B(k) \in 0 .. 1
    BY DEF Bit
  <2>2. pack_bits(supply, qty)[i] =
            B(8 * i) + 2 * B(8 * i + 1) + 4 * B(8 * i + 2) + 8 * B(8 * i + 3)
          + 16 * B(8 * i + 4) + 32 * B(8 * i + 5) + 64 * B(8 * i + 6) + 128 * B(8 * i + 7)
    BY DEF pack_bits
  <2> HIDE DEF B
  <2>3. PICK a \in 0 .. 1, b \in 0 .. 1, c \in 0 .. 1, d \in 0 .. 1 :
          /\ a = B(8 * i) /\ b = B(8 * i + 1) /\ c = B(8 * i + 2) /\ d = B(8 * i + 3)
    BY <2>1
  <2>4. PICK e \in 0 .. 1, f \in 0 .. 1, g \in 0 .. 1, h \in 0 .. 1 :
          /\ e = B(8 * i + 4) /\ f = B(8 * i + 5) /\ g = B(8 * i + 6) /\ h = B(8 * i + 7)
    BY <2>1
  <2>5. pack_bits(supply, qty)[i] =
          a + 2 * b + 4 * c + 8 * d + 16 * e + 32 * f + 64 * g + 128 * h
    BY <2>2, <2>3, <2>4
  <2>6. a + 2 * b + 4 * c + 8 * d + 16 * e + 32 * f + 64 * g + 128 * h \in 0 .. 255
    OBVIOUS
  <2> QED
    BY <2>5, <2>6 DEF U8
<1>2. ASSUME NEW i \in 0 .. 2 * qty - 1 PROVE put_registers(supply, qty)[i] \in U8
  <2>1. i \div 2 \in 0 .. qty - 1
    OBVIOUS
  <2>2. supply[i \div 2] = 1
    BY <2>1
  <2>3. 1 \div 256 \in 0 .. 255 /\ 1 % 256 \in 0 .. 255
    OBVIOUS
  <2>4. put_registers(supply, qty)[i] \in {1 \div 256, 1 % 256}
    BY <2>2 DEF put_registers
  <2> QED
    BY <2>3, <2>4 DEF U8
<1>3. CASE fc \in ReadBits \cup {WRITE_MULTIPLE_COILS}
  BY <1>1, <1>3 DEF DataBytes, Encode
<1>4. CASE fc \notin ReadBits \cup {WRITE_MULTIPLE_COILS}
  <2>1. DataBytes(fc, qty) = 2 * qty /\ Encode(fc, supply, qty) = put_registers(supply, qty)
    BY <1>4 DEF DataBytes, Encode
  <2> QED
    BY <1>2, <2>1
<1> QED
  BY <1>3, <1>4

(* The function codes and their quantities.                                *)
LEMMA CodeTypes ==
  /\ \A fc \in FunctionCodes : fc \in 1 .. 16 /\ fc \in U8
  /\ ReadBits \cup ReadRegisters \subseteq FunctionCodes
  /\ WriteSingle \cup WriteMultiple \subseteq FunctionCodes
  /\ \A fc \in WriteSingle \cup WriteMultiple : fc \notin ReadBits \cup ReadRegisters
  /\ \A fc \in ReadBits \cup ReadRegisters :
       \A n \in Nat : n # 0 /\ ~(n > MaxQuantity(fc)) => DataBytes(fc, n) \in 1 .. 250
  BY DEF FunctionCodes, ReadBits, ReadRegisters, WriteSingle, WriteMultiple,
    READ_COILS, READ_DISCRETE_INPUTS, READ_HOLDING_REGISTERS, READ_INPUT_REGISTERS,
    WRITE_SINGLE_COIL, WRITE_SINGLE_REGISTER, WRITE_MULTIPLE_COILS,
    WRITE_MULTIPLE_REGISTERS, MaxQuantity, MAX_READ_BITS, MAX_READ_REGISTERS,
    DataBytes, bit_byte_count, U8

(* Whatever the request, mb_pdu_handle_request answers in one of the three *)
(* forms.                                                                  *)
LEMMA AnswerForms ==
  ASSUME NEW q, q.fc \in U8, Word(q.addr), Word(q.val), NEW rc, NEW supply,
         supply = [i \in 0 .. q.val - 1 |-> 1],
         NEW r, r = handle_request(q, Callbacks, rc, supply).resp
  PROVE  Exceptional(r) \/ Reading(r) \/ Writing(r)
<1>0. q.val \in Nat
  BY DEF Word
<1>1. ASSUME NEW code \in 1 .. 4, NEW o, o = Refuse(q, code) PROVE Exceptional(o.resp)
  <2>1. o.resp = build_exception(q.fc, code) /\ code \in 1 .. 11
    BY <1>1 DEF Refuse
  <2> QED
    BY <2>1, ExceptionCode
<1>2. ASSUME NEW n, NEW d, NEW success, NEW o, o = Invoke(q, n, d, rc, success)
      PROVE  Exceptional(o.resp) \/ o.resp = success
  <2>1. o.resp = IF rc # 0 THEN build_exception(q.fc, exception_from_callback_rc(rc))
                 ELSE success
    BY <1>2 DEF Invoke
  <2> QED
    BY <2>1, CallbackCode, ExceptionCode
<1>c. /\ ILLEGAL_FUNCTION \in 1 .. 4 /\ ILLEGAL_DATA_VALUE \in 1 .. 4
      /\ ILLEGAL_DATA_ADDRESS \in 1 .. 4
  BY DEF ILLEGAL_FUNCTION, ILLEGAL_DATA_VALUE, ILLEGAL_DATA_ADDRESS
<1>3. ASSUME q.fc \in WriteSingle \cup WriteMultiple PROVE Writing(build_write_echo(q))
  BY <1>3 DEF build_write_echo, Writing
<1>4. ASSUME q.fc \in ReadBits \cup ReadRegisters, ~BadQuantity(q),
             NEW p, p = build_read_response(q.fc, q.val, supply)
      PROVE  Reading(p)
  <2>1. DataBytes(q.fc, q.val) \in 1 .. 250
    BY <1>0, <1>4, CodeTypes DEF BadQuantity
  <2>2. PICK n \in 1 .. 250 : n = DataBytes(q.fc, q.val)
    BY <2>1
  <2>3. /\ p.fc = q.fc /\ p.b1 = n % 256 /\ p.len = 2 + n
        /\ p.bytes = Encode(q.fc, supply, q.val)
    BY <1>4, <2>2 DEF build_read_response
  <2>4. p.b1 \in U8
    <3>1. n % 256 \in 0 .. 255
      OBVIOUS
    <3> QED
      BY <2>3, <3>1 DEF U8
  <2>5. p.len - 2 = n /\ p.len - 3 = n - 1
    <3>1. (2 + n) - 2 = n /\ (2 + n) - 3 = n - 1
      OBVIOUS
    <3> QED
      BY <2>3, <3>1, Zenon
  <2>6. \A i \in 0 .. n - 1 : p.bytes[i] \in U8
    BY <1>0, <2>2, <2>3, EncodedBytes
  <2> QED
    BY <1>4, <2>2, <2>3, <2>4, <2>5, <2>6, Zenon DEF Reading
<1>5. CASE q.fc \notin FunctionCodes \/ q.len < 5 \/ CallbackOf(q.fc) \notin Callbacks
  BY <1>1, <1>5, <1>c DEF handle_request
<1>6. CASE q.fc \in FunctionCodes /\ ~(q.len < 5) /\ CallbackOf(q.fc) \in Callbacks
  <2>1. CASE q.fc \in ReadBits \cup ReadRegisters
    <3>1. r = handle_read(q, rc, supply).resp
      BY <1>6, <2>1, CodeTypes DEF handle_request
    <3>2. CASE BadQuantity(q) \/ range_overflows(q.addr, q.val)
      BY <1>1, <1>c, <3>1, <3>2 DEF handle_read
    <3>3. CASE ~BadQuantity(q) /\ ~range_overflows(q.addr, q.val)
      <4>1. handle_read(q, rc, supply) =
              Invoke(q, q.val, NoBytes, rc, build_read_response(q.fc, q.val, supply))
        BY <3>3 DEF handle_read
      <4>2. Exceptional(r) \/ r = build_read_response(q.fc, q.val, supply)
        BY <1>2, <3>1, <4>1
      <4>3. Reading(build_read_response(q.fc, q.val, supply))
        BY <1>4, <2>1, <3>3
      <4> QED
        BY <4>2, <4>3, Zenon
    <3> QED
      BY <3>2, <3>3
  <2>2. CASE q.fc \in WriteSingle
    <3>1. r = handle_write_single(q, rc).resp
      <4>1. q.fc \notin WriteMultiple /\ q.fc \notin ReadBits \cup ReadRegisters
        BY <2>2, CodeTypes DEF WriteSingle, WriteMultiple, WRITE_SINGLE_COIL,
          WRITE_SINGLE_REGISTER, WRITE_MULTIPLE_COILS, WRITE_MULTIPLE_REGISTERS
      <4> QED
        BY <1>6, <2>2, <4>1 DEF handle_request
    <3>2. CASE q.fc = WRITE_SINGLE_COIL /\ q.val \notin {COIL_ON, COIL_OFF}
      BY <1>1, <1>c, <3>1, <3>2 DEF handle_write_single
    <3>3. CASE ~(q.fc = WRITE_SINGLE_COIL /\ q.val \notin {COIL_ON, COIL_OFF})
      <4>1. \E d : handle_write_single(q, rc) = Invoke(q, 1, d, rc, build_write_echo(q))
        BY <3>3 DEF handle_write_single
      <4> QED
        BY <1>2, <1>3, <2>2, <3>1, <4>1
    <3> QED
      BY <3>2, <3>3
  <2>3. CASE q.fc \in WriteMultiple
    <3>1. r = handle_write_multiple(q, rc).resp
      <4>1. q.fc \notin WriteSingle /\ q.fc \notin ReadBits \cup ReadRegisters
        BY <2>3, CodeTypes DEF WriteSingle, WriteMultiple, WRITE_SINGLE_COIL,
          WRITE_SINGLE_REGISTER, WRITE_MULTIPLE_COILS, WRITE_MULTIPLE_REGISTERS
      <4> QED
        BY <1>6, <2>3, <4>1 DEF handle_request
    <3> DEFINE Bad == \/ q.len <= 5 \/ BadQuantity(q)
                      \/ q.bc # DataBytes(q.fc, q.val) % 256
                      \/ q.len # 6 + DataBytes(q.fc, q.val)
    <3>2. CASE Bad
      <4>1. handle_write_multiple(q, rc) = Refuse(q, ILLEGAL_DATA_VALUE)
        BY <3>2 DEF handle_write_multiple
      <4> QED
        BY <1>1, <1>c, <3>1, <4>1
    <3>3. CASE ~Bad /\ range_overflows(q.addr, q.val)
      <4>1. handle_write_multiple(q, rc) = Refuse(q, ILLEGAL_DATA_ADDRESS)
        BY <3>3 DEF handle_write_multiple
      <4> QED
        BY <1>1, <1>c, <3>1, <4>1
    <3>4. CASE ~Bad /\ ~range_overflows(q.addr, q.val)
      <4>1. handle_write_multiple(q, rc) =
              Invoke(q, q.val, Decode(q.fc, q.bytes, q.val), rc, build_write_echo(q))
        BY <3>4 DEF handle_write_multiple
      <4> QED
        BY <1>2, <1>3, <2>3, <3>1, <4>1
    <3> QED
      BY <3>2, <3>3, <3>4
  <2> QED
    BY <1>6, <2>1, <2>2, <2>3 DEF FunctionCodes
<1> QED
  BY <1>5, <1>6

(* The fields of a request that is at least as long as the shortest one.   *)
LEMMA RequestFields ==
  ASSUME NEW f \in Seq(U8), Len(f) >= RTU_MIN_REQ_LENGTH
  PROVE  f[1] \in U8 /\ PduOf(f).fc \in U8 /\ Word(PduOf(f).addr) /\ Word(PduOf(f).val)
<1>1. \A i \in 1 .. 6 : f[i] \in U8
  BY DEF RTU_MIN_REQ_LENGTH
<1>2. ASSUME NEW a \in U8, NEW b \in U8 PROVE Word(256 * a + b)
  BY SMT DEF U8, Word
<1>3. Word(GetU16(f, 3)) /\ Word(GetU16(f, 5))
  <2>1. f[3] \in U8 /\ f[3 + 1] \in U8 /\ f[5] \in U8 /\ f[5 + 1] \in U8
    BY <1>1
  <2> QED
    BY <1>2, <2>1 DEF GetU16
<1>4. f[1] \in U8 /\ f[2] \in U8
  BY <1>1
<1> QED
  BY <1>3, <1>4 DEF PduOf

(* A response is at most 252 bytes long, without the unit id and the CRC.  *)
LEMMA AnswerBytes ==
  ASSUME NEW r, Exceptional(r) \/ Reading(r) \/ Writing(r)
  PROVE  PduBytes(r) \in Seq(U8) /\ Len(PduBytes(r)) <= 252
<1>1. CASE Exceptional(r)
  <2>1. PduBytes(r) = <<r.fc, r.b1>>
    <3>1. r.fc >= 128 /\ r.fc \notin 1 .. 16
      BY <1>1, ByteNat DEF Exceptional
    <3>2. r.fc \notin ReadBits \cup ReadRegisters
      BY <3>1, CodeTypes
    <3> QED
      BY <3>1, <3>2 DEF PduBytes
  <2>2. r.fc \in U8 /\ r.b1 \in U8
    BY <1>1 DEF Exceptional
  <2>3. <<r.fc, r.b1>> \in Seq(U8) /\ Len(<<r.fc, r.b1>>) <= 252
    BY <2>2
  <2> QED
    BY <2>1, <2>3
<1>2. CASE Reading(r)
  <2>1. PICK n \in 1 .. 250 : n = r.len - 2
    BY <1>2 DEF Reading
  <2>2. r.fc \in U8 /\ r.fc \in 1 .. 16 /\ r.fc \in ReadBits \cup ReadRegisters /\ r.b1 \in U8
    BY <1>2, CodeTypes DEF Reading
  <2>3. \A i \in 0 .. r.len - 3 : r.bytes[i] \in U8
    BY <1>2 DEF Reading
  <2> DEFINE data == [i \in 1 .. n |-> r.bytes[i - 1]]
  <2>4. ASSUME NEW i \in 1 .. n PROVE r.bytes[i - 1] \in U8
    <3>1. i - 1 \in 0 .. r.len - 3
      <4>1. r.len - 3 = n - 1
        BY <2>1
      <4> QED
        BY <4>1
    <3> QED
      BY <2>3, <3>1
  <2>5. data \in Seq(U8) /\ Len(data) = n
    BY <2>4
  <2>6. PduBytes(r) = <<r.fc, r.b1>> \o data
    <3>1. ~(r.fc >= 128)
      BY <2>2
    <3>2. PduBytes(r) = <<r.fc, r.b1>> \o [i \in 1 .. r.len - 2 |-> r.bytes[i - 1]]
      BY <2>2, <3>1, Zenon DEF PduBytes
    <3> QED
      BY <2>1, <3>2, Zenon
  <2>7. <<r.fc, r.b1>> \in Seq(U8) /\ Len(<<r.fc, r.b1>>) = 2
    BY <2>2
  <2> HIDE DEF data
  <2>8. PduBytes(r) \in Seq(U8) /\ Len(PduBytes(r)) = 2 + n
    BY <2>5, <2>6, <2>7
  <2> QED
    BY <2>8
<1>3. CASE Writing(r)
  <2>1. /\ r.fc \in U8 /\ r.fc \in 1 .. 16 /\ r.fc \notin ReadBits \cup ReadRegisters
        /\ Word(r.addr) /\ Word(r.val)
    BY <1>3, CodeTypes DEF Writing
  <2>2. PduBytes(r) = <<r.fc>> \o U16Bytes(r.addr) \o U16Bytes(r.val)
    <3>1. ~(r.fc >= 128)
      BY <2>1
    <3> QED
      BY <2>1, <3>1, Zenon DEF PduBytes
  <2>3. PICK pdu \in Seq(U8) :
          /\ pdu = <<r.fc>> \o U16Bytes(r.addr) \o U16Bytes(r.val)
          /\ Asks(pdu, r.fc, r.addr, r.val) /\ Len(pdu) = 5
    <3>1. PICK fc, addr, val : fc = r.fc /\ addr = r.addr /\ val = r.val
      OBVIOUS
    <3>2. fc \in U8 /\ Word(addr) /\ Word(val)
      BY <2>1, <3>1
    <3>3. \E pdu \in Seq(U8) :
            /\ pdu = <<fc>> \o U16Bytes(addr) \o U16Bytes(val)
            /\ Asks(pdu, fc, addr, val) /\ Len(pdu) = 5
      BY <3>2, PduAsks
    <3> QED
      BY <3>1, <3>3, Zenon
  <2> QED
    BY <2>2, <2>3
<1> QED
  BY <1>1, <1>2, <1>3

(* A request is always answered: the response fits the longest frame, so   *)
(* append_crc never refuses it.  It begins with the unit that was asked.   *)
LEMMA ResponseBytes ==
  ASSUME NEW f \in Seq(U8), Len(f) >= RTU_MIN_REQ_LENGTH, NEW rc
  PROVE  /\ Response(f, rc) \in Seq(U8) /\ Response(f, rc) # <<>>
         /\ Response(f, rc)[1] = f[1]
<1>1. PICK q : q = PduOf(f)
  OBVIOUS
<1>2. f[1] \in U8 /\ q.fc \in U8 /\ Word(q.addr) /\ Word(q.val)
  BY <1>1, RequestFields
<1>3. PICK supply : supply = [i \in 0 .. q.val - 1 |-> 1]
  OBVIOUS
<1>4. PICK r : r = handle_request(q, Callbacks, rc, supply).resp
  OBVIOUS
<1>5. Exceptional(r) \/ Reading(r) \/ Writing(r)
  BY <1>2, <1>3, <1>4, AnswerForms
<1>6. PICK pdu \in Seq(U8) : pdu = PduBytes(r) /\ Len(pdu) <= 252
  BY <1>5, AnswerBytes
<1>7. PICK frame \in Seq(U8) : /\ frame = <<f[1]>> \o pdu /\ Len(frame) <= 253 /\ Len(frame) > 0
                              /\ frame[1] = f[1]
  <2>1. <<f[1]>> \in Seq(U8) /\ Len(<<f[1]>>) = 1
    BY <1>2
  <2>2. <<f[1]>> \o pdu \in Seq(U8) /\ Len(<<f[1]>> \o pdu) = 1 + Len(pdu)
    BY <2>1
  <2>3. 1 + Len(pdu) <= 253 /\ 1 + Len(pdu) > 0
    BY <1>6
  <2>4. (<<f[1]>> \o pdu)[1] = f[1]
    BY <2>1
  <2> QED
    BY <2>2, <2>3, <2>4, Zenon
<1>8. Response(f, rc) = append_crc(frame, RTU_MAX_ADU_LENGTH)
  BY <1>1, <1>3, <1>4, <1>6, <1>7 DEF Response
<1>9. append_crc(frame, RTU_MAX_ADU_LENGTH) # Refused
  <2>1. ~(RTU_MAX_ADU_LENGTH < Len(frame) + RTU_CRC_LEN)
    BY <1>7 DEF RTU_MAX_ADU_LENGTH, RTU_CRC_LEN
  <2>2. PICK c : c = <<crc16[frame] % 256, crc16[frame] \div 256>>
    OBVIOUS
  <2>3. append_crc(frame, RTU_MAX_ADU_LENGTH) = frame \o c /\ Len(c) = 2
    BY <2>1, <2>2 DEF append_crc
  <2>4. c \in Seq(Int)
    BY <2>2, CrcWord, WordOf DEF Word
  <2>5. Len(frame \o c) = Len(frame) + Len(c)
    BY <2>4
  <2>6. Len(frame \o c) > 0
    BY <1>7, <2>3, <2>5
  <2> QED
    BY <2>3, <2>6 DEF Refused
<1>10. Sealed(append_crc(frame, RTU_MAX_ADU_LENGTH), frame)
  BY <1>9, AppendSeals
<1>11. 1 \in 1 .. Len(frame)
  BY <1>7
<1> QED
  BY <1>7, <1>8, <1>9, <1>10, <1>11 DEF Sealed, Refused

(* Another slave's reply is a sequence of bytes that begins with its unit. *)
LEMMA OtherReplyBytes ==
  ASSUME NEW f \in Seq(U8), Len(f) >= RTU_MIN_REQ_LENGTH
  PROVE  /\ OtherReply(f) \in Seq(U8)
         /\ OtherReply(f) # <<>> => OtherReply(f)[1] = f[1]
<1>1. CASE f[2] \notin ReadRegisters
  BY <1>1, ResponseBytes DEF OtherReply
<1>2. CASE f[2] \in ReadRegisters
  <2>1. PICK g : g = rtu_build_read_registers_response(f[2], f[1], OtherData, RTU_MAX_ADU_LENGTH)
    OBVIOUS
  <2>2. CASE g = Refused
    BY <1>2, <2>1, <2>2 DEF OtherReply, Refused
  <2>3. CASE g # Refused
    <3>1. PICK data \in Seq(U8) : data = RegisterBytes(OtherData)
      BY DataAssumption, RegisterBytesType
    <3>2. PICK count \in U8 : count = (2 * Len(OtherData)) % 256
      <4>1. PICK n \in Nat : n = 2 * Len(OtherData)
        BY DataAssumption
      <4>2. n % 256 \in 0 .. 255
        OBVIOUS
      <4> QED
        BY <4>1, <4>2 DEF U8
    <3>3. PICK frame \in Seq(U8) : /\ frame = <<f[1], f[2], count>> \o data
                                  /\ frame[1] = f[1] /\ 1 \in 1 .. Len(frame)
      <4>1. f[1] \in U8 /\ f[2] \in U8
        BY DEF RTU_MIN_REQ_LENGTH
      <4>2. <<f[1], f[2], count>> \in Seq(U8)
        <5>1. PICK a \in U8, c \in U8 : a = f[1] /\ c = f[2]
          BY <4>1
        <5>2. <<a, c, count>> \in Seq(U8)
          OBVIOUS
        <5> QED
          BY <5>1, <5>2, Zenon
      <4>3. <<f[1], f[2], count>> \o data \in Seq(U8)
        BY <4>2
      <4>4. /\ (<<f[1], f[2], count>> \o data)[1] = f[1]
            /\ 1 \in 1 .. Len(<<f[1], f[2], count>> \o data)
        <5>1. PICK h \in Seq(U8) : h = <<f[1], f[2], count>> /\ Len(h) = 3 /\ h[1] = f[1]
          BY <4>2
        <5>2. (h \o data)[1] = f[1] /\ 1 \in 1 .. Len(h \o data)
          BY <5>1
        <5> QED
          BY <5>1, <5>2, Zenon
      <4> QED
        BY <4>3, <4>4, Zenon
    <3>4. g = append_crc(frame, RTU_MAX_ADU_LENGTH)
      BY <2>1, <2>3, <3>1, <3>2, <3>3, Zenon DEF rtu_build_read_registers_response
    <3>5. g \in Seq(U8) /\ g[1] = f[1]
      BY <2>3, <3>3, <3>4, AppendSeals DEF Sealed
    <3> QED
      BY <1>2, <2>1, <3>5 DEF OtherReply
  <2> QED
    BY <2>2, <2>3
<1> QED
  BY <1>1, <1>2

(* What is left of a frame, whatever is dropped of it.                     *)
LEMMA DropBytes ==
  ASSUME NEW s \in Seq(U8), NEW n \in Nat
  PROVE  Drop(s, n) \in Seq(U8)
  BY DEF Drop

(* A damaged frame is a sequence of bytes.                                 *)
LEMMA DamagedBytes ==
  ASSUME NEW f \in Seq(U8), NEW g \in Damaged(f)
  PROVE  g \in Seq(U8)
<1>1. CASE \E i \in NoiseAt \cap 1 .. Len(f) : g = SubSeq(f, 1, i - 1) \o Drop(f, i)
  <2>1. PICK i \in 1 .. Len(f) : g = SubSeq(f, 1, i - 1) \o Drop(f, i)
    BY <1>1
  <2>2. SubSeq(f, 1, i - 1) \in Seq(U8) /\ Drop(f, i) \in Seq(U8)
    BY DropBytes
  <2> QED
    BY <2>1, <2>2
<1>2. CASE \E i \in NoiseAt \cap 1 .. Len(f), b \in NoiseBytes : g = [f EXCEPT ![i] = b]
  <2>1. PICK i \in 1 .. Len(f), b \in U8 : g = [f EXCEPT ![i] = b]
    BY <1>2, NoiseAssumption
  <2> QED
    BY <2>1
<1> DEFINE at    == NoiseAt \cap 1 .. Len(f)
           lost  == {SubSeq(f, 1, i - 1) \o Drop(f, i) : i \in at}
           wrong == {[f EXCEPT ![i] = b] : i \in at, b \in NoiseBytes}
<1>3. g \in lost \/ g \in wrong
  BY SMT DEF Damaged
<1>4. ASSUME g \in lost PROVE g \in Seq(U8)
  BY <1>1, <1>4, Zenon
<1>5. ASSUME g \in wrong PROVE g \in Seq(U8)
  <2>1. \E i \in at, b \in NoiseBytes : g = [f EXCEPT ![i] = b]
    BY <1>5, SMT
  <2> QED
    BY <1>2, <2>1, Zenon
<1> HIDE DEF lost, wrong
<1> QED
  BY <1>3, <1>4, <1>5, Zenon

-----------------------------------------------------------------------------
(* The inductive invariant.                                                *)

(* The thread exists exactly while the application is in a call, or has    *)
(* started the server: what a start clears belongs to no running thread.   *)
LifeInv == (thread = "none") = (app = "idle" /\ ~initialized)

(* What reaches the callbacks is a whole request for this server, under    *)
(* the configuration of this start.                                        *)
Accepted(f) == WholeRequest(f) /\ ForUs(f)

AduInv == thread = "handle" => Accepted(adu)

OnlyWholeRequests == \A i \in 1 .. Len(executed) : Accepted(executed[i])

IInv == TypeOK /\ LifeInv /\ AduInv /\ OnlyWholeRequests

(* The type invariant, part by part.                                       *)
LifeType ==
  /\ app \in {"idle", "starting", "stopping"}
  /\ initialized \in BOOLEAN /\ keep_running \in BOOLEAN
  /\ serial_fd \in {"open", "closed"} /\ link \in BOOLEAN
  /\ cfg \in Configs /\ starts \in 0 .. MaxStarts
BufferType ==
  /\ rx_buffer \in Seq(U8) /\ Len(rx_buffer) <= RxCap
  /\ last_rx \in {Never} \cup 0 .. Timeout + 1
  /\ request_end \in {Never} \cup Nat
ThreadType ==
  /\ thread \in {"none", "top", "handle", "silence", "send", "echo", "exit"}
  /\ adu \in Seq(U8) /\ (adu # <<>>) = (thread = "handle")
  /\ resp \in Seq(U8) /\ (resp # <<>>) = (thread \in {"silence", "send", "echo"})
LineType ==
  /\ input \in Seq(U8) /\ ticked \in BOOLEAN
  /\ asked \in Requests \cup {<<>>}
  /\ frames \in 0 .. MaxFrames /\ noise \in 0 .. MaxNoise
HistoryType ==
  /\ sent \in Seq(Requests) /\ executed \in Seq(Seq(U8))
  /\ disturbed \in BOOLEAN /\ undrained \in BOOLEAN

(* The parts make up the type invariant.                                   *)
LEMMA TypeParts ==
  /\ TypeOK <=> LifeType /\ BufferType /\ ThreadType /\ LineType /\ HistoryType
  /\ TypeOK' <=> LifeType' /\ BufferType' /\ ThreadType' /\ LineType' /\ HistoryType'
  BY Zenon DEF TypeOK, LifeType, BufferType, ThreadType, LineType, HistoryType

(* What a step leaves alone keeps its type.                                *)
LEMMA TypeKept ==
  /\ LifeType /\ UNCHANGED lifecycle => LifeType'
  /\ BufferType /\ UNCHANGED <<rx_buffer, last_rx, request_end>> => BufferType'
  /\ ThreadType /\ UNCHANGED <<thread, adu, resp>> => ThreadType'
  /\ LineType /\ UNCHANGED line => LineType'
  /\ HistoryType /\ UNCHANGED history => HistoryType'
  BY Zenon DEF LifeType, BufferType, ThreadType, LineType, HistoryType, lifecycle, line, history

(* Accepted depends on no variable but the configuration.                  *)
LEMMA AcceptedKept ==
  ASSUME UNCHANGED cfg PROVE \A f : Accepted(f) => Accepted(f)'
  BY DEF Accepted, ForUs, unit_id_matches, WholeRequest

(* The server starts with nothing.                                         *)
LEMMA InitInvariant == Init => IInv
<1> SUFFICES ASSUME Init PROVE IInv
  OBVIOUS
<1>1. cfg \in Configs
  BY ConfigAssumption DEF Init
<1>2. TypeOK
  <2>1. 0 \in 0 .. MaxStarts /\ 0 \in 0 .. MaxFrames /\ 0 \in 0 .. MaxNoise
    BY BoundsAssumption
  <2>2. <<>> \in Seq(U8) /\ Len(<<>>) <= RxCap
    OBVIOUS
  <2>3. <<>> \in Seq(Requests) /\ <<>> \in Seq(Seq(U8))
    OBVIOUS
  <2>4. LifeType
    BY <1>1, <2>1 DEF Init, LifeType
  <2>5. BufferType
    BY <2>2 DEF Init, BufferType
  <2>6. ThreadType
    BY <2>2 DEF Init, ThreadType
  <2>7. LineType
    BY <2>1, <2>2 DEF Init, LineType
  <2>8. HistoryType
    BY <2>3 DEF Init, HistoryType
  <2> QED
    BY <2>4, <2>5, <2>6, <2>7, <2>8, TypeParts
<1>3. LifeInv /\ AduInv /\ OnlyWholeRequests
  BY DEF Init, LifeInv, AduInv, OnlyWholeRequests
<1> QED
  BY <1>2, <1>3 DEF IInv

(* A step that leaves the thread's place, its request, the application,    *)
(* the configuration and what was executed alone disturbs only types.      *)
LEMMA Elsewhere ==
  ASSUME IInv, TypeOK', UNCHANGED <<thread, app, initialized, cfg, adu, executed>>
  PROVE  IInv'
<1>1. LifeInv'
  BY DEF IInv, LifeInv
<1>2. AduInv'
  BY AcceptedKept DEF IInv, AduInv
<1>3. OnlyWholeRequests'
  BY AcceptedKept DEF IInv, OnlyWholeRequests
<1> QED
  BY <1>1, <1>2, <1>3 DEF IInv

(* A step of the thread between two requests disturbs only types.          *)
LEMMA Between ==
  ASSUME IInv, TypeOK', thread # "none", thread' \notin {"none", "handle"},
         UNCHANGED <<app, initialized, cfg, executed>>
  PROVE  IInv'
<1>1. LifeInv'
  BY DEF IInv, LifeInv
<1>2. AduInv'
  BY DEF AduInv
<1>3. OnlyWholeRequests'
  BY AcceptedKept DEF IInv, OnlyWholeRequests
<1> QED
  BY <1>1, <1>2, <1>3 DEF IInv

(* on_process reads what fits and looks for a request: what it keeps fits  *)
(* the buffer, and what it hands on is a whole request for this server.    *)
LEMMA PollInvariant ==
  ASSUME IInv, NEW n \in 0 .. Len(input), Poll(n) PROVE IInv'
<1>0. /\ LifeType /\ BufferType /\ ThreadType /\ LineType /\ HistoryType
      /\ LifeInv /\ OnlyWholeRequests
  BY TypeParts DEF IInv
<1>1. Kept \in Seq(U8) /\ Len(Kept) <= RxCap /\ n \in Nat /\ n <= Len(input) /\ n <= Room
  <2>1. Kept = rx_buffer \/ Kept = <<>>
    BY DEF Kept
  <2>2. <<>> \in Seq(U8) /\ Len(<<>>) <= RxCap
    OBVIOUS
  <2>3. Kept \in Seq(U8) /\ Len(Kept) <= RxCap
    BY <1>0, <2>1, <2>2 DEF BufferType
  <2>4. n <= Len(input) /\ n <= Room
    BY DEF Poll
  <2> QED
    BY <2>3, <2>4
<1>2. PICK bytes \in Seq(U8) :
        bytes = Kept \o SubSeq(input, 1, n) /\ Len(bytes) <= RxCap
  <2>1. SubSeq(input, 1, n) \in Seq(U8) /\ Len(SubSeq(input, 1, n)) = n
    BY <1>0, <1>1 DEF LineType
  <2>2. /\ Kept \o SubSeq(input, 1, n) \in Seq(U8)
        /\ Len(Kept \o SubSeq(input, 1, n)) = Len(Kept) + n
    BY <1>1, <2>1
  <2>3. Len(Kept) \in Nat /\ Len(Kept) + n <= RxCap
    BY <1>1 DEF Room
  <2> QED
    BY <2>2, <2>3
<1>3. PICK found : found = extract_request_frame(bytes)
  OBVIOUS
<1>4. /\ found.rest \in Seq(U8) /\ Len(found.rest) <= Len(bytes) /\ found.frame \in Seq(U8)
      /\ found.frame # <<>> => WholeRequest(found.frame)
  BY <1>3, Extracts
<1>5. PICK ours \in BOOLEAN : ours = (found.frame # <<>> /\ ForUs(found.frame))
  OBVIOUS
<1>6. PICK age : age = CASE n > 0                -> 0
                         [] n = 0 /\ Kept = <<>> -> Never
                         [] OTHER                -> last_rx
  OBVIOUS
<1>7. /\ thread = "top"
      /\ input' = Drop(input, n) /\ rx_buffer' = found.rest
      /\ last_rx' = IF found.rest = <<>> THEN Never ELSE age
      /\ adu' = IF ours THEN found.frame ELSE <<>>
      /\ request_end' = IF ours THEN age ELSE Never
      /\ thread' = IF ours THEN "handle" ELSE "top"
      /\ UNCHANGED <<lifecycle, resp, ticked, asked, frames, noise, history>>
  BY <1>2, <1>3, <1>5, <1>6, Zenon DEF Poll
<1>8. age \in {Never} \cup 0 .. Timeout + 1 /\ age \in {Never} \cup Nat
  <2>1. 0 \in 0 .. Timeout + 1 /\ \A t \in 0 .. Timeout + 1 : t \in Nat
    BY TimingAssumption
  <2>2. age = 0 \/ age = Never \/ age = last_rx
    BY <1>1, <1>6
  <2> QED
    BY <1>0, <2>1, <2>2 DEF BufferType
<1>9. BufferType'
  <2>1. Len(found.rest) <= RxCap
    BY <1>2, <1>4
  <2> QED
    BY <1>4, <1>7, <1>8, <2>1 DEF BufferType
<1>10. ThreadType'
  <2>1. resp = <<>> /\ resp' = <<>>
    BY <1>0, <1>7 DEF ThreadType
  <2>2. <<>> \in Seq(U8)
    OBVIOUS
  <2>3. CASE ours
    <3>1. adu' # <<>> /\ adu' \in Seq(U8) /\ thread' = "handle"
      BY <1>4, <1>5, <1>7, <2>3, Zenon
    <3> QED
      BY <2>1, <2>2, <3>1 DEF ThreadType
  <2>4. CASE ~ours
    BY <1>7, <2>1, <2>2, <2>4 DEF ThreadType
  <2> QED
    BY <2>3, <2>4
<1>11. LineType'
  <2>1. input' \in Seq(U8)
    BY <1>0, <1>1, <1>7, DropBytes DEF LineType
  <2> QED
    BY <1>0, <1>7, <2>1 DEF LineType
<1>12. TypeOK'
  BY <1>0, <1>7, <1>9, <1>10, <1>11, TypeKept, TypeParts
<1>13. UNCHANGED <<app, initialized, cfg, executed>>
  BY <1>7 DEF lifecycle, history
<1>14. LifeInv'
  BY <1>0, <1>7, <1>13 DEF LifeInv
<1>15. AduInv'
  <2>1. ours => Accepted(found.frame)
    BY <1>4, <1>5 DEF Accepted
  <2>2. thread' = "handle" => ours /\ adu' = found.frame
    BY <1>7
  <2> QED
    BY <1>13, <2>1, <2>2, AcceptedKept DEF AduInv
<1>16. OnlyWholeRequests'
  BY <1>0, <1>13, AcceptedKept DEF OnlyWholeRequests
<1> QED
  BY <1>12, <1>14, <1>15, <1>16 DEF IInv

(* The callback's request joins the executed ones; the response is whole   *)
(* bytes, and there is one unless the request was a broadcast.             *)
LEMMA HandleInvariant ==
  ASSUME IInv, Handle PROVE IInv'
<1>0. /\ LifeType /\ BufferType /\ ThreadType /\ LineType /\ HistoryType
      /\ LifeInv /\ OnlyWholeRequests /\ Accepted(adu) /\ thread = "handle"
  BY TypeParts DEF IInv, AduInv, Handle
<1>1. adu \in Seq(U8) /\ Len(adu) >= RTU_MIN_REQ_LENGTH
  BY <1>0 DEF Accepted, WholeRequest
<1>2. PICK rc : resp' = IF IsBroadcast(adu) THEN <<>> ELSE Response(adu, rc)
  BY DEF Handle
<1>3. /\ executed' = Append(executed, adu) /\ adu' = <<>>
      /\ thread' = IF IsBroadcast(adu) THEN "top" ELSE "silence"
      /\ request_end' = IF IsBroadcast(adu) THEN Never ELSE request_end
      /\ UNCHANGED <<lifecycle, rx_buffer, last_rx, line, sent, disturbed, undrained>>
  BY DEF Handle
<1>4. BufferType'
  BY <1>0, <1>3 DEF BufferType
<1>5. ThreadType'
  <2>1. CASE IsBroadcast(adu)
    BY <1>2, <1>3, <2>1 DEF ThreadType
  <2>2. CASE ~IsBroadcast(adu)
    <3>1. resp' \in Seq(U8) /\ resp' # <<>>
      BY <1>1, <1>2, <2>2, ResponseBytes
    <3>2. thread' = "silence" /\ adu' = <<>>
      BY <1>3, <2>2
    <3> QED
      BY <3>1, <3>2 DEF ThreadType
  <2> QED
    BY <2>1, <2>2
<1>6. HistoryType'
  BY <1>0, <1>1, <1>3 DEF HistoryType
<1>7. TypeOK'
  BY <1>0, <1>3, <1>4, <1>5, <1>6, TypeKept, TypeParts
<1>8. UNCHANGED <<app, initialized, cfg>>
  BY <1>3 DEF lifecycle
<1>9. LifeInv'
  BY <1>0, <1>3, <1>8 DEF LifeInv
<1>10. AduInv'
  BY <1>3 DEF AduInv
<1>11. OnlyWholeRequests'
  <2> SUFFICES ASSUME NEW i \in 1 .. Len(executed') PROVE Accepted(executed[i])'
    BY DEF OnlyWholeRequests
  <2>1. executed'[i] = adu \/ (i \in 1 .. Len(executed) /\ executed'[i] = executed[i])
    BY <1>0, <1>3 DEF HistoryType
  <2> QED
    BY <1>0, <1>8, <2>1, AcceptedKept DEF OnlyWholeRequests
<1> QED
  BY <1>7, <1>9, <1>10, <1>11 DEF IInv

(* The other steps of the thread.                                          *)
LEMMA ThreadInvariant ==
  ASSUME IInv,
         \/ PollFails \/ wait_response_silence \/ SendFrame \/ SendFails
         \/ EchoReads \/ EchoTimesOut \/ ThreadExits
  PROVE  IInv'
<1>0. LifeType /\ BufferType /\ ThreadType /\ LineType /\ HistoryType
  BY TypeParts DEF IInv
<1>e. <<>> \in Seq(U8) /\ Len(<<>>) <= RxCap
  OBVIOUS
<1>n. NoiseHits => noise' \in 0 .. MaxNoise /\ disturbed' = TRUE
  BY <1>0, BoundsAssumption DEF NoiseHits, LineType
<1>1. CASE PollFails
  <2>1. UNCHANGED <<lifecycle, thread, adu, request_end, resp, line, history>>
    BY <1>1 DEF PollFails
  <2>2. BufferType'
    <3>1. rx_buffer' = Kept /\ (Kept = rx_buffer \/ Kept = <<>>)
      BY <1>1 DEF PollFails, Kept
    <3>2. last_rx' = Never \/ last_rx' = last_rx
      BY <1>1 DEF PollFails
    <3> QED
      BY <1>0, <1>e, <2>1, <3>1, <3>2 DEF BufferType
  <2>3. TypeOK'
    BY <1>0, <2>1, <2>2, TypeKept, TypeParts
  <2> QED
    BY <2>1, <2>3, Elsewhere DEF lifecycle, history
<1>2. CASE wait_response_silence
  <2>1. /\ thread = "silence" /\ thread' = "send" /\ request_end' = Never
        /\ UNCHANGED <<lifecycle, rx_buffer, last_rx, adu, resp, line, history>>
    BY <1>2 DEF wait_response_silence
  <2>2. BufferType' /\ ThreadType'
    BY <1>0, <2>1 DEF BufferType, ThreadType
  <2>3. TypeOK'
    BY <1>0, <2>1, <2>2, TypeKept, TypeParts
  <2> QED
    BY <2>1, <2>3, Between DEF lifecycle, history
<1>3. CASE SendFrame
  <2>1. /\ thread = "send" /\ resp \in Seq(U8) /\ resp # <<>>
        /\ adu = <<>> /\ input \in Seq(U8)
    BY <1>0, <1>3 DEF SendFrame, ThreadType, LineType
  <2>2. UNCHANGED <<lifecycle, rx_buffer, last_rx, adu, request_end, ticked,
                    asked, frames, sent, executed, undrained>>
    BY <1>3 DEF SendFrame
  <2>3. \/ thread' = "echo" /\ resp' = resp
        \/ thread' = "top" /\ resp' = <<>>
    BY <1>3 DEF SendFrame
  <2>4. \/ noise' = noise /\ disturbed' = disturbed
        \/ noise' \in 0 .. MaxNoise /\ disturbed' = TRUE
    BY <1>3, <1>n DEF SendFrame
  <2>5. input' = input \/ input' = input \o resp \/ input' = input \o Tail(resp)
    BY <1>3 DEF SendFrame
  <2>6. Tail(resp) \in Seq(U8)
    BY <2>1
  <2>7. input' \in Seq(U8)
    <3>1. input \o resp \in Seq(U8) /\ input \o Tail(resp) \in Seq(U8)
      BY <2>1, <2>6
    <3> QED
      BY <2>1, <2>5, <3>1, Zenon
  <2>8. ThreadType' /\ LineType' /\ HistoryType'
    <3>1. ThreadType'
      <4>1. adu' = <<>>
        BY <2>1, <2>2
      <4>2. CASE thread' = "echo" /\ resp' = resp
        BY <1>e, <2>1, <4>1, <4>2 DEF ThreadType
      <4>3. CASE thread' = "top" /\ resp' = <<>>
        BY <1>e, <4>1, <4>3 DEF ThreadType
      <4> QED
        BY <2>3, <4>2, <4>3
    <3>2. LineType'
      BY <1>0, <2>2, <2>4, <2>7 DEF LineType
    <3>3. HistoryType'
      BY <1>0, <2>2, <2>4 DEF HistoryType
    <3> QED
      BY <3>1, <3>2, <3>3
  <2>9. TypeOK'
    BY <1>0, <2>2, <2>8, TypeKept, TypeParts
  <2> QED
    BY <2>1, <2>2, <2>3, <2>9, Between DEF lifecycle
<1>4. CASE SendFails
  <2>1. /\ thread = "send" /\ resp \in Seq(U8) /\ adu = <<>> /\ input \in Seq(U8)
        /\ thread' = "top" /\ resp' = <<>>
    BY <1>0, <1>4 DEF SendFails, ThreadType, LineType
  <2>2. UNCHANGED <<lifecycle, rx_buffer, last_rx, adu, request_end, ticked,
                    asked, frames, sent, executed>>
    BY <1>4 DEF SendFails
  <2>3. \/ UNCHANGED <<input, noise, disturbed, undrained>>
        \/ /\ noise' \in 0 .. MaxNoise /\ disturbed' = TRUE /\ undrained' = TRUE
           /\ input' = input \o resp
    BY <1>4, <1>n DEF SendFails
  <2>4. input' \in Seq(U8)
    <3>1. input \o resp \in Seq(U8)
      BY <2>1
    <3> QED
      BY <2>1, <2>3, <3>1, Zenon
  <2>5. ThreadType'
    BY <1>e, <2>1, <2>2 DEF ThreadType
  <2>6. LineType'
    BY <1>0, <2>2, <2>3, <2>4 DEF LineType
  <2>7. HistoryType'
    BY <1>0, <2>2, <2>3 DEF HistoryType
  <2>8. TypeOK'
    BY <1>0, <2>2, <2>5, <2>6, <2>7, TypeKept, TypeParts
  <2> QED
    BY <2>1, <2>2, <2>8, Between DEF lifecycle
<1>5. CASE EchoReads
  <2>1. /\ thread = "echo" /\ resp \in Seq(U8) /\ resp # <<>> /\ adu = <<>>
        /\ input \in Seq(U8)
    BY <1>0, <1>5 DEF EchoReads, ThreadType, LineType
  <2>2. PICK n : n = IF Len(input) < Len(resp) THEN Len(input) ELSE Len(resp)
    OBVIOUS
  <2>3. /\ input' = Drop(input, n) /\ resp' = Drop(resp, n)
        /\ thread' = IF n = Len(resp) THEN "top" ELSE "echo"
        /\ UNCHANGED <<lifecycle, rx_buffer, last_rx, adu, request_end, ticked,
                       asked, frames, noise, history>>
    BY <1>5, <2>2 DEF EchoReads
  <2>4. n \in Nat /\ n <= Len(input) /\ n \in 0 .. Len(resp)
    BY <2>1, <2>2
  <2>5. input' \in Seq(U8)
    BY <2>1, <2>3, <2>4, DropBytes
  <2>6. resp' \in Seq(U8) /\ Len(resp') = Len(resp) - n
    BY <2>1, <2>3, <2>4, Dropped
  <2>7. (resp' # <<>>) = (n # Len(resp))
    BY <2>1, <2>4, <2>6
  <2>8. ThreadType'
    <3>1. CASE n = Len(resp)
      BY <2>1, <2>3, <2>6, <2>7, <3>1 DEF ThreadType
    <3>2. CASE n # Len(resp)
      BY <2>1, <2>3, <2>6, <2>7, <3>2 DEF ThreadType
    <3> QED
      BY <3>1, <3>2
  <2>9. LineType'
    BY <1>0, <2>3, <2>5 DEF LineType
  <2>10. TypeOK'
    BY <1>0, <2>3, <2>8, <2>9, TypeKept, TypeParts
  <2>11. thread' \notin {"none", "handle"}
    BY <2>3
  <2> QED
    BY <2>1, <2>3, <2>10, <2>11, Between DEF lifecycle, history
<1>6. CASE EchoTimesOut
  <2>1. /\ thread = "echo" /\ thread' = "top" /\ resp' = <<>>
        /\ UNCHANGED <<lifecycle, rx_buffer, last_rx, adu, request_end, line, history>>
    BY <1>6 DEF EchoTimesOut
  <2>2. ThreadType'
    BY <1>0, <1>e, <2>1 DEF ThreadType
  <2>3. TypeOK'
    BY <1>0, <2>1, <2>2, TypeKept, TypeParts
  <2> QED
    BY <2>1, <2>3, Between DEF lifecycle, history
<1>7. CASE ThreadExits
  <2>1. /\ thread = "top" /\ thread' = "exit"
        /\ UNCHANGED <<lifecycle, rx_buffer, last_rx, adu, request_end, resp, line, history>>
    BY <1>7 DEF ThreadExits
  <2>2. ThreadType'
    BY <1>0, <2>1 DEF ThreadType
  <2>3. TypeOK'
    BY <1>0, <2>1, <2>2, TypeKept, TypeParts
  <2> QED
    BY <2>1, <2>3, Between DEF lifecycle, history
<1> QED
  BY <1>1, <1>2, <1>3, <1>4, <1>5, <1>6, <1>7

(* The application.  A start finds no thread: what it clears, and the      *)
(* configuration it replaces, nobody uses.                                 *)
LEMMA AppInvariant ==
  ASSUME IInv, Start \/ StartLinks \/ StartFails \/ StopFlag \/ StopJoin
  PROVE  IInv'
<1>0. LifeType /\ BufferType /\ ThreadType /\ LineType /\ HistoryType /\ LifeInv
  BY TypeParts DEF IInv
<1>e. <<>> \in Seq(U8) /\ Len(<<>>) <= RxCap /\ <<>> \in Seq(Seq(U8))
  OBVIOUS
<1>s. starts < MaxStarts => starts + 1 \in 0 .. MaxStarts
  BY <1>0, BoundsAssumption DEF LifeType
<1>1. CASE Start
  <2>1. /\ app = "idle" /\ ~initialized /\ starts < MaxStarts
        /\ app' = "starting" /\ starts' = starts + 1 /\ cfg' \in Configs
        /\ keep_running' = TRUE /\ serial_fd' = "open" /\ thread' = "top"
        /\ rx_buffer' = <<>> /\ last_rx' = Never
        /\ executed' = <<>> /\ disturbed' = (sent # <<>>)
        /\ UNCHANGED <<initialized, link, adu, request_end, resp, ticked, asked,
                       frames, noise, sent, undrained>>
    BY <1>1 DEF Start
  <2>2. thread = "none"
    BY <1>0, <2>1 DEF LifeInv
  <2>3. LifeType'
    BY <1>0, <1>s, <2>1 DEF LifeType
  <2>4. BufferType'
    BY <1>0, <1>e, <2>1 DEF BufferType
  <2>5. ThreadType'
    BY <1>0, <2>1, <2>2 DEF ThreadType
  <2>6. LineType'
    <3>1. PICK n \in ReadSizes \cup {0, Len(input)} : input' = Drop(input, n)
      BY <1>1 DEF Start
    <3>2. input \in Seq(U8) /\ Len(input) \in Nat /\ n \in Nat
      BY <1>0, <3>1 DEF LineType
    <3>3. input' \in Seq(U8)
      BY <3>1, <3>2, DropBytes
    <3> QED
      BY <1>0, <2>1, <3>3 DEF LineType
  <2>7. HistoryType'
    BY <1>0, <1>e, <2>1 DEF HistoryType
  <2>8. TypeOK'
    BY <2>3, <2>4, <2>5, <2>6, <2>7, TypeParts
  <2>9. LifeInv' /\ AduInv' /\ OnlyWholeRequests'
    BY <2>1 DEF LifeInv, AduInv, OnlyWholeRequests
  <2> QED
    BY <2>8, <2>9 DEF IInv
<1>2. CASE StartLinks
  <2>1. /\ app = "starting" /\ app' = "idle" /\ initialized' = TRUE /\ link' = TRUE
        /\ UNCHANGED <<keep_running, serial_fd, cfg, starts, server, line, history>>
    BY <1>2 DEF StartLinks
  <2>2. LifeType'
    BY <1>0, <2>1 DEF LifeType
  <2>3. TypeOK'
    BY <1>0, <2>1, <2>2, TypeKept, TypeParts DEF server
  <2>4. LifeInv'
    BY <1>0, <2>1 DEF LifeInv, server
  <2>5. AduInv' /\ OnlyWholeRequests'
    BY <2>1, AcceptedKept DEF IInv, AduInv, OnlyWholeRequests, server, history
  <2> QED
    BY <2>3, <2>4, <2>5 DEF IInv
<1>3. CASE StartFails
  <2>1. /\ app = "idle" /\ ~initialized /\ starts < MaxStarts
        /\ starts' = starts + 1 /\ cfg' \in Configs /\ keep_running' = FALSE
        /\ rx_buffer' = <<>> /\ last_rx' = Never /\ executed' = <<>>
        /\ UNCHANGED <<app, initialized, serial_fd, link, thread, adu, request_end,
                       resp, line, sent, disturbed, undrained>>
    BY <1>3 DEF StartFails
  <2>2. thread = "none"
    BY <1>0, <2>1 DEF LifeInv
  <2>3. LifeType'
    BY <1>0, <1>s, <2>1 DEF LifeType
  <2>4. BufferType'
    BY <1>0, <1>e, <2>1 DEF BufferType
  <2>5. HistoryType'
    BY <1>0, <1>e, <2>1 DEF HistoryType
  <2>6. TypeOK'
    BY <1>0, <2>1, <2>3, <2>4, <2>5, TypeKept, TypeParts
  <2>7. LifeInv' /\ AduInv' /\ OnlyWholeRequests'
    BY <2>1, <2>2 DEF LifeInv, AduInv, OnlyWholeRequests
  <2> QED
    BY <2>6, <2>7 DEF IInv
<1>4. CASE StopFlag
  <2>1. /\ app = "idle" /\ initialized /\ app' = "stopping" /\ keep_running' = FALSE
        /\ UNCHANGED <<initialized, serial_fd, link, cfg, starts, server, line, history>>
    BY <1>4 DEF StopFlag
  <2>2. LifeType'
    BY <1>0, <2>1 DEF LifeType
  <2>3. TypeOK'
    BY <1>0, <2>1, <2>2, TypeKept, TypeParts DEF server
  <2>4. LifeInv'
    BY <1>0, <2>1 DEF LifeInv, server
  <2>5. AduInv' /\ OnlyWholeRequests'
    BY <2>1, AcceptedKept DEF IInv, AduInv, OnlyWholeRequests, server, history
  <2> QED
    BY <2>3, <2>4, <2>5 DEF IInv
<1>5. CASE StopJoin
  <2>1. /\ thread = "exit" /\ thread' = "none" /\ link' = FALSE /\ serial_fd' = "closed"
        /\ app' = "idle" /\ initialized' = FALSE
        /\ UNCHANGED <<keep_running, cfg, starts, rx_buffer, last_rx, adu, request_end,
                       resp, line, history>>
    BY <1>5 DEF StopJoin
  <2>2. LifeType'
    BY <1>0, <2>1 DEF LifeType
  <2>3. ThreadType'
    BY <1>0, <2>1 DEF ThreadType
  <2>4. TypeOK'
    BY <1>0, <2>1, <2>2, <2>3, TypeKept, TypeParts
  <2>5. LifeInv' /\ AduInv'
    BY <2>1 DEF LifeInv, AduInv
  <2>6. OnlyWholeRequests'
    BY <2>1, AcceptedKept DEF IInv, OnlyWholeRequests, history
  <2> QED
    BY <2>4, <2>5, <2>6 DEF IInv
<1> QED
  BY <1>1, <1>2, <1>3, <1>4, <1>5

(* The line: whatever arrives, damaged or not, is bytes.                   *)
LEMMA LineInvariant ==
  ASSUME IInv, (\E f \in Requests : MasterSends(f)) \/ SlaveReplies \/ Tick
  PROVE  IInv'
<1>0. LifeType /\ BufferType /\ ThreadType /\ LineType /\ HistoryType
  BY TypeParts DEF IInv
<1>n. NoiseHits => noise' \in 0 .. MaxNoise /\ disturbed' = TRUE
  BY <1>0, BoundsAssumption DEF NoiseHits, LineType
<1>w. ASSUME NEW g \in Seq(U8), OnTheWire(g)
      PROVE  input' \in Seq(U8) /\ ticked' \in BOOLEAN
  <2>1. input \in Seq(U8) /\ input \o g \in Seq(U8)
    BY <1>0 DEF LineType
  <2> QED
    BY <1>0, <1>w, <2>1 DEF OnTheWire, LineType
<1>1. ASSUME NEW f \in Requests, MasterSends(f) PROVE IInv'
  <2>1. f \in Seq(U8)
    BY RequestAssumption
  <2>2. /\ frames < MaxFrames /\ frames' = frames + 1
        /\ asked' \in {<<>>, f}
        /\ sent' = IF Forgotten THEN <<f>> ELSE Append(sent, f)
        /\ executed' = IF Forgotten THEN <<>> ELSE executed
        /\ undrained' = (undrained /\ ~Forgotten)
        /\ UNCHANGED <<lifecycle, server>>
    BY <1>1 DEF MasterSends
  <2>3. \/ OnTheWire(f) /\ disturbed' \in BOOLEAN /\ noise' = noise
        \/ NoiseHits /\ \E g \in Damaged(f) : OnTheWire(g)
    BY <1>1 DEF MasterSends
  <2>4. input' \in Seq(U8) /\ ticked' \in BOOLEAN
    BY <1>w, <2>1, <2>3, DamagedBytes
  <2>5. noise' \in 0 .. MaxNoise /\ disturbed' \in BOOLEAN
    BY <1>0, <1>n, <2>3 DEF LineType
  <2>6. LineType'
    <3>1. frames' \in 0 .. MaxFrames
      BY <1>0, <2>2, BoundsAssumption DEF LineType
    <3> QED
      BY <2>2, <2>4, <2>5, <3>1 DEF LineType
  <2>7. HistoryType'
    <3>1. sent' \in Seq(Requests)
      BY <1>0, <2>2 DEF HistoryType
    <3>2. executed' \in Seq(Seq(U8))
      BY <1>0, <2>2 DEF HistoryType
    <3> QED
      BY <2>2, <2>5, <3>1, <3>2 DEF HistoryType
  <2>8. TypeOK'
    BY <1>0, <2>2, <2>6, <2>7, TypeKept, TypeParts DEF server
  <2>9. LifeInv' /\ AduInv'
    BY <2>2, AcceptedKept DEF IInv, LifeInv, AduInv, lifecycle, server
  <2>10. OnlyWholeRequests'
    BY <2>2, AcceptedKept DEF IInv, OnlyWholeRequests, lifecycle
  <2> QED
    BY <2>8, <2>9, <2>10 DEF IInv
<1>2. CASE SlaveReplies
  <2>1. /\ asked # <<>> /\ asked' = <<>>
        /\ UNCHANGED <<lifecycle, server, frames, sent, executed, undrained>>
    BY <1>2 DEF SlaveReplies
  <2>2. PICK f \in Seq(U8) : f = OtherReply(asked)
    <3>1. asked \in Seq(U8) /\ Len(asked) >= RTU_MIN_REQ_LENGTH
      BY <1>0, <2>1, RequestAssumption DEF LineType
    <3> QED
      BY <3>1, OtherReplyBytes
  <2>3. \/ OnTheWire(f) /\ disturbed' = disturbed /\ noise' = noise
        \/ NoiseHits /\ \E g \in Damaged(f) : OnTheWire(g)
    BY <1>2, <2>2 DEF SlaveReplies
  <2>4. input' \in Seq(U8) /\ ticked' \in BOOLEAN
    BY <1>w, <2>3, DamagedBytes
  <2>5. noise' \in 0 .. MaxNoise /\ disturbed' \in BOOLEAN
    BY <1>0, <1>n, <2>3 DEF LineType, HistoryType
  <2>6. LineType'
    BY <1>0, <2>1, <2>4, <2>5 DEF LineType
  <2>7. HistoryType'
    BY <1>0, <2>1, <2>5 DEF HistoryType
  <2>8. TypeOK'
    BY <1>0, <2>1, <2>6, <2>7, TypeKept, TypeParts DEF server
  <2> QED
    BY <2>1, <2>8, Elsewhere DEF lifecycle, server
<1>3. CASE Tick
  <2>1. /\ ticked' = TRUE
        /\ last_rx' = Older(last_rx, Timeout)
        /\ request_end' = Older(request_end, SilenceTicks - 1)
        /\ UNCHANGED <<lifecycle, thread, rx_buffer, adu, resp, input, asked,
                       frames, noise, history>>
    BY <1>3 DEF Tick
  <2>2. last_rx' \in {Never} \cup 0 .. Timeout + 1
    BY <1>0, <2>1, TimingAssumption DEF BufferType, Older
  <2>3. request_end' \in {Never} \cup Nat
    BY <1>0, <2>1 DEF BufferType, Older
  <2>4. BufferType'
    BY <1>0, <2>1, <2>2, <2>3 DEF BufferType
  <2>5. LineType'
    BY <1>0, <2>1 DEF LineType
  <2>6. TypeOK'
    BY <1>0, <2>1, <2>4, <2>5, TypeKept, TypeParts
  <2> QED
    BY <2>1, <2>6, Elsewhere DEF lifecycle, history
<1> QED
  BY <1>1, <1>2, <1>3

(* A step of nobody.                                                       *)
LEMMA StutterInvariant == ASSUME IInv, UNCHANGED vars PROVE IInv'
<1>1. UNCHANGED <<lifecycle, server, line, history>>
  BY DEF vars
<1>2. TypeOK'
  BY <1>1, TypeKept, TypeParts DEF IInv, server
<1> QED
  BY <1>1, <1>2, Elsewhere DEF lifecycle, server, history

(* IInv is inductive and holds in every reachable state.                   *)
THEOREM Invariance == Spec => []IInv
<1>1. ASSUME IInv, [Next]_vars PROVE IInv'
  <2>1. CASE Thread \/ PollFails
    BY <1>1, <2>1, PollInvariant, HandleInvariant, ThreadInvariant DEF Thread
  <2>2. CASE Start \/ StartLinks \/ StartFails \/ StopFlag \/ StopJoin
    BY <1>1, <2>2, AppInvariant
  <2>3. CASE (\E f \in Requests : MasterSends(f)) \/ SlaveReplies \/ Tick
    BY <1>1, <2>3, LineInvariant
  <2>4. CASE Halted \/ UNCHANGED vars
    BY <1>1, <2>4, StutterInvariant DEF Halted
  <2> QED
    BY <1>1, <2>1, <2>2, <2>3, <2>4 DEF Next
<1> QED
  BY InitInvariant, <1>1, PTL DEF Spec

(* Every variable keeps its type: the bytes in the buffer fit it, a        *)
(* request is being handled, or a response is being sent, exactly where    *)
(* the thread says so, and everything on the line stays bytes.             *)
THEOREM TypeCorrect == Spec => []TypeOK
<1>1. IInv => TypeOK
  BY DEF IInv
<1> QED
  BY <1>1, Invariance, PTL

(* The server never waits for the rest of a frame that it has no room for, *)
(* whatever the size of the buffer and whatever bytes arrive: a full       *)
(* buffer yields a request or loses a byte (get_complete_request_len,      *)
(* extract_request_frame).                                                 *)
THEOREM BufferNeverWedges == Spec => []NeverWedged
<1>1. ASSUME TypeOK PROVE NeverWedged
  <2> SUFFICES ASSUME Len(rx_buffer) = RxCap
               PROVE  get_complete_request_len(rx_buffer) # 0
    BY DEF NeverWedged
  <2>1. PICK b \in Seq(U8) : b = rx_buffer /\ Len(b) = RxCap /\ Len(b) >= 8
    BY <1>1 DEF TypeOK, RTU_MIN_REQ_LENGTH
  <2>2. b[7] \in Nat
    <3>1. b[7] \in U8
      BY <2>1
    <3> QED
      BY <3>1, ByteNat
  <2>3. CASE b[2] \in WriteMultiple
    <3>1. CASE b[7] = 0 \/ 9 + b[7] > RxCap
      BY <2>1, <2>3, <3>1 DEF get_complete_request_len, FRAME_ERROR
    <3>2. CASE ~(b[7] = 0 \/ 9 + b[7] > RxCap)
      <4>1. get_complete_request_len(b) = 9 + b[7]
        BY <2>1, <2>2, <2>3, <3>2 DEF get_complete_request_len
      <4> QED
        BY <2>1, <2>2, <4>1
    <3> QED
      BY <3>1, <3>2
  <2>4. CASE b[2] \notin WriteMultiple
    BY <2>1, <2>4 DEF get_complete_request_len, RTU_MIN_REQ_LENGTH
  <2> QED
    BY <2>1, <2>3, <2>4
<1> QED
  BY <1>1, TypeCorrect, PTL

(* Nothing reaches a callback that is not a whole request with the right   *)
(* CRC, addressed to this server or broadcast, and a broadcast only when   *)
(* it writes (extract_request_frame, unit_id_matches, server_on_process):  *)
(* whatever the line carries, and across restarts under another            *)
(* configuration.                                                          *)
THEOREM OnlyWholeRequestsExecuted == Spec => []OnlyWholeRequests
<1>1. IInv => OnlyWholeRequests
  BY DEF IInv
<1> QED
  BY <1>1, Invariance, PTL

(* No request that reaches a callback is a frame with a right CRC in which *)
(* one byte was damaged on the line.                                       *)
NoDamagedByteExecuted ==
  \A i \in 1 .. Len(executed) : \A f :
    validate_crc(f) => ~OneByteOff(f, executed[i])

(* However the bytes arrive and are put together, whatever else is on the  *)
(* line: a request in which the line changed one byte, the unit, the       *)
(* function, the data or the CRC, is not executed in its changed form.     *)
THEOREM DamagedByteNeverExecuted == Spec => []NoDamagedByteExecuted
<1>1. OnlyWholeRequests => NoDamagedByteExecuted
  <2> SUFFICES ASSUME OnlyWholeRequests, NEW i \in 1 .. Len(executed), NEW f,
                      validate_crc(f), OneByteOff(f, executed[i])
               PROVE  FALSE
    BY DEF NoDamagedByteExecuted
  <2>1. validate_crc(executed[i])
    BY DEF OnlyWholeRequests, Accepted, WholeRequest
  <2> QED
    BY <2>1, DamagedByteIsNoticed
<1> QED
  BY <1>1, OnlyWholeRequestsExecuted, PTL
=============================================================================
