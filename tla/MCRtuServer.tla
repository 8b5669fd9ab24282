----------------------------- MODULE MCRtuServer -----------------------------
(* Small instances of RtuServer for TLC: this server is unit 1, another    *)
(* slave is unit 2.                                                        *)
EXTENDS RtuServer, TLC

Cap == RTU_MAX_ADU_LENGTH

ReadUs        == rtu_build_request_basis(1, READ_HOLDING_REGISTERS, 0, 1, Cap)
WriteUs       == rtu_build_fc06_request(1, 1, 2, Cap)
WriteAll      == rtu_build_fc16_request(BROADCAST_ADDRESS, 1, <<3>>, Cap)
ReadOther     == rtu_build_request_basis(2, READ_HOLDING_REGISTERS, 0, 1, Cap)
WriteManyOther == rtu_build_fc16_request(2, 1, <<3>>, Cap)

(* Nothing the other slave answers to these looks like a write-multiple.   *)
Ordinary == {WriteUs, WriteAll, ReadOther}

(* Registers whose bytes spell a request for this server that the master   *)
(* does not send. The reply that carries them is 13 bytes long.            *)
Spelt    ==
  LET f == rtu_build_fc06_request(1, 3, 4, Cap)
  IN  [i \in 1 .. 4 |-> f[2 * i - 1] * 256 + f[2 * i]]

(* A write-multiple to the other slave.                                    *)
Foreign  == {ReadUs, WriteManyOther}
Two      == <<7, 7>>

(* What mb_rtu_parse_request reads in a frame is what the builders were    *)
(* given; it refuses a frame with a damaged or a missing byte.             *)
ASSUME RtuRoundTrip ==
  /\ rtu_parse_request(ReadUs) = [fc |-> READ_HOLDING_REGISTERS, addr |-> 0, qty |-> 1]
  /\ rtu_parse_request(WriteUs) = [fc |-> WRITE_SINGLE_REGISTER, addr |-> 1, qty |-> 1]
  /\ rtu_parse_request(WriteManyOther) =
       [fc |-> WRITE_MULTIPLE_REGISTERS, addr |-> 1, qty |-> 1]
  /\ \A f \in Ordinary : \A g \in Damaged(f) : rtu_parse_request(g) = NotParsed

OneUnit == {[unit_id |-> 1, local_echo |-> e] : e \in BOOLEAN}
NoEcho  == {[unit_id |-> 1, local_echo |-> FALSE]}
=============================================================================
