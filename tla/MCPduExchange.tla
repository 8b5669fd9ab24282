---------------------------- MODULE MCPduExchange ----------------------------
(* The boundaries of every limit of the PDU layer, for TLC. *)
EXTENDS PduExchange

BoundaryAddresses == {65411, 65535}
BoundaryFields == {0, 1, 2, 9, 123, 124, 125, 126, 1968, 1969, 2000, 2001}
BoundaryLengths == {1, 2, 4, 5, 8, 252}
BoundaryBytes == {0, 2, 246, 250}
SomeCodes == {0, 2, 260}
SomeHandlers == {Callbacks, {}}

(* A vector that varies and, when it is short, one of the largest values.  *)
SomeData(fc, n) ==
  IF CallbackOf(fc) \in {"read_bits", "write_bits"}
    THEN {[i \in 0 .. n - 1 |-> IF i % 3 = 0 THEN 1 ELSE 0]}
           \cup (IF n < 10 THEN {[i \in 0 .. n - 1 |-> 255]} ELSE {})
    ELSE {[i \in 0 .. n - 1 |-> (i * 40503 + 65535) % 65536]}
=============================================================================
