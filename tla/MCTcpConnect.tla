---------------------------- MODULE MCTcpConnect -----------------------------
(* A small instance of TcpConnect for TLC: a read at the end of the address *)
(* space, a single write through the general builder, a single and a        *)
(* multiple write, and arguments that are refused.                          *)
EXTENDS TcpConnect

Basis(fc, nb) ==
  [op |-> "basis", unit |-> 1, fc |-> fc, addr |-> 65535, nb |-> nb, cap |-> 12]

Calls ==
  { Basis(READ_HOLDING_REGISTERS, 258), Basis(WRITE_SINGLE_REGISTER, 7), Basis(256, 1),
    [op |-> "fc06", unit |-> 255, addr |-> 256, value |-> 65535, cap |-> 12],
    [op |-> "fc16", unit |-> 1, addr |-> 1, values |-> <<1, 65535>>, cap |-> 17],
    [op |-> "fc16", unit |-> 1, addr |-> 1, values |-> <<1, 65535>>, cap |-> 16] }
=============================================================================
