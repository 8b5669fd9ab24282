----------------------------- MODULE MCRtuClient -----------------------------
(* Small instances of RtuClient for TLC. *)
EXTENDS RtuClient, TLC

CONSTANTS t1, t2, c1, c2, port, symlink

OnePath  == [p \in {port} |-> port]
Symlinked == [p \in {port, symlink} |-> port]

Reads     == {[fc |-> "read", shape |-> 1]}
Mixed     == {[fc |-> "read", shape |-> 1], [fc |-> "read", shape |-> 2],
              [fc |-> "write", shape |-> 1]}

(* One context takes the default timing, the other has its own; for both   *)
(* the handoff silence is the longer one.                                  *)
Delays   == (c1 :> 0) @@ (c2 :> TIMING_DISABLED)
Handoffs == (c1 :> 0) @@ (c2 :> 1)
T35Ticks == [b \in {9600, 19200} |-> 1]

Symmetric == Permutations({t1, t2})
=============================================================================
