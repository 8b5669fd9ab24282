---------------------------- MODULE SerialService ----------------------------
(***************************************************************************)
(* What the two client headers promise the application, whatever carries   *)
(* its requests: on a TCP context "only one request is in flight at a      *)
(* time" (modbus_tcp_client.h), on a serial device transactions "are       *)
(* serialized across all such contexts" (modbus_rtu_client.h), and a call  *)
(* comes back.  A caller is outside, queued, served on a channel, or over. *)
(* TcpClient, whose channel is its connection, and RtuClient, with a       *)
(* channel for each device, implement it.                                  *)
(***************************************************************************)

CONSTANTS Callers,    \* the application's threads
          Channels    \* none of which is "out", "queue" or "over"

VARIABLE place    \* where each caller is

Init == place = [t \in Callers |-> "out"]

Move(t, from, to) == place[t] = from /\ place' = [place EXCEPT ![t] = to]

Free(c) == \A t \in Callers : place[t] # c

(* A call that needs a channel queues; another is over at once.            *)
Arrive(t) == Move(t, "out", "queue") \/ Move(t, "out", "over")

Enter(t, c) == Free(c) /\ Move(t, "queue", c)

(* A queued call can turn out to need no channel.                          *)
Withdraw(t) == Move(t, "queue", "over")

Leave(t, c) == Move(t, c, "over")

Return(t) == Move(t, "over", "out")

Next ==
  \E t \in Callers :
    \/ Arrive(t) \/ Withdraw(t) \/ Return(t)
    \/ \E c \in Channels : Enter(t, c) \/ Leave(t, c)

(* Every call comes back.                                                  *)
Responsive == \A t \in Callers : place[t] # "out" ~> place[t] = "out"

Safety == Init /\ [][Next]_place

Spec == Safety /\ Responsive
=============================================================================
