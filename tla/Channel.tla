------------------------------- MODULE Channel -------------------------------
(***************************************************************************)
(* What the peer channel between two NICs promises: in each direction, the *)
(* packets arrive once and in the order they were sent.                    *)
(***************************************************************************)
EXTENDS Sequences

CONSTANTS Node, Pkt
VARIABLE queue   \* queue[d]: the packets of sender d that have not arrived

Init == queue = [d \in Node |-> << >>]

Send(d, p) == queue' = [queue EXCEPT ![d] = Append(@, p)]

Receive(d) ==
  /\ queue[d] # << >>
  /\ queue' = [queue EXCEPT ![d] = Tail(@)]

Next == \E d \in Node : Receive(d) \/ \E p \in Pkt : Send(d, p)
Spec == Init /\ [][Next]_queue
=============================================================================
