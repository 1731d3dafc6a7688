------------------------------ MODULE PeerRing ------------------------------
(***************************************************************************)
(* The shared-memory ring between the NICs of two gem5 processes           *)
(* (NICTopologySC::PeerRing): a ring of slots and two free-running         *)
(* counters in each direction.  A direction is named after its sender.     *)
(*                                                                         *)
(* The sender writes a slot and then the counter, with a barrier between:  *)
(* two steps, since the receiver is another process.  It never looks at    *)
(* the receiver's counter; that no slot is overwritten before it is read   *)
(* rests on the applications, which never have more than Ahead packets     *)
(* unread.                                                                 *)
(***************************************************************************)
EXTENDS Integers, Sequences

CONSTANTS
  Node, Pkt,
  Zeroed,   \* a slot of the fresh ring
  Slots,    \* OU_RING_SLOTS
  Wrap,     \* 2^32: head and tail are uint32_t
  Ahead     \* how many packets the applications leave unread

ASSUME RingAssumption ==
  /\ Slots \in Nat \ {0} /\ Wrap \in Nat /\ Wrap > Slots
  /\ \E k \in 2 .. Wrap : Wrap = Slots * k
ASSUME PacedAssumption == Ahead \in Nat /\ Ahead <= Slots

VARIABLES head, tail, slot,
  filled    \* filled[d]: d has written the slot and not yet the counter

ringvars == <<head, tail, slot, filled>>

RingInit ==
  /\ head = [d \in Node |-> 0]
  /\ tail = [d \in Node |-> 0]
  /\ slot = [d \in Node |-> [i \in 0 .. Slots - 1 |-> Zeroed]]
  /\ filled = [d \in Node |-> FALSE]

Used(d) == (head[d] - tail[d]) % Wrap
Bump(n) == (n + 1) % Wrap

\* peer_send: the packet is copied into its slot.  (Mutant: the slot behind.)
Place_Behind(d) == (head[d] + 1) % Slots
Place(d) == head[d] % Slots
Fill(d, p) ==
  /\ ~filled[d] /\ Used(d) < Ahead
  /\ p \in Pkt
  /\ slot' = [slot EXCEPT ![d][Place(d)] = p]
  /\ filled' = [filled EXCEPT ![d] = TRUE]
  /\ UNCHANGED <<head, tail>>

\* peer_send: the counter makes it visible.
Publish(d) ==
  /\ filled[d]
  /\ head' = [head EXCEPT ![d] = Bump(@)]
  /\ filled' = [filled EXCEPT ![d] = FALSE]
  /\ UNCHANGED <<tail, slot>>

\* peer_ring_drain, one round of its loop.  (Mutant: the counters are compared
\* by size.)
More_Less(d) == tail[d] < head[d]
More(d) == tail[d] # head[d]
Oldest(d) == slot[d][tail[d] % Slots]
Take(d) ==
  /\ More(d)
  /\ tail' = [tail EXCEPT ![d] = Bump(@)]
  /\ UNCHANGED <<head, slot, filled>>

RingNext == \E d \in Node : Publish(d) \/ Take(d) \/ \E p \in Pkt : Fill(d, p)
RingSpec == RingInit /\ [][RingNext]_ringvars

-----------------------------------------------------------------------------
(* The ring as a queue.                                                    *)

Queue ==
  [d \in Node |-> [i \in 1 .. Used(d) |-> slot[d][(tail[d] + i - 1) % Slots]]]

Chan == INSTANCE Channel WITH queue <- Queue

\* The ring loses, repeats and reorders nothing, over any number of turns of
\* the ring and of the counters.
Queued == Chan!Spec
=============================================================================
