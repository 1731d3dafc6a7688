---------------------------- MODULE MC_OrderTgt ----------------------------
(* Arrival orders for OrderTgt.                                            *)
EXTENDS OrderTgt, SequencesExt

T(i, exec, n, len) == [ini |-> i, rot |-> TRUE, exec |-> exec, seq |-> n, len |-> len]

\* All SO, one of them late by up to QSize - 2 places: the ring
\* still has room for one that comes while it is being drained.
OneLate(n) ==
  LET InOrder == [k \in 1 .. n |-> T(0, "SO", k - 1, 2)]
      Late(p, d) == InsertAt(RemoveAt(InOrder, p), p + d, InOrder[p]) IN
  {Late(p, d) : p \in 1 .. n - (QSize - 2), d \in 0 .. QSize - 2}

\* All SO, every pair of them swapped: the ring is used several times.
Swapped(n) == {[k \in 1 .. 2 * n |-> T(0, "SO", IF k % 2 = 1 THEN k ELSE k - 2, 2)]}

\* RO and SO in order, transactions of other service modes in between.
Mixed ==
  {<<T(0, e1, 0, 2), [T(0, "SO", 0, l) EXCEPT !.rot = FALSE], T(1, "SO", 0, l),
     T(0, e2, 1, l), T(0, e3, 2, 2)>> : e1, e2, e3 \in {"RO", "SO"}, l \in {1, 2}}

\* All SO, one of them so late that the ring is full when it comes.
TooLate == {InsertAt(RemoveAt([k \in 1 .. 7 |-> T(0, "SO", k - 1, l)], p), p + QSize, T(0, "SO", p - 1, l))
              : p \in 1 .. 7 - QSize, l \in {1, 2}}

MCOrders == OneLate(6) \cup Swapped(QSize + 1) \cup Mixed \cup TooLate

\* What ExecutionOrder asks of the initiators.
ASSUME OrdersNumbered == \A o \in MCOrders : Distinct(o) /\ OthersFirst(o)
=============================================================================
