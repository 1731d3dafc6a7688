----------------------------- MODULE MC_RoceNic -----------------------------
EXTENDS RoceNic

Wr(op, qp, va, len, swp, cmp) ==
  [op |-> op, qp |-> qp, valid |-> TRUE, e |-> [va |-> va, len |-> len, swp |-> swp, cmp |-> cmp]]

Kinds ==
  {Wr("WRITE", 1, 8, 8, 7, 0), Wr("FAA", 1, 8, 0, 3, 0), Wr("CAS", 2, 8, 0, 9, 3),
   Wr("SEND", 2, 0, 0, 0, 0), Wr("READ", 2, 8, 8, 0, 0),
   [Wr("WRITE", 1, 8, 8, 7, 0) EXCEPT !.valid = FALSE]}

MCQp == 1 :> 6 @@ 2 :> 7
\* The first and the last request are of those that leave a trace.
Traced == {k \in Kinds : k.valid /\ k.op \in {"WRITE", "FAA", "SEND"}}
MCPrograms == {p \in [1 .. 5 -> Kinds] : {p[1], p[5]} \subseteq Traced}
=============================================================================
