------------------------------ MODULE MC_TwoNode ------------------------------
EXTENDS TwoNode

Wr(op, svc, rc, addr, data) ==
  [op |-> op, svc |-> svc, t |-> 0, rc |-> rc, addr |-> addr, len |-> 32 * Len(data),
   tok |-> 7, opd |-> 0, tv |-> 0, tc |-> 0, hint |-> 0, data |-> data]

Kinds ==
  {Wr("WRITE", "ROI", 7, 0, <<"p", "q">>),
   Wr("WRITE", "UNO", 2, 64, <<"r">>),
   [Wr("FAA", "ROI", 7, 8, << >>) EXCEPT !.opd = 5, !.len = 8],
   [Wr("CAS", "ROI", 2, 8, << >>) EXCEPT !.opd = 5, !.tv = 9, !.len = 8],
   [Wr("READ", "ROT", 4, 0, << >>) EXCEPT !.len = 16],
   [Wr("SEND", "ROL", 2, 0, <<"s">>) EXCEPT !.tc = 3, !.len = 0]}

Numbered(p) == [i \in DOMAIN p |-> [p[i] EXCEPT !.t = i]]
Starts == {k \in Kinds : k.op \in {"FAA", "SEND"} \/ Len(k.data) = 2}
N3 == {Numbered(p) : p \in {q \in [1 .. 3 -> Kinds] : q[1] \in Starts}}
MCPrograms == [x \in Node |-> IF x = 1 THEN N3 ELSE {<< >>}]
MCGroups == [g \in {3} |-> [members |-> <<40, 41>>, policy |-> "RR"]]
=============================================================================
