---------------------------- MODULE OrderTgtProofs ----------------------------
(***************************************************************************)
(* Proofs about OrderTgt, for any number of initiators, any ring length,   *)
(* any width of the TASSN and any arrival order:                           *)
(*   Conservation   no transaction is lost or executed twice, whatever     *)
(*                  arrives;                                               *)
(*   Attachment     a waiting transaction keeps its own second flit, if no *)
(*                  initiator mixes SOs of one flit with longer ones;      *)
(*   ExecutionOrder SOs execute in order, if no number is in use twice.    *)
(***************************************************************************)
EXTENDS OrderTgt, FiniteSetTheorems, TLAPS

\* The limit of a leaf that names no prover.
USE SMTT(60)

-----------------------------------------------------------------------------
(* The rings.                                                              *)

\* Slot s is in use in a ring with head h and tail t.
RingAt(h, t, s) == (s - h) % QSize < (t - h) % QSize

\* The remainder is the only number in range that differs by a multiple.
LEMMA ModUnique ==
  ASSUME NEW k \in Int, NEW r \in Int, NEW S \in Nat \ {0}, 0 <= r, r < S
  PROVE  (S * k + r) % S = r
OBVIOUS

\* How far slot a is behind slot b.
LEMMA Behind ==
  ASSUME NEW a \in Slots, NEW b \in Slots
  PROVE  (a - b) % QSize = IF b <= a THEN a - b ELSE a - b + QSize
<1>1. QSize \in Nat \ {0} /\ a \in Int /\ b \in Int /\ 0 <= a /\ a < QSize /\ 0 <= b /\ b < QSize
  BY ConstantsAssumption DEF Slots
<1>2. CASE b <= a
  <2>1. (QSize * 0 + (a - b)) % QSize = a - b
    BY <1>1, <1>2, ModUnique
  <2>2. QSize * 0 + (a - b) = a - b
    BY <1>1
  <2> QED
    BY <2>1, <2>2, <1>2, Zenon
<1>3. CASE ~(b <= a)
  <2>1. (QSize * (-1) + (a - b + QSize)) % QSize = a - b + QSize
    BY <1>1, <1>3, ModUnique
  <2>2. QSize * (-1) + (a - b + QSize) = a - b
    BY <1>1
  <2> QED
    BY <2>1, <2>2, <1>3, Zenon
<1> QED
  BY <1>2, <1>3, Zenon

\* The slot after slot a.
LEMMA After ==
  ASSUME NEW a \in Slots
  PROVE  /\ (a + 1) % QSize = IF a + 1 = QSize THEN 0 ELSE a + 1
         /\ (a + 1) % QSize \in Slots
<1>1. QSize \in Nat \ {0} /\ a \in Int /\ 0 <= a /\ a < QSize
  BY ConstantsAssumption DEF Slots
<1>2. CASE a + 1 = QSize
  <2>1. (QSize * 1 + 0) % QSize = 0
    BY <1>1, ModUnique
  <2>2. QSize * 1 + 0 = a + 1
    BY <1>1, <1>2
  <2>3. 0 \in Slots
    BY <1>1 DEF Slots
  <2> QED
    BY <2>1, <2>2, <2>3, <1>2, Zenon
<1>3. CASE a + 1 # QSize
  <2>1. (QSize * 0 + (a + 1)) % QSize = a + 1
    BY <1>1, <1>3, ModUnique
  <2>2. QSize * 0 + (a + 1) = a + 1 /\ a + 1 \in Slots
    BY <1>1, <1>3 DEF Slots
  <2> QED
    BY <2>1, <2>2, <1>3, Zenon
<1> QED
  BY <1>2, <1>3, Zenon

\* Filling the slot at the tail, if the next one is not the head.
LEMMA RingPush ==
  ASSUME NEW h \in Slots, NEW t \in Slots, (t + 1) % QSize # h
  PROVE  /\ (t + 1) % QSize \in Slots /\ ~RingAt(h, t, t)
         /\ \A s \in Slots : RingAt(h, (t + 1) % QSize, s) <=> RingAt(h, t, s) \/ s = t
<1> DEFINE u == (t + 1) % QSize
<1>1. u # h /\ u \in Slots /\ u = IF t + 1 = QSize THEN 0 ELSE t + 1
  BY After, Zenon
<1> HIDE DEF u
<1>2. \A s \in Slots : (s - h) % QSize = IF h <= s THEN s - h ELSE s - h + QSize
  BY Behind, Zenon
<1>3. /\ (t - h) % QSize = IF h <= t THEN t - h ELSE t - h + QSize
      /\ (u - h) % QSize = IF h <= u THEN u - h ELSE u - h + QSize
  BY <1>1, <1>2, Zenon
<1>4. QSize \in Nat \ {0} /\ h \in 0 .. QSize - 1 /\ t \in 0 .. QSize - 1
  BY ConstantsAssumption DEF Slots
<1>5. ASSUME NEW s \in Slots
      PROVE  RingAt(h, u, s) <=> RingAt(h, t, s) \/ s = t
  <2>1. s \in 0 .. QSize - 1 /\ (s - h) % QSize = IF h <= s THEN s - h ELSE s - h + QSize
    BY <1>2 DEF Slots
  <2> QED
    BY <2>1, <1>1, <1>3, <1>4 DEF RingAt
<1>6. ~RingAt(h, t, t)
  BY <1>3, <1>4 DEF RingAt
<1> QED
  BY <1>1, <1>5, <1>6, Zenon DEF u

\* Freeing the slot at the head.
LEMMA RingPop ==
  ASSUME NEW h \in Slots, NEW t \in Slots, h # t
  PROVE  /\ (h + 1) % QSize \in Slots /\ RingAt(h, t, h)
         /\ \A s \in Slots : RingAt((h + 1) % QSize, t, s) <=> RingAt(h, t, s) /\ s # h
<1> DEFINE g == (h + 1) % QSize
<1>1. g \in Slots /\ g = IF h + 1 = QSize THEN 0 ELSE h + 1
  BY After, Zenon
<1> HIDE DEF g
<1>2. \A s \in Slots : /\ (s - h) % QSize = IF h <= s THEN s - h ELSE s - h + QSize
                       /\ (s - g) % QSize = IF g <= s THEN s - g ELSE s - g + QSize
  BY <1>1, Behind, Zenon
<1>3. /\ (t - h) % QSize = IF h <= t THEN t - h ELSE t - h + QSize
      /\ (t - g) % QSize = IF g <= t THEN t - g ELSE t - g + QSize
      /\ (h - h) % QSize = IF h <= h THEN h - h ELSE h - h + QSize
  BY <1>2, Zenon
<1>4. QSize \in Nat \ {0} /\ h \in 0 .. QSize - 1 /\ t \in 0 .. QSize - 1
  BY ConstantsAssumption DEF Slots
<1>5. ASSUME NEW s \in Slots
      PROVE  RingAt(g, t, s) <=> RingAt(h, t, s) /\ s # h
  <2>1. /\ s \in 0 .. QSize - 1
        /\ (s - h) % QSize = IF h <= s THEN s - h ELSE s - h + QSize
        /\ (s - g) % QSize = IF g <= s THEN s - g ELSE s - g + QSize
    BY <1>2 DEF Slots
  <2> QED
    BY <2>1, <1>1, <1>3, <1>4 DEF RingAt
<1>6. RingAt(h, t, h)
  BY <1>3, <1>4 DEF RingAt
<1> QED
  BY <1>1, <1>5, <1>6, Zenon DEF g

-----------------------------------------------------------------------------
(* Where a transaction is.  Its metadata flit has arrived when the next    *)
(* flit, nx, is past it; it is held in rings qs, was emitted in o, or is   *)
(* among the dropped ones.                                                 *)

Slot == [txn : Nat, valid_a : BOOLEAN, valid_b : BOOLEAN, attached : Nat]
Queues == [Ini -> [Slots -> Slot]]
Flit == [txn : Nat, k : Nat]
FlitOK(nx) == nx \in Flit /\ 0 < nx.txn /\ 0 < nx.k

TypeOK ==
  /\ txns \in Orders
  /\ FlitOK(next)
  /\ queue \in Queues
  /\ head \in [Ini -> Slots]
  /\ tail \in [Ini -> Slots]
  /\ cur_idx \in Ini \cup {None}
  /\ out \in Seq(Flit)

Arrived(t, nx) == t < nx.txn \/ (t = nx.txn /\ nx.k > 1)
HeldIn(qs, t) == {x \in Ini \X Slots : qs[x[1]][x[2]].valid_a /\ qs[x[1]][x[2]].txn = t}
ExecsIn(o, t) == {j \in DOMAIN o : o[j] = [txn |-> t, k |-> 1]}

\* Transaction t has at most one of the places H in the rings, the places E
\* in the output and a place among the dropped ones, dr, and it has one if it
\* arrived.
AtMostOne(S) == \A x, y \in S : x = y
Placed(t, H, E, dr, nx) ==
  /\ AtMostOne(H) /\ AtMostOne(E)
  /\ H = {} \/ E = {}
  /\ t \in dr => H = {} /\ E = {}
  /\ Arrived(t, nx) <=> H # {} \/ E # {} \/ t \in dr

PlaceOK(t, qs, o, dr, nx) == Placed(t, HeldIn(qs, t), ExecsIn(o, t), dr, nx)
PlacesOK(qs, o, dr, nx) == \A t \in Nat \ {0} : PlaceOK(t, qs, o, dr, nx)

\* The slots in use are the ones between head and tail.
RingOK(qs, hd, tl) ==
  \A i \in Ini, s \in Slots : qs[i][s].valid_a <=> RingAt(hd[i], tl[i], s)

Inv == TypeOK /\ RingOK(queue, head, tail) /\ PlacesOK(queue, out, dropped, next)

\* A transaction that had not arrived gets its one place ...
LEMMA PlaceNew ==
  ASSUME NEW t, NEW H, NEW E, NEW dr, NEW nx, NEW ny, Placed(t, H, E, dr, nx),
         ~Arrived(t, nx), Arrived(t, ny), NEW x
  PROVE  /\ Placed(t, H, E \cup {x}, dr, ny)
         /\ Placed(t, {x}, E, dr, ny)
         /\ Placed(t, H, E, dr \cup {t}, ny)
<1>1. AtMostOne(H) /\ AtMostOne(E) /\ H = {} /\ E = {} /\ t \notin dr
  BY Zenon DEF Placed
<1>2. AtMostOne({x})
  BY Zenon DEF AtMostOne
<1>3. E \cup {x} = {x} /\ {x} # {} /\ t \in dr \cup {t}
  BY <1>1, Zenon
<1>4. Placed(t, H, E \cup {x}, dr, ny)
  BY <1>1, <1>2, <1>3, Zenon DEF Placed
<1>5. Placed(t, {x}, E, dr, ny)
  BY <1>1, <1>2, <1>3, Zenon DEF Placed
<1>6. Placed(t, H, E, dr \cup {t}, ny)
  BY <1>1, <1>3, Zenon DEF Placed
<1> QED
  BY <1>4, <1>5, <1>6, Zenon

\* ... and one that is released moves from the ring to the output.
LEMMA PlaceMoves ==
  ASSUME NEW t, NEW H, NEW E, NEW dr, NEW nx, NEW x, NEW y, Placed(t, H, E, dr, nx), x \in H
  PROVE  Placed(t, H \ {x}, E \cup {y}, dr, nx)
BY Zenon DEF Placed, AtMostOne

\* The places of the others do not change.
LEMMA PlaceSame ==
  ASSUME NEW t, NEW H, NEW E, NEW dr, NEW ds, NEW nx, NEW ny, Placed(t, H, E, dr, nx),
         Arrived(t, nx) <=> Arrived(t, ny), t \in dr <=> t \in ds
  PROVE  Placed(t, H, E, ds, ny)
BY Zenon DEF Placed

\* Reading a flit: the transaction it belongs to has arrived, the others are
\* where they were.
LEMMA ReadArrives ==
  ASSUME FlitOK(next), ReadFlit
  PROVE  /\ FlitOK(next')
         /\ \A u \in Nat : u # next.txn => (Arrived(u, next') <=> Arrived(u, next))
         /\ Arrived(next.txn, next')
         /\ next.k > 1 => Arrived(next.txn, next)
         /\ next.k = 1 => ~Arrived(next.txn, next)
<1>1. next \in [txn : Nat, k : Nat] /\ 0 < next.txn /\ 0 < next.k
  BY Zenon DEF FlitOK, Flit
<1>2. PICK t \in Nat, k \in Nat : t = next.txn /\ k = next.k /\ next = [txn |-> t, k |-> k]
  BY <1>1
<1>3. next' = [txn |-> t + 1, k |-> 1] \/ next' = [txn |-> t, k |-> k + 1]
  BY <1>2 DEF ReadFlit
<1> QED
  BY <1>1, <1>2, <1>3 DEF FlitOK, Flit, Arrived

\* What an emitted flit adds to the executions of transaction u.
LEMMA ExecsAppend ==
  ASSUME NEW o \in Seq(Flit), NEW f \in Flit, NEW u
  PROVE  /\ Append(o, f) \in Seq(Flit)
         /\ f = [txn |-> u, k |-> 1] => ExecsIn(Append(o, f), u) = ExecsIn(o, u) \cup {Len(o) + 1}
         /\ f # [txn |-> u, k |-> 1] => ExecsIn(Append(o, f), u) = ExecsIn(o, u)
<1>1. PICK p : p = Append(o, f)
  BY Zenon
<1>2. /\ p \in Seq(Flit) /\ DOMAIN p = DOMAIN o \cup {Len(o) + 1} /\ Len(o) + 1 \notin DOMAIN o
      /\ p[Len(o) + 1] = f /\ \A j \in DOMAIN o : p[j] = o[j]
  BY <1>1
<1> QED
  BY <1>1, <1>2, Zenon DEF ExecsIn

-----------------------------------------------------------------------------
(* Changing one slot.                                                      *)

\* Rings r are rings q except for slot s of initiator i.
Elsewhere(q, r, i, s) ==
  /\ r \in Queues
  /\ \A j \in Ini, x \in Slots : j # i \/ x # s => r[j][x] = q[j][x]

\* Replacing the contents of a slot.
Put(q, i, s, v) == [q EXCEPT ![i] = [q[i] EXCEPT ![s] = v]]

\* The rings after a release, an arrival that waits, and a second flit.
Free(q, i, s) == [q EXCEPT ![i][s].valid_a = FALSE, ![i][s].valid_b = FALSE]
Fill(q, i, s, t) == [q EXCEPT ![i][s].txn = t, ![i][s].valid_a = TRUE]
Attach(q, i, s, t) == [q EXCEPT ![i][s].valid_b = TRUE, ![i][s].attached = t]

IsFree(q, r, i, s) == Elsewhere(q, r, i, s) /\ ~r[i][s].valid_a /\ ~r[i][s].valid_b
IsFill(q, r, i, s, t) ==
  /\ Elsewhere(q, r, i, s)
  /\ r[i][s].valid_a /\ r[i][s].txn = t /\ r[i][s].valid_b = q[i][s].valid_b
IsAttach(q, r, i, s, t) ==
  /\ Elsewhere(q, r, i, s)
  /\ r[i][s].valid_b /\ r[i][s].attached = t
  /\ r[i][s].valid_a = q[i][s].valid_a /\ r[i][s].txn = q[i][s].txn

\* Only that slot changes.
LEMMA Replaced ==
  ASSUME NEW q \in Queues, NEW i \in Ini, NEW s \in Slots, NEW v \in Slot
  PROVE  Elsewhere(q, Put(q, i, s, v), i, s) /\ Put(q, i, s, v)[i][s] = v
BY DEF Elsewhere, Queues, Put

\* The slot that a release frees ...
LEMMA Freed ==
  ASSUME NEW q \in Queues, NEW i \in Ini, NEW s \in Slots
  PROVE  IsFree(q, Free(q, i, s), i, s)
<1>0. PICK r : r = Free(q, i, s)
  BY Zenon
<1>1. q[i][s] \in Slot
  BY Zenon DEF Queues
<1>2. r = [q EXCEPT ![i] = [q[i] EXCEPT ![s] = [q[i][s] EXCEPT !.valid_a = FALSE, !.valid_b = FALSE]]]
  BY <1>0, Zenon DEF Queues, Free
<1>3. PICK v : v = [q[i][s] EXCEPT !.valid_a = FALSE, !.valid_b = FALSE]
  BY Zenon
<1>4. v \in Slot /\ ~v.valid_a /\ ~v.valid_b
  BY <1>1, <1>3, Zenon DEF Slot
<1>5. r = Put(q, i, s, v)
  BY <1>2, <1>3, Zenon DEF Put
<1>6. Elsewhere(q, Put(q, i, s, v), i, s) /\ Put(q, i, s, v)[i][s] = v
  BY <1>4, Replaced
<1>7. Elsewhere(q, r, i, s) /\ r[i][s] = v
  BY <1>5, <1>6
<1>8. IsFree(q, r, i, s)
  BY <1>4, <1>7, Zenon DEF IsFree
<1> QED
  BY <1>0, <1>8

\* ... the one that a waiting transaction fills ...
LEMMA Filled ==
  ASSUME NEW q \in Queues, NEW i \in Ini, NEW s \in Slots, NEW t \in Nat
  PROVE  IsFill(q, Fill(q, i, s, t), i, s, t)
<1>0. PICK r : r = Fill(q, i, s, t)
  BY Zenon
<1>1. q[i][s] \in Slot
  BY Zenon DEF Queues
<1>2. r = [q EXCEPT ![i] = [q[i] EXCEPT ![s] = [q[i][s] EXCEPT !.txn = t, !.valid_a = TRUE]]]
  BY <1>0, Zenon DEF Queues, Fill
<1>3. PICK v : v = [q[i][s] EXCEPT !.txn = t, !.valid_a = TRUE]
  BY Zenon
<1>4. v \in Slot /\ v.valid_a /\ v.txn = t /\ v.valid_b = q[i][s].valid_b
  BY <1>1, <1>3, Zenon DEF Slot
<1>5. r = Put(q, i, s, v)
  BY <1>2, <1>3, Zenon DEF Put
<1>6. Elsewhere(q, Put(q, i, s, v), i, s) /\ Put(q, i, s, v)[i][s] = v
  BY <1>4, Replaced
<1>7. Elsewhere(q, r, i, s) /\ r[i][s] = v
  BY <1>5, <1>6
<1>8. IsFill(q, r, i, s, t)
  BY <1>4, <1>7, ZenonT(60) DEF IsFill
<1> QED
  BY <1>0, <1>8

\* ... and the one that gets a second flit.
LEMMA Attached ==
  ASSUME NEW q \in Queues, NEW i \in Ini, NEW s \in Slots, NEW t \in Nat
  PROVE  IsAttach(q, Attach(q, i, s, t), i, s, t)
<1>0. PICK r : r = Attach(q, i, s, t)
  BY Zenon
<1>1. q[i][s] \in Slot
  BY Zenon DEF Queues
<1>2. r = [q EXCEPT ![i] = [q[i] EXCEPT ![s] = [q[i][s] EXCEPT !.valid_b = TRUE, !.attached = t]]]
  BY <1>0, Zenon DEF Queues, Attach
<1>3. PICK v : v = [q[i][s] EXCEPT !.valid_b = TRUE, !.attached = t]
  BY Zenon
<1>4. /\ v \in Slot /\ v.valid_b /\ v.attached = t
      /\ v.valid_a = q[i][s].valid_a /\ v.txn = q[i][s].txn
  BY <1>1, <1>3, Zenon DEF Slot
<1>5. r = Put(q, i, s, v)
  BY <1>2, <1>3, Zenon DEF Put
<1>6. Elsewhere(q, Put(q, i, s, v), i, s) /\ Put(q, i, s, v)[i][s] = v
  BY <1>4, Replaced
<1>7. Elsewhere(q, r, i, s) /\ r[i][s] = v
  BY <1>5, <1>6
<1>8. IsAttach(q, r, i, s, t)
  BY <1>4, <1>7, Zenon DEF IsAttach
<1> QED
  BY <1>0, <1>8

\* What a transaction u loses when slot s of initiator i is freed, and gains
\* when a free one is filled with t.
LEMMA HeldChange ==
  ASSUME NEW q, NEW r, NEW i \in Ini, NEW s \in Slots, Elsewhere(q, r, i, s), NEW u
  PROVE  /\ ~r[i][s].valid_a => HeldIn(r, u) = HeldIn(q, u) \ {<<i, s>>}
         /\ r[i][s].valid_a /\ r[i][s].txn = u /\ HeldIn(q, u) = {} => HeldIn(r, u) = {<<i, s>>}
         /\ r[i][s].txn # u /\ ~q[i][s].valid_a => HeldIn(r, u) = HeldIn(q, u)
         /\ r[i][s].valid_a = q[i][s].valid_a /\ r[i][s].txn = q[i][s].txn
              => HeldIn(r, u) = HeldIn(q, u)
<1>1. \A x \in Ini \X Slots :
        /\ x[1] \in Ini /\ x[2] \in Slots
        /\ x = <<i, s>> \/ r[x[1]][x[2]] = q[x[1]][x[2]]
  BY DEF Elsewhere
<1>2. <<i, s>> \in Ini \X Slots /\ <<i, s>>[1] = i /\ <<i, s>>[2] = s
  OBVIOUS
<1>3. \A x : x \in HeldIn(q, u) <=> x \in Ini \X Slots /\ q[x[1]][x[2]].valid_a /\ q[x[1]][x[2]].txn = u
  BY Zenon DEF HeldIn
<1>4. \A x : x \in HeldIn(r, u) <=> x \in Ini \X Slots /\ r[x[1]][x[2]].valid_a /\ r[x[1]][x[2]].txn = u
  BY Zenon DEF HeldIn
<1>5. \A x : x # <<i, s>> => (x \in HeldIn(r, u) <=> x \in HeldIn(q, u))
  BY <1>1, <1>3, <1>4, ZenonT(60)
<1>6. /\ <<i, s>> \in HeldIn(q, u) <=> q[i][s].valid_a /\ q[i][s].txn = u
      /\ <<i, s>> \in HeldIn(r, u) <=> r[i][s].valid_a /\ r[i][s].txn = u
  BY <1>2, <1>3, <1>4, Zenon
<1>7. PICK p : p = <<i, s>>
  BY Zenon
<1>8. PICK A, B : A = HeldIn(q, u) /\ B = HeldIn(r, u)
  BY Zenon
<1>9. /\ \A x : x # p => (x \in B <=> x \in A)
      /\ p \in A <=> q[i][s].valid_a /\ q[i][s].txn = u
      /\ p \in B <=> r[i][s].valid_a /\ r[i][s].txn = u
  BY <1>5, <1>6, <1>7, <1>8, ZenonT(60)
<1>10. /\ ~r[i][s].valid_a => B = A \ {p}
       /\ r[i][s].valid_a /\ r[i][s].txn = u /\ A = {} => B = {p}
       /\ r[i][s].txn # u /\ ~q[i][s].valid_a => B = A
       /\ r[i][s].valid_a = q[i][s].valid_a /\ r[i][s].txn = q[i][s].txn => B = A
  BY <1>9
<1> QED
  BY <1>7, <1>8, <1>10, Zenon

-----------------------------------------------------------------------------
(* The drain at the end of a call, from the rings qs and tl that the input *)
(* left behind.                                                            *)

\* The head of initiator i is released ...
Released(i, qs, tl) ==
  /\ i \in Ini /\ head[i] \in Slots /\ head[i] # tl[i]
  /\ qs[i][head[i]].valid_a /\ Tassn(qs[i][head[i]].txn) = Want(i)
  /\ Elsewhere(qs, queue', i, head[i])
  /\ ~queue'[i][head[i]].valid_a /\ ~queue'[i][head[i]].valid_b
  /\ tail' = tl
  /\ head' = [head EXCEPT ![i] = (head[i] + 1) % QSize]
  /\ out' = Append(out, [txn |-> qs[i][head[i]].txn, k |-> 1])
  /\ exec_complete' = [exec_complete EXCEPT ![i] = Tassn(qs[i][head[i]].txn)]

\* ... or nothing is.
Kept(qs, tl) ==
  queue' = qs /\ tail' = tl /\ head' = head /\ out' = out /\ exec_complete' = exec_complete

\* The two outcomes of a drain.
LEMMA DrainCases ==
  ASSUME NEW i \in Ini \cup {None}, NEW qs \in Queues, NEW tl,
         head \in [Ini -> Slots], Drain(i, qs, tl)
  PROVE  Released(i, qs, tl) \/ Kept(qs, tl)
<1>1. CASE i # None /\ Ready(i, qs, tl)
  <2>1. i \in Ini
    BY <1>1, Zenon
  <2>2. head[i] \in Slots
    BY <2>1, Zenon
  <2>3. head[i] # tl[i] /\ qs[i][head[i]].valid_a /\ Tassn(qs[i][head[i]].txn) = Want(i)
    BY <1>1, Zenon DEF Ready
  <2>4. /\ queue' = Free(qs, i, head[i]) /\ tail' = tl
        /\ head' = [head EXCEPT ![i] = (head[i] + 1) % QSize]
        /\ out' = Append(out, [txn |-> qs[i][head[i]].txn, k |-> 1])
        /\ exec_complete' = [exec_complete EXCEPT ![i] = Tassn(qs[i][head[i]].txn)]
    BY <1>1, Zenon DEF Drain, Output, Free
  <2>5. IsFree(qs, queue', i, head[i])
    BY <2>1, <2>2, <2>4, Freed
  <2> QED
    BY <2>1, <2>2, <2>3, <2>4, <2>5, Zenon DEF Released, IsFree
<1>2. CASE ~(i # None /\ Ready(i, qs, tl))
  BY <1>2, Zenon DEF Drain, Kept
<1> QED
  BY <1>1, <1>2, Zenon

\* What the drain starts from.
Draining(i, qs, tl) ==
  /\ TypeOK /\ FlitOK(next')
  /\ i \in Ini \cup {None} /\ qs \in Queues /\ tl \in [Ini -> Slots]
  /\ RingOK(qs, head, tl) /\ PlacesOK(qs, out, dropped', next')
  /\ Drain(i, qs, tl)

\* What it leaves.
RingsTyped ==
  queue' \in Queues /\ head' \in [Ini -> Slots] /\ tail' \in [Ini -> Slots] /\ out' \in Seq(Flit)
Settled ==
  /\ RingsTyped
  /\ RingOK(queue', head', tail')
  /\ PlacesOK(queue', out', dropped', next')

\* A release frees the slot at the head and no other.
LEMMA ReleasedRing ==
  ASSUME NEW i, NEW qs, NEW tl \in [Ini -> Slots], Released(i, qs, tl),
         head \in [Ini -> Slots], RingOK(qs, head, tl)
  PROVE  RingOK(queue', head', tail') /\ head' \in [Ini -> Slots]
<1>1. i \in Ini /\ head[i] \in Slots /\ head[i] # tl[i] /\ tl[i] \in Slots
  BY Zenon DEF Released
<1> DEFINE g == (head[i] + 1) % QSize
<1>3. /\ g \in Slots
      /\ \A s \in Slots : RingAt(g, tl[i], s) <=> RingAt(head[i], tl[i], s) /\ s # head[i]
  BY <1>1, RingPop, ZenonT(60)
<1>4. tail' = tl /\ head' = [head EXCEPT ![i] = g]
  BY Zenon DEF Released
<1> HIDE DEF g
<1>5. head' \in [Ini -> Slots] /\ head'[i] = g /\ \A j \in Ini : j # i => head'[j] = head[j]
  BY <1>1, <1>3, <1>4
<1>6. /\ ~queue'[i][head[i]].valid_a
      /\ \A j \in Ini, s \in Slots : j # i \/ s # head[i] => queue'[j][s] = qs[j][s]
  BY Zenon DEF Released, Elsewhere
<1>7. ASSUME NEW j \in Ini, NEW s \in Slots
      PROVE  queue'[j][s].valid_a <=> RingAt(head'[j], tail'[j], s)
  <2>1. qs[j][s].valid_a <=> RingAt(head[j], tl[j], s)
    BY Zenon DEF RingOK
  <2>2. CASE j # i
    BY <2>1, <2>2, <1>4, <1>5, <1>6, ZenonT(60)
  <2>3. CASE j = i /\ s # head[i]
    <3>1. queue'[j][s] = qs[j][s]
      BY <2>3, <1>6, Zenon
    <3>2. RingAt(head'[j], tail'[j], s) <=> RingAt(head[j], tl[j], s)
      BY <2>3, <1>3, <1>4, <1>5, Zenon
    <3> QED
      BY <2>1, <3>1, <3>2, Zenon
  <2>4. CASE j = i /\ s = head[i]
    BY <2>4, <1>3, <1>4, <1>5, <1>6, Zenon
  <2> QED
    BY <2>2, <2>3, <2>4, Zenon
<1> QED
  BY <1>5, <1>7, Zenon DEF RingOK

\* It moves one transaction from the ring to the output.
LEMMA ReleasedPlaces ==
  ASSUME NEW i, NEW qs \in Queues, NEW tl, Released(i, qs, tl), out \in Seq(Flit),
         NEW dr, NEW nx, PlacesOK(qs, out, dr, nx)
  PROVE  out' \in Seq(Flit) /\ PlacesOK(queue', out', dr, nx)
<1>1. /\ i \in Ini /\ head[i] \in Slots /\ qs[i][head[i]].valid_a
      /\ Elsewhere(qs, queue', i, head[i]) /\ ~queue'[i][head[i]].valid_a
  BY Zenon DEF Released
<1>2. PICK t : t = qs[i][head[i]].txn
  BY Zenon
<1>3. PICK f : f = [txn |-> t, k |-> 1]
  BY Zenon
<1>4. out' = Append(out, f)
  BY <1>2, <1>3, Zenon DEF Released
<1>5. t \in Nat /\ f \in Flit
  <2>1. qs[i][head[i]] \in Slot
    BY <1>1, Zenon DEF Queues
  <2>2. t \in Nat
    BY <2>1, <1>2, Zenon DEF Slot
  <2> QED
    BY <2>2, <1>3 DEF Flit
<1>6. ASSUME NEW u \in Nat \ {0}
      PROVE  PlaceOK(u, queue', out', dr, nx)
  <2>1. Placed(u, HeldIn(qs, u), ExecsIn(out, u), dr, nx)
    BY Zenon DEF PlacesOK, PlaceOK
  <2>2. HeldIn(queue', u) = HeldIn(qs, u) \ {<<i, head[i]>>}
    <3>1. ~queue'[i][head[i]].valid_a =>
            HeldIn(queue', u) = HeldIn(qs, u) \ {<<i, head[i]>>}
      BY <1>1, HeldChange
    <3> QED
      BY <3>1, <1>1, ZenonT(60)
  <2>3. CASE u = t
    <3>1. <<i, head[i]>> \in HeldIn(qs, u)
      <4>1. /\ <<i, head[i]>> \in Ini \X Slots
            /\ <<i, head[i]>>[1] = i /\ <<i, head[i]>>[2] = head[i]
        BY <1>1
      <4> QED
        BY <4>1, <1>1, <1>2, <2>3, ZenonT(60) DEF HeldIn
    <3>2. ExecsIn(out', u) = ExecsIn(out, u) \cup {Len(out) + 1}
      <4>1. f = [txn |-> u, k |-> 1]
        BY <1>3, <2>3, Zenon
      <4>2. ExecsIn(Append(out, f), u) = ExecsIn(out, u) \cup {Len(out) + 1}
        BY <4>1, <1>5, ExecsAppend
      <4> QED
        BY <4>2, <1>4, Zenon
    <3> QED
      <4>1. Placed(u, HeldIn(qs, u) \ {<<i, head[i]>>}, ExecsIn(out, u) \cup {Len(out) + 1},
                   dr, nx)
        BY <2>1, <3>1, PlaceMoves, Zenon
      <4> QED
        BY <4>1, <2>2, <3>2, Zenon DEF PlaceOK
  <2>4. CASE u # t
    <3>1. HeldIn(qs, u) \ {<<i, head[i]>>} = HeldIn(qs, u)
      <4>1. <<i, head[i]>>[1] = i /\ <<i, head[i]>>[2] = head[i]
        OBVIOUS
      <4>2. <<i, head[i]>> \notin HeldIn(qs, u)
        BY <4>1, <1>2, <2>4, Zenon DEF HeldIn
      <4> QED
        BY <4>2, Zenon
    <3>2. f # [txn |-> u, k |-> 1]
      BY <1>3, <2>4
    <3>3. ExecsIn(out', u) = ExecsIn(out, u)
      BY <1>4, <1>5, <3>2, ExecsAppend, ZenonT(60)
    <3> QED
      BY <2>1, <2>2, <3>1, <3>3, Zenon DEF PlaceOK
  <2> QED
    BY <2>3, <2>4, Zenon
<1>7. out' \in Seq(Flit)
  BY <1>4, <1>5, ExecsAppend, Zenon
<1> QED
  BY <1>6, <1>7, Zenon DEF PlacesOK

\* The drain keeps rings and places right.
LEMMA DrainOK ==
  ASSUME NEW i, NEW qs, NEW tl, Draining(i, qs, tl)
  PROVE  Settled
<1>1. /\ i \in Ini \cup {None} /\ qs \in Queues /\ tl \in [Ini -> Slots]
      /\ RingOK(qs, head, tl) /\ PlacesOK(qs, out, dropped', next')
      /\ Drain(i, qs, tl) /\ head \in [Ini -> Slots] /\ out \in Seq(Flit)
  BY Zenon DEF Draining, TypeOK
<1>2. CASE Released(i, qs, tl)
  <2>1. RingOK(queue', head', tail') /\ head' \in [Ini -> Slots]
    BY <1>1, <1>2, ReleasedRing, Zenon
  <2>2. out' \in Seq(Flit) /\ PlacesOK(queue', out', dropped', next')
    BY <1>1, <1>2, ReleasedPlaces, Zenon
  <2>3. queue' \in Queues /\ tail' \in [Ini -> Slots]
    BY <1>1, <1>2, Zenon DEF Released, Elsewhere
  <2> QED
    BY <2>1, <2>2, <2>3, Zenon DEF Settled, RingsTyped
<1>3. CASE Kept(qs, tl)
  <2>1. queue' = qs /\ tail' = tl /\ head' = head /\ out' = out
    BY <1>3, Zenon DEF Kept
  <2>2. PlacesOK(queue', out', dropped', next') /\ RingOK(queue', head', tail')
    BY <1>1, <2>1, Zenon
  <2> QED
    BY <1>1, <2>1, <2>2, Zenon DEF Settled, RingsTyped
<1> QED
  BY <1>1, <1>2, <1>3, DrainCases, Zenon

-----------------------------------------------------------------------------
(* Conservation: the calls.                                                *)

\* A flit that passes straight through.
Emitting ==
  /\ Inv /\ ReadFlit
  /\ out' = Append(out, next)
  /\ queue' = queue /\ head' = head /\ tail' = tail /\ dropped' = dropped

\* Its transaction executes if it is a metadata flit.
LEMMA EmitOK ==
  ASSUME Emitting
  PROVE  Settled /\ FlitOK(next')
<1>1. /\ TypeOK /\ RingOK(queue, head, tail) /\ PlacesOK(queue, out, dropped, next)
      /\ ReadFlit /\ out' = Append(out, next)
      /\ queue' = queue /\ head' = head /\ tail' = tail /\ dropped' = dropped
  BY Zenon DEF Emitting, Inv
<1>2. /\ FlitOK(next) /\ queue \in Queues /\ head \in [Ini -> Slots] /\ tail \in [Ini -> Slots]
      /\ out \in Seq(Flit)
  BY <1>1, Zenon DEF TypeOK
<1>3. /\ FlitOK(next')
      /\ \A u \in Nat : u # next.txn => (Arrived(u, next') <=> Arrived(u, next))
      /\ Arrived(next.txn, next')
      /\ next.k > 1 => Arrived(next.txn, next)
      /\ next.k = 1 => ~Arrived(next.txn, next)
  BY <1>1, <1>2, ReadArrives, Zenon
<1>4. next \in Flit /\ (next.k = 1 \/ next.k > 1)
  BY <1>2 DEF FlitOK, Flit
<1>5. ASSUME NEW u \in Nat \ {0}
      PROVE  PlaceOK(u, queue', out', dropped', next')
  <2>1. Placed(u, HeldIn(queue, u), ExecsIn(out, u), dropped, next)
    BY <1>1, Zenon DEF PlacesOK, PlaceOK
  <2>2. CASE u = next.txn /\ next.k = 1
    <3>1. next = [txn |-> u, k |-> 1]
      BY <1>4, <2>2 DEF Flit
    <3>2. ExecsIn(Append(out, next), u) = ExecsIn(out, u) \cup {Len(out) + 1}
      BY <3>1, <1>2, <1>4, ExecsAppend
    <3>3. Placed(u, HeldIn(queue, u), ExecsIn(out, u) \cup {Len(out) + 1}, dropped, next')
      BY <2>1, <2>2, <1>3, PlaceNew, Zenon
    <3> QED
      BY <3>2, <3>3, <1>1, Zenon DEF PlaceOK
  <2>3. CASE ~(u = next.txn /\ next.k = 1)
    <3>1. next # [txn |-> u, k |-> 1]
      BY <2>3
    <3>2. ExecsIn(Append(out, next), u) = ExecsIn(out, u)
      BY <3>1, <1>2, <1>4, ExecsAppend
    <3>3. Arrived(u, next) <=> Arrived(u, next')
      BY <2>3, <1>3, <1>4, Zenon
    <3>4. Placed(u, HeldIn(queue, u), ExecsIn(out, u), dropped, next')
      BY <2>1, <3>3, PlaceSame, Zenon
    <3> QED
      BY <3>2, <3>4, <1>1, Zenon DEF PlaceOK
  <2> QED
    BY <2>2, <2>3, Zenon
<1>6. out' \in Seq(Flit)
  BY <1>1, <1>2, <1>4
<1>7. RingOK(queue', head', tail')
  BY <1>1, Zenon
<1> QED
  BY <1>1, <1>2, <1>3, <1>5, <1>6, <1>7, Zenon DEF Settled, RingsTyped, PlacesOK

\* A metadata flit that finds a free slot.
LEMMA FillRing ==
  ASSUME Inv, NEW i \in Ini, HasRoom(i), NEW t \in Nat
  PROVE  /\ [tail EXCEPT ![i] = (@ + 1) % QSize] \in [Ini -> Slots]
         /\ tail[i] \in Slots
         /\ ~queue[i][tail[i]].valid_a
         /\ Fill(queue, i, tail[i], t) \in Queues
         /\ RingOK(Fill(queue, i, tail[i], t), head, [tail EXCEPT ![i] = (@ + 1) % QSize])
<1>1. /\ queue \in Queues /\ head \in [Ini -> Slots] /\ tail \in [Ini -> Slots]
      /\ RingOK(queue, head, tail)
  BY Zenon DEF Inv, TypeOK
<1>2. head[i] \in Slots /\ tail[i] \in Slots /\ (tail[i] + 1) % QSize # head[i]
  BY <1>1, Zenon DEF HasRoom
<1> DEFINE u == (tail[i] + 1) % QSize
<1>3. /\ u \in Slots /\ ~RingAt(head[i], tail[i], tail[i])
      /\ \A s \in Slots : RingAt(head[i], u, s) <=> RingAt(head[i], tail[i], s) \/ s = tail[i]
  BY <1>2, RingPush, Zenon
<1>4. PICK tl : tl = [tail EXCEPT ![i] = u]
  BY Zenon
<1>5. [tail EXCEPT ![i] = (@ + 1) % QSize] = tl
  BY <1>4, Zenon
<1> HIDE DEF u
<1>6. tl \in [Ini -> Slots] /\ tl[i] = u /\ \A j \in Ini : j # i => tl[j] = tail[j]
  BY <1>1, <1>3, <1>4
<1>7. PICK r : r = Fill(queue, i, tail[i], t)
  BY Zenon
<1>8. Elsewhere(queue, r, i, tail[i]) /\ r[i][tail[i]].valid_a
  <2>1. IsFill(queue, r, i, tail[i], t)
    BY <1>1, <1>2, <1>7, Filled
  <2> QED
    BY <2>1, Zenon DEF IsFill
<1>9. /\ r \in Queues
      /\ \A j \in Ini, x \in Slots : j # i \/ x # tail[i] => r[j][x] = queue[j][x]
  BY <1>8, Zenon DEF Elsewhere
<1>10. ASSUME NEW j \in Ini, NEW s \in Slots
       PROVE  r[j][s].valid_a <=> RingAt(head[j], tl[j], s)
  <2>1. queue[j][s].valid_a <=> RingAt(head[j], tail[j], s)
    BY <1>1, Zenon DEF RingOK
  <2>2. CASE j # i
    BY <2>1, <2>2, <1>6, <1>9, Zenon
  <2>3. CASE j = i /\ s # tail[i]
    <3>1. r[j][s] = queue[j][s]
      BY <2>3, <1>9, Zenon
    <3>2. RingAt(head[j], tl[j], s) <=> RingAt(head[j], tail[j], s)
      BY <2>3, <1>3, <1>6, Zenon
    <3> QED
      BY <2>1, <3>1, <3>2, Zenon
  <2>4. CASE j = i /\ s = tail[i]
    BY <2>4, <1>3, <1>6, <1>8, Zenon
  <2> QED
    BY <2>2, <2>3, <2>4, Zenon
<1>11. RingOK(r, head, tl)
  BY <1>10, Zenon DEF RingOK
<1>12. ~queue[i][tail[i]].valid_a
  BY <1>1, <1>2, <1>3, Zenon DEF RingOK
<1> QED
  BY <1>2, <1>5, <1>6, <1>7, <1>9, <1>11, <1>12, ZenonT(60)

\* A metadata flit that waits has its one place in the ring ...
LEMMA FillPlaces ==
  ASSUME Inv, ReadFlit, next.k = 1, NEW i \in Ini, HasRoom(i)
  PROVE  PlacesOK(Fill(queue, i, tail[i], next.txn), out, dropped, next')
<1>1. FlitOK(next) /\ queue \in Queues /\ PlacesOK(queue, out, dropped, next)
  BY Zenon DEF Inv, TypeOK
<1>2. next.txn \in Nat
  BY <1>1 DEF FlitOK, Flit
<1>3. tail[i] \in Slots /\ ~queue[i][tail[i]].valid_a
  BY <1>2, FillRing, Zenon
<1>4. PICK r : r = Fill(queue, i, tail[i], next.txn)
  BY Zenon
<1>5. Elsewhere(queue, r, i, tail[i]) /\ r[i][tail[i]].valid_a /\ r[i][tail[i]].txn = next.txn
  <2>1. IsFill(queue, r, i, tail[i], next.txn)
    BY <1>1, <1>2, <1>3, <1>4, Filled
  <2> QED
    BY <2>1, Zenon DEF IsFill
<1>6. /\ \A u \in Nat : u # next.txn => (Arrived(u, next') <=> Arrived(u, next))
      /\ Arrived(next.txn, next') /\ ~Arrived(next.txn, next)
  BY <1>1, ReadArrives, Zenon
<1>7. ASSUME NEW u \in Nat \ {0}
      PROVE  PlaceOK(u, r, out, dropped, next')
  <2>1. Placed(u, HeldIn(queue, u), ExecsIn(out, u), dropped, next)
    BY <1>1, Zenon DEF PlacesOK, PlaceOK
  <2>2. CASE u = next.txn
    <3>1. HeldIn(queue, u) = {}
      BY <2>1, <2>2, <1>6, ZenonT(60) DEF Placed
    <3>2. r[i][tail[i]].valid_a /\ r[i][tail[i]].txn = u /\ HeldIn(queue, u) = {}
            => HeldIn(r, u) = {<<i, tail[i]>>}
      BY <1>3, <1>5, HeldChange
    <3>3. HeldIn(r, u) = {<<i, tail[i]>>}
      BY <3>1, <3>2, <2>2, <1>5, Zenon
    <3>4. Placed(u, {<<i, tail[i]>>}, ExecsIn(out, u), dropped, next')
      BY <2>1, <2>2, <1>6, PlaceNew, Zenon
    <3> QED
      BY <3>3, <3>4, Zenon DEF PlaceOK
  <2>3. CASE u # next.txn
    <3>1. r[i][tail[i]].txn # u /\ ~queue[i][tail[i]].valid_a => HeldIn(r, u) = HeldIn(queue, u)
      BY <1>3, <1>5, HeldChange
    <3>2. HeldIn(r, u) = HeldIn(queue, u)
      BY <3>1, <2>3, <1>3, <1>5, Zenon
    <3>3. Placed(u, HeldIn(queue, u), ExecsIn(out, u), dropped, next')
      BY <2>1, <2>3, <1>6, PlaceSame, Zenon
    <3> QED
      BY <3>2, <3>3, ZenonT(60) DEF PlaceOK
  <2> QED
    BY <2>2, <2>3, Zenon
<1> QED
  BY <1>4, <1>7, Zenon DEF PlacesOK

\* ... one that a full ring refuses is dropped ...
LEMMA DropPlaces ==
  ASSUME Inv, ReadFlit, next.k = 1
  PROVE  PlacesOK(queue, out, dropped \cup {next.txn}, next')
<1>1. FlitOK(next) /\ PlacesOK(queue, out, dropped, next)
  BY Zenon DEF Inv, TypeOK
<1>2. /\ \A u \in Nat : u # next.txn => (Arrived(u, next') <=> Arrived(u, next))
      /\ Arrived(next.txn, next') /\ ~Arrived(next.txn, next)
  BY <1>1, ReadArrives, Zenon
<1>3. ASSUME NEW u \in Nat \ {0}
      PROVE  PlaceOK(u, queue, out, dropped \cup {next.txn}, next')
  <2>1. Placed(u, HeldIn(queue, u), ExecsIn(out, u), dropped, next)
    BY <1>1, Zenon DEF PlacesOK, PlaceOK
  <2>2. CASE u = next.txn
    <3>1. Placed(u, HeldIn(queue, u), ExecsIn(out, u), dropped \cup {u}, next')
      BY <2>1, <2>2, <1>2, PlaceNew, Zenon
    <3> QED
      BY <3>1, <2>2, Zenon DEF PlaceOK
  <2>3. CASE u # next.txn
    <3>1. u \in dropped <=> u \in dropped \cup {next.txn}
      BY <2>3, Zenon
    <3>2. Placed(u, HeldIn(queue, u), ExecsIn(out, u), dropped \cup {next.txn}, next')
      BY <2>1, <2>3, <3>1, <1>2, PlaceSame, Zenon
    <3> QED
      BY <3>2, Zenon DEF PlaceOK
  <2> QED
    BY <2>2, <2>3, Zenon
<1> QED
  BY <1>3, Zenon DEF PlacesOK

\* ... and a later flit, read into a slot, moves no transaction.
LEMMA AttachPlaces ==
  ASSUME Inv, ReadFlit, next.k > 1, NEW i \in Ini, NEW s \in Slots
  PROVE  /\ Attach(queue, i, s, next.txn) \in Queues
         /\ RingOK(Attach(queue, i, s, next.txn), head, tail)
         /\ PlacesOK(Attach(queue, i, s, next.txn), out, dropped, next')
<1>1. /\ FlitOK(next) /\ queue \in Queues /\ RingOK(queue, head, tail)
      /\ PlacesOK(queue, out, dropped, next)
  BY Zenon DEF Inv, TypeOK
<1>2. next.txn \in Nat
  BY <1>1 DEF FlitOK, Flit
<1>3. PICK r : r = Attach(queue, i, s, next.txn)
  BY Zenon
<1>4. /\ Elsewhere(queue, r, i, s)
      /\ r[i][s].valid_a = queue[i][s].valid_a /\ r[i][s].txn = queue[i][s].txn
  <2>1. IsAttach(queue, r, i, s, next.txn)
    BY <1>1, <1>2, <1>3, Attached
  <2> QED
    BY <2>1, Zenon DEF IsAttach
<1>5. /\ r \in Queues
      /\ \A j \in Ini, x \in Slots : j # i \/ x # s => r[j][x] = queue[j][x]
  BY <1>4, Zenon DEF Elsewhere
<1>6. ASSUME NEW j \in Ini, NEW x \in Slots
      PROVE  r[j][x].valid_a <=> RingAt(head[j], tail[j], x)
  <2>1. queue[j][x].valid_a <=> RingAt(head[j], tail[j], x)
    BY <1>1, Zenon DEF RingOK
  <2>2. r[j][x].valid_a = queue[j][x].valid_a
    BY <1>4, <1>5, Zenon
  <2> QED
    BY <2>1, <2>2, Zenon
<1>7. \A u \in Nat : Arrived(u, next) <=> Arrived(u, next')
  BY <1>1, ReadArrives, Zenon
<1>8. ASSUME NEW u \in Nat \ {0}
      PROVE  PlaceOK(u, r, out, dropped, next')
  <2>1. Placed(u, HeldIn(queue, u), ExecsIn(out, u), dropped, next)
    BY <1>1, Zenon DEF PlacesOK, PlaceOK
  <2>2. r[i][s].valid_a = queue[i][s].valid_a /\ r[i][s].txn = queue[i][s].txn
          => HeldIn(r, u) = HeldIn(queue, u)
    BY <1>4, HeldChange
  <2>3. HeldIn(r, u) = HeldIn(queue, u)
    BY <2>2, <1>4, Zenon
  <2>4. Placed(u, HeldIn(queue, u), ExecsIn(out, u), dropped, next')
    BY <2>1, <1>7, PlaceSame, Zenon
  <2> QED
    BY <2>3, <2>4, Zenon DEF PlaceOK
<1>9. RingOK(r, head, tail) /\ PlacesOK(r, out, dropped, next')
  BY <1>6, <1>8, Zenon DEF RingOK, PlacesOK
<1> QED
  BY <1>3, <1>5, <1>9, Zenon

\* What an arrival order says of a transaction in it.
LEMMA TxnOf ==
  ASSUME txns \in Orders, NEW t \in DOMAIN txns
  PROVE  /\ txns[t].ini \in Ini /\ txns[t].rot \in BOOLEAN /\ txns[t].exec \in Exec
         /\ txns[t].seq \in Nat /\ txns[t].len \in 1 .. 3 /\ t \in Nat
<1>1. txns \in Seq(Txn)
  BY OrdersAssumption, Zenon
<1>2. txns[t] \in Txn /\ t \in Nat
  BY <1>1
<1> QED
  BY <1>2 DEF Txn

\* The variables that the rings and places do not mention.
Rest == txns' = txns /\ cur_idx' \in Ini \cup {None}

\* A call that leaves the rings and places right keeps the invariant.
LEMMA SettledOK ==
  ASSUME TypeOK, Settled, FlitOK(next'), Rest
  PROVE  Inv'
<1>1. TypeOK'
  BY Zenon DEF TypeOK, Settled, RingsTyped, Rest
<1>2. RingOK(queue', head', tail') /\ PlacesOK(queue', out', dropped', next')
  BY Zenon DEF Settled
<1>3. RingOK(queue, head, tail)' /\ PlacesOK(queue, out, dropped, next)'
  BY <1>2, Zenon DEF RingOK, RingAt, PlacesOK, PlaceOK, Placed, HeldIn, ExecsIn, Arrived
<1> QED
  BY <1>1, <1>3, Zenon DEF Inv

\* Reading port 1 keeps the next flit well formed.
LEMMA ReadOK ==
  ASSUME Inv, ReadFlit
  PROVE  TypeOK /\ FlitOK(next')
<1>1. TypeOK /\ FlitOK(next)
  BY Zenon DEF Inv, TypeOK
<1> QED
  BY <1>1, ReadArrives, Zenon

\* A flit that passes through keeps the invariant.
LEMMA EmitKeeps ==
  ASSUME Emitting, Rest
  PROVE  Inv'
<1>1. Settled /\ FlitOK(next') /\ TypeOK
  BY EmitOK, Zenon DEF Emitting, Inv
<1> QED
  BY <1>1, SettledOK, Zenon

\* A drain from right rings and places keeps the invariant.
LEMMA DrainKeeps ==
  ASSUME NEW i, NEW qs, NEW tl, Draining(i, qs, tl), Rest
  PROVE  Inv'
<1>1. Settled
  BY DrainOK, Zenon
<1>2. TypeOK /\ FlitOK(next')
  BY Zenon DEF Draining
<1> QED
  BY <1>1, <1>2, SettledOK, Zenon

\* A metadata flit that waits, or is dropped, and the drain after it.
LEMMA BufferDrains ==
  ASSUME Inv, MetaBuffer
  PROVE  LET i == txns[next.txn].ini IN
         /\ i \in Ini /\ Rest
         /\ \E qs, tl : /\ Draining(i, qs, tl)
                        /\ qs = queue \/ (HasRoom(i) /\ qs = Fill(queue, i, tail[i], next.txn))
<1>1. PICK i : i = txns[next.txn].ini
  BY Zenon
<1>2. /\ HasInput /\ next.k = 1 /\ ReadFlit /\ txns' = txns /\ cur_idx' = i
      /\ IF HasRoom(i)
         THEN /\ Drain(i, Fill(queue, i, tail[i], next.txn), [tail EXCEPT ![i] = (@ + 1) % QSize])
              /\ dropped' = dropped
         ELSE /\ Drain(i, queue, tail)
              /\ dropped' = dropped \cup {next.txn}
  BY <1>1, Zenon DEF MetaBuffer, Fill
<1>3. TypeOK /\ FlitOK(next')
  BY <1>2, ReadOK, Zenon
<1>4. i \in Ini /\ next.txn \in Nat
  <2>1. txns \in Orders /\ next.txn \in DOMAIN txns
    BY <1>2, <1>3, Zenon DEF TypeOK, HasInput
  <2> QED
    BY <2>1, <1>1, TxnOf, Zenon
<1>5. Rest
  BY <1>2, <1>4, Zenon DEF Rest
<1>6. CASE HasRoom(i)
  <2>1. PICK qs, tl : /\ qs = Fill(queue, i, tail[i], next.txn)
                      /\ tl = [tail EXCEPT ![i] = (@ + 1) % QSize]
    BY Zenon
  <2>2. qs \in Queues /\ tl \in [Ini -> Slots] /\ RingOK(qs, head, tl)
    BY <2>1, <1>4, <1>6, FillRing, Zenon
  <2>3. PlacesOK(qs, out, dropped, next')
    BY <2>1, <1>2, <1>4, <1>6, FillPlaces, Zenon
  <2>4. Drain(i, qs, tl) /\ dropped' = dropped
    BY <2>1, <1>2, <1>6, Zenon
  <2>5. Draining(i, qs, tl)
    BY <2>2, <2>3, <2>4, <1>3, <1>4, Zenon DEF Draining
  <2> QED
    BY <2>1, <2>5, <1>1, <1>4, <1>5, <1>6, ZenonT(60)
<1>7. CASE ~HasRoom(i)
  <2>1. PlacesOK(queue, out, dropped', next')
    BY <1>2, <1>7, DropPlaces, Zenon
  <2>2. queue \in Queues /\ tail \in [Ini -> Slots] /\ RingOK(queue, head, tail)
    BY Zenon DEF Inv, TypeOK
  <2>3. Draining(i, queue, tail)
    BY <2>1, <2>2, <1>2, <1>3, <1>4, <1>7, Zenon DEF Draining
  <2> QED
    BY <2>3, <1>1, <1>4, <1>5, Zenon
<1> QED
  BY <1>6, <1>7, Zenon

\* It keeps the invariant.
LEMMA MetaBufferOK ==
  ASSUME Inv, MetaBuffer
  PROVE  Inv'
<1>1. PICK i, qs, tl : Draining(i, qs, tl) /\ Rest
  BY BufferDrains, Zenon
<1> QED
  BY <1>1, DrainKeeps, Zenon

\* A set of slots that is not empty has a first one.
LEMMA FirstSlot ==
  ASSUME NEW T, T \subseteq Slots, T # {}
  PROVE  \E x \in T : \A y \in T : x <= y
<1>1. PICK R : R = {ss \in Nat \X Nat : ss[1] < ss[2]}
  BY Zenon
<1>2. IsWellFoundedOn(R, Nat)
  BY <1>1, NatLessThanWellFounded, Zenon DEF OpToRel
<1>3. T \subseteq Nat
  BY DEF Slots
<1>4. PICK x \in T : \A y \in T : ~(<<y, x>> \in R)
  BY <1>2, <1>3, WFMin, Zenon
<1>5. ASSUME NEW y \in T
      PROVE  x <= y
  <2>1. x \in Nat /\ y \in Nat /\ ~(<<y, x>> \in R)
    BY <1>3, <1>4, Zenon
  <2>2. y < x => <<y, x>> \in R
    BY <2>1, <1>1
  <2> QED
    BY <2>1, <2>2
<1> QED
  BY <1>5, Zenon

\* The slot that a second flit goes to.
LEMMA FirstUnattached ==
  ASSUME NEW i, Unattached(i) # {}, NEW s,
         s = CHOOSE x \in Unattached(i) : \A y \in Unattached(i) : x <= y
  PROVE  s \in Unattached(i) /\ s \in Slots
<1>1. Unattached(i) \subseteq Slots
  BY Zenon DEF Unattached
<1>2. \E x \in Unattached(i) : \A y \in Unattached(i) : x <= y
  BY <1>1, FirstSlot, Zenon
<1> QED
  BY <1>1, <1>2, Zenon

\* A second flit that is attached, and the drain after it.
LEMMA AttachDrains ==
  ASSUME Inv, BodyAttach
  PROVE  /\ cur_idx \in Ini /\ Rest
         /\ \E s \in Slots : Draining(cur_idx, Attach(queue, cur_idx, s, next.txn), tail)
<1>1. PICK s : s = CHOOSE x \in Unattached(cur_idx) : \A y \in Unattached(cur_idx) : x <= y
  BY Zenon
<1>2. /\ next.k > 1 /\ cur_idx # None /\ Unattached(cur_idx) # {} /\ ReadFlit
      /\ Drain(cur_idx, Attach(queue, cur_idx, s, next.txn), tail)
      /\ txns' = txns /\ cur_idx' = cur_idx /\ dropped' = dropped
  BY <1>1, Zenon DEF BodyAttach, Attach
<1>3. s \in Slots
  BY <1>1, <1>2, FirstUnattached, Zenon
<1>4. TypeOK /\ FlitOK(next')
  BY <1>2, ReadOK, Zenon
<1>5. cur_idx \in Ini /\ tail \in [Ini -> Slots] /\ Rest
  BY <1>2, <1>4, Zenon DEF TypeOK, Rest
<1>6. PICK qs : qs = Attach(queue, cur_idx, s, next.txn)
  BY Zenon
<1>7. qs \in Queues /\ RingOK(qs, head, tail) /\ PlacesOK(qs, out, dropped, next')
  BY <1>2, <1>3, <1>5, <1>6, AttachPlaces, Zenon
<1>8. Draining(cur_idx, qs, tail)
  BY <1>2, <1>4, <1>5, <1>6, <1>7, ZenonT(60) DEF Draining
<1> QED
  BY <1>3, <1>5, <1>6, <1>8, Zenon

\* It keeps the invariant.
LEMMA BodyAttachOK ==
  ASSUME Inv, BodyAttach
  PROVE  Inv'
<1>1. PICK i, qs, tl : Draining(i, qs, tl) /\ Rest
  BY AttachDrains, Zenon
<1> QED
  BY <1>1, DrainKeeps, Zenon

\* A call without input keeps the invariant.
LEMMA IdleOK ==
  ASSUME Inv, Idle
  PROVE  Inv'
<1>1. /\ TypeOK /\ RingOK(queue, head, tail) /\ PlacesOK(queue, out, dropped, next)
      /\ FlitOK(next) /\ cur_idx \in Ini \cup {None}
      /\ queue \in Queues /\ tail \in [Ini -> Slots]
  BY Zenon DEF Inv, TypeOK
<1>2. /\ Drain(cur_idx, queue, tail) /\ txns' = txns /\ next' = next
      /\ cur_idx' = cur_idx /\ dropped' = dropped
  BY Zenon DEF Idle
<1>3. PlacesOK(queue, out, dropped', next') /\ FlitOK(next')
  BY <1>1, <1>2, Zenon
<1>4. Draining(cur_idx, queue, tail) /\ Rest
  BY <1>1, <1>2, <1>3, Zenon DEF Draining, Rest
<1> QED
  BY <1>4, DrainKeeps, Zenon

\* Every call keeps the invariant.
LEMMA NextOK ==
  ASSUME Inv, [Next]_vars
  PROVE  Inv'
<1>1. CASE Idle
  BY <1>1, IdleOK, Zenon
<1>2. CASE MetaOther \/ BodyPass
  <2>1. TypeOK
    BY Zenon DEF Inv
  <2>2. Emitting /\ Rest
    BY <1>2, <2>1, ZenonT(60) DEF MetaOther, BodyPass, Output, Emitting, Rest, TypeOK
  <2> QED
    BY <2>2, EmitKeeps, Zenon
<1>3. CASE MetaExecute
  <2>1. TypeOK
    BY Zenon DEF Inv
  <2>2. /\ HasInput /\ cur_idx' = txns[next.txn].ini /\ txns' = txns
        /\ ReadFlit /\ out' = Append(out, next)
        /\ queue' = queue /\ head' = head /\ tail' = tail /\ dropped' = dropped
    BY <1>3, Zenon DEF MetaExecute, Output
  <2>3. txns \in Orders /\ next.txn \in DOMAIN txns
    BY <2>1, <2>2, Zenon DEF TypeOK, HasInput
  <2>4. txns[next.txn].ini \in Ini
    BY <2>3, TxnOf, Zenon
  <2>5. Emitting /\ Rest
    BY <2>2, <2>4, ZenonT(60) DEF Emitting, Rest
  <2> QED
    BY <2>5, EmitKeeps, Zenon
<1>4. CASE MetaBuffer
  BY <1>4, MetaBufferOK, Zenon
<1>5. CASE BodyAttach
  BY <1>5, BodyAttachOK, Zenon
<1>6. CASE UNCHANGED vars
  <2>1. /\ txns' = txns /\ next' = next /\ queue' = queue /\ head' = head /\ tail' = tail
        /\ cur_idx' = cur_idx /\ out' = out /\ dropped' = dropped
    BY <1>6, Zenon DEF vars
  <2>2. TypeOK /\ RingOK(queue, head, tail) /\ PlacesOK(queue, out, dropped, next)
    BY Zenon DEF Inv
  <2>3. TypeOK'
    BY <2>1, <2>2, Zenon DEF TypeOK, FlitOK
  <2>4. RingOK(queue, head, tail)'
    BY <2>1, <2>2, Zenon DEF RingOK, RingAt
  <2>5. PlacesOK(queue, out, dropped, next)'
    BY <2>1, <2>2, ZenonT(60) DEF PlacesOK, PlaceOK, Placed, HeldIn, ExecsIn, Arrived
  <2> QED
    BY <2>3, <2>4, <2>5, Zenon DEF Inv
<1> QED
  BY <1>1, <1>2, <1>3, <1>4, <1>5, <1>6, ZenonT(60) DEF Next, Reads

\* Initially no transaction has arrived and no slot is in use.
LEMMA InitOK ==
  ASSUME Init
  PROVE  Inv
<1>1. /\ txns \in Orders /\ next = [txn |-> 1, k |-> 1]
      /\ queue = [i \in Ini |-> [s \in Slots |-> EmptySlot]]
      /\ head = [i \in Ini |-> 0] /\ tail = [i \in Ini |-> 0]
      /\ cur_idx = 0 /\ out = << >> /\ dropped = {}
  BY Zenon DEF Init
<1>2. 0 \in Slots /\ 0 \in Ini
  BY ConstantsAssumption DEF Slots, Ini
<1>3. EmptySlot \in Slot /\ ~EmptySlot.valid_a
  BY Zenon DEF EmptySlot, Slot
<1>4. FlitOK(next) /\ out \in Seq(Flit)
  BY <1>1 DEF FlitOK, Flit
<1>5. queue \in Queues /\ \A i \in Ini, s \in Slots : queue[i][s] = EmptySlot
  BY <1>1, <1>3, Zenon DEF Queues
<1>6. head \in [Ini -> Slots] /\ tail \in [Ini -> Slots] /\ \A i \in Ini : head[i] = tail[i]
  BY <1>1, <1>2, Zenon
<1>7. TypeOK
  BY <1>1, <1>2, <1>4, <1>5, <1>6, Zenon DEF TypeOK
<1>8. RingOK(queue, head, tail)
  <2>1. SUFFICES ASSUME NEW i \in Ini, NEW s \in Slots
                 PROVE  ~RingAt(head[i], tail[i], s)
    BY <1>3, <1>5, Zenon DEF RingOK
  <2>2. PICK h \in Slots : h = head[i] /\ h = tail[i]
    BY <1>6, Zenon
  <2>3. /\ (s - h) % QSize = IF h <= s THEN s - h ELSE s - h + QSize
        /\ (h - h) % QSize = IF h <= h THEN h - h ELSE h - h + QSize
    BY Behind, Zenon
  <2>4. QSize \in Nat \ {0} /\ s \in 0 .. QSize - 1 /\ h \in 0 .. QSize - 1
    BY ConstantsAssumption DEF Slots
  <2>5. ~RingAt(h, h, s)
    BY <2>3, <2>4 DEF RingAt
  <2> QED
    BY <2>2, <2>5, Zenon
<1>9. ASSUME NEW t \in Nat \ {0}
      PROVE  PlaceOK(t, queue, out, dropped, next)
  <2>1. HeldIn(queue, t) = {}
    <3>1. SUFFICES ASSUME NEW x \in Ini \X Slots
                   PROVE  ~queue[x[1]][x[2]].valid_a
      BY Zenon DEF HeldIn
    <3>2. x[1] \in Ini /\ x[2] \in Slots
      OBVIOUS
    <3> QED
      BY <3>2, <1>3, <1>5, Zenon
  <2>2. ExecsIn(out, t) = {}
    BY <1>1 DEF ExecsIn
  <2>3. ~Arrived(t, next) /\ t \notin dropped
    BY <1>1 DEF Arrived
  <2>4. AtMostOne({})
    BY Zenon DEF AtMostOne
  <2>5. Placed(t, {}, {}, dropped, next)
    BY <2>3, <2>4, Zenon DEF Placed
  <2> QED
    BY <2>1, <2>2, <2>5, Zenon DEF PlaceOK
<1> QED
  BY <1>7, <1>8, <1>9, Zenon DEF Inv, PlacesOK

\* The number of places of a transaction that has arrived.
LEMMA OnePlace ==
  ASSUME NEW t, NEW H, NEW E, NEW dr, NEW nx, Placed(t, H, E, dr, nx), Arrived(t, nx)
  PROVE  Cardinality(H) + Cardinality(E) + (IF t \in dr THEN 1 ELSE 0) = 1
<1>1. /\ AtMostOne(H) /\ AtMostOne(E) /\ (H = {} \/ E = {})
      /\ t \in dr => H = {} /\ E = {}
      /\ H # {} \/ E # {} \/ t \in dr
  BY Zenon DEF Placed
<1>2. Cardinality({}) = 0
  BY FS_EmptySet, Zenon
<1>3. ASSUME NEW S, AtMostOne(S), S # {}
      PROVE  Cardinality(S) = 1
  <2>1. PICK x : x \in S
    BY <1>3, Zenon
  <2>2. \A y : y \in S <=> y = x
    BY <2>1, <1>3, Zenon DEF AtMostOne
  <2>3. S = {x}
    BY <2>2, Zenon
  <2> QED
    BY <2>3, FS_Singleton, Zenon
<1>4. CASE t \in dr
  BY <1>1, <1>2, <1>4
<1>5. CASE t \notin dr /\ H # {}
  <2>1. Cardinality(H) = 1 /\ E = {}
    BY <1>1, <1>3, <1>5, Zenon
  <2> QED
    BY <2>1, <1>2, <1>5
<1>6. CASE t \notin dr /\ H = {}
  <2>1. Cardinality(E) = 1
    BY <1>1, <1>3, <1>6, Zenon
  <2> QED
    BY <2>1, <1>2, <1>6
<1> QED
  BY <1>4, <1>5, <1>6, Zenon

\* The invariant says that transactions are conserved.
LEMMA InvConserved ==
  ASSUME Inv
  PROVE  Conserved
<1>1. TypeOK /\ RingOK(queue, head, tail) /\ PlacesOK(queue, out, dropped, next)
  BY Zenon DEF Inv
<1>2. \A i \in Ini, s \in Slots : queue[i][s].valid_a <=> InRing(i, s)
  BY <1>1, Zenon DEF RingOK, RingAt, InRing
<1>3. ASSUME NEW t \in 1 .. next.txn - 1
      PROVE  Cardinality({x \in Ini \X Slots : InRing(x[1], x[2]) /\ queue[x[1]][x[2]].txn = t})
               + Cardinality({j \in DOMAIN out : out[j] = [txn |-> t, k |-> 1]})
               + (IF t \in dropped THEN 1 ELSE 0) = 1
  <2>1. next \in Flit
    BY <1>1, Zenon DEF TypeOK, FlitOK
  <2>2. t \in Nat \ {0} /\ t < next.txn
    BY <2>1 DEF Flit
  <2>3. Arrived(t, next)
    BY <2>2, Zenon DEF Arrived
  <2>4. Placed(t, HeldIn(queue, t), ExecsIn(out, t), dropped, next)
    BY <1>1, <2>2, Zenon DEF PlacesOK, PlaceOK
  <2>5. \A x \in Ini \X Slots : x[1] \in Ini /\ x[2] \in Slots
    OBVIOUS
  <2>6. {x \in Ini \X Slots : InRing(x[1], x[2]) /\ queue[x[1]][x[2]].txn = t} = HeldIn(queue, t)
    BY <1>2, <2>5, Zenon DEF HeldIn
  <2>7. {j \in DOMAIN out : out[j] = [txn |-> t, k |-> 1]} = ExecsIn(out, t)
    BY Zenon DEF ExecsIn
  <2>8. Cardinality(HeldIn(queue, t)) + Cardinality(ExecsIn(out, t))
          + (IF t \in dropped THEN 1 ELSE 0) = 1
    BY <2>3, <2>4, OnePlace, Zenon
  <2> QED
    BY <2>6, <2>7, <2>8, Zenon
<1> QED
  BY <1>2, <1>3, Zenon DEF Conserved

\* The invariant holds throughout.
LEMMA Invariance == Spec => []Inv
<1>1. Init => Inv
  BY InitOK, Zenon
<1>2. Inv /\ [Next]_vars => Inv'
  BY NextOK, Zenon
<1> QED
  BY <1>1, <1>2, PTL DEF Spec

\* Whatever arrives, a transaction whose metadata flit was read by the handler
\* of port 1 is executed once, or waits in one slot, or was refused by a full
\* ring; and the slots with valid_a are the ones between head and tail.
THEOREM Conservation == Spec => []Conserved
<1>1. Inv => Conserved
  BY InvConserved, Zenon
<1> QED
  BY <1>1, Invariance, PTL

-----------------------------------------------------------------------------
(* Second flits.  A slot without one belongs to the transaction whose      *)
(* second flit is next, or to an initiator whose transactions have none.   *)

\* An initiator that sends an SO of one flit sends no longer ones.
Uniform(o) ==
  \A t, u \in DOMAIN o :
    /\ o[t].rot /\ o[u].rot /\ o[t].ini = o[u].ini
    /\ o[t].exec = "SO" /\ o[t].len = 1
    => o[u].len = 1

Short(o, i) == \A u \in DOMAIN o : o[u].rot /\ o[u].ini = i => o[u].len = 1

SecondOK(qs) ==
  \A i \in Ini, s \in Slots :
    qs[i][s].valid_b => qs[i][s].valid_a /\ qs[i][s].attached = qs[i][s].txn

WaitOK(o, qs, nx, ci) ==
  \A i \in Ini, s \in Slots :
    qs[i][s].valid_a /\ ~qs[i][s].valid_b =>
      \/ nx.k = 2 /\ ci = i /\ qs[i][s].txn = nx.txn
      \/ Short(o, i)

\* In the middle of a transaction cur_idx is its initiator.
CurOK(o, nx, ci) ==
  nx.k > 1 =>
    /\ nx.txn \in DOMAIN o /\ nx.k <= o[nx.txn].len
    /\ ci # None => o[nx.txn].rot /\ o[nx.txn].ini = ci

AInv ==
  SecondOK(queue) /\ WaitOK(txns, queue, next, cur_idx) /\ CurOK(txns, next, cur_idx)

\* A drain adds no slot without a second flit.
LEMMA DrainSecond ==
  ASSUME NEW i \in Ini \cup {None}, NEW qs \in Queues, NEW tl, head \in [Ini -> Slots],
         Drain(i, qs, tl), SecondOK(qs), NEW o, NEW nx, NEW ci, WaitOK(o, qs, nx, ci)
  PROVE  SecondOK(queue') /\ WaitOK(o, queue', nx, ci)
<1>1. CASE Released(i, qs, tl)
  <2>1. /\ ~queue'[i][head[i]].valid_a /\ ~queue'[i][head[i]].valid_b
        /\ \A j \in Ini, s \in Slots : j # i \/ s # head[i] => queue'[j][s] = qs[j][s]
    BY <1>1, Zenon DEF Released, Elsewhere
  <2>2. ASSUME NEW j \in Ini, NEW s \in Slots, queue'[j][s].valid_b
        PROVE  queue'[j][s].valid_a /\ queue'[j][s].attached = queue'[j][s].txn
    <3>1. queue'[j][s] = qs[j][s]
      BY <2>1, <2>2, ZenonT(60)
    <3>2. qs[j][s].valid_b => qs[j][s].valid_a /\ qs[j][s].attached = qs[j][s].txn
      BY Zenon DEF SecondOK
    <3>3. qs[j][s].valid_b
      BY <2>2, <3>1, Zenon
    <3>4. qs[j][s].valid_a /\ qs[j][s].attached = qs[j][s].txn
      BY <3>2, <3>3, ZenonT(60)
    <3> QED
      BY <3>1, <3>4, Zenon
  <2>3. ASSUME NEW j \in Ini, NEW s \in Slots, queue'[j][s].valid_a, ~queue'[j][s].valid_b
        PROVE  (nx.k = 2 /\ ci = j /\ queue'[j][s].txn = nx.txn) \/ Short(o, j)
    <3>1. queue'[j][s] = qs[j][s]
      BY <2>1, <2>3, Zenon
    <3>2. qs[j][s].valid_a /\ ~qs[j][s].valid_b =>
            (nx.k = 2 /\ ci = j /\ qs[j][s].txn = nx.txn) \/ Short(o, j)
      BY Zenon DEF WaitOK
    <3>3. qs[j][s].valid_a /\ ~qs[j][s].valid_b
      BY <2>3, <3>1, Zenon
    <3>4. (nx.k = 2 /\ ci = j /\ qs[j][s].txn = nx.txn) \/ Short(o, j)
      BY <3>2, <3>3, Zenon
    <3>5. queue'[j][s].txn = qs[j][s].txn
      BY <3>1, Zenon
    <3> QED
      BY <3>4, <3>5, ZenonT(60)
  <2> QED
    BY <2>2, <2>3, Zenon DEF SecondOK, WaitOK
<1>2. CASE Kept(qs, tl)
  BY <1>2, Zenon DEF Kept
<1> QED
  BY <1>1, <1>2, DrainCases, ZenonT(60)

\* Reading a flit within a transaction.
LEMMA ReadWithin ==
  ASSUME Inv, HasInput, ReadFlit, next.k <= txns[next.txn].len
  PROVE  /\ next.k < txns[next.txn].len => next'.k = next.k + 1 /\ next'.txn = next.txn
         /\ next'.k > 1 => next'.txn = next.txn /\ next'.k <= txns[next.txn].len
<1>1. next \in [txn : Nat, k : Nat] /\ txns \in Orders /\ next.txn \in DOMAIN txns
  BY Zenon DEF Inv, TypeOK, FlitOK, Flit, HasInput
<1>2. txns[next.txn].len \in 1 .. 3
  BY <1>1, TxnOf, Zenon
<1>3. PICK l : l = txns[next.txn].len
  BY Zenon
<1>4. next' = IF next.k = l THEN [txn |-> next.txn + 1, k |-> 1] ELSE [next EXCEPT !.k = @ + 1]
  BY <1>3, Zenon DEF ReadFlit, Eop
<1>5. next.k <= l /\ l \in 1 .. 3
  BY <1>2, <1>3, Zenon
<1>6. /\ next.k < l => next'.k = next.k + 1 /\ next'.txn = next.txn
      /\ next'.k > 1 => next'.txn = next.txn /\ next'.k <= l
  BY <1>1, <1>4, <1>5
<1> QED
  BY <1>3, <1>6, Zenon

\* A metadata flit: cur_idx becomes its initiator, or none.
LEMMA ReadMeta ==
  ASSUME Inv, HasInput, ReadFlit, next.k = 1, txns' = txns,
         cur_idx' # None => txns[next.txn].rot /\ txns[next.txn].ini = cur_idx'
  PROVE  /\ CurOK(txns', next', cur_idx')
         /\ txns[next.txn].len # 1 => next'.k = 2 /\ next'.txn = next.txn
<1>1. txns \in Orders /\ next.txn \in DOMAIN txns
  BY Zenon DEF Inv, TypeOK, HasInput
<1>2. txns[next.txn].len \in 1 .. 3
  BY <1>1, TxnOf, Zenon
<1>3. PICK l : l = txns[next.txn].len
  BY Zenon
<1>4. l \in 1 .. 3 /\ next.k <= l
  BY <1>2, <1>3
<1>5. /\ next.k < l => next'.k = next.k + 1 /\ next'.txn = next.txn
      /\ next'.k > 1 => next'.txn = next.txn /\ next'.k <= l
  BY <1>3, <1>4, ReadWithin, Zenon
<1>6. l # 1 => next'.k = 2 /\ next'.txn = next.txn
  BY <1>4, <1>5
<1>7. CurOK(txns', next', cur_idx')
  BY <1>1, <1>3, <1>5, Zenon DEF CurOK
<1> QED
  BY <1>3, <1>6, <1>7, Zenon

\* Before a metadata flit only slots that need no second flit lack one.
LEMMA WaitMeta ==
  ASSUME NEW o, NEW qs, NEW nx, NEW ci, WaitOK(o, qs, nx, ci), nx.k = 1,
         NEW i \in Ini, NEW s \in Slots, qs[i][s].valid_a, ~qs[i][s].valid_b
  PROVE  Short(o, i)
<1>1. nx.k # 2
  OBVIOUS
<1> QED
  BY <1>1, Zenon DEF WaitOK

\* So any flit may come after it.
LEMMA WaitAny ==
  ASSUME NEW o, NEW qs, NEW nx, NEW ci, WaitOK(o, qs, nx, ci), nx.k = 1, NEW ny, NEW di
  PROVE  WaitOK(o, qs, ny, di)
<1>1. ASSUME NEW i \in Ini, NEW s \in Slots, qs[i][s].valid_a, ~qs[i][s].valid_b
      PROVE  Short(o, i)
  BY <1>1, WaitMeta, Zenon
<1> QED
  BY <1>1, Zenon DEF WaitOK

\* A metadata flit that is emitted.
LEMMA EmitSecond ==
  ASSUME Inv, AInv, MetaOther \/ MetaExecute
  PROVE  AInv'
<1>1. /\ HasInput /\ next.k = 1 /\ ReadFlit /\ txns' = txns /\ queue' = queue
      /\ cur_idx' # None => txns[next.txn].rot /\ txns[next.txn].ini = cur_idx'
  BY Zenon DEF MetaOther, MetaExecute
<1>2. CurOK(txns', next', cur_idx')
  BY <1>1, ReadMeta, Zenon
<1>3. SecondOK(queue') /\ WaitOK(txns', queue', next', cur_idx')
  <2>1. SecondOK(queue) /\ WaitOK(txns, queue, next, cur_idx)
    BY Zenon DEF AInv
  <2>2. WaitOK(txns, queue, next', cur_idx')
    BY <2>1, <1>1, WaitAny, Zenon
  <2> QED
    BY <2>1, <2>2, <1>1, Zenon
<1> QED
  BY <1>2, <1>3, Zenon DEF AInv, SecondOK, WaitOK, Short, CurOK

\* One that waits lacks its second flit, if it has one.
LEMMA FillSecond ==
  ASSUME Inv, SecondOK(queue), WaitOK(txns, queue, next, cur_idx),
         next.k = 1, NEW i \in Ini, HasRoom(i), NEW nx,
         Short(txns, i) \/ (nx.k = 2 /\ nx.txn = next.txn)
  PROVE  /\ SecondOK(Fill(queue, i, tail[i], next.txn))
         /\ WaitOK(txns, Fill(queue, i, tail[i], next.txn), nx, i)
<1>1. queue \in Queues /\ FlitOK(next)
  BY Zenon DEF Inv, TypeOK
<1>2. next.txn \in Nat
  BY <1>1 DEF FlitOK, Flit
<1>3. tail[i] \in Slots /\ ~queue[i][tail[i]].valid_a
  BY <1>2, FillRing, Zenon
<1>4. PICK r : r = Fill(queue, i, tail[i], next.txn)
  BY Zenon
<1>5. IsFill(queue, r, i, tail[i], next.txn)
  BY <1>1, <1>2, <1>3, <1>4, Filled
<1>6. ~queue[i][tail[i]].valid_b
  BY <1>3, Zenon DEF SecondOK
<1>7. /\ r[i][tail[i]].txn = next.txn /\ ~r[i][tail[i]].valid_b
      /\ \A j \in Ini, s \in Slots : j # i \/ s # tail[i] => r[j][s] = queue[j][s]
  BY <1>5, <1>6, Zenon DEF IsFill, Elsewhere
<1>8. ASSUME NEW j \in Ini, NEW s \in Slots, r[j][s].valid_b
      PROVE  r[j][s].valid_a /\ r[j][s].attached = r[j][s].txn
  <2>1. r[j][s] = queue[j][s]
    BY <1>7, <1>8, Zenon
  <2>2. queue[j][s].valid_b
    BY <1>8, <2>1, Zenon
  <2>3. queue[j][s].valid_a /\ queue[j][s].attached = queue[j][s].txn
    BY <2>2, Zenon DEF SecondOK
  <2> QED
    BY <2>1, <2>3, Zenon
<1>9. ASSUME NEW j \in Ini, NEW s \in Slots, r[j][s].valid_a, ~r[j][s].valid_b
      PROVE  (nx.k = 2 /\ i = j /\ r[j][s].txn = nx.txn) \/ Short(txns, j)
  <2>1. CASE j = i /\ s = tail[i]
    BY <2>1, <1>7, Zenon
  <2>2. CASE j # i \/ s # tail[i]
    <3>1. r[j][s] = queue[j][s]
      BY <1>7, <2>2, Zenon
    <3>2. queue[j][s].valid_a /\ ~queue[j][s].valid_b
      BY <1>9, <3>1, Zenon
    <3> QED
      BY <3>2, WaitMeta, Zenon
  <2> QED
    BY <2>1, <2>2, Zenon
<1>10. SecondOK(r) /\ WaitOK(txns, r, nx, i)
  BY <1>8, <1>9, Zenon DEF SecondOK, WaitOK
<1> QED
  BY <1>4, <1>10, Zenon

\* A metadata flit that is not executed.
LEMMA BufferSecond ==
  ASSUME Inv, AInv, Uniform(txns), MetaBuffer
  PROVE  AInv'
<1>1. PICK i : i = txns[next.txn].ini
  BY Zenon
<1>2. /\ HasInput /\ next.k = 1 /\ ReadFlit /\ txns' = txns /\ cur_idx' = i
      /\ txns[next.txn].rot /\ ~Executes(next.txn)
      /\ \/ /\ HasRoom(i)
            /\ Drain(i, Fill(queue, i, tail[i], next.txn), [tail EXCEPT ![i] = (@ + 1) % QSize])
         \/ Drain(i, queue, tail)
  BY <1>1, Zenon DEF MetaBuffer, Fill
<1>3. /\ SecondOK(queue) /\ WaitOK(txns, queue, next, cur_idx) /\ FlitOK(next)
      /\ queue \in Queues /\ head \in [Ini -> Slots]
  BY Zenon DEF AInv, Inv, TypeOK
<1>4. /\ CurOK(txns', next', cur_idx')
      /\ txns[next.txn].len # 1 => next'.k = 2 /\ next'.txn = next.txn
  BY <1>1, <1>2, ReadMeta, Zenon
<1>5. txns \in Orders /\ next.txn \in DOMAIN txns
  BY <1>2, Zenon DEF Inv, TypeOK, HasInput
<1>6. i \in Ini /\ txns[next.txn].exec \in Exec /\ next.txn \in Nat
  BY <1>1, <1>5, TxnOf, Zenon
<1>7. txns[next.txn].exec = "SO"
  BY <1>2, <1>6, Zenon DEF Executes, Exec
<1>8. Short(txns, i) \/ (next'.k = 2 /\ next'.txn = next.txn)
  <2>1. CASE txns[next.txn].len = 1
    BY <2>1, <1>1, <1>2, <1>5, <1>7, Zenon DEF Uniform, Short
  <2> QED
    BY <2>1, <1>4, Zenon
<1>9. SecondOK(queue') /\ WaitOK(txns, queue', next', i)
  <2>1. CASE /\ HasRoom(i)
             /\ Drain(i, Fill(queue, i, tail[i], next.txn), [tail EXCEPT ![i] = (@ + 1) % QSize])
    <3>1. PICK qs, tl : /\ qs = Fill(queue, i, tail[i], next.txn)
                        /\ tl = [tail EXCEPT ![i] = (@ + 1) % QSize]
      BY Zenon
    <3>2. qs \in Queues
      BY <3>1, <2>1, <1>6, FillRing, Zenon
    <3>3. SecondOK(qs) /\ WaitOK(txns, qs, next', i)
      BY <3>1, <2>1, <1>2, <1>3, <1>6, <1>8, FillSecond, ZenonT(60)
    <3>4. Drain(i, qs, tl)
      BY <3>1, <2>1, Zenon
    <3> QED
      BY <3>2, <3>3, <3>4, <1>3, <1>6, DrainSecond, ZenonT(60)
  <2>2. CASE Drain(i, queue, tail)
    <3>1. WaitOK(txns, queue, next', i)
      BY <1>2, <1>3, WaitAny, Zenon
    <3> QED
      BY <3>1, <2>2, <1>3, <1>6, DrainSecond, Zenon
  <2> QED
    BY <2>1, <2>2, <1>2, Zenon
<1>10. WaitOK(txns', queue', next', cur_idx')
  BY <1>2, <1>9, Zenon
<1> QED
  BY <1>4, <1>9, <1>10, Zenon DEF AInv, SecondOK, WaitOK, Short, CurOK

\* A later flit comes from the initiator cur_idx, which has longer
\* transactions then.
LEMMA BodyCur ==
  ASSUME Inv, AInv, HasInput, ReadFlit, next.k > 1, txns' = txns, cur_idx' = cur_idx
  PROVE  /\ CurOK(txns', next', cur_idx')
         /\ cur_idx # None => ~Short(txns, cur_idx)
<1>1. /\ next.txn \in DOMAIN txns /\ next.k <= txns[next.txn].len
      /\ cur_idx # None => txns[next.txn].rot /\ txns[next.txn].ini = cur_idx
  BY Zenon DEF AInv, CurOK
<1>2. next'.k > 1 => next'.txn = next.txn /\ next'.k <= txns[next.txn].len
  BY <1>1, ReadWithin, Zenon
<1>3. CurOK(txns', next', cur_idx')
  BY <1>1, <1>2, Zenon DEF CurOK
<1>4. txns \in Orders /\ next \in [txn : Nat, k : Nat]
  BY Zenon DEF Inv, TypeOK, FlitOK, Flit
<1>5. txns[next.txn].len \in 1 .. 3
  BY <1>1, <1>4, TxnOf, Zenon
<1>6. txns[next.txn].len # 1
  BY <1>1, <1>4, <1>5
<1>7. cur_idx # None => ~Short(txns, cur_idx)
  BY <1>1, <1>6, Zenon DEF Short
<1> QED
  BY <1>3, <1>7, Zenon

\* A transaction waits in one slot.
LEMMA HeldOnce ==
  ASSUME Inv, NEW i \in Ini, NEW s \in Slots, NEW r \in Slots,
         queue[i][s].valid_a, queue[i][r].valid_a,
         queue[i][s].txn = next.txn, queue[i][r].txn = next.txn
  PROVE  s = r
<1>1. FlitOK(next) /\ PlacesOK(queue, out, dropped, next)
  BY Zenon DEF Inv, TypeOK
<1>2. next.txn \in Nat \ {0}
  BY <1>1 DEF FlitOK, Flit
<1>3. AtMostOne(HeldIn(queue, next.txn))
  BY <1>1, <1>2, Zenon DEF PlacesOK, PlaceOK, Placed
<1>4. \A x \in Slots : /\ <<i, x>> \in Ini \X Slots
                       /\ <<i, x>>[1] = i /\ <<i, x>>[2] = x
  OBVIOUS
<1>5. <<i, s>> \in HeldIn(queue, next.txn) /\ <<i, r>> \in HeldIn(queue, next.txn)
  BY <1>4, Zenon DEF HeldIn
<1>6. <<i, s>> = <<i, r>>
  BY <1>3, <1>5, Zenon DEF AtMostOne
<1> QED
  BY <1>6

\* The second flit goes to the slot of its own transaction.
LEMMA AttachSecond ==
  ASSUME Inv, AInv, BodyAttach
  PROVE  AInv'
<1>1. PICK i : i = cur_idx
  BY Zenon
<1>2. PICK s : s = CHOOSE x \in Unattached(i) : \A y \in Unattached(i) : x <= y
  BY Zenon
<1>3. /\ HasInput /\ next.k > 1 /\ i # None /\ Unattached(i) # {} /\ ReadFlit
      /\ Drain(i, Attach(queue, i, s, next.txn), tail)
      /\ txns' = txns /\ cur_idx' = cur_idx
  BY <1>1, <1>2, Zenon DEF BodyAttach, Attach
<1>4. s \in Slots /\ queue[i][s].valid_a /\ ~queue[i][s].valid_b
  <2>1. s \in Unattached(i) /\ s \in Slots
    BY <1>2, <1>3, FirstUnattached, Zenon
  <2> QED
    BY <2>1, Zenon DEF Unattached
<1>5. /\ TypeOK /\ SecondOK(queue) /\ WaitOK(txns, queue, next, i)
  BY <1>1, Zenon DEF AInv, Inv
<1>6. i \in Ini /\ queue \in Queues /\ head \in [Ini -> Slots] /\ FlitOK(next)
  BY <1>1, <1>3, <1>5, Zenon DEF TypeOK
<1>7. next.txn \in Nat
  BY <1>6 DEF FlitOK, Flit
<1>8. CurOK(txns', next', cur_idx') /\ ~Short(txns, i)
  BY <1>1, <1>3, BodyCur, Zenon
<1>9. queue[i][s].txn = next.txn
  BY <1>4, <1>5, <1>6, <1>8, Zenon DEF WaitOK
<1>10. PICK r : r = Attach(queue, i, s, next.txn)
  BY Zenon
<1>11. IsAttach(queue, r, i, s, next.txn)
  BY <1>4, <1>6, <1>7, <1>10, Attached
<1>12. /\ r[i][s].valid_b /\ r[i][s].attached = next.txn /\ r[i][s].txn = next.txn
       /\ r[i][s].valid_a
       /\ r \in Queues
       /\ \A j \in Ini, x \in Slots : j # i \/ x # s => r[j][x] = queue[j][x]
  BY <1>4, <1>9, <1>11, Zenon DEF IsAttach, Elsewhere
<1>13. ASSUME NEW j \in Ini, NEW x \in Slots, r[j][x].valid_b
       PROVE  r[j][x].valid_a /\ r[j][x].attached = r[j][x].txn
  <2>1. CASE j = i /\ x = s
    BY <2>1, <1>12, Zenon
  <2>2. CASE j # i \/ x # s
    <3>1. r[j][x] = queue[j][x]
      BY <2>2, <1>12, Zenon
    <3>2. queue[j][x].valid_b
      BY <3>1, <1>13, Zenon
    <3>3. queue[j][x].valid_a /\ queue[j][x].attached = queue[j][x].txn
      BY <3>2, <1>5, Zenon DEF SecondOK
    <3> QED
      BY <3>1, <3>3, Zenon
  <2> QED
    BY <2>1, <2>2, Zenon
<1>14. ASSUME NEW j \in Ini, NEW x \in Slots, r[j][x].valid_a, ~r[j][x].valid_b
       PROVE  Short(txns, j)
  <2>1. j # i \/ x # s
    BY <1>12, <1>14, Zenon
  <2>2. r[j][x] = queue[j][x]
    BY <2>1, <1>12, Zenon
  <2>3. queue[j][x].valid_a /\ ~queue[j][x].valid_b
    BY <2>2, <1>14, Zenon
  <2>4. (i = j /\ queue[j][x].txn = next.txn) \/ Short(txns, j)
    BY <2>3, <1>5, Zenon DEF WaitOK
  <2>5. CASE i = j /\ queue[i][x].txn = next.txn
    <3>1. x = s
      BY <2>3, <2>5, <1>4, <1>6, <1>9, HeldOnce, ZenonT(60)
    <3> QED
      BY <3>1, <2>1, <2>5, Zenon
  <2> QED
    BY <2>4, <2>5, Zenon
<1>15. SecondOK(r) /\ WaitOK(txns, r, next', i)
  BY <1>13, <1>14, Zenon DEF SecondOK, WaitOK
<1>16. Drain(i, r, tail)
  BY <1>3, <1>10, Zenon
<1>17. SecondOK(queue') /\ WaitOK(txns, queue', next', i)
  BY <1>6, <1>12, <1>15, <1>16, DrainSecond, ZenonT(60)
<1>18. WaitOK(txns', queue', next', cur_idx')
  BY <1>1, <1>3, <1>17, Zenon
<1> QED
  BY <1>8, <1>17, <1>18, Zenon DEF AInv, SecondOK, WaitOK, Short, CurOK

\* A later flit that passes: no slot was waiting for it.
LEMMA PassSecond ==
  ASSUME Inv, AInv, BodyPass
  PROVE  AInv'
<1>1. /\ HasInput /\ next.k > 1 /\ ReadFlit /\ txns' = txns /\ cur_idx' = cur_idx /\ queue' = queue
      /\ cur_idx # None => Unattached(cur_idx) = {}
  BY Zenon DEF BodyPass
<1>2. CurOK(txns', next', cur_idx')
  BY <1>1, BodyCur, Zenon
<1>3. SecondOK(queue) /\ WaitOK(txns, queue, next, cur_idx)
  BY Zenon DEF AInv
<1>4. None \notin Ini
  BY ConstantsAssumption DEF None, Ini
<1>5. ASSUME NEW i \in Ini, NEW s \in Slots, queue[i][s].valid_a, ~queue[i][s].valid_b
      PROVE  Short(txns, i)
  <2>1. s \in Unattached(i)
    BY <1>5, Zenon DEF Unattached
  <2>2. cur_idx # i
    BY <2>1, <1>1, <1>4, Zenon
  <2> QED
    BY <2>2, <1>3, <1>5, Zenon DEF WaitOK
<1>6. WaitOK(txns, queue, next', cur_idx')
  BY <1>5, Zenon DEF WaitOK
<1>7. SecondOK(queue') /\ WaitOK(txns', queue', next', cur_idx')
  BY <1>1, <1>3, <1>6, Zenon
<1> QED
  BY <1>2, <1>7, Zenon DEF AInv, SecondOK, WaitOK, Short, CurOK

\* A call without input.
LEMMA IdleSecond ==
  ASSUME Inv, AInv, Idle
  PROVE  AInv'
<1>1. /\ Drain(cur_idx, queue, tail) /\ txns' = txns /\ next' = next /\ cur_idx' = cur_idx
  BY Zenon DEF Idle
<1>2. /\ SecondOK(queue) /\ WaitOK(txns, queue, next, cur_idx) /\ CurOK(txns, next, cur_idx)
      /\ cur_idx \in Ini \cup {None} /\ queue \in Queues /\ head \in [Ini -> Slots]
  BY Zenon DEF AInv, Inv, TypeOK
<1>3. SecondOK(queue') /\ WaitOK(txns, queue', next, cur_idx)
  BY <1>1, <1>2, DrainSecond, Zenon
<1>4. WaitOK(txns', queue', next', cur_idx') /\ CurOK(txns', next', cur_idx')
  BY <1>1, <1>2, <1>3, Zenon
<1> QED
  BY <1>3, <1>4, Zenon DEF AInv, SecondOK, WaitOK, Short, CurOK

\* Every call keeps second flits right.
LEMMA NextSecond ==
  ASSUME Inv, AInv, Uniform(txns), [Next]_vars
  PROVE  AInv'
<1>1. CASE UNCHANGED vars
  BY <1>1, Zenon DEF vars, AInv, SecondOK, WaitOK, Short, CurOK
<1> QED
  BY <1>1, IdleSecond, EmitSecond, BufferSecond, AttachSecond, PassSecond, ZenonT(60) DEF Next, Reads

\* Initially no slot is in use.
LEMMA InitSecond ==
  ASSUME Init
  PROVE  AInv
<1>1. next = [txn |-> 1, k |-> 1] /\ queue = [i \in Ini |-> [s \in Slots |-> EmptySlot]]
  BY Zenon DEF Init
<1>2. ~EmptySlot.valid_a /\ ~EmptySlot.valid_b
  BY Zenon DEF EmptySlot
<1>3. \A i \in Ini, s \in Slots : queue[i][s] = EmptySlot
  BY <1>1, Zenon
<1>4. ~(next.k > 1)
  BY <1>1
<1> QED
  BY <1>2, <1>3, <1>4, Zenon DEF AInv, SecondOK, WaitOK, CurOK

\* If an initiator that sends SOs of one flit sends no longer transactions,
\* the flit that port 1 stores beside a waiting metadata flit is the one that
\* followed it, although the code looks for the first slot without one.
THEOREM Attachment ==
  ASSUME \A o \in Orders : Uniform(o)
  PROVE  Spec => []AttachedRight
<1>1. Init => AInv
  BY InitSecond, Zenon
<1>2. Inv /\ AInv /\ [Next]_vars => AInv'
  <2>1. Inv => Uniform(txns)
    BY Zenon DEF Inv, TypeOK
  <2> QED
    BY <2>1, NextSecond, Zenon
<1>3. AInv => AttachedRight
  BY Zenon DEF AInv, SecondOK, AttachedRight
<1> QED
  BY <1>1, <1>2, <1>3, Invariance, PTL DEF Spec

-----------------------------------------------------------------------------
(* The order of execution.  Initiator i has a count c: exactly the         *)
(* transactions numbered below c have executed, and exec_complete is the   *)
(* remainder of the last of them.                                          *)

Ran(q, t) == ExecsIn(q, t) # {}
RanNumber(o, q, i, n) == \E t : Counted(o, i, t) /\ o[t].seq = n /\ Ran(q, t)

CountOK(o, q, x, qs, i, c) ==
  /\ x[i] = (c - 1) % TassnMod
  /\ \A n \in 0 .. c - 1 : RanNumber(o, q, i, n)
  /\ \A t : Counted(o, i, t) /\ Ran(q, t) => o[t].seq < c
  /\ \A s \in Slots : qs[i][s].valid_a =>
       Counted(o, i, qs[i][s].txn) /\ o[qs[i][s].txn].seq < c + TassnMod

CountsOK(o, q, x, qs) ==
  x \in [Ini -> Int] /\ \A i \in Ini : \E c \in Nat : CountOK(o, q, x, qs, i, c)

OthersRan(o, q, nx) == \A u \in DOMAIN o : ~o[u].rot /\ Arrived(u, nx) => Ran(q, u)

\* Place j of the output respects the order.
TurnOK(o, q, j) ==
  q[j].k = 1 /\ o[q[j].txn].rot /\ o[q[j].txn].exec = "SO" =>
    \A u \in DOMAIN o :
      /\ o[u].ini = o[q[j].txn].ini /\ o[u].exec # "NO" /\ o[u].seq < o[q[j].txn].seq
      => \E x \in 1 .. j - 1 : q[x] = [txn |-> u, k |-> 1]

TurnsOK(o, q) == \A j \in 1 .. Len(q) : TurnOK(o, q, j)

SInv ==
  /\ CountsOK(txns, out, exec_complete, queue)
  /\ OthersRan(txns, out, next)
  /\ TurnsOK(txns, out)

\* Quotient and remainder.
LEMMA DivMod ==
  ASSUME NEW a \in Int, NEW S \in Nat \ {0}
  PROVE  a % S \in 0 .. S - 1 /\ a \div S \in Int /\ a = S * (a \div S) + (a % S)
OBVIOUS

\* A multiple of the divisor does not change the remainder.
LEMMA ModShift ==
  ASSUME NEW a \in Int, NEW k \in Int, NEW S \in Nat \ {0}
  PROVE  (a + S * k) % S = a % S
<1>1. PICK d, r : d = a \div S /\ r = a % S
  BY Zenon
<1>2. d \in Int /\ r \in Int /\ 0 <= r /\ r < S /\ a = S * d + r
  BY <1>1, DivMod
<1>3. a + S * k = S * (d + k) + r /\ d + k \in Int
  BY <1>2
<1>4. (S * (d + k) + r) % S = r
  BY <1>2, <1>3, ModUnique, Zenon
<1> QED
  BY <1>1, <1>3, <1>4, ZenonT(60)

\* A sum has the remainder of the sum of a remainder.
LEMMA ModAdd ==
  ASSUME NEW a \in Int, NEW b \in Int, NEW S \in Nat \ {0}
  PROVE  ((a % S) + b) % S = (a + b) % S
<1>1. PICK d, r : d = a \div S /\ r = a % S
  BY Zenon
<1>2. d \in Int /\ r \in Int /\ a = S * d + r
  BY <1>1, DivMod
<1>3. a + b = (r + b) + S * d /\ r + b \in Int
  BY <1>2
<1>4. ((r + b) + S * d) % S = (r + b) % S
  BY <1>2, <1>3, ModShift, ZenonT(60)
<1> QED
  BY <1>1, <1>3, <1>4, Zenon

\* Numbers less than S apart have different remainders.
LEMMA ModInjective ==
  ASSUME NEW a \in Int, NEW b \in Int, NEW S \in Nat \ {0}, a <= b, b < a + S, a % S = b % S
  PROVE  a = b
<1>1. PICK d, e, r : d = a \div S /\ e = b \div S /\ r = a % S
  BY Zenon
<1>2. d \in Int /\ e \in Int /\ r \in Int /\ a = S * d + r /\ b = S * e + r
  BY <1>1, DivMod
<1>3. PICK k : k = e - d
  BY Zenon
<1>4. k \in Int /\ b - a = S * k
  BY <1>2, <1>3
<1>5. k = 0
  BY <1>4
<1> QED
  BY <1>4, <1>5

\* The TASSN that exec_complete waits for is the one of the next number.
LEMMA WantIs ==
  ASSUME NEW c \in Nat, NEW n \in Nat, c <= n, n < c + TassnMod,
         NEW w, w = (c - 1) % TassnMod, n % TassnMod = (w + 1) % TassnMod
  PROVE  n = c
<1>1. TassnMod \in Nat \ {0} /\ c - 1 \in Int /\ c \in Int /\ n \in Int /\ 1 \in Int
  BY ConstantsAssumption
<1>2. (((c - 1) % TassnMod) + 1) % TassnMod = (c - 1 + 1) % TassnMod
  BY <1>1, ModAdd, Zenon
<1>3. c - 1 + 1 = c
  BY <1>1
<1>4. n % TassnMod = c % TassnMod
  BY <1>2, <1>3, Zenon
<1> QED
  BY <1>1, <1>4, ModInjective, Zenon

\* What has executed once f was emitted.
LEMMA RanAppend ==
  ASSUME NEW q \in Seq(Flit), NEW f \in Flit, NEW u
  PROVE  Ran(Append(q, f), u) <=> Ran(q, u) \/ f = [txn |-> u, k |-> 1]
<1>1. /\ f = [txn |-> u, k |-> 1] => ExecsIn(Append(q, f), u) = ExecsIn(q, u) \cup {Len(q) + 1}
      /\ f # [txn |-> u, k |-> 1] => ExecsIn(Append(q, f), u) = ExecsIn(q, u)
  BY ExecsAppend
<1> QED
  BY <1>1, Zenon DEF Ran

\* The transactions that must have executed before t does.
Before(o, t, u) ==
  u \in DOMAIN o /\ o[u].ini = o[t].ini /\ o[u].exec # "NO" /\ o[u].seq < o[t].seq

\* A flit f keeps the order if it executes no SO, or its turn has come.
LEMMA TurnsAppend ==
  ASSUME NEW o, NEW q \in Seq(Flit), NEW f \in Flit, TurnsOK(o, q),
         f.k = 1 /\ o[f.txn].rot /\ o[f.txn].exec = "SO" =>
           \A u : Before(o, f.txn, u) => Ran(q, u)
  PROVE  TurnsOK(o, Append(q, f))
<1>1. PICK p, n : p = Append(q, f) /\ n = Len(q)
  BY Zenon
<1>2. /\ n \in Nat /\ Len(p) = n + 1 /\ p[n + 1] = f /\ DOMAIN q = 1 .. n
      /\ \A j \in 1 .. n : p[j] = q[j]
      /\ \A j \in 1 .. n + 1 : j \in 1 .. n \/ j = n + 1
      /\ \A j \in 1 .. n : \A x \in 1 .. j - 1 : x \in 1 .. n
      /\ n + 1 - 1 = n
  BY <1>1
<1>3. ASSUME NEW j \in 1 .. n
      PROVE  TurnOK(o, p, j)
  <2>1. TurnOK(o, q, j)
    BY <1>1, Zenon DEF TurnsOK
  <2>2. p[j] = q[j] /\ \A x \in 1 .. j - 1 : p[x] = q[x]
    BY <1>2, Zenon
  <2> QED
    BY <2>1, <2>2, ZenonT(60) DEF TurnOK
<1>4. ASSUME f.k = 1, o[f.txn].rot, o[f.txn].exec = "SO",
             NEW u \in DOMAIN o, o[u].ini = o[f.txn].ini, o[u].exec # "NO",
             o[u].seq < o[f.txn].seq
      PROVE  \E x \in 1 .. n : p[x] = [txn |-> u, k |-> 1]
  <2>1. Before(o, f.txn, u)
    BY <1>4, Zenon DEF Before
  <2>2. Ran(q, u)
    BY <1>4, <2>1, Zenon
  <2>3. PICK x \in 1 .. n : q[x] = [txn |-> u, k |-> 1]
    BY <2>2, <1>2, Zenon DEF Ran, ExecsIn
  <2> QED
    BY <2>3, <1>2, Zenon
<1>5. TurnOK(o, p, n + 1)
  <2>1. PICK m : m = n + 1
    BY Zenon
  <2>2. p[m] = f /\ m - 1 = n
    <3>1. p[n + 1] = f /\ n \in Nat
      BY <1>2, Zenon
    <3> QED
      BY <2>1, <3>1
  <2>3. ASSUME p[m].k = 1 /\ o[p[m].txn].rot /\ o[p[m].txn].exec = "SO", NEW u \in DOMAIN o,
               o[u].ini = o[p[m].txn].ini /\ o[u].exec # "NO" /\ o[u].seq < o[p[m].txn].seq
        PROVE  \E x \in 1 .. m - 1 : p[x] = [txn |-> u, k |-> 1]
    <3>1. f.k = 1 /\ o[f.txn].rot /\ o[f.txn].exec = "SO"
      BY <2>2, <2>3, ZenonT(60)
    <3>2. o[u].ini = o[f.txn].ini /\ o[u].exec # "NO" /\ o[u].seq < o[f.txn].seq
      BY <2>2, <2>3, Zenon
    <3>3. \E x \in 1 .. n : p[x] = [txn |-> u, k |-> 1]
      BY <3>1, <3>2, <1>4, ZenonT(60)
    <3> QED
      BY <3>3, <2>2, Zenon
  <2>4. TurnOK(o, p, m)
    BY <2>3, Zenon DEF TurnOK
  <2> QED
    BY <2>1, <2>4, Zenon
<1>6. TurnsOK(o, p)
  BY <1>2, <1>3, <1>5, Zenon DEF TurnsOK
<1> QED
  BY <1>1, <1>6, Zenon

\* A step from q, x and qs to p, y and rs that executes nothing of initiator i
\* and fills no slot of it ...
Stays(o, q, x, qs, p, y, rs, i) ==
  /\ y[i] = x[i]
  /\ \A t : Counted(o, i, t) => (Ran(p, t) <=> Ran(q, t))
  /\ \A s \in Slots : rs[i][s].valid_a => rs[i][s] = qs[i][s]

\* ... keeps its count.
LEMMA CountSame ==
  ASSUME NEW o, NEW q, NEW x, NEW qs, NEW p, NEW y, NEW rs, NEW i, NEW c,
         CountOK(o, q, x, qs, i, c), Stays(o, q, x, qs, p, y, rs, i)
  PROVE  CountOK(o, p, y, rs, i, c)
<1>0. /\ y[i] = x[i]
      /\ \A t : Counted(o, i, t) => (Ran(p, t) <=> Ran(q, t))
      /\ \A s \in Slots : rs[i][s].valid_a => rs[i][s] = qs[i][s]
  BY Zenon DEF Stays
<1>1. y[i] = (c - 1) % TassnMod
  BY <1>0, Zenon DEF CountOK
<1>2. \A n \in 0 .. c - 1 : RanNumber(o, p, i, n)
  BY <1>0, Zenon DEF CountOK, RanNumber
<1>3. \A t : Counted(o, i, t) /\ Ran(p, t) => o[t].seq < c
  BY <1>0, Zenon DEF CountOK
<1>4. ASSUME NEW s \in Slots, rs[i][s].valid_a
      PROVE  Counted(o, i, rs[i][s].txn) /\ o[rs[i][s].txn].seq < c + TassnMod
  <2>1. rs[i][s] = qs[i][s]
    BY <1>0, <1>4, Zenon
  <2>2. qs[i][s].valid_a
    BY <1>4, <2>1, Zenon
  <2>3. Counted(o, i, qs[i][s].txn) /\ o[qs[i][s].txn].seq < c + TassnMod
    BY <2>2, ZenonT(60) DEF CountOK
  <2> QED
    BY <2>1, <2>3, Zenon
<1> QED
  BY <1>1, <1>2, <1>3, <1>4, ZenonT(60) DEF CountOK

\* A step that executes transaction t, numbered c, of initiator i ...
Executing(o, q, qs, p, y, rs, i, c, t) ==
  /\ y[i] = c % TassnMod /\ Counted(o, i, t) /\ o[t].seq = c
  /\ \A u : Ran(p, u) <=> Ran(q, u) \/ u = t
  /\ \A u : Counted(o, i, u) => o[u].seq \in Nat
  /\ \A s \in Slots : rs[i][s].valid_a => rs[i][s] = qs[i][s]

\* ... adds one to its count.
LEMMA CountUp ==
  ASSUME NEW o, NEW q, NEW x, NEW qs, NEW p, NEW y, NEW rs, NEW i, NEW c \in Nat, NEW t,
         CountOK(o, q, x, qs, i, c), Executing(o, q, qs, p, y, rs, i, c, t)
  PROVE  CountOK(o, p, y, rs, i, c + 1)
<1>0. TassnMod \in Nat
  BY ConstantsAssumption
<1>6. /\ y[i] = c % TassnMod /\ Counted(o, i, t) /\ o[t].seq = c
      /\ \A u : Ran(p, u) <=> Ran(q, u) \/ u = t
      /\ \A u : Counted(o, i, u) => o[u].seq \in Nat
      /\ \A s \in Slots : rs[i][s].valid_a => rs[i][s] = qs[i][s]
  BY Zenon DEF Executing
<1>1. y[i] = (c + 1 - 1) % TassnMod
  <2>1. c + 1 - 1 = c
    OBVIOUS
  <2> QED
    BY <2>1, <1>6, Zenon
<1>2. ASSUME NEW n \in 0 .. c + 1 - 1
      PROVE  RanNumber(o, p, i, n)
  <2>1. n \in 0 .. c - 1 \/ n = c
    OBVIOUS
  <2>2. CASE n \in 0 .. c - 1
    <3>1. RanNumber(o, q, i, n)
      BY <2>2, Zenon DEF CountOK
    <3> QED
      BY <3>1, <1>6, Zenon DEF RanNumber
  <2>3. CASE n = c
    BY <2>3, <1>6, Zenon DEF RanNumber
  <2> QED
    BY <2>1, <2>2, <2>3, Zenon
<1>3. ASSUME NEW u, Counted(o, i, u), Ran(p, u)
      PROVE  o[u].seq < c + 1
  <2>1. o[u].seq < c \/ o[u].seq = c
    BY <1>3, <1>6, Zenon DEF CountOK
  <2>2. o[u].seq \in Nat
    BY <1>3, <1>6, Zenon
  <2> QED
    BY <2>1, <2>2
<1>4. ASSUME NEW s \in Slots, rs[i][s].valid_a
      PROVE  Counted(o, i, rs[i][s].txn) /\ o[rs[i][s].txn].seq < c + 1 + TassnMod
  <2>1. rs[i][s] = qs[i][s]
    BY <1>4, <1>6, Zenon
  <2>2. qs[i][s].valid_a
    BY <1>4, <2>1, Zenon
  <2>3. Counted(o, i, qs[i][s].txn) /\ o[qs[i][s].txn].seq < c + TassnMod
    BY <2>2, Zenon DEF CountOK
  <2>4. PICK v : v = o[qs[i][s].txn].seq
    BY Zenon
  <2>5. v \in Nat /\ v < c + TassnMod
    BY <2>3, <2>4, <1>6, ZenonT(60)
  <2>6. v < c + 1 + TassnMod
    BY <2>5, <1>0
  <2> QED
    BY <2>1, <2>3, <2>4, <2>6, ZenonT(60)
<1>5. /\ y[i] = (c + 1 - 1) % TassnMod
      /\ \A n \in 0 .. c + 1 - 1 : RanNumber(o, p, i, n)
      /\ \A u : Counted(o, i, u) /\ Ran(p, u) => o[u].seq < c + 1
      /\ \A s \in Slots : rs[i][s].valid_a =>
           Counted(o, i, rs[i][s].txn) /\ o[rs[i][s].txn].seq < c + 1 + TassnMod
  BY <1>1, <1>2, <1>3, <1>4, ZenonT(60)
<1> QED
  BY <1>5 DEF CountOK

\* Counting takes the arrival order as given.
Numbers(o) == \A t \in DOMAIN o : o[t].seq \in Nat

\* A transaction that has not executed is not numbered below the count.
LEMMA NotBelow ==
  ASSUME NEW o, NEW q, NEW x, NEW qs, NEW i \in Ini, NEW c \in Nat, CountOK(o, q, x, qs, i, c),
         Distinct(o), Numbers(o), NEW t, Counted(o, i, t), ~Ran(q, t)
  PROVE  c <= o[t].seq /\ o[t].seq \in Nat
<1>1. o[t].seq \in Nat
  BY Zenon DEF Numbers, Counted
<1>2. ASSUME o[t].seq < c
      PROVE  FALSE
  <2>1. o[t].seq \in 0 .. c - 1
    BY <1>1, <1>2
  <2>2. RanNumber(o, q, i, o[t].seq)
    BY <2>1, Zenon DEF CountOK
  <2>3. PICK u : Counted(o, i, u) /\ o[u].seq = o[t].seq /\ Ran(q, u)
    BY <2>2, Zenon DEF RanNumber
  <2>4. u = t
    BY <2>3, Zenon DEF Distinct, Counted
  <2> QED
    BY <2>3, <2>4, Zenon
<1> QED
  BY <1>1, <1>2

\* One of which all numbers up to n - d have executed is numbered below c + d.
LEMMA NotAbove ==
  ASSUME NEW o, NEW q, NEW x, NEW qs, NEW i, NEW c \in Nat, CountOK(o, q, x, qs, i, c),
         NEW n \in Nat, NEW d \in Nat, \A m \in 0 .. n - d : RanNumber(o, q, i, m)
  PROVE  n < c + d
<1>1. ASSUME ~(n < c + d)
      PROVE  FALSE
  <2>1. c \in 0 .. n - d
    BY <1>1
  <2>2. PICK u : Counted(o, i, u) /\ o[u].seq = c /\ Ran(q, u)
    BY <2>1, Zenon DEF RanNumber
  <2>3. o[u].seq < c
    BY <2>2, Zenon DEF CountOK
  <2> QED
    BY <2>2, <2>3
<1> QED
  BY <1>1, Zenon

\* When the turn of SO t has come, all that go before it have executed.
LEMMA TurnCome ==
  ASSUME NEW o, NEW q, NEW x, NEW qs, NEW i \in Ini, NEW c \in Nat, CountOK(o, q, x, qs, i, c),
         Distinct(o), OthersFirst(o), Numbers(o), NEW nx, OthersRan(o, q, nx),
         NEW t, Counted(o, i, t), o[t].seq = c,
         \A u \in DOMAIN o : u < t => Arrived(u, nx),
         o[t].exec = "SO", NEW u, Before(o, t, u)
  PROVE  Ran(q, u)
<1>1. /\ u \in DOMAIN o /\ o[u].ini = i /\ o[u].exec # "NO" /\ o[u].seq < c
      /\ t \in DOMAIN o /\ o[t].rot /\ o[t].ini = i
  BY Zenon DEF Before, Counted
<1>2. CASE o[u].rot
  <2>1. Counted(o, i, u)
    BY <1>1, <1>2, Zenon DEF Counted
  <2>2. o[u].seq \in Nat
    BY <1>1, Zenon DEF Numbers
  <2>3. o[u].seq \in 0 .. c - 1
    BY <1>1, <2>2
  <2>4. RanNumber(o, q, i, o[u].seq)
    BY <2>3, Zenon DEF CountOK
  <2>5. PICK v : Counted(o, i, v) /\ o[v].seq = o[u].seq /\ Ran(q, v)
    BY <2>4, Zenon DEF RanNumber
  <2>6. v = u
    BY <2>1, <2>5, ZenonT(60) DEF Distinct, Counted
  <2> QED
    BY <2>5, <2>6, Zenon
<1>3. CASE ~o[u].rot
  <2>1. o[u].ini = o[t].ini /\ o[u].seq < o[t].seq
    BY <1>1, Zenon
  <2>2. u < t
    BY <2>1, <1>1, <1>3, ZenonT(60) DEF OthersFirst
  <2> QED
    BY <2>2, <1>1, <1>3, ZenonT(60) DEF OthersRan
<1> QED
  BY <1>2, <1>3, Zenon

\* The counts after the transaction t, numbered c, of initiator i executed.
Counting(o, q, x, qs, p, y, rs, i, c, t) ==
  /\ CountsOK(o, q, x, qs) /\ CountOK(o, q, x, qs, i, c) /\ Numbers(o)
  /\ y = [x EXCEPT ![i] = c % TassnMod] /\ Counted(o, i, t) /\ o[t].seq = c
  /\ \A u : Ran(p, u) <=> Ran(q, u) \/ u = t
  /\ \A j \in Ini, s \in Slots : rs[j][s].valid_a => rs[j][s] = qs[j][s]

\* Its own count goes up, the others stay.
LEMMA CountsUp ==
  ASSUME NEW o, NEW q, NEW x, NEW qs, NEW p, NEW y, NEW rs, NEW i \in Ini, NEW c \in Nat, NEW t,
         Counting(o, q, x, qs, p, y, rs, i, c, t)
  PROVE  CountsOK(o, p, y, rs)
<1>1. x \in [Ini -> Int] /\ y = [x EXCEPT ![i] = c % TassnMod]
  BY Zenon DEF Counting, CountsOK
<1>2. c % TassnMod \in Int
  BY ConstantsAssumption
<1>3. y \in [Ini -> Int] /\ y[i] = c % TassnMod /\ \A j \in Ini : j # i => y[j] = x[j]
  BY <1>1, <1>2, Zenon
<1>4. \A u : Counted(o, i, u) => o[u].seq \in Nat
  BY Zenon DEF Counting, Counted, Numbers
<1>5. CountOK(o, p, y, rs, i, c + 1)
  <2>1. Executing(o, q, qs, p, y, rs, i, c, t)
    BY <1>3, <1>4, ZenonT(60) DEF Counting, Executing
  <2>2. CountOK(o, q, x, qs, i, c)
    BY Zenon DEF Counting
  <2> QED
    BY <2>1, <2>2, CountUp, ZenonT(60)
<1>6. ASSUME NEW j \in Ini, j # i
      PROVE  \E d \in Nat : CountOK(o, p, y, rs, j, d)
  <2>1. PICK d \in Nat : CountOK(o, q, x, qs, j, d)
    BY Zenon DEF Counting, CountsOK
  <2>2. \A u : Counted(o, j, u) => u # t
    BY <1>6, Zenon DEF Counting, Counted
  <2>3. \A u : Counted(o, j, u) => (Ran(p, u) <=> Ran(q, u))
    BY <2>2, Zenon DEF Counting
  <2>4. y[j] = x[j]
    BY <1>3, <1>6, Zenon
  <2>5. \A s \in Slots : rs[j][s].valid_a => rs[j][s] = qs[j][s]
    BY Zenon DEF Counting
  <2>6. Stays(o, q, x, qs, p, y, rs, j)
    BY <2>3, <2>4, <2>5, Zenon DEF Stays
  <2>7. CountOK(o, p, y, rs, j, d)
    BY <2>1, <2>6, CountSame, ZenonT(60)
  <2> QED
    BY <2>7, Zenon
<1>7. c + 1 \in Nat
  OBVIOUS
<1>8. \A j \in Ini : \E d \in Nat : CountOK(o, p, y, rs, j, d)
  BY <1>5, <1>6, <1>7, ZenonT(60)
<1> QED
  BY <1>3, <1>8, Zenon DEF CountsOK

\* The counts after a step that executed none of the counted ones.
LEMMA CountsSame ==
  ASSUME NEW o, NEW q, NEW x, NEW qs, NEW p, NEW rs, CountsOK(o, q, x, qs),
         \A i \in Ini : \A t : Counted(o, i, t) => (Ran(p, t) <=> Ran(q, t)),
         \A j \in Ini, s \in Slots : rs[j][s].valid_a => rs[j][s] = qs[j][s]
  PROVE  CountsOK(o, p, x, rs)
<1>1. ASSUME NEW j \in Ini
      PROVE  \E d \in Nat : CountOK(o, p, x, rs, j, d)
  <2>1. PICK d \in Nat : CountOK(o, q, x, qs, j, d)
    BY Zenon DEF CountsOK
  <2>2. \A u : Counted(o, j, u) => (Ran(p, u) <=> Ran(q, u))
    BY Zenon
  <2>3. CountOK(o, p, x, rs, j, d)
    <3>1. Stays(o, q, x, qs, p, x, rs, j)
      BY <2>2, Zenon DEF Stays
    <3> QED
      BY <3>1, <2>1, CountSame, ZenonT(60)
  <2> QED
    BY <2>3, Zenon
<1> QED
  BY <1>1, Zenon DEF CountsOK

\* A transaction that waits has arrived and has not executed.
LEMMA HeldWaits ==
  ASSUME NEW qs, NEW q, NEW dr, NEW nx, PlacesOK(qs, q, dr, nx), NEW i \in Ini, NEW s \in Slots,
         qs[i][s].valid_a, qs[i][s].txn \in Nat \ {0}
  PROVE  ~Ran(q, qs[i][s].txn) /\ Arrived(qs[i][s].txn, nx)
<1>1. PICK t : t = qs[i][s].txn
  BY Zenon
<1>2. Placed(t, HeldIn(qs, t), ExecsIn(q, t), dr, nx)
  BY <1>1, Zenon DEF PlacesOK, PlaceOK
<1>3. <<i, s>> \in Ini \X Slots /\ <<i, s>>[1] = i /\ <<i, s>>[2] = s
  OBVIOUS
<1>4. <<i, s>> \in HeldIn(qs, t)
  BY <1>1, <1>3, Zenon DEF HeldIn
<1>5. HeldIn(qs, t) # {}
  BY <1>4, Zenon
<1> QED
  BY <1>1, <1>2, <1>5, ZenonT(60) DEF Placed, Ran

\* Before t, if t has arrived, all that come before it have.
LEMMA EarlierArrived ==
  ASSUME txns \in Orders, NEW nx, FlitOK(nx), NEW t \in DOMAIN txns, Arrived(t, nx) \/ t = nx.txn
  PROVE  \A u \in DOMAIN txns : u < t => Arrived(u, nx)
<1>1. nx.txn \in Nat
  BY DEF FlitOK, Flit
<1>2. \A u \in DOMAIN txns : u \in Nat
  BY TxnOf, Zenon
<1>3. t \in Nat /\ t <= nx.txn
  BY <1>1, <1>2 DEF Arrived
<1> QED
  BY <1>1, <1>2, <1>3 DEF Arrived

OrderGiven(o) == Distinct(o) /\ OthersFirst(o) /\ Numbers(o)

\* What a drain starts from, and what it leaves.
InTurn(q, x, qs, nx) ==
  CountsOK(txns, q, x, qs) /\ OthersRan(txns, q, nx) /\ TurnsOK(txns, q)

\* Executing transaction t, numbered c, of initiator i.
AtTurn(qs, nx, i, c, t) ==
  /\ TypeOK /\ OrderGiven(txns) /\ InTurn(out, exec_complete, qs, nx)
  /\ i \in Ini /\ c \in Nat /\ CountOK(txns, out, exec_complete, qs, i, c)
  /\ Counted(txns, i, t) /\ txns[t].seq = c
  /\ \A u \in DOMAIN txns : u < t => Arrived(u, nx)
ExecutesOne(qs, rs, i, c, t) ==
  /\ out' = Append(out, [txn |-> t, k |-> 1])
  /\ exec_complete' = [exec_complete EXCEPT ![i] = c % TassnMod]
  /\ \A j \in Ini, s \in Slots : rs[j][s].valid_a => rs[j][s] = qs[j][s]

\* It keeps the order, and the only one that it adds is t.
LEMMA ExecuteInTurn ==
  ASSUME NEW qs, NEW rs, NEW nx, NEW i, NEW c, NEW t,
         AtTurn(qs, nx, i, c, t), ExecutesOne(qs, rs, i, c, t)
  PROVE  InTurn(out', exec_complete', rs, nx) /\ \A u : Ran(out', u) <=> Ran(out, u) \/ u = t
<1>0. /\ TypeOK /\ OrderGiven(txns) /\ InTurn(out, exec_complete, qs, nx)
      /\ i \in Ini /\ c \in Nat /\ CountOK(txns, out, exec_complete, qs, i, c)
      /\ Counted(txns, i, t) /\ txns[t].seq = c
      /\ \A u \in DOMAIN txns : u < t => Arrived(u, nx)
  BY Zenon DEF AtTurn
<1>1. PICK f, p, y : /\ f = [txn |-> t, k |-> 1] /\ p = Append(out, f)
                     /\ p = out' /\ y = exec_complete'
  BY Zenon DEF ExecutesOne
<1>2. out \in Seq(Flit) /\ txns \in Orders
  BY <1>0, Zenon DEF TypeOK
<1>3. t \in DOMAIN txns /\ t \in Nat
  <2>1. t \in DOMAIN txns
    BY <1>0, Zenon DEF Counted
  <2> QED
    BY <2>1, <1>2, TxnOf, ZenonT(60)
<1>4. f \in Flit /\ f.k = 1 /\ f.txn = t
  BY <1>1, <1>3 DEF Flit
<1>5. p = Append(out, f)
  BY <1>1, Zenon
<1>6. ASSUME NEW u
      PROVE  Ran(p, u) <=> Ran(out, u) \/ u = t
  <2>1. Ran(Append(out, f), u) <=> Ran(out, u) \/ f = [txn |-> u, k |-> 1]
    BY <1>2, <1>4, RanAppend, ZenonT(60)
  <2>2. f = [txn |-> u, k |-> 1] <=> u = t
    BY <1>1
  <2> QED
    BY <2>1, <2>2, <1>5, ZenonT(60)
<1>7. /\ CountsOK(txns, out, exec_complete, qs) /\ OthersRan(txns, out, nx) /\ TurnsOK(txns, out)
      /\ Distinct(txns) /\ OthersFirst(txns) /\ Numbers(txns)
  BY <1>0, Zenon DEF InTurn, OrderGiven
<1>8. CountsOK(txns, p, y, rs)
  <2>1. Counting(txns, out, exec_complete, qs, p, y, rs, i, c, t)
    BY <1>0, <1>1, <1>6, <1>7, ZenonT(60) DEF Counting, ExecutesOne
  <2> QED
    BY <2>1, <1>0, CountsUp, ZenonT(60)
<1>9. OthersRan(txns, p, nx)
  BY <1>6, <1>7, Zenon DEF OthersRan
<1>10. ASSUME txns[t].exec = "SO", NEW u, Before(txns, t, u)
       PROVE  Ran(out, u)
  BY <1>0, <1>7, <1>10, TurnCome, ZenonT(60)
<1>11. f.k = 1 /\ txns[f.txn].rot /\ txns[f.txn].exec = "SO" =>
         \A u : Before(txns, f.txn, u) => Ran(out, u)
  BY <1>4, <1>10, Zenon
<1>12. TurnsOK(txns, Append(out, f))
  BY <1>2, <1>4, <1>7, <1>11, TurnsAppend, ZenonT(60)
<1>13. InTurn(p, y, rs, nx)
  BY <1>5, <1>8, <1>9, <1>12, ZenonT(60) DEF InTurn
<1> QED
  BY <1>1, <1>6, <1>13, Zenon

\* What a release of transaction t needs: its number is the count.
LEMMA ReleaseNumber ==
  ASSUME NEW i \in Ini, NEW qs, NEW tl, Draining(i, qs, tl), Released(i, qs, tl),
         OrderGiven(txns), NEW c \in Nat, CountOK(txns, out, exec_complete, qs, i, c)
  PROVE  LET t == qs[i][head[i]].txn IN
         /\ Counted(txns, i, t) /\ txns[t].seq = c
         /\ \A u \in DOMAIN txns : u < t => Arrived(u, next')
<1>1. PICK t : t = qs[i][head[i]].txn
  BY Zenon
<1>2. /\ head[i] \in Slots /\ qs[i][head[i]].valid_a /\ Tassn(t) = Want(i)
  BY <1>1, Zenon DEF Released
<1>3. /\ txns \in Orders /\ FlitOK(next') /\ PlacesOK(qs, out, dropped', next')
      /\ Distinct(txns) /\ Numbers(txns)
  BY Zenon DEF Draining, TypeOK, OrderGiven
<1>4. Counted(txns, i, t) /\ txns[t].seq < c + TassnMod /\ exec_complete[i] = (c - 1) % TassnMod
  BY <1>1, <1>2, ZenonT(60) DEF CountOK
<1>5. t \in DOMAIN txns /\ t \in Nat \ {0}
  <2>1. t \in DOMAIN txns
    BY <1>4, Zenon DEF Counted
  <2>2. txns \in Seq(Txn)
    BY <1>3, OrdersAssumption, Zenon
  <2> QED
    BY <2>1, <2>2
<1>6. ~Ran(out, t) /\ Arrived(t, next')
  BY <1>1, <1>2, <1>3, <1>5, HeldWaits, ZenonT(60)
<1>7. c <= txns[t].seq /\ txns[t].seq \in Nat
  BY <1>3, <1>4, <1>6, NotBelow, ZenonT(60)
<1>8. txns[t].seq % TassnMod = (exec_complete[i] + 1) % TassnMod
  BY <1>2, Zenon DEF Tassn, Want
<1>9. txns[t].seq = c
  BY <1>4, <1>7, <1>8, WantIs, ZenonT(60)
<1>10. \A u \in DOMAIN txns : u < t => Arrived(u, next')
  BY <1>3, <1>5, <1>6, EarlierArrived, ZenonT(60)
<1> QED
  BY <1>1, <1>4, <1>9, <1>10, ZenonT(60)

\* A drain keeps the order.
LEMMA DrainInTurn ==
  ASSUME NEW i, NEW qs, NEW tl, Draining(i, qs, tl), OrderGiven(txns),
         InTurn(out, exec_complete, qs, next')
  PROVE  InTurn(out', exec_complete', queue', next')
<1>1. /\ TypeOK /\ i \in Ini \cup {None} /\ qs \in Queues /\ head \in [Ini -> Slots]
      /\ Drain(i, qs, tl)
  BY Zenon DEF Draining, TypeOK
<1>2. CASE Released(i, qs, tl)
  <2>1. i \in Ini
    BY <1>2, Zenon DEF Released
  <2>2. PICK c \in Nat : CountOK(txns, out, exec_complete, qs, i, c)
    BY <2>1, Zenon DEF InTurn, CountsOK
  <2>3. PICK t : t = qs[i][head[i]].txn
    BY Zenon
  <2>4. /\ Counted(txns, i, t) /\ txns[t].seq = c
        /\ \A u \in DOMAIN txns : u < t => Arrived(u, next')
    BY <2>1, <2>2, <2>3, <1>2, ReleaseNumber, ZenonT(60)
  <2>5. AtTurn(qs, next', i, c, t)
    BY <2>1, <2>2, <2>4, <1>1, ZenonT(60) DEF AtTurn
  <2>6. /\ out' = Append(out, [txn |-> t, k |-> 1])
        /\ exec_complete' = [exec_complete EXCEPT ![i] = Tassn(t)]
        /\ ~queue'[i][head[i]].valid_a
        /\ \A j \in Ini, s \in Slots : j # i \/ s # head[i] => queue'[j][s] = qs[j][s]
    BY <2>3, <1>2, Zenon DEF Released, Elsewhere
  <2>7. Tassn(t) = c % TassnMod
    BY <2>4, Zenon DEF Tassn
  <2>8. ASSUME NEW j \in Ini, NEW s \in Slots, queue'[j][s].valid_a
        PROVE  queue'[j][s] = qs[j][s]
    BY <2>6, <2>8, Zenon
  <2>9. ExecutesOne(qs, queue', i, c, t)
    BY <2>6, <2>7, <2>8, ZenonT(60) DEF ExecutesOne
  <2> QED
    BY <2>5, <2>9, ExecuteInTurn, ZenonT(60)
<1>3. CASE Kept(qs, tl)
  <2>1. queue' = qs /\ out' = out /\ exec_complete' = exec_complete
    BY <1>3, Zenon DEF Kept
  <2> QED
    BY <2>1, Zenon
<1> QED
  BY <1>1, <1>2, <1>3, DrainCases, ZenonT(60)

\* The transactions that the properties count as executed.
LEMMA ExecutedRan ==
  ASSUME Inv
  PROVE  \A u \in Executed : Ran(out, u)
<1>1. SUFFICES ASSUME NEW u \in Executed PROVE Ran(out, u)
  BY Zenon
<1>2. out \in Seq(Flit)
  BY Zenon DEF Inv, TypeOK
<1>3. PICK j \in {x \in 1 .. Len(out) : out[x].k = 1} : u = out[j].txn
  BY <1>1, ZenonT(60) DEF Executed, ExecutedBy
<1>4. j \in DOMAIN out /\ out[j] \in Flit /\ out[j].k = 1
  BY <1>2, <1>3
<1>5. out[j] = [txn |-> u, k |-> 1]
  BY <1>3, <1>4 DEF Flit
<1> QED
  BY <1>4, <1>5, Zenon DEF Ran, ExecsIn

\* The next flit to read, if it counts, is numbered from the count on and
\* less than one period after it; an RO is the very next.
LEMMA ArrivingNumber ==
  ASSUME Inv, OrderGiven(txns), Fresh, next.k = 1, NEW i \in Ini, Counted(txns, i, next.txn),
         NEW c \in Nat, CountOK(txns, out, exec_complete, queue, i, c)
  PROVE  /\ txns[next.txn].seq \in Nat /\ c <= txns[next.txn].seq
         /\ txns[next.txn].seq < c + TassnMod
         /\ txns[next.txn].exec = "RO" => txns[next.txn].seq = c
<1>1. PICK t, n : t = next.txn /\ n = txns[next.txn].seq
  BY Zenon
<1>2. /\ FlitOK(next) /\ PlacesOK(queue, out, dropped, next)
      /\ Distinct(txns) /\ Numbers(txns) /\ txns[t].ini = i
  BY <1>1, ZenonT(60) DEF Inv, TypeOK, OrderGiven, Counted
<1>3. t \in Nat \ {0} /\ ~Arrived(t, next)
  BY <1>1, <1>2 DEF FlitOK, Flit, Arrived
<1>4. ~Ran(out, t)
  BY <1>2, <1>3, ZenonT(60) DEF PlacesOK, PlaceOK, Placed, Ran
<1>5. c <= n /\ n \in Nat
  BY <1>1, <1>2, <1>4, NotBelow, ZenonT(60)
<1>6. /\ \A m \in 0 .. n - TassnMod : RanNumber(txns, out, i, m)
      /\ txns[t].exec = "RO" => \A m \in 0 .. n - 1 : RanNumber(txns, out, i, m)
  <2>1. \A m : (\E u \in Executed : Counted(txns, i, u) /\ txns[u].seq = m)
              => RanNumber(txns, out, i, m)
    BY ExecutedRan, ZenonT(60) DEF RanNumber
  <2>2. HasInput
    BY Zenon DEF HasInput, Counted
  <2>3. /\ \A m \in 0 .. n - TassnMod :
             \E u \in Executed : Counted(txns, i, u) /\ txns[u].seq = m
        /\ txns[t].exec = "RO" =>
             \A m \in 0 .. n - 1 :
               \E u \in Executed : Counted(txns, i, u) /\ txns[u].seq = m
    BY <2>2, <1>1, <1>2, ZenonT(60) DEF Fresh
  <2> QED
    BY <2>1, <2>3, ZenonT(60)
<1>7. TassnMod \in Nat /\ 1 \in Nat
  BY ConstantsAssumption
<1>8. n < c + TassnMod
  BY <1>5, <1>6, <1>7, NotAbove, ZenonT(60)
<1>9. ASSUME txns[t].exec = "RO"
      PROVE  n = c
  <2>1. \A m \in 0 .. n - 1 : RanNumber(txns, out, i, m)
    BY <1>6, <1>9, ZenonT(60)
  <2>2. n < c + 1
    BY <2>1, <1>5, <1>7, NotAbove, ZenonT(60)
  <2> QED
    BY <2>2, <1>5
<1> QED
  BY <1>1, <1>5, <1>8, <1>9, ZenonT(60)

\* Reading a flit of a transaction of service mode ROT, or a later flit, adds
\* none of the others to the ones that arrived.
LEMMA ReadOthers ==
  ASSUME Inv, ReadFlit, next.k > 1 \/ txns[next.txn].rot, NEW q, OthersRan(txns, q, next)
  PROVE  OthersRan(txns, q, next')
<1>1. FlitOK(next) /\ txns \in Orders
  BY Zenon DEF Inv, TypeOK
<1>2. /\ \A u \in Nat : u # next.txn => (Arrived(u, next') <=> Arrived(u, next))
      /\ next.k > 1 => Arrived(next.txn, next)
  BY <1>1, ReadArrives, ZenonT(60)
<1>3. ASSUME NEW u \in DOMAIN txns, ~txns[u].rot, Arrived(u, next')
      PROVE  Ran(q, u)
  <2>1. u \in Nat
    BY <1>1, TxnOf, ZenonT(60)
  <2>2. Arrived(u, next)
    BY <2>1, <1>2, <1>3, ZenonT(60)
  <2> QED
    BY <2>2, <1>3, ZenonT(60) DEF OthersRan
<1> QED
  BY <1>3, Zenon DEF OthersRan

\* Counting looks at valid_a and the transaction of a slot only.
LEMMA CountsSlots ==
  ASSUME NEW o, NEW q, NEW x, NEW qs, NEW rs, CountsOK(o, q, x, qs),
         \A j \in Ini, s \in Slots :
           rs[j][s].valid_a => qs[j][s].valid_a /\ rs[j][s].txn = qs[j][s].txn
  PROVE  CountsOK(o, q, x, rs)
<1>1. ASSUME NEW j \in Ini
      PROVE  \E d \in Nat : CountOK(o, q, x, rs, j, d)
  <2>1. PICK d \in Nat : CountOK(o, q, x, qs, j, d)
    BY Zenon DEF CountsOK
  <2>2. ASSUME NEW s \in Slots, rs[j][s].valid_a
        PROVE  Counted(o, j, rs[j][s].txn) /\ o[rs[j][s].txn].seq < d + TassnMod
    <3>1. qs[j][s].valid_a /\ rs[j][s].txn = qs[j][s].txn
      BY <2>2, Zenon
    <3>2. Counted(o, j, qs[j][s].txn) /\ o[qs[j][s].txn].seq < d + TassnMod
      BY <2>1, <3>1, ZenonT(60) DEF CountOK
    <3> QED
      BY <3>1, <3>2, ZenonT(60)
  <2>3. CountOK(o, q, x, rs, j, d)
    BY <2>1, <2>2, ZenonT(60) DEF CountOK
  <2> QED
    BY <2>3, Zenon
<1> QED
  BY <1>1, ZenonT(60) DEF CountsOK

\* A transaction that is numbered less than one period after the count of its
\* initiator may wait.
LEMMA CountsFill ==
  ASSUME NEW o, NEW q, NEW x, NEW qs, NEW rs, CountsOK(o, q, x, qs),
         NEW i \in Ini, NEW r \in Slots, NEW t, IsFill(qs, rs, i, r, t), Counted(o, i, t),
         \A c \in Nat : CountOK(o, q, x, qs, i, c) => o[t].seq < c + TassnMod
  PROVE  CountsOK(o, q, x, rs)
<1>1. /\ rs[i][r].txn = t
      /\ \A j \in Ini, s \in Slots : j # i \/ s # r => rs[j][s] = qs[j][s]
  BY Zenon DEF IsFill, Elsewhere
<1>2. ASSUME NEW j \in Ini
      PROVE  \E d \in Nat : CountOK(o, q, x, rs, j, d)
  <2>1. PICK d \in Nat : CountOK(o, q, x, qs, j, d)
    BY Zenon DEF CountsOK
  <2>2. ASSUME NEW s \in Slots, rs[j][s].valid_a
        PROVE  Counted(o, j, rs[j][s].txn) /\ o[rs[j][s].txn].seq < d + TassnMod
    <3>1. CASE j = i /\ s = r
      BY <3>1, <2>1, <1>1, ZenonT(60)
    <3>2. CASE j # i \/ s # r
      <4>1. rs[j][s] = qs[j][s]
        BY <3>2, <1>1, ZenonT(60)
      <4>2. qs[j][s].valid_a
        BY <4>1, <2>2, ZenonT(60)
      <4>3. Counted(o, j, qs[j][s].txn) /\ o[qs[j][s].txn].seq < d + TassnMod
        BY <2>1, <4>2, ZenonT(60) DEF CountOK
      <4> QED
        BY <4>1, <4>3, ZenonT(60)
    <3> QED
      BY <3>1, <3>2, ZenonT(60)
  <2>3. CountOK(o, q, x, rs, j, d)
    BY <2>1, <2>2, Zenon DEF CountOK
  <2> QED
    BY <2>3, Zenon
<1> QED
  BY <1>2, Zenon DEF CountsOK

\* A flit that executes nothing that counts.
LEMMA EmitUncounted ==
  ASSUME Inv, InTurn(out, exec_complete, queue, next), ReadFlit, out' = Append(out, next),
         next.k > 1 \/ ~txns[next.txn].rot \/ txns[next.txn].exec = "NO"
  PROVE  InTurn(out', exec_complete, queue, next')
<1>1. /\ FlitOK(next) /\ txns \in Orders /\ out \in Seq(Flit)
      /\ CountsOK(txns, out, exec_complete, queue) /\ OthersRan(txns, out, next)
      /\ TurnsOK(txns, out)
  BY Zenon DEF Inv, TypeOK, InTurn
<1>2. next \in Flit
  BY <1>1, Zenon DEF FlitOK
<1>3. ASSUME NEW u
      PROVE  Ran(out', u) <=> Ran(out, u) \/ next = [txn |-> u, k |-> 1]
  BY <1>1, <1>2, RanAppend, ZenonT(60)
<1>4. \A u : next = [txn |-> u, k |-> 1] <=> u = next.txn /\ next.k = 1
  BY <1>2 DEF Flit
<1>5. ~(next.k > 1 /\ next.k = 1)
  BY <1>2 DEF Flit
<1>6. \A i \in Ini : \A u : Counted(txns, i, u) => (Ran(out', u) <=> Ran(out, u))
  BY <1>3, <1>4, <1>5, ZenonT(60) DEF Counted
<1>7. CountsOK(txns, out', exec_complete, queue)
  BY <1>1, <1>6, CountsSame, ZenonT(60)
<1>8. next.k = 1 /\ txns[next.txn].rot /\ txns[next.txn].exec = "SO" =>
        \A u : Before(txns, next.txn, u) => Ran(out, u)
  <2>1. "NO" # "SO"
    OBVIOUS
  <2> QED
    BY <2>1, <1>5, Zenon
<1>9. TurnsOK(txns, out')
  BY <1>1, <1>2, <1>8, TurnsAppend, ZenonT(60)
<1>10. ASSUME NEW u \in DOMAIN txns, ~txns[u].rot, Arrived(u, next')
       PROVE  Ran(out', u)
  <2>1. u \in Nat
    BY <1>1, TxnOf, Zenon
  <2>2. /\ u # next.txn => (Arrived(u, next') <=> Arrived(u, next))
        /\ next.k > 1 => Arrived(next.txn, next)
    BY <2>1, <1>1, ReadArrives, ZenonT(60)
  <2>3. next.k = 1 \/ next.k > 1
    BY <1>1, <1>2 DEF FlitOK, Flit
  <2>4. CASE Arrived(u, next)
    BY <2>4, <1>1, <1>3, <1>10, ZenonT(60) DEF OthersRan
  <2>5. CASE ~Arrived(u, next)
    <3>1. u = next.txn /\ next.k = 1
      BY <2>2, <2>3, <2>5, <1>10, ZenonT(60)
    <3> QED
      BY <3>1, <1>3, <1>4, ZenonT(60)
  <2> QED
    BY <2>4, <2>5, Zenon
<1>11. OthersRan(txns, out', next')
  BY <1>10, Zenon DEF OthersRan
<1> QED
  BY <1>7, <1>9, <1>11, ZenonT(60) DEF InTurn

\* MetaOther and BodyPass.
LEMMA PassInTurn ==
  ASSUME Inv, SInv, MetaOther \/ BodyPass
  PROVE  InTurn(out', exec_complete', queue', next') /\ txns' = txns
<1>1. /\ ReadFlit /\ out' = Append(out, next) /\ txns' = txns
      /\ exec_complete' = exec_complete /\ queue' = queue
      /\ next.k > 1 \/ ~txns[next.txn].rot
  BY Zenon DEF MetaOther, BodyPass, Output
<1>2. InTurn(out, exec_complete, queue, next)
  BY Zenon DEF SInv, InTurn
<1>3. InTurn(out', exec_complete, queue, next')
  BY <1>1, <1>2, EmitUncounted, ZenonT(60)
<1> QED
  BY <1>1, <1>3, ZenonT(60)

\* A transaction that executes on arrival and is counted has the next number.
LEMMA ArrivesInTurn ==
  ASSUME Inv, OrderGiven(txns), Fresh, next.k = 1, NEW i \in Ini, Counted(txns, i, next.txn),
         NEW c \in Nat, CountOK(txns, out, exec_complete, queue, i, c), Executes(next.txn)
  PROVE  txns[next.txn].seq = c
<1>1. /\ txns[next.txn].seq \in Nat /\ c <= txns[next.txn].seq
      /\ txns[next.txn].seq < c + TassnMod
      /\ txns[next.txn].exec = "RO" => txns[next.txn].seq = c
  BY ArrivingNumber, Zenon
<1>2. txns[next.txn].exec # "NO" /\ txns[next.txn].ini = i
  BY Zenon DEF Counted
<1>3. exec_complete[i] = (c - 1) % TassnMod
  BY Zenon DEF CountOK
<1>4. CASE txns[next.txn].exec = "SO" /\ Tassn(next.txn) = Want(txns[next.txn].ini)
  <2>1. txns[next.txn].seq % TassnMod = (exec_complete[i] + 1) % TassnMod
    BY <1>2, <1>4, ZenonT(60) DEF Tassn, Want
  <2> QED
    BY <2>1, <1>1, <1>3, WantIs, ZenonT(60)
<1>5. txns[next.txn].exec = "RO" \/ (txns[next.txn].exec = "SO" /\ Tassn(next.txn) = Want(txns[next.txn].ini))
  BY <1>2, Zenon DEF Executes
<1> QED
  BY <1>1, <1>4, <1>5, ZenonT(60)

\* MetaExecute.
LEMMA ExecInTurn ==
  ASSUME Inv, SInv, OrderGiven(txns), Fresh, MetaExecute
  PROVE  InTurn(out', exec_complete', queue', next') /\ txns' = txns
<1>1. PICK t, i : t = next.txn /\ i = txns[next.txn].ini
  BY Zenon
<1>2. /\ HasInput /\ next.k = 1 /\ txns[t].rot /\ Executes(t) /\ ReadFlit
      /\ out' = Append(out, next) /\ txns' = txns /\ queue' = queue
      /\ exec_complete' = IF txns[t].exec = "NO" THEN exec_complete
                          ELSE [exec_complete EXCEPT ![i] = Tassn(t)]
  BY <1>1, Zenon DEF MetaExecute, Output
<1>3. InTurn(out, exec_complete, queue, next) /\ TypeOK /\ txns \in Orders /\ FlitOK(next)
  BY Zenon DEF SInv, InTurn, Inv, TypeOK
<1>4. CASE txns[t].exec = "NO"
  <2>1. InTurn(out', exec_complete, queue, next')
    BY <1>1, <1>2, <1>3, <1>4, EmitUncounted, ZenonT(60)
  <2>2. exec_complete' = exec_complete
    BY <1>2, <1>4, ZenonT(60)
  <2> QED
    BY <2>1, <2>2, <1>2, ZenonT(60)
<1>5. CASE txns[t].exec # "NO"
  <2>1. t \in DOMAIN txns
    BY <1>1, <1>2, ZenonT(60) DEF HasInput
  <2>2. i \in Ini /\ t \in Nat
    BY <2>1, <1>1, <1>3, TxnOf, ZenonT(60)
  <2>3. Counted(txns, i, t)
    BY <2>1, <1>1, <1>2, <1>5, ZenonT(60) DEF Counted
  <2>4. PICK c \in Nat : CountOK(txns, out, exec_complete, queue, i, c)
    BY <2>2, <1>3, ZenonT(60) DEF InTurn, CountsOK
  <2>5. txns[t].seq = c
    BY <2>2, <2>3, <2>4, <1>1, <1>2, ArrivesInTurn, ZenonT(60)
  <2>6. \A u \in DOMAIN txns : u < t => Arrived(u, next)
    BY <2>1, <1>1, <1>3, EarlierArrived, ZenonT(60)
  <2>7. AtTurn(queue, next, i, c, t)
    BY <2>2, <2>3, <2>4, <2>5, <2>6, <1>3, ZenonT(60) DEF AtTurn
  <2>8. next = [txn |-> t, k |-> 1]
    <3>1. next \in Flit
      BY <1>3, Zenon DEF FlitOK
    <3> QED
      BY <3>1, <1>1, <1>2, ZenonT(60) DEF Flit
  <2>9. exec_complete' = [exec_complete EXCEPT ![i] = c % TassnMod]
    <3>1. Tassn(t) = c % TassnMod
      BY <2>5, ZenonT(60) DEF Tassn
    <3> QED
      BY <3>1, <1>2, <1>5, ZenonT(60)
  <2>10. ExecutesOne(queue, queue, i, c, t)
    BY <2>8, <2>9, <1>2, ZenonT(60) DEF ExecutesOne
  <2>11. InTurn(out', exec_complete', queue, next)
    BY <2>7, <2>10, ExecuteInTurn, ZenonT(60)
  <2>12. OthersRan(txns, out', next')
    BY <2>11, <1>1, <1>2, ReadOthers, ZenonT(60) DEF InTurn
  <2> QED
    BY <2>11, <2>12, <1>2, ZenonT(60) DEF InTurn
<1> QED
  BY <1>4, <1>5, ZenonT(60)

\* MetaBuffer.
LEMMA BufferInTurn ==
  ASSUME Inv, SInv, OrderGiven(txns), Fresh, MetaBuffer
  PROVE  InTurn(out', exec_complete', queue', next') /\ txns' = txns
<1>1. PICK t, i : t = next.txn /\ i = txns[next.txn].ini
  BY Zenon
<1>2. HasInput /\ next.k = 1 /\ txns[t].rot /\ ~Executes(t) /\ ReadFlit
  BY <1>1, Zenon DEF MetaBuffer
<1>3. /\ i \in Ini /\ Rest
      /\ \E qs, tl : /\ Draining(i, qs, tl)
                     /\ qs = queue \/ (HasRoom(i) /\ qs = Fill(queue, i, tail[i], t))
  BY <1>1, BufferDrains, ZenonT(60)
<1>4. PICK qs, tl : /\ Draining(i, qs, tl)
                    /\ qs = queue \/ (HasRoom(i) /\ qs = Fill(queue, i, tail[i], t))
  BY <1>3, Zenon
<1>5. InTurn(out, exec_complete, queue, next) /\ queue \in Queues /\ tail \in [Ini -> Slots]
  BY Zenon DEF SInv, InTurn, Inv, TypeOK
<1>6. CountsOK(txns, out, exec_complete, qs)
  <2>1. CASE qs = queue
    BY <2>1, <1>5, ZenonT(60) DEF InTurn
  <2>2. CASE qs = Fill(queue, i, tail[i], t)
    <3>1. tail[i] \in Slots
      BY <1>3, <1>5
    <3>2. t \in DOMAIN txns /\ txns \in Orders
      BY <1>1, <1>2, ZenonT(60) DEF HasInput, Inv, TypeOK
    <3>3. t \in Nat
      BY <3>2, TxnOf, ZenonT(60)
    <3>4. IsFill(queue, qs, i, tail[i], t)
      BY <3>1, <3>3, <2>2, <1>3, <1>5, Filled, ZenonT(60)
    <3>5. Counted(txns, i, t)
      BY <3>2, <1>1, <1>2, ZenonT(60) DEF Counted, Executes
    <3>6. \A c \in Nat : CountOK(txns, out, exec_complete, queue, i, c) =>
            txns[t].seq < c + TassnMod
      BY <3>5, <1>1, <1>2, <1>3, ArrivingNumber, ZenonT(60)
    <3> QED
      BY <3>1, <3>4, <3>5, <3>6, <1>3, <1>5, CountsFill, ZenonT(60) DEF InTurn
  <2> QED
    BY <2>1, <2>2, <1>4, ZenonT(60)
<1>7. OthersRan(txns, out, next')
  BY <1>1, <1>2, <1>5, ReadOthers, ZenonT(60) DEF InTurn
<1>8. InTurn(out, exec_complete, qs, next')
  BY <1>5, <1>6, <1>7, ZenonT(60) DEF InTurn
<1>9. InTurn(out', exec_complete', queue', next')
  BY <1>4, <1>8, DrainInTurn, ZenonT(60)
<1> QED
  BY <1>3, <1>9, ZenonT(60) DEF Rest

\* BodyAttach.
LEMMA AttachInTurn ==
  ASSUME Inv, SInv, OrderGiven(txns), BodyAttach
  PROVE  InTurn(out', exec_complete', queue', next') /\ txns' = txns
<1>1. next.k > 1 /\ ReadFlit
  BY Zenon DEF BodyAttach
<1>2. PICK t : t = next.txn
  BY Zenon
<1>3. /\ cur_idx \in Ini /\ Rest
      /\ \E s \in Slots : Draining(cur_idx, Attach(queue, cur_idx, s, t), tail)
  BY <1>2, AttachDrains, Zenon
<1>4. PICK s \in Slots : Draining(cur_idx, Attach(queue, cur_idx, s, t), tail)
  BY <1>3, Zenon
<1>5. InTurn(out, exec_complete, queue, next) /\ queue \in Queues /\ next \in Flit
  BY Zenon DEF SInv, InTurn, Inv, TypeOK, FlitOK
<1>6. t \in Nat
  BY <1>2, <1>5 DEF Flit
<1>7. PICK qs : qs = Attach(queue, cur_idx, s, t)
  BY Zenon
<1>8. IsAttach(queue, qs, cur_idx, s, t)
  BY <1>3, <1>5, <1>6, <1>7, Attached, ZenonT(60)
<1>9. \A j \in Ini, r \in Slots :
        qs[j][r].valid_a => queue[j][r].valid_a /\ qs[j][r].txn = queue[j][r].txn
  BY <1>8, ZenonT(60) DEF IsAttach, Elsewhere
<1>10. CountsOK(txns, out, exec_complete, qs)
  BY <1>5, <1>9, CountsSlots, ZenonT(60) DEF InTurn
<1>11. OthersRan(txns, out, next')
  BY <1>1, <1>5, ReadOthers, ZenonT(60) DEF InTurn
<1>12. InTurn(out, exec_complete, qs, next')
  BY <1>5, <1>10, <1>11, ZenonT(60) DEF InTurn
<1>13. Draining(cur_idx, qs, tail)
  BY <1>4, <1>7, ZenonT(60)
<1>14. InTurn(out', exec_complete', queue', next')
  BY <1>12, <1>13, DrainInTurn, ZenonT(60)
<1> QED
  BY <1>3, <1>14, ZenonT(60) DEF Rest

\* A call without input.
LEMMA IdleInTurn ==
  ASSUME Inv, SInv, OrderGiven(txns), Idle
  PROVE  InTurn(out', exec_complete', queue', next') /\ txns' = txns
<1>1. /\ TypeOK /\ RingOK(queue, head, tail) /\ PlacesOK(queue, out, dropped, next)
      /\ FlitOK(next) /\ cur_idx \in Ini \cup {None}
      /\ queue \in Queues /\ tail \in [Ini -> Slots]
  BY Zenon DEF Inv, TypeOK
<1>2. Drain(cur_idx, queue, tail) /\ txns' = txns /\ next' = next /\ dropped' = dropped
  BY Zenon DEF Idle
<1>3. PlacesOK(queue, out, dropped', next') /\ FlitOK(next')
  BY <1>1, <1>2, ZenonT(60)
<1>4. Draining(cur_idx, queue, tail)
  BY <1>1, <1>2, <1>3, ZenonT(60) DEF Draining
<1>5. InTurn(out, exec_complete, queue, next')
  BY <1>2, Zenon DEF SInv, InTurn
<1>6. InTurn(out', exec_complete', queue', next')
  BY <1>4, <1>5, DrainInTurn, Zenon
<1> QED
  BY <1>2, <1>6, Zenon

\* Every call keeps the order of execution.
LEMMA NextInTurn ==
  ASSUME Inv, SInv, OrderGiven(txns), Fresh, [Next]_vars
  PROVE  SInv'
<1>1. CASE UNCHANGED vars
  <2>1. InTurn(out, exec_complete, queue, next)
    BY Zenon DEF SInv, InTurn
  <2> QED
    BY <1>1, <2>1, Zenon DEF vars, SInv, InTurn
<1>2. CASE Next
  <2>1. InTurn(out', exec_complete', queue', next') /\ txns' = txns
    BY <1>2, IdleInTurn, PassInTurn, ExecInTurn, BufferInTurn, AttachInTurn, ZenonT(60)
       DEF Next, Reads
  <2> QED
    BY <2>1, Zenon DEF SInv, InTurn
<1> QED
  BY <1>1, <1>2, Zenon

\* Initially nothing has executed and every count is 0.
LEMMA InitInTurn ==
  ASSUME Init
  PROVE  SInv
<1>1. /\ txns \in Orders /\ next = [txn |-> 1, k |-> 1] /\ out = << >>
      /\ queue = [i \in Ini |-> [s \in Slots |-> EmptySlot]]
      /\ exec_complete = [i \in Ini |-> TassnMod - 1]
  BY Zenon DEF Init
<1>2. /\ TassnMod \in Nat \ {0} /\ TassnMod - 1 \in Int /\ 0 - 1 = TassnMod * (0 - 1) + (TassnMod - 1)
      /\ 0 \in Nat /\ 0 - 1 \in Int /\ 0 .. 0 - 1 = {}
      /\ 0 <= TassnMod - 1 /\ TassnMod - 1 < TassnMod
  BY ConstantsAssumption
<1>3. (0 - 1) % TassnMod = TassnMod - 1
  BY <1>2, ModUnique, Zenon
<1>4. \A u : ~Ran(out, u)
  BY <1>1 DEF Ran, ExecsIn
<1>5. \A i \in Ini, s \in Slots : ~queue[i][s].valid_a
  <2>1. ~EmptySlot.valid_a
    BY Zenon DEF EmptySlot
  <2> QED
    BY <2>1, <1>1, Zenon
<1>6. exec_complete \in [Ini -> Int] /\ \A i \in Ini : exec_complete[i] = TassnMod - 1
  BY <1>1, <1>2
<1>7. \A i \in Ini : CountOK(txns, out, exec_complete, queue, i, 0)
  BY <1>2, <1>3, <1>4, <1>5, <1>6, ZenonT(60) DEF CountOK
<1>8. CountsOK(txns, out, exec_complete, queue)
  BY <1>2, <1>6, <1>7, ZenonT(60) DEF CountsOK
<1>9. \A u \in DOMAIN txns : u \in Nat \ {0}
  <2>1. txns \in Seq(Txn)
    BY <1>1, OrdersAssumption, ZenonT(60)
  <2> QED
    BY <2>1
<1>10. \A u \in DOMAIN txns : ~Arrived(u, next)
  BY <1>1, <1>9 DEF Arrived
<1>11. 1 .. Len(out) = {}
  BY <1>1
<1> QED
  BY <1>8, <1>10, <1>11, Zenon DEF SInv, OthersRan, TurnsOK

\* The places of the output are in order.
LEMMA TurnsInOrder ==
  ASSUME TypeOK, TurnsOK(txns, out)
  PROVE  SoInOrder
<1>1. SUFFICES ASSUME NEW j \in 1 .. Len(out), NEW t, t = out[j].txn,
                      out[j].k = 1, txns[t].rot, txns[t].exec = "SO",
                      NEW u \in DOMAIN txns, txns[u].ini = txns[t].ini,
                      txns[u].exec # "NO", txns[u].seq < txns[t].seq
               PROVE  u \in ExecutedBy(j - 1)
  BY Zenon DEF SoInOrder
<1>2. PICK x \in 1 .. j - 1 : out[x] = [txn |-> u, k |-> 1]
  BY <1>1, Zenon DEF TurnsOK, TurnOK
<1>3. out[x].txn = u /\ out[x].k = 1
  BY <1>2
<1> QED
  BY <1>2, <1>3, Zenon DEF ExecutedBy

\* The header's promise holds: an SO of service mode ROT is emitted only after
\* every RO and SO its initiator numbered before it, if an initiator gives
\* distinct numbers, sends its ROs and SOs of other service modes ahead of the
\* SOs numbered after them, and gives a TASSN again (or sends an RO) only when
\* the ones before have executed, which the code does not check.
THEOREM ExecutionOrder ==
  ASSUME \A o \in Orders : Distinct(o) /\ OthersFirst(o)
  PROVE  Spec /\ []Fresh => []SoInOrder
<1>1. Init => SInv
  BY InitInTurn, Zenon
<1>2. Inv /\ SInv /\ Fresh /\ [Next]_vars => SInv'
  <2>1. ASSUME Inv PROVE OrderGiven(txns)
    <3>1. txns \in Orders
      BY <2>1, Zenon DEF Inv, TypeOK
    <3>2. Numbers(txns)
      BY <3>1, TxnOf, Zenon DEF Numbers
    <3> QED
      BY <3>1, <3>2, Zenon DEF OrderGiven
  <2> QED
    BY <2>1, NextInTurn, Zenon
<1>3. Inv /\ SInv => SoInOrder
  BY TurnsInOrder, Zenon DEF Inv, SInv
<1> QED
  BY <1>1, <1>2, <1>3, Invariance, PTL DEF Spec
=============================================================================
