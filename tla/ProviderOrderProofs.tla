------------------------- MODULE ProviderOrderProofs -------------------------
(***************************************************************************)
(* The invariants of Provider that its theorems rest on, for any workload  *)
(* and any size of the rings and the queue: the types, the order in which  *)
(* requests, frames and receives are completed, what the frames under way  *)
(* say, and how request numbers are given out.  The theorems are in        *)
(* ProviderProofs.                                                         *)
(***************************************************************************)
EXTENDS Provider, TLAPS

USE SMTT(60)

-----------------------------------------------------------------------------
(* Small numbers: facts the proofs below cite by name.                     *)

\* Slots are numbers, a request number has a slot, and a ring whose head and
\* tail are the same is empty.
LEMMA SlotNumbers ==
  /\ (0 - 0) % MaxOut = 0
  /\ \A a \in Slots : (a - a) % MaxOut = 0
  /\ \A r \in Nat : r % MaxOut \in Slots
BY ConstantsAssumption DEF Slots

\* A number that has just been given out, and the one before it.
LEMMA JustBefore ==
  ASSUME NEW p \in Nat
  PROVE  /\ p \in Int /\ p - 1 \in Int /\ p + 1 \in Int /\ (p + 1) - 1 = p
         /\ p - 1 <= p /\ p <= p /\ p - 1 <= p - 1 /\ p <= p + 1 /\ p + 1 > 0 /\ (p - 1) + 1 = p
OBVIOUS

\* What follows a number is not up to it.
LEMMA NotUpto ==
  ASSUME NEW s \in Int, NEW p \in Int, s + 1 = p
  PROVE  ~(p <= s)
OBVIOUS

\* The frame a call queues, by its operation.
LEMMA SideTagIs ==
  ASSUME NEW op \in Opcode, op # "CAS"
  PROVE  SideTag(op) \in {"W", "R", "S"} /\ (SideTag(op) # "S" => HasReq(op))
BY DEF SideTag, Opcode, HasReq

-----------------------------------------------------------------------------
(* Sequences: what the proofs below use of them.                           *)

\* The empty sequence, and the only one without an element.
LEMMA EmptyIs ==
  ASSUME NEW T
  PROVE  /\ << >> \in Seq(T) /\ Len(<< >>) = 0
         /\ \A f \in Seq(T) : f # << >> => Len(f) \in Nat \ {0}
OBVIOUS

\* A sequence is empty just when its length is 0.
LEMMA EmptyLength ==
  ASSUME NEW T, NEW f \in Seq(T)
  PROVE  f = << >> <=> Len(f) = 0
OBVIOUS

\* The places of a sequence.
LEMMA PlacesOf ==
  ASSUME NEW T, NEW f \in Seq(T)
  PROVE  Len(f) \in Nat /\ DOMAIN f = 1 .. Len(f)
OBVIOUS

\* Sequences that agree at every place are the same.
LEMMA SameSequence ==
  ASSUME NEW T, NEW f \in Seq(T), NEW g \in Seq(T), Len(f) = Len(g), \A i \in 1 .. Len(f) : f[i] = g[i]
  PROVE  f = g
OBVIOUS

\* A sequence with another one after it.
LEMMA ConcatIs ==
  ASSUME NEW T, NEW f \in Seq(T), NEW g \in Seq(T)
  PROVE  /\ f \o g \in Seq(T) /\ Len(f \o g) = Len(f) + Len(g) /\ f \o << >> = f
         /\ \A i \in 1 .. Len(f) + Len(g) : (f \o g)[i] = IF i <= Len(f) THEN f[i] ELSE g[i - Len(f)]
OBVIOUS

\* Two parts of a sequence, cut after place n.
LEMMA CutIs ==
  ASSUME NEW T, NEW f \in Seq(T), NEW n \in 0 .. Len(f)
  PROVE  /\ SubSeq(f, 1, n) \in Seq(T) /\ SubSeq(f, n + 1, Len(f)) \in Seq(T)
         /\ SubSeq(f, 1, n) \o SubSeq(f, n + 1, Len(f)) = f
<1>1. PICK p, r : p = SubSeq(f, 1, n) /\ r = SubSeq(f, n + 1, Len(f))
  BY ZenonT(60)
<1>2. p \in Seq(T) /\ Len(p) = n /\ \A i \in 1 .. n : p[i] = f[i]
  BY <1>1
<1>3. r \in Seq(T) /\ Len(r) = Len(f) - n /\ \A i \in 1 .. Len(f) - n : r[i] = f[n + i]
  BY <1>1
<1>4. p \o r \in Seq(T) /\ Len(f) = Len(p \o r)
  BY <1>2, <1>3
<1>5. ASSUME NEW i \in 1 .. Len(f)
      PROVE  f[i] = (p \o r)[i]
  BY <1>2, <1>3
<1>6. f = p \o r
  BY <1>4, <1>5, SameSequence, ZenonT(60)
<1> QED
  BY <1>1, <1>2, <1>3, <1>6, ZenonT(60)

\* The first element, and the others.
LEMMA HeadTailIs ==
  ASSUME NEW T, NEW f \in Seq(T), f # << >>
  PROVE  /\ Head(f) \in T /\ Tail(f) \in Seq(T) /\ Len(Tail(f)) = Len(f) - 1
         /\ \A i \in 1 .. Len(Tail(f)) : Tail(f)[i] = f[i + 1]
OBVIOUS

\* A sequence with one element more.
LEMMA AppendIs ==
  ASSUME NEW T, NEW f \in Seq(T), NEW x \in T
  PROVE  /\ Append(f, x) \in Seq(T) /\ Append(f, x) # << >> /\ Len(Append(f, x)) = Len(f) + 1
         /\ \A i \in 1 .. Len(f) : Append(f, x)[i] = f[i]
         /\ Append(f, x)[Len(f) + 1] = x
OBVIOUS

-----------------------------------------------------------------------------
(* The ring of slots.                                                      *)

\* How many slots are in use, and the i-th of them, with the tail at t and the
\* head at h.
Gap(h, t) == (t - h) % MaxOut
Place(h, i) == (h + i) % MaxOut

\* The remainder is the only number in range that differs by a multiple.
LEMMA ModUnique ==
  ASSUME NEW k \in Int, NEW r \in Int, NEW S \in Nat \ {0}, 0 <= r, r < S
  PROVE  (S * k + r) % S = r
OBVIOUS

\* How far slot a is ahead of slot b.
LEMMA GapIs ==
  ASSUME NEW a \in Slots, NEW b \in Slots
  PROVE  /\ Gap(b, a) = IF b <= a THEN a - b ELSE a - b + MaxOut
         /\ Gap(b, a) \in Slots
<1>1. MaxOut \in Nat \ {0} /\ a \in Int /\ b \in Int /\ 0 <= a /\ a < MaxOut /\ 0 <= b /\ b < MaxOut
  BY ConstantsAssumption DEF Slots
<1>2. CASE b <= a
  <2>1. (MaxOut * 0 + (a - b)) % MaxOut = a - b
    BY <1>1, <1>2, ModUnique
  <2>2. MaxOut * 0 + (a - b) = a - b /\ a - b \in Slots
    BY <1>1, <1>2 DEF Slots
  <2> QED
    BY <2>1, <2>2, <1>2, ZenonT(60) DEF Gap
<1>3. CASE ~(b <= a)
  <2>1. (MaxOut * (-1) + (a - b + MaxOut)) % MaxOut = a - b + MaxOut
    BY <1>1, <1>3, ModUnique
  <2>2. MaxOut * (-1) + (a - b + MaxOut) = a - b /\ a - b + MaxOut \in Slots
    BY <1>1, <1>3 DEF Slots
  <2> QED
    BY <2>1, <2>2, <1>3, ZenonT(60) DEF Gap
<1> QED
  BY <1>2, <1>3, ZenonT(60)

\* The slot i places after slot a, for up to a turn of the ring.
LEMMA PlaceIs ==
  ASSUME NEW a \in Slots, NEW i \in 0 .. MaxOut
  PROVE  /\ Place(a, i) = IF a + i < MaxOut THEN a + i ELSE a + i - MaxOut
         /\ Place(a, i) \in Slots
<1>1. MaxOut \in Nat \ {0} /\ a \in Int /\ i \in Int /\ 0 <= a /\ a < MaxOut /\ 0 <= i /\ i <= MaxOut
  BY ConstantsAssumption DEF Slots
<1>2. CASE a + i < MaxOut
  <2>1. (MaxOut * 0 + (a + i)) % MaxOut = a + i
    BY <1>1, <1>2, ModUnique
  <2>2. MaxOut * 0 + (a + i) = a + i /\ a + i \in Slots
    BY <1>1, <1>2 DEF Slots
  <2> QED
    BY <2>1, <2>2, <1>2, ZenonT(60) DEF Place
<1>3. CASE ~(a + i < MaxOut)
  <2>1. (MaxOut * 1 + (a + i - MaxOut)) % MaxOut = a + i - MaxOut
    BY <1>1, <1>3, ModUnique
  <2>2. MaxOut * 1 + (a + i - MaxOut) = a + i /\ a + i - MaxOut \in Slots
    BY <1>1, <1>3 DEF Slots
  <2> QED
    BY <2>1, <2>2, <1>3, ZenonT(60) DEF Place
<1> QED
  BY <1>2, <1>3, ZenonT(60)

\* The i-th slot in use is i ahead of the head.
LEMMA PlaceGap ==
  ASSUME NEW h \in Slots, NEW i \in Slots
  PROVE  Place(h, i) \in Slots /\ Gap(h, Place(h, i)) = i
<1>1. PICK s : s = Place(h, i)
  BY ZenonT(60)
<1>2. h \in 0 .. MaxOut - 1 /\ i \in 0 .. MaxOut - 1 /\ MaxOut \in Nat \ {0} /\ i \in 0 .. MaxOut
  BY ConstantsAssumption DEF Slots
<1>3. s \in Slots /\ s = IF h + i < MaxOut THEN h + i ELSE h + i - MaxOut
  BY <1>1, <1>2, PlaceIs, ZenonT(60)
<1>4. Gap(h, s) = IF h <= s THEN s - h ELSE s - h + MaxOut
  BY <1>3, GapIs, ZenonT(60)
<1>5. Gap(h, s) = i
  BY <1>2, <1>3, <1>4
<1> QED
  BY <1>1, <1>3, <1>5, ZenonT(60)

\* Slot s is as many places after the head as it is ahead of it.
LEMMA GapPlace ==
  ASSUME NEW h \in Slots, NEW s \in Slots
  PROVE  Gap(h, s) \in Slots /\ Place(h, Gap(h, s)) = s
<1>1. PICK i : i = Gap(h, s)
  BY ZenonT(60)
<1>2. h \in 0 .. MaxOut - 1 /\ s \in 0 .. MaxOut - 1 /\ MaxOut \in Nat \ {0}
  BY ConstantsAssumption DEF Slots
<1>3. i \in Slots /\ i = IF h <= s THEN s - h ELSE s - h + MaxOut
  BY <1>1, GapIs, ZenonT(60)
<1>4. i \in 0 .. MaxOut
  BY <1>2, <1>3 DEF Slots
<1>5. Place(h, i) = IF h + i < MaxOut THEN h + i ELSE h + i - MaxOut
  BY <1>4, PlaceIs, ZenonT(60)
<1>6. Place(h, i) = s
  BY <1>2, <1>3, <1>5
<1> QED
  BY <1>1, <1>3, <1>6, ZenonT(60)

\* A slot more is in use.
LEMMA RingGrows ==
  ASSUME NEW h \in Slots, NEW t \in Slots, Succ(t) # h
  PROVE  Succ(t) \in Slots /\ Gap(h, Succ(t)) = Gap(h, t) + 1
<1>1. PICK u : u = Succ(t)
  BY ZenonT(60)
<1>2. MaxOut \in Nat \ {0} /\ h \in 0 .. MaxOut - 1 /\ t \in 0 .. MaxOut - 1 /\ 1 \in 0 .. MaxOut
  BY ConstantsAssumption DEF Slots
<1>3. u \in Slots /\ u = IF t + 1 < MaxOut THEN t + 1 ELSE t + 1 - MaxOut
  BY <1>1, <1>2, PlaceIs, ZenonT(60) DEF Succ, Place
<1>4. /\ Gap(h, t) = IF h <= t THEN t - h ELSE t - h + MaxOut
      /\ Gap(h, u) = IF h <= u THEN u - h ELSE u - h + MaxOut
  BY <1>3, GapIs, ZenonT(60)
<1>5. u # h
  BY <1>1, ZenonT(60)
<1>6. Gap(h, u) = Gap(h, t) + 1
  BY <1>2, <1>3, <1>4, <1>5
<1> QED
  BY <1>1, <1>3, <1>6, ZenonT(60)

\* The slot before the tail is the last in use.
LEMMA RingLast ==
  ASSUME NEW h \in Slots, NEW t \in Slots, Gap(h, t) > 0
  PROVE  (t + MaxOut - 1) % MaxOut = Place(h, Gap(h, t) - 1)
<1>1. PICK n : n = Gap(h, t)
  BY ZenonT(60)
<1>0. MaxOut \in Nat \ {0} /\ h \in 0 .. MaxOut - 1 /\ t \in 0 .. MaxOut - 1
  BY ConstantsAssumption DEF Slots
<1>2. n > 0 /\ n = IF h <= t THEN t - h ELSE t - h + MaxOut
  BY <1>1, GapIs, ZenonT(60)
<1>3. n - 1 \in 0 .. MaxOut /\ MaxOut - 1 \in 0 .. MaxOut /\ t + MaxOut - 1 = t + (MaxOut - 1)
  BY <1>0, <1>2
<1>4. /\ Place(h, n - 1) = IF h + (n - 1) < MaxOut THEN h + (n - 1) ELSE h + (n - 1) - MaxOut
      /\ Place(t, MaxOut - 1) = IF t + (MaxOut - 1) < MaxOut THEN t + (MaxOut - 1) ELSE t + (MaxOut - 1) - MaxOut
  BY <1>3, PlaceIs, ZenonT(60)
<1>5. Place(h, n - 1) = Place(t, MaxOut - 1)
  BY <1>0, <1>2, <1>4
<1> QED
  BY <1>1, <1>3, <1>5, ZenonT(60) DEF Place

\* The first k slots in use are given back.
LEMMA RingShrinks ==
  ASSUME NEW h \in Slots, NEW t \in Slots, NEW k \in 0 .. Gap(h, t)
  PROVE  /\ Place(h, k) \in Slots
         /\ Gap(Place(h, k), t) = Gap(h, t) - k
         /\ \A i \in 0 .. Gap(h, t) - k : Place(Place(h, k), i) = Place(h, k + i)
<1>1. PICK n, g : n = Gap(h, t) /\ g = Place(h, k)
  BY ZenonT(60)
<1>0. MaxOut \in Nat \ {0} /\ h \in 0 .. MaxOut - 1 /\ t \in 0 .. MaxOut - 1
  BY ConstantsAssumption DEF Slots
<1>a. k \in 0 .. n /\ n \in Slots /\ n = IF h <= t THEN t - h ELSE t - h + MaxOut
  BY <1>1, GapIs, ZenonT(60)
<1>2. /\ MaxOut \in Nat \ {0} /\ h \in 0 .. MaxOut - 1 /\ t \in 0 .. MaxOut - 1
      /\ n = IF h <= t THEN t - h ELSE t - h + MaxOut
      /\ n \in 0 .. MaxOut - 1
  BY <1>0, <1>a, ZenonT(60) DEF Slots
<1>3. k \in 0 .. n /\ k \in 0 .. MaxOut
  BY <1>0, <1>a DEF Slots
<1>4. g \in Slots /\ g = IF h + k < MaxOut THEN h + k ELSE h + k - MaxOut
  BY <1>1, <1>3, PlaceIs, ZenonT(60)
<1>5. Gap(g, t) = IF g <= t THEN t - g ELSE t - g + MaxOut
  BY <1>4, GapIs, ZenonT(60)
<1>6. Gap(g, t) = n - k
  BY <1>2, <1>3, <1>4, <1>5
<1>7. ASSUME NEW i \in 0 .. n - k
      PROVE  Place(g, i) = Place(h, k + i)
  <2>1. i \in 0 .. MaxOut /\ k + i \in 0 .. MaxOut
    BY <1>2, <1>3
  <2>2. /\ Place(g, i) = IF g + i < MaxOut THEN g + i ELSE g + i - MaxOut
        /\ Place(h, k + i) = IF h + (k + i) < MaxOut THEN h + (k + i) ELSE h + (k + i) - MaxOut
    BY <2>1, <1>4, PlaceIs, ZenonT(60)
  <2> QED
    BY <2>1, <2>2, <1>2, <1>3, <1>4
<1> QED
  BY <1>1, <1>4, <1>6, <1>7, ZenonT(60)

-----------------------------------------------------------------------------
(* The types of the state.                                                 *)

Slot == [wr : Nat, op : Opcode, req : Nat, waited : Nat, status : Status]
Pend == [valid : BOOLEAN, req : Nat, status : Status]
Frames == [tag : {"W", "R", "S", "A", "r", "-"}, wr : Nat, req : Nat, status : Status]
Finish == [wr : Nat, op : Opcode, status : Status]
Receipt == [wr : Nat, recv : Nat]
Thread == [pc : {"idle", "record", "send", "fail", "pump", "poll"}, op : Opcode, req : Nat,
           cqe : Nat, werr : BOOLEAN]

\* A set of numbers that is not empty has a first one.  (Proved at the end, where
\* the theorems about well-founded relations are brought in.)
FirstOf == \A T \in SUBSET Nat : T # {} => \E x \in T : \A y \in T : x <= y

RingTypes ==
  /\ FirstOf
  /\ out \in [Slots -> Slot] /\ outh \in Slots /\ outt \in Slots /\ pend \in [Slots -> Pend]
NicTypes ==
  /\ tx_q \in Seq(Frames) /\ batch \in Seq(Frames) /\ wire \in [Node -> Seq(Frames)]
  /\ arg \in Frames /\ fatal \in BOOLEAN /\ bg \in {"recv", "send", "cb"}
AppTypes ==
  /\ app \in Thread /\ (app.pc = "send" => app.op # "CAS")
  /\ ctx \in {"live", "closing", "freed"} /\ cb \in BOOLEAN
  /\ opens \in Nat /\ base \in Nat /\ req_seq \in Nat /\ tries \in Nat /\ posted \in Nat
ComplTypes ==
  /\ jfc \in [Node -> Seq(Finish) \cup Seq(Receipt)]
  /\ delivered \in [Node -> Seq(Finish) \cup Seq(Receipt)]
  /\ jfc["A"] \in Seq(Finish) /\ delivered["A"] \in Seq(Finish)
  /\ jfc["B"] \in Seq(Receipt) /\ delivered["B"] \in Seq(Receipt)
RestTypes ==
  rq \in Seq(Nat) /\ recvs \in Nat /\ landed \subseteq Nat /\ fetched \subseteq Nat

\* The type invariant of the module.
Types == RingTypes /\ NicTypes /\ AppTypes /\ ComplTypes /\ RestTypes

\* The requests in use, and where they are.
LEMMA RingPlaces ==
  ASSUME RingTypes
  PROVE  /\ Outstanding = Gap(outh, outt) /\ Outstanding \in Slots /\ Outstanding \in Nat
         /\ MaxOut \in Nat \ {0} /\ Outstanding < MaxOut
         /\ \A i \in Slots : Nth(i) = Place(outh, i) /\ Nth(i) \in Slots
         /\ \A i \in 0 .. Outstanding : i \in Slots
<1>1. outh \in Slots /\ outt \in Slots
  BY ZenonT(60) DEF RingTypes
<1>2. Outstanding = Gap(outh, outt) /\ \A i : Nth(i) = Place(outh, i)
  BY ZenonT(60) DEF Outstanding, Gap, Nth, Place
<1>3. PICK n : n = Outstanding
  BY ZenonT(60)
<1>4. n \in Slots
  BY <1>1, <1>2, <1>3, GapIs, ZenonT(60)
<1>5. n \in Nat /\ n < MaxOut /\ MaxOut \in Nat \ {0} /\ \A i \in 0 .. n : i \in Slots
  BY <1>4, ConstantsAssumption DEF Slots
<1> QED
  BY <1>1, <1>2, <1>3, <1>4, <1>5, PlaceGap, ZenonT(60)

\* The loop of ou_poll_jfc stops: at the first request that it cannot complete.
LEMMA CompletedIs ==
  ASSUME RingTypes
  PROVE  /\ Completed \in 0 .. Outstanding
         /\ \A i \in 0 .. Completed - 1 : Completes(i)
<1>1. PICK n : n = Outstanding
  BY ZenonT(60)
<1>2. n \in Nat
  BY <1>1, RingPlaces, ZenonT(60)
<1>3. PICK T : T = {k \in 0 .. n : k < n => ~Completes(k)}
  BY ZenonT(60)
<1>4. n \in T /\ T \subseteq Nat
  BY <1>2, <1>3
<1>5. PICK k \in T : \A y \in T : k <= y
  BY <1>4, ZenonT(60) DEF RingTypes, FirstOf
<1>6. k \in 0 .. n /\ (k < n => ~Completes(k))
  BY <1>3, <1>5, ZenonT(60)
<1>7. ASSUME NEW i \in 0 .. k - 1
      PROVE  Completes(i)
  <2>1. i \in 0 .. n /\ i < n /\ ~(k <= i)
    BY <1>2, <1>6
  <2> QED
    BY <2>1, <1>3, <1>5, ZenonT(60)
<1>8. \E j \in 0 .. Outstanding : (\A i \in 0 .. j - 1 : Completes(i)) /\ (j < Outstanding => ~Completes(j))
  BY <1>1, <1>6, <1>7, ZenonT(60)
<1> QED
  BY <1>8, ZenonT(60) DEF Completed

\* The slot of a request with its answer.
Told(o, st) == [o EXCEPT !.status = st, !.req = 0]

\* An answer changes the status, and nothing is waited for any more.
LEMMA ToldIs ==
  ASSUME NEW o \in Slot, NEW st \in Status
  PROVE  /\ Told(o, st) \in Slot
         /\ Told(o, st).wr = o.wr /\ Told(o, st).op = o.op
         /\ Told(o, st).req = 0 /\ Told(o, st).status = st
BY ZenonT(60) DEF Told, Slot

\* A poll counts.
LEMMA WaitedIs ==
  ASSUME NEW o \in Slot, NEW b \in BOOLEAN
  PROVE  LET p == [o EXCEPT !.waited = IF b THEN @ + 1 ELSE @] IN
         p \in Slot /\ p.wr = o.wr /\ p.op = o.op /\ p.req = o.req /\ p.status = o.status
<1>1. PICK w : w = IF b THEN o.waited + 1 ELSE o.waited
  BY ZenonT(60)
<1>2. w \in Nat
  BY <1>1 DEF Slot
<1>3. LET p == [o EXCEPT !.waited = w] IN
      p \in Slot /\ p.wr = o.wr /\ p.op = o.op /\ p.req = o.req /\ p.status = o.status
  BY <1>2, ZenonT(60) DEF Slot
<1> QED
  BY <1>1, <1>3, ZenonT(60)

\* An answer, or a failed send, changes one slot.
LEMMA SlotWritten ==
  ASSUME NEW s \in Slots, NEW st \in Status, RingTypes
  PROVE  /\ [out EXCEPT ![s].status = st, ![s].req = 0] = [out EXCEPT ![s] = Told(out[s], st)]
         /\ [out EXCEPT ![s] = [@ EXCEPT !.status = st, !.req = 0]] = [out EXCEPT ![s] = Told(out[s], st)]
         /\ [out EXCEPT ![s] = Told(out[s], st)] \in [Slots -> Slot]
<1>1. out \in [Slots -> Slot] /\ out[s] \in Slot
  BY ZenonT(60) DEF RingTypes
<1>2. Told(out[s], st) \in Slot
  BY <1>1, ToldIs, ZenonT(60)
<1>3. [out EXCEPT ![s].status = st, ![s].req = 0] = [out EXCEPT ![s] = Told(out[s], st)]
  BY <1>1, ZenonT(60) DEF Told
<1>4. [out EXCEPT ![s] = [@ EXCEPT !.status = st, !.req = 0]] = [out EXCEPT ![s] = Told(out[s], st)]
  BY <1>1, ZenonT(60) DEF Told
<1>5. [out EXCEPT ![s] = Told(out[s], st)] \in [Slots -> Slot]
  BY <1>1, <1>2
<1> QED
  BY <1>3, <1>4, <1>5, ZenonT(60)

\* A slot as the poll sees it: as it is, or with an error or an answer.
LEMMA SettledIs ==
  ASSUME NEW s \in Slots, RingTypes, AppTypes
  PROVE  /\ out[s] \in Slot
         /\ \/ app.werr /\ Settled(s) = Told(out[s], "timeout")
            \/ /\ ~app.werr /\ EarlyAck(s)
               /\ \E st \in Status : Settled(s) = Told(out[s], st)
            \/ ~app.werr /\ ~EarlyAck(s) /\ Settled(s) = out[s]
<1>1. out[s] \in Slot /\ out[s].req \in Nat
  BY ZenonT(60) DEF RingTypes, Slot
<1>2. PICK p : p = out[s].req % MaxOut
  BY ZenonT(60)
<1>3. p \in Slots
  BY <1>2, <1>1, ConstantsAssumption DEF Slots
<1>4. pend[p].status \in Status
  BY <1>3, ZenonT(60) DEF RingTypes, Pend
<1> QED
  BY <1>1, <1>2, <1>4, ZenonT(60) DEF Settled, Told

\* It keeps its request, and is a slot.
LEMMA SettledType ==
  ASSUME NEW s \in Slots, RingTypes, AppTypes
  PROVE  Settled(s) \in Slot /\ Settled(s).wr = out[s].wr /\ Settled(s).op = out[s].op
<1>1. "timeout" \in Status
  BY ZenonT(60) DEF Status
<1>2. out[s] \in Slot /\ \E st \in Status : Settled(s) = out[s] \/ Settled(s) = Told(out[s], st)
  BY <1>1, SettledIs, ZenonT(60)
<1>3. PICK st \in Status : Settled(s) = out[s] \/ Settled(s) = Told(out[s], st)
  BY <1>2, ZenonT(60)
<1>4. PICK o : o = Settled(s)
  BY ZenonT(60)
<1>5. PICK p : p = Told(out[s], st)
  BY ZenonT(60)
<1>6. p \in Slot /\ p.wr = out[s].wr /\ p.op = out[s].op
  BY <1>2, <1>5, ToldIs, ZenonT(60)
<1>7. CASE o = p
  BY <1>4, <1>6, <1>7, ZenonT(60)
<1>8. CASE o = out[s]
  BY <1>2, <1>4, <1>8, ZenonT(60)
<1> QED
  BY <1>3, <1>4, <1>5, <1>7, <1>8, ZenonT(60)

\* The poll leaves a slot as it was or as it sees it, but for the polls it has
\* waited for.
LEMMA PolledIs ==
  ASSUME NEW s \in Slots, RingTypes, AppTypes
  PROVE  /\ Polled(s) \in Slot /\ Polled(s).wr = out[s].wr /\ Polled(s).op = out[s].op
         /\ \/ Polled(s) = out[s]
            \/ Polled(s).req = Settled(s).req /\ Polled(s).status = Settled(s).status
<1>1. PICK o, i : o = Settled(s) /\ i = (s - outh) % MaxOut
  BY ZenonT(60)
<1>2. o \in Slot /\ o.wr = out[s].wr /\ o.op = out[s].op
  BY <1>1, SettledType, ZenonT(60)
<1>3. PICK b \in BOOLEAN : b <=> Answered(s) /\ ~Signalled(i)
  BY ZenonT(60)
<1>4. PICK p : p = [o EXCEPT !.waited = IF b THEN @ + 1 ELSE @]
  BY ZenonT(60)
<1>5. p \in Slot /\ p.wr = o.wr /\ p.op = o.op /\ p.req = o.req /\ p.status = o.status
  BY <1>2, <1>3, <1>4, WaitedIs, ZenonT(60)
<1>6. p = [Settled(s) EXCEPT !.waited = IF Answered(s) /\ ~Signalled(i) THEN @ + 1 ELSE @]
  BY <1>1, <1>3, <1>4, ZenonT(60)
<1>7. Polled(s) = out[s] \/ Polled(s) = p
  BY <1>1, <1>6, ZenonT(60) DEF Polled
<1>8. out[s] \in Slot
  BY SettledIs, ZenonT(60)
<1> QED
  BY <1>1, <1>2, <1>5, <1>7, <1>8, ZenonT(60)

-----------------------------------------------------------------------------
(* The types are kept.                                                     *)

\* The oldest request of opcode op that waits for answer req is in the ring.
OldestAt(op, req) ==
  \E j \in 0 .. Outstanding - 1 :
    j \in Slots /\ Oldest(Waiting(op, req)) = Nth(j) /\ out[Nth(j)].op = op /\ out[Nth(j)].req = req

\* The first slot that waits for an answer.
LEMMA OldestIs ==
  ASSUME RingTypes, NEW op, NEW req, Waiting(op, req) # {}
  PROVE  Oldest(Waiting(op, req)) \in Slots /\ OldestAt(op, req)
<1>1. PICK w, n : w = Waiting(op, req) /\ n = Outstanding
  BY ZenonT(60)
<1>2. /\ n \in Nat /\ \A i \in 0 .. n : i \in Slots
      /\ \A i \in w : i \in 0 .. n - 1 /\ out[Nth(i)].op = op /\ out[Nth(i)].req = req
  BY <1>1, RingPlaces, ZenonT(60) DEF Waiting
<1>3. w \subseteq Nat /\ \A i \in w : i \in 0 .. n
  BY <1>2
<1>4. \E x \in w : \A y \in w : x <= y
  BY <1>1, <1>3, ZenonT(60) DEF RingTypes, FirstOf
<1>5. PICK j \in w : Oldest(w) = Nth(j)
  BY <1>4, ZenonT(60) DEF Oldest
<1>6. j \in 0 .. n - 1 /\ j \in Slots /\ out[Nth(j)].op = op /\ out[Nth(j)].req = req
  BY <1>2, <1>3, <1>5, ZenonT(60)
<1>7. Nth(j) \in Slots
  BY <1>6, RingPlaces, ZenonT(60)
<1> QED
  BY <1>1, <1>5, <1>6, <1>7, ZenonT(60) DEF OldestAt

\* The slots and the early answers.
LEMMA RingTypesKept ==
  ASSUME Types, Next
  PROVE  RingTypes'
<1>1. /\ RingTypes /\ AppTypes /\ NicTypes /\ MaxOut \in Nat \ {0} /\ 0 \in Slots
      /\ out \in [Slots -> Slot] /\ outh \in Slots /\ outt \in Slots /\ pend \in [Slots -> Pend]
  BY ConstantsAssumption DEF Types, RingTypes, Slots
<1>2. /\ "timeout" \in Status /\ "ok" \in Status /\ NoPend \in Pend /\ NoSlot \in Slot
  BY DEF Status, NoPend, Pend, NoSlot, Slot, Opcode
<1>3. ASSUME UNCHANGED ringVars
      PROVE  RingTypes'
  BY <1>1, <1>3, ZenonT(60) DEF ringVars, RingTypes
<1>4. ASSUME PostRecord
      PROVE  RingTypes'
  <2>1. PICK o : o = [wr |-> posted + 1, op |-> app.op, req |-> app.req, waited |-> 0, status |-> out[outt].status]
    BY ZenonT(60)
  <2>2. o \in Slot
    BY <2>1, <1>1 DEF Slot, AppTypes, Thread
  <2>3. out' = [out EXCEPT ![outt] = o] /\ outh' = outh /\ pend' = pend /\ outt' = Succ(outt)
    BY <1>4, <2>1, ZenonT(60) DEF PostRecord
  <2>4. out' \in [Slots -> Slot] /\ Succ(outt) \in Slots
    BY <2>2, <2>3, <1>1 DEF Succ, Slots
  <2> QED
    BY <2>3, <2>4, <1>1, ZenonT(60) DEF RingTypes
<1>5. ASSUME PostFail
      PROVE  RingTypes'
  <2>1. PICK s : s = (outt + MaxOut - 1) % MaxOut
    BY ZenonT(60)
  <2>2. s \in Slots
    BY <2>1, <1>1 DEF Slots
  <2>3. out' = [out EXCEPT ![s] = [@ EXCEPT !.status = "timeout", !.req = 0]] /\ UNCHANGED <<outh, outt, pend>>
    BY <1>5, <2>1, ZenonT(60) DEF PostFail
  <2> QED
    BY <2>2, <2>3, <1>1, <1>2, SlotWritten, ZenonT(60) DEF RingTypes
<1>6. ASSUME PollComplete
      PROVE  RingTypes'
  <2>1. out' = [s \in Slots |-> Polled(s)] /\ outh' = Nth(Completed) /\ outt' = outt
    BY <1>6, ZenonT(60) DEF PollComplete
  <2>2. out' \in [Slots -> Slot]
    BY <2>1, <1>1, PolledIs, ZenonT(60)
  <2>3. outh' \in Slots
    BY <2>1, <1>1, RingPlaces, CompletedIs, ZenonT(60)
  <2>4. PICK P : P = {p \in Slots : ~app.werr /\ \E i \in 0 .. Outstanding - 1 :
                        i <= Completed /\ EarlyAck(Nth(i)) /\ out[Nth(i)].req % MaxOut = p}
    BY ZenonT(60)
  <2>5. pend' = [p \in Slots |-> IF p \in P THEN NoPend ELSE pend[p]]
    BY <1>6, <2>4, ZenonT(60) DEF PollComplete
  <2>6. pend' \in [Slots -> Pend]
    BY <2>5, <1>1, <1>2, ZenonT(60)
  <2> QED
    BY <2>1, <2>2, <2>3, <2>6, <1>1, ZenonT(60) DEF RingTypes
<1>7. ASSUME CreateContext
      PROVE  RingTypes'
  BY <1>7, <1>1, <1>2, ZenonT(60) DEF CreateContext, RingTypes
<1>8. ASSUME NEW op, Waiting(op, arg.req) # {}, Answer(Oldest(Waiting(op, arg.req))),
             UNCHANGED <<outh, outt, pend>>
      PROVE  RingTypes'
  <2>2. PICK s : s = Oldest(Waiting(op, arg.req))
    BY ZenonT(60)
  <2>3. s \in Slots /\ Answer(s)
    BY <2>2, <1>1, <1>8, OldestIs, ZenonT(60)
  <2>4. arg.status \in Status
    BY <1>1, ZenonT(60) DEF NicTypes, Frames
  <2>5. out' \in [Slots -> Slot]
    BY <2>3, <2>4, <1>1, SlotWritten, ZenonT(60) DEF Answer
  <2> QED
    BY <2>5, <1>1, <1>8, ZenonT(60) DEF RingTypes
<1>9. ASSUME OnWriteAck
      PROVE  RingTypes'
  <2>1. CASE Waiting("WRITE", arg.req) # {}
    BY <2>1, <1>8, <1>9, ZenonT(60) DEF OnWriteAck
  <2>2. CASE ~(Waiting("WRITE", arg.req) # {})
    <3>1. PICK q, e : q = arg.req % MaxOut /\ e = [valid |-> TRUE, req |-> arg.req, status |-> arg.status]
      BY ZenonT(60)
    <3>2. arg.req \in Nat /\ arg.status \in Status
      BY <1>1, ZenonT(60) DEF NicTypes, Frames
    <3>3. q \in Slots /\ e \in Pend
      BY <3>1, <3>2, <1>1 DEF Slots, Pend
    <3>4. pend' = [pend EXCEPT ![q] = e] /\ UNCHANGED <<out, outh, outt>>
      BY <3>1, <2>2, <1>9, ZenonT(60) DEF OnWriteAck
    <3>5. pend' \in [Slots -> Pend]
      BY <3>3, <3>4, <1>1
    <3> QED
      BY <3>4, <3>5, <1>1, ZenonT(60) DEF RingTypes
  <2> QED
    BY <2>1, <2>2, ZenonT(60)
<1>10. ASSUME OnReadRsp
       PROVE  RingTypes'
  <2>1. CASE Waiting("READ", arg.req) # {}
    BY <2>1, <1>8, <1>10, ZenonT(60) DEF OnReadRsp
  <2>2. CASE ~(Waiting("READ", arg.req) # {})
    BY <2>2, <1>3, <1>10, ZenonT(60) DEF OnReadRsp, ringVars
  <2> QED
    BY <2>1, <2>2, ZenonT(60)
<1>11. ASSUME \/ \E op \in Opcode : PostStart(op)
              \/ PostSend \/ PostPump \/ PollStart \/ PostRecv \/ PollRecv \/ DeleteContext \/ ReleaseNic
              \/ BgSwap \/ BgSend \/ BgSendFails \/ BgRecv \/ OnWrite \/ OnReadReq \/ OnSend
       PROVE  UNCHANGED ringVars
  BY <1>11, ZenonT(60) DEF PostStart, PostSend, PostPump, PollStart, PostRecv, PollRecv, DeleteContext, ReleaseNic,
       BgSwap, BgSend, BgSendFails, BgRecv, OnWrite, OnReadReq, OnSend, ringVars
<1> QED
  BY <1>3, <1>4, <1>5, <1>6, <1>7, <1>9, <1>10, <1>11, ZenonT(60) DEF Next, Post, Poll, Bg, BgPeer

\* Both ends of the wire have a queue of frames.
LEMMA WireType ==
  ASSUME NicTypes
  PROVE  wire["A"] \in Seq(Frames) /\ wire["B"] \in Seq(Frames) /\ "A" \in Node /\ "B" \in Node
BY DEF NicTypes, Node

\* The first frame is taken, and one that answers it is on the way back.
ReplyFrames(ask, tag, valid) ==
  \E f \in Frames, g \in Frames :
    /\ f = Head(wire["B"]) /\ wire["B"] # << >> /\ f.tag = ask
    /\ g.tag = tag /\ g.wr = f.wr /\ g.req = f.req /\ g.status = IF valid THEN "ok" ELSE "abort"
    /\ wire'["B"] = Tail(wire["B"]) /\ wire'["A"] = Append(wire["A"], g)

\* The answer of B takes the first frame and puts one on the way back.
LEMMA ReplyIs ==
  ASSUME NicTypes, NEW tag \in {"A", "r"}, NEW valid \in BOOLEAN, NEW ask \in {"W", "R"}, Arrives(ask), Reply(tag, valid)
  PROVE  ReplyFrames(ask, tag, valid) /\ wire' \in [Node -> Seq(Frames)]
<1>1. PICK f : f = Head(wire["B"])
  BY ZenonT(60)
<1>2. PICK g : g = Frame(tag, f.wr, f.req, IF valid THEN "ok" ELSE "abort")
  BY ZenonT(60)
<1>3. wire["B"] # << >> /\ f.tag = ask /\ wire["A"] \in Seq(Frames) /\ wire["B"] \in Seq(Frames)
  BY <1>1, WireType, ZenonT(60) DEF Arrives
<1>4. f \in Frames /\ Tail(wire["B"]) \in Seq(Frames)
  BY <1>1, <1>3, HeadTailIs, ZenonT(60)
<1>5. g \in Frames /\ g.tag = tag /\ g.wr = f.wr /\ g.req = f.req /\ g.status = IF valid THEN "ok" ELSE "abort"
  BY <1>2, <1>4 DEF Frame, Frames, Status
<1>6. wire' = [B |-> Tail(wire["B"]), A |-> Append(wire["A"], g)]
  BY <1>1, <1>2, ZenonT(60) DEF Reply
<1>7. PICK a, b : a = Append(wire["A"], g) /\ b = Tail(wire["B"])
  BY ZenonT(60)
<1>8. a \in Seq(Frames) /\ b \in Seq(Frames)
  BY <1>3, <1>4, <1>5, <1>7, AppendIs, ZenonT(60)
<1>9. wire' = [B |-> b, A |-> a]
  BY <1>6, <1>7, ZenonT(60)
<1>10. wire'["B"] = b /\ wire'["A"] = a /\ wire' \in [Node -> Seq(Frames)]
  BY <1>8, <1>9 DEF Node
<1> QED
  BY <1>1, <1>3, <1>4, <1>5, <1>7, <1>10, ZenonT(60) DEF ReplyFrames

\* The queue, the frames on the way and the background thread.
LEMMA NicTypesKept ==
  ASSUME Types, Next, BgSend => batch # << >>
  PROVE  NicTypes'
<1>1. /\ NicTypes /\ tx_q \in Seq(Frames) /\ batch \in Seq(Frames) /\ wire \in [Node -> Seq(Frames)]
      /\ arg \in Frames /\ fatal \in BOOLEAN /\ bg \in {"recv", "send", "cb"}
      /\ AppTypes
  BY ZenonT(60) DEF Types, NicTypes
<1>2. /\ "ok" \in Status /\ NoFrame \in Frames /\ << >> \in Seq(Frames)
      /\ wire["A"] \in Seq(Frames) /\ wire["B"] \in Seq(Frames) /\ "A" \in Node /\ "B" \in Node
  BY <1>1, WireType DEF Status, NoFrame, Frame, Frames
<1>3. ASSUME \/ \E op \in Opcode : PostStart(op)
             \/ PostRecord \/ PostFail \/ PollComplete \/ PostRecv \/ PollRecv
             \/ DeleteContext \/ ReleaseNic \/ CreateContext
      PROVE  NicTypes'
  <2>1. UNCHANGED <<nicVars, threadVars>>
    BY <1>3, ZenonT(60) DEF PostStart, PostRecord, PostFail, PollComplete, PostRecv, PollRecv, DeleteContext, ReleaseNic, CreateContext
  <2> QED
    BY <2>1, <1>1, ZenonT(60) DEF NicTypes, nicVars, threadVars
<1>4. ASSUME PostSend
      PROVE  NicTypes'
  <2>1. PICK tag, f : tag = SideTag(app.op) /\ f = Frame(tag, posted, app.req, "ok")
    BY ZenonT(60)
  <2>2. /\ app.op \in {"WRITE", "WRITE_IMM", "READ", "SEND"} /\ app.req \in Nat /\ posted \in Nat
    BY <1>1, <1>4, ZenonT(60) DEF AppTypes, Thread, Opcode, PostSend
  <2>3. tag \in {"W", "R", "S"}
    BY <2>1, <2>2 DEF SideTag
  <2>4. f \in Frames
    BY <2>1, <2>2, <2>3, <1>2 DEF Frame, Frames
  <2>5. DataSend(f) /\ UNCHANGED <<fatal, threadVars>>
    BY <1>4, <2>1, ZenonT(60) DEF PostSend
  <2>6. Append(tx_q, f) \in Seq(Frames)
    BY <2>4, <1>1, AppendIs
  <2>7. tx_q' \in Seq(Frames)
    BY <2>5, <2>6, <1>1, ZenonT(60) DEF DataSend
  <2> QED
    BY <2>5, <2>7, <1>1, ZenonT(60) DEF NicTypes, threadVars
<1>5. ASSUME PostPump \/ PollStart
      PROVE  NicTypes'
  <2>1. Pump /\ UNCHANGED <<tx_q, threadVars>>
    BY <1>5, ZenonT(60) DEF PostPump, PollStart
  <2>2. fatal' \in BOOLEAN
    BY <2>1, <1>1, ZenonT(60) DEF Pump, WireFails
  <2> QED
    BY <2>1, <2>2, <1>1, ZenonT(60) DEF NicTypes, threadVars
<1>6. ASSUME BgSwap
      PROVE  NicTypes'
  BY <1>6, <1>1, <1>2, ZenonT(60) DEF BgSwap, NicTypes
<1>7. ASSUME BgSend, batch # << >>
      PROVE  NicTypes'
  <2>1. Head(batch) \in Frames /\ Tail(batch) \in Seq(Frames)
    BY <1>1, <1>7, HeadTailIs, ZenonT(60)
  <2>2. Append(wire["B"], Head(batch)) \in Seq(Frames)
    BY <2>1, <1>2, AppendIs, ZenonT(60)
  <2>3. wire' \in [Node -> Seq(Frames)]
    BY <2>2, <1>1, <1>2, <1>7 DEF BgSend
  <2>4. bg' \in {"recv", "send", "cb"} /\ batch' \in Seq(Frames) /\ UNCHANGED <<tx_q, fatal, arg>>
    BY <2>1, <1>7, ZenonT(60) DEF BgSend
  <2> QED
    BY <2>3, <2>4, <1>1, ZenonT(60) DEF NicTypes
<1>8. ASSUME BgSendFails
      PROVE  NicTypes'
  <2>1. fatal' \in BOOLEAN
    BY <1>8, ZenonT(60) DEF BgSendFails, WireFails
  <2> QED
    BY <2>1, <1>1, <1>2, <1>8, ZenonT(60) DEF BgSendFails, NicTypes
<1>9. ASSUME BgRecv
      PROVE  NicTypes'
  <2>1. wire["A"] # << >> /\ wire' = [wire EXCEPT !["A"] = Tail(@)] /\ UNCHANGED <<nicVars, batch>>
    BY <1>9, ZenonT(60) DEF BgRecv
  <2>2. Head(wire["A"]) \in Frames /\ Tail(wire["A"]) \in Seq(Frames)
    BY <2>1, <1>2, HeadTailIs, ZenonT(60)
  <2>3. wire' \in [Node -> Seq(Frames)]
    BY <2>1, <2>2, <1>1, <1>2
  <2>4. arg' \in Frames /\ bg' \in {"recv", "send", "cb"}
    BY <2>2, <1>1, <1>9, ZenonT(60) DEF BgRecv
  <2> QED
    BY <2>1, <2>3, <2>4, <1>1, ZenonT(60) DEF NicTypes, nicVars
<1>10. ASSUME OnWrite \/ OnReadReq
       PROVE  NicTypes'
  <2>1. /\ \E tag \in {"A", "r"}, ask \in {"W", "R"}, valid \in BOOLEAN : Arrives(ask) /\ Reply(tag, valid)
        /\ UNCHANGED <<nicVars, batch, bg, arg>>
    BY <1>10, ZenonT(60) DEF OnWrite, OnReadReq
  <2>2. PICK tag \in {"A", "r"}, ask \in {"W", "R"}, valid \in BOOLEAN : Arrives(ask) /\ Reply(tag, valid)
    BY <2>1, ZenonT(60)
  <2>3. wire' \in [Node -> Seq(Frames)]
    BY <2>2, <1>1, ReplyIs, ZenonT(60)
  <2> QED
    BY <2>1, <2>3, <1>1, ZenonT(60) DEF NicTypes, nicVars
<1>11. ASSUME OnSend
       PROVE  NicTypes'
  <2>1. wire["B"] # << >> /\ wire' = [wire EXCEPT !["B"] = Tail(@)] /\ UNCHANGED <<nicVars, batch, bg, arg>>
    BY <1>11, ZenonT(60) DEF OnSend, Arrives, Taken
  <2>2. Tail(wire["B"]) \in Seq(Frames)
    BY <2>1, <1>2, HeadTailIs, ZenonT(60)
  <2>3. wire' \in [Node -> Seq(Frames)]
    BY <2>1, <2>2, <1>1, <1>2
  <2> QED
    BY <2>1, <2>3, <1>1, ZenonT(60) DEF NicTypes, nicVars
<1>12. ASSUME OnWriteAck \/ OnReadRsp
       PROVE  NicTypes'
  BY <1>12, <1>1, <1>2, ZenonT(60) DEF OnWriteAck, OnReadRsp, Returns, NicTypes, nicVars
<1> QED
  BY <1>3, <1>4, <1>5, <1>6, <1>7, <1>8, <1>9, <1>10, <1>11, <1>12, ZenonT(60) DEF Next, Post, Poll, Bg, BgPeer

\* The application's thread, its context and the counters.
LEMMA AppTypesKept ==
  ASSUME Types, Next
  PROVE  AppTypes'
<1>1. /\ AppTypes /\ app \in Thread /\ (app.pc = "send" => app.op # "CAS")
      /\ ctx \in {"live", "closing", "freed"} /\ cb \in BOOLEAN
      /\ opens \in Nat /\ base \in Nat /\ req_seq \in Nat /\ tries \in Nat /\ posted \in Nat
      /\ RingTypes
  BY ZenonT(60) DEF Types, AppTypes
<1>2. Idle \in Thread /\ Idle.pc = "idle"
  BY DEF Idle, Thread, Opcode
<1>3. req_seq + 1 \in Nat /\ tries + 1 \in Nat /\ posted + 1 \in Nat /\ opens + 1 \in Nat /\ 1 \in Nat
  BY <1>1
<1>4. ASSUME NEW op \in Opcode, PostStart(op)
      PROVE  AppTypes'
  <2>1. /\ req_seq' \in Nat /\ tries' \in Nat
        /\ UNCHANGED <<ctxVars, posted>>
        /\ app' = app \/ app' = [Idle EXCEPT !.pc = "record", !.op = op, !.req = IF HasReq(op) THEN req_seq ELSE 0]
    BY <1>1, <1>3, <1>4, ZenonT(60) DEF PostStart
  <2>2. PICK r : r = IF HasReq(op) THEN req_seq ELSE 0
    BY ZenonT(60)
  <2>3. r \in Nat
    BY <2>2, <1>1
  <2>4. [Idle EXCEPT !.pc = "record", !.op = op, !.req = r] \in Thread /\ [Idle EXCEPT !.pc = "record", !.op = op, !.req = r].pc # "send"
    BY <2>3, <1>2, ZenonT(60) DEF Idle, Thread
  <2>5. app' \in Thread /\ (app'.pc = "send" => app'.op # "CAS")
    BY <2>1, <2>2, <2>4, <1>1, ZenonT(60)
  <2> QED
    BY <2>1, <2>5, <1>1, ZenonT(60) DEF AppTypes, ctxVars
<1>5. ASSUME NEW pc \in {"idle", "record", "fail", "pump", "poll", "send"}, app' = [app EXCEPT !.pc = pc],
             pc = "send" => app.op # "CAS"
      PROVE  app' \in Thread /\ (app'.pc = "send" => app'.op # "CAS")
  BY <1>5, <1>1, ZenonT(60) DEF Thread
<1>6. ASSUME PostRecord
      PROVE  AppTypes'
  <2>1. PICK pc \in {"pump", "send"} : pc = IF app.op = "CAS" THEN "pump" ELSE "send"
    BY ZenonT(60)
  <2>2. app' = [app EXCEPT !.pc = pc] /\ posted' = posted + 1 /\ UNCHANGED <<ctxVars, req_seq, tries>>
    BY <2>1, <1>6, ZenonT(60) DEF PostRecord
  <2>3. app' \in Thread /\ (app'.pc = "send" => app'.op # "CAS")
    BY <2>1, <2>2, <1>5, ZenonT(60)
  <2> QED
    BY <2>2, <2>3, <1>1, <1>3, ZenonT(60) DEF AppTypes, ctxVars
<1>7. ASSUME PostSend \/ PostFail
      PROVE  AppTypes'
  <2>1. PICK pc \in {"pump", "fail"} : app' = [app EXCEPT !.pc = pc]
    BY <1>7, ZenonT(60) DEF PostSend, PostFail
  <2>2. UNCHANGED <<ctxVars, req_seq, tries, posted>>
    BY <1>7, ZenonT(60) DEF PostSend, PostFail
  <2>3. app' \in Thread /\ (app'.pc = "send" => app'.op # "CAS")
    BY <2>1, <1>5, ZenonT(60)
  <2> QED
    BY <2>2, <2>3, <1>1, ZenonT(60) DEF AppTypes, ctxVars
<1>8. ASSUME PostPump \/ PollComplete
      PROVE  AppTypes'
  <2>1. app' = Idle /\ UNCHANGED <<ctxVars, req_seq, tries, posted>>
    BY <1>8, ZenonT(60) DEF PostPump, PollComplete
  <2> QED
    BY <2>1, <1>1, <1>2, ZenonT(60) DEF AppTypes, ctxVars
<1>9. ASSUME PollStart
      PROVE  AppTypes'
  <2>1. PICK c \in 0 .. Outstanding : app' = [Idle EXCEPT !.pc = "poll", !.cqe = c, !.werr = fatal']
    BY <1>9, ZenonT(60) DEF PollStart
  <2>2. fatal' = fatal \/ fatal' = TRUE
    BY <1>9, ZenonT(60) DEF PollStart, Pump, WireFails
  <2>3. fatal' \in BOOLEAN
    BY <2>2, ZenonT(60) DEF Types, NicTypes
  <2>4. PICK f \in BOOLEAN : f = fatal'
    BY <2>3, ZenonT(60)
  <2>5. c \in Nat
    BY <2>1, <1>1, RingPlaces
  <2>6. [Idle EXCEPT !.pc = "poll", !.cqe = c, !.werr = f] \in Thread /\ [Idle EXCEPT !.pc = "poll", !.cqe = c, !.werr = f].pc = "poll"
    BY <2>5, <1>2, ZenonT(60) DEF Idle, Thread
  <2>7. app' \in Thread /\ app'.pc = "poll"
    BY <2>1, <2>4, <2>6, ZenonT(60)
  <2>8. UNCHANGED <<ctxVars, req_seq, tries, posted>>
    BY <1>9, ZenonT(60) DEF PollStart
  <2> QED
    BY <2>7, <2>8, <1>1, ZenonT(60) DEF AppTypes, ctxVars
<1>10. ASSUME DeleteContext \/ ReleaseNic
       PROVE  AppTypes'
  BY <1>10, <1>1, ZenonT(60) DEF DeleteContext, ReleaseNic, AppTypes
<1>11. ASSUME CreateContext
       PROVE  AppTypes'
  BY <1>11, <1>1, <1>3, ZenonT(60) DEF CreateContext, AppTypes
<1>12. ASSUME \/ PostRecv \/ PollRecv \/ BgSwap \/ BgSend \/ BgSendFails \/ BgRecv \/ OnWriteAck \/ OnReadRsp
              \/ OnWrite \/ OnReadReq \/ OnSend
       PROVE  AppTypes'
  <2>1. UNCHANGED appVars
    BY <1>12, ZenonT(60) DEF PostRecv, PollRecv, BgSwap, BgSend, BgSendFails, BgRecv, OnWriteAck, OnReadRsp, OnWrite, OnReadReq, OnSend
  <2> QED
    BY <2>1, <1>1, ZenonT(60) DEF AppTypes, appVars, ctxVars
<1> QED
  BY <1>4, <1>6, <1>7, <1>8, <1>9, <1>10, <1>11, <1>12, ZenonT(60) DEF Next, Post, Poll, Bg, BgPeer

\* s is t with u after it.
Follows(s, t, u) == s = t \o u

\* Two parts go behind d one after the other or at once.
LEMMA Regrouped ==
  ASSUME NEW T, NEW d \in Seq(T), NEW a \in Seq(T), NEW b \in Seq(T)
  PROVE  Follows(d \o (a \o b), d \o a, b)
<1>1. (d \o a) \o b = d \o (a \o b)
  OBVIOUS
<1> QED
  BY <1>1, ZenonT(60) DEF Follows

\* The part a of what is j and then c goes behind d, and the part b stays.
LEMMA Moved ==
  ASSUME NEW T, NEW d \in Seq(T), NEW j \in Seq(T), NEW c \in Seq(T), NEW a \in Seq(T), NEW b \in Seq(T),
         a \o b = j \o c
  PROVE  Follows((d \o a) \o b, d \o j, c)
<1>1. Follows(d \o (a \o b), d \o a, b)
  BY Regrouped, ZenonT(60)
<1>2. Follows(d \o (j \o c), d \o j, c)
  BY Regrouped, ZenonT(60)
<1> QED
  BY <1>1, <1>2, ZenonT(60) DEF Follows

\* The completions crs, of type T, go to the ring of n and are polled.
Collects(T, S, n, crs) ==
  /\ n \in Node /\ Seq(T) \subseteq S /\ jfc \in [Node -> S] /\ delivered \in [Node -> S]
  /\ jfc[n] \in Seq(T) /\ delivered[n] \in Seq(T) /\ crs \in Seq(T)
  /\ Collect(n, crs)

\* What becomes of them.
Collected(T, S, n, crs) ==
  /\ jfc' \in [Node -> S] /\ delivered' \in [Node -> S]
  /\ jfc'[n] \in Seq(T) /\ delivered'[n] \in Seq(T)
  /\ Follows(delivered'[n] \o jfc'[n], delivered[n] \o jfc[n], crs)
  /\ \A m \in Node : m # n => jfc'[m] = jfc[m] /\ delivered'[m] = delivered[m]

\* A poll moves completions to the caller and keeps their order.
LEMMA CollectIs ==
  ASSUME NEW T, NEW S, NEW n, NEW crs, Collects(T, S, n, crs)
  PROVE  Collected(T, S, n, crs)
<1>0. /\ n \in Node /\ Seq(T) \subseteq S /\ jfc \in [Node -> S] /\ delivered \in [Node -> S]
      /\ jfc[n] \in Seq(T) /\ delivered[n] \in Seq(T) /\ crs \in Seq(T)
      /\ Collect(n, crs)
  BY ZenonT(60) DEF Collects
<1>1. PICK ring, got : ring = jfc[n] \o crs /\ got = IF CrCnt <= Len(ring) THEN CrCnt ELSE Len(ring)
  BY ZenonT(60)
<1>2. ring \in Seq(T)
  BY <1>0, <1>1, ConcatIs, ZenonT(60)
<1>3. Len(ring) \in Nat /\ got \in 0 .. Len(ring) /\ Len(ring) \in got .. Len(ring)
  BY <1>1, <1>2, ConstantsAssumption
<1>4. PICK a, b : a = SubSeq(ring, 1, got) /\ b = SubSeq(ring, got + 1, Len(ring))
  BY ZenonT(60)
<1>7. a \in Seq(T) /\ b \in Seq(T) /\ a \o b = ring
  BY <1>2, <1>3, <1>4, CutIs, ZenonT(60)
<1>9. jfc' = [jfc EXCEPT ![n] = b] /\ delivered' = [delivered EXCEPT ![n] = delivered[n] \o a]
  BY <1>0, <1>1, <1>4, ZenonT(60) DEF Collect
<1>10. PICK d, e : d = delivered[n] /\ e = d \o a
  BY ZenonT(60)
<1>11. d \in Seq(T) /\ e \in Seq(T)
  BY <1>0, <1>7, <1>10, ConcatIs, ZenonT(60)
<1>12. jfc' = [jfc EXCEPT ![n] = b] /\ delivered' = [delivered EXCEPT ![n] = e]
  BY <1>9, <1>10, ZenonT(60)
<1>13. /\ jfc' \in [Node -> S] /\ delivered' \in [Node -> S] /\ jfc'[n] = b /\ delivered'[n] = e
       /\ \A m \in Node : m # n => jfc'[m] = jfc[m] /\ delivered'[m] = delivered[m]
  BY <1>0, <1>7, <1>11, <1>12
<1>14. a \o b = jfc[n] \o crs
  BY <1>1, <1>7, ZenonT(60)
<1>15. Follows((d \o a) \o b, d \o jfc[n], crs)
  BY <1>0, <1>7, <1>11, <1>14, Moved, ZenonT(60)
<1> QED
  BY <1>7, <1>10, <1>11, <1>13, <1>15, ZenonT(60) DEF Collected

\* The completions of the poll, from the oldest request on.
Batch == [i \in 1 .. Completed |-> Completion(Settled(Nth(i - 1)))]

\* They are a sequence of completions.
LEMMA BatchType ==
  ASSUME RingTypes, AppTypes
  PROVE  /\ Batch \in Seq(Finish) /\ Len(Batch) = Completed /\ Completed \in Nat
         /\ \A i \in 1 .. Completed : Batch[i] = Completion(Settled(Nth(i - 1)))
<1>1. PICK k : k = Completed
  BY ZenonT(60)
<1>2. PICK n : n = Outstanding
  BY ZenonT(60)
<1>3. k \in 0 .. n /\ n \in Nat /\ \A i \in 0 .. n : i \in Slots
  BY <1>1, <1>2, CompletedIs, RingPlaces, ZenonT(60)
<1>4. k \in Nat
  BY <1>3
<1>5. ASSUME NEW i \in 1 .. k
      PROVE  Completion(Settled(Nth(i - 1))) \in Finish
  <2>1. i - 1 \in 0 .. n
    BY <1>3
  <2>2. Nth(i - 1) \in Slots
    BY <2>1, <1>3, RingPlaces, ZenonT(60)
  <2>3. Settled(Nth(i - 1)) \in Slot
    BY <2>2, SettledType, ZenonT(60)
  <2> QED
    BY <2>3, ZenonT(60) DEF Completion, Finish, Slot
<1>6. PICK c : c = Batch
  BY ZenonT(60)
<1>7. c = [i \in 1 .. k |-> Completion(Settled(Nth(i - 1)))]
  BY <1>1, <1>6, ZenonT(60) DEF Batch
<1>8. c \in [1 .. k -> Finish] /\ \A i \in 1 .. k : c[i] = Completion(Settled(Nth(i - 1)))
  BY <1>5, <1>7, ZenonT(60)
<1>9. c \in Seq(Finish) /\ Len(c) = k
  BY <1>4, <1>8
<1> QED
  BY <1>1, <1>4, <1>6, <1>8, <1>9, ZenonT(60)

\* The rings of completions, and what was polled from them.
LEMMA ComplTypesKept ==
  ASSUME Types, Next
  PROVE  ComplTypes'
<1> DEFINE S == Seq(Finish) \cup Seq(Receipt)
<1>1. /\ RingTypes /\ AppTypes /\ ComplTypes /\ NicTypes /\ RestTypes
      /\ jfc \in [Node -> S] /\ delivered \in [Node -> S]
      /\ jfc["A"] \in Seq(Finish) /\ delivered["A"] \in Seq(Finish)
      /\ jfc["B"] \in Seq(Receipt) /\ delivered["B"] \in Seq(Receipt)
  BY ZenonT(60) DEF Types, ComplTypes
<1>2. "A" \in Node /\ "B" \in Node /\ "A" # "B" /\ Seq(Finish) \subseteq S /\ Seq(Receipt) \subseteq S
  BY DEF Node
<1>3. << >> \in Seq(Finish) /\ << >> \in Seq(Receipt)
  BY EmptyIs, ZenonT(60)
<1>4. ASSUME PollComplete
      PROVE  ComplTypes'
  <2>1. Collect("A", Batch) /\ Batch \in Seq(Finish)
    BY <1>1, <1>4, BatchType, ZenonT(60) DEF PollComplete, Batch
  <2>2. Collects(Finish, S, "A", Batch)
    BY <2>1, <1>1, <1>2, ZenonT(60) DEF Collects
  <2>3. /\ jfc' \in [Node -> S] /\ delivered' \in [Node -> S]
        /\ jfc'["A"] \in Seq(Finish) /\ delivered'["A"] \in Seq(Finish)
        /\ \A m \in Node : m # "A" => jfc'[m] = jfc[m] /\ delivered'[m] = delivered[m]
    <3>1. Collected(Finish, S, "A", Batch)
      BY <2>2, CollectIs, ZenonT(60)
    <3> QED
      BY <3>1, ZenonT(60) DEF Collected
  <2> QED
    BY <2>3, <1>1, <1>2, ZenonT(60) DEF ComplTypes
<1>5. ASSUME PollRecv
      PROVE  ComplTypes'
  <2>1. Collect("B", << >>)
    BY <1>5, ZenonT(60) DEF PollRecv
  <2>2. Collects(Receipt, S, "B", << >>)
    BY <2>1, <1>1, <1>2, <1>3, ZenonT(60) DEF Collects
  <2>3. /\ jfc' \in [Node -> S] /\ delivered' \in [Node -> S]
        /\ jfc'["B"] \in Seq(Receipt) /\ delivered'["B"] \in Seq(Receipt)
        /\ \A m \in Node : m # "B" => jfc'[m] = jfc[m] /\ delivered'[m] = delivered[m]
    <3>1. Collected(Receipt, S, "B", << >>)
      BY <2>2, CollectIs, ZenonT(60)
    <3> QED
      BY <3>1, ZenonT(60) DEF Collected
  <2> QED
    BY <2>3, <1>1, <1>2, ZenonT(60) DEF ComplTypes
<1>6. ASSUME CreateContext
      PROVE  ComplTypes'
  <2>1. jfc' = [jfc EXCEPT !["A"] = << >>] /\ delivered' = [delivered EXCEPT !["A"] = << >>]
    BY <1>6, ZenonT(60) DEF CreateContext
  <2>2. /\ jfc' \in [Node -> S] /\ delivered' \in [Node -> S]
        /\ jfc'["A"] = << >> /\ delivered'["A"] = << >>
        /\ jfc'["B"] = jfc["B"] /\ delivered'["B"] = delivered["B"]
    BY <2>1, <1>1, <1>2, <1>3
  <2> QED
    BY <2>2, <1>1, <1>3, ZenonT(60) DEF ComplTypes
<1>7. ASSUME OnSend
      PROVE  ComplTypes'
  <2>1. PICK r : r = [wr |-> Head(wire["B"]).wr, recv |-> Head(rq)]
    BY ZenonT(60)
  <2>2. /\ delivered' = delivered
        /\ jfc' = jfc \/ (rq # << >> /\ jfc' = [jfc EXCEPT !["B"] = Append(jfc["B"], r)])
    BY <2>1, <1>1, <1>2, <1>7 DEF OnSend
  <2>3. CASE jfc' = jfc
    BY <2>2, <2>3, <1>1, ZenonT(60) DEF ComplTypes
  <2>4. CASE rq # << >> /\ jfc' = [jfc EXCEPT !["B"] = Append(jfc["B"], r)]
    <3>1. wire["B"] # << >> /\ wire["B"] \in Seq(Frames) /\ rq \in Seq(Nat)
      BY <1>1, <1>7, WireType, ZenonT(60) DEF OnSend, Arrives, RestTypes
    <3>2. Head(wire["B"]) \in Frames /\ Head(rq) \in Nat
      BY <3>1, <2>4, HeadTailIs, ZenonT(60)
    <3>3. r \in Receipt
      BY <2>1, <3>2 DEF Frames, Receipt
    <3>4. Append(jfc["B"], r) \in Seq(Receipt)
      BY <3>3, <1>1, AppendIs, ZenonT(60)
    <3>5. PICK a : a = Append(jfc["B"], r)
      BY ZenonT(60)
    <3>6. jfc' = [jfc EXCEPT !["B"] = a] /\ a \in Seq(Receipt)
      BY <3>4, <3>5, <2>4, ZenonT(60)
    <3>7. jfc' \in [Node -> S] /\ jfc'["B"] = a /\ jfc'["A"] = jfc["A"]
      BY <3>6, <1>1, <1>2
    <3> QED
      BY <3>6, <3>7, <2>2, <1>1, ZenonT(60) DEF ComplTypes
  <2> QED
    BY <2>2, <2>3, <2>4, ZenonT(60)
<1>8. ASSUME \/ \E op \in Opcode : PostStart(op)
             \/ PostRecord \/ PostSend \/ PostFail \/ PostPump \/ PollStart \/ PostRecv \/ DeleteContext \/ ReleaseNic
             \/ BgSwap \/ BgSend \/ BgSendFails \/ BgRecv \/ OnWriteAck \/ OnReadRsp \/ OnWrite \/ OnReadReq
      PROVE  ComplTypes'
  <2>1. UNCHANGED complVars
    BY <1>8, ZenonT(60) DEF PostStart, PostRecord, PostSend, PostFail, PostPump, PollStart, PostRecv, DeleteContext, ReleaseNic,
         BgSwap, BgSend, BgSendFails, BgRecv, OnWriteAck, OnReadRsp, OnWrite, OnReadReq
  <2> QED
    BY <2>1, <1>1, ZenonT(60) DEF ComplTypes, complVars
<1> QED
  BY <1>4, <1>5, <1>6, <1>7, <1>8, ZenonT(60) DEF Next, Post, Poll, Bg, BgPeer

\* The posted receives, and the requests whose data arrived.
LEMMA RestTypesKept ==
  ASSUME Types, Next
  PROVE  RestTypes'
<1>1. /\ RestTypes /\ NicTypes /\ rq \in Seq(Nat) /\ recvs \in Nat /\ landed \subseteq Nat /\ fetched \subseteq Nat
      /\ arg \in Frames /\ wire["B"] \in Seq(Frames)
  BY WireType, ZenonT(60) DEF Types, RestTypes, NicTypes
<1>2. ASSUME PostRecv
      PROVE  RestTypes'
  <2>1. PICK n : n = IF RecvList <= MaxRecv - 1 - Len(rq) THEN RecvList ELSE MaxRecv - 1 - Len(rq)
    BY ZenonT(60)
  <2>2. n > 0 /\ recvs' = recvs + n /\ rq' = rq \o [i \in 1 .. n |-> recvs + i] /\ UNCHANGED dataVars
    BY <2>1, <1>2, ZenonT(60) DEF PostRecv
  <2>3. n \in Nat
    BY <2>1, <2>2, <1>1, ConstantsAssumption
  <2>4. PICK s : s = [i \in 1 .. n |-> recvs + i]
    BY ZenonT(60)
  <2>5. s \in Seq(Nat)
    BY <2>3, <2>4, <1>1
  <2>6. rq' \in Seq(Nat)
    BY <2>2, <2>4, <2>5, <1>1, ConcatIs, ZenonT(60)
  <2>7. recvs' \in Nat
    BY <2>2, <2>3, <1>1
  <2> QED
    BY <2>2, <2>6, <2>7, <1>1, ZenonT(60) DEF RestTypes, dataVars
<1>3. ASSUME OnSend
      PROVE  RestTypes'
  <2>1. rq # << >> => Tail(rq) \in Seq(Nat)
    BY <1>1, HeadTailIs, ZenonT(60)
  <2>2. rq' \in Seq(Nat)
    BY <2>1, <1>1, <1>3, ZenonT(60) DEF OnSend, Consumed
  <2> QED
    BY <2>2, <1>1, <1>3, ZenonT(60) DEF OnSend, RestTypes, dataVars
<1>4. ASSUME OnWrite
      PROVE  RestTypes'
  <2>1. wire["B"] # << >>
    BY <1>4, ZenonT(60) DEF OnWrite, Arrives
  <2>2. Head(wire["B"]) \in Frames
    BY <2>1, <1>1, HeadTailIs, ZenonT(60)
  <2>3. Head(wire["B"]).wr \in Nat
    BY <2>2, ZenonT(60) DEF Frames
  <2>4. landed' = landed \/ landed' = landed \union {Head(wire["B"]).wr}
    BY <1>4, ZenonT(60) DEF OnWrite
  <2>5. landed' \subseteq Nat
    BY <2>3, <2>4, <1>1, ZenonT(60)
  <2> QED
    BY <2>5, <1>1, <1>4, ZenonT(60) DEF OnWrite, RestTypes, recvVars
<1>5. ASSUME OnReadRsp
      PROVE  RestTypes'
  <2>1. arg.wr \in Nat
    BY <1>1, ZenonT(60) DEF Frames
  <2>2. fetched' = fetched \/ fetched' = fetched \union {arg.wr}
    BY <1>5, ZenonT(60) DEF OnReadRsp
  <2>3. fetched' \subseteq Nat
    BY <2>1, <2>2, <1>1, ZenonT(60)
  <2> QED
    BY <2>3, <1>1, <1>5, ZenonT(60) DEF OnReadRsp, RestTypes, recvVars
<1>6. ASSUME \/ \E op \in Opcode : PostStart(op)
             \/ PostRecord \/ PostSend \/ PostFail \/ PostPump \/ PollStart \/ PollComplete \/ PollRecv
             \/ DeleteContext \/ ReleaseNic \/ CreateContext
             \/ BgSwap \/ BgSend \/ BgSendFails \/ BgRecv \/ OnWriteAck \/ OnReadReq
      PROVE  RestTypes'
  <2>1. UNCHANGED <<recvVars, dataVars>>
    BY <1>6, ZenonT(60) DEF PostStart, PostRecord, PostSend, PostFail, PostPump, PollStart, PollComplete, PollRecv,
         DeleteContext, ReleaseNic, CreateContext, BgSwap, BgSend, BgSendFails, BgRecv, OnWriteAck, OnReadReq
  <2> QED
    BY <2>1, <1>1, ZenonT(60) DEF RestTypes, recvVars, dataVars
<1> QED
  BY <1>2, <1>3, <1>4, <1>5, <1>6, ZenonT(60) DEF Next, Post, Poll, Bg, BgPeer

-----------------------------------------------------------------------------
(* The transmit queue.                                                     *)

\* The thread sends while there is a part of the queue that it has taken.
TxOK == bg = "send" <=> batch # << >>

\* Every step keeps it.
LEMMA TxKept ==
  ASSUME Types, TxOK, Next
  PROVE  TxOK'
<1>1. batch \in Seq(Frames) /\ (bg = "send" <=> batch # << >>)
  BY ZenonT(60) DEF Types, NicTypes, TxOK
<1>2. ASSUME \/ \E op \in Opcode : PostStart(op)
             \/ PostRecord \/ PostSend \/ PostFail \/ PostPump \/ PollStart \/ PollComplete \/ PostRecv \/ PollRecv
             \/ DeleteContext \/ ReleaseNic \/ CreateContext \/ OnWrite \/ OnReadReq \/ OnSend
      PROVE  TxOK'
  <2>1. UNCHANGED <<batch, bg>>
    BY <1>2, ZenonT(60) DEF PostStart, PostRecord, PostSend, PostFail, PostPump, PollStart, PollComplete, PostRecv,
         PollRecv, DeleteContext, ReleaseNic, CreateContext, OnWrite, OnReadReq, OnSend, threadVars
  <2> QED
    BY <2>1, ZenonT(60) DEF TxOK
<1>3. ASSUME BgSwap
      PROVE  TxOK'
  BY <1>3, ZenonT(60) DEF BgSwap, TxOK
<1>4. ASSUME BgSend
      PROVE  TxOK'
  <2>1. bg = "send" /\ batch' = Tail(batch) /\ bg' = (IF Len(batch) = 1 THEN "recv" ELSE "send")
    BY <1>4, ZenonT(60) DEF BgSend
  <2>2. batch # << >> /\ Len(batch) \in Nat
    BY <2>1, <1>1
  <2>3. batch' \in Seq(Frames) /\ Len(batch') = Len(batch) - 1
    BY <2>1, <2>2, <1>1, HeadTailIs
  <2>4. Len(batch') = 0 <=> Len(batch) = 1
    BY <2>2, <2>3
  <2>5. batch' = << >> <=> Len(batch') = 0
    BY <2>3, EmptyLength, ZenonT(60)
  <2>6. batch' # << >> <=> Len(batch) # 1
    BY <2>4, <2>5, ZenonT(60)
  <2>7. bg' = "send" <=> batch' # << >>
    BY <2>1, <2>6
  <2> QED
    BY <2>7, ZenonT(60) DEF TxOK
<1>5. ASSUME BgSendFails
      PROVE  TxOK'
  <2>1. batch' = << >> /\ bg' = "recv"
    BY <1>5, ZenonT(60) DEF BgSendFails
  <2>2. bg' # "send"
    BY <2>1
  <2> QED
    BY <2>1, <2>2, ZenonT(60) DEF TxOK
<1>6. ASSUME BgRecv \/ OnWriteAck \/ OnReadRsp
      PROVE  TxOK'
  <2>1. (bg = "recv" \/ bg = "cb") /\ (bg' = "recv" \/ bg' = "cb") /\ UNCHANGED batch
    BY <1>6, ZenonT(60) DEF BgRecv, OnWriteAck, OnReadRsp, Returns
  <2>2. bg # "send" /\ bg' # "send"
    BY <2>1
  <2> QED
    BY <2>1, <2>2, <1>1, ZenonT(60) DEF TxOK
<1> QED
  BY <1>2, <1>3, <1>4, <1>5, <1>6, ZenonT(60) DEF Next, Post, Poll, Bg, BgPeer

\* Types and queue together are inductive.
LEMMA BaseKept ==
  ASSUME Types, TxOK, [Next]_vars
  PROVE  Types' /\ TxOK'
<1>1. CASE Next
  <2>1. BgSend => batch # << >>
    <3>1. BgSend => bg = "send"
      BY ZenonT(60) DEF BgSend
    <3> QED
      BY <3>1, ZenonT(60) DEF TxOK
  <2>2. RingTypes' /\ AppTypes' /\ ComplTypes' /\ RestTypes' /\ TxOK'
    BY <1>1, RingTypesKept, AppTypesKept, ComplTypesKept, RestTypesKept, TxKept, ZenonT(60)
  <2>3. NicTypes'
    BY <1>1, <2>1, NicTypesKept, ZenonT(60)
  <2> QED
    BY <2>2, <2>3, ZenonT(60) DEF Types
<1>2. CASE UNCHANGED vars
  <2>1. UNCHANGED <<ringVars, nicVars, threadVars, app, ctxVars, req_seq, tries, posted, recvVars, dataVars, complVars>>
    BY <1>2, ZenonT(60) DEF vars, appVars
  <2>2. RingTypes' /\ NicTypes'
    BY <2>1, ZenonT(60) DEF Types, ringVars, nicVars, threadVars, RingTypes, NicTypes
  <2>3. AppTypes'
    BY <2>1, ZenonT(60) DEF Types, ctxVars, AppTypes
  <2>4. ComplTypes' /\ RestTypes'
    BY <2>1, ZenonT(60) DEF Types, recvVars, dataVars, complVars, ComplTypes, RestTypes
  <2>5. TxOK'
    BY <2>1, ZenonT(60) DEF TxOK, threadVars
  <2> QED
    BY <2>2, <2>3, <2>4, <2>5, ZenonT(60) DEF Types
<1> QED
  BY <1>1, <1>2, ZenonT(60)

\* The provider starts in such a state.
LEMMA BaseInit ==
  ASSUME FirstOf, Init
  PROVE  Types /\ TxOK
<1>1. /\ NoSlot \in Slot /\ NoPend \in Pend /\ NoFrame \in Frames /\ Idle \in Thread /\ Idle.pc # "send"
  BY DEF NoSlot, Slot, NoPend, Pend, NoFrame, Frame, Frames, Idle, Thread, Opcode, Status
<1>2. 0 \in Slots /\ 0 \in Nat /\ 1 \in Nat /\ 0 \in Int
  BY ConstantsAssumption DEF Slots
<1>3. /\ << >> \in Seq(Frames) /\ << >> \in Seq(Finish) /\ << >> \in Seq(Receipt) /\ << >> \in Seq(Nat)
  BY EmptyIs, ZenonT(60)
<1>5. RingTypes
  BY <1>1, <1>2, ZenonT(60) DEF Init, RingTypes
<1>6. NicTypes
  BY <1>1, <1>2, <1>3, ZenonT(60) DEF Init, NicTypes
<1>7. AppTypes
  BY <1>1, <1>2, ZenonT(60) DEF Init, AppTypes
<1>8. ComplTypes
  <2>1. jfc = [n \in Node |-> << >>] /\ delivered = [n \in Node |-> << >>] /\ "A" \in Node /\ "B" \in Node
    BY ZenonT(60) DEF Init, Node
  <2>2. jfc["A"] = << >> /\ jfc["B"] = << >> /\ delivered["A"] = << >> /\ delivered["B"] = << >>
    BY <2>1, ZenonT(60)
  <2>3. jfc \in [Node -> Seq(Finish) \cup Seq(Receipt)] /\ delivered \in [Node -> Seq(Finish) \cup Seq(Receipt)]
    BY <2>1, <1>3, ZenonT(60)
  <2> QED
    BY <2>2, <2>3, <1>3, ZenonT(60) DEF ComplTypes
<1>9. RestTypes
  BY <1>2, <1>3, ZenonT(60) DEF Init, RestTypes
<1>10. TxOK
  <2>1. batch = << >> /\ bg = "recv"
    BY ZenonT(60) DEF Init
  <2>2. bg # "send"
    BY <2>1
  <2> QED
    BY <2>1, <2>2, ZenonT(60) DEF TxOK
<1> QED
  BY <1>5, <1>6, <1>7, <1>8, <1>9, <1>10, ZenonT(60) DEF Types

-----------------------------------------------------------------------------
(* The requests in the ring, oldest first, and what a step does to them.   *)

\* The slot of the i-th request in the ring, from 0.
At(i) == out[Nth(i)]

\* Nothing happens to the ring.
LEMMA SameView ==
  ASSUME UNCHANGED <<out, outh, outt>>
  PROVE  Outstanding' = Outstanding /\ \A i : At(i)' = At(i)
BY ZenonT(60) DEF Outstanding, At, Nth

\* Each request is a slot of its own.
LEMMA AtIs ==
  ASSUME RingTypes
  PROVE  \A i \in 0 .. Outstanding - 1 : i \in Slots /\ Nth(i) \in Slots /\ At(i) \in Slot
<1>1. PICK n : n = Outstanding
  BY ZenonT(60)
<1>2. n \in Nat /\ (\A i \in 0 .. n : i \in Slots) /\ \A i \in Slots : Nth(i) \in Slots
  BY <1>1, RingPlaces, ZenonT(60)
<1>3. \A i \in 0 .. n - 1 : i \in 0 .. n
  BY <1>2
<1>4. \A i \in 0 .. n - 1 : i \in Slots /\ Nth(i) \in Slots
  BY <1>2, <1>3, ZenonT(60)
<1> QED
  BY <1>1, <1>4, ZenonT(60) DEF At, RingTypes

\* Slots of the ring are the same only at the same place.
LEMMA AtOnce ==
  ASSUME RingTypes, NEW i \in Slots, NEW j \in Slots, Nth(i) = Nth(j)
  PROVE  i = j
<1>1. Place(outh, i) = Place(outh, j) /\ outh \in Slots
  BY RingPlaces, ZenonT(60) DEF RingTypes
<1>2. Gap(outh, Place(outh, i)) = i /\ Gap(outh, Place(outh, j)) = j
  BY <1>1, PlaceGap, ZenonT(60)
<1> QED
  BY <1>1, <1>2, ZenonT(60)

\* PostRecord adds a request at the end.
LEMMA RecordView ==
  ASSUME RingTypes, PostRecord, ~RingFull
  PROVE  /\ Outstanding' = Outstanding + 1
         /\ \A i \in 0 .. Outstanding - 1 : At(i)' = At(i)
         /\ \E st \in Status : \A i : i = Outstanding =>
              At(i)' = [wr |-> posted + 1, op |-> app.op, req |-> app.req, waited |-> 0, status |-> st]
<1>1. outh \in Slots /\ outt \in Slots /\ out \in [Slots -> Slot] /\ Succ(outt) # outh
  BY ZenonT(60) DEF RingTypes, RingFull
<1>2. PICK st, r : st = out[outt].status /\ r = [wr |-> posted + 1, op |-> app.op, req |-> app.req, waited |-> 0, status |-> st]
  BY ZenonT(60)
<1>3. st \in Status
  BY <1>1, <1>2, ZenonT(60) DEF Slot
<1>4. out' = [out EXCEPT ![outt] = r] /\ outt' = Succ(outt) /\ outh' = outh
  BY <1>2, ZenonT(60) DEF PostRecord
<1>5. PICK n : n = Outstanding
  BY ZenonT(60)
<1>6. n = Gap(outh, outt) /\ n \in Slots /\ \A i : Nth(i) = Place(outh, i)
  BY <1>5, RingPlaces, ZenonT(60) DEF Nth, Place
<1>7. Outstanding' = Gap(outh, Succ(outt))
  BY <1>4, ZenonT(60) DEF Outstanding, Gap
<1>8. Outstanding' = n + 1
  BY <1>1, <1>6, <1>7, RingGrows, ZenonT(60)
<1>9. \A i : Nth(i)' = Nth(i)
  BY <1>4, ZenonT(60) DEF Nth
<1>10. Nth(n) = outt
  BY <1>1, <1>6, GapPlace, ZenonT(60)
<1>11. out'[outt] = r /\ \A s \in Slots : s # outt => out'[s] = out[s]
  BY <1>1, <1>4, ZenonT(60)
<1>12. ASSUME NEW i \in 0 .. n - 1
       PROVE  At(i)' = At(i)
  <2>1. i # n /\ i \in Slots /\ Nth(i) \in Slots
    <3>1. n \in Nat
      BY <1>5, RingPlaces, ZenonT(60)
    <3>2. i # n
      BY <3>1
    <3> QED
      BY <3>2, <1>5, AtIs, ZenonT(60)
  <2>2. Nth(i) # outt
    BY <2>1, <1>6, <1>10, AtOnce, ZenonT(60)
  <2> QED
    BY <2>1, <2>2, <1>9, <1>11, ZenonT(60) DEF At
<1>13. \A i : i = n => At(i)' = r
  BY <1>9, <1>10, <1>11, ZenonT(60) DEF At
<1> QED
  BY <1>2, <1>3, <1>5, <1>8, <1>12, <1>13, ZenonT(60)

\* The j-th request is told of its answer, or of an error.
Tells(j, st) ==
  /\ j \in 0 .. Outstanding - 1 /\ st \in Status
  /\ out' = [out EXCEPT ![Nth(j)] = Told(out[Nth(j)], st)]
  /\ outh' = outh /\ outt' = outt

\* It is the only one that changes.
LEMMA ToldView ==
  ASSUME RingTypes, NEW j, NEW st, Tells(j, st)
  PROVE  /\ Outstanding' = Outstanding
         /\ \A i \in 0 .. Outstanding - 1 : i # j => At(i)' = At(i)
         /\ At(j) \in Slot /\ st \in Status /\ \A i : i = j => At(i)' = Told(At(j), st)
<1>1. /\ j \in 0 .. Outstanding - 1 /\ st \in Status /\ outh' = outh /\ outt' = outt /\ out \in [Slots -> Slot]
      /\ out' = [out EXCEPT ![Nth(j)] = Told(At(j), st)]
  BY ZenonT(60) DEF Tells, RingTypes, At
<1>2. j \in Slots /\ Nth(j) \in Slots /\ At(j) \in Slot
  BY <1>1, AtIs, ZenonT(60)
<1>3. PICK r, s : r = Told(At(j), st) /\ s = Nth(j)
  BY ZenonT(60)
<1>4. out'[s] = r /\ \A u \in Slots : u # s => out'[u] = out[u]
  BY <1>1, <1>2, <1>3, ZenonT(60)
<1>5. Outstanding' = Outstanding /\ \A i : Nth(i)' = Nth(i)
  BY <1>1, ZenonT(60) DEF Outstanding, Nth
<1>6. ASSUME NEW i \in 0 .. Outstanding - 1, i # j
      PROVE  At(i)' = At(i)
  <2>1. i \in Slots /\ Nth(i) \in Slots
    BY AtIs, ZenonT(60)
  <2>2. Nth(i) # s
    BY <2>1, <1>2, <1>3, <1>6, AtOnce, ZenonT(60)
  <2> QED
    BY <2>1, <2>2, <1>4, <1>5, ZenonT(60) DEF At
<1>7. \A i : i = j => At(i)' = r
  BY <1>3, <1>4, <1>5, ZenonT(60) DEF At
<1> QED
  BY <1>1, <1>2, <1>3, <1>5, <1>6, <1>7, ZenonT(60)

\* PostFail tells the last request of an error.
LEMMA FailTells ==
  ASSUME RingTypes, PostFail, Outstanding > 0
  PROVE  Tells(Outstanding - 1, "timeout")
<1>1. PICK n : n = Outstanding
  BY ZenonT(60)
<1>2. n \in Nat /\ n > 0 /\ n = Gap(outh, outt) /\ outh \in Slots /\ outt \in Slots /\ \A i : Nth(i) = Place(outh, i)
  BY <1>1, RingPlaces, ZenonT(60) DEF RingTypes, Nth, Place
<1>3. n - 1 \in 0 .. n - 1
  BY <1>2
<1>4. (outt + MaxOut - 1) % MaxOut = Nth(n - 1)
  BY <1>2, RingLast, ZenonT(60)
<1>5. PICK s : s = Nth(n - 1)
  BY ZenonT(60)
<1>6. s \in Slots
  BY <1>1, <1>3, <1>5, AtIs, ZenonT(60)
<1>7. out' = [out EXCEPT ![s] = [@ EXCEPT !.status = "timeout", !.req = 0]] /\ outh' = outh /\ outt' = outt
  BY <1>4, <1>5, ZenonT(60) DEF PostFail
<1>8. "timeout" \in Status
  BY ZenonT(60) DEF Status
<1>9. out' = [out EXCEPT ![s] = Told(out[s], "timeout")]
  BY <1>6, <1>7, <1>8, SlotWritten, ZenonT(60)
<1> QED
  BY <1>1, <1>3, <1>5, <1>7, <1>8, <1>9, ZenonT(60) DEF Tells

\* The answer goes to a request that waits for it.
LEMMA AnswerTells ==
  ASSUME RingTypes, NicTypes, NEW op, Waiting(op, arg.req) # {}, Answer(Oldest(Waiting(op, arg.req))),
         outh' = outh, outt' = outt
  PROVE  \E j : Tells(j, arg.status) /\ At(j).op = op /\ At(j).req = arg.req /\ Oldest(Waiting(op, arg.req)) = Nth(j)
<1>1. PICK r, st : r = arg.req /\ st = arg.status
  BY ZenonT(60)
<1>2. Waiting(op, r) # {} /\ Answer(Oldest(Waiting(op, r)))
  BY <1>1, ZenonT(60)
<1>3. OldestAt(op, r)
  BY <1>2, OldestIs, ZenonT(60)
<1>4. PICK j \in 0 .. Outstanding - 1 :
        j \in Slots /\ Oldest(Waiting(op, r)) = Nth(j) /\ out[Nth(j)].op = op /\ out[Nth(j)].req = r
  BY <1>3, ZenonT(60) DEF OldestAt
<1>5. PICK s : s = Nth(j)
  BY ZenonT(60)
<1>6. s \in Slots /\ Answer(s)
  BY <1>2, <1>4, <1>5, AtIs, ZenonT(60)
<1>7. st \in Status /\ out' = [out EXCEPT ![s].status = st, ![s].req = 0]
  BY <1>1, <1>6, ZenonT(60) DEF Answer, NicTypes, Frames
<1>8. out' = [out EXCEPT ![s] = Told(out[s], st)]
  BY <1>6, <1>7, SlotWritten, ZenonT(60)
<1>9. Tells(j, st)
  BY <1>4, <1>5, <1>7, <1>8, ZenonT(60) DEF Tells
<1> QED
  BY <1>1, <1>4, <1>9, ZenonT(60) DEF At

\* The poll takes the oldest requests out and leaves the others, as it saw them.
LEMMA PollView ==
  ASSUME RingTypes, AppTypes, PollComplete
  PROVE  /\ Completed \in 0 .. Outstanding
         /\ Outstanding' = Outstanding - Completed
         /\ \A i \in 0 .. Outstanding - Completed - 1 : At(i)' = Polled(Nth(Completed + i))
<1>1. PICK k, n : k = Completed /\ n = Outstanding
  BY ZenonT(60)
<1>2. /\ out' = [s \in Slots |-> Polled(s)] /\ outh' = Nth(k) /\ outt' = outt
      /\ outh \in Slots /\ outt \in Slots
  BY <1>1, ZenonT(60) DEF PollComplete, RingTypes
<1>3. k \in 0 .. n /\ n = Gap(outh, outt) /\ n \in Nat /\ (\A i \in 0 .. n : i \in Slots) /\ \A i : Nth(i) = Place(outh, i)
  BY <1>1, CompletedIs, RingPlaces, ZenonT(60) DEF Nth, Place
<1>4. /\ Gap(Place(outh, k), outt) = n - k
      /\ \A i \in 0 .. n - k : Place(Place(outh, k), i) = Place(outh, k + i)
  BY <1>2, <1>3, RingShrinks, ZenonT(60)
<1>5. Outstanding' = n - k
  BY <1>2, <1>3, <1>4, ZenonT(60) DEF Outstanding, Gap
<1>6. ASSUME NEW i \in 0 .. n - k - 1
      PROVE  At(i)' = Polled(Nth(k + i))
  <2>1. i \in 0 .. n - k /\ k + i \in 0 .. n - 1
    BY <1>3
  <2>2. Nth(k + i) \in Slots
    BY <2>1, <1>1, AtIs, ZenonT(60)
  <2>3. Nth(i)' = Place(Place(outh, k), i)
    BY <1>2, <1>3, ZenonT(60) DEF Nth, Place
  <2>4. Nth(i)' = Nth(k + i)
    BY <2>1, <2>3, <1>3, <1>4, ZenonT(60)
  <2> QED
    BY <2>2, <2>4, <1>2, ZenonT(60) DEF At
<1> QED
  BY <1>1, <1>3, <1>5, <1>6, ZenonT(60)

-----------------------------------------------------------------------------
(* The requests of a context complete in order.                            *)

\* The completions are the first requests of the context, and the ring holds
\* the others.
InOrder ==
  /\ \A i \in 1 .. Len(Finished) : Finished[i].wr = base + i
  /\ \A i \in 0 .. Outstanding - 1 : At(i).wr = base + Len(Finished) + i + 1
  /\ base + Len(Finished) + Outstanding = posted

\* A post that was given room still has it, one that was recorded is in the
\* ring, and a context is not deleted during a call.
CallOK ==
  /\ app.pc = "record" => ~RingFull
  /\ app.pc \in {"send", "fail"} => Outstanding > 0
  /\ app.pc # "idle" => ctx = "live"

\* The steps that touch neither the ring nor the numbers of the requests.
OffRing ==
  \/ \E op \in Opcode : PostStart(op)
  \/ PostSend \/ PostPump \/ PollStart \/ PostRecv \/ PollRecv \/ DeleteContext \/ ReleaseNic
  \/ BgSwap \/ BgSend \/ BgSendFails \/ BgRecv \/ OnWrite \/ OnReadReq \/ OnSend

\* Every step is one of them or one of six.
LEMMA StepIs ==
  ASSUME Next
  PROVE  OffRing \/ PostRecord \/ PostFail \/ PollComplete \/ CreateContext \/ OnWriteAck \/ OnReadRsp
BY ZenonT(60) DEF Next, Post, Poll, Bg, BgPeer, OffRing

\* They leave the ring and the numbers alone.
LEMMA OffRingSame ==
  ASSUME OffRing
  PROVE  UNCHANGED <<out, outh, outt, base, posted>>
BY ZenonT(60) DEF OffRing, PostStart, PostSend, PostPump, PollStart, PostRecv, PollRecv, DeleteContext, ReleaseNic,
     BgSwap, BgSend, BgSendFails, BgRecv, OnWrite, OnReadReq, OnSend, ringVars, ctxVars, appVars

\* The types of what the numbers are about.
LEMMA OrderTypes ==
  ASSUME Types
  PROVE  /\ Outstanding \in Nat /\ Finished \in Seq(Finish) /\ Len(Finished) \in Nat
         /\ base \in Nat /\ posted \in Nat
<1>1. RingTypes /\ delivered["A"] \in Seq(Finish) /\ jfc["A"] \in Seq(Finish) /\ base \in Nat /\ posted \in Nat
  BY ZenonT(60) DEF Types, ComplTypes, AppTypes
<1>2. PICK f : f = Finished
  BY ZenonT(60)
<1>3. f \in Seq(Finish)
  BY <1>1, <1>2, ConcatIs, ZenonT(60) DEF Finished
<1>4. Len(f) \in Nat
  BY <1>3
<1> QED
  BY <1>1, <1>2, <1>3, <1>4, RingPlaces, ZenonT(60)

\* Only a poll adds completions of requests.
LEMMA FinishedSame ==
  ASSUME Types, OffRing \/ PostRecord \/ PostFail \/ OnWriteAck \/ OnReadRsp
  PROVE  Finished' = Finished
<1>1. ASSUME UNCHANGED complVars
      PROVE  Finished' = Finished
  BY <1>1, ZenonT(60) DEF complVars, Finished
<1>2. jfc \in [Node -> Seq(Finish) \cup Seq(Receipt)] /\ "A" \in Node /\ "B" \in Node /\ "A" # "B"
  BY DEF Types, ComplTypes, Node
<1>3. ASSUME OnSend
      PROVE  Finished' = Finished
  <2>1. PICK a : a = Append(jfc["B"], [wr |-> Head(wire["B"]).wr, recv |-> Head(rq)])
    BY ZenonT(60)
  <2>2. delivered' = delivered /\ (jfc' = jfc \/ jfc' = [jfc EXCEPT !["B"] = a])
    BY <2>1, <1>2, <1>3, ZenonT(60) DEF OnSend
  <2>3. jfc'["A"] = jfc["A"]
    BY <2>2, <1>2, ZenonT(60)
  <2> QED
    BY <2>2, <2>3, ZenonT(60) DEF Finished
<1>4. ASSUME PollRecv
      PROVE  Finished' = Finished
  <2>1. PICK a, b : jfc' = [jfc EXCEPT !["B"] = a] /\ delivered' = [delivered EXCEPT !["B"] = b]
    BY <1>4, ZenonT(60) DEF PollRecv, Collect
  <2>2. delivered \in [Node -> Seq(Finish) \cup Seq(Receipt)]
    BY ZenonT(60) DEF Types, ComplTypes
  <2>3. jfc'["A"] = jfc["A"] /\ delivered'["A"] = delivered["A"]
    BY <2>1, <2>2, <1>2, ZenonT(60)
  <2> QED
    BY <2>3, ZenonT(60) DEF Finished
<1>5. OnSend \/ PollRecv \/ UNCHANGED complVars
  BY ZenonT(60) DEF OffRing, PostStart, PostRecord, PostSend, PostFail, PostPump, PollStart, PostRecv, DeleteContext, ReleaseNic,
       BgSwap, BgSend, BgSendFails, BgRecv, OnWriteAck, OnReadRsp, OnWrite, OnReadReq
<1> QED
  BY <1>1, <1>3, <1>4, <1>5, ZenonT(60)

\* A poll adds those of its batch.
LEMMA FinishedPoll ==
  ASSUME Types, PollComplete
  PROVE  Follows(Finished', Finished, Batch)
<1> DEFINE S == Seq(Finish) \cup Seq(Receipt)
<1>1. /\ RingTypes /\ AppTypes
      /\ jfc \in [Node -> S] /\ delivered \in [Node -> S]
      /\ jfc["A"] \in Seq(Finish) /\ delivered["A"] \in Seq(Finish)
  BY ZenonT(60) DEF Types, ComplTypes
<1>2. "A" \in Node /\ Seq(Finish) \subseteq S
  BY DEF Node
<1>3. Collect("A", Batch) /\ Batch \in Seq(Finish)
  BY <1>1, BatchType, ZenonT(60) DEF PollComplete, Batch
<1>4. Collects(Finish, S, "A", Batch)
  BY <1>1, <1>2, <1>3, ZenonT(60) DEF Collects
<1>5. Collected(Finish, S, "A", Batch)
  BY <1>4, CollectIs, ZenonT(60)
<1> QED
  BY <1>5, ZenonT(60) DEF Collected, Finished

\* A new context has none.
LEMMA FinishedCreate ==
  ASSUME Types, CreateContext
  PROVE  Len(Finished') = 0
<1>1. /\ jfc \in [Node -> Seq(Finish) \cup Seq(Receipt)] /\ delivered \in [Node -> Seq(Finish) \cup Seq(Receipt)]
      /\ "A" \in Node
      /\ jfc' = [jfc EXCEPT !["A"] = << >>] /\ delivered' = [delivered EXCEPT !["A"] = << >>]
  BY DEF Types, ComplTypes, Node, CreateContext
<1>2. jfc'["A"] = << >> /\ delivered'["A"] = << >>
  BY <1>1, ZenonT(60)
<1>3. PICK j, d : j = jfc'["A"] /\ d = delivered'["A"]
  BY ZenonT(60)
<1>4. Finished' = d \o j /\ d = << >> /\ j = << >>
  BY <1>2, <1>3, ZenonT(60) DEF Finished
<1> QED
  BY <1>4

\* The requests in the ring keep their numbers.
SameNumbers ==
  /\ Outstanding' = Outstanding
  /\ \A i \in 0 .. Outstanding - 1 : At(i)'.wr = At(i).wr

\* What a completion says of its request.
LEMMA CompletionIs ==
  ASSUME NEW o \in Slot
  PROVE  /\ Completion(o) \in Finish
         /\ Completion(o).wr = o.wr /\ Completion(o).op = o.op /\ Completion(o).status = o.status
BY ZenonT(60) DEF Completion, Finish, Slot

\* The elements of a sequence behind another.
Joined(g, f, b) ==
  Len(g) = Len(f) + Len(b) /\ \A i \in 1 .. Len(g) : g[i] = IF i <= Len(f) THEN f[i] ELSE b[i - Len(f)]

\* They are the elements of the two.
LEMMA FollowsIs ==
  ASSUME NEW T, NEW f \in Seq(T), NEW b \in Seq(T), NEW g, Follows(g, f, b)
  PROVE  g \in Seq(T) /\ Joined(g, f, b)
<1>1. g = f \o b
  BY ZenonT(60) DEF Follows
<1>2. /\ f \o b \in Seq(T) /\ Len(f \o b) = Len(f) + Len(b)
      /\ \A i \in 1 .. Len(f) + Len(b) : (f \o b)[i] = IF i <= Len(f) THEN f[i] ELSE b[i - Len(f)]
  BY ConcatIs, ZenonT(60)
<1> QED
  BY <1>1, <1>2, ZenonT(60) DEF Joined

\* The number a request was posted with is the number it completes with.
LEMMA BatchNumbers ==
  ASSUME RingTypes, AppTypes
  PROVE  \A i \in 1 .. Completed : Batch[i].wr = At(i - 1).wr
<1>1. PICK k, n : k = Completed /\ n = Outstanding
  BY ZenonT(60)
<1>2. k \in 0 .. n /\ n \in Nat
  BY <1>1, CompletedIs, RingPlaces, ZenonT(60)
<1>3. ASSUME NEW i \in 1 .. k
      PROVE  Batch[i].wr = At(i - 1).wr
  <2>1. i - 1 \in 0 .. n - 1
    BY <1>2
  <2>2. PICK s : s = Nth(i - 1)
    BY ZenonT(60)
  <2>3. s \in Slots /\ At(i - 1) = out[s]
    BY <2>1, <2>2, <1>1, AtIs, ZenonT(60) DEF At
  <2>4. Settled(s) \in Slot /\ Settled(s).wr = out[s].wr
    BY <2>3, SettledType, ZenonT(60)
  <2>5. Batch[i] = Completion(Settled(s))
    BY <2>2, <1>1, BatchType, ZenonT(60)
  <2>6. Completion(Settled(s)).wr = Settled(s).wr
    BY <2>4, CompletionIs, ZenonT(60)
  <2> QED
    BY <2>3, <2>4, <2>5, <2>6, ZenonT(60)
<1> QED
  BY <1>1, <1>3, ZenonT(60)

\* A poll moves the first requests of the ring to the completions.
LEMMA PollOrder ==
  ASSUME Types, InOrder, PollComplete
  PROVE  InOrder'
<1>1. RingTypes /\ AppTypes
  BY ZenonT(60) DEF Types
<1>2. PICK k, n, f, b : k = Completed /\ n = Outstanding /\ f = Finished /\ b = Batch
  BY ZenonT(60)
<1>3. /\ k \in 0 .. n /\ Outstanding' = n - k
      /\ \A i \in 0 .. n - k - 1 : At(i)' = Polled(Nth(k + i))
  BY <1>1, <1>2, PollView, ZenonT(60)
<1>4. n \in Nat /\ f \in Seq(Finish) /\ Len(f) \in Nat /\ base \in Nat /\ posted \in Nat
  BY <1>2, OrderTypes, ZenonT(60)
<1>5. b \in Seq(Finish) /\ Len(b) = k /\ k \in Nat /\ \A i \in 1 .. k : b[i].wr = At(i - 1).wr
  BY <1>1, <1>2, BatchType, BatchNumbers, ZenonT(60)
<1>6. PICK g : g = Finished'
  BY ZenonT(60)
<1>7. Follows(g, f, b)
  BY <1>2, <1>6, FinishedPoll, ZenonT(60)
<1>8. /\ \A i \in 1 .. Len(f) : f[i].wr = base + i
      /\ \A i \in 0 .. n - 1 : At(i).wr = base + Len(f) + i + 1
      /\ base + Len(f) + n = posted
  BY <1>2, ZenonT(60) DEF InOrder
<1>9. base' = base /\ posted' = posted
  BY ZenonT(60) DEF PollComplete, ctxVars
<1>10. Len(g) = Len(f) + k /\ \A i \in 1 .. Len(g) : g[i] = IF i <= Len(f) THEN f[i] ELSE b[i - Len(f)]
  <2>1. Joined(g, f, b)
    BY <1>4, <1>5, <1>7, FollowsIs, ZenonT(60)
  <2> QED
    BY <2>1, <1>5, ZenonT(60) DEF Joined
<1>14. Len(f) \in Nat /\ base \in Nat /\ k \in 0 .. n /\ n \in Nat /\ k \in Nat /\ Len(g) = Len(f) + k
  BY <1>3, <1>4, <1>5, <1>10, ZenonT(60)
<1>15. base + Len(f) + n = posted
  BY <1>8, ZenonT(60)
<1>11. ASSUME NEW i \in 1 .. Len(g)
       PROVE  g[i].wr = base + i
  <2>1. CASE i <= Len(f)
    <3>1. i \in 1 .. Len(f) /\ g[i] = f[i]
      BY <2>1, <1>4, <1>10, <1>14
    <3> QED
      BY <3>1, <1>8, ZenonT(60)
  <2>2. CASE ~(i <= Len(f))
    <3>1. PICK j : j = i - Len(f)
      BY ZenonT(60)
    <3>2. j \in 1 .. k /\ j - 1 \in 0 .. n - 1 /\ j = i - Len(f)
      BY <3>1, <2>2, <1>14
    <3>3. g[i] = b[j] /\ b[j].wr = At(j - 1).wr
      BY <3>1, <3>2, <2>2, <1>5, <1>10, ZenonT(60)
    <3>4. At(j - 1).wr = base + Len(f) + (j - 1) + 1
      BY <3>2, <1>8, ZenonT(60)
    <3>5. base + Len(f) + (j - 1) + 1 = base + i
      BY <3>2, <1>14
    <3> QED
      BY <3>3, <3>4, <3>5, ZenonT(60)
  <2> QED
    BY <2>1, <2>2, ZenonT(60)
<1>12. ASSUME NEW i \in 0 .. n - k - 1
       PROVE  At(i)'.wr = base + Len(g) + i + 1
  <2>1. PICK j : j = k + i
    BY ZenonT(60)
  <2>2. j \in 0 .. n - 1 /\ j = k + i
    BY <2>1, <1>14
  <2>3. Nth(j) \in Slots /\ At(i)' = Polled(Nth(j))
    BY <2>1, <2>2, <1>1, <1>2, <1>3, AtIs, ZenonT(60)
  <2>4. At(i)'.wr = At(j).wr
    BY <2>3, <1>1, PolledIs, ZenonT(60) DEF At
  <2>5. At(j).wr = base + Len(f) + j + 1
    BY <2>2, <1>8, ZenonT(60)
  <2>6. base + Len(f) + j + 1 = base + Len(g) + i + 1
    BY <2>2, <1>14
  <2> QED
    BY <2>4, <2>5, <2>6, ZenonT(60)
<1>13. base + Len(g) + (n - k) = posted
  BY <1>14, <1>15
<1> QED
  BY <1>3, <1>6, <1>9, <1>11, <1>12, <1>13, ZenonT(60) DEF InOrder

\* A request that is recorded is the last of the ring.
LEMMA RecordOrder ==
  ASSUME Types, InOrder, PostRecord, ~RingFull
  PROVE  InOrder'
<1>1. PICK n, f : n = Outstanding /\ f = Finished
  BY ZenonT(60)
<1>2. n \in Nat /\ Len(f) \in Nat /\ base \in Nat /\ posted \in Nat /\ RingTypes
  BY <1>1, OrderTypes, ZenonT(60) DEF Types
<1>3. /\ Outstanding' = n + 1
      /\ \A i \in 0 .. n - 1 : At(i)' = At(i)
      /\ \A i : i = n => At(i)'.wr = posted + 1
  <2>1. /\ Outstanding' = n + 1
        /\ \A i \in 0 .. n - 1 : At(i)' = At(i)
        /\ \E st \in Status : \A i : i = n =>
             At(i)' = [wr |-> posted + 1, op |-> app.op, req |-> app.req, waited |-> 0, status |-> st]
    BY <1>1, <1>2, RecordView, ZenonT(60)
  <2>2. PICK st \in Status : \A i : i = n =>
             At(i)' = [wr |-> posted + 1, op |-> app.op, req |-> app.req, waited |-> 0, status |-> st]
    BY <2>1, ZenonT(60)
  <2>3. PICK r : r = [wr |-> posted + 1, op |-> app.op, req |-> app.req, waited |-> 0, status |-> st]
    BY ZenonT(60)
  <2>4. r.wr = posted + 1 /\ \A i : i = n => At(i)' = r
    BY <2>2, <2>3, ZenonT(60)
  <2> QED
    BY <2>1, <2>4, ZenonT(60)
<1>4. /\ \A i \in 1 .. Len(f) : f[i].wr = base + i
      /\ \A i \in 0 .. n - 1 : At(i).wr = base + Len(f) + i + 1
      /\ base + Len(f) + n = posted
  BY <1>1, ZenonT(60) DEF InOrder
<1>8. base + Len(f) + n = posted
  BY <1>4, ZenonT(60)
<1>5. base' = base /\ posted' = posted + 1 /\ Finished' = f
  BY <1>1, FinishedSame, ZenonT(60) DEF PostRecord, ctxVars
<1>6. ASSUME NEW i \in 0 .. (n + 1) - 1
      PROVE  At(i)'.wr = base + Len(f) + i + 1
  <2>1. i \in 0 .. n - 1 \/ i = n
    BY <1>2
  <2>2. CASE i = n
    <3>1. posted + 1 = base + Len(f) + i + 1
      BY <2>2, <1>2, <1>8
    <3> QED
      BY <3>1, <2>2, <1>3, ZenonT(60)
  <2>3. CASE i \in 0 .. n - 1
    BY <2>3, <1>3, <1>4, ZenonT(60)
  <2> QED
    BY <2>1, <2>2, <2>3, ZenonT(60)
<1>7. base + Len(f) + (n + 1) = posted + 1
  BY <1>2, <1>8
<1> QED
  BY <1>3, <1>4, <1>5, <1>6, <1>7, ZenonT(60) DEF InOrder

\* Every step keeps the order.
LEMMA OrderKept ==
  ASSUME Types, InOrder, CallOK, Next
  PROVE  InOrder'
\* An answer keeps the numbers.
<1>TellsNumbers. ASSUME RingTypes, NEW j, NEW st, Tells(j, st)
                 PROVE  SameNumbers
  <2> USE <1>TellsNumbers
  <2>1. /\ Outstanding' = Outstanding
        /\ \A i \in 0 .. Outstanding - 1 : i # j => At(i)' = At(i)
        /\ At(j) \in Slot /\ st \in Status /\ \A i : i = j => At(i)' = Told(At(j), st)
    BY ToldView, ZenonT(60)
  <2>2. Told(At(j), st).wr = At(j).wr
    BY <2>1, ToldIs, ZenonT(60)
  <2>3. ASSUME NEW i \in 0 .. Outstanding - 1
        PROVE  At(i)'.wr = At(i).wr
    <3>1. CASE i = j
      BY <3>1, <2>1, <2>2, ZenonT(60)
    <3>2. CASE i # j
      BY <3>2, <2>1, ZenonT(60)
    <3> QED
      BY <3>1, <3>2, ZenonT(60)
  <2> QED
    BY <2>1, <2>3, ZenonT(60) DEF SameNumbers
\* Then the order is kept.
<1>NumbersKept. ASSUME InOrder, SameNumbers, UNCHANGED <<base, posted>>, Finished' = Finished
                PROVE  InOrder'
  BY <1>NumbersKept, ZenonT(60) DEF InOrder, SameNumbers
\* The answers of the peer leave the numbers alone, and change one slot at most.
<1>AnswersAre. ASSUME Types, OnWriteAck \/ OnReadRsp
               PROVE  /\ UNCHANGED <<base, posted, outh, outt>>
                      /\ out' = out \/ \E j, st : Tells(j, st)
  <2> USE <1>AnswersAre
  <2>1. RingTypes /\ NicTypes
    BY ZenonT(60) DEF Types
  <2>2. UNCHANGED <<base, posted, outh, outt>>
    BY ZenonT(60) DEF OnWriteAck, OnReadRsp, appVars, ctxVars
  <2>3. out' = out \/ \E op : Waiting(op, arg.req) # {} /\ Answer(Oldest(Waiting(op, arg.req)))
    BY ZenonT(60) DEF OnWriteAck, OnReadRsp
  <2>4. ASSUME NEW op, Waiting(op, arg.req) # {}, Answer(Oldest(Waiting(op, arg.req)))
        PROVE  \E j, st : Tells(j, st)
    <3>1. outh' = outh /\ outt' = outt
      BY <2>2, ZenonT(60)
    <3> QED
      BY <3>1, <2>1, <2>4, AnswerTells, ZenonT(60)
  <2> QED
    BY <2>2, <2>3, <2>4, ZenonT(60)
<1>1. RingTypes
  BY ZenonT(60) DEF Types
<1>2. ASSUME OffRing
      PROVE  InOrder'
  <2>1. UNCHANGED <<out, outh, outt>> /\ UNCHANGED <<base, posted>> /\ Finished' = Finished
    BY <1>2, OffRingSame, FinishedSame, ZenonT(60)
  <2>2. SameNumbers
    BY <2>1, SameView, ZenonT(60) DEF SameNumbers
  <2> QED
    BY <2>1, <2>2, <1>NumbersKept, ZenonT(60)
<1>3. ASSUME PostRecord
      PROVE  InOrder'
  <2>1. ~RingFull
    BY <1>3, ZenonT(60) DEF PostRecord, CallOK
  <2> QED
    BY <2>1, <1>3, RecordOrder, ZenonT(60)
<1>4. ASSUME PostFail
      PROVE  InOrder'
  <2>1. app.pc = "fail" /\ UNCHANGED <<base, posted>> /\ Finished' = Finished
    BY <1>4, FinishedSame, ZenonT(60) DEF PostFail, ctxVars
  <2>2. Outstanding > 0
    BY <2>1, ZenonT(60) DEF CallOK
  <2>3. SameNumbers
    BY <2>2, <1>1, <1>4, FailTells, <1>TellsNumbers, ZenonT(60)
  <2> QED
    BY <2>1, <2>3, <1>NumbersKept, ZenonT(60)
<1>5. ASSUME PollComplete
      PROVE  InOrder'
  BY <1>5, PollOrder, ZenonT(60)
<1>6. ASSUME CreateContext
      PROVE  InOrder'
  <2>1. Len(Finished') = 0 /\ outh' = 0 /\ outt' = 0 /\ base' = posted /\ posted' = posted /\ posted \in Nat
    BY <1>6, FinishedCreate, OrderTypes, ZenonT(60) DEF CreateContext
  <2>2. Outstanding' = 0
    <3>1. Outstanding' = (0 - 0) % MaxOut
      BY <2>1, ZenonT(60) DEF Outstanding
    <3> QED
      BY <3>1, ConstantsAssumption
  <2>3. posted + 0 + 0 = posted /\ (\A i : i \notin 1 .. 0) /\ \A i : i \notin 0 .. 0 - 1
    BY <2>1
  <2> QED
    BY <2>1, <2>2, <2>3, ZenonT(60) DEF InOrder
<1>7. ASSUME OnWriteAck \/ OnReadRsp
      PROVE  InOrder'
  <2>1. UNCHANGED <<base, posted>> /\ Finished' = Finished
    BY <1>7, <1>AnswersAre, FinishedSame, ZenonT(60)
  <2>2. UNCHANGED <<out, outh, outt>> \/ \E j, st : Tells(j, st)
    BY <1>7, <1>AnswersAre, ZenonT(60)
  <2>3. SameNumbers
    <3>1. CASE UNCHANGED <<out, outh, outt>>
      BY <3>1, SameView, ZenonT(60) DEF SameNumbers
    <3>2. CASE \E j, st : Tells(j, st)
      BY <3>2, <1>1, <1>TellsNumbers, ZenonT(60)
    <3> QED
      BY <3>1, <3>2, <2>2, ZenonT(60)
  <2> QED
    BY <2>1, <2>3, <1>NumbersKept, ZenonT(60)
<1> QED
  BY <1>2, <1>3, <1>4, <1>5, <1>6, <1>7, StepIs, ZenonT(60)

\* Every step keeps what a call relies on.
LEMMA CallKept ==
  ASSUME Types, CallOK, Next
  PROVE  CallOK'
<1>1. RingTypes /\ app \in Thread /\ Outstanding \in Nat
  BY OrderTypes, ZenonT(60) DEF Types, AppTypes
<1>2. ASSUME NEW op \in Opcode, PostStart(op)
      PROVE  CallOK'
  <2>1. /\ app.pc = "idle" /\ ctx = "live" /\ ~RingFull /\ UNCHANGED <<outh, outt, ctx>>
        /\ \/ app' = [Idle EXCEPT !.pc = "record", !.op = op, !.req = IF HasReq(op) THEN req_seq ELSE 0]
           \/ app' = app
    BY <1>2, ZenonT(60) DEF PostStart, ringVars, ctxVars
  <2>2. app'.pc = "record" \/ app'.pc = "idle"
    BY <2>1, ZenonT(60) DEF Idle
  <2> QED
    BY <2>1, <2>2, ZenonT(60) DEF CallOK, RingFull
<1>3. ASSUME PostRecord
      PROVE  CallOK'
  <2>1. app.pc = "record" /\ app' = [app EXCEPT !.pc = IF app.op = "CAS" THEN "pump" ELSE "send"] /\ ctx' = ctx
    BY <1>3, ZenonT(60) DEF PostRecord, ctxVars
  <2>2. app'.pc \in {"pump", "send"}
    BY <2>1, <1>1, ZenonT(60) DEF Thread
  <2>3. Outstanding' = Outstanding + 1
    BY <2>1, <1>1, <1>3, RecordView, ZenonT(60) DEF CallOK
  <2>4. Outstanding' > 0
    BY <2>3, <1>1
  <2>5. app'.pc # "record" /\ ctx' = "live"
    BY <2>1, <2>2, ZenonT(60) DEF CallOK
  <2> QED
    BY <2>4, <2>5, ZenonT(60) DEF CallOK
<1>4. ASSUME PostSend
      PROVE  CallOK'
  <2>1. app.pc = "send" /\ app' = [app EXCEPT !.pc = IF Accepts THEN "pump" ELSE "fail"] /\ UNCHANGED <<ctx, outh, outt>>
    BY <1>4, ZenonT(60) DEF PostSend, ctxVars, ringVars
  <2>2. app'.pc \in {"pump", "fail"}
    BY <2>1, <1>1, ZenonT(60) DEF Thread
  <2>3. Outstanding' > 0 /\ ctx' = "live"
    BY <2>1, ZenonT(60) DEF CallOK, Outstanding
  <2>4. app'.pc # "record"
    BY <2>2, ZenonT(60)
  <2> QED
    BY <2>3, <2>4, ZenonT(60) DEF CallOK
<1>5. ASSUME PostFail
      PROVE  CallOK'
  <2>1. app.pc = "fail" /\ app' = [app EXCEPT !.pc = "pump"] /\ ctx' = ctx
    BY <1>5, ZenonT(60) DEF PostFail, ctxVars
  <2>2. app'.pc = "pump" /\ ctx' = "live"
    BY <2>1, <1>1, ZenonT(60) DEF Thread, CallOK
  <2> QED
    BY <2>2, ZenonT(60) DEF CallOK
<1>6. ASSUME PollStart
      PROVE  CallOK'
  <2>1. ctx = "live" /\ ctx' = ctx /\ \E c : app' = [Idle EXCEPT !.pc = "poll", !.cqe = c, !.werr = fatal']
    BY <1>6, ZenonT(60) DEF PollStart, ctxVars
  <2>2. app'.pc = "poll"
    BY <2>1, ZenonT(60) DEF Idle
  <2> QED
    BY <2>1, <2>2, ZenonT(60) DEF CallOK
<1>7. ASSUME PostPump \/ PollComplete
      PROVE  CallOK'
  <2>1. app' = Idle
    BY <1>7, ZenonT(60) DEF PostPump, PollComplete
  <2>2. app'.pc = "idle"
    BY <2>1, ZenonT(60) DEF Idle
  <2> QED
    BY <2>2, ZenonT(60) DEF CallOK
<1>8. ASSUME DeleteContext \/ ReleaseNic \/ CreateContext
      PROVE  CallOK'
  <2>1. app' = app /\ (app.pc = "idle" \/ ctx = "closing" \/ ctx = "freed")
    BY <1>8, ZenonT(60) DEF DeleteContext, ReleaseNic, CreateContext, NicReusable
  <2>2. app.pc = "idle"
    BY <2>1, ZenonT(60) DEF CallOK
  <2> QED
    BY <2>1, <2>2, ZenonT(60) DEF CallOK
<1>9. ASSUME \/ PostRecv \/ PollRecv \/ BgSwap \/ BgSend \/ BgSendFails \/ BgRecv \/ OnWriteAck \/ OnReadRsp
             \/ OnWrite \/ OnReadReq \/ OnSend
      PROVE  CallOK'
  <2>1. UNCHANGED <<app, ctx, outh, outt>>
    BY <1>9, ZenonT(60) DEF PostRecv, PollRecv, BgSwap, BgSend, BgSendFails, BgRecv, OnWriteAck, OnReadRsp, OnWrite,
         OnReadReq, OnSend, appVars, ctxVars, ringVars
  <2> QED
    BY <2>1, ZenonT(60) DEF CallOK, RingFull, Outstanding
<1> QED
  BY <1>2, <1>3, <1>4, <1>5, <1>6, <1>7, <1>8, <1>9, ZenonT(60) DEF Next, Post, Poll, Bg, BgPeer

-----------------------------------------------------------------------------
(* Sequences of frames, in the order of their requests.                    *)

\* The elements of s.
Members(s) == {s[i] : i \in 1 .. Len(s)}
Sorted(s) == \A i, k \in 1 .. Len(s) : i < k => s[i].wr < s[k].wr
Precede(S, U) == \A x \in S, y \in U : x.wr < y.wr

\* The empty sequence.
LEMMA EmptyMembers ==
  Members(<< >>) = {} /\ Sorted(<< >>) /\ Len(<< >>) = 0
<1>1. Len(<< >>) = 0 /\ 1 .. 0 = {}
  BY SMT
<1> QED
  BY <1>1, ZenonT(60) DEF Members, Sorted

\* What is added to s is its last element.
Added(s, x, t) ==
  /\ Members(t) = Members(s) \cup {x} /\ Len(t) = Len(s) + 1
  /\ t[Len(s) + 1] = x /\ \A i \in 1 .. Len(s) : t[i] = s[i]
  /\ (Sorted(s) /\ \A y \in Members(s) : y.wr < x.wr) => Sorted(t)

\* Append does that.
LEMMA AppendAdds ==
  ASSUME NEW T, NEW s \in Seq(T), NEW x \in T
  PROVE  Append(s, x) \in Seq(T) /\ Added(s, x, Append(s, x))
<1>1. PICK t, n : t = Append(s, x) /\ n = Len(s)
  BY ZenonT(60)
<1>2. /\ t \in Seq(T) /\ Len(t) = n + 1 /\ n \in Nat /\ t[n + 1] = x
      /\ \A i \in 1 .. n : t[i] = s[i]
  BY <1>1, AppendIs
<1>3. ASSUME NEW i \in 1 .. n + 1
      PROVE  i \in 1 .. n \/ i = n + 1
  BY <1>2
<1>4. \A i \in 1 .. n : i \in 1 .. n + 1
  BY <1>2
<1>5. n + 1 \in 1 .. n + 1 /\ \A i \in 1 .. n : ~(n + 1 < i)
  BY <1>2
<1>6. Members(t) = {t[i] : i \in 1 .. n + 1} /\ Members(s) = {s[i] : i \in 1 .. n}
  BY <1>1, <1>2, ZenonT(60) DEF Members
<1>7. Members(t) = Members(s) \cup {x}
  <2>1. ASSUME NEW y \in Members(t)
        PROVE  y \in Members(s) \cup {x}
    BY <2>1, <1>2, <1>3, <1>6, ZenonT(60)
  <2>2. ASSUME NEW y \in Members(s) \cup {x}
        PROVE  y \in Members(t)
    BY <2>2, <1>2, <1>4, <1>5, <1>6, ZenonT(60)
  <2> QED
    BY <2>1, <2>2, ZenonT(60)
<1>8. ASSUME Sorted(s), \A y \in Members(s) : y.wr < x.wr
      PROVE  Sorted(t)
  <2>1. /\ \A i, k \in 1 .. n : i < k => s[i].wr < s[k].wr
        /\ \A i \in 1 .. n : s[i].wr < x.wr
    BY <1>1, <1>6, <1>8, ZenonT(60) DEF Sorted
  <2>2. ASSUME NEW i \in 1 .. n + 1, NEW k \in 1 .. n + 1, i < k
        PROVE  t[i].wr < t[k].wr
    <3>1. i \in 1 .. n
      BY <2>2, <1>2
    <3> QED
      BY <3>1, <2>1, <2>2, <1>2, <1>3, ZenonT(60)
  <2> QED
    BY <2>2, <1>2, ZenonT(60) DEF Sorted
<1> QED
  BY <1>1, <1>2, <1>7, <1>8, ZenonT(60) DEF Added

\* What is taken from s is its first element.
Removed(s, x, t) ==
  /\ x \in Members(s) /\ Members(s) = Members(t) \cup {x} /\ Len(s) = Len(t) + 1
  /\ Sorted(s) => Sorted(t) /\ \A y \in Members(t) : x.wr < y.wr

\* Head and Tail do that.
LEMMA TailRemoves ==
  ASSUME NEW T, NEW s \in Seq(T), s # << >>
  PROVE  Head(s) \in T /\ Tail(s) \in Seq(T) /\ Removed(s, Head(s), Tail(s))
<1>1. PICK t, n, x : t = Tail(s) /\ n = Len(t) /\ x = Head(s)
  BY ZenonT(60)
<1>2. Head(s) \in T /\ Tail(s) \in Seq(T)
  BY HeadTailIs, ZenonT(60)
<1>3. /\ Len(s) = n + 1 /\ n \in Nat /\ x = s[1]
      /\ \A i \in 1 .. n : t[i] = s[i + 1]
  BY <1>1
<1>4. \A i \in 1 .. n : i + 1 \in 1 .. n + 1 /\ 1 < i + 1
  BY <1>3
<1>5. 1 \in 1 .. n + 1 /\ \A i \in 1 .. n + 1 : i = 1 \/ \E j \in 1 .. n : i = j + 1
  <2>1. 1 \in 1 .. n + 1
    BY <1>3
  <2>2. ASSUME NEW i \in 1 .. n + 1, i # 1
        PROVE  \E j \in 1 .. n : i = j + 1
    <3>1. i - 1 \in 1 .. n /\ i = (i - 1) + 1
      BY <2>2, <1>3
    <3> QED
      BY <3>1, ZenonT(60)
  <2> QED
    BY <2>1, <2>2, ZenonT(60)
<1>6. Members(s) = {s[i] : i \in 1 .. n + 1} /\ Members(t) = {t[i] : i \in 1 .. n}
  BY <1>1, <1>3, ZenonT(60) DEF Members
<1>7. x \in Members(s)
  BY <1>3, <1>5, <1>6, ZenonT(60)
<1>8. Members(s) = Members(t) \cup {x}
  <2>1. ASSUME NEW y \in Members(s)
        PROVE  y \in Members(t) \cup {x}
    <3>1. PICK i \in 1 .. n + 1 : y = s[i]
      BY <2>1, <1>6, ZenonT(60)
    <3>2. CASE i = 1
      BY <3>1, <3>2, <1>3, ZenonT(60)
    <3>3. CASE \E j \in 1 .. n : i = j + 1
      BY <3>1, <3>3, <1>3, <1>6, ZenonT(60)
    <3> QED
      BY <3>2, <3>3, <1>5, ZenonT(60)
  <2>2. ASSUME NEW y \in Members(t)
        PROVE  y \in Members(s)
    BY <2>2, <1>3, <1>4, <1>6, ZenonT(60)
  <2> QED
    BY <2>1, <2>2, <1>7, ZenonT(60)
<1>9. ASSUME Sorted(s)
      PROVE  Sorted(t) /\ \A y \in Members(t) : x.wr < y.wr
  <2>1. \A i, k \in 1 .. n + 1 : i < k => s[i].wr < s[k].wr
    BY <1>3, <1>9, ZenonT(60) DEF Sorted
  <2>2. \A i, k \in 1 .. n : i < k => i + 1 < k + 1
    BY <1>3
  <2>3. Sorted(t)
    BY <2>1, <2>2, <1>1, <1>3, <1>4, ZenonT(60) DEF Sorted
  <2>4. \A i \in 1 .. n : x.wr < t[i].wr
    BY <2>1, <1>3, <1>4, <1>5, ZenonT(60)
  <2> QED
    BY <2>3, <2>4, <1>6, ZenonT(60)
<1> QED
  BY <1>1, <1>2, <1>3, <1>7, <1>8, <1>9, ZenonT(60) DEF Removed

-----------------------------------------------------------------------------
(* The receives of the peer.                                               *)

\* Something behind the last of two parts is behind both.
LEMMA AddedBehind ==
  ASSUME NEW T, NEW d \in Seq(T), NEW j \in Seq(T), NEW x \in T
  PROVE  Added(d \o j, x, d \o Append(j, x))
<1>1. Follows(d \o (j \o <<x>>), d \o j, <<x>>)
  <2>1. <<x>> \in Seq(T)
    OBVIOUS
  <2> QED
    BY <2>1, Regrouped, ZenonT(60)
<1>2. j \o <<x>> = Append(j, x)
  OBVIOUS
<1>3. PICK e : e = d \o j
  BY ZenonT(60)
<1>4. e \in Seq(T)
  BY <1>3, ConcatIs, ZenonT(60)
<1>5. e \o <<x>> = Append(e, x)
  BY <1>4
<1>6. d \o Append(j, x) = Append(e, x)
  BY <1>1, <1>2, <1>3, <1>5, ZenonT(60) DEF Follows
<1>7. Added(e, x, Append(e, x))
  BY <1>4, AppendAdds, ZenonT(60)
<1> QED
  BY <1>3, <1>6, <1>7, ZenonT(60)

\* The completions of receives are a sequence.
LEMMA ReceivedType ==
  ASSUME Types
  PROVE  Received \in Seq(Receipt)
<1>1. delivered["B"] \in Seq(Receipt) /\ jfc["B"] \in Seq(Receipt)
  BY ZenonT(60) DEF Types, ComplTypes
<1> QED
  BY <1>1, ConcatIs, ZenonT(60) DEF Received

\* The message takes the oldest receive.
Receives ==
  /\ OnSend /\ rq # << >> /\ rq' = Tail(rq) /\ recvs' = recvs
  /\ \E r \in Receipt :
       /\ r.wr = Head(wire["B"]).wr /\ r.recv = Head(rq)
       /\ Added(Received, r, Received')

\* Receives are at most posted.
NoReceipt == Received' = Received /\ (PostRecv \/ UNCHANGED <<rq, recvs>>)

\* Only a message adds one.
LEMMA ReceivedIs ==
  ASSUME Types, Next
  PROVE  Receives \/ NoReceipt
<1> DEFINE S == Seq(Finish) \cup Seq(Receipt)
<1>1. /\ jfc \in [Node -> S] /\ delivered \in [Node -> S]
      /\ jfc["B"] \in Seq(Receipt) /\ delivered["B"] \in Seq(Receipt) /\ RestTypes /\ NicTypes
  BY ZenonT(60) DEF Types, ComplTypes
<1>2. "A" \in Node /\ "B" \in Node /\ "A" # "B" /\ Seq(Receipt) \subseteq S
  BY DEF Node
<1>3. ASSUME UNCHANGED complVars
      PROVE  Received' = Received
  BY <1>3, ZenonT(60) DEF complVars, Received
<1>4. ASSUME PollComplete \/ CreateContext
      PROVE  Received' = Received
  <2>1. PICK a, b : jfc' = [jfc EXCEPT !["A"] = a] /\ delivered' = [delivered EXCEPT !["A"] = b]
    BY <1>4, ZenonT(60) DEF PollComplete, Collect, CreateContext
  <2>2. jfc'["B"] = jfc["B"] /\ delivered'["B"] = delivered["B"]
    BY <2>1, <1>1, <1>2, ZenonT(60)
  <2> QED
    BY <2>2, ZenonT(60) DEF Received
<1>5. ASSUME PollRecv
      PROVE  Received' = Received
  <2>1. << >> \in Seq(Receipt) /\ Collect("B", << >>)
    BY <1>5, EmptyIs, ZenonT(60) DEF PollRecv
  <2>2. Collects(Receipt, S, "B", << >>)
    BY <2>1, <1>1, <1>2, ZenonT(60) DEF Collects
  <2>3. Collected(Receipt, S, "B", << >>)
    BY <2>2, CollectIs, ZenonT(60)
  <2>4. Follows(Received', Received, << >>)
    BY <2>3, ZenonT(60) DEF Collected, Received
  <2>5. PICK r : r = Received
    BY ZenonT(60)
  <2>6. r \o << >> = r
    BY <2>5, ReceivedType, ConcatIs, ZenonT(60)
  <2> QED
    BY <2>4, <2>5, <2>6, ZenonT(60) DEF Follows
<1>6. ASSUME OnSend
      PROVE  Receives \/ NoReceipt
  <2>1. PICK r : r = [wr |-> Head(wire["B"]).wr, recv |-> Head(rq)]
    BY ZenonT(60)
  <2>2. /\ delivered' = delivered
        /\ recvs' = recvs
        /\ (jfc' = jfc /\ rq' = rq) \/ (rq # << >> /\ rq' = Tail(rq) /\ jfc' = [jfc EXCEPT !["B"] = Append(jfc["B"], r)])
    BY <2>1, <1>1, <1>2, <1>6, ZenonT(60) DEF OnSend, Consumed
  <2>3. CASE jfc' = jfc /\ rq' = rq
    BY <2>2, <2>3, ZenonT(60) DEF Received, NoReceipt
  <2>4. CASE rq # << >> /\ rq' = Tail(rq) /\ jfc' = [jfc EXCEPT !["B"] = Append(jfc["B"], r)]
    <3>1. wire["B"] # << >> /\ wire["B"] \in Seq(Frames) /\ rq \in Seq(Nat)
      BY <1>1, <1>6, WireType, ZenonT(60) DEF OnSend, Arrives, RestTypes
    <3>2. Head(wire["B"]) \in Frames /\ Head(rq) \in Nat
      BY <3>1, <2>4, HeadTailIs, ZenonT(60)
    <3>3. r \in Receipt /\ r.wr = Head(wire["B"]).wr /\ r.recv = Head(rq)
      BY <2>1, <3>2, ZenonT(60) DEF Frames, Receipt
    <3>4. jfc'["B"] = Append(jfc["B"], r)
      BY <2>4, <1>1, <1>2, ZenonT(60)
    <3>5. Received' = delivered["B"] \o Append(jfc["B"], r) /\ Received = delivered["B"] \o jfc["B"]
      BY <3>4, <2>2, ZenonT(60) DEF Received
    <3>6. Added(delivered["B"] \o jfc["B"], r, delivered["B"] \o Append(jfc["B"], r))
      BY <3>3, <1>1, AddedBehind, ZenonT(60)
    <3>7. Added(Received, r, Received')
      BY <3>5, <3>6, ZenonT(60)
    <3> QED
      BY <3>3, <3>7, <2>2, <2>4, <1>6, ZenonT(60) DEF Receives
  <2> QED
    BY <2>2, <2>3, <2>4, ZenonT(60)
<1>7. PollComplete \/ CreateContext \/ PollRecv \/ OnSend \/ UNCHANGED complVars
  BY ZenonT(60) DEF Next, Post, Poll, Bg, BgPeer, PostStart, PostRecord, PostSend, PostFail, PostPump, PollStart, PostRecv,
       DeleteContext, ReleaseNic, BgSwap, BgSend, BgSendFails, BgRecv, OnWriteAck, OnReadRsp, OnWrite, OnReadReq
<1>8. OnSend \/ PostRecv \/ UNCHANGED <<rq, recvs>>
  BY ZenonT(60) DEF Next, Post, Poll, Bg, BgPeer, PostStart, PostRecord, PostSend, PostFail, PostPump, PollStart, PollComplete, PollRecv,
       DeleteContext, ReleaseNic, CreateContext, BgSwap, BgSend, BgSendFails, BgRecv, OnWriteAck, OnReadRsp, OnWrite, OnReadReq,
       recvVars
<1> QED
  BY <1>3, <1>4, <1>5, <1>6, <1>7, <1>8, ZenonT(60) DEF NoReceipt

\* The i-th completion is that of the i-th receive, and those that wait follow.
RecvOK ==
  /\ \A i \in 1 .. Len(Received) : Received[i].recv = i
  /\ Len(Received) + Len(rq) = recvs
  /\ \A i \in 1 .. Len(rq) : rq[i] = Len(Received) + i

\* Every step keeps it.
LEMMA RecvKept ==
  ASSUME Types, RecvOK, Next
  PROVE  RecvOK'
<1>1. PICK n, m, q : n = Len(Received) /\ q = rq /\ m = Len(q)
  BY ZenonT(60)
<1>2. q \in Seq(Nat) /\ n \in Nat /\ m \in Nat /\ recvs \in Nat
  <2>1. q \in Seq(Nat) /\ recvs \in Nat /\ Received \in Seq(Receipt)
    BY <1>1, ReceivedType, ZenonT(60) DEF Types, RestTypes
  <2> QED
    BY <2>1, <1>1
<1>3. /\ \A i \in 1 .. n : Received[i].recv = i
      /\ n + m = recvs
      /\ \A i \in 1 .. m : q[i] = n + i
  BY <1>1, ZenonT(60) DEF RecvOK
<1>4. n + m = recvs
  BY <1>3, ZenonT(60)
<1>5. ASSUME Receives
      PROVE  RecvOK'
  <2>1. q # << >> /\ rq' = Tail(q) /\ recvs' = recvs
    BY <1>1, <1>5, ZenonT(60) DEF Receives
  <2>2. PICK r \in Receipt : r.recv = Head(q) /\ Added(Received, r, Received')
    BY <1>1, <1>5, ZenonT(60) DEF Receives
  <2>3. Len(Received') = n + 1 /\ Received'[n + 1] = r /\ \A i \in 1 .. n : Received'[i] = Received[i]
    BY <2>2, <1>1, ZenonT(60) DEF Added
  <2>4. PICK p : p = Tail(q)
    BY ZenonT(60)
  <2>5. Head(q) = q[1] /\ m > 0 /\ Len(p) = m - 1 /\ \A i \in 1 .. m - 1 : p[i] = q[i + 1]
    BY <2>1, <2>4, <1>1, <1>2
  <2>6. 1 \in 1 .. m /\ \A i \in 1 .. m - 1 : i + 1 \in 1 .. m /\ n + (i + 1) = (n + 1) + i
    BY <2>5, <1>2
  <2>7. r.recv = n + 1
    BY <2>2, <2>5, <2>6, <1>3, ZenonT(60)
  <2>8. \A i \in 1 .. n + 1 : i \in 1 .. n \/ i = n + 1
    BY <1>2
  <2>9. \A i \in 1 .. n + 1 : Received'[i].recv = i
    BY <2>3, <2>7, <2>8, <1>3, ZenonT(60)
  <2>10. \A i \in 1 .. m - 1 : p[i] = (n + 1) + i
    BY <2>5, <2>6, <1>3, ZenonT(60)
  <2>11. (n + 1) + (m - 1) = recvs
    BY <1>2, <1>4
  <2> QED
    BY <2>1, <2>3, <2>4, <2>5, <2>9, <2>10, <2>11, ZenonT(60) DEF RecvOK
<1>6. ASSUME Received' = Received, PostRecv
      PROVE  RecvOK'
  <2>1. PICK k : k = IF RecvList <= MaxRecv - 1 - m THEN RecvList ELSE MaxRecv - 1 - m
    BY ZenonT(60)
  <2>2. k > 0 /\ recvs' = recvs + k /\ rq' = q \o [i \in 1 .. k |-> recvs + i]
    BY <2>1, <1>1, <1>6, ZenonT(60) DEF PostRecv
  <2>3. k \in Nat
    BY <2>1, <2>2, <1>2, ConstantsAssumption
  <2>4. PICK b : b = [i \in 1 .. k |-> recvs + i]
    BY ZenonT(60)
  <2>5. b \in Seq(Nat) /\ Len(b) = k /\ \A i \in 1 .. k : b[i] = recvs + i
    <3>1. b \in [1 .. k -> Nat]
      BY <2>4, <2>3, <1>2
    <3>2. b \in Seq(Nat) /\ Len(b) = k
      BY <3>1, <2>3
    <3> QED
      BY <3>2, <2>4, ZenonT(60)
  <2>6. PICK p : p = rq'
    BY ZenonT(60)
  <2>7. Joined(p, q, b)
    BY <2>2, <2>4, <2>5, <2>6, <1>2, FollowsIs, ZenonT(60) DEF Follows
  <2>8. Len(p) = m + k /\ \A i \in 1 .. m + k : p[i] = IF i <= m THEN q[i] ELSE b[i - m]
    BY <2>5, <2>7, <1>1, ZenonT(60) DEF Joined
  <2>9. ASSUME NEW i \in 1 .. m + k
        PROVE  p[i] = n + i
    <3>1. CASE i <= m
      <4>1. i \in 1 .. m
        BY <3>1, <2>3, <1>2
      <4> QED
        BY <4>1, <3>1, <2>8, <1>3, ZenonT(60)
    <3>2. CASE ~(i <= m)
      <4>1. PICK j : j = i - m
        BY ZenonT(60)
      <4>2. j \in 1 .. k /\ recvs + j = n + i
        BY <4>1, <3>2, <2>3, <1>2, <1>4
      <4> QED
        BY <4>1, <4>2, <3>2, <2>5, <2>8, ZenonT(60)
    <3> QED
      BY <3>1, <3>2, ZenonT(60)
  <2>10. n + (m + k) = recvs + k
    BY <2>3, <1>2, <1>4
  <2> QED
    BY <2>2, <2>6, <2>8, <2>9, <2>10, <1>1, <1>3, <1>6, ZenonT(60) DEF RecvOK
<1>7. ASSUME Received' = Received, UNCHANGED <<rq, recvs>>
      PROVE  RecvOK'
  BY <1>7, ZenonT(60) DEF RecvOK
<1> QED
  BY <1>5, <1>6, <1>7, ReceivedIs, ZenonT(60) DEF NoReceipt

-----------------------------------------------------------------------------
(* What a step does to the frames.                                         *)

\* The frame the callback of A is called with, if any.
Called == IF bg = "cb" THEN {arg} ELSE {}
\* The answers on their way to A, and the frames on their way to B.
Answers == Called \cup Members(wire["A"])
Line == Members(wire["B"]) \cup (Members(batch) \cup Members(tx_q))

\* PostSend queues frame f.
QueueMove(f) ==
  /\ f \in Frames /\ f.tag = SideTag(app.op) /\ f.wr = posted /\ f.req = app.req
  /\ Added(tx_q, f, tx_q') /\ UNCHANGED <<wire, batch, bg, arg>>

\* BgSwap takes the queue.
SwapMove ==
  /\ Members(batch) = {} /\ batch' = tx_q /\ Members(tx_q') = {} /\ Sorted(tx_q')
  /\ UNCHANGED <<wire, arg>> /\ bg # "cb" /\ bg' # "cb"

\* BgSend sends frame f.
SendMove(f) ==
  /\ Removed(batch, f, batch') /\ Added(wire["B"], f, wire'["B"]) /\ wire'["A"] = wire["A"]
  /\ UNCHANGED <<tx_q, arg>> /\ bg # "cb" /\ bg' # "cb"

\* BgSendFails drops the part that was taken.
DropMove ==
  /\ Members(batch') = {} /\ Sorted(batch') /\ UNCHANGED <<wire, tx_q, arg>> /\ bg # "cb" /\ bg' # "cb"

\* BgRecv reads frame f.
ReadMove(f) ==
  /\ Removed(wire["A"], f, wire'["A"]) /\ wire'["B"] = wire["B"] /\ UNCHANGED <<batch, tx_q>>
  /\ bg # "cb" /\ ((bg' = "cb" /\ arg' = f) \/ bg' # "cb")

\* B answers frame f with frame g.
ReplyMove(f, g) ==
  /\ f \in Frames /\ g \in Frames /\ g.wr = f.wr /\ g.req = f.req
  /\ Removed(wire["B"], f, wire'["B"]) /\ Added(wire["A"], g, wire'["A"])
  /\ UNCHANGED <<batch, tx_q, bg, arg>>

\* OnSend takes frame f.
TakeMove(f) ==
  /\ f = Head(wire["B"]) /\ Removed(wire["B"], f, wire'["B"]) /\ wire'["A"] = wire["A"]
  /\ UNCHANGED <<batch, tx_q, bg, arg>>

\* The callback returns.
ReturnMove == bg = "cb" /\ bg' # "cb" /\ UNCHANGED <<wire, batch, tx_q>>

\* Nothing moves.
NoMove == UNCHANGED <<wire, batch, tx_q, bg, arg>>

\* The effect of a step of each action.
LEMMA QueueIs ==
  ASSUME Types, PostSend
  PROVE  (Accepts /\ \E f : QueueMove(f)) \/ (~Accepts /\ NoMove)
<1>1. PICK f : f = Frame(SideTag(app.op), posted, app.req, "ok")
  BY ZenonT(60)
<1>2. DataSend(f) /\ UNCHANGED <<wire, batch, bg, arg>>
  BY <1>1, ZenonT(60) DEF PostSend, threadVars
<1>3. CASE ~Accepts
  BY <1>2, <1>3, ZenonT(60) DEF DataSend, NoMove
<1>4. CASE Accepts
  <2>1. app \in Thread /\ posted \in Nat /\ tx_q \in Seq(Frames) /\ app.op # "CAS"
    BY ZenonT(60) DEF PostSend, Types, AppTypes, NicTypes
  <2>2. app.op \in Opcode /\ app.req \in Nat
    BY <2>1, ZenonT(60) DEF Thread
  <2>3. PICK t : t = SideTag(app.op)
    BY ZenonT(60)
  <2>4. t \in {"W", "R", "S"}
    BY <2>1, <2>2, <2>3, SideTagIs, ZenonT(60)
  <2>5. f = [tag |-> t, wr |-> posted, req |-> app.req, status |-> "ok"]
    BY <2>3, <1>1, ZenonT(60) DEF Frame
  <2>6. f \in Frames /\ f.tag = t /\ f.wr = posted /\ f.req = app.req
    BY <2>1, <2>2, <2>4, <2>5, ZenonT(60) DEF Frames, Status
  <2>7. tx_q' = Append(tx_q, f)
    BY <1>2, <1>4, ZenonT(60) DEF DataSend
  <2>8. Added(tx_q, f, tx_q')
    BY <2>1, <2>6, <2>7, AppendAdds, ZenonT(60)
  <2> QED
    BY <2>3, <2>6, <2>8, <1>2, <1>4, ZenonT(60) DEF QueueMove
<1> QED
  BY <1>3, <1>4, ZenonT(60)

\* The background thread of A.
LEMMA ThreadMoves ==
  ASSUME Types, TxOK
  PROVE  /\ BgSwap => SwapMove
         /\ BgSend => \E f : SendMove(f)
         /\ BgSendFails => DropMove
         /\ BgRecv => \E f : ReadMove(f)
         /\ OnWriteAck \/ OnReadRsp => ReturnMove
<1>1. /\ wire["A"] \in Seq(Frames) /\ wire["B"] \in Seq(Frames) /\ "A" \in Node /\ "B" \in Node /\ "A" # "B"
      /\ wire \in [Node -> Seq(Frames)] /\ batch \in Seq(Frames)
  BY WireType DEF Types, NicTypes
<1>2. BgSwap => SwapMove
  BY EmptyMembers, ZenonT(60) DEF BgSwap, SwapMove, TxOK
<1>3. ASSUME BgSend
      PROVE  \E f : SendMove(f)
  <2>1. PICK f, b, w : f = Head(batch) /\ b = Tail(batch) /\ w = Append(wire["B"], f)
    BY ZenonT(60)
  <2>2. /\ bg = "send" /\ wire' = [wire EXCEPT !["B"] = w] /\ batch' = b /\ bg' \in {"recv", "send"}
        /\ UNCHANGED <<tx_q, arg>>
    BY <2>1, <1>1, <1>3, ZenonT(60) DEF BgSend
  <2>3. f \in Frames /\ Removed(batch, f, b)
    BY <2>1, <2>2, <1>1, TailRemoves, ZenonT(60) DEF TxOK
  <2>4. Added(wire["B"], f, w)
    <3>1. f \in Frames /\ wire["B"] \in Seq(Frames)
      BY <2>3, <1>1, ZenonT(60)
    <3>2. Added(wire["B"], f, Append(wire["B"], f))
      BY <3>1, AppendAdds, ZenonT(60)
    <3> QED
      BY <3>2, <2>1, ZenonT(60)
  <2>5. wire'["B"] = w /\ wire'["A"] = wire["A"]
    BY <2>2, <1>1, ZenonT(60)
  <2>6. bg # "cb" /\ bg' # "cb"
    BY <2>2, ZenonT(60)
  <2> QED
    BY <2>2, <2>3, <2>4, <2>5, <2>6, ZenonT(60) DEF SendMove
<1>4. BgSendFails => DropMove
  BY EmptyMembers, ZenonT(60) DEF BgSendFails, DropMove
<1>5. ASSUME BgRecv
      PROVE  \E f : ReadMove(f)
  <2>1. PICK f, w : f = Head(wire["A"]) /\ w = Tail(wire["A"])
    BY ZenonT(60)
  <2>2. /\ bg = "recv" /\ wire["A"] # << >> /\ wire' = [wire EXCEPT !["A"] = w] /\ UNCHANGED <<batch, tx_q>>
        /\ (bg' = "cb" /\ arg' = f) \/ bg' = bg
    BY <2>1, <1>1, <1>5, ZenonT(60) DEF BgRecv, nicVars
  <2>3. Removed(wire["A"], f, w)
    <3>1. wire["A"] # << >> /\ wire["A"] \in Seq(Frames)
      BY <2>2, <1>1, ZenonT(60)
    <3>2. Removed(wire["A"], Head(wire["A"]), Tail(wire["A"]))
      BY <3>1, TailRemoves, ZenonT(60)
    <3> QED
      BY <3>2, <2>1, ZenonT(60)
  <2>4. wire'["A"] = w /\ wire'["B"] = wire["B"]
    BY <2>2, <1>1, ZenonT(60)
  <2> QED
    BY <2>2, <2>3, <2>4, ZenonT(60) DEF ReadMove
<1>6. OnWriteAck \/ OnReadRsp => ReturnMove
  BY ZenonT(60) DEF OnWriteAck, OnReadRsp, Returns, ReturnMove, nicVars
<1> QED
  BY <1>2, <1>3, <1>4, <1>5, <1>6, ZenonT(60)

\* What the answer to a write says.
WriteReply(f, g) ==
  /\ f.tag = "W" /\ g.tag = "A" /\ fetched' = fetched
  /\ (g.status = "ok" /\ landed' = landed \cup {f.wr}) \/ (g.status = "abort" /\ landed' = landed)

\* The answer to a read.
ReadReply(f, g) ==
  f.tag = "R" /\ g.tag = "r" /\ g.status \in {"ok", "abort"} /\ fetched' = fetched /\ landed' = landed

\* B answers a frame tagged ask with one tagged tag.
Replied(ask, tag, valid) ==
  \E f, g : /\ ReplyMove(f, g) /\ f = Head(wire["B"]) /\ f.tag = ask /\ g.tag = tag
            /\ g.status = IF valid THEN "ok" ELSE "abort"

\* The callback of B.
LEMMA PeerMoves ==
  ASSUME Types
  PROVE  /\ OnWrite => \E f, g : ReplyMove(f, g) /\ WriteReply(f, g)
         /\ OnReadReq => \E f, g : ReplyMove(f, g) /\ ReadReply(f, g)
         /\ OnSend => \E f : TakeMove(f)
\* Reply does that.
<1>ReplyMoves. ASSUME NicTypes, NEW tag \in {"A", "r"}, NEW valid \in BOOLEAN, NEW ask \in {"W", "R"}, Arrives(ask), Reply(tag, valid),
                      UNCHANGED <<batch, tx_q, bg, arg>>
               PROVE  Replied(ask, tag, valid)
  <2> USE <1>ReplyMoves
  <2>1. PICK f \in Frames, g \in Frames :
             /\ f = Head(wire["B"]) /\ wire["B"] # << >> /\ f.tag = ask
             /\ g.tag = tag /\ g.wr = f.wr /\ g.req = f.req /\ g.status = (IF valid THEN "ok" ELSE "abort")
             /\ wire'["B"] = Tail(wire["B"]) /\ wire'["A"] = Append(wire["A"], g)
    <3>1. ReplyFrames(ask, tag, valid)
      BY ReplyIs, ZenonT(60)
    <3> QED
      BY <3>1, ZenonT(60) DEF ReplyFrames
  <2>2. wire["A"] \in Seq(Frames) /\ wire["B"] \in Seq(Frames)
    BY WireType, ZenonT(60)
  <2>3. Removed(wire["B"], f, wire'["B"]) /\ Added(wire["A"], g, wire'["A"])
    BY <2>1, <2>2, TailRemoves, AppendAdds, ZenonT(60)
  <2>4. ReplyMove(f, g)
    BY <2>1, <2>3, ZenonT(60) DEF ReplyMove
  <2> QED
    BY <2>1, <2>4, ZenonT(60) DEF Replied
<1>1. /\ wire["A"] \in Seq(Frames) /\ wire["B"] \in Seq(Frames) /\ "A" \in Node /\ "B" \in Node /\ "A" # "B"
      /\ wire \in [Node -> Seq(Frames)] /\ NicTypes
  BY WireType DEF Types, NicTypes
<1>3. ASSUME OnWrite
      PROVE  \E f, g : ReplyMove(f, g) /\ WriteReply(f, g)
  <2>1. PICK valid \in BOOLEAN :
          /\ landed' = (IF valid THEN landed \union {Head(wire["B"]).wr} ELSE landed)
          /\ Reply("A", valid)
    BY <1>3, ZenonT(60) DEF OnWrite
  <2>2. Arrives("W") /\ fetched' = fetched /\ UNCHANGED <<batch, tx_q, bg, arg>>
    BY <1>3, ZenonT(60) DEF OnWrite, nicVars
  <2>3. "A" \in {"A", "r"} /\ "W" \in {"W", "R"}
    BY ZenonT(60)
  <2>4. Replied("W", "A", valid)
    BY <2>1, <2>2, <2>3, <1>1, <1>ReplyMoves, ZenonT(60)
  <2>5. PICK f, g : /\ ReplyMove(f, g) /\ f = Head(wire["B"]) /\ f.tag = "W" /\ g.tag = "A"
                    /\ g.status = IF valid THEN "ok" ELSE "abort"
    BY <2>4, ZenonT(60) DEF Replied
  <2>6. WriteReply(f, g)
    BY <2>1, <2>2, <2>5, ZenonT(60) DEF WriteReply
  <2> QED
    BY <2>5, <2>6, ZenonT(60)
<1>4. ASSUME OnReadReq
      PROVE  \E f, g : ReplyMove(f, g) /\ ReadReply(f, g)
  <2>1. PICK valid \in BOOLEAN : Reply("r", valid)
    BY <1>4, ZenonT(60) DEF OnReadReq
  <2>2. Arrives("R") /\ UNCHANGED <<fetched, landed>> /\ UNCHANGED <<batch, tx_q, bg, arg>>
    BY <1>4, ZenonT(60) DEF OnReadReq, nicVars, dataVars
  <2>3. "r" \in {"A", "r"} /\ "R" \in {"W", "R"}
    BY ZenonT(60)
  <2>4. Replied("R", "r", valid)
    BY <2>1, <2>2, <2>3, <1>1, <1>ReplyMoves, ZenonT(60)
  <2>5. PICK f, g : /\ ReplyMove(f, g) /\ f = Head(wire["B"]) /\ f.tag = "R" /\ g.tag = "r"
                    /\ g.status = IF valid THEN "ok" ELSE "abort"
    BY <2>4, ZenonT(60) DEF Replied
  <2>6. ReadReply(f, g)
    BY <2>2, <2>5, ZenonT(60) DEF ReadReply
  <2> QED
    BY <2>5, <2>6, ZenonT(60)
<1>5. ASSUME OnSend
      PROVE  \E f : TakeMove(f)
  <2>1. PICK f, w : f = Head(wire["B"]) /\ w = Tail(wire["B"])
    BY ZenonT(60)
  <2>2. wire["B"] # << >> /\ wire' = [wire EXCEPT !["B"] = w] /\ UNCHANGED <<batch, tx_q, bg, arg>>
    BY <2>1, <1>1, <1>5, ZenonT(60) DEF OnSend, Arrives, Taken, nicVars
  <2>3. Removed(wire["B"], f, w)
    BY <2>1, <2>2, <1>1, TailRemoves, ZenonT(60)
  <2>4. wire'["B"] = w /\ wire'["A"] = wire["A"]
    BY <2>2, <1>1, ZenonT(60)
  <2> QED
    BY <2>1, <2>2, <2>3, <2>4, ZenonT(60) DEF TakeMove
<1> QED
  BY <1>3, <1>4, <1>5, ZenonT(60)

-----------------------------------------------------------------------------
(* Frames and receipts are in the order of the requests.                   *)

\* The last request that may have a frame.
Sent == IF app.pc \in {"send", "fail"} THEN posted - 1 ELSE posted

\* No element is of a later request than m.
Upto(S, m) == \A x \in S : x.wr \in Nat /\ x.wr <= m

\* It grows, and by the request of the frame that is queued.
LEMMA SentIs ==
  ASSUME Types, Next
  PROVE  /\ Sent \in Int /\ Sent' \in Int /\ Sent <= Sent' /\ posted \in Nat
         /\ PostSend /\ Accepts => Sent + 1 = posted /\ Sent' = posted
<1>1. app \in Thread /\ posted \in Nat
  BY ZenonT(60) DEF Types, AppTypes
<1>2. posted - 1 \in Int /\ posted \in Int /\ posted - 1 <= posted /\ (posted - 1) + 1 = posted
  BY <1>1
<1>3. ASSUME posted' = posted, app'.pc \notin {"send", "fail"}
      PROVE  Sent \in Int /\ Sent' \in Int /\ Sent <= Sent' /\ Sent' = posted
  <2>1. Sent' = posted /\ (Sent = posted \/ Sent = posted - 1)
    BY <1>3, ZenonT(60) DEF Sent
  <2> QED
    BY <2>1, <1>1, JustBefore, ZenonT(60)
<1>4. ASSUME UNCHANGED <<app, posted>>
      PROVE  Sent \in Int /\ Sent' \in Int /\ Sent <= Sent'
  <2>1. Sent' = Sent /\ (Sent = posted \/ Sent = posted - 1)
    BY <1>4, ZenonT(60) DEF Sent
  <2> QED
    BY <2>1, <1>1, JustBefore, ZenonT(60)
<1>5. ASSUME PostRecord
      PROVE  Sent \in Int /\ Sent' \in Int /\ Sent <= Sent'
  <2>1. app.pc = "record" /\ posted' = posted + 1
    BY <1>5, ZenonT(60) DEF PostRecord
  <2>2. Sent = posted /\ (Sent' = posted + 1 \/ Sent' = (posted + 1) - 1)
    BY <2>1, ZenonT(60) DEF Sent
  <2> QED
    BY <2>2, <1>1, JustBefore, ZenonT(60)
<1>6. ASSUME PostSend
      PROVE  /\ Sent \in Int /\ Sent' \in Int /\ Sent <= Sent'
             /\ Accepts => Sent + 1 = posted /\ Sent' = posted
  <2>1. app.pc = "send" /\ posted' = posted /\ app' = [app EXCEPT !.pc = IF Accepts THEN "pump" ELSE "fail"]
    BY <1>6, ZenonT(60) DEF PostSend
  <2>2. app'.pc = IF Accepts THEN "pump" ELSE "fail"
    BY <2>1, <1>1, ZenonT(60) DEF Thread
  <2>3. Sent = posted - 1 /\ (Accepts => Sent' = posted) /\ (~Accepts => Sent' = posted - 1)
    <3>1. "send" \in {"send", "fail"} /\ "fail" \in {"send", "fail"} /\ "pump" \notin {"send", "fail"}
      BY ZenonT(60)
    <3>2. Sent = posted - 1
      BY <3>1, <2>1, ZenonT(60) DEF Sent
    <3>3. CASE Accepts
      <4>1. app'.pc = "pump"
        BY <3>3, <2>2, ZenonT(60)
      <4>2. Sent' = posted
        BY <4>1, <3>1, <2>1, ZenonT(60) DEF Sent
      <4> QED
        BY <4>2, <3>2, <3>3, ZenonT(60)
    <3>4. CASE ~Accepts
      <4>1. app'.pc = "fail"
        BY <3>4, <2>2, ZenonT(60)
      <4>2. Sent' = posted - 1
        BY <4>1, <3>1, <2>1, ZenonT(60) DEF Sent
      <4> QED
        BY <4>2, <3>2, <3>4, ZenonT(60)
    <3> QED
      BY <3>3, <3>4, ZenonT(60)
  <2>4. Accepts \/ ~Accepts
    BY ZenonT(60)
  <2>5. posted - 1 <= posted - 1
    BY <1>1, JustBefore, ZenonT(60)
  <2> QED
    BY <2>3, <2>4, <2>5, <1>2, ZenonT(60)
<1>7. ASSUME NEW op \in Opcode, PostStart(op)
      PROVE  posted' = posted /\ app'.pc \notin {"send", "fail"}
  <2>1. /\ app.pc = "idle" /\ posted' = posted
        /\ \/ app' = [Idle EXCEPT !.pc = "record", !.op = op, !.req = IF HasReq(op) THEN req_seq ELSE 0]
           \/ app' = app
    BY <1>7, ZenonT(60) DEF PostStart
  <2> QED
    BY <2>1, ZenonT(60) DEF Idle
<1>8. ASSUME PostFail
      PROVE  posted' = posted /\ app'.pc \notin {"send", "fail"}
  <2>1. posted' = posted /\ app' = [app EXCEPT !.pc = "pump"]
    BY <1>8, ZenonT(60) DEF PostFail
  <2> QED
    BY <2>1, <1>1, ZenonT(60) DEF Thread
<1>9. ASSUME PollStart
      PROVE  posted' = posted /\ app'.pc \notin {"send", "fail"}
  <2>1. posted' = posted /\ \E c : app' = [Idle EXCEPT !.pc = "poll", !.cqe = c, !.werr = fatal']
    BY <1>9, ZenonT(60) DEF PollStart
  <2> QED
    BY <2>1, ZenonT(60) DEF Idle
<1>10. ASSUME PostPump \/ PollComplete
       PROVE  posted' = posted /\ app'.pc \notin {"send", "fail"}
  <2>1. posted' = posted /\ app' = Idle
    BY <1>10, ZenonT(60) DEF PostPump, PollComplete
  <2> QED
    BY <2>1, ZenonT(60) DEF Idle
<1>11. ASSUME \/ PostRecv \/ PollRecv \/ DeleteContext \/ ReleaseNic \/ CreateContext
              \/ BgSwap \/ BgSend \/ BgSendFails \/ BgRecv \/ OnWriteAck \/ OnReadRsp \/ OnWrite \/ OnReadReq \/ OnSend
       PROVE  UNCHANGED <<app, posted>>
  BY <1>11, ZenonT(60) DEF PostRecv, PollRecv, DeleteContext, ReleaseNic, CreateContext, BgSwap, BgSend, BgSendFails, BgRecv,
       OnWriteAck, OnReadRsp, OnWrite, OnReadReq, OnSend, appVars
<1>12. PostSend /\ Accepts => Sent + 1 = posted /\ Sent' = posted
  BY <1>6, ZenonT(60)
<1>13. Sent \in Int /\ Sent' \in Int /\ Sent <= Sent'
  BY <1>3, <1>4, <1>5, <1>6, <1>7, <1>8, <1>9, <1>10, <1>11, ZenonT(60) DEF Next, Post, Poll, Bg, BgPeer
<1> QED
  BY <1>1, <1>12, <1>13, ZenonT(60)

\* One behind the other: the frames c of the callback, a and w on the wire to A
\* and to B, b that the thread took, q of the queue, and before those for B
\* the receipts r.
Stages(c, a, w, b, q, r) ==
  /\ Precede(c, a) /\ Precede(c \cup a, w \cup (b \cup q)) /\ Precede(r, w \cup (b \cup q))
  /\ Precede(w, b \cup q) /\ Precede(b, q)

\* Each queue is in order, and so are the queues.
FlowOK ==
  /\ Sorted(wire["A"]) /\ Sorted(wire["B"]) /\ Sorted(batch) /\ Sorted(tx_q) /\ Sorted(Received)
  /\ Stages(Called, Members(wire["A"]), Members(wire["B"]), Members(batch), Members(tx_q), Members(Received))
  /\ Upto(Answers \cup Line, Sent) /\ Upto(Members(Received), Sent)

\* A bound that grows is a bound.
LEMMA UptoGrows ==
  ASSUME NEW S, NEW m \in Int, NEW n \in Int, m <= n, Upto(S, m)
  PROVE  Upto(S, n)
<1>1. ASSUME NEW x \in S
      PROVE  x.wr \in Nat /\ x.wr <= n
  <2>1. PICK w : w = x.wr
    BY ZenonT(60)
  <2>2. w \in Nat /\ w <= m
    BY <2>1, ZenonT(60) DEF Upto
  <2>3. w <= n
    BY <2>2
  <2> QED
    BY <2>1, <2>2, <2>3, ZenonT(60)
<1> QED
  BY <1>1, ZenonT(60) DEF Upto

\* Nothing that is on the way is later than what is queued next.
LEMMA UptoBefore ==
  ASSUME NEW S, NEW m \in Int, NEW n \in Int, m + 1 = n, Upto(S, m)
  PROVE  \A x \in S : x.wr < n
<1>1. ASSUME NEW x \in S
      PROVE  x.wr < n
  <2>1. PICK w : w = x.wr
    BY ZenonT(60)
  <2>2. w \in Nat /\ w <= m
    BY <2>1, ZenonT(60) DEF Upto
  <2>3. w < n
    BY <2>2
  <2> QED
    BY <2>1, <2>3, ZenonT(60)
<1> QED
  BY <1>1, ZenonT(60)

\* The order of every two stages.
Pairs(c, a, w, b, q, r) ==
  /\ \A x \in c, y \in a : x.wr < y.wr
  /\ \A x \in c, y \in w : x.wr < y.wr
  /\ \A x \in c, y \in b : x.wr < y.wr
  /\ \A x \in c, y \in q : x.wr < y.wr
  /\ \A x \in a, y \in w : x.wr < y.wr
  /\ \A x \in a, y \in b : x.wr < y.wr
  /\ \A x \in a, y \in q : x.wr < y.wr
  /\ \A x \in r, y \in w : x.wr < y.wr
  /\ \A x \in r, y \in b : x.wr < y.wr
  /\ \A x \in r, y \in q : x.wr < y.wr
  /\ \A x \in w, y \in b : x.wr < y.wr
  /\ \A x \in w, y \in q : x.wr < y.wr
  /\ \A x \in b, y \in q : x.wr < y.wr

\* The queues of the next state are in order.
SortedNext ==
  Sorted(wire'["A"]) /\ Sorted(wire'["B"]) /\ Sorted(batch') /\ Sorted(tx_q') /\ Sorted(Received')

\* Every step keeps the order of the frames.
LEMMA FlowKept ==
  ASSUME Types, TxOK, FlowOK, Next
  PROVE  FlowOK'
\* Stages is that.
<1>StagesPairs. ASSUME NEW c, NEW a, NEW w, NEW b, NEW q, NEW r, Stages(c, a, w, b, q, r)
                PROVE  Pairs(c, a, w, b, q, r)
  <2> USE <1>StagesPairs
  <2>1. /\ \A x \in c, y \in a : x.wr < y.wr
        /\ \A x \in c, y \in w : x.wr < y.wr
        /\ \A x \in c, y \in b : x.wr < y.wr
        /\ \A x \in c, y \in q : x.wr < y.wr
    BY ZenonT(60) DEF Stages, Precede
  <2>2. /\ \A x \in a, y \in w : x.wr < y.wr
        /\ \A x \in a, y \in b : x.wr < y.wr
        /\ \A x \in a, y \in q : x.wr < y.wr
    BY ZenonT(60) DEF Stages, Precede
  <2>3. /\ \A x \in r, y \in w : x.wr < y.wr
        /\ \A x \in r, y \in b : x.wr < y.wr
        /\ \A x \in r, y \in q : x.wr < y.wr
    BY ZenonT(60) DEF Stages, Precede
  <2>4. /\ \A x \in w, y \in b : x.wr < y.wr
        /\ \A x \in w, y \in q : x.wr < y.wr
        /\ \A x \in b, y \in q : x.wr < y.wr
    BY ZenonT(60) DEF Stages, Precede
  <2> QED
    BY <2>1, <2>2, <2>3, <2>4, ZenonT(60) DEF Pairs
\* A frame is queued that is later than all.
<1>StagesQueue. ASSUME NEW c, NEW a, NEW w, NEW b, NEW q, NEW r, NEW f, Stages(c, a, w, b, q, r),
                       \A x \in (c \cup a) \cup (w \cup (b \cup q)) : x.wr < f.wr, \A x \in r : x.wr < f.wr
                PROVE  Stages(c, a, w, b, q \cup {f}, r)
  <2> USE <1>StagesQueue
  <2>1. Pairs(c, a, w, b, q, r)
    BY <1>StagesPairs, ZenonT(60)
  <2> QED
    BY <2>1, ZenonT(60) DEF Pairs, Stages, Precede
\* The queue is taken.
<1>StagesSwap. ASSUME NEW c, NEW a, NEW w, NEW b, NEW q, NEW r, Stages(c, a, w, b, q, r), b = {}
               PROVE  Stages(c, a, w, q, {}, r)
  <2> USE <1>StagesSwap
  <2>1. Pairs(c, a, w, b, q, r)
    BY <1>StagesPairs, ZenonT(60)
  <2> QED
    BY <2>1, ZenonT(60) DEF Pairs, Stages, Precede
\* What was taken is dropped.
<1>StagesDrop. ASSUME NEW c, NEW a, NEW w, NEW b, NEW q, NEW r, Stages(c, a, w, b, q, r)
               PROVE  Stages(c, a, w, {}, q, r)
  <2> USE <1>StagesDrop
  <2>1. Pairs(c, a, w, b, q, r)
    BY <1>StagesPairs, ZenonT(60)
  <2> QED
    BY <2>1, ZenonT(60) DEF Pairs, Stages, Precede
\* A frame is sent.
<1>StagesSend. ASSUME NEW c, NEW a, NEW w, NEW b, NEW q, NEW r, NEW f, NEW s, Stages(c, a, w, b, q, r),
                      b = s \cup {f}, \A y \in s : f.wr < y.wr
               PROVE  Stages(c, a, w \cup {f}, s, q, r)
  <2> USE <1>StagesSend
  <2>1. Pairs(c, a, w, b, q, r)
    BY <1>StagesPairs, ZenonT(60)
  <2> QED
    BY <2>1, ZenonT(60) DEF Pairs, Stages, Precede
\* A frame is read, and the callback is called.
<1>StagesRead. ASSUME NEW c, NEW a, NEW w, NEW b, NEW q, NEW r, NEW f, NEW s, Stages(c, a, w, b, q, r),
                      a = s \cup {f}, \A y \in s : f.wr < y.wr
               PROVE  Stages({f}, s, w, b, q, r)
  <2> USE <1>StagesRead
  <2>1. Pairs(c, a, w, b, q, r)
    BY <1>StagesPairs, ZenonT(60)
  <2> QED
    BY <2>1, ZenonT(60) DEF Pairs, Stages, Precede
\* A frame is answered.
<1>StagesReply. ASSUME NEW c, NEW a, NEW w, NEW b, NEW q, NEW r, NEW f, NEW g, NEW s, Stages(c, a, w, b, q, r),
                       g.wr = f.wr, w = s \cup {f}, \A y \in s : f.wr < y.wr
                PROVE  Stages(c, a \cup {g}, s, b, q, r)
  <2> USE <1>StagesReply
  <2>1. Pairs(c, a, w, b, q, r)
    BY <1>StagesPairs, ZenonT(60)
  <2> QED
    BY <2>1, ZenonT(60) DEF Pairs, Stages, Precede
\* A frame is taken, and the message received or not.
<1>StagesTake. ASSUME NEW c, NEW a, NEW w, NEW b, NEW q, NEW r, NEW f, NEW h, NEW s, Stages(c, a, w, b, q, r),
                      h.wr = f.wr, w = s \cup {f}, \A y \in s : f.wr < y.wr
               PROVE  Stages(c, a, s, b, q, r) /\ Stages(c, a, s, b, q, r \cup {h})
  <2> USE <1>StagesTake
  <2>1. Pairs(c, a, w, b, q, r)
    BY <1>StagesPairs, ZenonT(60)
  <2> QED
    BY <2>1, ZenonT(60) DEF Pairs, Stages, Precede
\* The callback returns.
<1>StagesReturn. ASSUME NEW c, NEW a, NEW w, NEW b, NEW q, NEW r, Stages(c, a, w, b, q, r)
                 PROVE  Stages({}, a, w, b, q, r)
  <2> USE <1>StagesReturn
  <2>1. Pairs(c, a, w, b, q, r)
    BY <1>StagesPairs, ZenonT(60)
  <2> QED
    BY <2>1, ZenonT(60) DEF Pairs, Stages, Precede
<1>1. PICK c, a, w, b, q, r : /\ c = Called /\ a = Members(wire["A"]) /\ w = Members(wire["B"]) /\ b = Members(batch)
                              /\ q = Members(tx_q) /\ r = Members(Received)
  BY ZenonT(60)
<1>2. /\ Sorted(wire["A"]) /\ Sorted(wire["B"]) /\ Sorted(batch) /\ Sorted(tx_q) /\ Sorted(Received)
      /\ Stages(c, a, w, b, q, r) /\ Upto((c \cup a) \cup (w \cup (b \cup q)), Sent) /\ Upto(r, Sent)
  BY <1>1, ZenonT(60) DEF FlowOK, Answers, Line
<1>3. /\ Sent \in Int /\ Sent' \in Int /\ Sent <= Sent' /\ posted \in Int
      /\ PostSend /\ Accepts => Sent + 1 = posted /\ Sent' = posted
  <2>1. /\ Sent \in Int /\ Sent' \in Int /\ Sent <= Sent' /\ posted \in Nat
        /\ PostSend /\ Accepts => Sent + 1 = posted /\ Sent' = posted
    BY SentIs, ZenonT(60)
  <2>2. posted \in Int
    BY <2>1
  <2> QED
    BY <2>1, <2>2, ZenonT(60)
<1>4. ASSUME NEW c2, NEW a2, NEW w2, NEW b2, NEW q2, NEW r2, Stages(c2, a2, w2, b2, q2, r2), SortedNext,
             Called' = c2, Members(wire'["A"]) = a2, Members(wire'["B"]) = w2, Members(batch') = b2,
             Members(tx_q') = q2, Members(Received') = r2,
             Upto((c2 \cup a2) \cup (w2 \cup (b2 \cup q2)), Sent'), Upto(r2, Sent')
      PROVE  FlowOK'
  BY <1>4, ZenonT(60) DEF FlowOK, SortedNext, Answers, Line
<1>5. ASSUME NEW c2, NEW a2, NEW w2, NEW b2, NEW q2, NEW r2, Stages(c2, a2, w2, b2, q2, r2), SortedNext,
             Called' = c2, Members(wire'["A"]) = a2, Members(wire'["B"]) = w2, Members(batch') = b2,
             Members(tx_q') = q2, Members(Received') = r2,
             Upto((c2 \cup a2) \cup (w2 \cup (b2 \cup q2)), Sent), Upto(r2, Sent)
      PROVE  FlowOK'
  <2>1. Upto((c2 \cup a2) \cup (w2 \cup (b2 \cup q2)), Sent') /\ Upto(r2, Sent')
    BY <1>3, <1>5, UptoGrows, ZenonT(60)
  <2> QED
    BY <2>1, <1>4, <1>5, ZenonT(60)
<1>6. ASSUME NoMove, Received' = Received
      PROVE  FlowOK'
  <2>1. /\ Called' = c /\ Members(wire'["A"]) = a /\ Members(wire'["B"]) = w /\ Members(batch') = b
        /\ Members(tx_q') = q /\ Members(Received') = r /\ SortedNext
    BY <1>1, <1>2, <1>6, ZenonT(60) DEF NoMove, Called, SortedNext
  <2> QED
    BY <2>1, <1>2, <1>5, ZenonT(60)
<1>7. ASSUME NEW f, PostSend, Accepts, QueueMove(f), Received' = Received
      PROVE  FlowOK'
  <2>1. /\ Called' = c /\ Members(wire'["A"]) = a /\ Members(wire'["B"]) = w /\ Members(batch') = b
        /\ Members(tx_q') = q \cup {f} /\ Members(Received') = r /\ f \in Frames /\ f.wr = posted
        /\ wire' = wire /\ batch' = batch
    BY <1>1, <1>7, ZenonT(60) DEF QueueMove, Called, Added
  <2>2. (\A x \in (c \cup a) \cup (w \cup (b \cup q)) : x.wr < posted) /\ \A x \in r : x.wr < posted
    <3>1. Sent \in Int /\ posted \in Int /\ Sent + 1 = posted /\ Upto((c \cup a) \cup (w \cup (b \cup q)), Sent) /\ Upto(r, Sent)
      BY <1>2, <1>3, <1>7, ZenonT(60)
    <3>2. \A x \in (c \cup a) \cup (w \cup (b \cup q)) : x.wr < posted
      BY <3>1, UptoBefore, ZenonT(60)
    <3>3. \A x \in r : x.wr < posted
      BY <3>1, UptoBefore, ZenonT(60)
    <3> QED
      BY <3>2, <3>3, ZenonT(60)
  <2>3. Stages(c, a, w, b, q \cup {f}, r)
    BY <2>1, <2>2, <1>2, <1>StagesQueue, ZenonT(60)
  <2>4. Sorted(tx_q')
    <3>1. \A x \in q : x.wr < f.wr
      BY <2>1, <2>2, ZenonT(60)
    <3> QED
      BY <3>1, <1>1, <1>2, <1>7, ZenonT(60) DEF QueueMove, Added
  <2>5. SortedNext
    BY <2>1, <2>4, <1>2, <1>7, ZenonT(60) DEF SortedNext
  <2>6. Upto((c \cup a) \cup (w \cup (b \cup q)), Sent') /\ Upto(r, Sent')
    BY <1>2, <1>3, UptoGrows, ZenonT(60)
  <2>7. f.wr \in Nat /\ f.wr <= Sent'
    <3>1. posted \in Nat /\ Sent' = posted
      BY <1>3, <1>7, OrderTypes, ZenonT(60)
    <3>2. posted <= posted
      BY <3>1
    <3> QED
      BY <3>1, <3>2, <2>1, ZenonT(60)
  <2>8. Upto((c \cup a) \cup (w \cup (b \cup (q \cup {f}))), Sent')
    BY <2>6, <2>7, ZenonT(60) DEF Upto
  <2> QED
    BY <2>1, <2>3, <2>5, <2>6, <2>8, <1>4, ZenonT(60)
<1>8. ASSUME SwapMove, Received' = Received
      PROVE  FlowOK'
  <2>1. /\ Called' = c /\ Members(wire'["A"]) = a /\ Members(wire'["B"]) = w /\ Members(batch') = q
        /\ Members(tx_q') = {} /\ Members(Received') = r /\ b = {} /\ SortedNext
    BY <1>1, <1>2, <1>8, ZenonT(60) DEF SwapMove, Called, SortedNext
  <2>2. Stages(c, a, w, q, {}, r)
    BY <2>1, <1>2, <1>StagesSwap, ZenonT(60)
  <2>3. Upto((c \cup a) \cup (w \cup (q \cup {})), Sent)
    BY <1>2, ZenonT(60) DEF Upto
  <2> QED
    BY <2>1, <2>2, <2>3, <1>2, <1>5, ZenonT(60)
<1>9. ASSUME NEW f, SendMove(f), Received' = Received
      PROVE  FlowOK'
  <2>1. PICK s : s = Members(batch')
    BY ZenonT(60)
  <2>2. /\ Called' = c /\ Members(wire'["A"]) = a /\ Members(wire'["B"]) = w \cup {f} /\ Members(batch') = s
        /\ Members(tx_q') = q /\ Members(Received') = r /\ b = s \cup {f} /\ (\A y \in s : f.wr < y.wr)
    BY <2>1, <1>1, <1>2, <1>9, ZenonT(60) DEF SendMove, Called, Added, Removed
  <2>3. Stages(c, a, w \cup {f}, s, q, r)
    BY <2>2, <1>2, <1>StagesSend, ZenonT(60)
  <2>4. \A x \in w : x.wr < f.wr
    BY <2>2, <1>2, ZenonT(60) DEF Stages, Precede
  <2>5. SortedNext
    BY <2>4, <1>1, <1>2, <1>9, ZenonT(60) DEF SendMove, Added, Removed, SortedNext
  <2>6. Upto((c \cup a) \cup ((w \cup {f}) \cup (s \cup q)), Sent)
    BY <2>2, <1>2, ZenonT(60) DEF Upto
  <2> QED
    BY <2>2, <2>3, <2>5, <2>6, <1>2, <1>5, ZenonT(60)
<1>10. ASSUME DropMove, Received' = Received
       PROVE  FlowOK'
  <2>1. /\ Called' = c /\ Members(wire'["A"]) = a /\ Members(wire'["B"]) = w /\ Members(batch') = {}
        /\ Members(tx_q') = q /\ Members(Received') = r /\ SortedNext
    BY <1>1, <1>2, <1>10, ZenonT(60) DEF DropMove, Called, SortedNext
  <2>2. Stages(c, a, w, {}, q, r)
    BY <2>1, <1>2, <1>StagesDrop, ZenonT(60)
  <2>3. Upto((c \cup a) \cup (w \cup ({} \cup q)), Sent)
    BY <1>2, ZenonT(60) DEF Upto
  <2> QED
    BY <2>1, <2>2, <2>3, <1>2, <1>5, ZenonT(60)
<1>11. ASSUME NEW f, ReadMove(f), Received' = Received
       PROVE  FlowOK'
  <2>1. PICK s : s = Members(wire'["A"])
    BY ZenonT(60)
  <2>2. /\ (Called' = {f} \/ Called' = {}) /\ Members(wire'["A"]) = s /\ Members(wire'["B"]) = w /\ Members(batch') = b
        /\ Members(tx_q') = q /\ Members(Received') = r /\ a = s \cup {f} /\ (\A y \in s : f.wr < y.wr) /\ SortedNext
    BY <2>1, <1>1, <1>2, <1>11, ZenonT(60) DEF ReadMove, Called, Removed, SortedNext
  <2>3. Stages({f}, s, w, b, q, r) /\ Stages({}, s, w, b, q, r)
    <3>0. a = s \cup {f} /\ (\A y \in s : f.wr < y.wr) /\ Stages(c, a, w, b, q, r)
      BY <2>2, <1>2, ZenonT(60)
    <3>1. Stages({f}, s, w, b, q, r)
      BY <3>0, <1>StagesRead, ZenonT(60)
    <3>2. Stages({}, s, w, b, q, r)
      BY <3>1, <1>StagesReturn, ZenonT(60)
    <3> QED
      BY <3>1, <3>2, ZenonT(60)
  <2>4. Upto(({f} \cup s) \cup (w \cup (b \cup q)), Sent) /\ Upto(({} \cup s) \cup (w \cup (b \cup q)), Sent)
    BY <2>2, <1>2, ZenonT(60) DEF Upto
  <2>5. CASE Called' = {f}
    BY <2>2, <2>3, <2>4, <2>5, <1>2, <1>5, ZenonT(60)
  <2>6. CASE Called' = {}
    BY <2>2, <2>3, <2>4, <2>6, <1>2, <1>5, ZenonT(60)
  <2> QED
    BY <2>2, <2>5, <2>6, ZenonT(60)
<1>12. ASSUME NEW f, NEW g, ReplyMove(f, g), Received' = Received
       PROVE  FlowOK'
  <2>1. PICK s : s = Members(wire'["B"])
    BY ZenonT(60)
  <2>2. /\ Called' = c /\ Members(wire'["A"]) = a \cup {g} /\ Members(wire'["B"]) = s /\ Members(batch') = b
        /\ Members(tx_q') = q /\ Members(Received') = r /\ w = s \cup {f} /\ (\A y \in s : f.wr < y.wr) /\ g.wr = f.wr
    BY <2>1, <1>1, <1>2, <1>12, ZenonT(60) DEF ReplyMove, Called, Added, Removed
  <2>3. Stages(c, a \cup {g}, s, b, q, r)
    BY <2>2, <1>2, <1>StagesReply, ZenonT(60)
  <2>4. \A x \in a : x.wr < g.wr
    BY <2>2, <1>2, ZenonT(60) DEF Stages, Precede
  <2>5. SortedNext
    BY <2>4, <1>1, <1>2, <1>12, ZenonT(60) DEF ReplyMove, Added, Removed, SortedNext
  <2>6. Upto((c \cup (a \cup {g})) \cup (s \cup (b \cup q)), Sent)
    BY <2>2, <1>2, ZenonT(60) DEF Upto
  <2> QED
    BY <2>2, <2>3, <2>5, <2>6, <1>2, <1>5, ZenonT(60)
<1>13. ASSUME NEW f, TakeMove(f), Receives \/ Received' = Received
       PROVE  FlowOK'
  <2>1. PICK s : s = Members(wire'["B"])
    BY ZenonT(60)
  <2>2. /\ Called' = c /\ Members(wire'["A"]) = a /\ Members(wire'["B"]) = s /\ Members(batch') = b
        /\ Members(tx_q') = q /\ w = s \cup {f} /\ (\A y \in s : f.wr < y.wr) /\ f = Head(wire["B"])
    BY <2>1, <1>1, <1>2, <1>13, ZenonT(60) DEF TakeMove, Called, Removed
  <2>3. Upto((c \cup a) \cup (s \cup (b \cup q)), Sent) /\ f.wr \in Nat /\ f.wr <= Sent
    BY <2>2, <1>2, ZenonT(60) DEF Upto
  <2>4. Sorted(wire'["A"]) /\ Sorted(wire'["B"]) /\ Sorted(batch') /\ Sorted(tx_q')
    BY <1>2, <1>13, ZenonT(60) DEF TakeMove, Removed
  <2>5. CASE Receives
    <3>1. PICK h \in Receipt : h.wr = f.wr /\ Added(Received, h, Received')
      BY <2>2, <2>5, ZenonT(60) DEF Receives
    <3>2. Stages(c, a, s, b, q, r \cup {h})
      BY <3>1, <2>2, <1>2, <1>StagesTake, ZenonT(60)
    <3>3. \A x \in r : x.wr < h.wr
      BY <3>1, <2>2, <1>2, ZenonT(60) DEF Stages, Precede
    <3>4. SortedNext /\ Members(Received') = r \cup {h}
      BY <3>1, <3>3, <2>4, <1>1, <1>2, ZenonT(60) DEF Added, SortedNext
    <3>5. Upto(r \cup {h}, Sent)
      BY <3>1, <2>3, <1>2, ZenonT(60) DEF Upto
    <3> QED
      BY <3>2, <3>4, <3>5, <2>2, <2>3, <1>5, ZenonT(60)
  <2>6. CASE Received' = Received
    <3>1. Stages(c, a, s, b, q, r)
      BY <2>2, <1>2, <1>StagesTake, ZenonT(60)
    <3>2. SortedNext /\ Members(Received') = r
      BY <2>4, <2>6, <1>1, <1>2, ZenonT(60) DEF SortedNext
    <3> QED
      BY <3>1, <3>2, <2>2, <2>3, <1>2, <1>5, ZenonT(60)
  <2> QED
    BY <2>5, <2>6, <1>13, ZenonT(60)
<1>14. ASSUME ReturnMove, Received' = Received
       PROVE  FlowOK'
  <2>1. /\ Called' = {} /\ Members(wire'["A"]) = a /\ Members(wire'["B"]) = w /\ Members(batch') = b
        /\ Members(tx_q') = q /\ Members(Received') = r /\ SortedNext
    BY <1>1, <1>2, <1>14, ZenonT(60) DEF ReturnMove, Called, SortedNext
  <2>2. Stages({}, a, w, b, q, r)
    BY <2>1, <1>2, <1>StagesReturn, ZenonT(60)
  <2>3. Upto(({} \cup a) \cup (w \cup (b \cup q)), Sent)
    BY <1>2, ZenonT(60) DEF Upto
  <2> QED
    BY <2>1, <2>2, <2>3, <1>2, <1>5, ZenonT(60)
<1>15. Receives \/ Received' = Received
  BY ReceivedIs, ZenonT(60) DEF NoReceipt
<1>16. ASSUME OnSend
       PROVE  FlowOK'
  BY <1>13, <1>15, <1>16, PeerMoves, ZenonT(60)
<1>17. ASSUME ~OnSend
       PROVE  FlowOK'
  <2>1. Received' = Received
    BY <1>15, <1>17, ZenonT(60) DEF Receives
  <2>2. ASSUME \/ \E op \in Opcode : PostStart(op)
               \/ PostRecord \/ PostFail \/ PostPump \/ PollStart \/ PollComplete \/ PostRecv \/ PollRecv
               \/ DeleteContext \/ ReleaseNic \/ CreateContext
        PROVE  NoMove
    BY <2>2, ZenonT(60) DEF PostStart, PostRecord, PostFail, PostPump, PollStart, PollComplete, PostRecv, PollRecv,
         DeleteContext, ReleaseNic, CreateContext, NoMove, nicVars, threadVars
  <2>3. ASSUME PostSend
        PROVE  FlowOK'
    BY <2>1, <2>3, <1>6, <1>7, QueueIs, ZenonT(60)
  <2>4. ASSUME BgSwap \/ BgSend \/ BgSendFails \/ BgRecv \/ OnWriteAck \/ OnReadRsp
        PROVE  FlowOK'
    BY <2>1, <2>4, <1>8, <1>9, <1>10, <1>11, <1>14, ThreadMoves, ZenonT(60)
  <2>5. ASSUME OnWrite \/ OnReadReq
        PROVE  FlowOK'
    BY <2>1, <2>5, <1>12, PeerMoves, ZenonT(60)
  <2> QED
    BY <2>1, <2>2, <2>3, <2>4, <2>5, <1>6, <1>17, ZenonT(60) DEF Next, Post, Poll, Bg, BgPeer
<1> QED
  BY <1>16, <1>17, ZenonT(60)

\* Together with the types this is inductive.
OrderInv == InOrder /\ CallOK /\ RecvOK /\ FlowOK

\* Every step keeps it.
LEMMA OrderInvKept ==
  ASSUME Types, TxOK, OrderInv, [Next]_vars
  PROVE  OrderInv'
<1>1. CASE Next
  <2>1. InOrder' /\ CallOK' /\ RecvOK'
    BY <1>1, OrderKept, CallKept, RecvKept, ZenonT(60) DEF OrderInv
  <2>2. FlowOK'
    BY <1>1, FlowKept, ZenonT(60) DEF OrderInv
  <2> QED
    BY <2>1, <2>2, ZenonT(60) DEF OrderInv
<1>2. CASE UNCHANGED vars
  <2>1. UNCHANGED <<out, outh, outt, tx_q, batch, wire, bg, arg, app, ctx, base, posted, rq, recvs, jfc, delivered>>
    BY <1>2, ZenonT(60) DEF vars, appVars, ringVars, nicVars, threadVars, ctxVars, recvVars, complVars
  <2>2. Finished' = Finished /\ Received' = Received /\ Outstanding' = Outstanding /\ \A i : At(i)' = At(i)
    BY <2>1, ZenonT(60) DEF Finished, Received, Outstanding, At, Nth
  <2>3. InOrder' /\ CallOK' /\ RecvOK'
    BY <2>1, <2>2, ZenonT(60) DEF OrderInv, InOrder, CallOK, RingFull, RecvOK
  <2>4. Called' = Called /\ Answers' = Answers /\ Line' = Line /\ Sent' = Sent
    BY <2>1, ZenonT(60) DEF Called, Answers, Line, Sent
  <2>5. FlowOK'
    BY <2>1, <2>2, <2>4, ZenonT(60) DEF OrderInv, FlowOK
  <2> QED
    BY <2>3, <2>5, ZenonT(60) DEF OrderInv
<1> QED
  BY <1>1, <1>2, ZenonT(60)

\* The provider starts in such a state.
LEMMA OrderInvInit ==
  ASSUME Init
  PROVE  OrderInv
<1>1. "A" \in Node /\ "B" \in Node
  BY DEF Node
<1>2. /\ jfc["A"] = << >> /\ jfc["B"] = << >> /\ delivered["A"] = << >> /\ delivered["B"] = << >>
      /\ wire["A"] = << >> /\ wire["B"] = << >>
  BY <1>1, ZenonT(60) DEF Init
<1>3. << >> \o << >> = << >> /\ Len(<< >>) = 0
  BY SMT
<1>4. Finished = << >> /\ Received = << >>
  BY <1>2, <1>3, ZenonT(60) DEF Finished, Received
<1>5. outh = 0 /\ outt = 0 /\ base = 0 /\ posted = 0 /\ rq = << >> /\ recvs = 0 /\ app = Idle /\ bg = "recv"
      /\ batch = << >> /\ tx_q = << >>
  BY ZenonT(60) DEF Init
<1>6. Outstanding = 0
  <2>1. Outstanding = (0 - 0) % MaxOut
    BY <1>5, ZenonT(60) DEF Outstanding
  <2> QED
    BY <2>1, SlotNumbers, ZenonT(60)
<1>7. 1 .. 0 = {} /\ 0 .. 0 - 1 = {} /\ 0 + 0 + 0 = 0 /\ 0 + 0 = 0
  BY SMT
<1>8. InOrder /\ RecvOK
  BY <1>3, <1>4, <1>5, <1>6, <1>7, ZenonT(60) DEF InOrder, RecvOK
<1>9. app.pc = "idle"
  BY <1>5, ZenonT(60) DEF Idle
<1>10. CallOK
  BY <1>9, ZenonT(60) DEF CallOK
<1>11. Called = {} /\ Answers = {} /\ Line = {}
  BY <1>2, <1>5, EmptyMembers, ZenonT(60) DEF Called, Answers, Line
<1>12. FlowOK
  BY <1>2, <1>4, <1>5, <1>11, EmptyMembers, ZenonT(60) DEF FlowOK, Stages, Precede, Upto
<1> QED
  BY <1>8, <1>10, <1>12, ZenonT(60) DEF OrderInv

-----------------------------------------------------------------------------
(* What the frames say.                                                    *)

\* All frames on the way.
Items == Answers \cup Line

\* What precedes is of another request.
LEMMA PrecedeApart ==
  ASSUME NEW S, NEW m, Upto(S, m), NEW x \in S, NEW y \in S, x.wr < y.wr
  PROVE  x.wr # y.wr
<1>1. PICK i, k : i = x.wr /\ k = y.wr
  BY ZenonT(60)
<1>2. i \in Nat /\ k \in Nat /\ i < k
  BY <1>1, ZenonT(60) DEF Upto
<1>3. i # k
  BY <1>2
<1> QED
  BY <1>1, <1>3, ZenonT(60)

\* Frames go, and none comes.
Fewer == Answers' \subseteq Answers /\ Line' \subseteq Line
\* Frame f of the last request comes.
Comes(f) == QueueMove(f) /\ Answers' = Answers /\ Line' = Line \cup {f}
\* Frame g comes for f, and no other frame is of its request.
Turns(f, g) ==
  /\ f \in Line /\ Answers' = Answers \cup {g} /\ Line' \subseteq Line /\ g.wr = f.wr /\ g.req = f.req
  /\ (\A y \in Line' : y.wr # f.wr) /\ \A x \in Answers : x.wr # f.wr

\* The moves of frames, one by one.
LEMMA MovesAre ==
  ASSUME FlowOK
  PROVE  /\ NoMove \/ SwapMove \/ DropMove \/ ReturnMove => Fewer
         /\ \A f : SendMove(f) \/ ReadMove(f) \/ TakeMove(f) => Fewer
         /\ \A f : QueueMove(f) => Comes(f)
         /\ \A f, g : ReplyMove(f, g) => Turns(f, g)
<1>1. PICK c, a, w, b, q : /\ c = Called /\ a = Members(wire["A"]) /\ w = Members(wire["B"]) /\ b = Members(batch)
                           /\ q = Members(tx_q)
  BY ZenonT(60)
<1>2. Answers = c \cup a /\ Line = w \cup (b \cup q)
  BY <1>1, ZenonT(60) DEF Answers, Line
<1>3. PICK c2, a2, w2, b2, q2 : /\ c2 = Called' /\ a2 = Members(wire'["A"]) /\ w2 = Members(wire'["B"])
                                /\ b2 = Members(batch') /\ q2 = Members(tx_q')
  BY ZenonT(60)
<1>4. Answers' = c2 \cup a2 /\ Line' = w2 \cup (b2 \cup q2)
  BY <1>3, ZenonT(60) DEF Answers, Line
<1>5. ASSUME NoMove
      PROVE  Fewer
  <2>1. c2 = c /\ a2 = a /\ w2 = w /\ b2 = b /\ q2 = q
    BY <1>1, <1>3, <1>5, ZenonT(60) DEF NoMove, Called
  <2> QED
    BY <2>1, <1>2, <1>4, ZenonT(60) DEF Fewer
<1>6. ASSUME SwapMove
      PROVE  Fewer
  <2>1. c2 = c /\ a2 = a /\ w2 = w /\ b2 = q /\ q2 = {}
    BY <1>1, <1>3, <1>6, ZenonT(60) DEF SwapMove, Called
  <2> QED
    BY <2>1, <1>2, <1>4, ZenonT(60) DEF Fewer
<1>7. ASSUME DropMove
      PROVE  Fewer
  <2>1. c2 = c /\ a2 = a /\ w2 = w /\ b2 = {} /\ q2 = q
    BY <1>1, <1>3, <1>7, ZenonT(60) DEF DropMove, Called
  <2> QED
    BY <2>1, <1>2, <1>4, ZenonT(60) DEF Fewer
<1>8. ASSUME ReturnMove
      PROVE  Fewer
  <2>1. c2 = {} /\ a2 = a /\ w2 = w /\ b2 = b /\ q2 = q
    BY <1>1, <1>3, <1>8, ZenonT(60) DEF ReturnMove, Called
  <2> QED
    BY <2>1, <1>2, <1>4, ZenonT(60) DEF Fewer
<1>9. ASSUME NEW f, SendMove(f)
      PROVE  Fewer
  <2>1. c2 = c /\ a2 = a /\ w2 = w \cup {f} /\ b = b2 \cup {f} /\ q2 = q
    BY <1>1, <1>3, <1>9, ZenonT(60) DEF SendMove, Called, Added, Removed
  <2> QED
    BY <2>1, <1>2, <1>4, ZenonT(60) DEF Fewer
<1>10. ASSUME NEW f, ReadMove(f)
       PROVE  Fewer
  <2>1. (c2 = {f} \/ c2 = {}) /\ a = a2 \cup {f} /\ w2 = w /\ b2 = b /\ q2 = q
    BY <1>1, <1>3, <1>10, ZenonT(60) DEF ReadMove, Called, Removed
  <2> QED
    BY <2>1, <1>2, <1>4, ZenonT(60) DEF Fewer
<1>11. ASSUME NEW f, TakeMove(f)
       PROVE  Fewer
  <2>1. c2 = c /\ a2 = a /\ w = w2 \cup {f} /\ b2 = b /\ q2 = q
    BY <1>1, <1>3, <1>11, ZenonT(60) DEF TakeMove, Called, Removed
  <2> QED
    BY <2>1, <1>2, <1>4, ZenonT(60) DEF Fewer
<1>12. ASSUME NEW f, QueueMove(f)
       PROVE  Comes(f)
  <2>1. c2 = c /\ a2 = a /\ w2 = w /\ b2 = b /\ q2 = q \cup {f}
    BY <1>1, <1>3, <1>12, ZenonT(60) DEF QueueMove, Called, Added
  <2> QED
    BY <2>1, <1>2, <1>4, <1>12, ZenonT(60) DEF Comes
<1>13. ASSUME NEW f, NEW g, ReplyMove(f, g)
       PROVE  Turns(f, g)
  <2>1. c2 = c /\ a2 = a \cup {g} /\ w = w2 \cup {f} /\ b2 = b /\ q2 = q /\ g.wr = f.wr /\ g.req = f.req
    BY <1>1, <1>3, <1>13, ZenonT(60) DEF ReplyMove, Called, Added, Removed
  <2>2. \A y \in w2 : f.wr < y.wr
    BY <1>3, <1>13, ZenonT(60) DEF FlowOK, ReplyMove, Removed
  <2>3. Precede(c \cup a, w \cup (b \cup q)) /\ Precede(w, b \cup q) /\ Upto((c \cup a) \cup (w \cup (b \cup q)), Sent)
    BY <1>1, ZenonT(60) DEF FlowOK, Stages, Answers, Line
  <2>4. ASSUME NEW y \in Line'
        PROVE  y.wr # f.wr
    <3>1. f \in (c \cup a) \cup (w \cup (b \cup q)) /\ y \in (c \cup a) \cup (w \cup (b \cup q)) /\ f.wr < y.wr
      BY <2>1, <2>2, <2>3, <1>4, ZenonT(60) DEF Precede
    <3> QED
      BY <3>1, <2>3, PrecedeApart, ZenonT(60)
  <2>5. ASSUME NEW x \in Answers
        PROVE  x.wr # f.wr
    <3>1. f \in (c \cup a) \cup (w \cup (b \cup q)) /\ x \in (c \cup a) \cup (w \cup (b \cup q)) /\ x.wr < f.wr
      BY <2>1, <2>3, <1>2, ZenonT(60) DEF Precede
    <3> QED
      BY <3>1, <2>3, PrecedeApart, ZenonT(60)
  <2> QED
    BY <2>1, <2>4, <2>5, <1>2, <1>4, ZenonT(60) DEF Turns
<1>14. NoMove \/ SwapMove \/ DropMove \/ ReturnMove => Fewer
  BY <1>5, <1>6, <1>7, <1>8, ZenonT(60)
<1>15. \A f : SendMove(f) \/ ReadMove(f) \/ TakeMove(f) => Fewer
  BY <1>9, <1>10, <1>11, ZenonT(60)
<1> QED
  BY <1>12, <1>13, <1>14, <1>15, ZenonT(60)

\* Once the callback returns, no frame of the request of its answer is left.
LEMMA AnswerGone ==
  ASSUME Types, FlowOK, ReturnMove
  PROVE  /\ arg \in Answers /\ arg \in Items /\ Items' \subseteq Items
         /\ \A y \in Items' : y.wr # arg.wr
<1>1. PICK a, l : a = Members(wire["A"]) /\ l = Line
  BY ZenonT(60)
<1>2. Called = {arg} /\ Answers = {arg} \cup a /\ Items = ({arg} \cup a) \cup l
  BY <1>1, ZenonT(60) DEF ReturnMove, Called, Answers, Items
<1>3. Items' = a \cup l
  <2>1. Called' = {} /\ Members(wire["A"])' = a /\ Line' = l
    BY <1>1, ZenonT(60) DEF ReturnMove, Called, Line
  <2>2. Answers' = a
    BY <2>1, ZenonT(60) DEF Answers
  <2> QED
    BY <2>1, <2>2, ZenonT(60) DEF Items
<1>4. Upto(({arg} \cup a) \cup l, Sent) /\ \A y \in a \cup l : arg.wr < y.wr
  BY <1>1, <1>2, ZenonT(60) DEF FlowOK, Stages, Precede, Line, Answers
<1>5. ASSUME NEW y \in a \cup l
      PROVE  y.wr # arg.wr
  <2>1. arg \in ({arg} \cup a) \cup l /\ y \in ({arg} \cup a) \cup l /\ arg.wr < y.wr
    BY <1>4, ZenonT(60)
  <2> QED
    BY <2>1, <1>4, PrecedeApart, ZenonT(60)
<1> QED
  BY <1>2, <1>3, <1>5, ZenonT(60)

\* A step brings a frame of the last request, an answer for a frame, or none.
LEMMA FramesStep ==
  ASSUME Types, TxOK, FlowOK, Next
  PROVE  \/ Fewer
         \/ PostSend /\ Accepts /\ \E f : Comes(f)
         \/ \E f, g : Turns(f, g) /\ ((OnWrite /\ WriteReply(f, g)) \/ (OnReadReq /\ ReadReply(f, g)))
<1>1. ASSUME \/ \E op \in Opcode : PostStart(op)
             \/ PostRecord \/ PostFail \/ PostPump \/ PollStart \/ PollComplete \/ PostRecv \/ PollRecv
             \/ DeleteContext \/ ReleaseNic \/ CreateContext
      PROVE  NoMove
  BY <1>1, ZenonT(60) DEF PostStart, PostRecord, PostFail, PostPump, PollStart, PollComplete, PostRecv, PollRecv,
       DeleteContext, ReleaseNic, CreateContext, NoMove, nicVars, threadVars
<1>2. ASSUME PostSend
      PROVE  Fewer \/ (Accepts /\ \E f : Comes(f))
  BY <1>2, QueueIs, MovesAre, ZenonT(60)
<1>3. ASSUME BgSwap \/ BgSend \/ BgSendFails \/ BgRecv \/ OnWriteAck \/ OnReadRsp
      PROVE  Fewer
  BY <1>3, ThreadMoves, MovesAre, ZenonT(60)
<1>4. ASSUME OnSend
      PROVE  Fewer
  BY <1>4, PeerMoves, MovesAre, ZenonT(60)
<1>5. ASSUME OnWrite
      PROVE  \E f, g : Turns(f, g) /\ WriteReply(f, g)
  BY <1>5, PeerMoves, MovesAre, ZenonT(60)
<1>6. ASSUME OnReadReq
      PROVE  \E f, g : Turns(f, g) /\ ReadReply(f, g)
  BY <1>6, PeerMoves, MovesAre, ZenonT(60)
<1>7. NoMove => Fewer
  BY MovesAre, ZenonT(60)
<1> QED
  BY <1>1, <1>2, <1>3, <1>4, <1>5, <1>6, <1>7, ZenonT(60) DEF Next, Post, Poll, Bg, BgPeer

\* No frame is of a request that none was of before.
Inherits == \A y \in Items' : \E x \in Items : x.wr = y.wr /\ x.req = y.req

\* Only a post brings a frame of another request.
LEMMA ItemsStep ==
  ASSUME Types, TxOK, FlowOK, Next
  PROVE  Inherits \/ (PostSend /\ Accepts /\ \E f : QueueMove(f) /\ Items' = Items \cup {f})
<1>1. Items = Answers \cup Line /\ Items' = Answers' \cup Line'
  BY ZenonT(60) DEF Items
<1>2. ASSUME Fewer
      PROVE  Inherits
  BY <1>1, <1>2, ZenonT(60) DEF Fewer, Inherits
<1>3. ASSUME NEW f, Comes(f)
      PROVE  QueueMove(f) /\ Items' = Items \cup {f}
  BY <1>1, <1>3, ZenonT(60) DEF Comes
<1>4. ASSUME NEW f, NEW g, Turns(f, g)
      PROVE  Inherits
  <2>1. ASSUME NEW y \in Items'
        PROVE  \E x \in Items : x.wr = y.wr /\ x.req = y.req
    <3>1. (y \in Items \/ y = g) /\ f \in Items
      BY <1>1, <1>4, <2>1, ZenonT(60) DEF Turns
    <3> QED
      BY <3>1, <1>4, ZenonT(60) DEF Turns
  <2> QED
    BY <2>1, ZenonT(60) DEF Inherits
<1> QED
  BY <1>2, <1>3, <1>4, FramesStep, ZenonT(60)

\* What a request has done to the data is the work of one of its frames.
LEMMA DataStep ==
  ASSUME Types, TxOK, FlowOK, Next
  PROVE  /\ OnWrite \/ landed' = landed
         /\ OnReadRsp \/ fetched' = fetched
         /\ OnReadRsp => fetched' = fetched \/ fetched' = fetched \cup {arg.wr}
         /\ \A w : (w \in landed' \/ w \in fetched') => w \in landed \/ w \in fetched \/ \E x \in Items : x.wr = w
         /\ \A w : (w \in landed' /\ w \notin landed) \/ (w \in fetched' /\ w \notin fetched) => \E x \in Items : x.wr = w
         /\ landed \subseteq landed' /\ fetched \subseteq fetched'
<1>1. OnWrite \/ landed' = landed
  BY ZenonT(60) DEF Next, Post, Poll, Bg, BgPeer, PostStart, PostRecord, PostSend, PostFail, PostPump, PollStart, PollComplete,
       PostRecv, PollRecv, DeleteContext, ReleaseNic, CreateContext, BgSwap, BgSend, BgSendFails, BgRecv, OnWriteAck,
       OnReadRsp, OnReadReq, OnSend, dataVars
<1>2. OnReadRsp \/ fetched' = fetched
  BY ZenonT(60) DEF Next, Post, Poll, Bg, BgPeer, PostStart, PostRecord, PostSend, PostFail, PostPump, PollStart, PollComplete,
       PostRecv, PollRecv, DeleteContext, ReleaseNic, CreateContext, BgSwap, BgSend, BgSendFails, BgRecv, OnWriteAck,
       OnWrite, OnReadReq, OnSend, dataVars
<1>3. ASSUME OnReadRsp
      PROVE  (fetched' = fetched \/ fetched' = fetched \cup {arg.wr}) /\ arg \in Items /\ landed' = landed
  <2>1. arg \in Items
    BY <1>3, ZenonT(60) DEF OnReadRsp, Items, Answers, Called
  <2> QED
    BY <1>3, <2>1, ZenonT(60) DEF OnReadRsp
<1>4. ASSUME OnWrite
      PROVE  fetched' = fetched /\ \E x \in Items : landed' = landed \/ landed' = landed \cup {x.wr}
  <2>1. PICK f, g : ReplyMove(f, g) /\ WriteReply(f, g)
    BY <1>4, PeerMoves, ZenonT(60)
  <2>2. f \in Items
    BY <2>1, MovesAre, ZenonT(60) DEF Turns, Items
  <2> QED
    BY <2>1, <2>2, ZenonT(60) DEF WriteReply
<1>5. \A w : (w \in landed' /\ w \notin landed) \/ (w \in fetched' /\ w \notin fetched) => \E x \in Items : x.wr = w
  BY <1>1, <1>2, <1>3, <1>4, ZenonT(60)
<1>6. landed \subseteq landed' /\ fetched \subseteq fetched'
  BY <1>1, <1>2, <1>3, <1>4, ZenonT(60)
<1>7. \A w : (w \in landed' \/ w \in fetched') => w \in landed \/ w \in fetched \/ \E x \in Items : x.wr = w
  BY <1>5, ZenonT(60)
<1> QED
  BY <1>1, <1>2, <1>3, <1>5, <1>6, <1>7, ZenonT(60)

\* What the call in progress knows of its request, and of the wire.
PostOK ==
  /\ req_seq > 0 /\ opens >= 1
  /\ app.pc \in {"record", "send"} => /\ HasReq(app.op) <=> app.req # 0
                                      /\ app.req # 0 => req_seq = app.req + 1
  /\ app.werr => fatal
  /\ NoImm => app.op # "WRITE_IMM"

\* An answer tells what became of the data of its request, and a frame on its
\* way to B is of a request whose data is where it was.
AnswerSays(x, ld, ft) ==
  /\ x.tag \in {"A", "r"} /\ x.status \in {"ok", "abort"} /\ x.req # 0
  /\ x.tag = "A" => (x.status = "ok" <=> x.wr \in ld)
  /\ x.tag = "r" => x.wr \notin ft
FrameSays(x, ld, ft) ==
  /\ x.tag \in {"W", "R", "S"} /\ (x.tag # "S" => x.req # 0)
  /\ x.tag = "W" => x.wr \notin ld
  /\ x.tag = "R" => x.wr \notin ft
FrameOK ==
  /\ \A x \in Answers : AnswerSays(x, landed, fetched)
  /\ \A x \in Line : FrameSays(x, landed, fetched)
  /\ \A w \in landed \cup fetched : w <= Sent

\* Every step keeps that.
LEMMA FrameKept ==
  ASSUME Types, TxOK, FlowOK, PostOK, FrameOK, Next
  PROVE  FrameOK'
<1>1. /\ Sent \in Int /\ Sent' \in Int /\ Sent <= Sent' /\ posted \in Nat
      /\ PostSend /\ Accepts => Sent + 1 = posted /\ Sent' = posted
  BY SentIs, ZenonT(60)
<1>2. /\ OnWrite \/ landed' = landed
      /\ OnReadRsp \/ fetched' = fetched
      /\ OnReadRsp => fetched' = fetched \/ fetched' = fetched \cup {arg.wr}
      /\ \A w : (w \in landed' \/ w \in fetched') => w \in landed \/ w \in fetched \/ \E x \in Items : x.wr = w
  BY DataStep, ZenonT(60)
<1>3. \A w \in landed' \cup fetched' : w <= Sent'
  <2>1. \A x \in Items : x.wr \in Nat /\ x.wr <= Sent
    BY ZenonT(60) DEF FlowOK, Upto, Items
  <2>2. landed \subseteq Nat /\ fetched \subseteq Nat
    BY ZenonT(60) DEF Types, RestTypes
  <2>3. \A w \in landed' \cup fetched' : w \in Nat /\ w <= Sent
    BY <2>1, <2>2, <1>2, ZenonT(60) DEF FrameOK
  <2> QED
    BY <2>3, <1>1
<1>4. ASSUME Fewer, landed' = landed, fetched' = fetched
      PROVE  FrameOK'
  <2>1. \A x \in Answers' : AnswerSays(x, landed', fetched')
    BY <1>4, ZenonT(60) DEF FrameOK, Fewer
  <2>2. \A x \in Line' : FrameSays(x, landed', fetched')
    BY <1>4, ZenonT(60) DEF FrameOK, Fewer
  <2> QED
    BY <2>1, <2>2, <1>3, ZenonT(60) DEF FrameOK
<1>5. ASSUME OnReadRsp
      PROVE  FrameOK'
  <2>1. ReturnMove
    BY <1>5, ThreadMoves, ZenonT(60)
  <2>2. Fewer /\ Items' \subseteq Items /\ \A y \in Items' : y.wr # arg.wr
    BY <2>1, MovesAre, AnswerGone, ZenonT(60)
  <2>3. \A y \in Answers' \cup Line' : y.wr # arg.wr
    BY <2>2, ZenonT(60) DEF Items
  <2>4. landed' = landed
    BY <1>5, ZenonT(60) DEF OnReadRsp
  <2>5. ASSUME NEW x \in Answers'
        PROVE  AnswerSays(x, landed', fetched')
    <3>1. AnswerSays(x, landed, fetched) /\ (x.wr \in fetched' => x.wr \in fetched)
      BY <2>2, <2>3, <1>2, <1>5, ZenonT(60) DEF Fewer, FrameOK
    <3> QED
      BY <3>1, <2>4, ZenonT(60) DEF AnswerSays
  <2>6. ASSUME NEW x \in Line'
        PROVE  FrameSays(x, landed', fetched')
    <3>1. FrameSays(x, landed, fetched) /\ (x.wr \in fetched' => x.wr \in fetched)
      BY <2>2, <2>3, <1>2, <1>5, ZenonT(60) DEF Fewer, FrameOK
    <3> QED
      BY <3>1, <2>4, ZenonT(60) DEF FrameSays
  <2> QED
    BY <2>5, <2>6, <1>3, ZenonT(60) DEF FrameOK
<1>6. ASSUME NEW f, PostSend, Accepts, Comes(f)
      PROVE  FrameOK'
  <2>1. landed' = landed /\ fetched' = fetched
    BY <1>6, ZenonT(60) DEF PostSend, dataVars
  <2>2. /\ app.op \in Opcode /\ app.op # "CAS" /\ app.pc = "send" /\ f.tag = SideTag(app.op) /\ f.wr = posted
        /\ f.req = app.req
    BY <1>6, ZenonT(60) DEF Types, AppTypes, Thread, PostSend, Comes, QueueMove
  <2>3. "send" \in {"record", "send"}
    BY ZenonT(60)
  <2>4. HasReq(app.op) <=> app.req # 0
    BY <2>2, <2>3, ZenonT(60) DEF PostOK
  <2>5. f.tag \in {"W", "R", "S"} /\ (f.tag # "S" => f.req # 0)
    <3>1. PICK op, t : op = app.op /\ t = f.tag
      BY ZenonT(60)
    <3>2. op \in Opcode /\ op # "CAS" /\ t = SideTag(op)
      BY <3>1, <2>2, ZenonT(60)
    <3>3. t \in {"W", "R", "S"} /\ (t # "S" => HasReq(op))
      BY <3>2, SideTagIs, ZenonT(60)
    <3> QED
      BY <3>1, <3>3, <2>2, <2>4, ZenonT(60)
  <2>6. posted \notin landed /\ posted \notin fetched
    <3>1. posted \in landed \cup fetched => posted <= Sent
      BY ZenonT(60) DEF FrameOK
    <3>3. posted \in Int
      BY <1>1, JustBefore, ZenonT(60)
    <3>2. ~(posted <= Sent)
      BY <3>3, <1>1, <1>6, NotUpto, ZenonT(60)
    <3> QED
      BY <3>1, <3>2, ZenonT(60)
  <2>7. FrameSays(f, landed, fetched)
    BY <2>2, <2>5, <2>6, ZenonT(60) DEF FrameSays
  <2>8. \A x \in Answers' : AnswerSays(x, landed', fetched')
    BY <2>1, <1>6, ZenonT(60) DEF FrameOK, Comes
  <2>9. \A x \in Line' : FrameSays(x, landed', fetched')
    BY <2>1, <2>7, <1>6, ZenonT(60) DEF FrameOK, Comes
  <2> QED
    BY <2>8, <2>9, <1>3, ZenonT(60) DEF FrameOK
<1>7. ASSUME NEW f, NEW g, Turns(f, g), WriteReply(f, g)
      PROVE  FrameOK'
  <2>1. FrameSays(f, landed, fetched) /\ f.tag = "W" /\ g.tag = "A" /\ g.wr = f.wr /\ g.req = f.req /\ fetched' = fetched
    BY <1>7, ZenonT(60) DEF FrameOK, Turns, WriteReply
  <2>2. f.wr \notin landed /\ f.req # 0
    BY <2>1, ZenonT(60) DEF FrameSays
  <2>3. /\ (g.status = "ok" /\ landed' = landed \cup {f.wr}) \/ (g.status = "abort" /\ landed' = landed)
    BY <1>7, ZenonT(60) DEF WriteReply
  <2>4. AnswerSays(g, landed', fetched')
    BY <2>1, <2>2, <2>3, ZenonT(60) DEF AnswerSays
  <2>5. ASSUME NEW x \in Answers
        PROVE  AnswerSays(x, landed', fetched')
    <3>1. AnswerSays(x, landed, fetched) /\ (x.wr \in landed' <=> x.wr \in landed)
      BY <2>3, <1>7, ZenonT(60) DEF Turns, FrameOK
    <3> QED
      BY <3>1, <2>1, ZenonT(60) DEF AnswerSays
  <2>6. ASSUME NEW x \in Line'
        PROVE  FrameSays(x, landed', fetched')
    <3>1. FrameSays(x, landed, fetched) /\ (x.wr \in landed' <=> x.wr \in landed)
      BY <2>3, <1>7, ZenonT(60) DEF Turns, FrameOK
    <3> QED
      BY <3>1, <2>1, ZenonT(60) DEF FrameSays
  <2>7. \A x \in Answers' : AnswerSays(x, landed', fetched')
    BY <2>4, <2>5, <1>7, ZenonT(60) DEF Turns
  <2> QED
    BY <2>6, <2>7, <1>3, ZenonT(60) DEF FrameOK
<1>8. ASSUME NEW f, NEW g, Turns(f, g), ReadReply(f, g)
      PROVE  FrameOK'
  <2>1. /\ FrameSays(f, landed, fetched) /\ f.tag = "R" /\ g.tag = "r" /\ g.wr = f.wr /\ g.req = f.req /\ fetched' = fetched
        /\ landed' = landed /\ g.status \in {"ok", "abort"}
    BY <1>8, ZenonT(60) DEF FrameOK, Turns, ReadReply
  <2>2. AnswerSays(g, landed', fetched')
    BY <2>1, ZenonT(60) DEF AnswerSays, FrameSays
  <2>3. \A x \in Answers' : AnswerSays(x, landed', fetched')
    BY <2>1, <2>2, <1>8, ZenonT(60) DEF Turns, FrameOK
  <2>4. \A x \in Line' : FrameSays(x, landed', fetched')
    BY <2>1, <1>8, ZenonT(60) DEF Turns, FrameOK
  <2> QED
    BY <2>3, <2>4, <1>3, ZenonT(60) DEF FrameOK
<1>9. ASSUME Fewer
      PROVE  FrameOK'
  <2>1. CASE OnReadRsp
    BY <2>1, <1>5, ZenonT(60)
  <2>2. CASE OnWrite
    <3>1. PICK f, g : ReplyMove(f, g) /\ WriteReply(f, g)
      BY <2>2, PeerMoves, ZenonT(60)
    <3>2. Turns(f, g)
      BY <3>1, MovesAre, ZenonT(60)
    <3> QED
      BY <3>1, <3>2, <1>7, ZenonT(60)
  <2>3. CASE ~OnReadRsp /\ ~OnWrite
    BY <2>3, <1>2, <1>4, <1>9, ZenonT(60)
  <2> QED
    BY <2>1, <2>2, <2>3, ZenonT(60)
<1> QED
  BY <1>6, <1>7, <1>8, <1>9, FramesStep, ZenonT(60)

-----------------------------------------------------------------------------
(* More small numbers.                                                     *)

\* Ranges that have no member.
LEMMA NoRange == 1 .. 0 = {} /\ 0 .. 0 - 1 = {} /\ 1 > 0 /\ 1 >= 1
BY SMT

\* A number that is at least 1 stays so when it grows, and is below no 1.
LEMMA AtLeastOne ==
  ASSUME NEW a \in Nat, a >= 1, NEW b \in Nat
  PROVE  (a <= b => b >= 1) /\ (a < b => ~(b <= 1))
OBVIOUS

\* The places that are left when the first k are taken.
LEMMA PlacesLeft ==
  ASSUME NEW n \in Nat, NEW k \in 0 .. n
  PROVE  /\ \A i \in 0 .. n - k - 1 : k + i \in 0 .. n - 1
         /\ \A i \in 0 .. k - 1 : i \in 0 .. n - 1
OBVIOUS

-----------------------------------------------------------------------------
(* Request numbers.                                                        *)

\* A post of op starts, or is refused by the pipeline.
Starts(op) ==
  /\ app.pc = "idle" /\ op \in Opcode /\ (NoImm => op # "WRITE_IMM")
  /\ req_seq' = (IF HasReq(op) THEN req_seq + 1 ELSE req_seq)
  /\ \/ app' = app
     \/ /\ app'.pc = "record" /\ app'.op = op /\ app'.req = (IF HasReq(op) THEN req_seq ELSE 0)
        /\ app'.werr = FALSE

\* A post goes on from p to a place in S.
Goes(p, S) ==
  /\ app.pc = p /\ app'.pc \in S /\ req_seq' = req_seq
  /\ app'.op = app.op /\ app'.req = app.req /\ app'.werr = app.werr

\* A call ends, or a poll starts.
Rests ==
  app'.pc \in {"idle", "poll"} /\ app'.op = "CAS" /\ (app'.werr => fatal') /\ req_seq' = req_seq

\* The steps of the application.
AppMoves ==
  \/ \E op : Starts(op)
  \/ PostRecord /\ Goes("record", {"send", "pump"})
  \/ PostSend /\ Goes("send", {"pump", "fail"})
  \/ PostFail /\ Goes("fail", {"pump"})
  \/ Rests
  \/ CreateContext /\ app' = app /\ req_seq' = 1
  \/ app' = app /\ req_seq' = req_seq

\* Every step is one of them, and the wire stays failed.
LEMMA AppStep ==
  ASSUME Types, Next
  PROVE  AppMoves /\ (fatal => fatal') /\ opens <= opens'
<1>1. app \in Thread /\ opens \in Nat /\ tries \in Nat
  BY ZenonT(60) DEF Types, AppTypes
<1>2. ASSUME NEW op \in Opcode, PostStart(op)
      PROVE  Starts(op)
  <2>1. PICK k : k = tries + 1
    BY ZenonT(60)
  <2>2. tries < Len(Workload) /\ op \in Workload[k]
    BY <1>2, <2>1, ZenonT(60) DEF PostStart
  <2>3. k \in 1 .. Len(Workload)
    <3>1. Len(Workload) \in Nat
      BY ConstantsAssumption, PlacesOf, ZenonT(60)
    <3> QED
      BY <3>1, <2>1, <2>2, <1>1
  <2>4. NoImm => op # "WRITE_IMM"
    BY <2>2, <2>3, ZenonT(60) DEF NoImm
  <2>5. PICK r : r = IF HasReq(op) THEN req_seq ELSE 0
    BY ZenonT(60)
  <2>6. /\ app.pc = "idle" /\ req_seq' = (IF HasReq(op) THEN req_seq + 1 ELSE req_seq)
        /\ app' = app \/ app' = [Idle EXCEPT !.pc = "record", !.op = op, !.req = r]
    BY <1>2, <2>5, ZenonT(60) DEF PostStart
  <2>7. app' = app \/ (app'.pc = "record" /\ app'.op = op /\ app'.req = r /\ app'.werr = FALSE)
    BY <2>6, ZenonT(60) DEF Idle
  <2> QED
    BY <2>4, <2>5, <2>6, <2>7, ZenonT(60) DEF Starts
<1>3. ASSUME PostRecord
      PROVE  Goes("record", {"send", "pump"})
  BY <1>1, <1>3, ZenonT(60) DEF PostRecord, Goes, Thread
<1>4. ASSUME PostSend
      PROVE  Goes("send", {"pump", "fail"})
  BY <1>1, <1>4, ZenonT(60) DEF PostSend, Goes, Thread
<1>5. ASSUME PostFail
      PROVE  Goes("fail", {"pump"})
  BY <1>1, <1>5, ZenonT(60) DEF PostFail, Goes, Thread
<1>6. ASSUME PostPump \/ PollComplete
      PROVE  Rests
  <2>1. app' = Idle /\ req_seq' = req_seq
    BY <1>6, ZenonT(60) DEF PostPump, PollComplete, appVars
  <2> QED
    BY <2>1, ZenonT(60) DEF Idle, Rests
<1>7. ASSUME PollStart
      PROVE  Rests
  <2>1. req_seq' = req_seq /\ \E c : app' = [Idle EXCEPT !.pc = "poll", !.cqe = c, !.werr = fatal']
    BY <1>7, ZenonT(60) DEF PollStart
  <2> QED
    BY <2>1, ZenonT(60) DEF Idle, Rests
<1>8. ASSUME \/ PostRecv \/ PollRecv \/ DeleteContext \/ ReleaseNic
             \/ BgSwap \/ BgSend \/ BgSendFails \/ BgRecv \/ OnWriteAck \/ OnReadRsp \/ OnWrite \/ OnReadReq \/ OnSend
      PROVE  app' = app /\ req_seq' = req_seq
  BY <1>8, ZenonT(60) DEF PostRecv, PollRecv, DeleteContext, ReleaseNic, BgSwap, BgSend, BgSendFails, BgRecv,
       OnWriteAck, OnReadRsp, OnWrite, OnReadReq, OnSend, appVars
<1>9. ASSUME CreateContext
      PROVE  app' = app /\ req_seq' = 1
  BY <1>9, ZenonT(60) DEF CreateContext
<1>10. AppMoves
  BY <1>2, <1>3, <1>4, <1>5, <1>6, <1>7, <1>8, <1>9, ZenonT(60) DEF AppMoves, Next, Post, Poll, Bg, BgPeer
<1>11. fatal => fatal'
  BY ZenonT(60) DEF Next, Post, Poll, Bg, BgPeer, PostStart, PostRecord, PostSend, PostFail, PostPump, PollStart, PollComplete,
       PostRecv, PollRecv, DeleteContext, ReleaseNic, CreateContext, BgSwap, BgSend, BgSendFails, BgRecv, OnWriteAck,
       OnReadRsp, OnWrite, OnReadReq, OnSend, nicVars, Pump, WireFails
<1>12. opens' = opens \/ opens' = opens + 1
  BY ZenonT(60) DEF Next, Post, Poll, Bg, BgPeer, PostStart, PostRecord, PostSend, PostFail, PostPump, PollStart, PollComplete,
       PostRecv, PollRecv, DeleteContext, ReleaseNic, CreateContext, BgSwap, BgSend, BgSendFails, BgRecv, OnWriteAck,
       OnReadRsp, OnWrite, OnReadReq, OnSend, appVars, ctxVars
<1>13. opens <= opens'
  BY <1>1, <1>12, JustBefore, ZenonT(60)
<1> QED
  BY <1>10, <1>11, <1>13, ZenonT(60)

\* A new context is created between calls.
LEMMA CreateIdle ==
  ASSUME CallOK, CreateContext
  PROVE  app.pc = "idle" /\ app' = app
BY ZenonT(60) DEF CallOK, CreateContext, NicReusable

\* Every step keeps what the call knows.
LEMMA PostKept ==
  ASSUME Types, TxOK, CallOK, PostOK, Next
  PROVE  PostOK'
<1>1. app \in Thread /\ opens \in Nat /\ opens' \in Nat /\ req_seq \in Nat
  <2>1. Types'
    BY BaseKept, ZenonT(60)
  <2> QED
    BY <2>1, ZenonT(60) DEF Types, AppTypes
<1>2. AppMoves /\ (fatal => fatal') /\ opens <= opens'
  BY AppStep, ZenonT(60)
<1>3. req_seq > 0 /\ opens >= 1 /\ (app.werr => fatal) /\ (NoImm => app.op # "WRITE_IMM")
  BY ZenonT(60) DEF PostOK
<1>4. opens' >= 1
  BY <1>1, <1>2, <1>3, AtLeastOne, ZenonT(60)
<1>5. req_seq + 1 > 0 /\ 1 > 0
  BY <1>1, JustBefore, NoRange, ZenonT(60)
<1>6. ASSUME app'.pc \notin {"record", "send"}, req_seq' > 0, app'.werr => fatal', NoImm => app'.op # "WRITE_IMM"
      PROVE  PostOK'
  BY <1>4, <1>6, ZenonT(60) DEF PostOK
<1>7. ASSUME NEW op, Starts(op)
      PROVE  PostOK'
  <2>1. req_seq' > 0
    BY <1>3, <1>5, <1>7, ZenonT(60) DEF Starts
  <2>2. CASE app' = app
    <3>1. app'.pc \notin {"record", "send"}
      BY <2>2, <1>7, ZenonT(60) DEF Starts
    <3> QED
      BY <3>1, <2>1, <2>2, <1>2, <1>3, <1>6, ZenonT(60)
  <2>3. CASE app' # app
    <3>1. /\ app'.op = op /\ app'.req = (IF HasReq(op) THEN req_seq ELSE 0) /\ app'.werr = FALSE
          /\ req_seq' = (IF HasReq(op) THEN req_seq + 1 ELSE req_seq) /\ (NoImm => op # "WRITE_IMM")
      BY <2>3, <1>7, ZenonT(60) DEF Starts
    <3>2. req_seq # 0
      BY <1>1, <1>3
    <3>3. HasReq(app'.op) <=> app'.req # 0
      BY <3>1, <3>2, ZenonT(60)
    <3>4. app'.req # 0 => req_seq' = app'.req + 1
      BY <3>1, ZenonT(60)
    <3> QED
      BY <3>1, <3>3, <3>4, <2>1, <1>4, ZenonT(60) DEF PostOK, HasReq
  <2> QED
    BY <2>2, <2>3, ZenonT(60)
<1>8. ASSUME Goes("record", {"send", "pump"})
      PROVE  PostOK'
  <2>1. "record" \in {"record", "send"}
    BY ZenonT(60)
  <2>2. /\ HasReq(app.op) <=> app.req # 0
        /\ app.req # 0 => req_seq = app.req + 1
    BY <2>1, <1>8, ZenonT(60) DEF PostOK, Goes
  <2> QED
    BY <2>2, <1>2, <1>3, <1>4, <1>8, ZenonT(60) DEF PostOK, Goes, HasReq
<1>9. ASSUME Goes("send", {"pump", "fail"}) \/ Goes("fail", {"pump"})
      PROVE  PostOK'
  <2>1. app'.pc \notin {"record", "send"}
    BY <1>9, ZenonT(60) DEF Goes
  <2> QED
    BY <2>1, <1>2, <1>3, <1>6, <1>9, ZenonT(60) DEF Goes
<1>10. ASSUME Rests
       PROVE  PostOK'
  <2>1. app'.pc \notin {"record", "send"} /\ "CAS" # "WRITE_IMM"
    BY <1>10, ZenonT(60) DEF Rests
  <2> QED
    BY <2>1, <1>3, <1>6, <1>10, ZenonT(60) DEF Rests
<1>11. ASSUME CreateContext, app' = app, req_seq' = 1
       PROVE  PostOK'
  <2>1. app'.pc \notin {"record", "send"}
    BY <1>11, CreateIdle, ZenonT(60)
  <2> QED
    BY <2>1, <1>2, <1>3, <1>5, <1>6, <1>11, ZenonT(60)
<1>12. ASSUME app' = app, req_seq' = req_seq
       PROVE  PostOK'
  BY <1>2, <1>4, <1>12, ZenonT(60) DEF PostOK, HasReq
<1> QED
  BY <1>2, <1>7, <1>8, <1>9, <1>10, <1>11, <1>12, ZenonT(60) DEF AppMoves

\* Below it are the numbers of the frames, and below the other those of the ring.
Fresh == IF app.pc \in {"record", "send"} /\ app.req # 0 THEN app.req ELSE req_seq
Bound == IF app.pc = "record" /\ app.req # 0 THEN app.req ELSE req_seq

\* Two bounds, and what they are after a step.
Growing(f, f2, b, b2) == f \in Nat /\ f2 \in Nat /\ f <= f2 /\ b \in Nat /\ b2 \in Nat /\ b <= b2

\* They are bounds that grow with the posts of a context.
LEMMA FreshStep ==
  ASSUME Types, TxOK, CallOK, PostOK, Next, ~CreateContext
  PROVE  /\ Fresh \in Nat /\ Fresh' \in Nat /\ Fresh <= Fresh'
         /\ Bound \in Nat /\ Bound' \in Nat /\ Bound <= Bound'
         /\ PostSend => app.req < Fresh'
         /\ PostRecord => app.req < Bound' /\ (app.req # 0 => Fresh = app.req)
<1>1. app.req \in Nat /\ req_seq \in Nat /\ app'.req \in Nat /\ req_seq' \in Nat
  <2>1. Types'
    BY BaseKept, ZenonT(60)
  <2> QED
    BY <2>1, ZenonT(60) DEF Types, AppTypes, Thread
<1>2. AppMoves /\ req_seq > 0
  BY AppStep, ZenonT(60) DEF PostOK
<1>3. app.pc \in {"record", "send"} /\ app.req # 0 => req_seq = app.req + 1
  BY ZenonT(60) DEF PostOK
<1>4. PICK r, s, r2, s2, f, f2, b, b2 : /\ r = app.req /\ s = req_seq /\ r2 = app'.req /\ s2 = req_seq' /\ f = Fresh
                                        /\ f2 = Fresh' /\ b = Bound /\ b2 = Bound'
  BY ZenonT(60)
<1>5. /\ r \in Nat /\ s \in Nat /\ r2 \in Nat /\ s2 \in Nat /\ s > 0
      /\ f = s \/ (f = r /\ s = r + 1)
      /\ b = s \/ (b = r /\ s = r + 1)
  <2>1. "record" \in {"record", "send"}
    BY ZenonT(60)
  <2> QED
    BY <2>1, <1>1, <1>2, <1>3, <1>4, ZenonT(60) DEF Fresh, Bound
<1> DEFINE Goal == Growing(f, f2, b, b2)
<1>6. ASSUME NEW op, Starts(op)
      PROVE  Goal
  <2>1. f = s /\ b = s
    BY <1>4, <1>6, ZenonT(60) DEF Starts, Fresh, Bound
  <2>2. s2 = s + 1 \/ s2 = s
    BY <1>4, <1>6, ZenonT(60) DEF Starts
  <2>3. (f2 = s2 \/ f2 = s) /\ (b2 = s2 \/ b2 = s)
    <3>1. CASE app' = app
      BY <3>1, <1>4, <1>6, ZenonT(60) DEF Starts, Fresh, Bound
    <3>2. CASE app' # app
      <4>1. r2 = s \/ r2 = 0
        BY <3>2, <1>4, <1>6, ZenonT(60) DEF Starts
      <4> QED
        BY <4>1, <1>4, ZenonT(60) DEF Fresh, Bound
    <3> QED
      BY <3>1, <3>2, ZenonT(60)
  <2> QED
    BY <2>1, <2>2, <2>3, <1>5 DEF Growing
<1>7. ASSUME PostRecord, Goes("record", {"send", "pump"})
      PROVE  Goal /\ r < b2 /\ (r # 0 => f = r)
  <2>1. "record" \in {"record", "send"} /\ "send" \in {"record", "send"} /\ "pump" \notin {"record", "send"}
    BY ZenonT(60)
  <2>2. s2 = s /\ r2 = r /\ (r # 0 => s = r + 1) /\ app.pc = "record" /\ (app'.pc = "send" \/ app'.pc = "pump")
    BY <2>1, <1>3, <1>4, <1>7, ZenonT(60) DEF Goes
  <2>3. (r # 0 => f = r /\ b = r) /\ (r = 0 => f = s /\ b = s)
    BY <2>1, <2>2, <1>4, ZenonT(60) DEF Fresh, Bound
  <2>4. b2 = s /\ (f2 = s \/ (r # 0 /\ f2 = r))
    BY <2>1, <2>2, <1>4, ZenonT(60) DEF Fresh, Bound
  <2> QED
    BY <2>2, <2>3, <2>4, <1>5 DEF Growing
<1>8. ASSUME Goes("send", {"pump", "fail"})
      PROVE  Goal /\ r < f2
  <2>1. "send" \in {"record", "send"} /\ app'.pc \notin {"record", "send"}
    BY <1>8, ZenonT(60) DEF Goes
  <2>2. s2 = s /\ r2 = r /\ (r # 0 => s = r + 1) /\ app.pc = "send" /\ app'.pc # "record"
    BY <2>1, <1>3, <1>4, <1>8, ZenonT(60) DEF Goes
  <2>3. f2 = s /\ b2 = s /\ b = s
    BY <2>1, <2>2, <1>4, ZenonT(60) DEF Fresh, Bound
  <2> QED
    BY <2>2, <2>3, <1>5 DEF Growing
<1>9. ASSUME Goes("fail", {"pump"}) \/ Rests
      PROVE  Goal
  <2>1. app'.pc \notin {"record", "send"} /\ app'.pc # "record" /\ s2 = s
    BY <1>4, <1>9, ZenonT(60) DEF Goes, Rests
  <2>2. f2 = s /\ b2 = s
    BY <2>1, <1>4, ZenonT(60) DEF Fresh, Bound
  <2> QED
    BY <2>2, <1>5 DEF Growing
<1>10. ASSUME app' = app, req_seq' = req_seq
       PROVE  Goal
  <2>1. f2 = f /\ b2 = b
    BY <1>4, <1>10, ZenonT(60) DEF Fresh, Bound
  <2> QED
    BY <2>1, <1>5 DEF Growing
<1>11. ASSUME PostRecord
       PROVE  Goes("record", {"send", "pump"})
  <2>1. app \in Thread
    BY ZenonT(60) DEF Types, AppTypes
  <2> QED
    BY <2>1, <1>11, ZenonT(60) DEF PostRecord, Goes, Thread
<1>12. ASSUME PostSend
       PROVE  Goes("send", {"pump", "fail"})
  <2>1. app \in Thread
    BY ZenonT(60) DEF Types, AppTypes
  <2> QED
    BY <2>1, <1>12, ZenonT(60) DEF PostSend, Goes, Thread
<1>13. Goal
  BY <1>2, <1>6, <1>7, <1>8, <1>9, <1>10, ZenonT(60) DEF AppMoves
<1>14. PostSend => r < f2
  BY <1>8, <1>12, ZenonT(60)
<1>15. PostRecord => r < b2 /\ (r # 0 => f = r)
  BY <1>7, <1>11, ZenonT(60)
<1> QED
  BY <1>4, <1>13, <1>14, <1>15, ZenonT(60) DEF Growing

\* An answer that came before its request was recorded is of no request in the
\* ring.
PendOK ==
  \A p \in Slots : pend[p].valid =>
    /\ pend[p].req # 0 /\ pend[p].req < Fresh
    /\ \A i \in 0 .. Outstanding - 1 : At(i).op = "WRITE" => pend[p].req # At(i).req

\* So a poll finds none.
LEMMA NoEarlyAck ==
  ASSUME Types, PendOK
  PROVE  \A i \in 0 .. Outstanding - 1 : ~EarlyAck(Nth(i))
<1>1. ASSUME NEW i \in 0 .. Outstanding - 1
      PROVE  ~EarlyAck(Nth(i))
  <2>1. Nth(i) \in Slots /\ out[Nth(i)] \in Slot
    BY AtIs, ZenonT(60) DEF At, Types
  <2>2. PICK r, p : r = out[Nth(i)].req /\ p = r % MaxOut
    BY ZenonT(60)
  <2>3. r \in Nat
    BY <2>1, <2>2, ZenonT(60) DEF Slot
  <2>4. p \in Slots
    BY <2>2, <2>3, SlotNumbers, ZenonT(60)
  <2>5. pend[p].valid /\ out[Nth(i)].op = "WRITE" => pend[p].req # r
    BY <2>2, <2>4, <1>1, ZenonT(60) DEF PendOK, At
  <2> QED
    BY <2>2, <2>5, ZenonT(60) DEF EarlyAck
<1> QED
  BY <1>1, ZenonT(60)

\* Slot o is slot p, or slot p after an error.
Like(o, p) == o.wr = p.wr /\ o.op = p.op /\ o.req = p.req /\ o.status = p.status
Failed(o, p) == o.wr = p.wr /\ o.op = p.op /\ o.req = 0 /\ o.status = "timeout"

\* Slot o was in the ring.
Stays(o) == \E k \in 0 .. Outstanding - 1 : Like(o, At(k)) \/ Failed(o, At(k))
\* It is the one that is recorded.
Recorded(o) == PostRecord /\ o.wr = posted + 1 /\ o.op = app.op /\ o.req = app.req
\* It is the one that the acknowledgement, or the data, is for.
Meant(o, op) ==
  \E j \in 0 .. Outstanding - 1 :
    /\ At(j).op = op /\ At(j).req = arg.req
    /\ o.wr = At(j).wr /\ o.op = op /\ o.req = 0 /\ o.status = arg.status
    /\ OnReadRsp => fetched' = IF arg.status = "ok" /\ At(j).wr = arg.wr THEN fetched \union {arg.wr} ELSE fetched
AckFor(o) == OnWriteAck /\ Meant(o, "WRITE")
DataFor(o) == OnReadRsp /\ Meant(o, "READ")

\* A poll sees a slot as it is, or with the error of the wire.
LEMMA PollSees ==
  ASSUME Types, PendOK, NEW i \in 0 .. Outstanding - 1, NEW o,
         o.wr = At(i).wr, o.op = At(i).op, o.req = Settled(Nth(i)).req, o.status = Settled(Nth(i)).status
  PROVE  (~app.werr /\ Like(o, At(i))) \/ (app.werr /\ Failed(o, At(i)))
<1>1. PICK s : s = Nth(i)
  BY ZenonT(60)
<1>2. s \in Slots /\ At(i) = out[s] /\ out[s] \in Slot /\ ~EarlyAck(s)
  BY <1>1, AtIs, NoEarlyAck, ZenonT(60) DEF At, Types
<1>3. RingTypes /\ AppTypes /\ "timeout" \in Status
  BY ZenonT(60) DEF Types, Status
<1>4. (app.werr /\ Settled(s) = Told(out[s], "timeout")) \/ (~app.werr /\ Settled(s) = out[s])
  BY <1>2, <1>3, SettledIs, ZenonT(60)
<1>5. Told(out[s], "timeout").req = 0 /\ Told(out[s], "timeout").status = "timeout"
  BY <1>2, <1>3, ToldIs, ZenonT(60)
<1>6. CASE app.werr
  BY <1>1, <1>2, <1>4, <1>5, <1>6, ZenonT(60) DEF Failed
<1>7. CASE ~app.werr
  BY <1>1, <1>2, <1>4, <1>7, ZenonT(60) DEF Like
<1> QED
  BY <1>6, <1>7, ZenonT(60)

\* It leaves it so.
LEMMA PollLeaves ==
  ASSUME Types, PendOK, PollComplete, NEW i \in 0 .. Outstanding' - 1
  PROVE  /\ Completed + i \in 0 .. Outstanding - 1
         /\ Like(At(i)', At(Completed + i)) \/ (app.werr /\ Failed(At(i)', At(Completed + i)))
<1>1. RingTypes /\ AppTypes
  BY ZenonT(60) DEF Types
<1>2. PICK k, n : k = Completed /\ n = Outstanding
  BY ZenonT(60)
<1>3. /\ k \in 0 .. n /\ Outstanding' = n - k
      /\ \A h \in 0 .. n - k - 1 : At(h)' = Polled(Nth(k + h))
  BY <1>1, <1>2, PollView, ZenonT(60)
<1>4. n \in Nat
  BY <1>2, OrderTypes, ZenonT(60)
<1>5. PICK j : j = k + i
  BY ZenonT(60)
<1>6. j \in 0 .. n - 1 /\ i \in 0 .. n - k - 1
  <2>1. i \in 0 .. n - k - 1
    BY <1>3, ZenonT(60)
  <2>2. k \in 0 .. n
    BY <1>3, ZenonT(60)
  <2> QED
    BY <2>1, <2>2, <1>4, <1>5, PlacesLeft, ZenonT(60)
<1>7. PICK o : o = At(i)'
  BY ZenonT(60)
<1>8. o = Polled(Nth(j)) /\ Nth(j) \in Slots
  BY <1>1, <1>2, <1>3, <1>5, <1>6, <1>7, AtIs, ZenonT(60)
<1>9. /\ o.wr = At(j).wr /\ o.op = At(j).op
      /\ \/ o = At(j)
         \/ o.req = Settled(Nth(j)).req /\ o.status = Settled(Nth(j)).status
  BY <1>1, <1>8, PolledIs, ZenonT(60) DEF At
<1>10. CASE o = At(j)
  BY <1>2, <1>5, <1>6, <1>7, <1>10, ZenonT(60) DEF Like
<1>11. CASE o # At(j)
  <2>1. (~app.werr /\ Like(o, At(j))) \/ (app.werr /\ Failed(o, At(j)))
    <3>1. j \in 0 .. Outstanding - 1
      BY <1>2, <1>6, ZenonT(60)
    <3> QED
      BY <3>1, <1>9, <1>11, PollSees, ZenonT(60)
  <2> QED
    BY <2>1, <1>2, <1>5, <1>6, <1>7, ZenonT(60)
<1> QED
  BY <1>10, <1>11, ZenonT(60)

\* The answer of a request is for the request of that number, if it is there.
AnswerAt(op, j) ==
  Tells(j, arg.status) /\ At(j).op = op /\ At(j).req = arg.req /\ j \in 0 .. Outstanding - 1

\* What the callback of A does to the ring.
LEMMA AnswerViews ==
  ASSUME Types
  PROVE  /\ OnWriteAck => \/ (\E j : AnswerAt("WRITE", j)) /\ pend' = pend
                          \/ /\ UNCHANGED <<out, outh, outt>> /\ Waiting("WRITE", arg.req) = {}
                             /\ pend' = [pend EXCEPT ![arg.req % MaxOut] =
                                           [valid |-> TRUE, req |-> arg.req, status |-> arg.status]]
         /\ OnReadRsp => /\ pend' = pend
                         /\ \/ \E j : /\ AnswerAt("READ", j)
                                      /\ fetched' = IF arg.status = "ok" /\ At(j).wr = arg.wr
                                                    THEN fetched \union {arg.wr} ELSE fetched
                            \/ UNCHANGED <<out, outh, outt, fetched>>
<1>1. RingTypes /\ NicTypes
  BY ZenonT(60) DEF Types
<1>2. ASSUME NEW op, Waiting(op, arg.req) # {}, Answer(Oldest(Waiting(op, arg.req))), outh' = outh, outt' = outt
      PROVE  \E j : AnswerAt(op, j) /\ Oldest(Waiting(op, arg.req)) = Nth(j)
  <2>1. \E j : Tells(j, arg.status) /\ At(j).op = op /\ At(j).req = arg.req /\ Oldest(Waiting(op, arg.req)) = Nth(j)
    BY <1>1, <1>2, AnswerTells, ZenonT(60)
  <2> QED
    BY <2>1, ZenonT(60) DEF AnswerAt, Tells
<1>3. ASSUME OnWriteAck
      PROVE  \/ (\E j : AnswerAt("WRITE", j)) /\ pend' = pend
             \/ /\ UNCHANGED <<out, outh, outt>> /\ Waiting("WRITE", arg.req) = {}
                /\ pend' = [pend EXCEPT ![arg.req % MaxOut] = [valid |-> TRUE, req |-> arg.req, status |-> arg.status]]
  <2>1. outh' = outh /\ outt' = outt
    BY <1>3, ZenonT(60) DEF OnWriteAck
  <2>2. CASE Waiting("WRITE", arg.req) # {}
    <3>1. Answer(Oldest(Waiting("WRITE", arg.req))) /\ pend' = pend
      BY <2>2, <1>3, ZenonT(60) DEF OnWriteAck
    <3> QED
      BY <3>1, <2>1, <2>2, <1>2, ZenonT(60)
  <2>3. CASE Waiting("WRITE", arg.req) = {}
    BY <2>1, <2>3, <1>3, ZenonT(60) DEF OnWriteAck
  <2> QED
    BY <2>2, <2>3, ZenonT(60)
<1>4. ASSUME OnReadRsp
      PROVE  /\ pend' = pend
             /\ \/ \E j : /\ AnswerAt("READ", j)
                          /\ fetched' = IF arg.status = "ok" /\ At(j).wr = arg.wr THEN fetched \union {arg.wr} ELSE fetched
                \/ UNCHANGED <<out, outh, outt, fetched>>
  <2>1. outh' = outh /\ outt' = outt /\ pend' = pend
    BY <1>4, ZenonT(60) DEF OnReadRsp
  <2>2. CASE Waiting("READ", arg.req) # {}
    <3>1. PICK s : s = Oldest(Waiting("READ", arg.req))
      BY ZenonT(60)
    <3>2. Answer(s) /\ fetched' = IF arg.status = "ok" /\ out[s].wr = arg.wr THEN fetched \union {arg.wr} ELSE fetched
      BY <3>1, <2>2, <1>4, ZenonT(60) DEF OnReadRsp
    <3>3. PICK j : AnswerAt("READ", j) /\ s = Nth(j)
      BY <3>1, <3>2, <2>1, <2>2, <1>2, ZenonT(60)
    <3> QED
      BY <3>2, <3>3, <2>1, ZenonT(60) DEF At
  <2>3. CASE Waiting("READ", arg.req) = {}
    BY <2>1, <2>3, <1>4, ZenonT(60) DEF OnReadRsp
  <2> QED
    BY <2>2, <2>3, ZenonT(60)
<1> QED
  BY <1>3, <1>4, ZenonT(60)

=============================================================================
