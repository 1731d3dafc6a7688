--------------------------- MODULE GuestNicProofs ---------------------------
(***************************************************************************)
(* The peer ring implements a queue: for any number of slots, any counter  *)
(* width that is a multiple of it, and any pace of the applications.  And  *)
(* whatever the guest processes call, the NICs use the ring only as        *)
(* PeerRing does, so what they exchange is the queue of Channel.  The MR   *)
(* table describes what was registered, and on joined nodes receives       *)
(* complete in the order they were posted.                                 *)
(*                                                                         *)
(* The argument about the ring is about one direction and its three        *)
(* values, the counters h and t and the slots s; Q is the sequence they    *)
(* stand for.                                                              *)
(***************************************************************************)
EXTENDS GuestNic, TLAPS

Count == 0 .. Wrap - 1
Content == Pkt \cup {Zeroed}
Ring == [0 .. Slots - 1 -> Content]
Gap(h, t) == (h - t) % Wrap
Q(h, t, s) == [i \in 1 .. Gap(h, t) |-> s[(t + i - 1) % Slots]]

-----------------------------------------------------------------------------
(* Sequences.                                                              *)

\* A function on the first numbers is a sequence.
LEMMA SeqOf ==
  ASSUME NEW S, NEW n \in Nat, NEW q \in [1 .. n -> S]
  PROVE  q \in Seq(S) /\ Len(q) = n
OBVIOUS

\* The empty sequence is the only one without an element.
LEMMA EmptyLength ==
  ASSUME NEW S, NEW q \in Seq(S)
  PROVE  q = << >> <=> Len(q) = 0
OBVIOUS

\* Sequences that agree at every place are the same.
LEMMA SeqSame ==
  ASSUME NEW S, NEW p \in Seq(S), NEW q \in Seq(S), Len(p) = Len(q), \A i \in 1 .. Len(p) : p[i] = q[i]
  PROVE  p = q
OBVIOUS

\* All elements but the first.
LEMMA TailSeq ==
  ASSUME NEW S, NEW q \in Seq(S), q # << >>
  PROVE  /\ Tail(q) \in Seq(S) /\ Len(Tail(q)) = Len(q) - 1
         /\ \A i \in 1 .. Len(Tail(q)) : Tail(q)[i] = q[i + 1]
OBVIOUS

\* One element more.
LEMMA AppendSeq ==
  ASSUME NEW S, NEW q \in Seq(S), NEW e \in S
  PROVE  /\ Append(q, e) \in Seq(S) /\ Len(Append(q, e)) = Len(q) + 1
         /\ \A i \in 1 .. Len(q) : Append(q, e)[i] = q[i]
         /\ Append(q, e)[Len(q) + 1] = e
OBVIOUS

-----------------------------------------------------------------------------
(* Remainders.                                                             *)

\* Quotient and remainder.
LEMMA DivMod ==
  ASSUME NEW a \in Int, NEW S \in Nat \ {0}
  PROVE  a % S \in 0 .. S - 1 /\ a \div S \in Int /\ a = S * (a \div S) + (a % S)
BY SMT

\* The remainder is the only number in range that differs by a multiple.
LEMMA ModUnique ==
  ASSUME NEW q \in Int, NEW r \in Int, NEW S \in Nat \ {0}, 0 <= r, r < S
  PROVE  (S * q + r) % S = r
BY SMT

\* Only the zero multiple is smaller than the divisor.
LEMMA SmallMultiple ==
  ASSUME NEW q \in Int, NEW S \in Nat \ {0}, S * q < S, S * q > -S
  PROVE  q = 0
BY SMT

\* Numbers less than S apart have different remainders.
LEMMA ModInjective ==
  ASSUME NEW a \in Int, NEW b \in Int, NEW S \in Nat \ {0}, a <= b, b < a + S, a % S = b % S
  PROVE  a = b
<1> DEFINE q == (b \div S) - (a \div S)
<1>1. q \in Int BY DivMod
<1>2. b - a = S * q BY DivMod, SMT
<1>3. q = 0 BY <1>1, <1>2, SmallMultiple
<1> QED BY <1>2, <1>3

\* A multiple of the divisor does not change the remainder.
LEMMA ModShift ==
  ASSUME NEW a \in Int, NEW k \in Int, NEW S \in Nat \ {0}
  PROVE  (a - S * k) % S = a % S
<1> DEFINE q == (a \div S) - k
           r == a % S
<1>1. q \in Int /\ r \in Int /\ 0 <= r /\ r < S BY DivMod
<1>2. a - S * k = S * q + r BY DivMod, SMT
<1>3. (S * q + r) % S = r BY ZenonT(60), <1>1, ModUnique
<1> QED BY <1>2, <1>3

\* The counters wrap at a multiple of the ring, so a wrap does not move a slot.
LEMMA WrapShift ==
  ASSUME NEW a \in Int
  PROVE  (a - Wrap) % Slots = a % Slots
<1>1. PICK k \in 2 .. Wrap : Wrap = Slots * k BY RingAssumption
<1>2. Slots \in Nat \ {0} /\ k \in Int BY RingAssumption
<1>3. (a - Slots * k) % Slots = a % Slots BY ZenonT(60), <1>2, ModShift
<1> QED BY <1>1, <1>3

\* The distance of the counters, without the remainder.
LEMMA GapValue ==
  ASSUME NEW h \in Count, NEW t \in Count
  PROVE  Gap(h, t) = IF h >= t THEN h - t ELSE h - t + Wrap
<1> Wrap \in Nat \ {0} BY RingAssumption
<1>1. CASE h >= t
  <2>1. (Wrap * 0 + (h - t)) % Wrap = h - t BY <1>1, ModUnique DEF Count
  <2> QED BY <1>1, <2>1 DEF Gap, Count
<1>2. CASE ~(h >= t)
  <2>1. (Wrap * (-1) + (h - t + Wrap)) % Wrap = h - t + Wrap BY <1>2, ModUnique DEF Count
  <2> QED BY <1>2, <2>1 DEF Gap, Count
<1> QED BY <1>1, <1>2

\* A counter goes up by one, or from the top to zero.
LEMMA BumpValue ==
  ASSUME NEW n \in Count
  PROVE  Bump(n) \in Count /\ Bump(n) = IF n + 1 = Wrap THEN 0 ELSE n + 1
<1> Wrap \in Nat \ {0} BY RingAssumption
<1>1. CASE n + 1 = Wrap
  <2>1. (Wrap * 1 + 0) % Wrap = 0 BY ModUnique
  <2> QED BY <1>1, <2>1 DEF Bump, Count
<1>2. CASE n + 1 # Wrap
  <2>1. (Wrap * 0 + (n + 1)) % Wrap = n + 1 BY <1>2, ModUnique DEF Count
  <2> QED BY <1>2, <2>1 DEF Bump, Count
<1> QED BY <1>1, <1>2

\* Any place in the ring is a slot.
LEMMA SlotInRing ==
  ASSUME NEW a \in Int
  PROVE  a % Slots \in 0 .. Slots - 1
BY RingAssumption, DivMod

-----------------------------------------------------------------------------
(* One direction as a sequence.                                            *)

\* Q is a sequence as long as the counters are apart.
LEMMA QSeq ==
  ASSUME NEW h \in Count, NEW t \in Count, NEW s \in Ring
  PROVE  /\ Gap(h, t) \in Nat
         /\ Q(h, t, s) \in Seq(Content)
         /\ Len(Q(h, t, s)) = Gap(h, t)
         /\ \A i \in 1 .. Gap(h, t) : Q(h, t, s)[i] = s[(t + i - 1) % Slots]
<1> Wrap \in Nat BY RingAssumption
<1>1. Gap(h, t) \in Nat BY GapValue DEF Count
<1>2. ASSUME NEW i \in 1 .. Gap(h, t)
      PROVE  s[(t + i - 1) % Slots] \in Content
  <2>1. t + i - 1 \in Int BY <1>1 DEF Count
  <2>2. (t + i - 1) % Slots \in 0 .. Slots - 1 BY <2>1, SlotInRing
  <2> QED BY <2>2 DEF Ring
<1>3. Q(h, t, s) \in [1 .. Gap(h, t) -> Content] BY <1>2 DEF Q
<1>4. Q(h, t, s) \in Seq(Content) BY <1>1, <1>3, SeqOf
<1>5. Len(Q(h, t, s)) = Gap(h, t) BY <1>1, <1>3, SeqOf
<1>6. \A i \in 1 .. Gap(h, t) : Q(h, t, s)[i] = s[(t + i - 1) % Slots] BY DEF Q
<1> QED BY <1>1, <1>4, <1>5, <1>6

\* Equal counters: nothing is queued.
LEMMA QEmpty ==
  ASSUME NEW h \in Count, NEW t \in Count, NEW s \in Ring
  PROVE  h = t <=> Q(h, t, s) = << >>
<1>1. h = t <=> Gap(h, t) = 0 BY GapValue, RingAssumption DEF Count
<1>2. Len(Q(h, t, s)) = Gap(h, t) /\ Q(h, t, s) \in Seq(Content) BY QSeq
<1> QED BY <1>1, <1>2, EmptyLength

\* The slot of the next packet is the one after the queued ones.
LEMMA NextPlace ==
  ASSUME NEW h \in Count, NEW t \in Count
  PROVE  (t + Gap(h, t)) % Slots = h % Slots
<1>0. Wrap \in Nat BY RingAssumption
<1>1. CASE h >= t
  <2>1. t + Gap(h, t) = h BY <1>1, GapValue DEF Count
  <2> QED BY <2>1
<1>2. CASE ~(h >= t)
  <2>1. t + Gap(h, t) = h + Wrap /\ h + Wrap \in Int BY <1>0, <1>2, GapValue DEF Count
  <2>2. ((h + Wrap) - Wrap) % Slots = (h + Wrap) % Slots BY <2>1, WrapShift
  <2>3. (h + Wrap) - Wrap = h BY <1>0 DEF Count
  <2> QED BY <2>1, <2>2, <2>3
<1> QED BY <1>1, <1>2

\* Writing the slot of the next packet changes nothing that is queued.
LEMMA QFill ==
  ASSUME NEW h \in Count, NEW t \in Count, NEW s \in Ring, NEW p \in Content, Gap(h, t) < Slots
  PROVE  Q(h, t, [s EXCEPT ![h % Slots] = p]) = Q(h, t, s)
<1> DEFINE g == Gap(h, t)
           r == [s EXCEPT ![h % Slots] = p]
<1>0. g \in Nat /\ Slots \in Nat \ {0} /\ Wrap \in Nat BY QSeq, RingAssumption
<1>1. ASSUME NEW i \in 1 .. g
      PROVE  (t + i - 1) % Slots # h % Slots
  <2>1. (t + g) % Slots = h % Slots BY NextPlace
  <2>2. t + i - 1 < t + g /\ t + g < (t + i - 1) + Slots BY <1>0, <1>1 DEF Count
  <2>3. t + i - 1 \in Int /\ t + g \in Int BY <1>0 DEF Count
  <2> QED BY <2>1, <2>2, <2>3, <1>0, ModInjective
<1>2. ASSUME NEW i \in 1 .. g
      PROVE  (t + i - 1) % Slots \in 0 .. Slots - 1
  <2>1. t + i - 1 \in Int BY <1>0 DEF Count
  <2> QED BY <2>1, SlotInRing
<1>3. \A i \in 1 .. g : r[(t + i - 1) % Slots] = s[(t + i - 1) % Slots]
  BY <1>1, <1>2 DEF Ring
<1> QED BY <1>3 DEF Q

\* Counting the packet appends the content of its slot.
LEMMA QPublish ==
  ASSUME NEW h \in Count, NEW t \in Count, NEW s \in Ring, Gap(h, t) < Slots
  PROVE  Q(Bump(h), t, s) = Append(Q(h, t, s), s[h % Slots])
<1> DEFINE g == Gap(h, t)
           e == s[h % Slots]
<1>0. g \in Nat /\ Slots \in Nat \ {0} /\ Wrap \in Nat /\ Wrap > Slots BY QSeq, RingAssumption
<1>1. Bump(h) \in Count BY BumpValue
<1>2. Gap(Bump(h), t) = g + 1
  <2>1. g = IF h >= t THEN h - t ELSE h - t + Wrap BY GapValue
  <2>2. Gap(Bump(h), t) = IF Bump(h) >= t THEN Bump(h) - t ELSE Bump(h) - t + Wrap BY <1>1, GapValue
  <2>3. Bump(h) = IF h + 1 = Wrap THEN 0 ELSE h + 1 BY BumpValue
  <2> QED BY <1>0, <2>1, <2>2, <2>3 DEF Count
<1>3. e \in Content BY SlotInRing DEF Ring, Count
<1>4. (t + g) % Slots = h % Slots BY NextPlace
<1>5. /\ Q(Bump(h), t, s) \in Seq(Content)
      /\ Len(Q(Bump(h), t, s)) = g + 1
      /\ \A i \in 1 .. g + 1 : Q(Bump(h), t, s)[i] = s[(t + i - 1) % Slots]
  BY <1>1, <1>2, QSeq
<1>6. /\ Q(h, t, s) \in Seq(Content)
      /\ Len(Q(h, t, s)) = g
      /\ \A i \in 1 .. g : Q(h, t, s)[i] = s[(t + i - 1) % Slots]
  BY QSeq
<1>7. /\ Append(Q(h, t, s), e) \in Seq(Content)
      /\ Len(Append(Q(h, t, s), e)) = g + 1
      /\ \A i \in 1 .. g : Append(Q(h, t, s), e)[i] = Q(h, t, s)[i]
      /\ Append(Q(h, t, s), e)[g + 1] = e
  BY <1>3, <1>6, AppendSeq
<1>8. ASSUME NEW i \in 1 .. g + 1
      PROVE  Q(Bump(h), t, s)[i] = Append(Q(h, t, s), e)[i]
  <2>1. CASE i \in 1 .. g BY <2>1, <1>5, <1>6, <1>7, ZenonT(60)
  <2>2. CASE i = g + 1
    <3>1. t + i - 1 = t + g BY <2>2, <1>0 DEF Count
    <3>2. Q(Bump(h), t, s)[i] = s[(t + i - 1) % Slots] BY <1>5
    <3>3. Append(Q(h, t, s), e)[i] = e BY <2>2, <1>7
    <3> QED BY <3>1, <3>2, <3>3, <1>4
  <2>3. i \in 1 .. g \/ i = g + 1 BY <1>0
  <2> QED BY ZenonT(60), <2>1, <2>2, <2>3
<1> QED BY <1>5, <1>7, <1>8, SeqSame

\* Counting a packet as read removes the oldest.
LEMMA QTake ==
  ASSUME NEW h \in Count, NEW t \in Count, NEW s \in Ring, h # t
  PROVE  Q(h, Bump(t), s) = Tail(Q(h, t, s))
<1> DEFINE g == Gap(h, t)
           u == Bump(t)
<1>0. g \in Nat /\ Slots \in Nat \ {0} /\ Wrap \in Nat BY QSeq, RingAssumption
<1>1. u \in Count BY BumpValue
<1>2. g > 0 /\ Gap(h, u) = g - 1
  <2>1. g = IF h >= t THEN h - t ELSE h - t + Wrap BY GapValue
  <2>2. Gap(h, u) = IF h >= u THEN h - u ELSE h - u + Wrap BY <1>1, GapValue
  <2>3. u = IF t + 1 = Wrap THEN 0 ELSE t + 1 BY BumpValue
  <2> QED BY <1>0, <2>1, <2>2, <2>3 DEF Count
<1>3. ASSUME NEW i \in 1 .. g - 1
      PROVE  (u + i - 1) % Slots = (t + (i + 1) - 1) % Slots
  <2>1. CASE t + 1 = Wrap
    <3>1. u = 0 BY <2>1, BumpValue
    <3>2. u + i - 1 = (t + (i + 1) - 1) - Wrap BY <2>1, <3>1, <1>0 DEF Count
    <3>3. t + (i + 1) - 1 \in Int BY <1>0 DEF Count
    <3>4. ((t + (i + 1) - 1) - Wrap) % Slots = (t + (i + 1) - 1) % Slots BY <3>3, WrapShift
    <3> QED BY <3>2, <3>4
  <2>2. CASE t + 1 # Wrap
    <3>1. u = t + 1 BY <2>2, BumpValue
    <3>2. u + i - 1 = t + (i + 1) - 1 BY <3>1, <1>0 DEF Count
    <3> QED BY <3>2
  <2> QED BY <2>1, <2>2
<1>4. /\ Q(h, u, s) \in Seq(Content)
      /\ Len(Q(h, u, s)) = g - 1
      /\ \A i \in 1 .. g - 1 : Q(h, u, s)[i] = s[(u + i - 1) % Slots]
  BY <1>1, <1>2, QSeq
<1>5. /\ Q(h, t, s) \in Seq(Content)
      /\ Len(Q(h, t, s)) = g
      /\ \A i \in 1 .. g : Q(h, t, s)[i] = s[(t + i - 1) % Slots]
      /\ Q(h, t, s) # << >>
  BY QSeq, QEmpty
<1>6. /\ Tail(Q(h, t, s)) \in Seq(Content)
      /\ Len(Tail(Q(h, t, s))) = g - 1
      /\ \A i \in 1 .. g - 1 : Tail(Q(h, t, s))[i] = Q(h, t, s)[i + 1]
  BY <1>0, <1>5, TailSeq
<1>7. \A i \in 1 .. g - 1 : Q(h, u, s)[i] = Tail(Q(h, t, s))[i]
  <2> SUFFICES ASSUME NEW i \in 1 .. g - 1 PROVE Q(h, u, s)[i] = Tail(Q(h, t, s))[i]
    BY ZenonT(60)
  <2>1. i + 1 \in 1 .. g BY <1>0
  <2> QED BY ZenonT(60), <2>1, <1>3, <1>4, <1>5, <1>6
<1> QED BY <1>4, <1>6, <1>7, SeqSame, ZenonT(60)

-----------------------------------------------------------------------------
(* The ring.                                                               *)

\* The inductive invariant: the applications' pace, kept also while a packet is
\* in its slot and not yet counted; and what is in that slot.
RingInv ==
  /\ head \in [Node -> Count] /\ tail \in [Node -> Count]
  /\ slot \in [Node -> Ring] /\ filled \in [Node -> BOOLEAN]
  /\ \A d \in Node :
       /\ Used(d) <= Ahead
       /\ filled[d] => Used(d) < Ahead /\ slot[d][Place(d)] \in Pkt

\* The fresh ring satisfies it and is the empty channel.
LEMMA RingInitOK == RingInit => RingInv /\ Chan!Init
<1> SUFFICES ASSUME RingInit PROVE RingInv /\ Chan!Init
  OBVIOUS
<1>1. 0 \in Count /\ Wrap \in Nat /\ Slots \in Nat \ {0} BY RingAssumption DEF Count
<1>2. /\ head \in [Node -> Count] /\ tail \in [Node -> Count]
      /\ slot \in [Node -> Ring] /\ filled \in [Node -> BOOLEAN]
  BY <1>1 DEF RingInit, Ring, Content
<1>3. ASSUME NEW d \in Node
      PROVE  Used(d) = 0 /\ ~filled[d]
  <2>1. head[d] = 0 /\ tail[d] = 0 /\ ~filled[d] BY DEF RingInit
  <2>2. Gap(0, 0) = 0 BY <1>1, GapValue
  <2> QED BY <2>1, <2>2 DEF Used, Gap
<1>4. RingInv BY <1>2, <1>3, PacedAssumption DEF RingInv
<1>5. ASSUME NEW d \in Node
      PROVE  Queue[d] = << >>
  <2>1. head[d] = 0 /\ tail[d] = 0 /\ slot[d] \in Ring BY ZenonT(60), <1>2 DEF RingInit
  <2>2. Q(0, 0, slot[d]) = << >> BY <1>1, <2>1, QEmpty
  <2> QED BY <2>1, <2>2 DEF Queue, Q, Used, Gap
<1>6. Queue = [d \in Node |-> << >>] BY <1>5 DEF Queue
<1> QED BY <1>4, <1>6 DEF Chan!Init

\* Queue, in terms of one direction.
LEMMA QueueIs == Queue = [d \in Node |-> Q(head[d], tail[d], slot[d])]
BY DEF Queue, Q, Used, Gap

\* Writing a slot is no step of the channel.
LEMMA FillOK ==
  ASSUME RingInv, NEW d \in Node, NEW p \in Pkt, Fill(d, p)
  PROVE  RingInv' /\ Queue' = Queue
<1> USE DEF RingInv
<1>1. /\ head' = head /\ tail' = tail /\ slot[d] \in Ring /\ head[d] \in Count /\ tail[d] \in Count
      /\ slot' = [slot EXCEPT ![d] = [slot[d] EXCEPT ![head[d] % Slots] = p]]
      /\ filled' = [filled EXCEPT ![d] = TRUE]
      /\ Used(d) < Ahead
  BY DEF Fill, Place
<1>2. head[d] % Slots \in 0 .. Slots - 1 BY <1>1, SlotInRing DEF Count
<1>3. slot' \in [Node -> Ring] /\ slot'[d][head[d] % Slots] = p BY <1>1, <1>2 DEF Ring, Content
<1>4. RingInv'
  <2>1. \A e \in Node : Used(e)' = Used(e) /\ Place(e)' = Place(e) BY <1>1 DEF Used, Place
  <2>2. ASSUME NEW e \in Node
        PROVE  /\ Used(e)' <= Ahead
               /\ filled'[e] => Used(e)' < Ahead /\ slot'[e][Place(e)'] \in Pkt
    <3>1. CASE e = d BY <3>1, <2>1, <1>1, <1>3 DEF Place
    <3>2. CASE e # d
      <4>1. filled'[e] = filled[e] /\ slot'[e] = slot[e] BY <3>2, <1>1
      <4> QED BY <4>1, <2>1
    <3> QED BY <3>1, <3>2
  <2> QED BY <1>1, <1>3, <2>2
<1>5. Gap(head[d], tail[d]) < Slots
  <2>1. Gap(head[d], tail[d]) \in Nat BY <1>1, QSeq
  <2> QED BY <2>1, <1>1, PacedAssumption, RingAssumption DEF Used, Gap
<1>6. ASSUME NEW e \in Node
      PROVE  Q(head'[e], tail'[e], slot'[e]) = Q(head[e], tail[e], slot[e])
  <2>1. CASE e = d
    <3>1. slot'[d] = [slot[d] EXCEPT ![head[d] % Slots] = p] BY <1>1
    <3>2. p \in Content BY DEF Content
    <3>3. slot[d] \in Ring /\ head[d] \in Count /\ tail[d] \in Count BY <1>1
    <3>4. Q(head[d], tail[d], [slot[d] EXCEPT ![head[d] % Slots] = p]) = Q(head[d], tail[d], slot[d])
      <4> HIDE DEF RingInv
      <4> QED BY ZenonT(60), <3>2, <3>3, <1>5, QFill
    <3> QED BY <2>1, <1>1, <3>1, <3>4
  <2>2. CASE e # d
    <3>1. slot'[e] = slot[e] BY <2>2, <1>1
    <3> QED BY <3>1, <1>1
  <2> QED BY <2>1, <2>2
<1>7. Queue' = [e \in Node |-> Q(head'[e], tail'[e], slot'[e])] BY DEF Queue, Q, Used, Gap
<1> QED BY <1>4, <1>6, <1>7, QueueIs

\* Counting the packet sends it.
LEMMA PublishOK ==
  ASSUME RingInv, NEW d \in Node, Publish(d)
  PROVE  RingInv' /\ \E p \in Pkt : Chan!Send(d, p)
<1> USE DEF RingInv
<1> DEFINE g == Gap(head[d], tail[d])
<1>1. /\ tail' = tail /\ slot' = slot /\ slot[d] \in Ring /\ head[d] \in Count /\ tail[d] \in Count
      /\ head' = [head EXCEPT ![d] = Bump(head[d])]
      /\ filled' = [filled EXCEPT ![d] = FALSE]
      /\ filled[d]
  BY DEF Publish
<1>2. g \in Nat /\ g < Ahead /\ g < Slots /\ slot[d][head[d] % Slots] \in Pkt
  <2>1. g \in Nat BY <1>1, QSeq
  <2>2. Used(d) = g /\ Place(d) = head[d] % Slots BY DEF Used, Gap, Place
  <2> QED BY <2>1, <2>2, <1>1, PacedAssumption, RingAssumption
<1>3. Bump(head[d]) \in Count BY <1>1, BumpValue
<1>4. Gap(Bump(head[d]), tail[d]) = g + 1
  <2>1. g = IF head[d] >= tail[d] THEN head[d] - tail[d] ELSE head[d] - tail[d] + Wrap BY <1>1, GapValue
  <2>2. Gap(Bump(head[d]), tail[d]) =
          IF Bump(head[d]) >= tail[d] THEN Bump(head[d]) - tail[d] ELSE Bump(head[d]) - tail[d] + Wrap
    BY <1>1, <1>3, GapValue
  <2>3. Bump(head[d]) = IF head[d] + 1 = Wrap THEN 0 ELSE head[d] + 1 BY <1>1, BumpValue
  <2> QED BY <1>1, <1>2, <2>1, <2>2, <2>3, RingAssumption DEF Count
<1>5. RingInv'
  <2>1. ASSUME NEW e \in Node
        PROVE  /\ Used(e)' <= Ahead
               /\ filled'[e] => Used(e)' < Ahead /\ slot'[e][Place(e)'] \in Pkt
    <3>1. CASE e = d
      <4>1. Used(e)' = g + 1 /\ ~filled'[e] BY <3>1, <1>1, <1>4 DEF Used, Gap
      <4> QED BY <4>1, <1>2, PacedAssumption
    <3>2. CASE e # d
      <4>1. filled'[e] = filled[e] /\ Used(e)' = Used(e) /\ Place(e)' = Place(e)
        BY <3>2, <1>1 DEF Used, Place
      <4> QED BY <4>1, <1>1
    <3> QED BY <3>1, <3>2
  <2> QED BY <1>1, <1>3, <2>1
<1>6. Q(Bump(head[d]), tail[d], slot[d]) = Append(Q(head[d], tail[d], slot[d]), slot[d][head[d] % Slots])
  BY <1>1, <1>2, QPublish
<1>7. Queue' = [e \in Node |-> Q(head'[e], tail'[e], slot'[e])] BY DEF Queue, Q, Used, Gap
<1>8. Queue' = [Queue EXCEPT ![d] = Append(Queue[d], slot[d][head[d] % Slots])]
  BY ZenonT(60), <1>1, <1>6, <1>7, QueueIs
<1> QED BY ZenonT(60), <1>2, <1>5, <1>8 DEF Chan!Send

\* Counting a packet as read receives it.
LEMMA TakeOK ==
  ASSUME RingInv, NEW d \in Node, Take(d)
  PROVE  RingInv' /\ Chan!Receive(d)
<1> USE DEF RingInv
<1> DEFINE g == Gap(head[d], tail[d])
<1>1. /\ head' = head /\ slot' = slot /\ slot[d] \in Ring /\ head[d] \in Count /\ tail[d] \in Count
      /\ tail' = [tail EXCEPT ![d] = Bump(tail[d])]
      /\ filled' = filled
      /\ head[d] # tail[d]
  BY DEF Take, More
<1>2. g \in Nat /\ g = Used(d)
  <2>1. g \in Nat BY <1>1, QSeq
  <2> QED BY <2>1 DEF Used, Gap
<1>3. Bump(tail[d]) \in Count BY <1>1, BumpValue
<1>4. Gap(head[d], Bump(tail[d])) = g - 1
  <2>1. g = IF head[d] >= tail[d] THEN head[d] - tail[d] ELSE head[d] - tail[d] + Wrap BY <1>1, GapValue
  <2>2. Gap(head[d], Bump(tail[d])) =
          IF head[d] >= Bump(tail[d]) THEN head[d] - Bump(tail[d]) ELSE head[d] - Bump(tail[d]) + Wrap
    BY <1>1, <1>3, GapValue
  <2>3. Bump(tail[d]) = IF tail[d] + 1 = Wrap THEN 0 ELSE tail[d] + 1 BY <1>1, BumpValue
  <2> QED BY <1>1, <1>2, <2>1, <2>2, <2>3, RingAssumption DEF Count
<1>5. RingInv'
  <2>1. ASSUME NEW e \in Node
        PROVE  /\ Used(e)' <= Ahead
               /\ filled'[e] => Used(e)' < Ahead /\ slot'[e][Place(e)'] \in Pkt
    <3>0. Place(e)' = Place(e) BY <1>1 DEF Place
    <3>1. CASE e = d
      <4>1. Used(e)' = g - 1 BY <3>1, <1>1, <1>4 DEF Used, Gap
      <4> QED BY SMTT(60), <4>1, <3>0, <3>1, <1>1, <1>2, PacedAssumption
    <3>2. CASE e # d
      <4>1. Used(e)' = Used(e) BY <3>2, <1>1 DEF Used
      <4> QED BY SMTT(60), <4>1, <3>0, <1>1
    <3> QED BY <3>1, <3>2
  <2> QED BY <1>1, <1>3, <2>1
<1>6. /\ Q(head[d], Bump(tail[d]), slot[d]) = Tail(Q(head[d], tail[d], slot[d]))
      /\ Q(head[d], tail[d], slot[d]) # << >>
  BY SMTT(60), <1>1, QTake, QEmpty
<1>7. Queue' = [e \in Node |-> Q(head'[e], tail'[e], slot'[e])] BY DEF Queue, Q, Used, Gap
<1>8. Queue' = [Queue EXCEPT ![d] = Tail(Queue[d])] /\ Queue[d] # << >>
  BY ZenonT(60), <1>1, <1>6, <1>7, QueueIs
<1> QED BY <1>5, <1>8 DEF Chan!Receive

\* The ring with its slots, its wrapping counters and its two-step send
\* implements the queue: in each direction the packets arrive once and in
\* order, as long as the applications leave at most as many unread as the ring
\* has slots (peer_send, peer_ring_drain).
THEOREM RingIsQueue == RingSpec => Queued
<1>1. RingInv /\ [RingNext]_ringvars => RingInv' /\ [Chan!Next]_Queue
  <2> SUFFICES ASSUME RingInv, [RingNext]_ringvars
               PROVE  RingInv' /\ [Chan!Next]_Queue
    OBVIOUS
  <2>1. ASSUME NEW d \in Node, NEW p \in Pkt, Fill(d, p)
        PROVE  RingInv' /\ [Chan!Next]_Queue
    BY <2>1, FillOK
  <2>2. ASSUME NEW d \in Node, Publish(d)
        PROVE  RingInv' /\ [Chan!Next]_Queue
    BY <2>2, PublishOK DEF Chan!Next
  <2>3. ASSUME NEW d \in Node, Take(d)
        PROVE  RingInv' /\ [Chan!Next]_Queue
    BY <2>3, TakeOK DEF Chan!Next
  <2>4. CASE UNCHANGED ringvars
    BY <2>4 DEF ringvars, RingInv, Queue, Used, Place
  <2> QED BY <2>1, <2>2, <2>3, <2>4 DEF RingNext
<1> QED BY <1>1, RingInitOK, PTL DEF RingSpec, Queued, Chan!Spec

-----------------------------------------------------------------------------
(* The guest processes and their NICs.                                     *)

\* Every step of the two nodes is a step of the ring or leaves it alone.
LEMMA StepOfRing == [Next]_vars => [RingNext]_ringvars
<1> SUFFICES ASSUME [Next]_vars PROVE [RingNext]_ringvars
  BY SMTT(60)
<1>1. ASSUME NEW p \in Proc,
             \/ RegisterSeg(p) \/ StoreMr(p)
             \/ PostWrite(p) \/ PostRead(p) \/ PostAtomic(p) \/ PostSend(p) \/ PostPending(p)
             \/ PostUnsent(p) \/ PostRecv(p) \/ PollCq(p)
      PROVE  UNCHANGED ringvars
  BY ZenonT(60), <1>1 DEF RegisterSeg, StoreMr, PostWrite, PostRead, PostAtomic, PostSend, PostPending,
              PostUnsent, PostRecv, PollCq
<1>2. ASSUME NEW p \in Proc, PostPeer(p)
      PROVE  RingNext
  <2>1. Home[p] \in Node BY GuestAssumption
  <2>2. Fill(Home[p], Packet(p)) BY <1>2 DEF PostPeer
  <2>3. Packet(p) \in Pkt BY <2>2 DEF Fill
  <2> QED BY <2>1, <2>2, <2>3 DEF RingNext
<1>3. ASSUME NEW p \in Proc, PeerSent(p)
      PROVE  RingNext
  <2>1. Home[p] \in Node /\ Publish(Home[p]) BY <1>3, GuestAssumption DEF PeerSent
  <2> QED BY <2>1 DEF RingNext
<1>4. ASSUME NEW p \in Proc, NEW d \in Node, PollDrain(p, d)
      PROVE  RingNext
  <2>1. Take(d) BY ZenonT(60), <1>4 DEF PollDrain
  <2> QED BY ZenonT(60), <2>1 DEF RingNext
<1>5. CASE UNCHANGED vars
  BY <1>5 DEF vars
<1> QED BY <1>1, <1>2, <1>3, <1>4, <1>5 DEF Next, GoesOn

\* What two nodes of guest processes exchange over the peer ring (peer_send in
\* the doorbell, peer_ring_drain in the poll) arrives once and in order, for
\* any processes, programs, ring and counter width.
THEOREM GuestQueued == Spec => Queued
<1>1. Spec => RingSpec
  <2>1. Init => RingInit BY ZenonT(60) DEF Init
  <2> QED BY <2>1, StepOfRing, PTL DEF Spec, RingSpec
<1> QED BY <1>1, RingIsQueue

-----------------------------------------------------------------------------
(* Registration.                                                           *)

\* The inductive invariant: what the slot holds of a registration under way
\* that no other process disturbed, and whose token it may hold.
Shape ==
  /\ reg \in [Proc -> 0 .. 3] /\ torn \in [Proc -> BOOLEAN]
  /\ seg = [p \in Proc |-> [tok |-> seg[p].tok, va |-> seg[p].va, len |-> seg[p].len]]
  /\ nic = [n \in Node |-> [asm |-> nic[n].asm, mr |-> nic[n].mr, recvq |-> nic[n].recvq,
                            pend |-> nic[n].pend, cq |-> nic[n].cq]]
  /\ \A n \in Node :
       nic[n].asm = [va |-> nic[n].asm.va, tok |-> nic[n].asm.tok, len |-> nic[n].asm.len]
SlotHolds(p) ==
  ~torn[p] /\ reg[p] # 0 => /\ nic[Home[p]].asm.va = seg[p].va
                            /\ reg[p] \in {2, 3} => nic[Home[p]].asm.tok = seg[p].tok
                            /\ reg[p] = 3 => nic[Home[p]].asm.len = seg[p].len
SlotToken(n) ==
  \/ nic[n].asm.tok = 0
  \/ \E q \in Proc : Home[q] = n /\ reg[q] \in {2, 3} /\ nic[n].asm.tok = seg[q].tok
RegInv ==
  /\ Shape
  /\ \A p \in Proc : SlotHolds(p)
  /\ \A n \in Node : SlotToken(n)
  /\ MrIntact

\* A step that leaves the registrations, the slot and the table alone keeps it.
LEMMA RegFrame ==
  ASSUME RegInv, UNCHANGED <<seg, reg, torn>>, Shape',
         \A n \in Node : nic'[n].asm = nic[n].asm /\ nic'[n].mr = nic[n].mr
  PROVE  RegInv'
<1>0. Home \in [Proc -> Node] BY GuestAssumption, ZenonT(60)
<1>1. \A p \in Proc : SlotHolds(p)' BY <1>0, ZenonT(60) DEF RegInv, SlotHolds
<1>2. \A n \in Node : SlotToken(n)' BY SMTT(60) DEF RegInv, SlotToken
<1>3. MrIntact' BY <1>0 DEF RegInv, MrIntact
<1> QED BY <1>1, <1>2, <1>3 DEF RegInv

\* The shapes, apart: domains, and what a segment, a NIC and a slot look like.
LEMMA Shapes ==
  ASSUME RegInv
  PROVE  /\ reg \in [Proc -> 0 .. 3] /\ torn \in [Proc -> BOOLEAN]
         /\ DOMAIN seg = Proc /\ DOMAIN nic = Node
<1>1. Shape BY ZenonT(60) DEF RegInv
<1>2. reg \in [Proc -> 0 .. 3] /\ torn \in [Proc -> BOOLEAN] BY ZenonT(60), <1>1 DEF Shape
<1>3. DOMAIN seg = Proc BY ZenonT(60), <1>1 DEF Shape
<1>4. DOMAIN nic = Node BY ZenonT(60), <1>1 DEF Shape
<1> QED BY ZenonT(60), <1>2, <1>3, <1>4

\* A segment is a record.
LEMMA SegIs ==
  ASSUME RegInv, NEW p \in Proc
  PROVE  seg[p] = [tok |-> seg[p].tok, va |-> seg[p].va, len |-> seg[p].len]
<1>1. seg = [q \in Proc |-> [tok |-> seg[q].tok, va |-> seg[q].va, len |-> seg[q].len]]
  BY ZenonT(60) DEF RegInv, Shape
<1> QED BY ZenonT(60), <1>1

\* A NIC is a record of its five parts.
LEMMA NicIs ==
  ASSUME RegInv, NEW n \in Node
  PROVE  nic[n] = [asm |-> nic[n].asm, mr |-> nic[n].mr, recvq |-> nic[n].recvq,
                   pend |-> nic[n].pend, cq |-> nic[n].cq]
<1>1. nic = [m \in Node |-> [asm |-> nic[m].asm, mr |-> nic[m].mr, recvq |-> nic[m].recvq,
                             pend |-> nic[m].pend, cq |-> nic[m].cq]]
  BY ZenonT(60) DEF RegInv, Shape
<1> QED BY ZenonT(60), <1>1

\* The slot is a record.
LEMMA SlotIs ==
  ASSUME RegInv, NEW n \in Node
  PROVE  nic[n].asm = [va |-> nic[n].asm.va, tok |-> nic[n].asm.tok, len |-> nic[n].asm.len]
BY ZenonT(60) DEF RegInv, Shape

\* A new value for one NIC.
LEMMA NicUpdate ==
  ASSUME RegInv, NEW n \in Node, NEW x, nic' = [nic EXCEPT ![n] = x]
  PROVE  /\ nic'[n] = x
         /\ \A m \in Node : m # n => nic'[m] = nic[m]
         /\ nic' = [m \in Node |-> nic'[m]]
<1>1. DOMAIN nic = Node BY ZenonT(60), Shapes
<1> QED BY ZenonT(60), <1>1

\* The shapes after a step that gives one NIC a new value.
LEMMA ShapeKept ==
  ASSUME RegInv, NEW n \in Node, NEW a, NEW t, NEW q, NEW s, NEW c,
         nic' = [nic EXCEPT ![n] = [asm |-> a, mr |-> t, recvq |-> q, pend |-> s, cq |-> c]],
         a = [va |-> a.va, tok |-> a.tok, len |-> a.len],
         reg' \in [Proc -> 0 .. 3], torn' \in [Proc -> BOOLEAN], DOMAIN seg' = Proc,
         seg' = [p \in Proc |-> [tok |-> seg'[p].tok, va |-> seg'[p].va, len |-> seg'[p].len]]
  PROVE  Shape'
<1> DEFINE x == [asm |-> a, mr |-> t, recvq |-> q, pend |-> s, cq |-> c]
<1>1. x = [asm |-> x.asm, mr |-> x.mr, recvq |-> x.recvq, pend |-> x.pend, cq |-> x.cq] /\ x.asm = a
  OBVIOUS
<1>2. nic' = [nic EXCEPT ![n] = x] OBVIOUS
<1> HIDE DEF x
<1>3. nic'[n] = x /\ (\A m \in Node : m # n => nic'[m] = nic[m]) /\ nic' = [m \in Node |-> nic'[m]]
  BY ZenonT(60), <1>2, NicUpdate
<1>4. ASSUME NEW m \in Node
      PROVE  /\ nic'[m] = [asm |-> nic'[m].asm, mr |-> nic'[m].mr, recvq |-> nic'[m].recvq,
                           pend |-> nic'[m].pend, cq |-> nic'[m].cq]
             /\ nic'[m].asm = [va |-> nic'[m].asm.va, tok |-> nic'[m].asm.tok, len |-> nic'[m].asm.len]
  <2>1. CASE m = n BY ZenonT(60), <2>1, <1>1, <1>3
  <2>2. CASE m # n
    <3>1. nic'[m] = nic[m] BY ZenonT(60), <2>2, <1>3
    <3> QED BY ZenonT(60), <3>1, NicIs, SlotIs
  <2> QED BY ZenonT(60), <2>1, <2>2
<1> QED BY ZenonT(60), <1>3, <1>4 DEF Shape

\* The first store.
LEMMA RegisterSegOK ==
  ASSUME RegInv, NEW p \in Proc, RegisterSeg(p)
  PROVE  RegInv'
<1> DEFINE n == Home[p]
           va == Head(todo[p]).va
           new == [tok |-> token_seq'[n] % TokenMod, va |-> va, len |-> Head(todo[p]).len]
           asm == nic[n].asm
           a == [asm EXCEPT !.va = va]
<1>0. Home \in [Proc -> Node] /\ n \in Node BY GuestAssumption
<1>1. seg[p] = NoSeg /\ seg' = [seg EXCEPT ![p] = new] BY DEF RegisterSeg
<1>2. reg' = [reg EXCEPT ![p] = 1] BY DEF RegisterSeg
<1>3. torn' = [q \in Proc |-> torn[q] \/ (q # p /\ Home[q] = n /\ reg[q] # 0)] BY DEF RegisterSeg, Tears
<1>4. nic' = [nic EXCEPT ![n] = [nic[n] EXCEPT !.asm = a]] BY DEF RegisterSeg
<1>5. new = [tok |-> new.tok, va |-> new.va, len |-> new.len] /\ new.va = va OBVIOUS
<1>6. a = [va |-> va, tok |-> asm.tok, len |-> asm.len]
  <2>1. asm = [va |-> asm.va, tok |-> asm.tok, len |-> asm.len] BY ZenonT(60), <1>0, SlotIs
  <2> HIDE DEF asm, va
  <2> QED BY <2>1
<1>7. a = [va |-> a.va, tok |-> a.tok, len |-> a.len] /\ a.va = va /\ a.tok = asm.tok
  <2> HIDE DEF a, asm, va
  <2> QED BY <1>6
<1> HIDE DEF new, va, a
<1>8. nic' = [nic EXCEPT ![n] = [asm |-> a, mr |-> nic[n].mr, recvq |-> nic[n].recvq,
                                 pend |-> nic[n].pend, cq |-> nic[n].cq]]
  <2>1. [nic[n] EXCEPT !.asm = a] = [asm |-> a, mr |-> nic[n].mr, recvq |-> nic[n].recvq,
                                     pend |-> nic[n].pend, cq |-> nic[n].cq]
    <3>1. nic[n] = [asm |-> nic[n].asm, mr |-> nic[n].mr, recvq |-> nic[n].recvq,
                    pend |-> nic[n].pend, cq |-> nic[n].cq]
      BY ZenonT(60), <1>0, NicIs
    <3> HIDE DEF n
    <3> QED BY SMTT(60), <3>1
  <2> QED BY ZenonT(60), <2>1, <1>4
<1>9. /\ \A m \in Node : nic'[m].mr = nic[m].mr /\ (m # n => nic'[m] = nic[m])
      /\ nic'[n].asm = a
  <2>1. PICK x : x = [asm |-> a, mr |-> nic[n].mr, recvq |-> nic[n].recvq, pend |-> nic[n].pend, cq |-> nic[n].cq]
    BY ZenonT(60)
  <2>2. x.asm = a /\ x.mr = nic[n].mr BY <2>1
  <2>3. nic' = [nic EXCEPT ![n] = x] BY ZenonT(60), <2>1, <1>8
  <2>4. nic'[n] = x /\ \A m \in Node : m # n => nic'[m] = nic[m] BY ZenonT(60), <2>3, <1>0, NicUpdate
  <2> QED BY ZenonT(60), <2>2, <2>4
<1>10. seg'[p] = new /\ DOMAIN seg' = Proc /\ \A q \in Proc : q # p => seg'[q] = seg[q]
  BY ZenonT(60), <1>1, Shapes
<1>11. reg'[p] = 1 /\ reg' \in [Proc -> 0 .. 3] /\ \A q \in Proc : q # p => reg'[q] = reg[q]
  BY SMTT(60), <1>2, Shapes
<1>12. /\ torn' \in [Proc -> BOOLEAN]
       /\ \A q \in Proc : ~torn'[q] => ~torn[q] /\ ~(q # p /\ Home[q] = n /\ reg[q] # 0)
  BY ZenonT(60), <1>3, Shapes
<1>13. Shape'
  <2>1. ASSUME NEW q \in Proc
        PROVE  seg'[q] = [tok |-> seg'[q].tok, va |-> seg'[q].va, len |-> seg'[q].len]
    <3>1. CASE q = p BY ZenonT(60), <3>1, <1>5, <1>10
    <3>2. CASE q # p BY ZenonT(60), <3>2, <1>10, SegIs
    <3> QED BY ZenonT(60), <3>1, <3>2
  <2>2. seg' = [q \in Proc |-> seg'[q]] BY ZenonT(60), <1>1, <1>10
  <2>3. seg' = [q \in Proc |-> [tok |-> seg'[q].tok, va |-> seg'[q].va, len |-> seg'[q].len]]
    BY ZenonT(60), <2>1, <2>2
  <2> QED BY ZenonT(60), <1>0, <1>7, <1>8, <1>10, <1>11, <1>12, <2>3, ShapeKept
<1>14. ASSUME NEW q \in Proc PROVE SlotHolds(q)'
  <2>1. CASE q = p BY SMTT(60), <2>1, <1>5, <1>7, <1>9, <1>10, <1>11 DEF SlotHolds
  <2>2. CASE q # p /\ Home[q] = n BY ZenonT(60), <2>2, <1>11, <1>12 DEF SlotHolds
  <2>3. CASE q # p /\ Home[q] # n
    <3>1. nic'[Home[q]] = nic[Home[q]] /\ reg'[q] = reg[q] /\ seg'[q] = seg[q] /\ (~torn'[q] => ~torn[q])
      BY ZenonT(60), <2>3, <1>0, <1>9, <1>10, <1>11, <1>12
    <3>2. SlotHolds(q) BY ZenonT(60) DEF RegInv
    <3> QED BY ZenonT(60), <3>1, <3>2 DEF SlotHolds
  <2> QED BY ZenonT(60), <2>1, <2>2, <2>3
<1>15. ASSUME NEW m \in Node PROVE SlotToken(m)'
  <2>0. SlotToken(m) BY ZenonT(60) DEF RegInv
  <2>1. nic'[m].asm.tok = nic[m].asm.tok BY ZenonT(60), <1>7, <1>9
  <2>2. CASE nic[m].asm.tok = 0 BY ZenonT(60), <2>1, <2>2 DEF SlotToken
  <2>3. ASSUME NEW q \in Proc, Home[q] = m, reg[q] \in {2, 3}, nic[m].asm.tok = seg[q].tok
        PROVE  SlotToken(m)'
    <3>1. CASE q = p
      <4>1. NoSeg.tok = 0 BY DEF NoSeg
      <4> QED BY ZenonT(60), <4>1, <3>1, <2>2, <2>3, <1>1
    <3>2. CASE q # p
      <4>1. reg'[q] \in {2, 3} /\ seg'[q] = seg[q] BY ZenonT(60), <3>2, <2>3, <1>10, <1>11
      <4> QED BY ZenonT(60), <4>1, <2>1, <2>3 DEF SlotToken
    <3> QED BY ZenonT(60), <3>1, <3>2
  <2> QED BY ZenonT(60), <2>0, <2>2, <2>3 DEF SlotToken
<1>16. MrIntact'
  <2> SUFFICES ASSUME NEW r \in Proc, seg'[r].tok # 0, reg'[r] = 0, ~torn'[r],
                      \A q \in Proc \ {r} : Home[q] = Home[r] => seg'[q].tok # seg'[r].tok
               PROVE  /\ seg'[r].tok \in DOMAIN nic'[Home[r]].mr
                      /\ nic'[Home[r]].mr[seg'[r].tok] = [owner |-> r, va |-> seg'[r].va, len |-> seg'[r].len]
    BY ZenonT(60) DEF MrIntact
  <2>1. r # p BY SMTT(60), <1>11
  <2>2. seg'[r] = seg[r] /\ reg[r] = 0 /\ ~torn[r] BY ZenonT(60), <2>1, <1>10, <1>11, <1>12
  <2>3. ASSUME NEW q \in Proc \ {r}, Home[q] = Home[r]
        PROVE  seg[q].tok # seg[r].tok
    <3>1. CASE q = p
      <4>1. NoSeg.tok = 0 BY DEF NoSeg
      <4> QED BY ZenonT(60), <4>1, <3>1, <2>2, <1>1
    <3>2. CASE q # p BY ZenonT(60), <3>2, <2>3, <2>2, <1>10
    <3> QED BY ZenonT(60), <3>1, <3>2
  <2>4. /\ seg[r].tok \in DOMAIN nic[Home[r]].mr
        /\ nic[Home[r]].mr[seg[r].tok] = [owner |-> r, va |-> seg[r].va, len |-> seg[r].len]
    BY ZenonT(60), <2>2, <2>3 DEF RegInv, MrIntact
  <2> QED BY ZenonT(60), <2>2, <2>4, <1>0, <1>9
<1> QED BY ZenonT(60), <1>13, <1>14, <1>15, <1>16 DEF RegInv

\* A NIC whose slot is replaced, as one record.
LEMMA NewSlot ==
  ASSUME RegInv, NEW n \in Node, NEW b, nic' = [nic EXCEPT ![n].asm = b]
  PROVE  nic' = [nic EXCEPT ![n] = [asm |-> b, mr |-> nic[n].mr, recvq |-> nic[n].recvq,
                                    pend |-> nic[n].pend, cq |-> nic[n].cq]]
<1>1. DOMAIN nic = Node BY ZenonT(60), Shapes
<1>2. nic' = [nic EXCEPT ![n] = [nic[n] EXCEPT !.asm = b]] BY ZenonT(60), <1>1
<1>3. nic[n] = [asm |-> nic[n].asm, mr |-> nic[n].mr, recvq |-> nic[n].recvq,
                pend |-> nic[n].pend, cq |-> nic[n].cq]
  BY ZenonT(60), NicIs
<1>4. PICK x : x = [nic[n] EXCEPT !.asm = b] BY ZenonT(60)
<1>5. x = [asm |-> b, mr |-> nic[n].mr, recvq |-> nic[n].recvq, pend |-> nic[n].pend, cq |-> nic[n].cq]
  BY ZenonT(60), <1>3, <1>4
<1>6. nic' = [nic EXCEPT ![n] = x] BY ZenonT(60), <1>2, <1>4
<1> QED BY ZenonT(60), <1>5, <1>6

\* The same for a slot that is emptied into the table.
LEMMA NewEntry ==
  ASSUME RegInv, NEW n \in Node, NEW b, NEW t, nic' = [nic EXCEPT ![n].asm = b, ![n].mr = t]
  PROVE  nic' = [nic EXCEPT ![n] = [asm |-> b, mr |-> t, recvq |-> nic[n].recvq,
                                    pend |-> nic[n].pend, cq |-> nic[n].cq]]
<1>1. DOMAIN nic = Node BY ZenonT(60), Shapes
<1>2. nic' = [nic EXCEPT ![n] = [nic[n] EXCEPT !.asm = b, !.mr = t]] BY ZenonT(60), <1>1
<1>3. nic[n] = [asm |-> nic[n].asm, mr |-> nic[n].mr, recvq |-> nic[n].recvq,
                pend |-> nic[n].pend, cq |-> nic[n].cq]
  BY ZenonT(60), NicIs
<1>4. PICK x : x = [nic[n] EXCEPT !.asm = b, !.mr = t] BY ZenonT(60)
<1>5. x = [asm |-> b, mr |-> t, recvq |-> nic[n].recvq, pend |-> nic[n].pend, cq |-> nic[n].cq]
  BY ZenonT(60), <1>3, <1>4
<1>6. nic' = [nic EXCEPT ![n] = x] BY ZenonT(60), <1>2, <1>4
<1> QED BY ZenonT(60), <1>5, <1>6

\* The stores after the first; the last one fires.
LEMMA StoreMrOK ==
  ASSUME RegInv, NEW p \in Proc, StoreMr(p)
  PROVE  RegInv'
<1> DEFINE n == Home[p]
           asm == nic[n].asm
           mr == nic[n].mr
           a == CASE reg[p] = 1 -> [asm EXCEPT !.tok = seg[p].tok]
                  [] reg[p] = 2 -> [asm EXCEPT !.len = seg[p].len]
                  [] OTHER -> asm
           entry == [owner |-> p, va |-> a.va, len |-> a.len]
           table == [t \in DOMAIN mr \cup {a.tok} |-> IF t = a.tok THEN entry ELSE mr[t]]
<1>0. Home \in [Proc -> Node] /\ n \in Node BY GuestAssumption
<1>1. seg' = seg BY DEF StoreMr
<1>2. nic' = IF reg[p] = 3 THEN [nic EXCEPT ![n].asm = NoFields, ![n].mr = table]
                           ELSE [nic EXCEPT ![n].asm = a]
  BY ZenonT(60) DEF StoreMr, Fires
<1>3. /\ reg[p] = 3 => nic' = [nic EXCEPT ![n].asm = NoFields, ![n].mr = table]
      /\ reg[p] # 3 => nic' = [nic EXCEPT ![n].asm = a]
  <2> HIDE DEF n, a, table
  <2> QED BY ZenonT(60), <1>2
<1>4. reg \in [Proc -> 0 .. 3] /\ reg[p] \in {1, 2, 3}
  <2>1. reg \in [Proc -> 0 .. 3] /\ reg[p] # 0 BY ZenonT(60), Shapes DEF StoreMr
  <2> QED BY SMTT(60), <2>1
<1>5. /\ reg'[p] = IF reg[p] = 3 THEN 0 ELSE reg[p] + 1
      /\ \A q \in Proc : q # p => reg'[q] = reg[q]
      /\ reg' \in [Proc -> 0 .. 3]
  <2>1. reg' = [reg EXCEPT ![p] = (reg[p] + 1) % 4] BY ZenonT(60) DEF StoreMr
  <2> QED BY SMTT(60), <2>1, <1>4
<1>6. /\ torn' \in [Proc -> BOOLEAN]
      /\ \A q \in Proc : ~torn'[q] => ~torn[q] /\ ~(q # p /\ Home[q] = n /\ reg[q] # 0)
  <2>1. torn' = [q \in Proc |-> torn[q] \/ (q # p /\ Home[q] = n /\ reg[q] # 0)] BY DEF StoreMr, Tears
  <2> QED BY ZenonT(60), <2>1, Shapes
<1>7. asm = [va |-> asm.va, tok |-> asm.tok, len |-> asm.len] BY ZenonT(60), <1>0, SlotIs
<1>8. nic[n] = [asm |-> asm, mr |-> mr, recvq |-> nic[n].recvq, pend |-> nic[n].pend, cq |-> nic[n].cq]
  BY ZenonT(60), <1>0, NicIs
<1>9. /\ DOMAIN seg' = Proc
      /\ seg' = [q \in Proc |-> [tok |-> seg'[q].tok, va |-> seg'[q].va, len |-> seg'[q].len]]
  <2>1. seg = [q \in Proc |-> [tok |-> seg[q].tok, va |-> seg[q].va, len |-> seg[q].len]]
    BY ZenonT(60) DEF RegInv, Shape
  <2> QED BY ZenonT(60), <2>1, <1>1, Shapes
<1>10. \A q \in Proc : SlotHolds(q) BY ZenonT(60) DEF RegInv
\* The processes of other nodes are as before.
<1>11. ASSUME \A m \in Node : m # n => nic'[m] = nic[m], NEW q \in Proc, Home[q] # n
       PROVE  SlotHolds(q)'
  <2>1. nic'[Home[q]] = nic[Home[q]] /\ reg'[q] = reg[q] /\ (~torn'[q] => ~torn[q])
    BY ZenonT(60), <1>0, <1>5, <1>6, <1>11
  <2> QED BY ZenonT(60), <2>1, <1>1, <1>10 DEF SlotHolds
<1>12. ASSUME NEW q \in Proc, q # p, Home[q] = n PROVE SlotHolds(q)'
  BY ZenonT(60), <1>5, <1>6, <1>12 DEF SlotHolds
<1>13. ASSUME \A m \in Node : m # n => nic'[m] = nic[m], NEW m \in Node, m # n
       PROVE  SlotToken(m)'
  <2>1. nic'[m] = nic[m] /\ \A q \in Proc : Home[q] = m => reg'[q] = reg[q] BY ZenonT(60), <1>5, <1>13
  <2>2. SlotToken(m) BY ZenonT(60) DEF RegInv
  <2> QED BY ZenonT(60), <2>1, <2>2, <1>1 DEF SlotToken
<1>14. CASE reg[p] \in {1, 2}
  <2>1. /\ reg[p] = 1 => a = [asm EXCEPT !.tok = seg[p].tok]
        /\ reg[p] = 2 => a = [asm EXCEPT !.len = seg[p].len]
    <3> HIDE DEF asm
    <3> QED BY SMTT(60)
  <2> HIDE DEF a, asm
  <2>2. /\ a = [va |-> a.va, tok |-> a.tok, len |-> a.len] /\ a.va = asm.va
        /\ reg[p] = 1 => a.tok = seg[p].tok
        /\ reg[p] = 2 => a.tok = asm.tok /\ a.len = seg[p].len
    <3>1. CASE reg[p] = 1
      <4>1. a = [va |-> asm.va, tok |-> seg[p].tok, len |-> asm.len] BY SMTT(60), <2>1, <1>7, <3>1
      <4> QED BY SMTT(60), <4>1, <3>1
    <3>2. CASE reg[p] = 2
      <4>1. a = [va |-> asm.va, tok |-> asm.tok, len |-> seg[p].len] BY SMTT(60), <2>1, <1>7, <3>2
      <4> QED BY SMTT(60), <4>1, <3>2
    <3> QED BY SMTT(60), <3>1, <3>2, <1>14
  <2>3. nic' = [nic EXCEPT ![n] = [asm |-> a, mr |-> mr, recvq |-> nic[n].recvq,
                                   pend |-> nic[n].pend, cq |-> nic[n].cq]]
    <3>1. reg[p] # 3 BY SMTT(60), <1>14
    <3>2. nic' = [nic EXCEPT ![n].asm = a] BY ZenonT(60), <3>1, <1>3
    <3> QED BY ZenonT(60), <3>2, <1>0, NewSlot
  <2>4. nic'[n].asm = a /\ nic'[n].mr = mr /\ \A m \in Node : m # n => nic'[m] = nic[m]
    <3>1. PICK x : x = [asm |-> a, mr |-> mr, recvq |-> nic[n].recvq, pend |-> nic[n].pend, cq |-> nic[n].cq]
      BY ZenonT(60)
    <3>2. x.asm = a /\ x.mr = mr BY SMTT(60), <3>1
    <3>3. nic' = [nic EXCEPT ![n] = x] BY ZenonT(60), <3>1, <2>3
    <3>4. nic'[n] = x /\ \A m \in Node : m # n => nic'[m] = nic[m] BY ZenonT(60), <3>3, <1>0, NicUpdate
    <3> QED BY ZenonT(60), <3>2, <3>4
  <2>5. Shape' BY ZenonT(60), <1>0, <1>5, <1>6, <1>9, <2>2, <2>3, ShapeKept
  <2>6. SlotHolds(p)'
    <3>1. ~torn'[p] => ~torn[p] BY ZenonT(60), <1>6
    <3>2. reg[p] # 0 /\ (reg[p] = 2 => reg[p] \in {2, 3}) /\ (reg'[p] = 3 => reg[p] = 2)
      BY SMTT(60), <1>5, <1>14
    <3>3. ~torn'[p] => asm.va = seg[p].va /\ (reg[p] = 2 => asm.tok = seg[p].tok)
      BY ZenonT(60), <3>1, <3>2, <1>10 DEF SlotHolds, asm
    <3>4. ~torn'[p] => a.va = seg[p].va /\ a.tok = seg[p].tok /\ (reg'[p] = 3 => a.len = seg[p].len)
      BY ZenonT(60), <3>2, <3>3, <2>2, <1>14
    <3> QED BY ZenonT(60), <3>4, <2>4, <1>1 DEF SlotHolds
  <2>7. \A q \in Proc : SlotHolds(q)' BY ZenonT(60), <2>4, <2>6, <1>11, <1>12
  <2>8. SlotToken(n)'
    <3>1. reg'[p] \in {2, 3} BY SMTT(60), <1>5, <1>14
    <3>2. CASE reg[p] = 1 BY ZenonT(60), <3>1, <3>2, <2>2, <2>4, <1>1 DEF SlotToken
    <3>3. CASE reg[p] = 2
      <4>1. SlotToken(n) BY ZenonT(60), <1>0 DEF RegInv
      <4>2. nic'[n].asm.tok = nic[n].asm.tok BY ZenonT(60), <3>3, <2>2, <2>4 DEF asm
      <4>3. \A q \in Proc : reg[q] \in {2, 3} => reg'[q] \in {2, 3} BY ZenonT(60), <3>1, <1>5
      <4> QED BY ZenonT(60), <4>1, <4>2, <4>3, <1>1 DEF SlotToken
    <3> QED BY ZenonT(60), <3>2, <3>3, <1>14
  <2>9. \A m \in Node : SlotToken(m)' BY ZenonT(60), <2>4, <2>8, <1>13
  <2>10. MrIntact'
    <3>1. \A m \in Node : nic'[m].mr = nic[m].mr BY ZenonT(60), <2>4
    <3>2. \A r \in Proc : reg'[r] = 0 /\ ~torn'[r] => reg[r] = 0 /\ ~torn[r]
      BY SMTT(60), <1>5, <1>6, <1>14
    <3>3. MrIntact BY ZenonT(60) DEF RegInv
    <3> SUFFICES ASSUME NEW r \in Proc, seg'[r].tok # 0, reg'[r] = 0, ~torn'[r],
                        \A q \in Proc \ {r} : Home[q] = Home[r] => seg'[q].tok # seg'[r].tok
                 PROVE  /\ seg'[r].tok \in DOMAIN nic'[Home[r]].mr
                        /\ nic'[Home[r]].mr[seg'[r].tok] = [owner |-> r, va |-> seg'[r].va, len |-> seg'[r].len]
      BY ZenonT(60) DEF MrIntact
    <3>4. Home[r] \in Node /\ nic'[Home[r]].mr = nic[Home[r]].mr BY ZenonT(60), <3>1, <1>0
    <3>5. /\ seg[r].tok \in DOMAIN nic[Home[r]].mr
          /\ nic[Home[r]].mr[seg[r].tok] = [owner |-> r, va |-> seg[r].va, len |-> seg[r].len]
      BY ZenonT(60), <3>2, <3>3, <1>1 DEF MrIntact
    <3> QED BY ZenonT(60), <3>4, <3>5, <1>1
  <2> QED BY ZenonT(60), <2>5, <2>7, <2>9, <2>10 DEF RegInv
<1>15. CASE reg[p] = 3
  <2>1. a = asm
    <3> HIDE DEF asm
    <3> QED BY SMTT(60), <1>15
  <2>2. \A t : (t = a.tok => t \in DOMAIN table /\ table[t] = entry)
               /\ (t # a.tok /\ t \in DOMAIN mr => t \in DOMAIN table /\ table[t] = mr[t])
    <3> HIDE DEF a, entry, mr
    <3> QED BY ZenonT(60)
  <2>3. entry = [owner |-> p, va |-> asm.va, len |-> asm.len]
    <3> HIDE DEF a, asm
    <3> QED BY ZenonT(60), <2>1
  <2> HIDE DEF a, asm, entry, table
  <2>4. nic' = [nic EXCEPT ![n] = [asm |-> NoFields, mr |-> table, recvq |-> nic[n].recvq,
                                   pend |-> nic[n].pend, cq |-> nic[n].cq]]
    <3>1. nic' = [nic EXCEPT ![n].asm = NoFields, ![n].mr = table] BY ZenonT(60), <1>3, <1>15
    <3> QED BY ZenonT(60), <3>1, <1>0, NewEntry
  <2>5. nic'[n].asm = NoFields /\ nic'[n].mr = table /\ \A m \in Node : m # n => nic'[m] = nic[m]
    <3>1. PICK x : x = [asm |-> NoFields, mr |-> table, recvq |-> nic[n].recvq,
                        pend |-> nic[n].pend, cq |-> nic[n].cq]
      BY ZenonT(60)
    <3>2. x.asm = NoFields /\ x.mr = table BY SMTT(60), <3>1
    <3>3. nic' = [nic EXCEPT ![n] = x] BY ZenonT(60), <3>1, <2>4
    <3>4. nic'[n] = x /\ \A m \in Node : m # n => nic'[m] = nic[m] BY ZenonT(60), <3>3, <1>0, NicUpdate
    <3> QED BY ZenonT(60), <3>2, <3>4
  <2>6. NoFields = [va |-> NoFields.va, tok |-> NoFields.tok, len |-> NoFields.len] /\ NoFields.tok = 0
    BY SMTT(60) DEF NoFields
  <2>7. Shape' BY ZenonT(60), <1>0, <1>5, <1>6, <1>9, <2>4, <2>6, ShapeKept
  <2>8. reg'[p] = 0 BY SMTT(60), <1>5, <1>15
  <2>9. SlotHolds(p)' BY ZenonT(60), <2>8 DEF SlotHolds
  <2>10. \A q \in Proc : SlotHolds(q)' BY ZenonT(60), <2>5, <2>9, <1>11, <1>12
  <2>11. SlotToken(n)' BY ZenonT(60), <2>5, <2>6 DEF SlotToken
  <2>12. \A m \in Node : SlotToken(m)' BY ZenonT(60), <2>5, <2>11, <1>13
  <2>13. MrIntact'
    <3> SUFFICES ASSUME NEW r \in Proc, seg'[r].tok # 0, reg'[r] = 0, ~torn'[r],
                        \A q \in Proc \ {r} : Home[q] = Home[r] => seg'[q].tok # seg'[r].tok
                 PROVE  /\ seg'[r].tok \in DOMAIN nic'[Home[r]].mr
                        /\ nic'[Home[r]].mr[seg'[r].tok] = [owner |-> r, va |-> seg'[r].va, len |-> seg'[r].len]
      BY ZenonT(60) DEF MrIntact
    <3>0. ~torn[r] /\ seg'[r] = seg[r] BY ZenonT(60), <1>1, <1>6
    <3>1. CASE r = p
      <4>1. asm.va = seg[p].va /\ asm.tok = seg[p].tok /\ asm.len = seg[p].len
        <5>1. reg[p] # 0 /\ reg[p] \in {2, 3} BY SMTT(60), <1>15
        <5> QED BY ZenonT(60), <5>1, <3>0, <3>1, <1>10, <1>15 DEF SlotHolds, asm
      <4>2. table[seg[p].tok] = entry /\ seg[p].tok \in DOMAIN table BY ZenonT(60), <4>1, <2>1, <2>2
      <4> QED BY ZenonT(60), <3>0, <3>1, <4>1, <4>2, <2>3, <2>5
    <3>2. CASE r # p
      <4>1. reg[r] = 0 BY ZenonT(60), <3>2, <1>5
      <4>2. /\ seg[r].tok \in DOMAIN nic[Home[r]].mr
            /\ nic[Home[r]].mr[seg[r].tok] = [owner |-> r, va |-> seg[r].va, len |-> seg[r].len]
        BY ZenonT(60), <3>0, <4>1, <1>1 DEF RegInv, MrIntact
      <4>3. CASE Home[r] # n BY ZenonT(60), <4>2, <4>3, <3>0, <2>5, <1>0
      <4>4. CASE Home[r] = n
        <5>1. asm.tok # seg[r].tok
          <6>1. CASE asm.tok = 0 BY ZenonT(60), <6>1, <3>0
          <6>2. ASSUME NEW q \in Proc, Home[q] = n, reg[q] \in {2, 3}, asm.tok = seg[q].tok
                PROVE  asm.tok # seg[r].tok
            <7>1. q # r BY SMTT(60), <6>2, <4>1
            <7> QED BY ZenonT(60), <7>1, <6>2, <4>4, <1>1
          <6>3. SlotToken(n) BY ZenonT(60), <1>0 DEF RegInv
          <6> QED BY ZenonT(60), <6>1, <6>2, <6>3 DEF SlotToken, asm
        <5>2. seg[r].tok \in DOMAIN table /\ table[seg[r].tok] = mr[seg[r].tok]
          BY ZenonT(60), <5>1, <4>2, <4>4, <2>1, <2>2
        <5> QED BY ZenonT(60), <5>2, <4>2, <4>4, <3>0, <2>5
      <4> QED BY ZenonT(60), <4>3, <4>4
    <3> QED BY ZenonT(60), <3>1, <3>2
  <2> QED BY ZenonT(60), <2>7, <2>10, <2>12, <2>13 DEF RegInv
<1> QED BY ZenonT(60), <1>4, <1>14, <1>15

\* A step that changes only the queues of a NIC keeps the invariant.
LEMMA NicFrame ==
  ASSUME RegInv, NEW n \in Node, NEW q, NEW s, NEW c, UNCHANGED <<seg, reg, torn>>,
         nic' = [nic EXCEPT ![n] = [asm |-> nic[n].asm, mr |-> nic[n].mr, recvq |-> q, pend |-> s, cq |-> c]]
  PROVE  RegInv'
<1> DEFINE x == [asm |-> nic[n].asm, mr |-> nic[n].mr, recvq |-> q, pend |-> s, cq |-> c]
<1>1. x.asm = nic[n].asm /\ x.mr = nic[n].mr BY ZenonT(60)
<1>2. nic' = [nic EXCEPT ![n] = x] BY ZenonT(60)
<1> HIDE DEF x
<1>3. \A m \in Node : nic'[m].asm = nic[m].asm /\ nic'[m].mr = nic[m].mr
  <2>1. nic'[n] = x /\ \A m \in Node : m # n => nic'[m] = nic[m] BY ZenonT(60), <1>2, NicUpdate
  <2> QED BY ZenonT(60), <2>1, <1>1
<1>4. x = [asm |-> x.asm, mr |-> x.mr, recvq |-> x.recvq, pend |-> x.pend, cq |-> x.cq]
  BY ZenonT(60) DEF x
<1>5. nic'[n] = x /\ (\A m \in Node : m # n => nic'[m] = nic[m]) /\ nic' = [m \in Node |-> nic'[m]]
  BY ZenonT(60), <1>2, NicUpdate
<1>6. ASSUME NEW m \in Node
      PROVE  /\ nic'[m] = [asm |-> nic'[m].asm, mr |-> nic'[m].mr, recvq |-> nic'[m].recvq,
                           pend |-> nic'[m].pend, cq |-> nic'[m].cq]
             /\ nic'[m].asm = [va |-> nic'[m].asm.va, tok |-> nic'[m].asm.tok, len |-> nic'[m].asm.len]
  <2>1. nic'[m].asm = nic[m].asm BY ZenonT(60), <1>3
  <2>2. CASE m = n BY ZenonT(60), <2>1, <2>2, <1>4, <1>5, SlotIs
  <2>3. CASE m # n
    <3>1. nic'[m] = nic[m] BY ZenonT(60), <2>3, <1>5
    <3> QED BY ZenonT(60), <3>1, NicIs, SlotIs
  <2> QED BY ZenonT(60), <2>2, <2>3
<1>7. /\ reg' \in [Proc -> 0 .. 3] /\ torn' \in [Proc -> BOOLEAN]
      /\ seg' = [p \in Proc |-> [tok |-> seg'[p].tok, va |-> seg'[p].va, len |-> seg'[p].len]]
  <2>1. seg' = seg /\ reg' = reg /\ torn' = torn BY ZenonT(60)
  <2>2. seg = [p \in Proc |-> [tok |-> seg[p].tok, va |-> seg[p].va, len |-> seg[p].len]]
    BY ZenonT(60) DEF RegInv, Shape
  <2> QED BY ZenonT(60), <2>1, <2>2, Shapes
<1>8. Shape' BY ZenonT(60), <1>5, <1>6, <1>7 DEF Shape
<1> QED BY ZenonT(60), <1>3, <1>8, RegFrame

\* So does a step that leaves the NICs alone.
LEMMA SameNic ==
  ASSUME RegInv, UNCHANGED <<nic, seg, reg, torn>>
  PROVE  RegInv'
<1>1. Shape' BY ZenonT(60) DEF RegInv, Shape
<1>2. \A n \in Node : nic'[n].asm = nic[n].asm /\ nic'[n].mr = nic[n].mr BY ZenonT(60)
<1> QED BY ZenonT(60), <1>1, <1>2, RegFrame

\* A call that ends in completions changes only the queues.
LEMMA FinishOK ==
  ASSUME RegInv, NEW p \in Proc, NEW q, NEW cs, Finish(p, q, cs)
  PROVE  RegInv'
<1> DEFINE n == Home[p]
           c == Pushed(nic[n].cq, cs)
<1>0. n \in Node BY GuestAssumption, ZenonT(60)
<1>1. nic' = [nic EXCEPT ![n].recvq = q, ![n].cq = c] BY DEF Finish
<1>9. UNCHANGED <<seg, reg, torn>> BY DEF Finish
<1> HIDE DEF c
<1>2. nic' = [nic EXCEPT ![n] = [nic[n] EXCEPT !.recvq = q, !.cq = c]]
    BY ZenonT(60), <1>0, <1>1, Shapes
<1>3. nic[n] = [asm |-> nic[n].asm, mr |-> nic[n].mr, recvq |-> nic[n].recvq,
              pend |-> nic[n].pend, cq |-> nic[n].cq]
  BY ZenonT(60), <1>0, NicIs
<1>4. PICK x : x = [nic[n] EXCEPT !.recvq = q, !.cq = c] BY ZenonT(60)
<1>5. x = [asm |-> nic[n].asm, mr |-> nic[n].mr, recvq |-> q, pend |-> nic[n].pend, cq |-> c]
  BY ZenonT(60), <1>3, <1>4
<1>6. nic' = [nic EXCEPT ![n] = x] BY ZenonT(60), <1>2, <1>4
<1>7. nic' = [nic EXCEPT ![n] = [asm |-> nic[n].asm, mr |-> nic[n].mr, recvq |-> q, pend |-> nic[n].pend, cq |-> c]]
  BY ZenonT(60), <1>5, <1>6
<1> QED BY ZenonT(60), <1>0, <1>7, <1>9, NicFrame

\* A send that waits is queued.
LEMMA PostPendingOK ==
  ASSUME RegInv, NEW p \in Proc, PostPending(p)
  PROVE  RegInv'
<1> DEFINE n == Home[p]
           s == Append(nic[n].pend, [jetty |-> Jetty[Wr(p).to], p |-> p, tok |-> seg[p].tok, w |-> Wr(p)])
<1>0. n \in Node BY GuestAssumption, ZenonT(60)
<1>1. nic' = [nic EXCEPT ![n].pend = s] BY ZenonT(60) DEF PostPending
<1>9. UNCHANGED <<seg, reg, torn>> BY ZenonT(60) DEF PostPending
<1> HIDE DEF s
<1>2. nic' = [nic EXCEPT ![n] = [nic[n] EXCEPT !.pend = s]]
    BY ZenonT(60), <1>0, <1>1, Shapes
<1>3. nic[n] = [asm |-> nic[n].asm, mr |-> nic[n].mr, recvq |-> nic[n].recvq,
              pend |-> nic[n].pend, cq |-> nic[n].cq]
  BY ZenonT(60), <1>0, NicIs
<1>4. [nic[n] EXCEPT !.pend = s]
        = [asm |-> nic[n].asm, mr |-> nic[n].mr, recvq |-> nic[n].recvq, pend |-> s, cq |-> nic[n].cq]
  BY SMTT(60), <1>3
<1>5. nic' = [nic EXCEPT ![n] = [asm |-> nic[n].asm, mr |-> nic[n].mr, recvq |-> nic[n].recvq, pend |-> s, cq |-> nic[n].cq]]
  BY ZenonT(60), <1>2, <1>4
<1> QED BY ZenonT(60), <1>0, <1>5, <1>9, NicFrame

\* A receive is queued, and may meet a send that waited.
LEMMA PostRecvOK ==
  ASSUME RegInv, NEW p \in Proc, PostRecv(p)
  PROVE  RegInv'
<1> DEFINE n == Home[p]
<1>0. n \in Node BY GuestAssumption, ZenonT(60)
<1>1. UNCHANGED <<seg, reg, torn>> BY ZenonT(60) DEF PostRecv
<1>2. \E q, s, c : \/ nic' = [nic EXCEPT ![n].recvq = q]
                   \/ nic' = [nic EXCEPT ![n].recvq = q, ![n].pend = s, ![n].cq = c]
  BY ZenonT(60) DEF PostRecv
<1>3. PICK q, s, c : \/ nic' = [nic EXCEPT ![n].recvq = q]
                     \/ nic' = [nic EXCEPT ![n].recvq = q, ![n].pend = s, ![n].cq = c]
  BY ZenonT(60), <1>2
<1>4. CASE nic' = [nic EXCEPT ![n].recvq = q]
  <2>1. nic' = [nic EXCEPT ![n] = [nic[n] EXCEPT !.recvq = q]]
    BY ZenonT(60), <1>0, <1>4, Shapes
  <2>2. nic[n] = [asm |-> nic[n].asm, mr |-> nic[n].mr, recvq |-> nic[n].recvq,
                pend |-> nic[n].pend, cq |-> nic[n].cq]
    BY ZenonT(60), <1>0, NicIs
  <2>3. [nic[n] EXCEPT !.recvq = q]
          = [asm |-> nic[n].asm, mr |-> nic[n].mr, recvq |-> q, pend |-> nic[n].pend, cq |-> nic[n].cq]
    BY SMTT(60), <2>2
  <2>4. nic' = [nic EXCEPT ![n] = [asm |-> nic[n].asm, mr |-> nic[n].mr, recvq |-> q, pend |-> nic[n].pend, cq |-> nic[n].cq]]
    BY ZenonT(60), <2>1, <2>3
  <2> QED BY ZenonT(60), <1>0, <1>1, <2>4, NicFrame
<1>5. CASE nic' = [nic EXCEPT ![n].recvq = q, ![n].pend = s, ![n].cq = c]
  <2>1. nic' = [nic EXCEPT ![n] = [nic[n] EXCEPT !.recvq = q, !.pend = s, !.cq = c]]
    BY ZenonT(60), <1>0, <1>5, Shapes
  <2>2. nic[n] = [asm |-> nic[n].asm, mr |-> nic[n].mr, recvq |-> nic[n].recvq,
                pend |-> nic[n].pend, cq |-> nic[n].cq]
    BY ZenonT(60), <1>0, NicIs
  <2>3. PICK x : x = [nic[n] EXCEPT !.recvq = q, !.pend = s, !.cq = c] BY ZenonT(60)
  <2>4. x = [asm |-> nic[n].asm, mr |-> nic[n].mr, recvq |-> q, pend |-> s, cq |-> c]
    BY ZenonT(60), <2>2, <2>3
  <2>5. nic' = [nic EXCEPT ![n] = x] BY ZenonT(60), <2>1, <2>3
  <2>6. nic' = [nic EXCEPT ![n] = [asm |-> nic[n].asm, mr |-> nic[n].mr, recvq |-> q, pend |-> s, cq |-> c]]
    BY ZenonT(60), <2>4, <2>5
  <2> QED BY ZenonT(60), <1>0, <1>1, <2>6, NicFrame
<1> QED BY ZenonT(60), <1>3, <1>4, <1>5

\* A packet of the peer takes a receive and completes it.
LEMMA PollDrainOK ==
  ASSUME RegInv, NEW p \in Proc, NEW d \in Node, PollDrain(p, d)
  PROVE  RegInv'
<1> DEFINE n == Home[p]
<1>0. n \in Node BY GuestAssumption, ZenonT(60)
<1>1. UNCHANGED <<seg, reg, torn>> BY ZenonT(60) DEF PollDrain
<1>2. \E q, c : nic' = nic \/ nic' = [nic EXCEPT ![n].recvq = q, ![n].cq = c]
  BY ZenonT(60) DEF PollDrain
<1>3. PICK q, c : nic' = nic \/ nic' = [nic EXCEPT ![n].recvq = q, ![n].cq = c]
  BY ZenonT(60), <1>2
<1>4. CASE nic' = nic BY <1>1, <1>4, SameNic
<1>5. CASE nic' = [nic EXCEPT ![n].recvq = q, ![n].cq = c]
  <2>1. nic' = [nic EXCEPT ![n] = [nic[n] EXCEPT !.recvq = q, !.cq = c]]
    BY ZenonT(60), <1>0, <1>5, Shapes
  <2>2. nic[n] = [asm |-> nic[n].asm, mr |-> nic[n].mr, recvq |-> nic[n].recvq,
                pend |-> nic[n].pend, cq |-> nic[n].cq]
    BY ZenonT(60), <1>0, NicIs
  <2>3. PICK x : x = [nic[n] EXCEPT !.recvq = q, !.cq = c] BY ZenonT(60)
  <2>4. x = [asm |-> nic[n].asm, mr |-> nic[n].mr, recvq |-> q, pend |-> nic[n].pend, cq |-> c]
    BY ZenonT(60), <2>2, <2>3
  <2>5. nic' = [nic EXCEPT ![n] = x] BY ZenonT(60), <2>1, <2>3
  <2>6. nic' = [nic EXCEPT ![n] = [asm |-> nic[n].asm, mr |-> nic[n].mr, recvq |-> q, pend |-> nic[n].pend, cq |-> c]]
    BY ZenonT(60), <2>4, <2>5
  <2> QED BY ZenonT(60), <1>0, <1>1, <2>6, NicFrame
<1> QED BY ZenonT(60), <1>3, <1>4, <1>5

\* A poll empties a completion queue.
LEMMA PollCqOK ==
  ASSUME RegInv, NEW p \in Proc, PollCq(p)
  PROVE  RegInv'
<1> DEFINE n == Home[p]
           c == [nic[n].cq EXCEPT ![Jfc[p]] = << >>]
<1>0. n \in Node BY GuestAssumption, ZenonT(60)
<1>1. nic' = [nic EXCEPT ![n].cq = c] BY DEF PollCq
<1>9. UNCHANGED <<seg, reg, torn>> BY DEF PollCq
<1> HIDE DEF c
<1>2. nic' = [nic EXCEPT ![n] = [nic[n] EXCEPT !.cq = c]]
    BY ZenonT(60), <1>0, <1>1, Shapes
<1>3. nic[n] = [asm |-> nic[n].asm, mr |-> nic[n].mr, recvq |-> nic[n].recvq,
              pend |-> nic[n].pend, cq |-> nic[n].cq]
  BY ZenonT(60), <1>0, NicIs
<1>4. [nic[n] EXCEPT !.cq = c]
        = [asm |-> nic[n].asm, mr |-> nic[n].mr, recvq |-> nic[n].recvq, pend |-> nic[n].pend, cq |-> c]
  BY SMTT(60), <1>3
<1>5. nic' = [nic EXCEPT ![n] = [asm |-> nic[n].asm, mr |-> nic[n].mr, recvq |-> nic[n].recvq, pend |-> nic[n].pend, cq |-> c]]
  BY ZenonT(60), <1>2, <1>4
<1> QED BY ZenonT(60), <1>0, <1>5, <1>9, NicFrame

\* It holds when the nodes start.
LEMMA RegInit ==
  ASSUME Init
  PROVE  RegInv
<1>0. Home \in [Proc -> Node] BY GuestAssumption, ZenonT(60)
<1>1. /\ seg = [p \in Proc |-> NoSeg] /\ reg = [p \in Proc |-> 0] /\ torn = [p \in Proc |-> FALSE]
  BY ZenonT(60) DEF Init
<1>2. \A n \in Node : nic[n].asm = NoFields BY ZenonT(60) DEF Init
<1>3. nic = [n \in Node |-> [asm |-> nic[n].asm, mr |-> nic[n].mr, recvq |-> nic[n].recvq,
                             pend |-> nic[n].pend, cq |-> nic[n].cq]]
  BY ZenonT(60) DEF Init
<1>4. Shape
  <2>1. reg \in [Proc -> 0 .. 3] /\ torn \in [Proc -> BOOLEAN] BY <1>1
  <2>2. seg = [p \in Proc |-> [tok |-> seg[p].tok, va |-> seg[p].va, len |-> seg[p].len]]
    BY <1>1 DEF NoSeg
  <2>3. NoFields = [va |-> NoFields.va, tok |-> NoFields.tok, len |-> NoFields.len] BY DEF NoFields
  <2> QED BY ZenonT(60), <2>1, <2>2, <2>3, <1>2, <1>3 DEF Shape
<1>5. (\A p \in Proc : SlotHolds(p)) /\ (\A n \in Node : SlotToken(n))
  <2>1. \A p \in Proc : SlotHolds(p) BY ZenonT(60), <1>1 DEF SlotHolds
  <2>2. NoFields.tok = 0 BY DEF NoFields
  <2> QED BY ZenonT(60), <2>1, <2>2, <1>2 DEF SlotToken
<1>6. MrIntact
  <2>1. NoSeg.tok = 0 BY DEF NoSeg
  <2> QED BY ZenonT(60), <2>1, <1>1 DEF MrIntact
<1> QED BY ZenonT(60), <1>4, <1>5, <1>6 DEF RegInv

\* Every step keeps it.
LEMMA RegNext ==
  ASSUME RegInv, [Next]_vars
  PROVE  RegInv'
<1>1. ASSUME NEW p \in Proc, RegisterSeg(p) PROVE RegInv' BY <1>1, RegisterSegOK
<1>2. ASSUME NEW p \in Proc, StoreMr(p) PROVE RegInv' BY ZenonT(60), <1>2, StoreMrOK
<1>3. ASSUME NEW p \in Proc,
             \/ PostWrite(p) \/ PostRead(p) \/ PostAtomic(p) \/ PostSend(p) \/ PostUnsent(p) \/ PeerSent(p)
      PROVE  RegInv'
  <2>1. \E q, cs : Finish(p, q, cs)
    <3>1. CASE PostWrite(p) BY ZenonT(60), <3>1 DEF PostWrite
    <3>2. CASE PostRead(p) BY ZenonT(60), <3>2 DEF PostRead
    <3>3. CASE PostAtomic(p) BY ZenonT(60), <3>3 DEF PostAtomic
    <3>4. CASE PostSend(p) BY ZenonT(60), <3>4 DEF PostSend
    <3>5. CASE PostUnsent(p) BY ZenonT(60), <3>5 DEF PostUnsent
    <3>6. CASE PeerSent(p) BY ZenonT(60), <3>6 DEF PeerSent
    <3> QED BY ZenonT(60), <1>3, <3>1, <3>2, <3>3, <3>4, <3>5, <3>6
  <2> QED BY ZenonT(60), <2>1, FinishOK
<1>4. ASSUME NEW p \in Proc, PostPending(p) PROVE RegInv' BY SMTT(60), <1>4, PostPendingOK
<1>5. ASSUME NEW p \in Proc, PostPeer(p) PROVE RegInv' BY <1>5, SameNic, ZenonT(60) DEF PostPeer
<1>6. ASSUME NEW p \in Proc, PostRecv(p) PROVE RegInv' BY <1>6, PostRecvOK
<1>7. ASSUME NEW p \in Proc, NEW d \in Node, PollDrain(p, d) PROVE RegInv' BY <1>7, PollDrainOK, ZenonT(60)
<1>8. ASSUME NEW p \in Proc, PollCq(p) PROVE RegInv' BY SMTT(60), <1>8, PollCqOK
<1>9. CASE UNCHANGED vars BY <1>9, SameNic DEF vars
<1> QED BY ZenonT(60), <1>1, <1>2, <1>3, <1>4, <1>5, <1>6, <1>7, <1>8, <1>9 DEF Next, GoesOn

\* The NIC's table describes every segment as it was registered, whatever the
\* other processes do, unless one of them stored into the shared slot during the
\* registration or was given the same token (k_register_seg, mmio_b at
\* REGISTER_MR_OFFSET).
THEOREM RegistrationIntact == Spec => []MrIntact
<1>1. RegInv => MrIntact BY ZenonT(60) DEF RegInv
<1> QED BY RegInit, RegNext, <1>1, PTL DEF Spec

-----------------------------------------------------------------------------
(* The receives of a process.                                              *)

\* A list of one completion.
LEMMA ListOfOne ==
  ASSUME NEW c, NEW s, s = <<c>>
  PROVE  Len(s) = 1 /\ s[1] = c
OBVIOUS

\* A list of two.
LEMMA ListOfTwo ==
  ASSUME NEW c, NEW e, NEW s, s = <<c, e>>
  PROVE  Len(s) = 2 /\ Len(s) # 1 /\ s[1] = c /\ s[2] = e
OBVIOUS

\* A sequence of anything is one.
LEMMA SequenceOf ==
  ASSUME NEW T, NEW s \in Seq(T)
  PROVE  IsSequence(s)
<1>1. DOMAIN s = 1 .. Len(s) /\ Len(s) \in Nat /\ \A i \in 1 .. Len(s) : s[i] \in {s[k] : k \in DOMAIN s}
  OBVIOUS
<1>2. s = [i \in 1 .. Len(s) |-> s[i]]
  OBVIOUS
<1>3. s \in [1 .. Len(s) -> {s[k] : k \in DOMAIN s}]
  BY <1>1, <1>2
<1>4. s \in Seq({s[k] : k \in DOMAIN s})
  <2>1. PICK U, n : U = {s[k] : k \in DOMAIN s} /\ n = Len(s) BY ZenonT(60)
  <2>2. n \in Nat /\ s \in [1 .. n -> U] BY <2>1, <1>1, <1>3, ZenonT(60)
  <2>3. s \in Seq(U) BY <2>2, SeqOf
  <2> QED BY <2>1, <2>3, ZenonT(60)
<1> QED BY <1>4, ZenonT(60) DEF IsSequence

\* What a sequence is.
LEMMA SequenceIs ==
  ASSUME NEW s, IsSequence(s)
  PROVE  Len(s) \in Nat /\ DOMAIN s = 1 .. Len(s) /\ (s = << >> <=> Len(s) = 0)
<1>1. PICK T : s \in Seq(T) BY ZenonT(60) DEF IsSequence
<1> QED BY <1>1

\* The empty one.
LEMMA EmptyIs == IsSequence(<< >>) /\ Len(<< >>) = 0 /\ 1 .. 0 = {}
<1>1. << >> \in Seq({}) OBVIOUS
<1>2. IsSequence(<< >>) BY <1>1, SequenceOf, ZenonT(60)
<1>3. Len(<< >>) = 0 OBVIOUS
<1>4. 1 .. 0 = {} OBVIOUS
<1> QED BY <1>2, <1>3, <1>4, ZenonT(60)

\* A sequence with one element more.
LEMMA AppendIs ==
  ASSUME NEW s, IsSequence(s), NEW e
  PROVE  /\ IsSequence(Append(s, e)) /\ Len(Append(s, e)) = Len(s) + 1
         /\ \A i \in 1 .. Len(s) : Append(s, e)[i] = s[i]
         /\ Append(s, e)[Len(s) + 1] = e
<1>1. PICK T : s \in Seq(T) BY ZenonT(60) DEF IsSequence
<1>2. PICK U : U = T \cup {e} BY ZenonT(60)
<1>3. s \in Seq(U) /\ e \in U BY <1>1, <1>2
<1>4. Append(s, e) \in Seq(U) BY <1>3
<1>5. IsSequence(Append(s, e)) BY <1>4, SequenceOf, ZenonT(60)
<1> QED BY <1>3, <1>5, AppendSeq

\* It is not empty.
LEMMA AppendedSome ==
  ASSUME NEW s, IsSequence(s), NEW e
  PROVE  Append(s, e) # << >>
<1>1. IsSequence(Append(s, e)) /\ Len(Append(s, e)) = Len(s) + 1 BY AppendIs, ZenonT(60)
<1>2. Len(s) \in Nat BY SequenceIs
<1>3. Len(Append(s, e)) # 0 BY <1>1, <1>2
<1> QED BY <1>1, <1>3, SequenceIs, ZenonT(60)

\* A sequence without its first element.
LEMMA TailIs ==
  ASSUME NEW s, IsSequence(s), s # << >>
  PROVE  /\ IsSequence(Tail(s)) /\ Len(Tail(s)) = Len(s) - 1
         /\ \A i \in 1 .. Len(Tail(s)) : Tail(s)[i] = s[i + 1]
         /\ Head(s) = s[1]
<1>1. PICK T : s \in Seq(T) BY ZenonT(60) DEF IsSequence
<1>2. /\ Tail(s) \in Seq(T) /\ Len(Tail(s)) = Len(s) - 1 /\ Head(s) = s[1]
      /\ \A i \in 1 .. Len(Tail(s)) : Tail(s)[i] = s[i + 1]
  BY <1>1
<1>3. IsSequence(Tail(s)) BY <1>2, SequenceOf, ZenonT(60)
<1> QED BY <1>2, <1>3, ZenonT(60)

\* A sequence without its k-th element.
LEMMA WithoutIs ==
  ASSUME NEW s, IsSequence(s), NEW k \in 1 .. Len(s)
  PROVE  /\ IsSequence(Without(s, k)) /\ Len(Without(s, k)) = Len(s) - 1
         /\ \A i \in 1 .. Len(s) - 1 : Without(s, k)[i] = IF i < k THEN s[i] ELSE s[i + 1]
<1>1. PICK T : s \in Seq(T) BY ZenonT(60) DEF IsSequence
<1>2. PICK n : n = Len(s) BY ZenonT(60)
<1>3. n \in Nat /\ k \in 1 .. n BY <1>1, <1>2
<1>4. PICK a, b : a = SubSeq(s, 1, k - 1) /\ b = SubSeq(s, k + 1, n) BY ZenonT(60)
<1>5. /\ a \in Seq(T) /\ Len(a) = k - 1
      /\ \A i \in 1 .. k - 1 : a[i] = s[i]
  BY <1>1, <1>2, <1>3, <1>4
<1>6. /\ b \in Seq(T) /\ Len(b) = n - k
      /\ \A i \in 1 .. n - k : b[i] = s[k + i]
  BY <1>1, <1>2, <1>3, <1>4
<1>7. k # 0 BY <1>3
<1>8. Without(s, k) = a \o b BY <1>2, <1>4, <1>7, ZenonT(60) DEF Without
<1>9. PICK c : c = a \o b BY ZenonT(60)
<1>10. /\ c \in Seq(T) /\ Len(c) = n - 1
       /\ \A i \in 1 .. n - 1 : c[i] = IF i <= k - 1 THEN a[i] ELSE b[i - (k - 1)]
  BY <1>3, <1>5, <1>6, <1>9
<1>11. ASSUME NEW i \in 1 .. n - 1 PROVE c[i] = IF i < k THEN s[i] ELSE s[i + 1]
  <2>1. CASE i < k
    <3>1. i \in 1 .. k - 1 /\ i <= k - 1 BY <2>1, <1>3
    <3> QED BY <2>1, <3>1, <1>5, <1>10, ZenonT(60)
  <2>2. CASE ~(i < k)
    <3>1. ~(i <= k - 1) /\ i - (k - 1) \in 1 .. n - k /\ k + (i - (k - 1)) = i + 1 BY <2>2, <1>3
    <3> QED BY <2>2, <3>1, <1>6, <1>10, ZenonT(60)
  <2> QED BY <2>1, <2>2, ZenonT(60)
<1>12. IsSequence(c) BY <1>10, SequenceOf, ZenonT(60)
<1> QED BY <1>2, <1>8, <1>9, <1>10, <1>11, <1>12, ZenonT(60)

\* The receipts in a log d, the receives of x in a queue q, and those that the
\* calls t have yet to post; their user contexts rise from each to the next.
Done(d) == {i \in 1 .. Len(d) : d[i].sr = 1}
Of(q, x) == {i \in 1 .. Len(q) : q[i].p = x}
Recvs(t) == {i \in 1 .. Len(t) : t[i].call = "recv"}
Rising(s, I) == \A i, k \in I : i < k => s[i].uctx < s[k].uctx
Below(s, I, u, J) == \A i \in I, k \in J : s[i].uctx < u[k].uctx
Line(x, d, q, t) ==
  /\ Rising(d, Done(d)) /\ Rising(q, Of(q, x)) /\ Rising(t, Recvs(t))
  /\ Below(d, Done(d), q, Of(q, x)) /\ Below(d, Done(d), t, Recvs(t)) /\ Below(q, Of(q, x), t, Recvs(t))

\* Part v of a sequence s, with its places J taken from places I in order.
Part(v, J, s, I) ==
  \E f : /\ \A i \in J : f[i] \in I /\ v[i] = s[f[i]]
         /\ \A i, k \in J : i < k => f[i] < f[k]

\* A part rises, and is below and above what the whole is.
LEMMA PartLine ==
  ASSUME NEW v, NEW J, NEW s, NEW I, Part(v, J, s, I)
  PROVE  /\ Rising(s, I) => Rising(v, J)
         /\ \A u, K : Below(s, I, u, K) => Below(v, J, u, K)
         /\ \A u, K : Below(u, K, s, I) => Below(u, K, v, J)
<1>1. PICK f : /\ \A i \in J : f[i] \in I /\ v[i] = s[f[i]]
               /\ \A i, k \in J : i < k => f[i] < f[k]
  BY ZenonT(60) DEF Part
<1>2. Rising(s, I) => Rising(v, J) BY <1>1, ZenonT(60) DEF Rising
<1>3. \A u, K : Below(s, I, u, K) => Below(v, J, u, K) BY <1>1, ZenonT(60) DEF Below
<1>4. \A u, K : Below(u, K, s, I) => Below(u, K, v, J) BY <1>1, ZenonT(60) DEF Below
<1> QED BY <1>2, <1>3, <1>4, ZenonT(60)

\* The elements of v are those of q other than the k-th.
Others(v, q, k) == \A i \in 1 .. Len(v) : \E m \in 1 .. Len(q) : v[i] = q[m] /\ m # k
\* What is left of a queue when a receive is taken is a part of it.
LEMMA WithoutPart ==
  ASSUME NEW q, IsSequence(q), NEW k \in 1 .. Len(q), NEW x
  PROVE  /\ Part(Without(q, k), Of(Without(q, k), x), q, Of(q, x))
         /\ Others(Without(q, k), q, k)
<1>1. PICK v, n, J : v = Without(q, k) /\ n = Len(q) /\ J = Of(v, x) BY ZenonT(60)
<1>2. n \in Nat /\ Len(v) = n - 1 /\ k \in 1 .. n
  BY <1>1, SequenceIs, WithoutIs
<1>3. \A i \in 1 .. n - 1 : v[i] = IF i < k THEN q[i] ELSE q[i + 1]
  BY <1>1, WithoutIs, ZenonT(60)
<1>4. PICK f : f = [i \in 1 .. n - 1 |-> IF i < k THEN i ELSE i + 1] BY ZenonT(60)
<1>5. ASSUME NEW i \in 1 .. n - 1 PROVE f[i] \in 1 .. n /\ v[i] = q[f[i]] /\ f[i] # k
  <2>1. f[i] = IF i < k THEN i ELSE i + 1 BY <1>4, ZenonT(60)
  <2>2. i \in 1 .. n /\ i + 1 \in 1 .. n /\ (i < k => i # k) /\ (~(i < k) => i + 1 # k) BY <1>2
  <2>3. CASE i < k BY <2>1, <2>2, <2>3, <1>3, ZenonT(60)
  <2>4. CASE ~(i < k) BY <2>1, <2>2, <2>4, <1>3, ZenonT(60)
  <2> QED BY <2>3, <2>4, ZenonT(60)
<1>6. ASSUME NEW i \in 1 .. n - 1, NEW j \in 1 .. n - 1, i < j PROVE f[i] < f[j]
  <2>1. f[i] = (IF i < k THEN i ELSE i + 1) /\ f[j] = (IF j < k THEN j ELSE j + 1) BY <1>4, ZenonT(60)
  <2>2. PICK a, b : a = f[i] /\ b = f[j] BY ZenonT(60)
  <2>3. a = (IF i < k THEN i ELSE i + 1) /\ b = (IF j < k THEN j ELSE j + 1) BY <2>1, <2>2, ZenonT(60)
  <2>4. a < b BY <2>3, <1>2, <1>6
  <2> QED BY <2>2, <2>4, ZenonT(60)
<1>7. J \subseteq 1 .. n - 1 /\ \A i \in J : v[i].p = x BY <1>1, <1>2, ZenonT(60) DEF Of
<1>8. \A i \in J : f[i] \in Of(q, x) BY <1>1, <1>5, <1>7, ZenonT(60) DEF Of
<1>9. Part(v, J, q, Of(q, x)) BY <1>5, <1>6, <1>7, <1>8, ZenonT(60) DEF Part
<1>10. Others(v, q, k) BY <1>1, <1>2, <1>5, ZenonT(60) DEF Others
<1> QED BY <1>1, <1>9, <1>10, ZenonT(60)

\* The same for the first element.
LEMMA TailPart ==
  ASSUME NEW s, IsSequence(s), s # << >>, NEW x
  PROVE  /\ Part(Tail(s), Of(Tail(s), x), s, Of(s, x))
         /\ Part(Tail(s), Recvs(Tail(s)), s, Recvs(s))
         /\ \A i \in Recvs(Tail(s)) : i + 1 \in Recvs(s) /\ 1 < i + 1 /\ Tail(s)[i] = s[i + 1]
         /\ \A i \in 1 .. Len(Tail(s)) : \E m \in 1 .. Len(s) : Tail(s)[i] = s[m]
<1>1. PICK v, n : v = Tail(s) /\ n = Len(s) BY ZenonT(60)
<1>2. n \in Nat /\ Len(v) = n - 1 BY <1>1, SequenceIs, TailIs
<1>3. \A i \in 1 .. n - 1 : v[i] = s[i + 1] BY <1>1, <1>2, TailIs, ZenonT(60)
<1>4. PICK f : f = [i \in 1 .. n - 1 |-> i + 1] BY ZenonT(60)
<1>5. ASSUME NEW i \in 1 .. n - 1 PROVE f[i] = i + 1 /\ i + 1 \in 1 .. n /\ v[i] = s[i + 1] /\ 1 < i + 1
  <2>1. f[i] = i + 1 BY <1>4, ZenonT(60)
  <2>2. i + 1 \in 1 .. n /\ 1 < i + 1 BY <1>2
  <2> QED BY <2>1, <2>2, <1>3, ZenonT(60)
<1>6. ASSUME NEW i \in 1 .. n - 1, NEW j \in 1 .. n - 1, i < j PROVE f[i] < f[j]
  <2>1. i + 1 < j + 1 BY <1>2, <1>6
  <2> QED BY <2>1, <1>5, ZenonT(60)
<1>7. Of(v, x) \subseteq 1 .. n - 1 /\ \A i \in Of(v, x) : v[i].p = x BY <1>2, ZenonT(60) DEF Of
<1>8. \A i \in Of(v, x) : i + 1 \in Of(s, x) BY <1>1, <1>5, <1>7, ZenonT(60) DEF Of
<1>9. Recvs(v) \subseteq 1 .. n - 1 /\ \A i \in Recvs(v) : v[i].call = "recv" BY <1>2, ZenonT(60) DEF Recvs
<1>10. \A i \in Recvs(v) : i + 1 \in Recvs(s) BY <1>1, <1>5, <1>9, ZenonT(60) DEF Recvs
<1>11. Part(v, Of(v, x), s, Of(s, x)) BY <1>5, <1>6, <1>7, <1>8, ZenonT(60) DEF Part
<1>12. Part(v, Recvs(v), s, Recvs(s)) BY <1>5, <1>6, <1>9, <1>10, ZenonT(60) DEF Part
<1>13. \A i \in Recvs(v) : i + 1 \in Recvs(s) /\ 1 < i + 1 /\ v[i] = s[i + 1]
  BY <1>5, <1>9, <1>10, ZenonT(60)
<1>14. \A i \in 1 .. Len(v) : \E m \in 1 .. Len(s) : v[i] = s[m] BY <1>1, <1>2, <1>5, ZenonT(60)
<1> QED BY <1>1, <1>11, <1>12, <1>13, <1>14, ZenonT(60)

\* A call is made that posts no receive, or is one too many for the queue.
LEMMA LineParts ==
  ASSUME NEW x, NEW d, NEW q, NEW t, Line(x, d, q, t)
  PROVE  /\ \A v : Part(v, Of(v, x), q, Of(q, x)) => Line(x, d, v, t)
         /\ \A v : Part(v, Recvs(v), t, Recvs(t)) => Line(x, d, q, v)
<1>0. /\ Rising(d, Done(d)) /\ Rising(q, Of(q, x)) /\ Rising(t, Recvs(t))
      /\ Below(d, Done(d), q, Of(q, x)) /\ Below(d, Done(d), t, Recvs(t)) /\ Below(q, Of(q, x), t, Recvs(t))
  BY ZenonT(60) DEF Line
<1>1. ASSUME NEW v, Part(v, Of(v, x), q, Of(q, x)) PROVE Line(x, d, v, t)
  <2>1. PICK J, I : J = Of(v, x) /\ I = Of(q, x) BY ZenonT(60)
  <2>2. Part(v, J, q, I) BY <1>1, <2>1, ZenonT(60)
  <2>3. /\ Rising(q, I) => Rising(v, J)
        /\ \A u, K : Below(q, I, u, K) => Below(v, J, u, K)
        /\ \A u, K : Below(u, K, q, I) => Below(u, K, v, J)
    BY <2>2, PartLine, ZenonT(60)
  <2>4. Rising(v, J) BY <2>1, <2>3, <1>0, ZenonT(60)
  <2>5. Below(v, J, t, Recvs(t)) BY <2>1, <2>3, <1>0, ZenonT(60)
  <2>6. Below(d, Done(d), v, J) BY <2>1, <2>3, <1>0, ZenonT(60)
  <2> QED BY <2>1, <2>4, <2>5, <2>6, <1>0, ZenonT(60) DEF Line
<1>2. ASSUME NEW v, Part(v, Recvs(v), t, Recvs(t)) PROVE Line(x, d, q, v)
  <2>1. PICK J, I : J = Recvs(v) /\ I = Recvs(t) BY ZenonT(60)
  <2>2. Part(v, J, t, I) BY <1>2, <2>1, ZenonT(60)
  <2>3. /\ Rising(t, I) => Rising(v, J)
        /\ \A u, K : Below(u, K, t, I) => Below(u, K, v, J)
    BY <2>2, PartLine, ZenonT(60)
  <2>4. Rising(v, J) BY <2>1, <2>3, <1>0, ZenonT(60)
  <2>5. Below(q, Of(q, x), v, J) BY <2>1, <2>3, <1>0, ZenonT(60)
  <2>6. Below(d, Done(d), v, J) BY <2>1, <2>3, <1>0, ZenonT(60)
  <2> QED BY <2>1, <2>4, <2>5, <2>6, <1>0, ZenonT(60) DEF Line
<1> QED BY <1>1, <1>2, ZenonT(60)

\* The places that count in a log or queue v are those of s, and that of a new
\* last element e if it counts.
DoneGrows(v, s, e) ==
  /\ e.sr # 1 => Done(v) = Done(s)
  /\ e.sr = 1 => Done(v) = Done(s) \cup {Len(s) + 1}
  /\ \A i \in Done(s) : i \in Nat /\ i < Len(s) + 1 /\ v[i] = s[i]
  /\ v[Len(s) + 1] = e
OfGrows(v, s, e, x) ==
  /\ e.p # x => Of(v, x) = Of(s, x)
  /\ e.p = x => Of(v, x) = Of(s, x) \cup {Len(s) + 1}
  /\ \A i \in Of(s, x) : i \in Nat /\ i < Len(s) + 1 /\ v[i] = s[i]
  /\ v[Len(s) + 1] = e
\* A completion is appended to a log.
LEMMA AppendedDone ==
  ASSUME NEW s, IsSequence(s), NEW e
  PROVE  DoneGrows(Append(s, e), s, e)
<1>1. PICK v, n : v = Append(s, e) /\ n = Len(s) BY ZenonT(60)
<1>2. n \in Nat /\ Len(v) = n + 1 BY <1>1, SequenceIs, AppendIs
<1>3. (\A i \in 1 .. n : v[i] = s[i]) /\ v[n + 1] = e BY <1>1, AppendIs, ZenonT(60)
<1>4. 1 .. n + 1 = (1 .. n) \cup {n + 1} BY <1>2
<1>5. \A i \in 1 .. n : i \in Nat /\ i < n + 1 BY <1>2
<1>6. \A i : i \in Done(v) <=> i \in Done(s) \/ (e.sr = 1 /\ i = n + 1)
  BY <1>1, <1>2, <1>3, <1>4, ZenonT(60) DEF Done
<1>7. ASSUME e.sr # 1 PROVE Done(v) = Done(s) BY <1>6, <1>7, ZenonT(60)
<1>8. ASSUME e.sr = 1 PROVE Done(v) = Done(s) \cup {n + 1} BY <1>6, <1>8, ZenonT(60)
<1>9. Done(s) \subseteq 1 .. n BY <1>1, ZenonT(60) DEF Done
<1> QED BY <1>1, <1>3, <1>5, <1>7, <1>8, <1>9, ZenonT(60) DEF DoneGrows

\* A receive is appended to a queue.
LEMMA AppendedOf ==
  ASSUME NEW s, IsSequence(s), NEW e, NEW x
  PROVE  OfGrows(Append(s, e), s, e, x)
<1>1. PICK v, n : v = Append(s, e) /\ n = Len(s) BY ZenonT(60)
<1>2. n \in Nat /\ Len(v) = n + 1 BY <1>1, SequenceIs, AppendIs
<1>3. (\A i \in 1 .. n : v[i] = s[i]) /\ v[n + 1] = e BY <1>1, AppendIs, ZenonT(60)
<1>4. 1 .. n + 1 = (1 .. n) \cup {n + 1} BY <1>2
<1>5. \A i \in 1 .. n : i \in Nat /\ i < n + 1 BY <1>2
<1>6. \A i : i \in Of(v, x) <=> i \in Of(s, x) \/ (e.p = x /\ i = n + 1)
  BY <1>1, <1>2, <1>3, <1>4, ZenonT(60) DEF Of
<1>7. ASSUME e.p # x PROVE Of(v, x) = Of(s, x) BY <1>6, <1>7, ZenonT(60)
<1>8. ASSUME e.p = x PROVE Of(v, x) = Of(s, x) \cup {n + 1} BY <1>6, <1>8, ZenonT(60)
<1>9. Of(s, x) \subseteq 1 .. n BY <1>1, ZenonT(60) DEF Of
<1> QED BY <1>1, <1>3, <1>5, <1>7, <1>8, <1>9, ZenonT(60) DEF OfGrows

\* A completion of a send does not count, nor does a receive of another process.
LEMMA LineKept ==
  ASSUME NEW x, NEW d, NEW q, NEW t, Line(x, d, q, t), IsSequence(d), IsSequence(q)
  PROVE  /\ \A c : c.sr # 1 => Line(x, Append(d, c), q, t)
         /\ \A r : r.p # x => Line(x, d, Append(q, r), t)
<1>0. /\ Rising(d, Done(d)) /\ Rising(q, Of(q, x)) /\ Rising(t, Recvs(t))
      /\ Below(d, Done(d), q, Of(q, x)) /\ Below(d, Done(d), t, Recvs(t)) /\ Below(q, Of(q, x), t, Recvs(t))
  BY ZenonT(60) DEF Line
<1>1. ASSUME NEW c, c.sr # 1 PROVE Line(x, Append(d, c), q, t)
  <2>1. PICK e, I : e = Append(d, c) /\ I = Done(e) BY ZenonT(60)
  <2>2. DoneGrows(e, d, c) BY <2>1, AppendedDone, ZenonT(60)
  <2>3. I = Done(d) BY <2>1, <2>2, <1>1, ZenonT(60) DEF DoneGrows
  <2>4. \A i \in I : e[i] = d[i] BY <2>2, <2>3, ZenonT(60) DEF DoneGrows
  <2>5. Rising(e, I) BY <2>3, <2>4, <1>0, ZenonT(60) DEF Rising
  <2>6. Below(e, I, q, Of(q, x)) /\ Below(e, I, t, Recvs(t)) BY <2>3, <2>4, <1>0, ZenonT(60) DEF Below
  <2> QED BY <2>1, <2>5, <2>6, <1>0, ZenonT(60) DEF Line
<1>2. ASSUME NEW r, r.p # x PROVE Line(x, d, Append(q, r), t)
  <2>1. PICK e, I : e = Append(q, r) /\ I = Of(e, x) BY ZenonT(60)
  <2>2. OfGrows(e, q, r, x) BY <2>1, AppendedOf, ZenonT(60)
  <2>3. I = Of(q, x) BY <2>1, <2>2, <1>2, ZenonT(60) DEF OfGrows
  <2>4. \A i \in I : e[i] = q[i] BY <2>2, <2>3, ZenonT(60) DEF OfGrows
  <2>5. Rising(e, I) BY <2>3, <2>4, <1>0, ZenonT(60) DEF Rising
  <2>6. Below(d, Done(d), e, I) /\ Below(e, I, t, Recvs(t)) BY <2>3, <2>4, <1>0, ZenonT(60) DEF Below
  <2> QED BY <2>1, <2>5, <2>6, <1>0, ZenonT(60) DEF Line
<1> QED BY <1>1, <1>2, ZenonT(60)

\* A new last element that is above all that count leaves them rising.
LEMMA RisingAppend ==
  ASSUME NEW s, NEW I, NEW v, NEW m \in Nat, Rising(s, I),
         \A i \in I : i \in Nat /\ i < m /\ v[i] = s[i] /\ s[i].uctx < v[m].uctx
  PROVE  Rising(v, I \cup {m})
<1>1. SUFFICES ASSUME NEW i \in I \cup {m}, NEW k \in I \cup {m}, i < k PROVE v[i].uctx < v[k].uctx
  BY ZenonT(60) DEF Rising
<1>2. CASE i \in I /\ k \in I BY <1>1, <1>2, ZenonT(60) DEF Rising
<1>3. CASE i \in I /\ k = m BY <1>3, ZenonT(60)
<1>4. CASE i = m
  <2>1. ~(m < m) BY SMT
  <2>2. \A k1 \in Nat : k1 < m => ~(m < k1) BY SMT
  <2> QED BY <1>1, <1>4, <2>1, <2>2, ZenonT(60)
<1> QED BY <1>2, <1>3, <1>4, ZenonT(60)

\* find_recv takes the oldest receive of the jetty, and it completes.
LEMMA LineGot ==
  ASSUME NEW x, NEW d, NEW q, NEW t, Line(x, d, q, t), IsSequence(d), IsSequence(q),
         NEW k \in Of(q, x), \A i \in Of(q, x) : i # k => k < i,
         NEW c, c.sr = 1, c.uctx = q[k].uctx
  PROVE  Line(x, Append(d, c), Without(q, k), t)
<1>0. /\ Rising(d, Done(d)) /\ Rising(q, Of(q, x)) /\ Rising(t, Recvs(t))
      /\ Below(d, Done(d), q, Of(q, x)) /\ Below(d, Done(d), t, Recvs(t)) /\ Below(q, Of(q, x), t, Recvs(t))
  BY ZenonT(60) DEF Line
<1>1. PICK e, v, m : e = Append(d, c) /\ v = Without(q, k) /\ m = Len(d) + 1 BY ZenonT(60)
<1>2. k \in 1 .. Len(q) BY ZenonT(60) DEF Of
<1>3. Line(x, d, v, t)
  <2>1. Part(Without(q, k), Of(Without(q, k), x), q, Of(q, x)) BY <1>2, WithoutPart, ZenonT(60)
  <2> QED BY <2>1, <1>1, LineParts, ZenonT(60)
<1>4. /\ Rising(v, Of(v, x)) /\ Below(d, Done(d), v, Of(v, x)) /\ Below(v, Of(v, x), t, Recvs(t))
  BY <1>3, ZenonT(60) DEF Line
<1>5. Len(d) \in Nat BY SequenceIs
<1>6. m \in Nat BY <1>1, <1>5
<1>7. /\ Done(e) = Done(d) \cup {m}
      /\ \A i \in Done(d) : i \in Nat /\ i < m /\ e[i] = d[i]
      /\ e[m] = c
  <2>1. DoneGrows(e, d, c) BY <1>1, AppendedDone, ZenonT(60)
  <2> QED BY <2>1, <1>1, ZenonT(60) DEF DoneGrows
<1>8. \A i \in Done(d) : d[i].uctx < e[m].uctx BY <1>0, <1>7, ZenonT(60) DEF Below
<1>9. Rising(e, Done(d) \cup {m}) BY <1>0, <1>6, <1>7, <1>8, RisingAppend, ZenonT(60)
<1>10. Below(e, Done(e), t, Recvs(t))
  <2>1. SUFFICES ASSUME NEW i \in Done(e), NEW j \in Recvs(t) PROVE e[i].uctx < t[j].uctx
    BY ZenonT(60) DEF Below
  <2>2. CASE i \in Done(d) BY <2>2, <1>0, <1>7, ZenonT(60) DEF Below
  <2>3. CASE i = m BY <2>3, <1>0, <1>7, ZenonT(60) DEF Below
  <2> QED BY <2>2, <2>3, <1>7, ZenonT(60)
<1>11. Below(e, Done(e), v, Of(v, x))
  <2>1. SUFFICES ASSUME NEW i \in Done(e), NEW j \in Of(v, x) PROVE e[i].uctx < v[j].uctx
    BY ZenonT(60) DEF Below
  <2>2. CASE i \in Done(d) BY <2>2, <1>4, <1>7, ZenonT(60) DEF Below
  <2>3. CASE i = m
    <3>1. j \in 1 .. Len(v) /\ v[j].p = x BY ZenonT(60) DEF Of
    <3>2. PICK z \in 1 .. Len(q) : v[j] = q[z] /\ z # k
      <4>1. Others(Without(q, k), q, k) BY <1>2, WithoutPart, ZenonT(60)
      <4> QED BY <4>1, <3>1, <1>1, ZenonT(60) DEF Others
    <3>3. z \in Of(q, x) BY <3>1, <3>2, ZenonT(60) DEF Of
    <3>4. k < z BY <3>2, <3>3, ZenonT(60)
    <3>5. q[k].uctx < q[z].uctx BY <3>3, <3>4, <1>0, ZenonT(60) DEF Rising
    <3> QED BY <2>3, <3>2, <3>5, <1>7, ZenonT(60)
  <2> QED BY <2>2, <2>3, <1>7, ZenonT(60)
<1> QED BY <1>0, <1>1, <1>4, <1>7, <1>9, <1>10, <1>11, ZenonT(60) DEF Line

\* The next call posts a receive.
LEMMA LinePost ==
  ASSUME NEW x, NEW d, NEW q, NEW t, Line(x, d, q, t), IsSequence(q), IsSequence(t),
         t # << >>, Head(t).call = "recv", NEW r, r.p = x, r.uctx = Head(t).uctx
  PROVE  Line(x, d, Append(q, r), Tail(t))
<1>0. /\ Rising(d, Done(d)) /\ Rising(q, Of(q, x)) /\ Rising(t, Recvs(t))
      /\ Below(d, Done(d), q, Of(q, x)) /\ Below(d, Done(d), t, Recvs(t)) /\ Below(q, Of(q, x), t, Recvs(t))
  BY ZenonT(60) DEF Line
<1>1. PICK e, v, m : e = Append(q, r) /\ v = Tail(t) /\ m = Len(q) + 1 BY ZenonT(60)
<1>2. Line(x, d, q, v)
  <2>1. Part(Tail(t), Recvs(Tail(t)), t, Recvs(t)) BY TailPart, ZenonT(60)
  <2> QED BY <2>1, <1>1, LineParts, ZenonT(60)
<1>3. /\ Rising(v, Recvs(v)) /\ Below(d, Done(d), v, Recvs(v)) /\ Below(q, Of(q, x), v, Recvs(v))
  BY <1>2, ZenonT(60) DEF Line
<1>4. Head(t) = t[1] /\ 1 \in 1 .. Len(t)
  <2>1. Len(t) \in Nat /\ Len(t) # 0 BY SequenceIs
  <2> QED BY <2>1, TailIs
<1>5. 1 \in Recvs(t) BY <1>4, ZenonT(60) DEF Recvs
<1>6. Len(q) \in Nat BY SequenceIs
<1>7. m \in Nat BY <1>1, <1>6
<1>8. /\ Of(e, x) = Of(q, x) \cup {m}
      /\ \A i \in Of(q, x) : i \in Nat /\ i < m /\ e[i] = q[i]
      /\ e[m] = r
  <2>1. OfGrows(e, q, r, x) BY <1>1, AppendedOf, ZenonT(60)
  <2> QED BY <2>1, <1>1, ZenonT(60) DEF OfGrows
<1>9. \A i \in Of(q, x) : q[i].uctx < e[m].uctx BY <1>0, <1>4, <1>5, <1>8, ZenonT(60) DEF Below
<1>10. Rising(e, Of(q, x) \cup {m}) BY <1>0, <1>7, <1>8, <1>9, RisingAppend, ZenonT(60)
<1>11. Below(d, Done(d), e, Of(e, x))
  <2>1. SUFFICES ASSUME NEW i \in Done(d), NEW j \in Of(e, x) PROVE d[i].uctx < e[j].uctx
    BY ZenonT(60) DEF Below
  <2>2. CASE j \in Of(q, x) BY <2>2, <1>0, <1>8, ZenonT(60) DEF Below
  <2>3. CASE j = m BY <2>3, <1>0, <1>4, <1>5, <1>8, ZenonT(60) DEF Below
  <2> QED BY <2>2, <2>3, <1>8, ZenonT(60)
<1>12. Below(e, Of(e, x), v, Recvs(v))
  <2>1. SUFFICES ASSUME NEW i \in Of(e, x), NEW j \in Recvs(v) PROVE e[i].uctx < v[j].uctx
    BY ZenonT(60) DEF Below
  <2>2. CASE i \in Of(q, x) BY <2>2, <1>3, <1>8, ZenonT(60) DEF Below
  <2>3. CASE i = m
    <3>1. j + 1 \in Recvs(t) /\ 1 < j + 1 /\ v[j] = t[j + 1] BY <1>1, TailPart, ZenonT(60)
    <3>2. t[1].uctx < t[j + 1].uctx BY <3>1, <1>0, <1>5, ZenonT(60) DEF Rising
    <3> QED BY <2>3, <3>1, <3>2, <1>4, <1>8, ZenonT(60)
  <2> QED BY <2>2, <2>3, <1>8, ZenonT(60)
<1> QED BY <1>0, <1>1, <1>3, <1>8, <1>10, <1>11, <1>12, ZenonT(60) DEF Line

-----------------------------------------------------------------------------
(* The receives of all processes.                                          *)

\* A receive queue of a node holds receives of its processes.
RecvQueue(n, q) ==
  /\ IsSequence(q)
  /\ \A i \in 1 .. Len(q) : q[i].p \in Proc /\ q[i].jetty = Jetty[q[i].p] /\ Home[q[i].p] = n

\* A set of numbers has a least one.  (Proved at the end, where the theorems
\* about well-founded relations are brought in.)
LeastOf == \A T \in SUBSET Nat : T # {} => \E x \in T : \A y \in T : x <= y

\* Receive k of a queue is the oldest of its process.
FirstPosted(q, k) == k \in Of(q, q[k].p) /\ \A i \in Of(q, q[k].p) : i # k => k < i

\* find_recv returns the place of the oldest receive of the process the jetty
\* belongs to.
LEMMA FindRecvIs ==
  ASSUME LeastOf, NEW n, NEW q, RecvQueue(n, q), NEW j, FindRecv(q, j) # 0
  PROVE  /\ FindRecv(q, j) \in 1 .. Len(q)
         /\ FirstPosted(q, FindRecv(q, j))
<1>1. PICK found, k : found = {i \in DOMAIN q : q[i].jetty = j} /\ k = FindRecv(q, j) BY ZenonT(60)
<1>2. DOMAIN q = 1 .. Len(q) /\ Len(q) \in Nat BY SequenceIs DEF RecvQueue
<1>3. found # {} /\ k = CHOOSE m \in found : \A i \in found : m <= i BY <1>1, ZenonT(60) DEF FindRecv
<1>4. found \subseteq 1 .. Len(q) BY <1>1, <1>2, ZenonT(60)
<1>5. found \subseteq Nat BY <1>2, <1>4
<1>6. \E x \in found : \A y \in found : x <= y BY <1>3, <1>5, ZenonT(60) DEF LeastOf
<1>7. k \in found /\ \A y \in found : k <= y BY <1>3, <1>6, ZenonT(60)
<1>8. k \in 1 .. Len(q) /\ q[k].jetty = j BY <1>1, <1>4, <1>7, ZenonT(60)
<1>9. PICK x : x = q[k].p BY ZenonT(60)
<1>10. x \in Proc /\ Jetty[x] = j BY <1>8, <1>9, ZenonT(60) DEF RecvQueue
<1>11. k \in Of(q, x) BY <1>8, <1>9, ZenonT(60) DEF Of
<1>12. ASSUME NEW i \in Of(q, x), i # k PROVE k < i
  <2>1. i \in 1 .. Len(q) /\ q[i].p = x BY ZenonT(60) DEF Of
  <2>2. q[i].jetty = j BY <2>1, <1>10, ZenonT(60) DEF RecvQueue
  <2>3. i \in found BY <2>1, <2>2, <1>1, <1>2, ZenonT(60)
  <2>4. k <= i BY <2>3, <1>7, ZenonT(60)
  <2>5. k \in Nat /\ i \in Nat BY <2>3, <1>5, <1>7, ZenonT(60)
  <2> QED BY <2>4, <2>5, <1>12
<1> QED BY <1>1, <1>8, <1>9, <1>11, <1>12, ZenonT(60) DEF FirstPosted

\* A queue without one of its receives, or with a new one, is one.
LEMMA QueueKept ==
  ASSUME NEW n, NEW q, RecvQueue(n, q)
  PROVE  /\ \A k \in 1 .. Len(q) : RecvQueue(n, Without(q, k))
         /\ q # << >> => RecvQueue(n, Tail(q))
         /\ \A r : r.p \in Proc /\ r.jetty = Jetty[r.p] /\ Home[r.p] = n => RecvQueue(n, Append(q, r))
<1>0. IsSequence(q) BY ZenonT(60) DEF RecvQueue
<1>1. ASSUME NEW k \in 1 .. Len(q) PROVE RecvQueue(n, Without(q, k))
  <2>1. PICK v : v = Without(q, k) BY ZenonT(60)
  <2>2. IsSequence(v) BY <1>0, <2>1, WithoutIs, ZenonT(60)
  <2>3. Others(v, q, k) BY <1>0, <2>1, WithoutPart, ZenonT(60)
  <2>4. ASSUME NEW i \in 1 .. Len(v) PROVE v[i].p \in Proc /\ v[i].jetty = Jetty[v[i].p] /\ Home[v[i].p] = n
    <3>1. PICK m \in 1 .. Len(q) : v[i] = q[m] BY <2>3, ZenonT(60) DEF Others
    <3> QED BY <3>1, ZenonT(60) DEF RecvQueue
  <2> QED BY <2>1, <2>2, <2>4, ZenonT(60) DEF RecvQueue
<1>2. ASSUME q # << >> PROVE RecvQueue(n, Tail(q))
  <2>1. PICK v : v = Tail(q) BY ZenonT(60)
  <2>2. IsSequence(v) BY <1>0, <1>2, <2>1, TailIs, ZenonT(60)
  <2>3. \A i \in 1 .. Len(v) : \E m \in 1 .. Len(q) : v[i] = q[m] BY <1>0, <1>2, <2>1, TailPart, ZenonT(60)
  <2>4. ASSUME NEW i \in 1 .. Len(v) PROVE v[i].p \in Proc /\ v[i].jetty = Jetty[v[i].p] /\ Home[v[i].p] = n
    <3>1. PICK m \in 1 .. Len(q) : v[i] = q[m] BY <2>3, ZenonT(60)
    <3> QED BY <3>1, ZenonT(60) DEF RecvQueue
  <2> QED BY <2>1, <2>2, <2>4, ZenonT(60) DEF RecvQueue
<1>3. ASSUME NEW r, r.p \in Proc, r.jetty = Jetty[r.p], Home[r.p] = n PROVE RecvQueue(n, Append(q, r))
  <2>1. PICK v, m : v = Append(q, r) /\ m = Len(q) BY ZenonT(60)
  <2>2. IsSequence(v) BY <1>0, <2>1, AppendIs, ZenonT(60)
  <2>3. m \in Nat BY <1>0, <2>1, SequenceIs
  <2>4. Len(v) = m + 1
    <3>1. Len(Append(q, r)) = Len(q) + 1 BY <1>0, AppendIs, ZenonT(60)
    <3> QED BY <2>1, <3>1, ZenonT(60)
  <2>5. (\A i \in 1 .. m : v[i] = q[i]) /\ v[m + 1] = r BY <1>0, <2>1, AppendIs, ZenonT(60)
  <2>6. \A i \in 1 .. m + 1 : i \in 1 .. m \/ i = m + 1 BY <2>3
  <2>7. ASSUME NEW i \in 1 .. Len(v) PROVE v[i].p \in Proc /\ v[i].jetty = Jetty[v[i].p] /\ Home[v[i].p] = n
    <3>1. CASE i \in 1 .. m BY <3>1, <2>1, <2>5, ZenonT(60) DEF RecvQueue
    <3>2. CASE i = m + 1 BY <3>2, <2>5, <1>3, ZenonT(60)
    <3> QED BY <3>1, <3>2, <2>4, <2>6, ZenonT(60)
  <2> QED BY <2>1, <2>2, <2>7, ZenonT(60) DEF RecvQueue
<1> QED BY <1>1, <1>2, <1>3, ZenonT(60)

\* The logs, the receive queues and the calls to come, for every process.
Good(log, que, td) ==
  /\ LeastOf
  /\ DOMAIN log = Proc /\ DOMAIN que = Node /\ DOMAIN td = Proc
  /\ \A n \in Node : RecvQueue(n, que[n])
  /\ \A x \in Proc : IsSequence(log[x]) /\ IsSequence(td[x]) /\ Line(x, log[x], que[Home[x]], td[x])

\* What is known of the parts.
LEMMA GoodIs ==
  ASSUME NEW log, NEW que, NEW td, Good(log, que, td), NEW x \in Proc
  PROVE  /\ IsSequence(log[x]) /\ IsSequence(td[x]) /\ IsSequence(que[Home[x]])
         /\ Line(x, log[x], que[Home[x]], td[x])
         /\ Home[x] \in Node /\ RecvQueue(Home[x], que[Home[x]])
         /\ x \in DOMAIN log /\ Home[x] \in DOMAIN que /\ x \in DOMAIN td
<1>1. Home[x] \in Node BY GuestAssumption, ZenonT(60)
<1>2. RecvQueue(Home[x], que[Home[x]]) BY <1>1, ZenonT(60) DEF Good
<1>3. IsSequence(que[Home[x]]) BY <1>2, ZenonT(60) DEF RecvQueue
<1>4. x \in DOMAIN log /\ Home[x] \in DOMAIN que /\ x \in DOMAIN td BY <1>1, ZenonT(60) DEF Good
<1> QED BY <1>1, <1>2, <1>3, <1>4, ZenonT(60) DEF Good

\* A send completes.
LEMMA GoodSent ==
  ASSUME NEW log, NEW que, NEW td, Good(log, que, td), NEW p \in Proc,
         NEW c, c.p = p, c.sr # 1
  PROVE  Good(Log(log, c), que, td)
<1>1. PICK new : new = Log(log, c) BY ZenonT(60)
<1>2. new = [log EXCEPT ![p] = Append(log[p], c)] BY <1>1, ZenonT(60) DEF Log
<1>3. DOMAIN new = DOMAIN log BY <1>2, ZenonT(60)
<1>4. ASSUME NEW x \in Proc
      PROVE  IsSequence(new[x]) /\ Line(x, new[x], que[Home[x]], td[x])
  <2>1. /\ IsSequence(log[x]) /\ IsSequence(que[Home[x]]) /\ x \in DOMAIN log
        /\ Line(x, log[x], que[Home[x]], td[x])
    BY GoodIs, ZenonT(60)
  <2>2. CASE x = p
    <3>1. new[x] = Append(log[x], c) BY <2>1, <2>2, <1>2, ZenonT(60)
    <3>2. IsSequence(Append(log[x], c)) BY <2>1, AppendIs, ZenonT(60)
    <3>3. Line(x, Append(log[x], c), que[Home[x]], td[x]) BY <2>1, LineKept, ZenonT(60)
    <3> QED BY <3>1, <3>2, <3>3, ZenonT(60)
  <2>3. CASE x # p
    <3>1. new[x] = log[x] BY <2>1, <2>3, <1>2, ZenonT(60)
    <3> QED BY <3>1, <2>1, ZenonT(60)
  <2> QED BY <2>2, <2>3, ZenonT(60)
<1> QED BY <1>1, <1>3, <1>4, ZenonT(60) DEF Good

\* A receive that find_recv found completes.
LEMMA GoodGot ==
  ASSUME NEW log, NEW que, NEW td, Good(log, que, td), NEW n \in Node, NEW j,
         NEW k, k = FindRecv(que[n], j), k # 0,
         NEW c, c.p = que[n][k].p, c.sr = 1, c.uctx = que[n][k].uctx
  PROVE  Good(Log(log, c), [que EXCEPT ![n] = Without(que[n], k)], td)
<1>1. PICK new, q, rest, all :
        new = Log(log, c) /\ q = que[n] /\ rest = Without(q, k) /\ all = [que EXCEPT ![n] = rest]
  BY ZenonT(60)
<1>2. LeastOf /\ RecvQueue(n, q) BY <1>1, ZenonT(60) DEF Good
<1>3. k \in 1 .. Len(q) /\ FirstPosted(q, k) BY <1>1, <1>2, FindRecvIs, ZenonT(60)
<1>4. PICK p : p = q[k].p BY ZenonT(60)
<1>5. p \in Proc /\ Home[p] = n BY <1>2, <1>3, <1>4, ZenonT(60) DEF RecvQueue
<1>6. k \in Of(q, p) /\ \A i \in Of(q, p) : i # k => k < i BY <1>3, <1>4, ZenonT(60) DEF FirstPosted
<1>7. new = [log EXCEPT ![p] = Append(log[p], c)] BY <1>1, <1>4, ZenonT(60) DEF Log
<1>8. DOMAIN new = DOMAIN log /\ DOMAIN all = DOMAIN que BY <1>1, <1>7, ZenonT(60)
<1>9. DOMAIN que = Node BY ZenonT(60) DEF Good
<1>10. all[n] = rest /\ \A m \in Node : m # n => all[m] = que[m] BY <1>1, <1>9, ZenonT(60)
<1>11. IsSequence(q) BY <1>2, ZenonT(60) DEF RecvQueue
<1>12. RecvQueue(n, rest) BY <1>1, <1>2, <1>3, QueueKept, ZenonT(60)
<1>13. ASSUME NEW x \in Proc
       PROVE  IsSequence(new[x]) /\ Line(x, new[x], all[Home[x]], td[x])
  <2>1. /\ IsSequence(log[x]) /\ x \in DOMAIN log /\ Home[x] \in Node
        /\ Line(x, log[x], que[Home[x]], td[x])
    BY GoodIs, ZenonT(60)
  <2>2. CASE x = p
    <3>1. new[x] = Append(log[x], c) BY <2>1, <2>2, <1>7, ZenonT(60)
    <3>2. IsSequence(Append(log[x], c)) BY <2>1, AppendIs, ZenonT(60)
    <3>3. Line(x, log[x], q, td[x]) BY <2>1, <2>2, <1>1, <1>5, ZenonT(60)
    <3>4. c.uctx = q[k].uctx BY <1>1, ZenonT(60)
    <3>5. PICK d, t : d = log[x] /\ t = td[x] BY ZenonT(60)
    <3>6. Line(x, d, q, t) /\ IsSequence(d) BY <3>3, <3>5, <2>1, ZenonT(60)
    <3>7. k \in Of(q, x) /\ \A i \in Of(q, x) : i # k => k < i BY <2>2, <1>6, ZenonT(60)
    <3>8. Line(x, Append(d, c), Without(q, k), t) BY <3>4, <3>6, <3>7, <1>11, LineGot, ZenonT(60)
    <3> QED BY <3>1, <3>2, <3>5, <3>8, <2>2, <1>1, <1>5, <1>10, ZenonT(60)
  <2>3. CASE x # p
    <3>1. new[x] = log[x] BY <2>1, <2>3, <1>7, ZenonT(60)
    <3>2. Line(x, log[x], all[Home[x]], td[x])
      <4>1. CASE Home[x] = n
        <5>1. Part(rest, Of(rest, x), q, Of(q, x)) BY <1>1, <1>3, <1>11, WithoutPart, ZenonT(60)
        <5>2. PICK d, t : d = log[x] /\ t = td[x] BY ZenonT(60)
        <5>3. Line(x, d, q, t) BY <5>2, <4>1, <2>1, <1>1, ZenonT(60)
        <5>4. Line(x, d, rest, t) BY <5>1, <5>3, LineParts, ZenonT(60)
        <5> QED BY <5>2, <5>4, <4>1, <1>10, ZenonT(60)
      <4>2. CASE Home[x] # n BY <4>2, <2>1, <1>10, ZenonT(60)
      <4> QED BY <4>1, <4>2, ZenonT(60)
    <3> QED BY <3>1, <3>2, <2>1, ZenonT(60)
  <2> QED BY <2>2, <2>3, ZenonT(60)
<1>14. \A m \in Node : RecvQueue(m, all[m]) BY <1>10, <1>12, ZenonT(60) DEF Good
<1> QED BY <1>1, <1>8, <1>13, <1>14, ZenonT(60) DEF Good

\* A process makes a call.
LEMMA GoodCall ==
  ASSUME NEW log, NEW que, NEW td, Good(log, que, td), NEW p \in Proc, td[p] # << >>
  PROVE  Good(log, que, [td EXCEPT ![p] = Tail(td[p])])
<1>1. PICK new : new = [td EXCEPT ![p] = Tail(td[p])] BY ZenonT(60)
<1>2. DOMAIN new = DOMAIN td BY <1>1, ZenonT(60)
<1>3. ASSUME NEW x \in Proc
      PROVE  IsSequence(new[x]) /\ Line(x, log[x], que[Home[x]], new[x])
  <2>1. IsSequence(td[x]) /\ x \in DOMAIN td /\ Line(x, log[x], que[Home[x]], td[x])
    BY GoodIs, ZenonT(60)
  <2>2. CASE x = p
    <3>1. PICK d, q, t : d = log[x] /\ q = que[Home[x]] /\ t = td[x] BY ZenonT(60)
    <3>2. IsSequence(t) /\ t # << >> /\ Line(x, d, q, t) BY <3>1, <2>1, <2>2, ZenonT(60)
    <3>3. new[x] = Tail(t) BY <3>1, <2>1, <2>2, <1>1, ZenonT(60)
    <3>4. IsSequence(Tail(t)) BY <3>2, TailIs, ZenonT(60)
    <3>5. Part(Tail(t), Recvs(Tail(t)), t, Recvs(t)) BY <3>2, TailPart, ZenonT(60)
    <3>6. Line(x, d, q, Tail(t)) BY <3>2, <3>5, LineParts, ZenonT(60)
    <3> QED BY <3>1, <3>3, <3>4, <3>6, ZenonT(60)
  <2>3. CASE x # p
    <3>1. new[x] = td[x] BY <2>1, <2>3, <1>1, ZenonT(60)
    <3> QED BY <3>1, <2>1, ZenonT(60)
  <2> QED BY <2>2, <2>3, ZenonT(60)
<1> QED BY <1>1, <1>2, <1>3, ZenonT(60) DEF Good

\* The call posts a receive.
LEMMA GoodPost ==
  ASSUME NEW log, NEW que, NEW td, Good(log, que, td), NEW p \in Proc,
         td[p] # << >>, Head(td[p]).call = "recv",
         NEW n, n = Home[p], NEW r, r.p = p, r.jetty = Jetty[p], r.uctx = Head(td[p]).uctx
  PROVE  Good(log, [que EXCEPT ![n] = Append(que[n], r)], [td EXCEPT ![p] = Tail(td[p])])
<1>1. PICK new, q, longer, all :
        /\ new = [td EXCEPT ![p] = Tail(td[p])]
        /\ q = que[n] /\ longer = Append(q, r) /\ all = [que EXCEPT ![n] = longer]
  BY ZenonT(60)
<1>2. n \in Node /\ RecvQueue(n, q) BY <1>1, GoodIs, ZenonT(60)
<1>3. IsSequence(q) BY <1>2, ZenonT(60) DEF RecvQueue
<1>4. Good(log, que, new) BY <1>1, GoodCall, ZenonT(60)
<1>5. DOMAIN que = Node BY ZenonT(60) DEF Good
<1>6. all[n] = longer /\ \A m \in Node : m # n => all[m] = que[m] BY <1>1, <1>2, <1>5, ZenonT(60)
<1>7. DOMAIN all = DOMAIN que BY <1>1, ZenonT(60)
<1>8. RecvQueue(n, longer) BY <1>1, <1>2, QueueKept, ZenonT(60)
<1>9. ASSUME NEW x \in Proc PROVE Line(x, log[x], all[Home[x]], new[x])
  <2>1. Line(x, log[x], que[Home[x]], new[x]) /\ IsSequence(log[x]) /\ Home[x] \in Node
    BY <1>4, GoodIs, ZenonT(60)
  <2>2. CASE x = p
    <3>1. PICK d, t : d = log[x] /\ t = td[x] BY ZenonT(60)
    <3>2. IsSequence(t) /\ x \in DOMAIN td /\ Line(x, d, q, t) BY <3>1, <2>2, <1>1, GoodIs, ZenonT(60)
    <3>3. t # << >> /\ Head(t).call = "recv" /\ r.p = x /\ r.uctx = Head(t).uctx BY <3>1, <2>2, ZenonT(60)
    <3>4. Line(x, d, Append(q, r), Tail(t)) BY <3>2, <3>3, <1>3, LinePost, ZenonT(60)
    <3>5. new[x] = Tail(t) BY <3>1, <3>2, <2>2, <1>1, ZenonT(60)
    <3>6. all[Home[x]] = Append(q, r) BY <2>2, <1>1, <1>6, ZenonT(60)
    <3> QED BY <3>1, <3>4, <3>5, <3>6, ZenonT(60)
  <2>3. CASE x # p /\ Home[x] = n
    <3>1. PICK d, t : d = log[x] /\ t = new[x] BY ZenonT(60)
    <3>2. Line(x, d, q, t) /\ IsSequence(d) BY <3>1, <2>1, <2>3, <1>1, ZenonT(60)
    <3>3. r.p # x BY <2>3, ZenonT(60)
    <3>4. Line(x, d, Append(q, r), t) BY <3>2, <3>3, <1>3, LineKept, ZenonT(60)
    <3> QED BY <3>1, <3>4, <2>3, <1>1, <1>6, ZenonT(60)
  <2>4. CASE Home[x] # n BY <2>1, <2>4, <1>6, ZenonT(60)
  <2> QED BY <2>2, <2>3, <2>4, ZenonT(60)
<1>10. \A m \in Node : RecvQueue(m, all[m]) BY <1>6, <1>8, ZenonT(60) DEF Good
<1> QED BY <1>1, <1>4, <1>7, <1>9, <1>10, ZenonT(60) DEF Good

\* The queue is full and its oldest receive is dropped.
LEMMA GoodDrop ==
  ASSUME NEW log, NEW que, NEW td, Good(log, que, td), NEW n \in Node, que[n] # << >>
  PROVE  Good(log, [que EXCEPT ![n] = Tail(que[n])], td)
<1>1. PICK q, rest, all : q = que[n] /\ rest = Tail(q) /\ all = [que EXCEPT ![n] = rest] BY ZenonT(60)
<1>2. RecvQueue(n, q) /\ q # << >> BY <1>1, ZenonT(60) DEF Good
<1>3. IsSequence(q) BY <1>2, ZenonT(60) DEF RecvQueue
<1>4. DOMAIN que = Node BY ZenonT(60) DEF Good
<1>5. all[n] = rest /\ \A m \in Node : m # n => all[m] = que[m] BY <1>1, <1>4, ZenonT(60)
<1>6. DOMAIN all = DOMAIN que BY <1>1, ZenonT(60)
<1>7. RecvQueue(n, rest) BY <1>1, <1>2, QueueKept, ZenonT(60)
<1>8. ASSUME NEW x \in Proc PROVE Line(x, log[x], all[Home[x]], td[x])
  <2>1. Line(x, log[x], que[Home[x]], td[x]) /\ Home[x] \in Node BY GoodIs, ZenonT(60)
  <2>2. CASE Home[x] = n
    <3>1. PICK d, t : d = log[x] /\ t = td[x] BY ZenonT(60)
    <3>2. Part(rest, Of(rest, x), q, Of(q, x)) BY <1>1, <1>2, <1>3, TailPart, ZenonT(60)
    <3>3. Line(x, d, q, t) BY <3>1, <2>1, <2>2, <1>1, ZenonT(60)
    <3>4. Line(x, d, rest, t) BY <3>2, <3>3, LineParts, ZenonT(60)
    <3> QED BY <3>1, <3>4, <2>2, <1>5, ZenonT(60)
  <2>3. CASE Home[x] # n BY <2>1, <2>3, <1>5, ZenonT(60)
  <2> QED BY <2>2, <2>3, ZenonT(60)
<1>9. \A m \in Node : RecvQueue(m, all[m]) BY <1>5, <1>7, ZenonT(60) DEF Good
<1> QED BY <1>1, <1>6, <1>8, <1>9, ZenonT(60) DEF Good

-----------------------------------------------------------------------------
(* The steps of the nodes, as far as receives go.                          *)

\* With a peer no send waits on its node, and who is sending has not ended
\* the call.
Recvqs == [n \in Node |-> nic[n].recvq]
NonePend == \A n \in Node : nic[n].pend = << >>
Underway ==
  /\ DOMAIN busy = Node /\ DOMAIN filled = Node
  /\ \A n \in Node : filled[n] => busy[n] \in Proc /\ Home[busy[n]] = n /\ todo[busy[n]] # << >>
RecvInv == has_peer => Good(done, Recvqs, todo) /\ NonePend /\ Underway

\* A step that gives node n the receives q.
Moves(n, q) ==
  /\ nic'[n].recvq = q /\ nic'[n].pend = nic[n].pend
  /\ \A m \in Node : m # n => nic'[m].recvq = nic[m].recvq /\ nic'[m].pend = nic[m].pend

\* What it leaves of the receives of all nodes.
LEMMA MovesTo ==
  ASSUME NEW n \in Node, NEW q, Moves(n, q), NonePend
  PROVE  /\ NonePend' /\ Recvqs' = [Recvqs EXCEPT ![n] = q]
         /\ q = nic[n].recvq => Recvqs' = Recvqs
<1>1. NonePend'
  <2>1. SUFFICES ASSUME NEW m \in Node PROVE nic'[m].pend = << >> BY ZenonT(60) DEF NonePend
  <2>2. nic'[m].pend = nic[m].pend
    <3>1. CASE m = n BY <3>1, ZenonT(60) DEF Moves
    <3>2. CASE m # n BY <3>2, ZenonT(60) DEF Moves
    <3> QED BY <3>1, <3>2, ZenonT(60)
  <2> QED BY <2>2, ZenonT(60) DEF NonePend
<1>2. \A m \in Node : nic'[m].recvq = IF m = n THEN q ELSE nic[m].recvq BY ZenonT(60) DEF Moves
<1>3. Recvqs' = [m \in Node |-> IF m = n THEN q ELSE nic[m].recvq] BY <1>2, ZenonT(60) DEF Recvqs
<1>4. [Recvqs EXCEPT ![n] = q] = [m \in Node |-> IF m = n THEN q ELSE nic[m].recvq] BY ZenonT(60) DEF Recvqs
<1>5. ASSUME q = nic[n].recvq PROVE Recvqs' = Recvqs
  <2>1. \A m \in Node : nic'[m].recvq = nic[m].recvq BY <1>2, <1>5, ZenonT(60)
  <2> QED BY <2>1, ZenonT(60) DEF Recvqs
<1> QED BY <1>1, <1>3, <1>4, <1>5, ZenonT(60)

\* One NIC is given a new value.
LEMMA NicMoves ==
  ASSUME RegInv, NEW n \in Node, NEW a, NEW t, NEW q, NEW c,
         nic' = [nic EXCEPT ![n] = [asm |-> a, mr |-> t, recvq |-> q, pend |-> nic[n].pend, cq |-> c]]
  PROVE  Moves(n, q)
<1>1. PICK x : x = [asm |-> a, mr |-> t, recvq |-> q, pend |-> nic[n].pend, cq |-> c] BY ZenonT(60)
<1>2. x.recvq = q /\ x.pend = nic[n].pend BY <1>1, ZenonT(60)
<1>3. nic' = [nic EXCEPT ![n] = x] BY <1>1, ZenonT(60)
<1>4. nic'[n] = x /\ \A m \in Node : m # n => nic'[m] = nic[m] BY <1>3, NicUpdate, ZenonT(60)
<1> QED BY <1>2, <1>4, ZenonT(60) DEF Moves

\* A new receive queue and new completions.
LEMMA QueuesMove ==
  ASSUME RegInv, NEW n \in Node, NEW q, NEW c,
         \/ nic' = [nic EXCEPT ![n].recvq = q, ![n].cq = c]
         \/ nic' = [nic EXCEPT ![n].recvq = q]
  PROVE  Moves(n, q)
<1>1. DOMAIN nic = Node BY Shapes, ZenonT(60)
<1>2. PICK y : y = nic[n] BY ZenonT(60)
<1>3. y = [asm |-> y.asm, mr |-> y.mr, recvq |-> y.recvq, pend |-> y.pend, cq |-> y.cq]
  BY <1>2, NicIs, ZenonT(60)
<1>4. PICK e : nic' = [nic EXCEPT ![n] = e]
               /\ (e = [y EXCEPT !.recvq = q, !.cq = c] \/ e = [y EXCEPT !.recvq = q])
  BY <1>1, <1>2, ZenonT(60)
<1>5. \E w : e = [asm |-> y.asm, mr |-> y.mr, recvq |-> q, pend |-> y.pend, cq |-> w]
  <2>1. CASE e = [y EXCEPT !.recvq = q, !.cq = c]
    <3>1. e = [asm |-> y.asm, mr |-> y.mr, recvq |-> q, pend |-> y.pend, cq |-> c] BY <2>1, <1>3, ZenonT(60)
    <3> QED BY <3>1, ZenonT(60)
  <2>2. CASE e = [y EXCEPT !.recvq = q]
    <3>1. e = [asm |-> y.asm, mr |-> y.mr, recvq |-> q, pend |-> y.pend, cq |-> y.cq] BY <2>2, <1>3, ZenonT(60)
    <3> QED BY <3>1, ZenonT(60)
  <2> QED BY <2>1, <2>2, <1>4, ZenonT(60)
<1>6. PICK w : e = [asm |-> y.asm, mr |-> y.mr, recvq |-> q, pend |-> y.pend, cq |-> w] BY <1>5, ZenonT(60)
<1>7. nic' = [nic EXCEPT ![n] = [asm |-> y.asm, mr |-> y.mr, recvq |-> q, pend |-> nic[n].pend, cq |-> w]]
  BY <1>2, <1>4, <1>6, ZenonT(60)
<1> QED BY <1>7, NicMoves, ZenonT(60)

\* A new slot, a new table or a poll: the receives stay.
LEMMA OthersStay ==
  ASSUME RegInv, NEW n \in Node, NEW a, NEW t,
         \/ nic' = [nic EXCEPT ![n].asm = a, ![n].mr = t]
         \/ nic' = [nic EXCEPT ![n].asm = a]
         \/ nic' = [nic EXCEPT ![n].cq = a]
  PROVE  Moves(n, nic[n].recvq)
<1>1. DOMAIN nic = Node BY Shapes, ZenonT(60)
<1>2. PICK y : y = nic[n] BY ZenonT(60)
<1>3. y = [asm |-> y.asm, mr |-> y.mr, recvq |-> y.recvq, pend |-> y.pend, cq |-> y.cq]
  BY <1>2, NicIs, ZenonT(60)
<1>4. PICK e : nic' = [nic EXCEPT ![n] = e]
               /\ (e = [y EXCEPT !.asm = a, !.mr = t] \/ e = [y EXCEPT !.asm = a] \/ e = [y EXCEPT !.cq = a])
  BY <1>1, <1>2, ZenonT(60)
<1>5. \E u, v, w : e = [asm |-> u, mr |-> v, recvq |-> y.recvq, pend |-> y.pend, cq |-> w]
  <2>1. CASE e = [y EXCEPT !.asm = a, !.mr = t]
    <3>1. e = [asm |-> a, mr |-> t, recvq |-> y.recvq, pend |-> y.pend, cq |-> y.cq] BY <2>1, <1>3, ZenonT(60)
    <3> QED BY <3>1, ZenonT(60)
  <2>2. CASE e = [y EXCEPT !.asm = a]
    <3>1. e = [asm |-> a, mr |-> y.mr, recvq |-> y.recvq, pend |-> y.pend, cq |-> y.cq] BY <2>2, <1>3, ZenonT(60)
    <3> QED BY <3>1, ZenonT(60)
  <2>3. CASE e = [y EXCEPT !.cq = a]
    <3>1. e = [asm |-> y.asm, mr |-> y.mr, recvq |-> y.recvq, pend |-> y.pend, cq |-> a] BY <2>3, <1>3, ZenonT(60)
    <3> QED BY <3>1, ZenonT(60)
  <2> QED BY <2>1, <2>2, <2>3, <1>4, ZenonT(60)
<1>6. PICK u, v, w : e = [asm |-> u, mr |-> v, recvq |-> y.recvq, pend |-> y.pend, cq |-> w] BY <1>5, ZenonT(60)
<1>7. nic' = [nic EXCEPT ![n] = [asm |-> u, mr |-> v, recvq |-> nic[n].recvq, pend |-> nic[n].pend, cq |-> w]]
  BY <1>2, <1>4, <1>6, ZenonT(60)
<1> QED BY <1>7, NicMoves, ZenonT(60)

\* The completion of a request.
LEMMA SentIs ==
  ASSUME NEW p, NEW w, NEW ok
  PROVE  Sent(p, w, ok).p = p /\ Sent(p, w, ok).sr # 1
<1>1. Sent(p, w, ok).p = p /\ Sent(p, w, ok).sr = 0 BY ZenonT(60) DEF Sent, Cqe
<1>2. 0 # 1 OBVIOUS
<1> QED BY <1>1, <1>2, ZenonT(60)

\* The completion of a receive.
Completes(e, r) == e.p = r.p /\ e.sr = 1 /\ e.uctx = r.uctx
\* That is what dp_push_cqe reports for a receive.
LEMMA ReceivedIs ==
  ASSUME NEW r, NEW op, NEW ok, NEW from, NEW at, NEW data
  PROVE  Completes(Received(r, op, ok, from, at, data), r)
BY ZenonT(60) DEF Received, Cqe, Completes

\* A call of p ends with the completion of its request, and it may be with the
\* completion of a receive that find_recv found.
OneEnds(p, q, cs) ==
  q = nic[Home[p]].recvq /\ \E c : cs = <<c>> /\ c.p = p /\ c.sr # 1
TwoEnd(p, q, cs) ==
  \E c, e, j, k : /\ k = FindRecv(nic[Home[p]].recvq, j) /\ k # 0 /\ q = Without(nic[Home[p]].recvq, k)
                  /\ cs = <<c, e>> /\ c.p = p /\ c.sr # 1
                  /\ Completes(e, nic[Home[p]].recvq[k])

\* Its sends under way are as they were.
LEMMA CallUnderway ==
  ASSUME Underway, NEW p \in Proc, busy[Home[p]] = None, DOMAIN todo = Proc,
         UNCHANGED <<busy, filled>>, NEW s, todo' = todo \/ todo' = [todo EXCEPT ![p] = s]
  PROVE  Underway'
<1>1. DOMAIN busy' = Node /\ DOMAIN filled' = Node BY ZenonT(60) DEF Underway
<1>2. ASSUME NEW n \in Node, filled'[n]
      PROVE  busy'[n] \in Proc /\ Home[busy'[n]] = n /\ todo'[busy'[n]] # << >>
  <2>1. filled[n] BY <1>2, ZenonT(60)
  <2>2. PICK x : x = busy[n] BY ZenonT(60)
  <2>3. x \in Proc /\ Home[x] = n /\ todo[x] # << >> BY <2>1, <2>2, ZenonT(60) DEF Underway
  <2>4. x # p BY <2>2, <2>3, GuestAssumption, ZenonT(60)
  <2>5. todo'[x] = todo[x] BY <2>3, <2>4, ZenonT(60)
  <2> QED BY <2>2, <2>3, <2>5, ZenonT(60)
<1> QED BY <1>1, <1>2, ZenonT(60) DEF Underway

\* A poll is by who is not sending.
LEMMA PollUnderway ==
  ASSUME Underway, NEW p \in Proc, Polling(p), UNCHANGED <<todo, filled>>,
         NEW b, busy' = [busy EXCEPT ![Home[p]] = b]
  PROVE  Underway'
<1>0. Home[p] \in Node BY GuestAssumption, ZenonT(60)
<1>1. DOMAIN busy' = Node /\ DOMAIN filled' = Node BY ZenonT(60) DEF Underway
<1>2. ~filled[Home[p]] BY <1>0, GuestAssumption, ZenonT(60) DEF Underway, Polling
<1>3. ASSUME NEW n \in Node, filled'[n]
      PROVE  busy'[n] \in Proc /\ Home[busy'[n]] = n /\ todo'[busy'[n]] # << >>
  <2>1. filled[n] /\ n # Home[p] BY <1>2, <1>3, ZenonT(60)
  <2>2. busy'[n] = busy[n] BY <2>1, ZenonT(60) DEF Underway
  <2> QED BY <2>1, <2>2, ZenonT(60) DEF Underway
<1> QED BY <1>1, <1>3, ZenonT(60) DEF Underway

\* A call ends.
LEMMA EndGood ==
  ASSUME RegInv, Good(done, Recvqs, todo), NonePend, NEW p \in Proc, todo[p] # << >>,
         NEW q, NEW cs, Finish(p, q, cs), OneEnds(p, q, cs) \/ TwoEnd(p, q, cs)
  PROVE  Good(done, Recvqs, todo)' /\ NonePend'
<1>1. PICK n : n = Home[p] BY ZenonT(60)
<1>2. n \in Node BY <1>1, GuestAssumption, ZenonT(60)
<1>3. /\ nic' = [nic EXCEPT ![n].recvq = q, ![n].cq = Pushed(@, cs)]
      /\ done' = Logged(cs) /\ todo' = [todo EXCEPT ![p] = Tail(todo[p])]
  BY <1>1, ZenonT(60) DEF Finish
<1>4. nic' = [nic EXCEPT ![n].recvq = q, ![n].cq = Pushed(nic[n].cq, cs)] BY <1>3
<1>5. Moves(n, q) BY <1>2, <1>4, QueuesMove, ZenonT(60)
<1>6. NonePend' /\ Recvqs' = [Recvqs EXCEPT ![n] = q] /\ (q = nic[n].recvq => Recvqs' = Recvqs)
  BY <1>2, <1>5, MovesTo, ZenonT(60)
<1>7. Recvqs[n] = nic[n].recvq BY <1>2, ZenonT(60) DEF Recvqs
<1>8. PICK log, que, td : log = done /\ que = Recvqs /\ td = todo BY ZenonT(60)
<1>9. Good(log, que, td) /\ td[p] # << >> BY <1>8, ZenonT(60)
<1>10. CASE OneEnds(p, q, cs)
  <2>1. PICK c : q = nic[n].recvq /\ cs = <<c>> /\ c.p = p /\ c.sr # 1
    BY <1>1, <1>10, ZenonT(60) DEF OneEnds
  <2>2. Len(cs) = 1 /\ cs[1] = c BY <2>1, ListOfOne, ZenonT(60)
  <2>3. done' = Log(done, c) BY <2>2, <1>3, ZenonT(60) DEF Logged
  <2>4. Good(Log(log, c), que, td) BY <2>1, <1>9, GoodSent, ZenonT(60)
  <2>5. Good(Log(log, c), que, [td EXCEPT ![p] = Tail(td[p])]) BY <2>4, <1>9, GoodCall, ZenonT(60)
  <2> QED BY <2>1, <2>3, <2>5, <1>3, <1>6, <1>8, ZenonT(60)
<1>11. CASE TwoEnd(p, q, cs)
  <2>1. PICK c, e, j, k : /\ k = FindRecv(nic[n].recvq, j) /\ k # 0 /\ q = Without(nic[n].recvq, k)
                          /\ cs = <<c, e>> /\ c.p = p /\ c.sr # 1 /\ Completes(e, nic[n].recvq[k])
    BY <1>1, <1>11, ZenonT(60) DEF TwoEnd
  <2>2. Len(cs) = 2 /\ cs[1] = c /\ cs[2] = e BY <2>1, ListOfTwo, ZenonT(60)
  <2>3. Len(cs) # 1 BY <2>1, ListOfTwo, ZenonT(60)
  <2>4. done' = Log(Log(done, c), e) BY <2>2, <2>3, <1>3, ZenonT(60) DEF Logged
  <2>5. PICK one : one = Log(log, c) BY ZenonT(60)
  <2>6. Good(one, que, td) BY <2>1, <2>5, <1>9, GoodSent, ZenonT(60)
  <2>7. que[n] = nic[n].recvq BY <1>7, <1>8, ZenonT(60)
  <2>8. k = FindRecv(que[n], j) /\ e.p = que[n][k].p /\ e.sr = 1 /\ e.uctx = que[n][k].uctx
    BY <2>1, <2>7, ZenonT(60) DEF Completes
  <2>9. Good(Log(one, e), [que EXCEPT ![n] = Without(que[n], k)], td)
    BY <2>1, <2>6, <2>8, <1>2, GoodGot, ZenonT(60)
  <2>10. PICK two, all : two = Log(one, e) /\ all = [que EXCEPT ![n] = Without(que[n], k)] BY ZenonT(60)
  <2>11. Good(two, all, [td EXCEPT ![p] = Tail(td[p])]) BY <2>9, <2>10, <1>9, GoodCall, ZenonT(60)
  <2>12. done' = two BY <2>4, <2>5, <2>10, <1>8, ZenonT(60)
  <2>13. Recvqs' = all BY <2>1, <2>7, <2>10, <1>6, <1>8, ZenonT(60)
  <2> QED BY <2>11, <2>12, <2>13, <1>3, <1>6, <1>8, ZenonT(60)
<1> QED BY <1>10, <1>11, ZenonT(60)

\* The calls that end at once.
LEMMA CallEnds ==
  ASSUME RegInv, RecvInv, NEW p \in Proc, busy[Home[p]] = None, todo[p] # << >>,
         NEW q, NEW cs, Finish(p, q, cs), OneEnds(p, q, cs) \/ TwoEnd(p, q, cs), UNCHANGED <<busy, filled>>
  PROVE  RecvInv'
<1>1. SUFFICES ASSUME has_peer' PROVE Good(done, Recvqs, todo)' /\ NonePend' /\ Underway'
  BY ZenonT(60) DEF RecvInv
<1>2. Good(done, Recvqs, todo) /\ NonePend /\ Underway BY <1>1, ZenonT(60) DEF RecvInv, Finish
<1>3. todo' = [todo EXCEPT ![p] = Tail(todo[p])] BY ZenonT(60) DEF Finish
<1>4. DOMAIN todo = Proc BY <1>2, ZenonT(60) DEF Good
<1>5. Underway' BY <1>2, <1>3, <1>4, CallUnderway, ZenonT(60)
<1> QED BY <1>2, <1>5, EndGood, ZenonT(60)

\* What find_recv found is completed together with the request.
LEMMA BothEnd ==
  ASSUME NEW p, NEW k, k = Found(p), k # 0, NEW w, NEW ok, NEW op, NEW from, NEW at, NEW data
  PROVE  TwoEnd(p, Without(nic[Home[p]].recvq, k),
                <<Sent(p, w, ok), Received(nic[Home[p]].recvq[k], op, ok, from, at, data)>>)
<1>1. PICK q, c, e : /\ q = nic[Home[p]].recvq /\ c = Sent(p, w, ok)
                     /\ e = Received(q[k], op, ok, from, at, data)
  BY ZenonT(60)
<1>2. c.p = p /\ c.sr # 1 BY <1>1, SentIs, ZenonT(60)
<1>3. Completes(e, q[k]) BY <1>1, ReceivedIs, ZenonT(60)
<1>4. PICK j : k = FindRecv(q, j) BY <1>1, ZenonT(60) DEF Found
<1> QED BY <1>1, <1>2, <1>3, <1>4, ZenonT(60) DEF TwoEnd

\* A request that completes alone.
LEMMA SentEnds ==
  ASSUME NEW p, NEW c, c.p = p, c.sr # 1
  PROVE  OneEnds(p, nic[Home[p]].recvq, <<c>>)
BY ZenonT(60) DEF OneEnds

\* The requests that end in the step that posts them: they complete alone, or
\* with the receive find_recv found.
LEMMA PostsEnd ==
  ASSUME RegInv, RecvInv, NEW p \in Proc,
         PostWrite(p) \/ PostRead(p) \/ PostAtomic(p) \/ PostSend(p) \/ PostUnsent(p)
  PROVE  RecvInv'
<1>0. busy[Home[p]] = None /\ todo[p] # << >>
  BY ZenonT(60) DEF PostWrite, PostRead, PostAtomic, PostSend, PostUnsent, ToPeer, Posts, Calls
<1>1. UNCHANGED <<busy, filled>>
  BY ZenonT(60) DEF PostWrite, PostRead, PostAtomic, PostSend, PostUnsent, ringvars
<1>2. PICK q : q = nic[Home[p]].recvq BY ZenonT(60)
<1>3. CASE PostWrite(p)
  <2>1. PICK k, ok : /\ k = 0 \/ k = Found(p)
                     /\ Finish(p, Without(q, k),
                               IF k = 0 THEN <<Sent(p, Wr(p), ok)>>
                               ELSE <<Sent(p, Wr(p), ok), Received(q[k], Wr(p).op, ok, p, Wr(p).rva, Wr(p).val)>>)
    BY <1>2, <1>3, ZenonT(60) DEF PostWrite
  <2>2. CASE k = 0
    <3>1. Finish(p, q, <<Sent(p, Wr(p), ok)>>) BY <2>1, <2>2, ZenonT(60) DEF Without
    <3>2. PICK c : c = Sent(p, Wr(p), ok) /\ c.p = p /\ c.sr # 1 BY SentIs, ZenonT(60)
    <3>3. OneEnds(p, q, <<c>>) BY <3>2, <1>2, SentEnds, ZenonT(60)
    <3> QED BY <3>1, <3>2, <3>3, <1>0, <1>1, CallEnds, ZenonT(60)
  <2>3. CASE k # 0
    <3>1. PICK v, cs : /\ v = Without(q, k)
                       /\ cs = <<Sent(p, Wr(p), ok), Received(q[k], Wr(p).op, ok, p, Wr(p).rva, Wr(p).val)>>
      BY ZenonT(60)
    <3>2. Finish(p, v, cs) BY <3>1, <2>1, <2>3, ZenonT(60)
    <3>3. TwoEnd(p, v, cs) BY <3>1, <2>1, <2>3, <1>2, BothEnd, ZenonT(60)
    <3> QED BY <3>2, <3>3, <1>0, <1>1, CallEnds, ZenonT(60)
  <2> QED BY <2>2, <2>3, ZenonT(60)
<1>4. CASE PostRead(p)
  <2>1. PICK ok : Finish(p, q, <<Sent(p, Wr(p), ok)>>) BY <1>2, <1>4, ZenonT(60) DEF PostRead
  <2>2. PICK c : c = Sent(p, Wr(p), ok) /\ c.p = p /\ c.sr # 1 BY SentIs, ZenonT(60)
  <2>3. OneEnds(p, q, <<c>>) BY <2>2, <1>2, SentEnds, ZenonT(60)
  <2> QED BY <2>1, <2>2, <2>3, <1>0, <1>1, CallEnds, ZenonT(60)
<1>5. CASE PostAtomic(p)
  <2>1. PICK op, ok, u, x, a, old : Finish(p, q, <<Cqe(p, op, 0, ok, u, x, a, old)>>)
    BY <1>2, <1>5, ZenonT(60) DEF PostAtomic
  <2>2. PICK c : c = Cqe(p, op, 0, ok, u, x, a, old) BY ZenonT(60)
  <2>3. c.p = p /\ c.sr # 1 BY <2>2 DEF Cqe
  <2>4. OneEnds(p, q, <<c>>) BY <2>3, <1>2, SentEnds, ZenonT(60)
  <2> QED BY <2>1, <2>2, <2>4, <1>0, <1>1, CallEnds, ZenonT(60)
<1>6. CASE PostSend(p)
  <2>1. PICK k, ok : /\ k = Found(p) /\ k # 0
                     /\ Finish(p, Without(q, k),
                               <<Sent(p, Wr(p), ok), Received(q[k], Wr(p).op, ok, p, q[k].va, Wr(p).val)>>)
    BY <1>2, <1>6, ZenonT(60) DEF PostSend
  <2>2. PICK v, cs : /\ v = Without(q, k)
                     /\ cs = <<Sent(p, Wr(p), ok), Received(q[k], Wr(p).op, ok, p, q[k].va, Wr(p).val)>>
    BY ZenonT(60)
  <2>3. Finish(p, v, cs) BY <2>1, <2>2, ZenonT(60)
  <2>4. TwoEnd(p, v, cs) BY <2>1, <2>2, <1>2, BothEnd, ZenonT(60)
  <2> QED BY <2>3, <2>4, <1>0, <1>1, CallEnds, ZenonT(60)
<1>7. CASE PostUnsent(p)
  <2>1. PICK ok : Finish(p, q, <<Sent(p, Wr(p), ok)>>) BY <1>2, <1>7, ZenonT(60) DEF PostUnsent
  <2>2. PICK c : c = Sent(p, Wr(p), ok) /\ c.p = p /\ c.sr # 1 BY SentIs, ZenonT(60)
  <2>3. OneEnds(p, q, <<c>>) BY <2>2, <1>2, SentEnds, ZenonT(60)
  <2> QED BY <2>1, <2>2, <2>3, <1>0, <1>1, CallEnds, ZenonT(60)
<1> QED BY <1>3, <1>4, <1>5, <1>6, <1>7, ZenonT(60)

\* A send to the peer begins and ends.
LEMMA PeerEnds ==
  ASSUME RegInv, RecvInv, NEW p \in Proc, PostPeer(p) \/ PeerSent(p)
  PROVE  RecvInv'
<1>1. SUFFICES ASSUME has_peer' PROVE Good(done, Recvqs, todo)' /\ NonePend' /\ Underway'
  BY ZenonT(60) DEF RecvInv
<1>2. Good(done, Recvqs, todo) /\ NonePend /\ Underway BY <1>1, ZenonT(60) DEF RecvInv, PostPeer, PeerSent, Finish
<1>3. PICK n : n = Home[p] BY ZenonT(60)
<1>4. n \in Node BY <1>3, GuestAssumption, ZenonT(60)
<1>5. DOMAIN busy = Node /\ DOMAIN filled = Node BY <1>2, ZenonT(60) DEF Underway
<1>6. CASE PostPeer(p)
  <2>1. UNCHANGED <<done, nic, todo>> BY <1>6, ZenonT(60) DEF PostPeer
  <2>2. Good(done, Recvqs, todo)' /\ NonePend' BY <2>1, <1>2, ZenonT(60) DEF NonePend, Recvqs
  <2>3. busy' = [busy EXCEPT ![n] = p] /\ filled' = [filled EXCEPT ![n] = TRUE]
    BY <1>3, <1>6, ZenonT(60) DEF PostPeer, Fill
  <2>4. todo[p] # << >> BY <1>6, ZenonT(60) DEF PostPeer, ToPeer, Posts, Calls
  <2>5. DOMAIN busy' = Node /\ DOMAIN filled' = Node BY <2>3, <1>5, ZenonT(60)
  <2>6. ASSUME NEW m \in Node, filled'[m]
        PROVE  busy'[m] \in Proc /\ Home[busy'[m]] = m /\ todo'[busy'[m]] # << >>
    <3>1. CASE m = n
      <4>1. busy'[m] = p BY <3>1, <2>3, <1>5, ZenonT(60)
      <4> QED BY <4>1, <3>1, <2>1, <2>4, <1>3, ZenonT(60)
    <3>2. CASE m # n
      <4>1. busy'[m] = busy[m] /\ filled'[m] = filled[m] BY <3>2, <2>3, <1>5, ZenonT(60)
      <4> QED BY <4>1, <2>1, <2>6, <1>2, ZenonT(60) DEF Underway
    <3> QED BY <3>1, <3>2, ZenonT(60)
  <2>7. Underway' BY <2>5, <2>6, ZenonT(60) DEF Underway
  <2> QED BY <2>2, <2>7, ZenonT(60)
<1>7. CASE PeerSent(p)
  <2>1. busy[n] = p /\ filled[n] /\ filled' = [filled EXCEPT ![n] = FALSE] /\ busy' = [busy EXCEPT ![n] = None]
    BY <1>3, <1>7, ZenonT(60) DEF PeerSent, Publish
  <2>2. todo[p] # << >> BY <2>1, <1>2, <1>4, ZenonT(60) DEF Underway
  <2>3. Finish(p, nic[Home[p]].recvq, <<Sent(p, Wr(p), TRUE)>>) BY <1>7, ZenonT(60) DEF PeerSent
  <2>4. OneEnds(p, nic[Home[p]].recvq, <<Sent(p, Wr(p), TRUE)>>)
    <3>1. PICK c : c = Sent(p, Wr(p), TRUE) BY ZenonT(60)
    <3>2. c.p = p /\ c.sr # 1 BY <3>1, SentIs, ZenonT(60)
    <3> QED BY <3>1, <3>2, SentEnds, ZenonT(60)
  <2>5. Good(done, Recvqs, todo)' /\ NonePend' BY <2>2, <2>3, <2>4, <1>2, EndGood, ZenonT(60)
  <2>6. todo' = [todo EXCEPT ![p] = Tail(todo[p])] BY <2>3, ZenonT(60) DEF Finish
  <2>7. DOMAIN busy' = Node /\ DOMAIN filled' = Node BY <2>1, <1>5, ZenonT(60)
  <2>8. DOMAIN todo = Proc BY <1>2, ZenonT(60) DEF Good
  <2>9. ASSUME NEW m \in Node, filled'[m]
        PROVE  busy'[m] \in Proc /\ Home[busy'[m]] = m /\ todo'[busy'[m]] # << >>
    <3>1. m # n BY <2>1, <2>9, <1>5, ZenonT(60)
    <3>2. busy'[m] = busy[m] /\ filled'[m] = filled[m] BY <3>1, <2>1, <1>5, ZenonT(60)
    <3>3. PICK x : x = busy[m] BY ZenonT(60)
    <3>4. x \in Proc /\ Home[x] = m /\ todo[x] # << >> BY <3>2, <3>3, <2>9, <1>2, ZenonT(60) DEF Underway
    <3>5. todo'[x] = todo[x] BY <3>1, <3>4, <2>6, <2>8, <1>3, ZenonT(60)
    <3> QED BY <3>2, <3>3, <3>4, <3>5, ZenonT(60)
  <2>10. Underway' BY <2>7, <2>9, ZenonT(60) DEF Underway
  <2> QED BY <2>5, <2>10, ZenonT(60)
<1> QED BY <1>6, <1>7, ZenonT(60)

\* A receive is posted.
LEMMA RecvPosted ==
  ASSUME RegInv, RecvInv, NEW p \in Proc, PostRecv(p)
  PROVE  RecvInv'
<1>1. SUFFICES ASSUME has_peer' PROVE Good(done, Recvqs, todo)' /\ NonePend' /\ Underway'
  BY ZenonT(60) DEF RecvInv
<1>2. Good(done, Recvqs, todo) /\ NonePend /\ Underway BY <1>1, ZenonT(60) DEF RecvInv, PostRecv
<1>3. PICK n, j : n = Home[p] /\ j = Jetty[p] BY ZenonT(60)
<1>4. n \in Node BY <1>3, GuestAssumption, ZenonT(60)
<1>5. FindRecv(nic[n].pend, j) = 0
  <2>1. nic[n].pend = << >> BY <1>2, <1>4, ZenonT(60) DEF NonePend
  <2>2. DOMAIN << >> = {} OBVIOUS
  <2>3. {i \in DOMAIN << >> : << >>[i].jetty = j} = {} BY <2>2, ZenonT(60)
  <2>4. FindRecv(<< >>, j) = 0 BY <2>3, ZenonT(60) DEF FindRecv
  <2> QED BY <2>1, <2>4, ZenonT(60)
<1>6. PICK r : r = [jetty |-> Jetty[p], p |-> p, tok |-> seg[p].tok, va |-> Head(todo[p]).va,
                    uctx |-> Head(todo[p]).uctx]
  BY ZenonT(60)
<1>7. r.p = p /\ r.jetty = Jetty[p] /\ r.uctx = Head(todo[p]).uctx BY <1>6, ZenonT(60)
<1>8. PICK all, q : /\ all = Append(nic[n].recvq, r) /\ q = IF Len(all) > RecvCap THEN Tail(all) ELSE all
  BY ZenonT(60)
<1>9. done' = done /\ nic' = [nic EXCEPT ![n].recvq = q]
  BY <1>3, <1>5, <1>6, <1>8, ZenonT(60) DEF PostRecv
<1>10. /\ todo' = [todo EXCEPT ![p] = Tail(todo[p])] /\ UNCHANGED <<busy, filled>>
       /\ busy[n] = None /\ todo[p] # << >> /\ Head(todo[p]).call = "recv"
  BY <1>3, ZenonT(60) DEF PostRecv, Calls, ringvars
<1>11. Moves(n, q) BY <1>4, <1>9, QueuesMove, ZenonT(60)
<1>12. NonePend' /\ Recvqs' = [Recvqs EXCEPT ![n] = q] BY <1>2, <1>4, <1>11, MovesTo, ZenonT(60)
<1>13. DOMAIN todo = Proc BY <1>2, ZenonT(60) DEF Good
<1>14. Underway' BY <1>2, <1>3, <1>10, <1>13, CallUnderway, ZenonT(60)
<1>15. PICK log, que, td : log = done /\ que = Recvqs /\ td = todo BY ZenonT(60)
<1>16. que[n] = nic[n].recvq /\ DOMAIN que = Node BY <1>4, <1>15, ZenonT(60) DEF Recvqs
<1>17. PICK new, tn : new = [que EXCEPT ![n] = Append(que[n], r)] /\ tn = [td EXCEPT ![p] = Tail(td[p])]
  BY ZenonT(60)
<1>18. Good(log, que, td) /\ td[p] # << >> /\ Head(td[p]).call = "recv" /\ r.uctx = Head(td[p]).uctx
  BY <1>2, <1>7, <1>10, <1>15, ZenonT(60)
<1>19. Good(log, new, tn) BY <1>3, <1>7, <1>17, <1>18, GoodPost, ZenonT(60)
<1>20. new[n] = all BY <1>4, <1>8, <1>16, <1>17, ZenonT(60)
<1>21. CASE q = all
  <2>1. Recvqs' = new BY <1>8, <1>12, <1>15, <1>16, <1>17, <1>21, ZenonT(60)
  <2> QED BY <2>1, <1>9, <1>10, <1>12, <1>14, <1>15, <1>17, <1>19, ZenonT(60)
<1>22. CASE q = Tail(all)
  <2>1. all # << >>
    <3>1. PICK s : s = nic[n].recvq BY ZenonT(60)
    <3>2. IsSequence(s) BY <3>1, <1>3, <1>16, <1>18, GoodIs, ZenonT(60)
    <3>3. Append(s, r) # << >> BY <3>2, AppendedSome, ZenonT(60)
    <3> QED BY <3>1, <3>3, <1>8, ZenonT(60)
  <2>2. Good(log, [new EXCEPT ![n] = Tail(new[n])], tn) BY <2>1, <1>4, <1>19, <1>20, GoodDrop, ZenonT(60)
  <2>3. [new EXCEPT ![n] = Tail(new[n])] = [que EXCEPT ![n] = q] BY <1>17, <1>20, <1>22, ZenonT(60)
  <2>4. Recvqs' = [que EXCEPT ![n] = q] BY <1>12, <1>15, ZenonT(60)
  <2> QED BY <2>2, <2>3, <2>4, <1>9, <1>10, <1>12, <1>14, <1>15, <1>17, ZenonT(60)
<1> QED BY <1>8, <1>21, <1>22, ZenonT(60)

\* A packet of the peer is applied.
LEMMA PacketApplied ==
  ASSUME RegInv, RecvInv, NEW p \in Proc, NEW d \in Node, PollDrain(p, d)
  PROVE  RecvInv'
<1>1. SUFFICES ASSUME has_peer' PROVE Good(done, Recvqs, todo)' /\ NonePend' /\ Underway'
  BY ZenonT(60) DEF RecvInv
<1>2. Good(done, Recvqs, todo) /\ NonePend /\ Underway BY <1>1, ZenonT(60) DEF RecvInv, PollDrain
<1>3. PICK n : n = Home[p] BY ZenonT(60)
<1>4. n \in Node BY <1>3, GuestAssumption, ZenonT(60)
<1>5. Underway' BY <1>2, PollUnderway, ZenonT(60) DEF PollDrain, Take
<1>6. todo' = todo BY ZenonT(60) DEF PollDrain
<1>7. PICK q : q = nic[n].recvq BY ZenonT(60)
<1>8. PICK i, j, op, ok, from, va, data :
        /\ i = 0 \/ i = FindRecv(q, j)
        /\ nic' = IF i = 0 THEN nic
                  ELSE [nic EXCEPT ![n].recvq = Without(@, i),
                                   ![n].cq = Pushed(@, <<Received(q[i], op, ok, from, va, data)>>)]
        /\ done' = IF i = 0 THEN done ELSE Logged(<<Received(q[i], op, ok, from, va, data)>>)
  <2>1. PICK k, i : k = Oldest(d) /\ i = (IF k.op = "WRITE" THEN 0 ELSE FindRecv(q, k.jetty)) BY ZenonT(60)
  <2>2. PICK tok, va : /\ tok = (IF k.op \in Writes THEN k.tok ELSE q[i].tok)
                       /\ va = (IF k.op \in Writes THEN k.va ELSE q[i].va)
    BY ZenonT(60)
  <2>3. PICK ok : ok = (Valid(n, tok, va, k.len) /\ (k.len > 0 \/ k.op \in Sends)) BY ZenonT(60)
  <2>4. PICK c : c = Received(q[i], k.op, ok, k.from, va, k.val) BY ZenonT(60)
  <2>5. /\ nic' = IF i = 0 THEN nic
                  ELSE [nic EXCEPT ![n].recvq = Without(@, i), ![n].cq = Pushed(@, <<c>>)]
        /\ done' = IF i = 0 THEN done ELSE Logged(<<c>>)
    BY <1>3, <1>7, <2>1, <2>2, <2>3, <2>4, ZenonT(60) DEF PollDrain
  <2>6. i = 0 \/ i = FindRecv(q, k.jetty) BY <2>1, ZenonT(60)
  <2> QED BY <2>4, <2>5, <2>6, ZenonT(60)
<1>9. CASE i = 0
  <2>1. nic' = nic /\ done' = done BY <1>8, <1>9, ZenonT(60)
  <2>2. Good(done, Recvqs, todo)' /\ NonePend' BY <2>1, <1>2, <1>6, ZenonT(60) DEF NonePend, Recvqs
  <2> QED BY <2>2, <1>5, ZenonT(60)
<1>10. CASE i # 0
  <2>1. PICK c, v : c = Received(q[i], op, ok, from, va, data) /\ v = Without(q, i) BY ZenonT(60)
  <2>2. c.p = q[i].p /\ c.sr = 1 /\ c.uctx = q[i].uctx
    <3>1. Completes(c, q[i]) BY <2>1, ReceivedIs, ZenonT(60)
    <3> QED BY <3>1, ZenonT(60) DEF Completes
  <2>3. nic' = [nic EXCEPT ![n].recvq = Without(@, i), ![n].cq = Pushed(@, <<c>>)] BY <2>1, <1>8, <1>10, ZenonT(60)
  <2>4. nic' = [nic EXCEPT ![n].recvq = v, ![n].cq = Pushed(nic[n].cq, <<c>>)] BY <2>1, <2>3, <1>7
  <2>5. Moves(n, v) BY <2>4, <1>4, QueuesMove, ZenonT(60)
  <2>6. NonePend' /\ Recvqs' = [Recvqs EXCEPT ![n] = v] BY <2>5, <1>2, <1>4, MovesTo, ZenonT(60)
  <2>7. done' = Log(done, c)
    <3>1. done' = Logged(<<c>>) BY <2>1, <1>8, <1>10, ZenonT(60)
    <3>2. Len(<<c>>) = 1 /\ <<c>>[1] = c OBVIOUS
    <3> QED BY <3>1, <3>2, ZenonT(60) DEF Logged
  <2>8. PICK que : que = Recvqs BY ZenonT(60)
  <2>9. que[n] = q /\ Good(done, que, todo) BY <2>8, <1>2, <1>4, <1>7, ZenonT(60) DEF Recvqs
  <2>10. i = FindRecv(que[n], j) /\ c.p = que[n][i].p /\ c.uctx = que[n][i].uctx
    BY <2>2, <2>9, <1>8, <1>10, ZenonT(60)
  <2>11. Good(Log(done, c), [que EXCEPT ![n] = Without(que[n], i)], todo)
    BY <2>2, <2>9, <2>10, <1>4, <1>10, GoodGot, ZenonT(60)
  <2>12. Recvqs' = [que EXCEPT ![n] = Without(que[n], i)] BY <2>1, <2>6, <2>8, <2>9, ZenonT(60)
  <2> QED BY <2>6, <2>7, <2>11, <2>12, <1>5, <1>6, ZenonT(60)
<1> QED BY <1>9, <1>10, ZenonT(60)

\* The calls and polls that leave the receives alone.
LEMMA RecvsLeft ==
  ASSUME RegInv, RecvInv, NEW p \in Proc, RegisterSeg(p) \/ StoreMr(p) \/ PollCq(p)
  PROVE  RecvInv'
<1>1. SUFFICES ASSUME has_peer' PROVE Good(done, Recvqs, todo)' /\ NonePend' /\ Underway'
  BY ZenonT(60) DEF RecvInv
<1>2. Good(done, Recvqs, todo) /\ NonePend /\ Underway
  BY <1>1, ZenonT(60) DEF RecvInv, RegisterSeg, StoreMr, PollCq
<1>3. PICK n : n = Home[p] BY ZenonT(60)
<1>4. n \in Node BY <1>3, GuestAssumption, ZenonT(60)
<1>5. DOMAIN todo = Proc BY <1>2, ZenonT(60) DEF Good
<1>6. Moves(n, nic[n].recvq)
  <2>1. DOMAIN nic = Node BY Shapes, ZenonT(60)
  <2>2. CASE RegisterSeg(p)
    <3>1. \E a : nic' = [nic EXCEPT ![n].asm = a] BY <2>2, <2>1, <1>3, ZenonT(60) DEF RegisterSeg
    <3> QED BY <3>1, <1>4, OthersStay, ZenonT(60)
  <2>3. CASE StoreMr(p)
    <3>1. \E a, t : \/ nic' = [nic EXCEPT ![n].asm = a, ![n].mr = t]
                    \/ nic' = [nic EXCEPT ![n].asm = a]
      BY <2>3, <2>1, <1>3, ZenonT(60) DEF StoreMr
    <3> QED BY <3>1, <1>4, OthersStay, ZenonT(60)
  <2>4. CASE PollCq(p)
    <3>1. \E a : nic' = [nic EXCEPT ![n].cq = a] BY <2>4, <2>1, <1>3, ZenonT(60) DEF PollCq
    <3> QED BY <3>1, <1>4, OthersStay, ZenonT(60)
  <2> QED BY <2>2, <2>3, <2>4, ZenonT(60)
<1>7. NonePend' /\ Recvqs' = Recvqs BY <1>2, <1>4, <1>6, MovesTo, ZenonT(60)
<1>8. done' = done BY ZenonT(60) DEF RegisterSeg, StoreMr, PollCq
<1>9. CASE RegisterSeg(p) \/ (StoreMr(p) /\ todo' = todo)
  <2>1. todo' = todo /\ UNCHANGED <<busy, filled>> /\ busy[Home[p]] = None
    BY <1>9, ZenonT(60) DEF RegisterSeg, StoreMr, Calls, ringvars
  <2>2. Underway' BY <2>1, <1>2, <1>5, CallUnderway, ZenonT(60)
  <2> QED BY <2>1, <2>2, <1>2, <1>7, <1>8, ZenonT(60)
<1>10. CASE StoreMr(p) /\ todo' # todo
  <2>1. todo' = [todo EXCEPT ![p] = Tail(todo[p])] BY <1>10, ZenonT(60) DEF StoreMr
  <2>2. UNCHANGED <<busy, filled>> /\ busy[Home[p]] = None /\ todo[p] # << >>
    BY <1>10, ZenonT(60) DEF StoreMr, Calls, ringvars
  <2>3. Underway' BY <2>1, <2>2, <1>2, <1>5, CallUnderway, ZenonT(60)
  <2>4. Good(done, Recvqs, [todo EXCEPT ![p] = Tail(todo[p])]) BY <2>2, <1>2, GoodCall, ZenonT(60)
  <2> QED BY <2>1, <2>3, <2>4, <1>7, <1>8, ZenonT(60)
<1>11. CASE PollCq(p)
  <2>1. UNCHANGED <<todo, filled>> /\ Polling(p) /\ busy' = [busy EXCEPT ![Home[p]] = None]
    BY <1>11, ZenonT(60) DEF PollCq, ringvars
  <2>2. Underway' BY <2>1, <1>2, PollUnderway, ZenonT(60)
  <2> QED BY <2>1, <2>2, <1>2, <1>7, <1>8, ZenonT(60)
<1> QED BY <1>9, <1>10, <1>11, ZenonT(60)

\* Before anything is posted.
LEMMA RecvInit ==
  ASSUME LeastOf, InPostOrder, Init
  PROVE  RecvInv
<1>1. PICK c \in Programs : todo = c.calls BY ZenonT(60) DEF Init
<1>2. todo = [p \in Proc |-> todo[p]]
  <2>1. c.calls = [p \in Proc |-> c.calls[p]] BY <1>1, ZenonT(60) DEF InPostOrder
  <2> QED BY <2>1, <1>1, ZenonT(60)
<1>3. ASSUME NEW p \in Proc PROVE IsSequence(todo[p]) /\ Rising(todo[p], Recvs(todo[p]))
  <2>1. PICK s : s = todo[p] BY ZenonT(60)
  <2>2. /\ IsSequence(s)
        /\ \A i, j \in DOMAIN s :
             i < j /\ s[i].call = "recv" /\ s[j].call = "recv" => s[i].uctx < s[j].uctx
    BY <2>1, <1>1, ZenonT(60) DEF InPostOrder
  <2>3. DOMAIN s = 1 .. Len(s) BY <2>2, SequenceIs, ZenonT(60)
  <2>4. Rising(s, Recvs(s)) BY <2>2, <2>3, ZenonT(60) DEF Rising, Recvs
  <2> QED BY <2>1, <2>2, <2>4, ZenonT(60)
<1>4. /\ done = [p \in Proc |-> << >>] /\ busy = [n \in Node |-> None]
      /\ filled = [n \in Node |-> FALSE]
  BY ZenonT(60) DEF Init, RingInit
<1>5. \A n \in Node : nic[n].recvq = << >> /\ nic[n].pend = << >> BY ZenonT(60) DEF Init
<1>6. Recvqs = [n \in Node |-> << >>] BY <1>5, ZenonT(60) DEF Recvqs
<1>7. IsSequence(<< >>) /\ Len(<< >>) = 0 /\ 1 .. 0 = {} BY EmptyIs, ZenonT(60)
<1>8. \A n : RecvQueue(n, << >>) BY <1>7, ZenonT(60) DEF RecvQueue
<1>9. Done(<< >>) = {} /\ \A x : Of(<< >>, x) = {} BY <1>7, ZenonT(60) DEF Done, Of
<1>10. ASSUME NEW x \in Proc
       PROVE  IsSequence(done[x]) /\ Line(x, done[x], Recvqs[Home[x]], todo[x])
  <2>1. done[x] = << >> BY <1>4, ZenonT(60)
  <2>2. Recvqs[Home[x]] = << >> BY <1>6, GuestAssumption, ZenonT(60)
  <2>3. Line(x, << >>, << >>, todo[x]) BY <1>3, <1>9, ZenonT(60) DEF Line, Rising, Below
  <2> QED BY <2>1, <2>2, <2>3, <1>7, ZenonT(60)
<1>11. DOMAIN done = Proc /\ DOMAIN Recvqs = Node /\ DOMAIN todo = Proc
  BY <1>2, <1>4, <1>6, ZenonT(60)
<1>12. \A n \in Node : RecvQueue(n, Recvqs[n]) BY <1>6, <1>8, ZenonT(60)
<1>13. Good(done, Recvqs, todo) BY <1>3, <1>10, <1>11, <1>12, ZenonT(60) DEF Good
<1>14. Underway BY <1>4, ZenonT(60) DEF Underway
<1> QED BY <1>5, <1>13, <1>14, ZenonT(60) DEF RecvInv, NonePend

\* Every step of the nodes keeps it.
LEMMA RecvNext ==
  ASSUME RegInv, RecvInv, [Next]_vars
  PROVE  RecvInv'
<1>1. ASSUME NEW p \in Proc, PostPending(p) PROVE RecvInv'
  <2>1. ~has_peer' BY <1>1, ZenonT(60) DEF PostPending
  <2> QED BY <2>1, ZenonT(60) DEF RecvInv
<1>2. CASE UNCHANGED vars
  <2>1. UNCHANGED <<has_peer, done, nic, todo, busy, filled>> BY <1>2, ZenonT(60) DEF vars, ringvars
  <2> QED BY <2>1, ZenonT(60) DEF RecvInv, NonePend, Underway, Recvqs
<1> QED BY <1>1, <1>2, RecvsLeft, PostsEnd, PeerEnds, RecvPosted, PacketApplied, ZenonT(60) DEF Next, GoesOn

LOCAL INSTANCE WellFoundedInduction

\* The search of find_recv ends at a first entry, since the numbers are
\* well-ordered.
LEMMA NumbersLeast == LeastOf
<1>1. PICK R : R = {ss \in Nat \X Nat : ss[1] < ss[2]} BY ZenonT(60)
<1>2. IsWellFoundedOn(R, Nat) BY <1>1, NatLessThanWellFounded, ZenonT(60) DEF OpToRel
<1>3. ASSUME NEW T \in SUBSET Nat, T # {} PROVE \E x \in T : \A y \in T : x <= y
  <2>1. PICK x \in T : \A y \in T : ~(<<y, x>> \in R) BY <1>2, <1>3, WFMin, ZenonT(60)
  <2>2. ASSUME NEW y \in T PROVE x <= y
    <3>1. x \in Nat /\ y \in Nat /\ ~(<<y, x>> \in R) BY <2>1, ZenonT(60)
    <3>2. y < x => <<y, x>> \in R BY <3>1, <1>1
    <3> QED BY <3>1, <3>2
  <2> QED BY <2>2, ZenonT(60)
<1> QED BY <1>3, ZenonT(60) DEF LeastOf

\* When the nodes are joined, every receive of a process completes at most once
\* and in the order of the posts, whichever node the send comes from and whether
\* or not the queue overflows (find_recv, "FIFO per jetty").
THEOREM ReceivedInOrder == ASSUME InPostOrder PROVE Spec => [](has_peer => ReceivesInOrder)
<1>1. RecvInv => (has_peer => ReceivesInOrder)
  <2>1. SUFFICES ASSUME RecvInv, has_peer, NEW p \in Proc, NEW i \in Receipts(p), NEW j \in Receipts(p), i < j
                 PROVE  done[p][i].uctx < done[p][j].uctx
    BY ZenonT(60) DEF ReceivesInOrder
  <2>2. Good(done, Recvqs, todo) BY <2>1, ZenonT(60) DEF RecvInv
  <2>3. PICK d : d = done[p] BY ZenonT(60)
  <2>4. IsSequence(d) /\ Line(p, d, Recvqs[Home[p]], todo[p]) BY <2>2, <2>3, GoodIs, ZenonT(60)
  <2>5. DOMAIN d = 1 .. Len(d) BY <2>4, SequenceIs, ZenonT(60)
  <2>6. Receipts(p) = Done(d) BY <2>3, <2>5, ZenonT(60) DEF Receipts, Done
  <2>7. Rising(d, Done(d)) BY <2>4, ZenonT(60) DEF Line
  <2> QED BY <2>1, <2>3, <2>6, <2>7, ZenonT(60) DEF Rising
<1>2. Init => RegInv /\ RecvInv BY NumbersLeast, RegInit, RecvInit, ZenonT(60)
<1>3. RegInv /\ RecvInv /\ [Next]_vars => (RegInv /\ RecvInv)' BY RegNext, RecvNext, ZenonT(60)
<1> QED BY <1>1, <1>2, <1>3, PTL DEF Spec
=============================================================================
