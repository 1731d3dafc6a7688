--------------------------- MODULE JettySchedProofs ---------------------------
(***************************************************************************)
(* Proofs about JettySched, for any number of initiators, any queue depth  *)
(* and any number of requests.                                             *)
(***************************************************************************)
EXTENDS JettySched, FiniteSetTheorems, SequenceTheorems, TLAPS

\* The limit of a leaf that names no prover.
USE SMTT(60)

-----------------------------------------------------------------------------
(* Facts about the operators of the handler.                               *)

\* WrFlits builds a nonempty sequence of flits.
LEMMA WrFlitsType ==
  ASSUME NEW w \in Nat, NEW i \in Ini, NEW n \in 1 .. MaxFlits,
         NEW fence \in BOOLEAN, NEW ra \in BOOLEAN
  PROVE  /\ WrFlits(w, i, n, fence, ra) \in Seq(Flit)
         /\ Len(WrFlits(w, i, n, fence, ra)) = n
         /\ WrFlits(w, i, n, fence, ra) # << >>
<1>1. \A k \in 1 .. n : WrFlits(w, i, n, fence, ra)[k] \in Flit
  BY DEF WrFlits, Flit
<1>2. n \in Nat /\ n > 0
  BY ConstantsAssumption
<1>3. WrFlits(w, i, n, fence, ra) \in [1 .. n -> Flit]
  BY <1>1 DEF WrFlits
<1> QED
  BY <1>2, <1>3

\* Reading a notification never takes a counter below zero.
LEMMA NotifiedType ==
  ASSUME TypeOK, NEW n, n = NoNotify \/ n.ini \in Ini
  PROVE  Notified(n) \in [Ini -> Nat]
BY DEF TypeOK, Notified

\* Reading a notification leaves sets of request ids.
LEMMA AwaitedType ==
  ASSUME TypeOK, NEW n, n = NoNotify \/ n.ini \in Ini
  PROVE  Awaited(n) \in [Ini -> SUBSET Nat]
BY DEF TypeOK, Awaited

\* Enqueueing keeps one slot of the ring empty.
LEMMA EnqueuedType ==
  ASSUME TypeOK, NEW f \in Flit
  PROVE  /\ Enqueued(f) \in [Ini -> Seq(Flit)]
         /\ \A i \in Ini : Len(Enqueued(f)[i]) < QueueDepth
<1>1. InputIni(f) \in Ini
  BY DEF TypeOK, InputIni, Flit
<1>2. q[InputIni(f)] \in Seq(Flit)
  BY <1>1 DEF TypeOK
<1>3. /\ Append(q[InputIni(f)], f) \in Seq(Flit)
      /\ Len(Append(q[InputIni(f)], f)) = Len(q[InputIni(f)]) + 1
  BY <1>2
<1> QED
  BY <1>1, <1>2, <1>3, ConstantsAssumption DEF TypeOK, Enqueued, HasRoom

-----------------------------------------------------------------------------
(* How a queue changes.                                                    *)

\* Reading a flit: it continues the open packet, or starts one when none is.
LEMMA QueueAppend ==
  ASSUME NEW i \in Ini, NEW s \in Seq(Flit), NEW f \in Flit, NEW newest \in Nat,
         NEW active \in BOOLEAN, NEW open \in BOOLEAN,
         QueueOK(i, s, active, open, newest),
         f.ini = i, f.fence \/ f.ra => f.sop, f.sop <=> ~open,
         IF f.sop THEN newest < f.wr ELSE newest = f.wr
  PROVE  QueueOK(i, Append(s, f), active, ~f.eop, f.wr)
<1> DEFINE t == Append(s, f)
<1>1. /\ t \in Seq(Flit)
      /\ Len(t) = Len(s) + 1
      /\ Len(s) \in Nat
      /\ \A k \in 1 .. Len(s) : t[k] = s[k] /\ s[k] \in Flit
      /\ t[Len(t)] = f
      /\ t # << >>
  OBVIOUS
<1> HIDE DEF t
<1>2. \A k \in 1 .. Len(t) : /\ t[k].ini = i
                             /\ t[k].wr <= f.wr
                             /\ t[k].fence \/ t[k].ra => t[k].sop
  <2> TAKE k \in 1 .. Len(t)
  <2>1. CASE k \in 1 .. Len(s)
    <3>1. /\ s[k] \in Flit
          /\ s[k].ini = i
          /\ s[k].wr <= newest
          /\ s[k].fence \/ s[k].ra => s[k].sop
      BY <2>1, <1>1 DEF QueueOK
    <3> QED
      BY <3>1, <2>1, <1>1, SMTT(30) DEF Flit
  <2>2. CASE k = Len(t)
    BY <2>2, <1>1 DEF Flit
  <2> QED
    BY <2>1, <2>2, <1>1
<1>3. ASSUME NEW j \in 1 .. Len(t), NEW k \in 1 .. Len(t), j <= k
      PROVE  t[j].wr <= t[k].wr
  <2>1. CASE k < Len(t)
    BY <2>1, <1>1, <1>3, SMTT(30) DEF QueueOK
  <2>2. CASE k = Len(t)
    BY <2>2, <1>1, <1>2
  <2> QED
    BY <2>1, <2>2, <1>1
<1>5. \A k \in 1 .. Len(t) - 1 :
        IF t[k].eop
        THEN t[k + 1].sop /\ t[k].wr < t[k + 1].wr
        ELSE ~t[k + 1].sop /\ t[k].wr = t[k + 1].wr
  <2> SUFFICES ASSUME NEW k \in 1 .. Len(t) - 1
               PROVE  IF t[k].eop
                      THEN t[k + 1].sop /\ t[k].wr < t[k + 1].wr
                      ELSE ~t[k + 1].sop /\ t[k].wr = t[k + 1].wr
    BY Zenon
  <2>1. CASE k < Len(s)
    BY <2>1, <1>1 DEF QueueOK
  <2>2. CASE k = Len(s)
    <3>1. /\ Len(s) \in 1 .. Len(s)
          /\ s # << >>
          /\ s[Len(s)] \in Flit
      BY <2>2, <1>1
    <3>2. /\ s[Len(s)].eop <=> ~open
          /\ open => s[Len(s)].wr = newest
          /\ s[Len(s)].wr <= newest
      BY <3>1 DEF QueueOK
    <3>3. t[k] = s[Len(s)] /\ t[k + 1] = f
      BY <2>2, <1>1
    <3> QED
      BY <3>1, <3>2, <3>3 DEF Flit
  <2> QED
    BY <2>1, <2>2, <1>1
<1>6. t[1].sop <=> ~active
  BY <1>1 DEF QueueOK
<1>7. t[Len(t)].eop <=> ~(~f.eop)
  BY <1>1 DEF Flit
<1>8. t[Len(t)].wr = f.wr
  BY <1>1
<1> QED
  BY <1>1, <1>2, <1>3, <1>5, <1>6, <1>7, <1>8, ZenonT(60) DEF QueueOK, t

\* Draining a flit: the queue stays active until the flit was the last one.
LEMMA QueueTail ==
  ASSUME NEW i \in Ini, NEW s \in Seq(Flit), NEW newest \in Nat,
         NEW active \in BOOLEAN, NEW open \in BOOLEAN,
         QueueOK(i, s, active, open, newest), s # << >>
  PROVE  /\ QueueOK(i, Tail(s), ~s[1].eop, open, newest)
         /\ ~s[1].eop => DrainOK(Tail(s), s[1], newest)
<1> DEFINE t == Tail(s)
<1>1. /\ t \in Seq(Flit)
      /\ Len(t) = Len(s) - 1
      /\ Len(s) \in Nat /\ Len(s) >= 1
      /\ \A k \in 1 .. Len(t) : t[k] = s[k + 1]
      /\ \A k \in 1 .. Len(s) : s[k] \in Flit
      /\ t = << >> <=> Len(s) = 1
  <2>1. /\ t \in Seq(Flit)
        /\ Len(t) = Len(s) - 1
        /\ \A k \in 1 .. Len(t) : t[k] = s[k + 1]
    BY HeadTailProperties
  <2>2. Len(s) \in Nat \ {0} /\ \A k \in 1 .. Len(s) : s[k] \in Flit
    BY EmptySeq, ElementOfSeq
  <2>3. t = << >> <=> Len(t) = 0
    BY <2>1, EmptySeq, Zenon
  <2> HIDE DEF t
  <2> QED
    BY <2>1, <2>2, <2>3
<1> HIDE DEF t
<1>2. \A k \in 1 .. Len(t) : /\ t[k].ini = i
                             /\ t[k].wr <= newest
                             /\ t[k].fence \/ t[k].ra => t[k].sop
  BY <1>1 DEF QueueOK
<1>3. ASSUME NEW j \in 1 .. Len(t), NEW k \in 1 .. Len(t), j <= k
      PROVE  t[j].wr <= t[k].wr
  <2>1. /\ j + 1 \in 1 .. Len(s)
        /\ k + 1 \in 1 .. Len(s)
        /\ j + 1 <= k + 1
        /\ t[j] = s[j + 1]
        /\ t[k] = s[k + 1]
    BY <1>1, <1>3
  <2> QED
    BY <2>1 DEF QueueOK
<1>4. \A k \in 1 .. Len(t) - 1 :
        IF t[k].eop
        THEN t[k + 1].sop /\ t[k].wr < t[k + 1].wr
        ELSE ~t[k + 1].sop /\ t[k].wr = t[k + 1].wr
  <2> TAKE k \in 1 .. Len(t) - 1
  <2>1. /\ k + 1 \in 1 .. Len(s) - 1
        /\ t[k] = s[k + 1]
        /\ t[k + 1] = s[(k + 1) + 1]
    BY <1>1
  <2> QED
    BY <2>1 DEF QueueOK
<1>5. CASE t = << >>
  <2>1. s[1].eop <=> ~open
    BY <1>1, <1>5, Zenon DEF QueueOK
  <2>2. open => s[1].wr = newest
    BY <1>1, <1>5, ZenonT(60) DEF QueueOK
  <2> QED
    BY <1>5, <1>1, <1>2, <1>3, <1>4, <2>1, <2>2, ZenonT(60) DEF QueueOK, DrainOK, t, Flit
<1>6. CASE t # << >>
  <2>1. /\ 1 \in 1 .. Len(s) - 1
        /\ t[1] = s[2]
        /\ t[Len(t)] = s[Len(s)]
    BY <1>1, <1>6
  <2>2. IF s[1].eop THEN s[2].sop ELSE ~s[2].sop /\ s[1].wr = s[2].wr
    BY <2>1 DEF QueueOK
  <2>3. t[1].sop <=> ~(~s[1].eop)
    BY <2>1, <2>2, <1>1, <1>6, ZenonT(60) DEF Flit
  <2> QED
    BY <1>6, <1>2, <1>3, <1>4, <2>1, <2>2, <2>3 DEF QueueOK, DrainOK, t
<1> QED
  BY <1>5, <1>6

-----------------------------------------------------------------------------
(* How the count of outstanding requests changes.                          *)

\* Reading the notification of request w takes it out of the count.
LEMMA CountNotify ==
  ASSUME NEW s, NEW count, NEW aw, NEW un, NEW newest,
         CountOK(s, count, aw, un, newest),
         NEW w \in aw, w \notin un
  PROVE  /\ count # 0
         /\ CountOK(s, count - 1, aw \ {w}, un, newest)
<1>1. /\ IsFiniteSet(aw \ {w})
      /\ Cardinality(aw \ {w}) = Cardinality(aw) - 1
  BY FS_RemoveElement DEF CountOK
<1>2. Cardinality(aw) # 0
  BY FS_EmptySet DEF CountOK
<1> QED
  BY <1>1, <1>2 DEF CountOK

\* Queueing a flit: a Read or Atomic becomes unanswered.
LEMMA CountAppend ==
  ASSUME NEW s \in Seq(Flit), NEW f \in Flit, NEW count, NEW aw \in SUBSET Nat,
         NEW un, NEW newest \in Nat, CountOK(s, count, aw, un, newest),
         f.ra => f.sop, IF f.sop THEN newest < f.wr ELSE newest = f.wr
  PROVE  CountOK(Append(s, f), count, aw,
                 IF f.ra THEN un \cup {f.wr} ELSE un, f.wr)
<1> DEFINE t == Append(s, f)
<1>1. /\ Len(t) = Len(s) + 1
      /\ Len(s) \in Nat
      /\ \A k \in 1 .. Len(s) : t[k] = s[k]
      /\ t[Len(t)] = f
  OBVIOUS
<1> HIDE DEF t
<1>2. \A w : (\E k \in 1 .. Len(s) : s[k].ra /\ s[k].wr = w)
             => \E k \in 1 .. Len(t) : t[k].ra /\ t[k].wr = w
  BY <1>1
<1>3. f.ra => \E k \in 1 .. Len(t) : t[k].ra /\ t[k].wr = f.wr
  BY <1>1
<1>4. ASSUME NEW w \in aw
      PROVE  /\ w <= f.wr
             /\ \A k \in 1 .. Len(t) : t[k].ra => t[k].wr # w
  <2>1. w \in Nat /\ f.wr \in Nat /\ w <= newest
    BY DEF CountOK, Flit
  <2>2. \A k \in 1 .. Len(t) : k \in 1 .. Len(s) \/ k = Len(t)
    BY <1>1
  <2>3. \A k \in 1 .. Len(s) : s[k].ra => s[k].wr # w
    BY DEF CountOK
  <2> QED
    BY <2>1, <2>2, <2>3, <1>1
<1> QED
  BY <1>2, <1>3, <1>4 DEF CountOK, t

\* Emitting the head of a queue: a Read or Atomic is counted from now on.
LEMMA CountEmit ==
  ASSUME NEW i \in Ini, NEW s \in Seq(Flit), s # << >>, NEW count \in Nat,
         NEW aw \in SUBSET Nat, NEW un, NEW newest \in Nat,
         NEW active \in BOOLEAN, NEW open \in BOOLEAN,
         QueueOK(i, s, active, open, newest), CountOK(s, count, aw, un, newest)
  PROVE  CountOK(Tail(s), IF s[1].ra THEN count + 1 ELSE count,
                 IF s[1].ra THEN aw \cup {s[1].wr} ELSE aw, un, newest)
<1> DEFINE t == Tail(s)
           aw2 == IF s[1].ra THEN aw \cup {s[1].wr} ELSE aw
<1>1. /\ Len(t) = Len(s) - 1
      /\ Len(s) \in Nat \ {0}
      /\ \A k \in 1 .. Len(t) : t[k] = s[k + 1]
      /\ \A k \in 1 .. Len(s) : s[k] \in Flit
  BY HeadTailProperties, EmptySeq, ElementOfSeq
<1> HIDE DEF t
<1>2. \A k \in 1 .. Len(s) : k # 1 => k - 1 \in 1 .. Len(t) /\ t[k - 1] = s[k]
  BY <1>1
<1>3. ASSUME NEW w \in un
      PROVE  w \in aw2 \/ \E k \in 1 .. Len(t) : t[k].ra /\ t[k].wr = w
  <2>1. CASE w \in aw
    BY <2>1
  <2>2. CASE w \notin aw
    <3>1. PICK k \in 1 .. Len(s) : s[k].ra /\ s[k].wr = w
      BY <2>2 DEF CountOK
    <3> QED
      BY <3>1, <1>2, ZenonT(60)
  <2> QED
    BY <2>1, <2>2
<1>4. s[1] \in Flit /\ s[1].wr \in Nat /\ s[1].wr <= newest
  BY <1>1 DEF QueueOK, Flit
<1>5. s[1].ra => s[1].wr \notin aw
  <2>1. 1 \in 1 .. Len(s)
    BY <1>1
  <2> QED
    BY <2>1, Zenon DEF CountOK
<1>6. s[1].ra => /\ IsFiniteSet(aw \cup {s[1].wr})
                 /\ Cardinality(aw \cup {s[1].wr}) = Cardinality(aw) + 1
  <2>1. IsFiniteSet(aw)
    BY DEF CountOK
  <2> QED
    BY <2>1, <1>5, FS_AddElement, ZenonT(60)
<1>7. ASSUME NEW k \in 1 .. Len(t), t[k].ra
      PROVE  t[k].wr # s[1].wr
  <2>1. /\ k \in 1 .. Len(s) - 1
        /\ k + 1 \in 1 .. Len(s)
        /\ 1 \in 1 .. Len(s)
        /\ 1 <= k
        /\ k \in 1 .. Len(s)
        /\ t[k] = s[k + 1]
    BY <1>1
  <2>2. s[k + 1].sop
    BY <2>1, <1>7 DEF QueueOK
  <2>3. s[k].wr < s[k + 1].wr
    BY <2>1, <2>2 DEF QueueOK
  <2>4. s[1].wr <= s[k].wr
    BY <2>1 DEF QueueOK
  <2>5. s[k].wr \in Nat /\ s[k + 1].wr \in Nat
    BY <2>1, <1>1, ZenonT(60) DEF Flit
  <2> QED
    BY <2>1, <2>3, <2>4, <2>5, <1>4, SMTT(30)
<1>8. ASSUME NEW w \in aw2
      PROVE  /\ w <= newest
             /\ \A k \in 1 .. Len(t) : t[k].ra => t[k].wr # w
  <2>1. CASE w \in aw
    BY <2>1, <1>1 DEF CountOK
  <2>2. CASE w \notin aw
    BY <2>2, <1>4, <1>7
  <2> QED
    BY <2>1, <2>2
<1> HIDE DEF aw2
<1>9. /\ IsFiniteSet(aw2)
      /\ Cardinality(aw2) = IF s[1].ra THEN count + 1 ELSE count
  BY <1>6 DEF aw2, CountOK
<1> QED
  BY <1>3, <1>8, <1>9 DEF CountOK, t, aw2
-----------------------------------------------------------------------------
(* Type correctness, whatever the host posts.                              *)

\* What Drain leaves behind when it is given well typed values.
DrainTypes ==
  /\ q \in [Ini -> Seq(Flit)]
  /\ \A i \in Ini : Len(q[i]) < QueueDepth
  /\ outstanding \in [Ini -> Nat]
  /\ awaiting \in [Ini -> SUBSET Nat]
  /\ rr_cursor \in Ini
  /\ drain_active_ini \in Ini \cup {None}
  /\ drain_in_packet \in BOOLEAN
  /\ drain_in_packet <=> drain_active_ini # None
  /\ out \in [last : Flit, prev : Flit]

\* A call that drains keeps the types of everything the drain writes.
LEMMA DrainType ==
  ASSUME TypeOK, NEW qs \in [Ini -> Seq(Flit)], NEW outst \in [Ini -> Nat],
         NEW aw \in [Ini -> SUBSET Nat], \A i \in Ini : Len(qs[i]) < QueueDepth,
         Drain(qs, outst, aw)
  PROVE  DrainTypes'
<1>1. ASSUME NEW i \in Ini, qs[i] # << >>, Emit(i, qs, outst, aw), rr_cursor' \in Ini
      PROVE  DrainTypes'
  <2> DEFINE s == qs[i]
  <2>1. /\ Head(s) \in Flit
        /\ Tail(s) \in Seq(Flit)
        /\ Len(Tail(s)) < QueueDepth
    <3>1. s \in Seq(Flit) /\ s # << >> /\ Len(s) < QueueDepth /\ Len(s) \in Nat
      BY <1>1
    <3>2. Tail(s) \in Seq(Flit) /\ Len(Tail(s)) = Len(s) - 1 /\ Head(s) \in Flit
      BY <3>1, HeadTailProperties
    <3> HIDE DEF s
    <3> QED
      BY <3>1, <3>2, ConstantsAssumption
  <2> DEFINE f == Head(s)
  <2> HIDE DEF s
  <2>2. f.wr \in Nat /\ f.eop \in BOOLEAN
    BY <2>1, ZenonT(60) DEF Flit
  <2>3. q' \in [Ini -> Seq(Flit)] /\ \A j \in Ini : Len(q'[j]) < QueueDepth
    BY <2>1, <1>1 DEF Emit, s
  <2>4. outstanding' \in [Ini -> Nat] /\ awaiting' \in [Ini -> SUBSET Nat]
    BY <2>2, <1>1 DEF Emit, s
  <2>5. out' \in [last : Flit, prev : Flit]
    BY <2>1, <1>1 DEF Emit, TypeOK, s
  <2>6. /\ drain_active_ini' \in Ini \cup {None}
        /\ drain_in_packet' \in BOOLEAN
        /\ drain_in_packet' <=> drain_active_ini' # None
    <3>1. i # None
      BY ConstantsAssumption DEF None, Ini
    <3>2. /\ drain_in_packet' = ~f.eop
          /\ drain_active_ini' = IF f.eop THEN None ELSE i
      BY <1>1 DEF Emit, s
    <3>3. CASE f.eop
      BY <3>2, <3>3, Zenon
    <3>4. CASE ~f.eop
      BY <3>1, <3>2, <3>4, Zenon
    <3> QED
      BY <3>3, <3>4
  <2> QED
    BY <2>3, <2>4, <2>5, <2>6, <1>1 DEF DrainTypes
<1>2. ASSUME Hold(qs, outst, aw), rr_cursor' \in Ini
      PROVE  DrainTypes'
  BY <1>2, ZenonT(60) DEF Hold, TypeOK, DrainTypes
<1>3. (rr_cursor + 1) % MaxIni \in Ini /\ rr_cursor \in Ini
  BY ConstantsAssumption DEF TypeOK, Ini
<1>4. CASE drain_in_packet
  <2>1. rr_cursor' \in Ini /\ drain_active_ini \in Ini
    BY <1>3, <1>4 DEF Drain, TypeOK
  <2> QED
    BY <1>1, <1>2, <1>4, <2>1 DEF Drain
<1>5. CASE ~drain_in_packet
  BY <1>1, <1>2, <1>3, <1>5 DEF Drain, Eligible
<1> QED
  BY <1>4, <1>5 DEF TypeOK

\* A notification read on port 2 belongs to an initiator.
LEMMA NotificationIni ==
  ASSUME NEW i \in Ini, NEW n \in Notifications(i)
  PROVE  /\ n.ini = i
         /\ n # NoNotify
         /\ n.wr \in awaiting[i]
         /\ n.wr \notin unanswered[i]
BY ConstantsAssumption DEF Notifications, NoNotify, None, Ini

\* The handler keeps TypeOK, with or without a notification.
LEMMA HandlerType ==
  ASSUME TypeOK, NEW n, n = NoNotify \/ n.ini \in Ini, Handler(n)
  PROVE  TypeOK'
<1> DEFINE f == Head(feed)
<1>1. feed # << >> => f \in Flit /\ Tail(feed) \in Seq(Flit)
  BY HeadTailProperties DEF TypeOK
<1>2. /\ Notified(n) \in [Ini -> Nat]
      /\ Awaited(n) \in [Ini -> SUBSET Nat]
  BY NotifiedType, AwaitedType
<1>3. CASE SchedIdle(n)
  <2>1. DrainTypes'
    BY <1>2, <1>3, DrainType, Zenon DEF SchedIdle, TypeOK
  <2> QED
    BY <2>1, <1>3, ZenonT(60) DEF SchedIdle, TypeOK, DrainTypes, hostVars, inputVars
<1>4. CASE SchedFlit(n)
  <2>1. DrainTypes'
    BY <1>1, <1>2, <1>4, DrainType, EnqueuedType, Zenon DEF SchedFlit
  <2>2. /\ feed' \in Seq(Flit)
        /\ cur_input_ini' \in Ini
        /\ in_packet_input' \in BOOLEAN
        /\ unanswered' \in [Ini -> SUBSET Nat]
        /\ nextWr' \in 0 .. MaxWrs
    <3>1. f \in Flit /\ f.ini \in Ini /\ f.wr \in Nat
      BY <1>1, <1>4 DEF SchedFlit, Flit
    <3> HIDE DEF f
    <3> QED
      BY <3>1, <1>1, <1>4, ZenonT(60) DEF SchedFlit, InputIni, Accepted, TypeOK, f
  <2> QED
    BY <2>1, <2>2, Zenon DEF TypeOK, DrainTypes
<1>5. CASE SchedStray(n)
  BY <1>1, <1>2, <1>5, ZenonT(60) DEF SchedStray, TypeOK, inputVars, drainVars
<1> QED
  BY <1>3, <1>4, <1>5 DEF Handler

\* The initial state is well typed.
LEMMA InitType == Init => TypeOK
<1> SUFFICES ASSUME Init PROVE TypeOK
  OBVIOUS
<1>1. 0 \in Ini /\ NoFlit \in Flit
  BY ConstantsAssumption DEF Ini, Flit, NoFlit
<1>2. /\ feed \in Seq(Flit)
      /\ q \in [Ini -> Seq(Flit)]
      /\ \A i \in Ini : Len(q[i]) < QueueDepth
  BY ConstantsAssumption, EmptySeq DEF Init
<1>3. /\ nextWr \in 0 .. MaxWrs
      /\ rr_cursor \in Ini
      /\ cur_input_ini \in Ini
  BY <1>1, ConstantsAssumption DEF Init
<1>4. /\ outstanding \in [Ini -> Nat]
      /\ awaiting \in [Ini -> SUBSET Nat]
      /\ unanswered \in [Ini -> SUBSET Nat]
  BY DEF Init
<1>5. /\ in_packet_input \in BOOLEAN
      /\ drain_active_ini \in Ini \cup {None}
      /\ drain_in_packet \in BOOLEAN
      /\ drain_in_packet <=> drain_active_ini # None
  BY Zenon DEF Init
<1>6. out \in [last : Flit, prev : Flit]
  BY <1>1 DEF Init
<1> QED
  BY <1>2, <1>3, <1>4, <1>5, <1>6 DEF TypeOK

\* Every variable of the scheduler keeps its type, and every ring keeps one
\* slot empty, however fast the host posts.
THEOREM TypeCorrect == Spec => []TypeOK
<1>1. Init => TypeOK
  BY InitType
<1>2. ASSUME TypeOK, [Next]_vars
      PROVE  TypeOK'
  <2>1. CASE UNCHANGED vars
    BY <2>1, <1>2 DEF TypeOK, vars, hostVars, inputVars, drainVars
  <2>2. ASSUME NEW i \in Ini, NEW n \in 1 .. MaxFlits, NEW fence \in BOOLEAN,
               NEW ra \in BOOLEAN, NEW valid \in BOOLEAN,
               HostPost(i, n, fence, ra, valid)
        PROVE  TypeOK'
    <3> DEFINE flits == WrFlits(nextWr', i, n, fence, ra)
    <3>1. nextWr' \in Nat /\ nextWr' \in 0 .. MaxWrs
      BY <1>2, <2>2, ConstantsAssumption DEF HostPost, TypeOK
    <3>2. flits \in Seq(Flit) /\ flits # << >>
      BY <3>1, WrFlitsType
    <3> HIDE DEF flits
    <3>3. Tail(flits) \in Seq(Flit)
      BY <3>2, HeadTailProperties
    <3>4. feed' \in Seq(Flit)
      BY <3>2, <3>3, <2>2 DEF HostPost, Doorbell, flits
    <3> QED
      BY <3>1, <3>4, <1>2, <2>2, ZenonT(60) DEF HostPost, TypeOK, inputVars, drainVars
  <2>3. ASSUME NEW i \in Ini, Respond(i)
        PROVE  TypeOK'
    BY <1>2, <2>3, ZenonT(60) DEF Respond, TypeOK, hostVars, inputVars, drainVars
  <2>4. ASSUME NEW i \in Ini, ReadsNotification(i)
        PROVE  TypeOK'
    BY <1>2, <2>4, NotificationIni, HandlerType DEF ReadsNotification
  <2>5. CASE Handler(NoNotify)
    BY <1>2, <2>5, HandlerType, ZenonT(60)
  <2> QED
    BY <1>2, <2>1, <2>2, <2>3, <2>4, <2>5, ZenonT(60) DEF Next, Host
<1> QED
  BY <1>1, <1>2, PTL DEF Spec

-----------------------------------------------------------------------------
(* The inductive invariant, for a host that never overfills a queue.  A    *)
(* handler call is taken apart into the notification it reads, the flit it *)
(* queues and the flit it drains; Phase is what each part re-establishes.  *)

Phase(qs, outst, aw, un, open, newest) ==
  /\ \A i \in Ini :
       /\ Len(qs[i]) <= MaxBacklog
       /\ QueueOK(i, qs[i], drain_active_ini = i, open[i], newest)
       /\ CountOK(qs[i], outst[i], aw[i], un[i], newest)
  /\ out.last.wr <= newest
  /\ drain_in_packet <=> ~out.last.eop
  /\ drain_in_packet => DrainOK(qs[drain_active_ini], out.last, newest)
  /\ out.last.sop /\ out.last.fence =>
       \A w \in un[out.last.ini] : w >= out.last.wr
  /\ Contiguous

\* Emitting the head of queue i keeps Phase, when it continues the packet
\* that was begun or starts one that its fence does not hold back.
LEMMA EmitPhase ==
  ASSUME TypeOK,
         NEW qs \in [Ini -> Seq(Flit)], NEW outst \in [Ini -> Nat],
         NEW aw \in [Ini -> SUBSET Nat], NEW un \in [Ini -> SUBSET Nat],
         NEW open \in [Ini -> BOOLEAN], NEW newest \in Nat,
         Phase(qs, outst, aw, un, open, newest),
         NEW i \in Ini, qs[i] # << >>,
         IF drain_in_packet THEN drain_active_ini = i ELSE Eligible(i, qs, outst),
         Emit(i, qs, outst, aw)
  PROVE  Phase(q, outstanding, awaiting, un, open, newest)'
<1> DEFINE s == qs[i]
           f == s[1]
<1>1. /\ s \in Seq(Flit)
      /\ s # << >>
      /\ Len(s) \in Nat \ {0}
      /\ f \in Flit
      /\ Head(s) = f
      /\ Len(Tail(s)) = Len(s) - 1
  BY HeadTailProperties, EmptySeq, ElementOfSeq
<1>2. /\ Len(s) <= MaxBacklog
      /\ QueueOK(i, s, drain_active_ini = i, open[i], newest)
      /\ CountOK(s, outst[i], aw[i], un[i], newest)
  BY ZenonT(60) DEF Phase
<1>3. /\ f.ini = i
      /\ f.wr \in Nat
      /\ f.wr <= newest
      /\ f.fence \/ f.ra => f.sop
      /\ f.sop <=> ~(drain_active_ini = i)
      /\ f.sop \in BOOLEAN /\ f.eop \in BOOLEAN /\ f.ra \in BOOLEAN
  <2>1. 1 \in 1 .. Len(s)
    BY <1>1
  <2> QED
    BY <2>1, <1>1, <1>2 DEF QueueOK, Flit
<1> HIDE DEF s, f
<1>4. /\ q' = [qs EXCEPT ![i] = Tail(s)]
      /\ out' = [last |-> f, prev |-> out.last]
      /\ outstanding' = IF f.ra THEN [outst EXCEPT ![i] = @ + 1] ELSE outst
      /\ awaiting' = IF f.ra THEN [aw EXCEPT ![i] = @ \cup {f.wr}] ELSE aw
      /\ drain_in_packet' = ~f.eop
      /\ drain_active_ini' = IF f.eop THEN None ELSE i
  BY <1>1, Zenon DEF Emit, s
<1>5. /\ q'[i] = Tail(s)
      /\ outstanding'[i] = IF f.ra THEN outst[i] + 1 ELSE outst[i]
      /\ awaiting'[i] = IF f.ra THEN aw[i] \cup {f.wr} ELSE aw[i]
      /\ \A j \in Ini \ {i} : /\ q'[j] = qs[j]
                              /\ outstanding'[j] = outst[j]
                              /\ awaiting'[j] = aw[j]
  BY <1>4
<1>6. i # None
  BY ConstantsAssumption DEF Ini, None
<1>7. drain_active_ini = i \/ drain_active_ini = None
  <2>1. drain_in_packet \in BOOLEAN /\ (drain_in_packet <=> drain_active_ini # None)
    BY DEF TypeOK
  <2> QED
    BY <2>1
<1>8. /\ QueueOK(i, Tail(s), ~f.eop, open[i], newest)
      /\ ~f.eop => DrainOK(Tail(s), f, newest)
  <2>1. PICK active \in BOOLEAN : active = (drain_active_ini = i)
    BY Zenon
  <2>2. QueueOK(i, s, active, open[i], newest)
    BY <2>1, <1>2
  <2>3. open[i] \in BOOLEAN
    OBVIOUS
  <2>4. /\ QueueOK(i, Tail(s), ~s[1].eop, open[i], newest)
        /\ ~s[1].eop => DrainOK(Tail(s), s[1], newest)
    BY <2>2, <2>3, <1>1, QueueTail, ZenonT(60)
  <2> QED
    BY <2>4 DEF f
<1>9. CountOK(Tail(s), IF f.ra THEN outst[i] + 1 ELSE outst[i],
              IF f.ra THEN aw[i] \cup {f.wr} ELSE aw[i], un[i], newest)
  <2>1. outst[i] \in Nat /\ aw[i] \in SUBSET Nat /\ open[i] \in BOOLEAN
    OBVIOUS
  <2>2. PICK active \in BOOLEAN : active = (drain_active_ini = i)
    BY Zenon
  <2>3. QueueOK(i, s, active, open[i], newest)
    BY <2>2, <1>2
  <2>4. CountOK(Tail(s), IF s[1].ra THEN outst[i] + 1 ELSE outst[i],
                IF s[1].ra THEN aw[i] \cup {s[1].wr} ELSE aw[i], un[i], newest)
    BY <2>1, <2>3, <1>1, <1>2, CountEmit, ZenonT(30)
  <2> QED
    BY <2>4 DEF f
<1>10. (drain_active_ini' = i) = ~f.eop
  BY <1>3, <1>4, <1>6, ZenonT(60)
<1>11. \A j \in Ini :
         /\ Len(q'[j]) <= MaxBacklog
         /\ QueueOK(j, q'[j], drain_active_ini' = j, open[j], newest)
         /\ CountOK(q'[j], outstanding'[j], awaiting'[j], un[j], newest)
  <2> TAKE j \in Ini
  <2>1. CASE j = i
    <3>1. Len(Tail(s)) <= MaxBacklog
      BY <1>1, <1>2, ConstantsAssumption, SMTT(30)
    <3> QED
      BY <2>1, <3>1, <1>5, <1>8, <1>9, <1>10, ZenonT(60)
  <2>2. CASE j # i
    <3>1. (drain_active_ini' = j) = FALSE /\ (drain_active_ini = j) = FALSE
      <4>1. j # None
        BY ConstantsAssumption DEF Ini, None
      <4>2. drain_active_ini' = i \/ drain_active_ini' = None
        BY <1>4
      <4> QED
        BY <4>1, <4>2, <2>2, <1>7, ZenonT(60)
    <3>2. /\ Len(qs[j]) <= MaxBacklog
          /\ QueueOK(j, qs[j], drain_active_ini = j, open[j], newest)
          /\ CountOK(qs[j], outst[j], aw[j], un[j], newest)
      BY Zenon DEF Phase
    <3> QED
      BY <2>2, <3>1, <3>2, <1>5, ZenonT(60)
  <2> QED
    BY <2>1, <2>2, ZenonT(60)
<1>12. /\ out'.last = f
       /\ out'.prev = out.last
  BY <1>4
<1>13. /\ out'.last.wr <= newest
       /\ drain_in_packet' <=> ~out'.last.eop
       /\ drain_in_packet' => DrainOK(q'[drain_active_ini'], out'.last, newest)
  <2>1. drain_in_packet' => drain_active_ini' = i
    BY <1>4, ZenonT(60)
  <2> QED
    BY <2>1, <1>3, <1>4, <1>5, <1>8, <1>12, ZenonT(60)
<1>14. ASSUME out'.last.sop, out'.last.fence, NEW w \in un[out'.last.ini]
       PROVE  w >= out'.last.wr
  <2>1. ~drain_in_packet /\ outst[i] = 0
    <3>1. f.sop /\ f.fence
      BY <1>12, <1>14, ZenonT(60)
    <3>2. ~drain_in_packet
      BY <3>1, <1>3
    <3>3. Eligible(i, qs, outst)
      BY <3>2
    <3>4. outst[i] = 0
      <4>1. outst[i] \in Nat /\ ~(outst[i] > 0)
        BY <3>1, <3>3, <1>1, ZenonT(60) DEF Eligible, s
      <4> QED
        BY <4>1
    <3> QED
      BY <3>2, <3>4, ZenonT(60)
  <2>2. aw[i] = {}
    BY <2>1, <1>2, FS_EmptySet, ZenonT(60) DEF CountOK
  <2>3. w \in un[i]
    BY <1>3, <1>12, <1>14, ZenonT(60)
  <2>4. PICK k \in 1 .. Len(s) : s[k].ra /\ s[k].wr = w
    BY <2>2, <2>3, <1>2, ZenonT(60) DEF CountOK
  <2>5. 1 \in 1 .. Len(s) /\ 1 <= k
    BY <1>1
  <2>6. s[1].wr <= s[k].wr
    BY <2>5, <1>2, ZenonT(60) DEF QueueOK
  <2>7. w \in Nat
    BY <2>3
  <2> QED
    BY <2>4, <2>6, <2>7, <1>3, <1>12, ZenonT(60) DEF f
<1>15. Contiguous'
  <2>1. CASE drain_in_packet
    <3>1. ~f.sop /\ ~out.last.eop /\ f.wr = out.last.wr
      BY <2>1, <1>1, <1>3, ZenonT(60) DEF Phase, DrainOK, s, f
    <3> QED
      BY <3>1, <1>12, ZenonT(60) DEF Contiguous
  <2>2. CASE ~drain_in_packet
    <3>1. f.sop /\ out.last.eop
      BY <2>2, <1>1 DEF Phase, Eligible, s
    <3> QED
      BY <3>1, <1>12, ZenonT(60) DEF Contiguous
  <2> QED
    BY <2>1, <2>2, ZenonT(60)
<1> QED
  BY <1>11, <1>13, <1>14, <1>15, ZenonT(60) DEF Phase

\* The drain at the end of every call keeps Phase.
LEMMA DrainPhase ==
  ASSUME TypeOK,
         NEW qs \in [Ini -> Seq(Flit)], NEW outst \in [Ini -> Nat],
         NEW aw \in [Ini -> SUBSET Nat], NEW un \in [Ini -> SUBSET Nat],
         NEW open \in [Ini -> BOOLEAN], NEW newest \in Nat,
         Phase(qs, outst, aw, un, open, newest),
         Drain(qs, outst, aw)
  PROVE  Phase(q, outstanding, awaiting, un, open, newest)'
<1>1. ASSUME Hold(qs, outst, aw)
      PROVE  Phase(q, outstanding, awaiting, un, open, newest)'
  BY <1>1, ZenonT(60) DEF Hold, Phase, Contiguous
<1>2. CASE drain_in_packet
  <2>1. drain_active_ini \in Ini
    BY <1>2 DEF TypeOK
  <2> QED
    BY <1>1, <1>2, <2>1, EmitPhase, ZenonT(60) DEF Drain
<1>3. CASE ~drain_in_packet
  <2>1. rr_cursor \in Ini
    BY ZenonT(60) DEF TypeOK
  <2> QED
    BY <1>1, <1>3, <2>1, EmitPhase, ZenonT(60) DEF Drain, Eligible
<1> QED
  BY <1>2, <1>3, SMTT(30)

Opens == [i \in Ini |-> Open(i)]

\* Phase, taken at the variables themselves, is what SchedInv says of the
\* queues, the counters and the output.
LEMMA PhaseIsInv ==
  SchedInv <=> /\ TypeOK
               /\ FeedInv
               /\ Phase(q, outstanding, awaiting, unanswered, Opens, Newest)
BY DEF SchedInv, Phase, QueueInv, CountInv, DrainInv, FenceSafe, Opens

\* What a call may read on port 2.
IsNotification(n) == n = NoNotify \/ \E i \in Ini : n \in Notifications(i)

\* Reading a notification keeps Phase.
LEMMA NotifyPhase ==
  ASSUME SchedInv, NEW n, IsNotification(n)
  PROVE  Phase(q, Notified(n), Awaited(n), unanswered, Opens, Newest)
<1>1. Phase(q, outstanding, awaiting, unanswered, Opens, Newest)
  BY PhaseIsInv
<1>2. CASE n = NoNotify
  BY <1>1, <1>2, ZenonT(60) DEF Notified, Awaited
<1>3. ASSUME NEW i \in Ini, n \in Notifications(i)
      PROVE  Phase(q, Notified(n), Awaited(n), unanswered, Opens, Newest)
  <2>1. /\ n.ini = i
        /\ n # NoNotify
        /\ n.wr \in awaiting[i]
        /\ n.wr \notin unanswered[i]
    BY <1>3, NotificationIni, ZenonT(60)
  <2>2. CountOK(q[i], outstanding[i], awaiting[i], unanswered[i], Newest)
    BY <1>1, ZenonT(60) DEF Phase
  <2>3. /\ outstanding[i] # 0
        /\ CountOK(q[i], outstanding[i] - 1, awaiting[i] \ {n.wr}, unanswered[i], Newest)
    BY <2>1, <2>2, CountNotify, ZenonT(60)
  <2>4. /\ Notified(n) = [outstanding EXCEPT ![i] = @ - 1]
        /\ Awaited(n) = [awaiting EXCEPT ![i] = @ \ {n.wr}]
    BY <2>1, <2>3, SMTT(30) DEF Notified, Awaited
  <2>5. \A j \in Ini :
          CountOK(q[j], Notified(n)[j], Awaited(n)[j], unanswered[j], Newest)
    BY <2>3, <2>4, <1>1, ZenonT(60) DEF Phase, SchedInv, TypeOK
  <2> QED
    BY <2>5, <1>1, ZenonT(60) DEF Phase
<1> QED
  BY <1>2, <1>3 DEF IsNotification

\* A queue whose last packet is complete does not care which request is the
\* newest.
LEMMA QueueNewer ==
  ASSUME NEW i \in Ini, NEW s \in Seq(Flit), NEW newest \in Nat, NEW newer \in Nat,
         newest <= newer, NEW active \in BOOLEAN, NEW open \in BOOLEAN, ~open,
         QueueOK(i, s, active, open, newest)
  PROVE  QueueOK(i, s, active, open, newer)
<1>1. \A k \in 1 .. Len(s) : s[k] \in Flit
  BY ElementOfSeq
<1>2. \A k \in 1 .. Len(s) : s[k].wr \in Nat /\ s[k].wr <= newest
  BY <1>1 DEF Flit, QueueOK
<1>3. \A k \in 1 .. Len(s) : s[k].wr <= newer
  BY <1>2
<1> QED
  BY <1>3 DEF QueueOK

\* The same for the requests that are counted.
LEMMA CountNewer ==
  ASSUME NEW s, NEW count, NEW aw \in SUBSET Nat, NEW un, NEW newest \in Nat,
         NEW newer \in Nat, newest <= newer, CountOK(s, count, aw, un, newest)
  PROVE  CountOK(s, count, aw, un, newer)
<1>1. \A w \in aw : w \in Nat /\ w <= newest
  BY DEF CountOK
<1>2. \A w \in aw : w <= newer
  BY <1>1
<1> QED
  BY <1>2 DEF CountOK

\* What is known of the flit f that a call reads from port 1.
LEMMA FlitRead ==
  ASSUME SchedInv, MaxBacklog < QueueDepth, feed # << >>,
         Head(feed).sop \/ in_packet_input
  PROVE  LET f == Head(feed) IN
         /\ f \in Flit
         /\ f.wr = nextWr
         /\ f.ini \in Ini
         /\ InputIni(f) = f.ini
         /\ f.fence \/ f.ra => f.sop
         /\ f.sop <=> ~Opens[f.ini]
         /\ \A j \in Ini \ {f.ini} : ~Opens[j]
         /\ IF f.sop THEN Newest = f.wr - 1 ELSE Newest = f.wr
         /\ Len(q[f.ini]) + Len(feed) <= MaxBacklog
         /\ HasRoom(f.ini)
<1> DEFINE f == Head(feed)
<1>1. /\ feed \in Seq(Flit)
      /\ f = feed[1]
      /\ f \in Flit
      /\ Len(feed) \in Nat \ {0}
      /\ nextWr \in Nat
  BY HeadTailProperties, EmptySeq, ConstantsAssumption DEF SchedInv, TypeOK
<1>2. f.ini \in Ini /\ f.sop \in BOOLEAN
  BY <1>1 DEF Flit
<1>3. /\ f.wr = nextWr
      /\ f.fence \/ f.ra => f.sop
  BY <1>1 DEF SchedInv, FeedInv, FeedOK
<1>4. /\ in_packet_input => ~f.sop /\ f.ini = cur_input_ini
      /\ f.sop => ~in_packet_input
      /\ Len(q[f.ini]) + Len(feed) <= MaxBacklog
  BY <1>1, ZenonT(60) DEF SchedInv, FeedInv, FeedOK
<1>5. InputIni(f) = f.ini
  BY <1>4 DEF InputIni
<1>6. /\ f.sop <=> ~Opens[f.ini]
      /\ \A j \in Ini \ {f.ini} : ~Opens[j]
  BY <1>2, <1>4, ZenonT(30) DEF Opens, Open
<1>7. IF f.sop THEN Newest = f.wr - 1 ELSE Newest = f.wr
  BY <1>1, <1>3 DEF Newest
<1>8. Len(q[f.ini]) \in Nat
  BY <1>2 DEF SchedInv, TypeOK
<1>9. HasRoom(f.ini)
  BY <1>1, <1>4, <1>8, ConstantsAssumption DEF HasRoom
<1> QED
  BY <1>1, <1>2, <1>3, <1>4, <1>5, <1>6, <1>7, <1>9, ZenonT(60)

\* Queueing the flit that was read keeps Phase.
LEMMA EnqueuePhase ==
  ASSUME SchedInv, MaxBacklog < QueueDepth, feed # << >>,
         Head(feed).sop \/ in_packet_input,
         NEW outst \in [Ini -> Nat], NEW aw \in [Ini -> SUBSET Nat],
         Phase(q, outst, aw, unanswered, Opens, Newest)
  PROVE  LET f == Head(feed) IN
         Phase(Enqueued(f), outst, aw, Accepted(f),
               [j \in Ini |-> j = f.ini /\ ~f.eop], f.wr)
<1> DEFINE f == Head(feed)
           i == f.ini
           qs == Enqueued(f)
           un == Accepted(f)
           opens == [j \in Ini |-> j = i /\ ~f.eop]
<1>1. /\ f \in Flit
      /\ f.wr = nextWr
      /\ f.ini \in Ini
      /\ InputIni(f) = f.ini
      /\ f.fence \/ f.ra => f.sop
      /\ f.sop <=> ~Opens[f.ini]
      /\ \A j \in Ini \ {f.ini} : ~Opens[j]
      /\ IF f.sop THEN Newest = f.wr - 1 ELSE Newest = f.wr
      /\ Len(q[f.ini]) + Len(feed) <= MaxBacklog
      /\ HasRoom(f.ini)
  BY FlitRead, Zenon
<1>2. f.wr \in Nat /\ f.sop \in BOOLEAN /\ f.eop \in BOOLEAN /\ f.ra \in BOOLEAN
  BY <1>1 DEF Flit
<1>3. /\ q \in [Ini -> Seq(Flit)]
      /\ unanswered \in [Ini -> SUBSET Nat]
      /\ out \in [last : Flit, prev : Flit]
      /\ drain_in_packet => drain_active_ini \in Ini
  BY ZenonT(60) DEF SchedInv, TypeOK
<1>4. Len(feed) \in Nat \ {0}
  BY EmptySeq DEF SchedInv, TypeOK
<1>5. Newest \in Nat /\ Newest <= f.wr /\ (IF f.sop THEN Newest < f.wr ELSE Newest = f.wr)
  <2>1. f.sop => nextWr >= 1
    <3>1. CASE ~f.sop
      BY <3>1
    <3>2. CASE f.sop
      <4>1. out.last.wr <= Newest /\ out.last.wr \in Nat
        BY <1>3, ZenonT(60) DEF Phase, Flit
      <4> QED
        BY <4>1, <3>2, <1>1, <1>2
    <3> QED
      BY <3>1, <3>2
  <2> QED
    BY <2>1, <1>1, <1>2
<1> HIDE DEF f
<1>6. /\ qs = [q EXCEPT ![i] = Append(@, f)]
      /\ un = IF f.ra THEN [unanswered EXCEPT ![i] = @ \cup {f.wr}] ELSE unanswered
  BY <1>1, ZenonT(60) DEF Enqueued, Accepted
<1>7. /\ qs[i] = Append(q[i], f)
      /\ un[i] = IF f.ra THEN unanswered[i] \cup {f.wr} ELSE unanswered[i]
      /\ \A j \in Ini \ {i} : qs[j] = q[j] /\ un[j] = unanswered[j]
  <2> HIDE DEF qs, un
  <2>1. i \in Ini
    BY <1>1
  <2>2. qs[i] = Append(q[i], f) /\ \A j \in Ini \ {i} : qs[j] = q[j]
    BY <2>1, <1>3, <1>6
  <2>3. /\ un[i] = IF f.ra THEN unanswered[i] \cup {f.wr} ELSE unanswered[i]
        /\ \A j \in Ini \ {i} : un[j] = unanswered[j]
    BY <2>1, <1>3, <1>6, ZenonT(30)
  <2> QED
    BY <2>2, <2>3, ZenonT(60)
<1> HIDE DEF qs, un
<1>8. \A j \in Ini :
        /\ QueueOK(j, q[j], drain_active_ini = j, Opens[j], Newest)
        /\ CountOK(q[j], outst[j], aw[j], unanswered[j], Newest)
        /\ Len(q[j]) <= MaxBacklog
        /\ Len(q[j]) \in Nat
        /\ q[j] \in Seq(Flit)
        /\ aw[j] \in SUBSET Nat
        /\ Opens[j] \in BOOLEAN
  BY <1>3 DEF Phase, Opens, Open, SchedInv, TypeOK
<1>9. \A j \in Ini : /\ Len(qs[j]) <= MaxBacklog
                     /\ QueueOK(j, qs[j], drain_active_ini = j, opens[j], f.wr)
                     /\ CountOK(qs[j], outst[j], aw[j], un[j], f.wr)
  <2> TAKE j \in Ini
  <2>0. /\ q[j] \in Seq(Flit)
        /\ Len(q[j]) \in Nat
        /\ Len(q[j]) <= MaxBacklog
        /\ Opens[j] \in BOOLEAN
    BY <1>8
  <2>1. PICK active \in BOOLEAN : active = (drain_active_ini = j)
    BY ZenonT(60)
  <2>2. QueueOK(j, q[j], active, Opens[j], Newest)
    BY <2>1, <1>8
  <2>3. CASE j = i
    <3>1. QueueOK(j, Append(q[j], f), active, ~f.eop, f.wr)
      <4>1. /\ f \in Flit
            /\ f.ini = j
            /\ f.sop <=> ~Opens[j]
            /\ f.fence \/ f.ra => f.sop
        BY <2>3, <1>1
      <4>2. Newest \in Nat /\ (IF f.sop THEN Newest < f.wr ELSE Newest = f.wr)
        BY <1>5, SMTT(30)
      <4> HIDE DEF i
      <4> QED
        BY <4>1, <4>2, <2>0, <2>2, QueueAppend, SMTT(30)
    <3>2. CountOK(Append(q[j], f), outst[j], aw[j],
                  IF f.ra THEN unanswered[j] \cup {f.wr} ELSE unanswered[j], f.wr)
      BY <1>1, <1>5, <1>8, CountAppend, ZenonT(30)
    <3>3. Len(Append(q[j], f)) <= MaxBacklog
      <4>1. f \in Flit
        BY <1>1
      <4>2. Len(Append(q[j], f)) = Len(q[j]) + 1
        BY <4>1, <2>0, SMTT(30)
      <4>3. Len(q[j]) + Len(feed) <= MaxBacklog
        BY <2>3, <1>1, ZenonT(60)
      <4> QED
        BY <4>2, <4>3, <2>0, <1>4, ConstantsAssumption
    <3>4. opens[j] = ~f.eop
      BY <2>3, <1>1, SMTT(30)
    <3> QED
      BY <2>1, <2>3, <3>1, <3>2, <3>3, <3>4, <1>7, ZenonT(30)
  <2>4. CASE j # i
    <3>1. Opens[j] = FALSE /\ opens[j] = FALSE
      BY <2>4, <1>1, <1>8, ZenonT(30)
    <3>2. QueueOK(j, q[j], active, Opens[j], f.wr)
      <4>1. f.wr \in Nat /\ Newest \in Nat /\ Newest <= f.wr
        BY <1>2, <1>5
      <4>2. ~Opens[j]
        BY <3>1, ZenonT(60)
      <4> QED
        BY <4>1, <4>2, <2>0, <2>2, QueueNewer
    <3>3. CountOK(q[j], outst[j], aw[j], unanswered[j], f.wr)
      BY <1>2, <1>5, <1>8, CountNewer, ZenonT(60)
    <3> QED
      BY <2>1, <2>4, <3>1, <3>2, <3>3, <1>7, <1>8, ZenonT(30)
  <2> QED
    BY <2>3, <2>4, ZenonT(60)
<1>10. /\ out.last.wr \in Nat
       /\ out.last.wr <= f.wr
       /\ drain_in_packet <=> ~out.last.eop
       /\ Contiguous
  <2>1. out.last.wr \in Nat /\ out.last.wr <= Newest
    BY <1>3 DEF Phase, Flit
  <2>2. out.last.wr <= f.wr
    BY <2>1, <1>2, <1>5, SMTT(30)
  <2>3. (drain_in_packet <=> ~out.last.eop) /\ Contiguous
    BY DEF Phase
  <2> QED
    BY <2>1, <2>2, <2>3, ZenonT(60)
<1>11. ASSUME drain_in_packet
       PROVE  DrainOK(qs[drain_active_ini], out.last, f.wr)
  <2> DEFINE a == drain_active_ini
  <2>1. a \in Ini /\ DrainOK(q[a], out.last, Newest)
    BY <1>3, <1>11, SMTT(30) DEF Phase
  <2>2. q[a] = << >> => Opens[a]
    BY <2>1, <1>8, ZenonT(60) DEF QueueOK
  <2>3. CASE a = i
    <3>1. CASE q[a] = << >>
      <4>1. qs[a] # << >> /\ qs[a][1] = f
        <5>1. qs[a] = Append(<< >>, f)
          BY <2>3, <3>1, <1>7, ZenonT(60)
        <5> QED
          BY <5>1, <1>1
      <4>2. f.wr = Newest /\ out.last.wr = Newest
        BY <2>1, <2>2, <2>3, <3>1, <1>1, <1>5, ZenonT(60) DEF DrainOK
      <4> QED
        BY <4>1, <4>2, ZenonT(60) DEF DrainOK
    <3>2. CASE q[a] # << >>
      <4>1. qs[a] # << >> /\ qs[a][1] = q[a][1]
        <5>1. q[a] \in Seq(Flit)
          BY <2>1, <1>8, ZenonT(60)
        <5>2. Len(q[a]) >= 1
          BY <5>1, <3>2, EmptySeq, SMTT(30)
        <5>3. qs[a] = Append(q[a], f)
          BY <2>3, <1>7, ZenonT(60)
        <5>4. f \in Flit
          BY <1>1, ZenonT(60)
        <5> HIDE DEF a
        <5> QED
          BY <5>1, <5>2, <5>3, <5>4, SMTT(30)
      <4> QED
        BY <2>1, <3>2, <4>1, ZenonT(60) DEF DrainOK
    <3> QED
      BY <3>1, <3>2, ZenonT(60)
  <2>4. CASE a # i
    BY <2>1, <2>2, <2>4, <1>1, <1>7, ZenonT(60) DEF DrainOK
  <2> QED
    BY <2>3, <2>4, ZenonT(60)
<1>12. ASSUME out.last.sop, out.last.fence, NEW w \in un[out.last.ini]
       PROVE  w >= out.last.wr
  <2>1. out.last.ini \in Ini
    BY <1>3, ZenonT(60) DEF Flit
  <2>2. w \in unanswered[out.last.ini] \/ w = f.wr
    BY <2>1, <1>7, <1>12, SMTT(30)
  <2> QED
    BY <2>2, <1>2, <1>10, <1>12, ZenonT(60) DEF Phase
<1> QED
  BY <1>9, <1>10, <1>11, <1>12, Zenon DEF Phase, f, qs, un

\* While no packet is open, Phase holds for any later request as well.
LEMMA PhaseNewer ==
  ASSUME TypeOK, FeedInv, feed = << >>, NEW newer \in Nat, Newest <= newer,
         Phase(q, outstanding, awaiting, unanswered, Opens, Newest)
  PROVE  Phase(q, outstanding, awaiting, unanswered, Opens, newer)
<1>1. \A j \in Ini : Opens[j] \in BOOLEAN /\ ~Opens[j]
  BY Zenon DEF FeedInv, Opens, Open
<1>2. Newest \in Nat
  BY ConstantsAssumption DEF Newest, TypeOK
<1>3. \A j \in Ini : /\ QueueOK(j, q[j], drain_active_ini = j, Opens[j], newer)
                     /\ CountOK(q[j], outstanding[j], awaiting[j], unanswered[j], newer)
  <2> TAKE j \in Ini
  <2>1. PICK active \in BOOLEAN : active = (drain_active_ini = j)
    BY ZenonT(60)
  <2>2. /\ QueueOK(j, q[j], active, Opens[j], Newest)
        /\ CountOK(q[j], outstanding[j], awaiting[j], unanswered[j], Newest)
        /\ q[j] \in Seq(Flit)
        /\ awaiting[j] \in SUBSET Nat
    BY <2>1, ZenonT(60) DEF Phase, TypeOK
  <2>3. QueueOK(j, q[j], active, Opens[j], newer)
    <3>1. Opens[j] \in BOOLEAN /\ ~Opens[j]
      BY <1>1, ZenonT(60)
    <3>2. q[j] \in Seq(Flit) /\ QueueOK(j, q[j], active, Opens[j], Newest)
      BY <2>2, ZenonT(60)
    <3> QED
      BY <3>1, <3>2, <1>2, QueueNewer
  <2>4. CountOK(q[j], outstanding[j], awaiting[j], unanswered[j], newer)
    BY <2>2, <1>2, CountNewer
  <2> QED
    BY <2>1, <2>3, <2>4, ZenonT(60)
<1>4. out.last.wr <= newer
  <2>1. out.last.wr \in Nat /\ out.last.wr <= Newest
    BY DEF TypeOK, Flit, Phase
  <2> QED
    BY <2>1, <1>2
<1>5. drain_in_packet => DrainOK(q[drain_active_ini], out.last, newer)
  <2> HAVE drain_in_packet
  <2> DEFINE a == drain_active_ini
  <2>1. a \in Ini /\ DrainOK(q[a], out.last, Newest)
    BY SMTT(30) DEF TypeOK, Phase
  <2>2. QueueOK(a, q[a], TRUE, Opens[a], Newest)
    BY <2>1, Zenon DEF Phase
  <2>3. q[a] # << >>
    BY <2>1, <2>2, <1>1, ZenonT(60) DEF QueueOK
  <2> QED
    BY <2>1, <2>3 DEF DrainOK
<1> QED
  BY <1>3, <1>4, <1>5, Zenon DEF Phase

\* The drain never makes a queue longer.
LEMMA DrainLen ==
  ASSUME TypeOK, NEW qs \in [Ini -> Seq(Flit)], NEW outst, NEW aw,
         Drain(qs, outst, aw), NEW j \in Ini
  PROVE  Len(q'[j]) <= Len(qs[j])
<1>1. ASSUME NEW i \in Ini, qs[i] # << >>, Emit(i, qs, outst, aw)
      PROVE  Len(q'[j]) <= Len(qs[j])
  <2>1. /\ Len(Tail(qs[i])) = Len(qs[i]) - 1
        /\ Len(qs[i]) \in Nat
        /\ Len(qs[j]) \in Nat
    BY <1>1, HeadTailProperties
  <2>2. q'[j] = IF i = j THEN Tail(qs[i]) ELSE qs[j]
    BY <1>1 DEF Emit
  <2> QED
    BY <2>1, <2>2
<1>2. Hold(qs, outst, aw) => Len(q'[j]) <= Len(qs[j])
  <2>1. Len(qs[j]) \in Nat
    OBVIOUS
  <2> QED
    BY <2>1 DEF Hold
<1>3. rr_cursor \in Ini /\ (drain_in_packet => drain_active_ini \in Ini)
  BY DEF TypeOK
<1> QED
  BY <1>1, <1>2, <1>3 DEF Drain, Eligible

\* The rest of a request after its first flit.
LEMMA FeedTail ==
  ASSUME NEW s \in Seq(Flit), s # << >>, NEW w, FeedOK(s, w)
  PROVE  /\ FeedOK(Tail(s), w)
         /\ Len(Tail(s)) = Len(s) - 1
         /\ Tail(s) = << >> <=> s[1].eop
         /\ Tail(s) # << >> => ~Tail(s)[1].sop /\ Tail(s)[1].ini = s[1].ini
<1> DEFINE t == Tail(s)
<1>1. /\ t \in Seq(Flit)
      /\ Len(t) = Len(s) - 1
      /\ Len(s) \in Nat \ {0}
      /\ \A k \in 1 .. Len(t) : t[k] = s[k + 1]
      /\ t = << >> <=> Len(t) = 0
      /\ s[1] \in Flit
  <2>1. /\ t \in Seq(Flit)
        /\ Len(t) = Len(s) - 1
        /\ \A k \in 1 .. Len(t) : t[k] = s[k + 1]
    BY HeadTailProperties
  <2>2. Len(s) \in Nat \ {0} /\ s[1] \in Flit
    BY EmptySeq, ElementOfSeq
  <2>3. t = << >> <=> Len(t) = 0
    BY <2>1, EmptySeq, ZenonT(60)
  <2> HIDE DEF t
  <2> QED
    BY <2>1, <2>2, <2>3
<1> HIDE DEF t
<1>2. \A k \in 1 .. Len(t) : /\ k + 1 \in 1 .. Len(s)
                             /\ k + 1 # 1
                             /\ (k + 1 = Len(s)) <=> (k = Len(t))
  BY <1>1
<1>3. t # << >> => 1 \in 1 .. Len(t)
  BY <1>1
<1>4. \A k \in 1 .. Len(t) : t[k].ini = s[1].ini /\ ~t[k].sop
  <2> TAKE k \in 1 .. Len(t)
  <2>1. s[k + 1].ini = s[1].ini /\ ~s[k + 1].sop
    BY <1>2 DEF FeedOK
  <2> QED
    BY <2>1, <1>1
<1>5. FeedOK(t, w)
  <2> SUFFICES ASSUME NEW k \in 1 .. Len(t)
               PROVE  /\ t[k].wr = w
                      /\ t[k].ini = t[1].ini
                      /\ t[k].eop <=> k = Len(t)
                      /\ t[k].sop => k = 1
                      /\ t[k].fence \/ t[k].ra => t[k].sop
    BY DEF FeedOK
  <2>1. 1 \in 1 .. Len(t)
    BY <1>1
  <2>2. t[k].ini = t[1].ini /\ ~t[k].sop
    BY <2>1, <1>4
  <2>3. /\ s[k + 1].wr = w
        /\ s[k + 1].eop <=> k + 1 = Len(s)
        /\ s[k + 1].fence \/ s[k + 1].ra => s[k + 1].sop
    BY <1>2 DEF FeedOK
  <2> QED
    BY <2>2, <2>3, <1>1, <1>2, ZenonT(60)
<1>6. t = << >> <=> s[1].eop
  <2>1. 1 \in 1 .. Len(s) /\ (t = << >> <=> 1 = Len(s))
    BY <1>1
  <2> QED
    BY <2>1, ZenonT(30) DEF FeedOK
<1> QED
  BY <1>1, <1>3, <1>4, <1>5, <1>6, ZenonT(60) DEF t

\* Posting a request keeps the invariant: the queue has room for its flits.
LEMMA PostInv ==
  ASSUME SchedInv, TypeOK', NEW i \in Ini, NEW n \in 1 .. MaxFlits,
         NEW fence \in BOOLEAN, NEW ra \in BOOLEAN, NEW valid \in BOOLEAN,
         HostPost(i, n, fence, ra, valid)
  PROVE  SchedInv'
<1> DEFINE s == WrFlits(nextWr', i, n, fence, ra)
<1>1. /\ feed = << >>
      /\ nextWr \in Nat
      /\ nextWr' = nextWr + 1
      /\ n \in Nat \ {0}
      /\ Len(q[i]) \in Nat
      /\ Len(q[i]) + n <= MaxBacklog
      /\ q' = q
      /\ ~in_packet_input
      /\ in_packet_input' = in_packet_input
      /\ cur_input_ini' = cur_input_ini
  BY ConstantsAssumption, SMTT(30) DEF HostPost, SchedInv, TypeOK, FeedInv, inputVars
<1>2. s \in Seq(Flit) /\ Len(s) = n /\ s # << >>
  BY <1>1, WrFlitsType
<1>3. FeedOK(s, nextWr') /\ s[1].ini = i /\ s[1].sop
  <2>1. \A k \in 1 .. n : s[k] = [wr |-> nextWr', ini |-> i, sop |-> k = 1,
                                  eop |-> k = n, fence |-> fence /\ k = 1,
                                  ra |-> ra /\ k = 1]
    BY DEF WrFlits
  <2>2. 1 \in 1 .. n
    BY <1>1
  <2> HIDE DEF s
  <2>3. \A k \in 1 .. n : /\ s[k].wr = nextWr'
                          /\ s[k].ini = i
                          /\ s[k].sop <=> k = 1
                          /\ s[k].eop <=> k = n
                          /\ s[k].fence => k = 1
                          /\ s[k].ra => k = 1
    <3> TAKE k \in 1 .. n
    <3>1. PICK first, last, fnc, rdat \in BOOLEAN :
            /\ first = (k = 1)
            /\ last = (k = n)
            /\ fnc = (fence /\ k = 1)
            /\ rdat = (ra /\ k = 1)
      BY ZenonT(30)
    <3>2. s[k] = [wr |-> nextWr', ini |-> i, sop |-> first, eop |-> last,
                  fence |-> fnc, ra |-> rdat]
      BY <2>1, <3>1, ZenonT(60)
    <3>3. /\ s[k].wr = nextWr'
          /\ s[k].ini = i
          /\ s[k].sop = first
          /\ s[k].eop = last
          /\ s[k].fence = fnc
          /\ s[k].ra = rdat
      BY <3>2
    <3> QED
      BY <3>1, <3>3, ZenonT(60)
  <2> QED
    BY <2>2, <2>3, <1>2, ZenonT(60) DEF FeedOK
<1>4. feed' = IF valid THEN s ELSE Tail(s)
  BY DEF HostPost, Doorbell
<1> HIDE DEF s
<1>5. /\ FeedOK(Tail(s), nextWr')
      /\ Len(Tail(s)) = n - 1
      /\ Tail(s) # << >> => ~Tail(s)[1].sop /\ Tail(s)[1].ini = i
  BY <1>2, <1>3, FeedTail, ZenonT(60)
<1>6. FeedInv'
  <2>1. FeedOK(feed', nextWr')
    BY <1>3, <1>4, <1>5
  <2>2. feed' # << >> => Len(q'[feed'[1].ini]) + Len(feed') <= MaxBacklog
    <3>1. Len(q[i]) + (n - 1) <= MaxBacklog
      BY <1>1, ConstantsAssumption
    <3>2. CASE valid
      BY <3>2, <1>1, <1>2, <1>3, <1>4, ZenonT(60)
    <3>3. CASE ~valid
      BY <3>1, <3>3, <1>1, <1>4, <1>5, ZenonT(60)
    <3> QED
      BY <3>2, <3>3
  <2> QED
    BY <2>1, <2>2, <1>1, ZenonT(60) DEF FeedInv
<1>7. Newest = nextWr /\ Newest' \in Nat /\ Newest <= Newest'
  BY <1>1 DEF Newest
<1>8. Phase(q, outstanding, awaiting, unanswered, Opens, Newest)
  BY PhaseIsInv
<1>9. TypeOK /\ FeedInv
  BY DEF SchedInv
<1>10. PICK newer \in Nat : newer = Newest'
  BY <1>7
<1>11. Phase(q, outstanding, awaiting, unanswered, Opens, newer)
  BY <1>1, <1>7, <1>8, <1>9, <1>10, PhaseNewer, ZenonT(60)
<1>12. Opens' = Opens
  BY <1>1, SMTT(30) DEF Opens, Open
<1>13. Phase(q, outstanding, awaiting, unanswered, Opens, Newest)'
  BY <1>10, <1>11, <1>12, Zenon DEF Phase, HostPost, Contiguous, drainVars
<1> QED
  BY <1>6, <1>13, ZenonT(60)
  DEF SchedInv, Phase, QueueInv, CountInv, DrainInv, FenceSafe, Opens

\* A response only takes a request out of the unanswered ones.
LEMMA RespondInv ==
  ASSUME SchedInv, TypeOK', NEW i \in Ini, Respond(i)
  PROVE  SchedInv'
<1>1. PICK w : unanswered' = [unanswered EXCEPT ![i] = @ \ {w}]
  BY Zenon DEF Respond
<1>2. \A j \in Ini : unanswered'[j] \subseteq unanswered[j]
  BY <1>1 DEF SchedInv, TypeOK
<1>3. UNCHANGED <<feed, nextWr, cur_input_ini, in_packet_input, rr_cursor,
                  drain_active_ini, drain_in_packet, out, q, outstanding, awaiting>>
  BY DEF Respond, hostVars, inputVars, drainVars
<1>4. FeedInv' /\ DrainInv' /\ Contiguous' /\ QueueInv'
  BY <1>3, ZenonT(30) DEF SchedInv, FeedInv, DrainInv, Contiguous, QueueInv, Newest, Open
<1>5. CountInv'
  <2>1. ASSUME NEW j \in Ini
        PROVE  CountOK(q[j], outstanding[j], awaiting[j], unanswered'[j], Newest)
    BY <1>2 DEF SchedInv, CountInv, CountOK
  <2>2. Newest' = Newest
    BY <1>3, ZenonT(60) DEF Newest
  <2> QED
    BY <2>1, <2>2, <1>3, ZenonT(30) DEF CountInv
<1>6. FenceSafe'
  <2>1. out.last.ini \in Ini
    BY SMTT(30) DEF SchedInv, TypeOK, Flit
  <2> QED
    BY <2>1, <1>2, <1>3, ZenonT(60) DEF SchedInv, FenceSafe
<1> QED
  BY <1>4, <1>5, <1>6 DEF SchedInv

\* The three parts of the invariant after a step put it together again.
LEMMA InvFromPhase ==
  ASSUME TypeOK', FeedInv',
         Phase(q, outstanding, awaiting, unanswered, Opens, Newest)'
  PROVE  SchedInv'
BY Zenon DEF SchedInv, Phase, QueueInv, CountInv, DrainInv, FenceSafe, Opens

\* The flit at the front of port 1.
LEMMA FeedHead ==
  ASSUME TypeOK, feed # << >>
  PROVE  /\ feed[1] \in Flit
         /\ feed[1].ini \in Ini
         /\ Len(feed) \in Nat \ {0}
         /\ Len(q[feed[1].ini]) \in Nat
<1>1. feed[1] \in Flit /\ Len(feed) \in Nat \ {0}
  BY HeadTailProperties, EmptySeq DEF TypeOK
<1>2. feed[1].ini \in Ini
  BY <1>1 DEF Flit
<1> QED
  BY <1>1, <1>2 DEF TypeOK

\* A call that finds port 1 empty keeps the invariant.
LEMMA IdleInv ==
  ASSUME SchedInv, TypeOK', NEW n, IsNotification(n), SchedIdle(n)
  PROVE  SchedInv'
<1>1. TypeOK /\ FeedInv
  BY DEF SchedInv
<1>2. n = NoNotify \/ n.ini \in Ini
  BY NotificationIni DEF IsNotification
<1>3. /\ Notified(n) \in [Ini -> Nat]
      /\ Awaited(n) \in [Ini -> SUBSET Nat]
      /\ Phase(q, Notified(n), Awaited(n), unanswered, Opens, Newest)
  BY <1>1, <1>2, NotifiedType, AwaitedType, NotifyPhase
<1>4. /\ UNCHANGED <<feed, nextWr, cur_input_ini, in_packet_input, unanswered>>
      /\ Drain(q, Notified(n), Awaited(n))
  BY DEF SchedIdle, hostVars, inputVars
<1>5. PICK outst \in [Ini -> Nat], aw \in [Ini -> SUBSET Nat],
           un \in [Ini -> SUBSET Nat], open \in [Ini -> BOOLEAN], newest \in Nat,
           qs \in [Ini -> Seq(Flit)] :
         /\ outst = Notified(n)
         /\ aw = Awaited(n)
         /\ un = unanswered
         /\ open = Opens
         /\ newest = Newest
         /\ qs = q
  <2>1. Opens \in [Ini -> BOOLEAN] /\ Newest \in Nat
    <3>1. nextWr \in Nat /\ in_packet_input \in BOOLEAN
      BY <1>1, ConstantsAssumption DEF TypeOK
    <3>2. Newest \in Nat
      <4>1. CASE feed # << >> /\ feed[1].sop
        <5>1. out.last.wr \in Nat /\ out.last.wr <= Newest
          BY <1>1, <1>3 DEF Phase, TypeOK, Flit
        <5> QED
          BY <5>1, <4>1, <3>1, SMTT(30) DEF Newest
      <4>2. CASE ~(feed # << >> /\ feed[1].sop)
        BY <4>2, <3>1, ZenonT(60) DEF Newest
      <4> QED
        BY <4>1, <4>2
    <3> QED
      BY <3>1, <3>2 DEF Opens, Open
  <2> QED
    BY <2>1, <1>1, <1>3, Zenon DEF TypeOK
<1>6. Phase(qs, outst, aw, un, open, newest) /\ Drain(qs, outst, aw)
  BY <1>3, <1>4, <1>5
<1>7. Phase(q, outstanding, awaiting, un, open, newest)'
  BY <1>1, <1>6, DrainPhase, ZenonT(60)
<1>8. Opens' = Opens /\ Newest' = Newest
  BY <1>4 DEF Opens, Open, Newest
<1>9. Phase(q, outstanding, awaiting, unanswered, Opens, Newest)'
  BY <1>4, <1>5, <1>7, <1>8, ZenonT(30) DEF Phase
<1>10. FeedInv'
  <2>1. feed # << >> => feed[1].ini \in Ini
    BY <1>1, FeedHead
  <2>2. feed # << >> => Len(q'[feed[1].ini]) <= Len(q[feed[1].ini])
    BY <1>1, <1>4, <1>5, <2>1, DrainLen, ZenonT(60)
  <2>3. feed # << >> => /\ Len(q'[feed[1].ini]) \in Nat
                        /\ Len(q[feed[1].ini]) \in Nat
                        /\ Len(feed) \in Nat
    <3>1. q' \in [Ini -> Seq(Flit)]
      BY DEF TypeOK
    <3> QED
      BY <3>1, <1>1, <2>1, FeedHead
  <2>4. FeedInv
    BY <1>1
  <2>5. feed # << >> => Len(q'[feed[1].ini]) + Len(feed) <= MaxBacklog
    BY <2>2, <2>3, <2>4, ConstantsAssumption DEF FeedInv
  <2> QED
    BY <2>4, <2>5, <1>4 DEF FeedInv, FeedOK
<1> QED
  BY <1>9, <1>10, InvFromPhase

\* A call that drops a stray flit keeps the invariant.
LEMMA StrayInv ==
  ASSUME SchedInv, TypeOK', NEW n, IsNotification(n), SchedStray(n)
  PROVE  SchedInv'
<1>1. TypeOK /\ FeedInv
  BY DEF SchedInv
<1>2. Phase(q, Notified(n), Awaited(n), unanswered, Opens, Newest)
  BY NotifyPhase, ZenonT(60)
<1>3. /\ feed # << >> /\ feed \in Seq(Flit) /\ feed' = Tail(feed)
      /\ Head(feed) = feed[1]
      /\ ~feed[1].sop /\ ~in_packet_input
      /\ outstanding' = Notified(n) /\ awaiting' = Awaited(n)
      /\ UNCHANGED <<nextWr, cur_input_ini, in_packet_input, rr_cursor,
                     drain_active_ini, drain_in_packet, out, q, unanswered>>
  BY <1>1, SMTT(30) DEF SchedStray, inputVars, drainVars, TypeOK
<1>4. /\ FeedOK(Tail(feed), nextWr)
      /\ Len(Tail(feed)) = Len(feed) - 1
      /\ Tail(feed) # << >> => ~Tail(feed)[1].sop /\ Tail(feed)[1].ini = feed[1].ini
  BY <1>1, <1>3, FeedTail, ZenonT(60) DEF FeedInv
<1>5. Opens' = Opens /\ Newest' = Newest
  BY <1>3, <1>4, SMTT(30) DEF Opens, Open, Newest
<1>6. Phase(q, outstanding, awaiting, unanswered, Opens, Newest)'
  BY <1>2, <1>3, <1>5, ZenonT(30) DEF Phase, Contiguous
<1>7. FeedInv'
  <2>1. Len(q[feed[1].ini]) \in Nat /\ Len(feed) \in Nat
    BY <1>1, <1>3, FeedHead, ZenonT(60)
  <2>2. Len(q[feed[1].ini]) + (Len(feed) - 1) <= MaxBacklog
    BY <2>1, <1>1, <1>3, ConstantsAssumption DEF FeedInv
  <2> QED
    BY <2>2, <1>3, <1>4, ZenonT(30) DEF FeedInv
<1> QED
  BY <1>6, <1>7, InvFromPhase, SMTT(30)

\* A call that queues a flit and drains keeps the invariant.
LEMMA FlitInv ==
  ASSUME SchedInv, TypeOK', MaxBacklog < QueueDepth,
         NEW n, IsNotification(n), SchedFlit(n)
  PROVE  SchedInv'
<1> DEFINE f == Head(feed)
           opens == [j \in Ini |-> j = f.ini /\ ~f.eop]
<1>1. TypeOK /\ FeedInv
  BY DEF SchedInv
<1>2. n = NoNotify \/ n.ini \in Ini
  BY NotificationIni, SMTT(30) DEF IsNotification
<1>3. /\ Notified(n) \in [Ini -> Nat]
      /\ Awaited(n) \in [Ini -> SUBSET Nat]
      /\ Phase(q, Notified(n), Awaited(n), unanswered, Opens, Newest)
  BY <1>1, <1>2, NotifiedType, AwaitedType, NotifyPhase, ZenonT(60)
<1>4. /\ feed # << >>
      /\ f.sop \/ in_packet_input
      /\ feed' = Tail(feed)
      /\ cur_input_ini' = InputIni(f)
      /\ in_packet_input' = ~f.eop
      /\ unanswered' = Accepted(f)
      /\ nextWr' = nextWr
      /\ Drain(Enqueued(f), Notified(n), Awaited(n))
  BY ZenonT(60) DEF SchedFlit
<1>5. /\ f \in Flit
      /\ f.wr = nextWr
      /\ f.ini \in Ini
      /\ InputIni(f) = f.ini
      /\ Len(q[f.ini]) + Len(feed) <= MaxBacklog
      /\ HasRoom(f.ini)
  BY <1>4, FlitRead, SMTT(30)
<1>6. Phase(Enqueued(f), Notified(n), Awaited(n), Accepted(f), opens, f.wr)
  BY <1>3, <1>4, EnqueuePhase, ZenonT(30)
<1>7. /\ Enqueued(f) \in [Ini -> Seq(Flit)]
      /\ f = feed[1]
      /\ f.wr \in Nat
      /\ f.eop \in BOOLEAN
      /\ Accepted(f) \in [Ini -> SUBSET Nat]
      /\ opens \in [Ini -> BOOLEAN]
  <2>1. Accepted(f) \in [Ini -> SUBSET Nat]
    BY <1>4, ZenonT(60) DEF TypeOK
  <2>2. f = feed[1]
    BY <1>1, <1>4 DEF TypeOK
  <2> HIDE DEF f
  <2>3. Enqueued(f) \in [Ini -> Seq(Flit)]
    BY <1>1, <1>5, EnqueuedType, ZenonT(60)
  <2>4. f.wr \in Nat /\ f.eop \in BOOLEAN
    BY <1>5, SMTT(30) DEF Flit
  <2> QED
    BY <2>1, <2>2, <2>3, <2>4, ZenonT(60)
<1> HIDE DEF f, opens
<1>8. PICK outst \in [Ini -> Nat], aw \in [Ini -> SUBSET Nat],
           un \in [Ini -> SUBSET Nat], open \in [Ini -> BOOLEAN], newest \in Nat,
           qs \in [Ini -> Seq(Flit)] :
         /\ outst = Notified(n)
         /\ aw = Awaited(n)
         /\ un = Accepted(f)
         /\ open = opens
         /\ newest = f.wr
         /\ qs = Enqueued(f)
  BY <1>3, <1>7, ZenonT(30)
<1>9. Phase(qs, outst, aw, un, open, newest) /\ Drain(qs, outst, aw)
  BY <1>4, <1>6, <1>8, SMTT(30)
<1>10. Phase(q, outstanding, awaiting, un, open, newest)'
  BY <1>1, <1>9, DrainPhase, ZenonT(30)
<1>11. /\ FeedOK(Tail(feed), nextWr)
       /\ Len(Tail(feed)) = Len(feed) - 1
       /\ Tail(feed) = << >> <=> f.eop
       /\ Tail(feed) # << >> => ~Tail(feed)[1].sop /\ Tail(feed)[1].ini = f.ini
  BY <1>1, <1>4, <1>7, FeedTail, ZenonT(60) DEF FeedInv, TypeOK
<1>12. Opens' = opens
  BY <1>4, <1>5, <1>7, ZenonT(30) DEF Opens, Open, opens
<1>13. Newest' = f.wr
  BY <1>4, <1>5, <1>11, ZenonT(30) DEF Newest
<1>14. Phase(q, outstanding, awaiting, unanswered, Opens, Newest)'
  BY <1>4, <1>8, <1>10, <1>12, <1>13, ZenonT(30) DEF Phase
<1>15. FeedInv'
  <2>1. Len(q'[f.ini]) <= Len(Enqueued(f)[f.ini])
    BY <1>1, <1>5, <1>8, <1>9, DrainLen, ZenonT(60)
  <2>2. /\ Len(Enqueued(f)[f.ini]) = Len(q[f.ini]) + 1
        /\ Len(q[f.ini]) \in Nat
        /\ Len(q'[f.ini]) \in Nat
    <3>1. q[f.ini] \in Seq(Flit) /\ q'[f.ini] \in Seq(Flit)
      BY <1>1, <1>5, ZenonT(60) DEF TypeOK
    <3>2. Enqueued(f)[f.ini] = Append(q[f.ini], f)
      BY <1>1, <1>5, ZenonT(60) DEF Enqueued, TypeOK
    <3>3. \A s \in Seq(Flit) : Len(Append(s, f)) = Len(s) + 1 /\ Len(s) \in Nat
      BY <1>5
    <3> QED
      BY <3>1, <3>2, <3>3, ZenonT(60)
  <2>3. Len(feed) \in Nat
    BY <1>1, <1>4, FeedHead, ZenonT(60)
  <2>4. Len(q'[f.ini]) + (Len(feed) - 1) <= MaxBacklog
    BY <2>1, <2>2, <2>3, <1>5, ConstantsAssumption, SMTT(30)
  <2> QED
    BY <2>4, <1>4, <1>5, <1>11, ZenonT(30) DEF FeedInv
<1> QED
  BY <1>14, <1>15, InvFromPhase

\* The invariant holds initially.
LEMMA InitInv == Init => SchedInv
<1> SUFFICES ASSUME Init PROVE SchedInv
  OBVIOUS
<1>1. TypeOK
  BY InitType, ZenonT(60)
<1>2. FeedInv
  BY SMTT(30) DEF Init, FeedInv, FeedOK
<1>3. QueueInv
  BY ConstantsAssumption, SMTT(30) DEF Init, QueueInv, QueueOK, Open, None, Ini
<1>4. DrainInv
  BY DEF Init, DrainInv, NoFlit, Newest
<1>5. CountInv
  BY FS_EmptySet, ZenonT(60) DEF Init, CountInv, CountOK
<1>6. FenceSafe /\ Contiguous
  BY DEF Init, FenceSafe, Contiguous, NoFlit
<1> QED
  BY <1>1, <1>2, <1>3, <1>4, <1>5, <1>6 DEF SchedInv

\* The invariant behind the scheduler's promises holds for every number of
\* initiators, queue depth and packet length, provided that the host never
\* leaves more flits undrained than a queue can hold.
THEOREM SchedCorrect ==
  ASSUME MaxBacklog < QueueDepth
  PROVE  Spec => []SchedInv
<1>1. Init => SchedInv
  BY InitInv
<1>2. ASSUME SchedInv, TypeOK', [Next]_vars
      PROVE  SchedInv'
  <2>1. CASE UNCHANGED vars
    BY <2>1, <1>2, ZenonT(30) DEF SchedInv, FeedInv, QueueInv, DrainInv, CountInv, FenceSafe,
       Contiguous, Newest, Open, vars, hostVars, inputVars, drainVars
  <2>2. CASE Host
    BY <2>2, <1>2, PostInv DEF Host
  <2>3. ASSUME NEW i \in Ini, Respond(i)
        PROVE  SchedInv'
    BY <2>3, <1>2, RespondInv
  <2>4. ASSUME NEW n, IsNotification(n), Handler(n)
        PROVE  SchedInv'
    BY <2>4, <1>2, IdleInv, FlitInv, StrayInv DEF Handler
  <2> QED
    BY <1>2, <2>1, <2>2, <2>3, <2>4, ZenonT(60) DEF Next, ReadsNotification, IsNotification
<1> QED
  BY <1>1, <1>2, TypeCorrect, PTL DEF Spec

\* A fenced request leaves the scheduler only when every Read and Atomic its
\* initiator posted before it has been answered.
THEOREM FenceHolds ==
  ASSUME MaxBacklog < QueueDepth
  PROVE  Spec => []FenceSafe
<1>1. SchedInv => FenceSafe
  BY DEF SchedInv
<1> QED
  BY <1>1, SchedCorrect, PTL

\* Packets leave the scheduler whole: sop to eop, back to back.
THEOREM PacketsWhole ==
  ASSUME MaxBacklog < QueueDepth
  PROVE  Spec => []Contiguous
<1>1. SchedInv => Contiguous
  BY ZenonT(60) DEF SchedInv
<1> QED
  BY <1>1, SchedCorrect, PTL

\* The head of a queue that is not being drained starts a packet, as the
\* comment in the round robin pick expects.
THEOREM HeadsStartPackets ==
  ASSUME MaxBacklog < QueueDepth
  PROVE  Spec => []HeadIsSop
<1>1. SchedInv => HeadIsSop
  <2> SUFFICES ASSUME SchedInv, NEW i \in Ini, q[i] # << >>, drain_active_ini # i
               PROVE  Head(q[i]).sop
    BY ZenonT(60) DEF HeadIsSop
  <2>1. QueueOK(i, q[i], drain_active_ini = i, Open(i), Newest)
    BY ZenonT(60) DEF SchedInv, QueueInv
  <2>2. q[i][1].sop
    BY <2>1 DEF QueueOK
  <2>3. Head(q[i]) = q[i][1]
    BY DEF SchedInv, TypeOK
  <2> QED
    BY <2>2, <2>3, ZenonT(60)
<1> QED
  BY <1>1, SchedCorrect, PTL
=============================================================================
