---------------------------- MODULE OrderIniProofs ----------------------------
(***************************************************************************)
(* Proofs about OrderIni, for any number of initiators, any queue size and *)
(* any number of requests.                                                 *)
(***************************************************************************)
EXTENDS OrderIni, FiniteSetTheorems, TLAPS

\* The limit of a leaf that names no prover.
USE SMTT(60)

-----------------------------------------------------------------------------
(* The inductive invariant.  Its parts take the state as parameters, so    *)
(* that they can also be stated of the state inside a call, between the    *)
(* input and the drain.                                                    *)

Flit == [wr : Nat, k : Nat]
Before(f, g) == f.wr < g.wr \/ (f.wr = g.wr /\ f.k < g.k)
Following(f) == [wr |-> f.wr, k |-> f.k + 1]

\* Queue s of initiator i holds flits of its SO requests, packet by packet: the
\* first is the next one of its request, and a sop is of a request that was
\* not started.
QueueOK(i, s, snt) ==
  /\ s \in Seq(Flit)
  /\ \A j \in 1 .. Len(s) :
       /\ s[j].wr \in DOMAIN reqs /\ reqs[s[j].wr].ini = i /\ reqs[s[j].wr].exec = "SO"
       /\ s[j].k \in 1 .. reqs[s[j].wr].len
       /\ j = 1 \/ s[j].k = 1 => snt[s[j].wr] = s[j].k - 1
       /\ \A m \in 1 .. Len(s) : j < m => Before(s[j], s[m])
  /\ \A j \in 1 .. Len(s) - 1 : IF Eop(s[j]) THEN s[j + 1].k = 1 ELSE s[j + 1] = Following(s[j])

\* A queue that ends in the middle of a packet is the one the input goes on with.
LastOK(i, s, fd, inp, pass, cini) ==
  /\ s # << >> /\ ~Eop(s[Len(s)]) => inp /\ ~pass /\ cini = i
  /\ inp /\ ~pass /\ cini = i =>
       IF s = << >> THEN sent[fd[1].wr] = fd[1].k - 1 ELSE fd[1] = Following(s[Len(s)])

\* What is left on port 1 is the rest of the newest request.
FeedOK(fd, inp, pass, cini, qs) ==
  LET w == Len(reqs)
      r == reqs[Len(reqs)] IN
  /\ inp => fd # << >>
  /\ fd # << >> =>
       /\ w > 0 /\ Len(fd) <= r.len /\ fd \in Seq(Flit)
       /\ \A j \in 1 .. Len(fd) : fd[j] = [wr |-> w, k |-> r.len - Len(fd) + j]
       /\ inp <=> Len(fd) < r.len
       /\ inp => cini = r.ini
       /\ inp /\ ~pass => r.exec = "SO"
       /\ ~inp \/ pass => /\ sent[w] = r.len - Len(fd)
                          /\ \A i \in Ini : \A j \in 1 .. Len(qs[i]) : qs[i][j].wr # w
       /\ \A i \in Ini : \A j \in 1 .. Len(qs[i]) : Before(qs[i][j], fd[1])
       /\ Len(qs[r.ini]) + Len(fd) <= MaxBacklog

\* In the middle of a packet the drain finds the rest of it next, if anything.
DrainOK(fd, inp, pass, cini, qs) ==
  drain_in_packet =>
    /\ drain_active_ini \in Ini
    /\ IF qs[drain_active_ini] = << >>
       THEN inp /\ ~pass /\ cini = drain_active_ini
       ELSE qs[drain_active_ini][1].k # 1

\* The counters count the requests whose notification is unread, and these are
\* all the ordered requests that were issued and not answered.
CountOK(outst, aw) ==
  /\ \A i \in Ini : /\ \A w \in aw[i] : w \in DOMAIN reqs /\ reqs[w].ini = i /\ sent[w] > 0
                    /\ outst[i] = Cardinality(aw[i])
  /\ \A w \in DOMAIN reqs : Ordered(w) /\ sent[w] > 0 => w \in aw[reqs[w].ini] \cup done

TypeOK ==
  /\ reqs \in Seq(Request) /\ Len(reqs) <= MaxWrs
  /\ feed \in Seq(Flit)
  /\ q \in [Ini -> Seq(Flit)]
  /\ outstanding \in [Ini -> Nat]
  /\ rr_cursor \in Ini
  /\ in_packet_input \in BOOLEAN
  /\ cur_input_passthrough \in BOOLEAN
  /\ cur_input_ini \in Ini
  /\ drain_in_packet \in BOOLEAN
  /\ out \in Flit /\ (out # NoFlit => out.wr \in DOMAIN reqs)
  /\ sent \in [1 .. MaxWrs -> Nat]
  /\ \A w \in 1 .. MaxWrs : w > Len(reqs) => sent[w] = 0
  /\ done \subseteq DOMAIN reqs
  /\ awaiting \in [Ini -> SUBSET Nat]

\* The state of a call once its input is taken and before it drains.
Tracked(fd, inp, pass, cini, qs, outst, aw) ==
  /\ \A i \in Ini : QueueOK(i, qs[i], sent)
  /\ \A i \in Ini : LastOK(i, qs[i], fd, inp, pass, cini)
  /\ FeedOK(fd, inp, pass, cini, qs)
  /\ DrainOK(fd, inp, pass, cini, qs)
  /\ CountOK(outst, aw)

Inv ==
  /\ TypeOK
  /\ Tracked(feed, in_packet_input, cur_input_passthrough, cur_input_ini, q, outstanding, awaiting)
  /\ SoAlone

-----------------------------------------------------------------------------
(* Steps that change nothing the invariant is about.                       *)

\* The order of a queue does not depend on the step that was taken.
LEMMA QueueSame ==
  ASSUME NEW j, QueueOK(j, q'[j], sent'), reqs' = reqs
  PROVE  QueueOK(j, q[j], sent)'
BY DEF QueueOK, Eop

\* An answer only makes the set of answered requests larger, and a stuttering
\* step does not even do that.
LEMMA SameOK ==
  ASSUME Inv, done \subseteq done', done' \subseteq DOMAIN reqs,
         UNCHANGED <<reqs, feed, q, outstanding, in_packet_input, cur_input_passthrough,
                     cur_input_ini, rr_cursor, drain_active_ini, drain_in_packet, out, sent,
                     awaiting>>
  PROVE  Inv'
<1>1. /\ TypeOK /\ SoAlone
      /\ FeedOK(feed, in_packet_input, cur_input_passthrough, cur_input_ini, q)
      /\ DrainOK(feed, in_packet_input, cur_input_passthrough, cur_input_ini, q)
      /\ CountOK(outstanding, awaiting)
      /\ \A j \in Ini : /\ QueueOK(j, q[j], sent)
                        /\ LastOK(j, q[j], feed, in_packet_input, cur_input_passthrough,
                                  cur_input_ini)
  BY Zenon DEF Inv, Tracked
<1>2. TypeOK'
  BY <1>1 DEF TypeOK
<1>3. SoAlone'
  BY <1>1 DEF SoAlone, StartsSO, Sop, Ordered
<1>4. ASSUME NEW j \in Ini PROVE QueueOK(j, q[j], sent)'
  <2>1. QueueOK(j, q'[j], sent')
    BY <1>1, ZenonT(60)
  <2> QED
    BY <2>1, QueueSame, Zenon
<1>5. ASSUME NEW j \in Ini
      PROVE  LastOK(j, q[j], feed, in_packet_input, cur_input_passthrough, cur_input_ini)'
  BY <1>1, ZenonT(60) DEF LastOK, Eop
<1>6. FeedOK(feed, in_packet_input, cur_input_passthrough, cur_input_ini, q)'
  BY <1>1 DEF FeedOK
<1>7. DrainOK(feed, in_packet_input, cur_input_passthrough, cur_input_ini, q)'
  BY <1>1 DEF DrainOK
<1>8. CountOK(outstanding, awaiting)'
  BY <1>1 DEF CountOK, Ordered
<1> QED
  BY <1>2, <1>3, <1>4, <1>5, <1>6, <1>7, <1>8, Zenon DEF Inv, Tracked

-----------------------------------------------------------------------------
(* How a queue changes.                                                    *)

\* Enqueueing the flit that follows the last one of the queue, or a new sop.
LEMMA QueueAppend ==
  ASSUME NEW i \in Ini, NEW s, NEW snt, NEW f \in Flit, QueueOK(i, s, snt),
         f.wr \in DOMAIN reqs, reqs[f.wr].ini = i, reqs[f.wr].exec = "SO",
         f.k \in 1 .. reqs[f.wr].len,
         \A j \in 1 .. Len(s) : Before(s[j], f),
         s = << >> \/ f.k = 1 => snt[f.wr] = f.k - 1,
         s # << >> => IF Eop(s[Len(s)]) THEN f.k = 1 ELSE f = Following(s[Len(s)])
  PROVE  QueueOK(i, Append(s, f), snt)
<1> DEFINE t == Append(s, f)
<1>0. s \in Seq(Flit)
  BY DEF QueueOK
<1>1. /\ t \in Seq(Flit)
      /\ Len(t) = Len(s) + 1
      /\ Len(s) \in Nat
      /\ \A k \in 1 .. Len(s) : t[k] = s[k] /\ s[k] \in Flit
      /\ t[Len(t)] = f
      /\ s = << >> <=> Len(s) = 0
  BY <1>0
<1> HIDE DEF t
<1>2. ASSUME NEW j \in 1 .. Len(t)
      PROVE  /\ t[j].wr \in DOMAIN reqs /\ reqs[t[j].wr].ini = i /\ reqs[t[j].wr].exec = "SO"
             /\ t[j].k \in 1 .. reqs[t[j].wr].len
             /\ j = 1 \/ t[j].k = 1 => snt[t[j].wr] = t[j].k - 1
             /\ \A m \in 1 .. Len(t) : j < m => Before(t[j], t[m])
  <2>1. CASE j \in 1 .. Len(s)
    <3>1. t[j] = s[j]
      BY <2>1, <1>1
    <3>2. \A m \in 1 .. Len(t) : j < m => Before(s[j], t[m])
      <4> TAKE m \in 1 .. Len(t)
      <4>1. CASE m \in 1 .. Len(s)
        BY <4>1, <2>1, <1>1, ZenonT(60) DEF QueueOK
      <4>2. CASE m = Len(t)
        BY <4>2, <2>1, <1>1, ZenonT(60)
      <4> QED
        BY <4>1, <4>2, <1>1
    <3> QED
      BY <3>1, <3>2, <2>1 DEF QueueOK
  <2>2. CASE j = Len(t)
    <3>1. t[j] = f
      BY <2>2, <1>1
    <3>2. j = 1 => s = << >>
      BY <2>2, <1>1
    <3>3. \A m \in 1 .. Len(t) : ~(j < m)
      BY <2>2, <1>1
    <3> QED
      BY <3>1, <3>2, <3>3, ZenonT(60)
  <2> QED
    BY <2>1, <2>2, <1>1
<1>3. ASSUME NEW j \in 1 .. Len(t) - 1
      PROVE  IF Eop(t[j]) THEN t[j + 1].k = 1 ELSE t[j + 1] = Following(t[j])
  <2>1. CASE j = Len(s)
    <3>1. /\ t[j] = s[Len(s)]
          /\ t[j + 1] = f
          /\ s # << >>
      BY <2>1, <1>1
    <3> QED
      BY <3>1, Zenon
  <2>2. CASE j \in 1 .. Len(s) - 1
    <3>1. t[j] = s[j] /\ t[j + 1] = s[j + 1]
      BY <2>2, <1>1
    <3>2. IF Eop(s[j]) THEN s[j + 1].k = 1 ELSE s[j + 1] = Following(s[j])
      BY <2>2, ZenonT(60) DEF QueueOK
    <3> QED
      BY <3>1, <3>2, Zenon
  <2> QED
    BY <2>1, <2>2, <1>1
<1>4. QueueOK(i, t, snt)
  BY <1>1, <1>2, <1>3 DEF QueueOK
<1> QED
  BY <1>4, ZenonT(60) DEF t

\* Draining the first flit leaves a queue whose first flit is the next of its
\* request.
LEMMA QueueTail ==
  ASSUME reqs \in Seq(Request), NEW i \in Ini, NEW s, NEW snt \in [1 .. MaxWrs -> Nat],
         QueueOK(i, s, snt),
         s # << >>, DOMAIN reqs \subseteq 1 .. MaxWrs
  PROVE  QueueOK(i, Tail(s), [snt EXCEPT ![s[1].wr] = @ + 1])
<1> DEFINE t == Tail(s)
           new == [snt EXCEPT ![s[1].wr] = @ + 1]
<1>0. s \in Seq(Flit)
  BY DEF QueueOK
<1>1. /\ t \in Seq(Flit)
      /\ Len(t) = Len(s) - 1
      /\ Len(s) \in Nat /\ Len(s) >= 1
      /\ \A k \in 1 .. Len(t) : t[k] = s[k + 1] /\ t[k] \in Flit
      /\ s[1] \in Flit
  BY <1>0
<1>2. /\ s[1].wr \in DOMAIN reqs
      /\ s[1].k \in 1 .. reqs[s[1].wr].len
      /\ snt[s[1].wr] = s[1].k - 1
  BY <1>1 DEF QueueOK
<1>3. /\ new[s[1].wr] = s[1].k
      /\ \A w \in 1 .. MaxWrs : w # s[1].wr => new[w] = snt[w]
  BY <1>1, <1>2 DEF Flit
<1> HIDE DEF t, new
<1>4. ASSUME NEW j \in 1 .. Len(t)
      PROVE  /\ t[j].wr \in DOMAIN reqs /\ reqs[t[j].wr].ini = i /\ reqs[t[j].wr].exec = "SO"
             /\ t[j].k \in 1 .. reqs[t[j].wr].len
             /\ j = 1 \/ t[j].k = 1 => new[t[j].wr] = t[j].k - 1
             /\ \A m \in 1 .. Len(t) : j < m => Before(t[j], t[m])
  <2>1. t[j] = s[j + 1] /\ j + 1 \in 1 .. Len(s) /\ t[j] \in Flit
    BY <1>1
  <2>2. /\ t[j].wr \in DOMAIN reqs /\ reqs[t[j].wr].ini = i /\ reqs[t[j].wr].exec = "SO"
        /\ t[j].k \in 1 .. reqs[t[j].wr].len
        /\ t[j].k = 1 => snt[t[j].wr] = t[j].k - 1
    BY <2>1 DEF QueueOK
  <2>3. Before(s[1], t[j])
    BY <2>1, <1>1 DEF QueueOK
  <2>6. s[1].k \in Nat /\ s[1].k >= 1
    <3>1. reqs[s[1].wr] \in Request
      BY <1>2
    <3> QED
      BY <3>1, <1>2 DEF Request
  <2>7. \A m \in 1 .. Len(t) : j < m => Before(t[j], t[m])
    <3> SUFFICES ASSUME NEW m \in 1 .. Len(t), j < m PROVE Before(t[j], t[m])
      OBVIOUS
    <3>1. t[m] = s[m + 1] /\ m + 1 \in 1 .. Len(s) /\ j + 1 < m + 1
      BY <1>1
    <3>2. Before(s[j + 1], s[m + 1])
      BY <3>1, <2>1, ZenonT(60) DEF QueueOK
    <3> QED
      BY <3>1, <3>2, <2>1, Zenon
  <2>4. CASE t[j].k = 1
    <3>1. t[j].wr # s[1].wr
      <4>1. PICK a, b : a = s[1] /\ b = t[j]
        BY ZenonT(60)
      <4>2. Before(a, b) /\ a.k \in Nat /\ a.k >= 1 /\ b.k = 1
        BY <4>1, <2>3, <2>4, <2>6, ZenonT(60)
      <4>3. a.wr \in Nat /\ b.wr \in Nat
        <5>1. \A x \in Flit : x.wr \in Nat
          BY DEF Flit
        <5> QED
          BY <5>1, <4>1, <2>1, <1>1, ZenonT(60)
      <4>4. a.wr # b.wr
        BY <4>2, <4>3 DEF Before
      <4> QED
        BY <4>1, <4>4, ZenonT(60)
    <3>2. new[t[j].wr] = snt[t[j].wr]
      BY <3>1, <1>3, <2>2, ZenonT(60)
    <3> QED
      BY <3>2, <2>7, <2>2, <2>4, ZenonT(60)
  <2>5. CASE t[j].k # 1
    <3>2. j = 1 => t[j] = Following(s[1])
      BY <2>1, <2>5, <1>1, ZenonT(60) DEF QueueOK
    <3>3. j = 1 => t[j].wr = s[1].wr /\ t[j].k = s[1].k + 1
      <4>1. Following(s[1]).wr = s[1].wr /\ Following(s[1]).k = s[1].k + 1
        BY DEF Following
      <4> QED
        BY <4>1, <3>2, ZenonT(60)
    <3>4. \A n \in Nat : (n + 1) - 1 = n
      OBVIOUS
    <3>5. j = 1 => new[t[j].wr] = t[j].k - 1
      BY <3>3, <3>4, <1>3, <2>6, ZenonT(60)
    <3> QED
      BY <3>5, <2>2, <2>5, <2>7, ZenonT(60)
  <2> QED
    BY <2>4, <2>5
<1>5. ASSUME NEW j \in 1 .. Len(t) - 1
      PROVE  IF Eop(t[j]) THEN t[j + 1].k = 1 ELSE t[j + 1] = Following(t[j])
  <2>1. t[j] = s[j + 1] /\ t[j + 1] = s[(j + 1) + 1] /\ j + 1 \in 1 .. Len(s) - 1
    BY <1>1
  <2>2. IF Eop(s[j + 1]) THEN s[(j + 1) + 1].k = 1 ELSE s[(j + 1) + 1] = Following(s[j + 1])
    BY <2>1, ZenonT(60) DEF QueueOK
  <2> QED
    BY <2>1, <2>2, Zenon
<1>6. QueueOK(i, t, new)
  BY <1>1, <1>4, <1>5, ZenonT(60) DEF QueueOK
<1> QED
  BY <1>6 DEF t, new

\* A flit of a request that the queue does not hold leaves it as it is.
LEMMA QueueOther ==
  ASSUME reqs \in Seq(Request), NEW i \in Ini, NEW s, NEW snt \in [1 .. MaxWrs -> Nat],
         QueueOK(i, s, snt),
         DOMAIN reqs \subseteq 1 .. MaxWrs,
         NEW w, \A j \in 1 .. Len(s) : s[j].wr # w
  PROVE  QueueOK(i, s, [snt EXCEPT ![w] = @ + 1])
<1>1. \A v \in DOMAIN reqs : v # w => [snt EXCEPT ![w] = @ + 1][v] = snt[v]
  OBVIOUS
<1> QED
  BY <1>1, ZenonT(60) DEF QueueOK

-----------------------------------------------------------------------------
(* The counters.                                                           *)

\* What the type invariant says of a request.
LEMMA RequestType ==
  ASSUME TypeOK
  PROVE  /\ DOMAIN reqs = 1 .. Len(reqs) /\ Len(reqs) \in Nat
         /\ DOMAIN reqs \subseteq 1 .. MaxWrs
         /\ \A w \in DOMAIN reqs : /\ w \in Nat
                                  /\ reqs[w].ini \in Ini
                                  /\ reqs[w].len \in Nat /\ reqs[w].len >= 1
                                  /\ sent[w] \in Nat
<1>1. reqs \in Seq(Request) /\ Len(reqs) <= MaxWrs /\ sent \in [1 .. MaxWrs -> Nat]
  BY DEF TypeOK
<1>2. /\ DOMAIN reqs = 1 .. Len(reqs) /\ Len(reqs) \in Nat
      /\ \A w \in DOMAIN reqs : reqs[w] \in Request
  BY <1>1
<1>3. DOMAIN reqs \subseteq 1 .. MaxWrs
  BY <1>1, <1>2, ConstantsAssumption
<1>4. \A r \in Request : r.ini \in Ini /\ r.len \in Nat /\ r.len >= 1
  BY ConstantsAssumption DEF Request
<1> QED
  BY <1>1, <1>2, <1>3, <1>4

\* The sets the counters count are finite.
LEMMA AwaitedFinite ==
  ASSUME TypeOK, NEW outst, NEW aw, CountOK(outst, aw), NEW i \in Ini
  PROVE  IsFiniteSet(aw[i]) /\ Cardinality(aw[i]) \in Nat
<1>1. aw[i] \subseteq 1 .. Len(reqs) /\ Len(reqs) \in Nat
  BY DEF TypeOK, CountOK
<1>2. IsFiniteSet(1 .. Len(reqs))
  BY <1>1, FS_Interval
<1>3. IsFiniteSet(aw[i])
  BY <1>1, <1>2, FS_Subset
<1> QED
  BY <1>3, FS_CardinalityType

\* A notification that is read takes one from the counter of its initiator.
LEMMA NotifiedOK ==
  ASSUME TypeOK, CountOK(outstanding, awaiting), NEW n \in Notify \cup {NoNotify}
  PROVE  /\ Notified(n) \in [Ini -> Nat] /\ Awaited(n) \in [Ini -> SUBSET Nat]
         /\ CountOK(Notified(n), Awaited(n))
<1>1. CASE n = NoNotify
  BY <1>1 DEF Notified, Awaited, TypeOK
<1>2. CASE n # NoNotify
  <2>0. PICK i \in Ini : n \in Notifications(i)
    BY <1>2 DEF Notify
  <2>1. PICK w \in awaiting[i] \cap done : n = [ini |-> i, wr |-> w]
    BY <2>0 DEF Notifications
  <2>2. IsFiniteSet(awaiting[i]) /\ Cardinality(awaiting[i]) \in Nat
    BY AwaitedFinite
  <2>3. /\ IsFiniteSet(awaiting[i] \ {w})
        /\ Cardinality(awaiting[i] \ {w}) = Cardinality(awaiting[i]) - 1
    BY <2>1, <2>2, FS_RemoveElement
  <2>4. Cardinality(awaiting[i] \ {w}) \in Nat
    BY <2>3, FS_CardinalityType
  <2>5. outstanding[i] = Cardinality(awaiting[i]) /\ outstanding[i] # 0
    BY <2>2, <2>3, <2>4 DEF CountOK
  <2>6. /\ Notified(n) = [outstanding EXCEPT ![i] = @ - 1]
        /\ Awaited(n) = [awaiting EXCEPT ![i] = @ \ {w}]
    BY <1>2, <2>1, <2>5, ZenonT(60) DEF Notified, Awaited
  <2> DEFINE outst == Notified(n)
             aw == Awaited(n)
  <2>7. /\ outst \in [Ini -> Nat]
        /\ outst[i] = outstanding[i] - 1
        /\ \A j \in Ini : j # i => outst[j] = outstanding[j]
    BY <2>6, <2>5, <2>2 DEF TypeOK
  <2>8. /\ aw \in [Ini -> SUBSET Nat]
        /\ aw[i] = awaiting[i] \ {w}
        /\ \A j \in Ini : j # i => aw[j] = awaiting[j]
    BY <2>6, ZenonT(60) DEF TypeOK
  <2> HIDE DEF outst, aw
  <2>9. ASSUME NEW j \in Ini
        PROVE  /\ \A v \in aw[j] : v \in DOMAIN reqs /\ reqs[v].ini = j /\ sent[v] > 0
               /\ outst[j] = Cardinality(aw[j])
    BY <2>3, <2>5, <2>7, <2>8, ZenonT(60) DEF CountOK
  <2>10. ASSUME NEW v \in DOMAIN reqs, Ordered(v), sent[v] > 0
         PROVE  v \in aw[reqs[v].ini] \cup done
    <3>1. v \in awaiting[reqs[v].ini] \cup done
      BY <2>10, ZenonT(60) DEF CountOK
    <3>2. reqs[v].ini \in Ini
      BY RequestType, ZenonT(60)
    <3> QED
      BY <3>1, <3>2, <2>1, <2>8
  <2>11. CountOK(outst, aw)
    BY <2>9, <2>10, ZenonT(60) DEF CountOK
  <2> QED
    BY <2>7, <2>8, <2>11 DEF outst, aw
<1> QED
  BY <1>1, <1>2

\* Issuing the first flit of an ordered request counts it.
LEMMA CountAdd ==
  ASSUME TypeOK, NEW outst \in [Ini -> Nat], NEW aw \in [Ini -> SUBSET Nat], CountOK(outst, aw),
         NEW w \in DOMAIN reqs, sent[w] = 0, Count(reqs[w].ini, w, outst, aw),
         sent' = [sent EXCEPT ![w] = @ + 1], reqs' = reqs, done' = done
  PROVE  /\ outstanding' \in [Ini -> Nat] /\ awaiting' \in [Ini -> SUBSET Nat]
         /\ CountOK(outstanding, awaiting)'
<1> DEFINE i == reqs[w].ini
<1>0. i \in Ini /\ w \in Nat /\ w \in 1 .. MaxWrs
  BY RequestType, ZenonT(60)
<1>1. /\ outstanding' \in [Ini -> Nat]
      /\ outstanding'[i] = outst[i] + 1
      /\ \A j \in Ini : j # i => outstanding'[j] = outst[j]
  BY <1>0 DEF Count
<1>2. /\ awaiting' \in [Ini -> SUBSET Nat]
      /\ awaiting'[i] = aw[i] \cup {w}
      /\ \A j \in Ini : j # i => awaiting'[j] = aw[j]
  BY <1>0, ZenonT(60) DEF Count
<1>3. /\ sent'[w] = 1
      /\ \A v \in DOMAIN reqs : v # w => sent'[v] = sent[v]
  BY <1>0 DEF TypeOK
<1>4. w \notin aw[i]
  <2>1. w \in aw[i] => sent[w] > 0
    BY <1>0, ZenonT(60) DEF CountOK
  <2> QED
    BY <2>1
<1>5. Cardinality(aw[i] \cup {w}) = Cardinality(aw[i]) + 1
  BY <1>0, <1>4, AwaitedFinite, FS_AddElement, ZenonT(60)
<1>6. ASSUME NEW j \in Ini
      PROVE  /\ \A v \in awaiting'[j] : v \in DOMAIN reqs /\ reqs[v].ini = j /\ sent'[v] > 0
             /\ outstanding'[j] = Cardinality(awaiting'[j])
  <2>1. \A v \in aw[j] : v \in DOMAIN reqs /\ reqs[v].ini = j /\ sent[v] > 0
    BY ZenonT(60) DEF CountOK
  <2>2. outst[j] = Cardinality(aw[j])
    BY DEF CountOK
  <2>3. CASE j = i
    BY <2>1, <2>2, <2>3, <1>1, <1>2, <1>3, <1>5
  <2>4. CASE j # i
    BY <2>1, <2>2, <2>4, <1>1, <1>2, <1>3
  <2> QED
    BY <2>3, <2>4, ZenonT(60)
<1>7. ASSUME NEW v \in DOMAIN reqs, reqs[v].exec # "NO", sent'[v] > 0
      PROVE  v \in awaiting'[reqs[v].ini] \cup done
  <2>1. reqs[v].ini \in Ini
    BY RequestType
  <2>2. CASE v = w
    BY <2>2, <1>2, ZenonT(60)
  <2>3. CASE v # w
    <3>1. v \in aw[reqs[v].ini] \cup done
      BY <2>3, <1>3, <1>7, ZenonT(60) DEF CountOK, Ordered
    <3> QED
      BY <3>1, <2>1, <1>2, ZenonT(60)
  <2> QED
    BY <2>2, <2>3
<1>8. CountOK(outstanding, awaiting)'
  BY <1>6, <1>7, ZenonT(60) DEF CountOK, Ordered
<1> QED
  BY <1>1, <1>2, <1>8, ZenonT(60)

\* Issuing a later flit, or a flit of a request that is not ordered, does not.
LEMMA CountKeep ==
  ASSUME TypeOK, NEW outst, NEW aw, CountOK(outst, aw), Keep(outst, aw),
         NEW w \in DOMAIN reqs, sent[w] > 0 \/ ~Ordered(w),
         sent' = [sent EXCEPT ![w] = @ + 1], reqs' = reqs, done' = done
  PROVE  CountOK(outstanding, awaiting)'
<1>1. w \in 1 .. MaxWrs
  BY RequestType, ZenonT(60)
<1>2. /\ sent'[w] = sent[w] + 1 /\ sent[w] \in Nat
      /\ \A v \in DOMAIN reqs : v # w => sent'[v] = sent[v]
  BY <1>1 DEF TypeOK
<1>3. \A i \in Ini : /\ \A v \in aw[i] : v \in DOMAIN reqs /\ reqs[v].ini = i /\ sent'[v] > 0
                     /\ outst[i] = Cardinality(aw[i])
  BY <1>2 DEF CountOK
<1>4. \A v \in DOMAIN reqs : Ordered(v) /\ sent'[v] > 0 => v \in aw[reqs[v].ini] \cup done
  BY <1>2, ZenonT(60) DEF CountOK
<1> QED
  BY <1>3, <1>4, ZenonT(60) DEF CountOK, Keep, Ordered

-----------------------------------------------------------------------------
(* Emitting a flit.                                                        *)

\* A flit that starts an SO request while its counter is zero finds everything
\* ordered of its initiator answered.
LEMMA OutputAlone ==
  ASSUME TypeOK, NEW outst, NEW aw, CountOK(outst, aw), NEW f \in Flit, f.wr \in DOMAIN reqs,
         Sop(f) /\ reqs[f.wr].roi /\ reqs[f.wr].exec = "SO" => outst[reqs[f.wr].ini] = 0,
         Output(f), reqs' = reqs, done' = done
  PROVE  SoAlone'
<1> SUFFICES ASSUME Sop(f), reqs[f.wr].roi, reqs[f.wr].exec = "SO",
                    NEW w \in DOMAIN reqs \ {f.wr}, Ordered(w),
                    reqs[w].ini = reqs[f.wr].ini, sent'[w] > 0
             PROVE  w \in done
  BY DEF SoAlone, StartsSO, Output, Sop, Ordered
<1>1. reqs[w].ini \in Ini
  BY RequestType, ZenonT(60)
<1>2. aw[reqs[w].ini] = {}
  BY <1>1, AwaitedFinite, FS_EmptySet DEF CountOK
<1>3. sent'[w] = sent[w]
  BY DEF Output, TypeOK
<1> QED
  BY <1>2, <1>3, ZenonT(60) DEF CountOK

\* Emitting a flit keeps the types of what it changes.
LEMMA OutputType ==
  ASSUME TypeOK, NEW f \in Flit, f.wr \in DOMAIN reqs, Output(f), reqs' = reqs
  PROVE  /\ out' \in Flit /\ out'.wr \in DOMAIN reqs
         /\ sent' \in [1 .. MaxWrs -> Nat]
         /\ sent'[f.wr] = sent[f.wr] + 1
         /\ \A w \in 1 .. MaxWrs : w # f.wr => sent'[w] = sent[w]
         /\ \A w \in 1 .. MaxWrs : w > Len(reqs) => sent'[w] = 0
<1>1. sent \in [1 .. MaxWrs -> Nat] /\ f.wr \in 1 .. MaxWrs
  BY RequestType, ZenonT(60) DEF TypeOK
<1>2. /\ sent' \in [1 .. MaxWrs -> Nat]
      /\ sent'[f.wr] = sent[f.wr] + 1
      /\ \A w \in 1 .. MaxWrs : w # f.wr => sent'[w] = sent[w]
  BY <1>1 DEF Output
<1>3. \A w \in 1 .. MaxWrs : w > Len(reqs) => sent'[w] = 0
  BY <1>2, RequestType DEF TypeOK
<1> QED
  BY <1>2, <1>3, ZenonT(60) DEF Output

\* The drain emits f, the first flit of queue s of initiator i, in a call whose
\* input left the queues qs.
Emitting(i, f, s, qs) ==
  /\ TypeOK
  /\ i \in Ini /\ qs \in [Ini -> Seq(Flit)] /\ s = qs[i] /\ s # << >> /\ f = Head(s)
  /\ \A j \in Ini : QueueOK(j, qs[j], sent)
  /\ q' = [qs EXCEPT ![i] = Tail(s)] /\ Output(f) /\ reqs' = reqs

\* What the call leaves of its input.
Leaves(fd, inp, pass, cini) ==
  /\ feed' = fd /\ in_packet_input' = inp
  /\ cur_input_passthrough' = pass /\ cur_input_ini' = cini

\* The flit f at the head of the queue s of initiator i.
Emitted(i, f, s) ==
  /\ s \in Seq(Flit) /\ Len(s) \in Nat /\ Len(s) >= 1
  /\ f \in Flit /\ f = s[1] /\ f.k \in Nat /\ f.k >= 1
  /\ f.wr \in DOMAIN reqs /\ f.wr \in 1 .. MaxWrs
  /\ reqs[f.wr].ini = i /\ reqs[f.wr].exec = "SO"
  /\ sent[f.wr] = f.k - 1
  /\ Len(s) > 1 /\ ~Eop(f) => s[2] = Following(f)

\* The counts of emitted flits and the queues after f left s.
AfterEmit(i, f, s, qs) ==
  /\ sent' \in [1 .. MaxWrs -> Nat]
  /\ sent'[f.wr] = f.k
  /\ \A w \in 1 .. MaxWrs : w # f.wr => sent'[w] = sent[w]
  /\ \A w \in 1 .. MaxWrs : w > Len(reqs) => sent'[w] = 0
  /\ q' \in [Ini -> Seq(Flit)] /\ q'[i] = Tail(s)
  /\ \A j \in Ini : j # i => q'[j] = qs[j]
  /\ Len(q'[i]) = Len(s) - 1
  /\ \A k \in 1 .. Len(q'[i]) : q'[i][k] = s[k + 1]
  /\ Len(s) = 1 => q'[i] = << >>

\* What the emitted flit is.
LEMMA EmittedFlit ==
  ASSUME NEW i, NEW f, NEW s, NEW qs, Emitting(i, f, s, qs)
  PROVE  Emitted(i, f, s)
<1>1. s \in Seq(Flit) /\ s # << >> /\ f = Head(s) /\ QueueOK(i, s, sent) /\ TypeOK
  BY DEF Emitting
<1>2. /\ Len(s) \in Nat /\ Len(s) >= 1 /\ f = s[1] /\ f \in Flit
      /\ 1 \in 1 .. Len(s) /\ (Len(s) > 1 => 1 \in 1 .. Len(s) - 1)
  BY <1>1
<1>3. /\ f.wr \in DOMAIN reqs /\ reqs[f.wr].ini = i /\ reqs[f.wr].exec = "SO"
      /\ f.k \in 1 .. reqs[f.wr].len
      /\ sent[f.wr] = f.k - 1
  BY <1>1, <1>2, Zenon DEF QueueOK
<1>4. Len(s) > 1 /\ ~Eop(f) => s[1 + 1] = Following(f)
  BY <1>1, <1>2, ZenonT(60) DEF QueueOK
<1>5. f.wr \in 1 .. MaxWrs /\ reqs[f.wr].len \in Nat
  BY <1>1, <1>3, RequestType, ZenonT(60)
<1>6. f.k \in Nat /\ f.k >= 1 /\ 1 + 1 = 2
  BY <1>3, <1>5
<1> QED
  BY <1>1, <1>2, <1>3, <1>4, <1>5, <1>6, Zenon DEF Emitted

\* What the queues and the counts of emitted flits are afterwards.
LEMMA EmittedState ==
  ASSUME NEW i, NEW f, NEW s, NEW qs, Emitting(i, f, s, qs)
  PROVE  AfterEmit(i, f, s, qs)
<1>1. /\ f \in Flit /\ f.wr \in DOMAIN reqs /\ sent[f.wr] = f.k - 1 /\ f.k \in Nat
      /\ s \in Seq(Flit) /\ Len(s) \in Nat /\ Len(s) >= 1
  <2>1. Emitted(i, f, s)
    BY EmittedFlit, ZenonT(60)
  <2> QED
    BY <2>1, ZenonT(60) DEF Emitted
<1>2. /\ TypeOK /\ Output(f) /\ reqs' = reqs /\ i \in Ini
      /\ qs \in [Ini -> Seq(Flit)] /\ q' = [qs EXCEPT ![i] = Tail(s)]
  BY ZenonT(60) DEF Emitting
<1>3. /\ sent' \in [1 .. MaxWrs -> Nat]
      /\ sent'[f.wr] = sent[f.wr] + 1
      /\ \A w \in 1 .. MaxWrs : w # f.wr => sent'[w] = sent[w]
      /\ \A w \in 1 .. MaxWrs : w > Len(reqs) => sent'[w] = 0
  BY <1>1, <1>2, OutputType, ZenonT(60)
<1>4. (f.k - 1) + 1 = f.k
  BY <1>1
<1>5. /\ Tail(s) \in Seq(Flit)
      /\ Len(Tail(s)) = Len(s) - 1
      /\ \A k \in 1 .. Len(Tail(s)) : Tail(s)[k] = s[k + 1]
  BY <1>1
<1>6. Len(s) = 1 => Tail(s) = << >>
  <2>1. \A t \in Seq(Flit) : Len(t) = 0 => t = << >>
    OBVIOUS
  <2>2. Len(s) = 1 => Len(s) - 1 = 0
    OBVIOUS
  <2> QED
    BY <2>1, <2>2, <1>5, ZenonT(60)
<1>7. q' \in [Ini -> Seq(Flit)] /\ q'[i] = Tail(s) /\ \A j \in Ini : j # i => q'[j] = qs[j]
  BY <1>2, <1>5, ZenonT(60)
<1> QED
  BY <1>1, <1>3, <1>4, <1>5, <1>6, <1>7, ZenonT(60) DEF AfterEmit

\* The queues stay in order.
LEMMA EmitQueues ==
  ASSUME NEW i, NEW f, NEW s, NEW qs, Emitting(i, f, s, qs), NEW j \in Ini
  PROVE  QueueOK(j, q[j], sent)'
<1>1. /\ TypeOK /\ i \in Ini /\ s = qs[i] /\ s # << >> /\ Output(f) /\ reqs' = reqs
      /\ QueueOK(i, s, sent) /\ QueueOK(j, qs[j], sent)
  BY ZenonT(60) DEF Emitting
<1>2. f = s[1] /\ reqs[f.wr].ini = i
  <2>1. Emitted(i, f, s)
    BY EmittedFlit, ZenonT(60)
  <2> QED
    BY <2>1, ZenonT(60) DEF Emitted
<1>3. q'[i] = Tail(s) /\ (j # i => q'[j] = qs[j])
  <2>1. AfterEmit(i, f, s, qs)
    BY EmittedState, ZenonT(60)
  <2> QED
    BY <2>1, ZenonT(60) DEF AfterEmit
<1>4. sent' = [sent EXCEPT ![f.wr] = @ + 1]
  BY <1>1, ZenonT(60) DEF Output
<1>5. reqs \in Seq(Request) /\ sent \in [1 .. MaxWrs -> Nat] /\ DOMAIN reqs \subseteq 1 .. MaxWrs
  BY <1>1, RequestType, ZenonT(60) DEF TypeOK
<1>6. CASE j = i
  <2>1. QueueOK(i, Tail(s), [sent EXCEPT ![s[1].wr] = @ + 1])
    BY <1>1, <1>5, QueueTail, ZenonT(60)
  <2>2. QueueOK(j, q'[j], sent')
    BY <2>1, <1>2, <1>3, <1>4, <1>6, ZenonT(60)
  <2> QED
    BY <2>2, <1>1, QueueSame, ZenonT(60)
<1>7. CASE j # i
  <2>1. \A k \in 1 .. Len(qs[j]) : qs[j][k].wr # f.wr
    BY <1>1, <1>2, <1>7, ZenonT(60) DEF QueueOK
  <2>2. QueueOK(j, qs[j], [sent EXCEPT ![f.wr] = @ + 1])
    BY <2>1, <1>1, <1>5, QueueOther, ZenonT(60)
  <2>3. QueueOK(j, q'[j], sent')
    BY <2>2, <1>3, <1>4, <1>7, ZenonT(60)
  <2> QED
    BY <2>3, <1>1, QueueSame, Zenon
<1> QED
  BY <1>6, <1>7, ZenonT(60)

\* What is left on port 1 is still the rest of the newest request.
LEMMA EmitFeed ==
  ASSUME NEW i, NEW f, NEW s, NEW qs, Emitting(i, f, s, qs),
         NEW fd, NEW inp, NEW pass, NEW cini, Leaves(fd, inp, pass, cini),
         fd \in Seq(Flit), FeedOK(fd, inp, pass, cini, qs)
  PROVE  FeedOK(feed, in_packet_input, cur_input_passthrough, cur_input_ini, q)'
<1>1. /\ feed' = fd /\ in_packet_input' = inp
      /\ cur_input_passthrough' = pass /\ cur_input_ini' = cini
  BY ZenonT(60) DEF Leaves
<1>2. TypeOK /\ reqs' = reqs /\ i \in Ini /\ qs \in [Ini -> Seq(Flit)] /\ s = qs[i]
  BY ZenonT(60) DEF Emitting
<1>3. CASE fd = << >>
  BY <1>1, <1>2, <1>3, ZenonT(60) DEF FeedOK
<1>4. CASE fd # << >>
  <2>1. PICK w, r : w = Len(reqs) /\ r = reqs[Len(reqs)]
    BY ZenonT(60)
  <2>2. /\ w > 0 /\ Len(fd) <= r.len
        /\ \A j \in 1 .. Len(fd) : fd[j] = [wr |-> w, k |-> r.len - Len(fd) + j]
        /\ inp <=> Len(fd) < r.len
        /\ inp => cini = r.ini
        /\ inp /\ ~pass => r.exec = "SO"
    BY <2>1, <1>4, ZenonT(60) DEF FeedOK
  <2>3. /\ ~inp \/ pass => /\ sent[w] = r.len - Len(fd)
                           /\ \A j \in Ini : \A k \in 1 .. Len(qs[j]) : qs[j][k].wr # w
        /\ \A j \in Ini : \A k \in 1 .. Len(qs[j]) : Before(qs[j][k], fd[1])
        /\ Len(qs[r.ini]) + Len(fd) <= MaxBacklog
    BY <2>1, <1>4, ZenonT(60) DEF FeedOK
  <2>4. w \in 1 .. MaxWrs /\ r.ini \in Ini
    BY <2>1, <2>2, <1>2, RequestType
  <2>5. /\ f = s[1] /\ Len(s) \in Nat /\ Len(s) >= 1 /\ 1 \in 1 .. Len(s)
    <3>1. f = s[1] /\ Len(s) \in Nat /\ Len(s) >= 1
      <4>1. Emitted(i, f, s)
        BY EmittedFlit, ZenonT(60)
      <4> QED
        BY <4>1, ZenonT(60) DEF Emitted
    <3> QED
      BY <3>1
  <2>6. /\ \A j \in Ini : j # i => q'[j] = qs[j]
        /\ \A k \in 1 .. Len(q'[i]) : q'[i][k] = s[k + 1]
        /\ Len(q'[i]) = Len(s) - 1
        /\ \A v \in 1 .. MaxWrs : v # f.wr => sent'[v] = sent[v]
    <3>1. AfterEmit(i, f, s, qs)
      BY EmittedState, ZenonT(60)
    <3> QED
      BY <3>1, ZenonT(60) DEF AfterEmit
  <2>7. \A k \in 1 .. Len(q'[i]) : k + 1 \in 1 .. Len(s)
    BY <2>5, <2>6
  <2>8. ASSUME NEW j \in Ini, NEW k \in 1 .. Len(q'[j])
        PROVE  \E m \in 1 .. Len(qs[j]) : q'[j][k] = qs[j][m]
    <3>1. CASE j = i
      BY <3>1, <2>6, <2>7, <1>2, ZenonT(60)
    <3>2. CASE j # i
      BY <3>2, <2>6, ZenonT(60)
    <3> QED
      BY <3>1, <3>2, ZenonT(60)
  <2>9. ~inp \/ pass => /\ sent'[w] = r.len - Len(fd)
                        /\ \A j \in Ini : \A k \in 1 .. Len(q'[j]) : q'[j][k].wr # w
    <3> SUFFICES ASSUME ~inp \/ pass
                 PROVE  /\ sent'[w] = r.len - Len(fd)
                        /\ \A j \in Ini : \A k \in 1 .. Len(q'[j]) : q'[j][k].wr # w
      BY Zenon
    <3>1. f.wr # w
      BY <2>3, <2>5, <1>2, Zenon
    <3>2. sent'[w] = sent[w]
      BY <3>1, <2>4, <2>6, Zenon
    <3> QED
      BY <3>2, <2>3, <2>8, ZenonT(60)
  <2>10. \A j \in Ini : \A k \in 1 .. Len(q'[j]) : Before(q'[j][k], fd[1])
    BY <2>3, <2>8, ZenonT(60)
  <2>11. Len(q'[r.ini]) + Len(fd) <= MaxBacklog
    <3>1. Len(q'[r.ini]) \in Nat /\ Len(qs[r.ini]) \in Nat /\ Len(q'[r.ini]) <= Len(qs[r.ini])
      <4>1. CASE r.ini = i
        BY <4>1, <2>5, <2>6, <1>2
      <4>2. CASE r.ini # i
        <5>1. q'[r.ini] = qs[r.ini] /\ qs[r.ini] \in Seq(Flit)
          BY <4>2, <2>4, <2>6, <1>2
        <5> QED
          BY <5>1
      <4> QED
        BY <4>1, <4>2, ZenonT(60)
    <3>2. Len(fd) \in Nat
      OBVIOUS
    <3>3. \A a, b, c, d \in Nat : a <= b /\ b + c <= d => a + c <= d
      OBVIOUS
    <3> QED
      BY <3>1, <3>2, <3>3, <2>3, ConstantsAssumption, Zenon
  <2> QED
    BY <2>1, <2>2, <2>9, <2>10, <2>11, <1>1, <1>2, <1>4, ZenonT(60) DEF FeedOK
<1> QED
  BY <1>3, <1>4, ZenonT(60)

\* A queue that ends in the middle of a packet is still the one the input goes on with.
LEMMA EmitLast ==
  ASSUME NEW i, NEW f, NEW s, NEW qs, Emitting(i, f, s, qs),
         NEW fd, NEW inp, NEW pass, NEW cini, Leaves(fd, inp, pass, cini),
         fd \in Seq(Flit), FeedOK(fd, inp, pass, cini, qs),
         NEW j \in Ini, LastOK(j, qs[j], fd, inp, pass, cini)
  PROVE  LastOK(j, q[j], feed, in_packet_input, cur_input_passthrough, cur_input_ini)'
<1>1. /\ feed' = fd /\ in_packet_input' = inp
      /\ cur_input_passthrough' = pass /\ cur_input_ini' = cini
  BY DEF Leaves
<1>2. TypeOK /\ reqs' = reqs /\ i \in Ini /\ s = qs[i] /\ s # << >>
  BY ZenonT(60) DEF Emitting
<1>3. /\ f = s[1] /\ Len(s) \in Nat /\ Len(s) >= 1 /\ f.k \in Nat
      /\ f.wr \in DOMAIN reqs /\ reqs[f.wr].ini = i
  <2>1. Emitted(i, f, s)
    BY EmittedFlit, ZenonT(60)
  <2> QED
    BY <2>1, ZenonT(60) DEF Emitted
<1>4. /\ \A m \in Ini : m # i => q'[m] = qs[m]
      /\ \A k \in 1 .. Len(q'[i]) : q'[i][k] = s[k + 1]
      /\ Len(q'[i]) = Len(s) - 1
      /\ Len(s) = 1 => q'[i] = << >>
      /\ sent'[f.wr] = f.k
      /\ \A v \in 1 .. MaxWrs : v # f.wr => sent'[v] = sent[v]
  <2>1. AfterEmit(i, f, s, qs)
    BY EmittedState, ZenonT(60)
  <2> QED
    BY <2>1, ZenonT(60) DEF AfterEmit
<1>5. CASE j = i /\ Len(s) = 1
  <2>1. inp /\ ~pass /\ cini = i => fd[1] = Following(f)
    BY <1>2, <1>3, <1>5, ZenonT(60) DEF LastOK
  <2>2. Following(f).wr = f.wr /\ Following(f).k - 1 = f.k
    BY <1>3 DEF Following
  <2>3. inp /\ ~pass /\ cini = i => sent'[fd[1].wr] = fd[1].k - 1
    BY <2>1, <2>2, <1>4, ZenonT(60)
  <2> QED
    BY <2>3, <1>1, <1>4, <1>5, ZenonT(60) DEF LastOK
<1>6. CASE j = i /\ Len(s) # 1
  <2>1. Len(q'[i]) \in 1 .. Len(q'[i]) /\ Len(q'[i]) + 1 = Len(s)
    <3>1. \A a \in Nat : a >= 1 /\ a # 1 => a - 1 \in 1 .. (a - 1) /\ (a - 1) + 1 = a
      OBVIOUS
    <3> QED
      BY <3>1, <1>3, <1>4, <1>6, ZenonT(60)
  <2>2. q'[i][Len(q'[i])] = s[Len(s)]
    BY <2>1, <1>4, ZenonT(60)
  <2>3. q'[i] # << >>
    BY <2>1
  <2> QED
    BY <2>2, <2>3, <1>1, <1>2, <1>6, ZenonT(60) DEF LastOK, Eop
<1>7. CASE j # i
  <2>1. inp /\ ~pass /\ cini = j => sent'[fd[1].wr] = sent[fd[1].wr]
    <3> SUFFICES ASSUME inp, cini = j PROVE sent'[fd[1].wr] = sent[fd[1].wr]
      BY ZenonT(60)
    <3>1. /\ fd # << >> /\ Len(reqs) > 0 /\ reqs[Len(reqs)].ini = j
          /\ \A m \in 1 .. Len(fd) :
               fd[m] = [wr |-> Len(reqs), k |-> reqs[Len(reqs)].len - Len(fd) + m]
      BY ZenonT(60) DEF FeedOK
    <3>2. 1 \in 1 .. Len(fd)
      BY <3>1
    <3>3. fd[1] = [wr |-> Len(reqs), k |-> reqs[Len(reqs)].len - Len(fd) + 1]
      BY <3>1, <3>2, ZenonT(60)
    <3>4. fd[1].wr = Len(reqs)
      BY <3>3
    <3>5. Len(reqs) \in 1 .. MaxWrs
      BY <3>1, <1>2, RequestType
    <3> QED
      BY <3>1, <3>4, <3>5, <1>3, <1>4, <1>7, ZenonT(60)
  <2> QED
    BY <2>1, <1>1, <1>2, <1>4, <1>7, ZenonT(60) DEF LastOK, Eop
<1> QED
  BY <1>5, <1>6, <1>7, Zenon

\* In the middle of a packet the drain finds the rest of it next, if anything.
LEMMA EmitDrain ==
  ASSUME NEW i, NEW f, NEW s, NEW qs, Emitting(i, f, s, qs),
         NEW fd, NEW inp, NEW pass, NEW cini, Leaves(fd, inp, pass, cini),
         LastOK(i, s, fd, inp, pass, cini),
         drain_in_packet' = ~Eop(f), drain_active_ini' = IF Eop(f) THEN None ELSE i
  PROVE  DrainOK(feed, in_packet_input, cur_input_passthrough, cur_input_ini, q)'
<1>1. /\ feed' = fd /\ in_packet_input' = inp
      /\ cur_input_passthrough' = pass /\ cur_input_ini' = cini
  BY DEF Leaves
<1>2. reqs' = reqs /\ i \in Ini /\ s # << >>
  BY ZenonT(60) DEF Emitting
<1>3. /\ f = s[1] /\ Len(s) \in Nat /\ Len(s) >= 1 /\ f.k \in Nat /\ f.k >= 1
      /\ Len(s) > 1 /\ ~Eop(f) => s[2] = Following(f)
  <2>1. Emitted(i, f, s)
    BY EmittedFlit, ZenonT(60)
  <2> QED
    BY <2>1, ZenonT(60) DEF Emitted
<1>4. /\ \A k \in 1 .. Len(q'[i]) : q'[i][k] = s[k + 1]
      /\ Len(q'[i]) = Len(s) - 1
      /\ Len(s) = 1 => q'[i] = << >>
  <2>1. AfterEmit(i, f, s, qs)
    BY EmittedState, ZenonT(60)
  <2> QED
    BY <2>1, ZenonT(60) DEF AfterEmit
<1>5. CASE Eop(f)
  BY <1>5, ZenonT(60) DEF DrainOK
<1>6. CASE ~Eop(f) /\ Len(s) = 1
  <2>1. inp /\ ~pass /\ cini = i
    BY <1>2, <1>3, <1>6, ZenonT(60) DEF LastOK
  <2> QED
    BY <2>1, <1>1, <1>2, <1>4, <1>6, ZenonT(60) DEF DrainOK
<1>7. CASE ~Eop(f) /\ Len(s) # 1
  <2>1. Len(s) > 1 /\ 1 \in 1 .. Len(q'[i]) /\ 1 + 1 = 2
    <3>1. \A a \in Nat : a >= 1 /\ a # 1 => a > 1 /\ 1 \in 1 .. (a - 1) /\ 1 + 1 = 2
      OBVIOUS
    <3> QED
      BY <3>1, <1>3, <1>4, <1>7, ZenonT(60)
  <2>2. q'[i][1] = Following(f)
    BY <2>1, <1>3, <1>4, <1>7, ZenonT(60)
  <2>3. Following(f).k # 1
    BY <1>3 DEF Following
  <2>4. q'[i] # << >>
    BY <2>1
  <2> QED
    BY <2>2, <2>3, <2>4, <1>2, <1>7, ZenonT(60) DEF DrainOK
<1> QED
  BY <1>5, <1>6, <1>7, ZenonT(60)

\* A call is about to drain: its input is taken, and it leaves fd on port 1.
Draining(fd, inp, pass, cini, qs, outst, aw) ==
  /\ TypeOK /\ SoAlone
  /\ fd \in Seq(Flit) /\ inp \in BOOLEAN /\ pass \in BOOLEAN /\ cini \in Ini
  /\ qs \in [Ini -> Seq(Flit)] /\ outst \in [Ini -> Nat] /\ aw \in [Ini -> SUBSET Nat]
  /\ Tracked(fd, inp, pass, cini, qs, outst, aw)
  /\ Leaves(fd, inp, pass, cini) /\ reqs' = reqs /\ done' = done

\* The drain emits the first flit of a queue.
LEMMA EmitOK ==
  ASSUME NEW fd, NEW inp, NEW pass, NEW cini, NEW qs, NEW outst, NEW aw, NEW i,
         Draining(fd, inp, pass, cini, qs, outst, aw), i \in Ini, qs[i] # << >>,
         outst[i] = 0 \/ (drain_in_packet /\ drain_active_ini = i),
         Emit(i, qs, outst, aw), rr_cursor' \in Ini
  PROVE  Inv'
<1>1. PICK s, f : s = qs[i] /\ f = Head(qs[i])
  BY ZenonT(60)
<1>2. /\ TypeOK /\ fd \in Seq(Flit) /\ inp \in BOOLEAN /\ pass \in BOOLEAN /\ cini \in Ini
      /\ outst \in [Ini -> Nat] /\ aw \in [Ini -> SUBSET Nat]
      /\ Tracked(fd, inp, pass, cini, qs, outst, aw)
      /\ Leaves(fd, inp, pass, cini) /\ reqs' = reqs /\ done' = done
  BY ZenonT(60) DEF Draining
<1>3. /\ q' = [qs EXCEPT ![i] = Tail(s)]
      /\ Output(f)
      /\ IF Sop(f) THEN Count(i, f.wr, outst, aw) ELSE Keep(outst, aw)
      /\ drain_in_packet' = ~Eop(f)
      /\ drain_active_ini' = IF Eop(f) THEN None ELSE i
  BY <1>1, ZenonT(60) DEF Emit
<1>4. Emitting(i, f, s, qs)
  <2>1. qs \in [Ini -> Seq(Flit)]
    BY ZenonT(60) DEF Draining
  <2> QED
    BY <2>1, <1>1, <1>2, <1>3, ZenonT(60) DEF Emitting, Tracked
<1>5. /\ CountOK(outst, aw)
      /\ FeedOK(fd, inp, pass, cini, qs)
      /\ \A j \in Ini : LastOK(j, qs[j], fd, inp, pass, cini)
  BY <1>2, ZenonT(60) DEF Tracked
<1>6. /\ f \in Flit /\ f = s[1] /\ f.k \in Nat /\ f.k >= 1
      /\ f.wr \in DOMAIN reqs /\ reqs[f.wr].ini = i /\ sent[f.wr] = f.k - 1
  <2>1. Emitted(i, f, s)
    BY <1>4, EmittedFlit, ZenonT(60)
  <2> QED
    BY <2>1, ZenonT(60) DEF Emitted
<1>7. /\ outstanding' \in [Ini -> Nat]
      /\ awaiting' \in [Ini -> SUBSET Nat]
      /\ CountOK(outstanding, awaiting)'
  <2>1. sent' = [sent EXCEPT ![f.wr] = @ + 1]
    BY <1>3, ZenonT(60) DEF Output
  <2>2. CASE Sop(f)
    <3>1. sent[f.wr] = 0 /\ Count(reqs[f.wr].ini, f.wr, outst, aw)
      BY <2>2, <1>3, <1>6 DEF Sop
    <3> QED
      BY <3>1, <2>1, <1>2, <1>5, <1>6, CountAdd, ZenonT(60)
  <2>3. CASE ~Sop(f)
    <3>1. sent[f.wr] > 0 /\ Keep(outst, aw)
      BY <2>3, <1>3, <1>6 DEF Sop
    <3>2. CountOK(outstanding, awaiting)'
      BY <3>1, <2>1, <1>2, <1>5, <1>6, CountKeep, ZenonT(60)
    <3> QED
      BY <3>1, <3>2, <1>2, ZenonT(60) DEF Keep
  <2> QED
    BY <2>2, <2>3, ZenonT(60)
<1>8. SoAlone'
  <2>1. Sop(f) => outst[reqs[f.wr].ini] = 0
    BY <1>1, <1>2, <1>6, ZenonT(60) DEF Tracked, DrainOK, Sop
  <2> QED
    BY <2>1, <1>2, <1>3, <1>5, <1>6, OutputAlone, ZenonT(60)
<1>9. TypeOK'
  <2>1. out' = f /\ drain_in_packet' \in BOOLEAN
    BY <1>3, ZenonT(60) DEF Output
  <2>2. /\ sent' \in [1 .. MaxWrs -> Nat] /\ q' \in [Ini -> Seq(Flit)]
        /\ \A w \in 1 .. MaxWrs : w > Len(reqs) => sent'[w] = 0
    <3>1. AfterEmit(i, f, s, qs)
      BY <1>4, EmittedState, ZenonT(60)
    <3> QED
      BY <3>1, ZenonT(60) DEF AfterEmit
  <2> QED
    BY <2>1, <2>2, <1>2, <1>6, <1>7, ZenonT(60) DEF TypeOK, Leaves
<1>10. Tracked(feed, in_packet_input, cur_input_passthrough, cur_input_ini, q, outstanding, awaiting)'
  <2>1. \A j \in Ini : QueueOK(j, q[j], sent)'
    BY <1>4, EmitQueues, ZenonT(60)
  <2>2. \A j \in Ini : LastOK(j, q[j], feed, in_packet_input, cur_input_passthrough, cur_input_ini)'
    BY <1>2, <1>4, <1>5, EmitLast, ZenonT(60)
  <2>3. FeedOK(feed, in_packet_input, cur_input_passthrough, cur_input_ini, q)'
    BY <1>2, <1>4, <1>5, EmitFeed, ZenonT(60)
  <2>4. DrainOK(feed, in_packet_input, cur_input_passthrough, cur_input_ini, q)'
    BY <1>1, <1>2, <1>3, <1>4, <1>5, EmitDrain, ZenonT(60)
  <2> QED
    BY <2>1, <2>2, <2>3, <2>4, <1>7, ZenonT(60) DEF Tracked
<1> QED
  BY <1>8, <1>9, <1>10, ZenonT(60) DEF Inv

\* The drain of a call whose input is taken: it emits a flit or does nothing.
LEMMA DrainStep ==
  ASSUME NEW fd, NEW inp, NEW pass, NEW cini, NEW qs, NEW outst, NEW aw,
         Draining(fd, inp, pass, cini, qs, outst, aw), Drain(qs, outst, aw)
  PROVE  Inv'
<1>1. /\ TypeOK /\ SoAlone /\ Leaves(fd, inp, pass, cini) /\ reqs' = reqs /\ done' = done
      /\ fd \in Seq(Flit) /\ inp \in BOOLEAN /\ pass \in BOOLEAN /\ cini \in Ini
      /\ qs \in [Ini -> Seq(Flit)] /\ outst \in [Ini -> Nat] /\ aw \in [Ini -> SUBSET Nat]
      /\ \A j \in Ini : QueueOK(j, qs[j], sent) /\ LastOK(j, qs[j], fd, inp, pass, cini)
      /\ FeedOK(fd, inp, pass, cini, qs) /\ DrainOK(fd, inp, pass, cini, qs)
      /\ CountOK(outst, aw)
  BY ZenonT(60) DEF Draining, Tracked
<1>2. rr_cursor' \in Ini
  <2>1. rr_cursor \in Ini /\ MaxIni \in Nat \ {0}
    BY <1>1, ConstantsAssumption, ZenonT(60) DEF TypeOK
  <2>2. (rr_cursor + 1) % MaxIni \in Ini
    BY <2>1 DEF Ini
  <2> QED
    BY <2>1, <2>2, ZenonT(60) DEF Drain
<1>3. PICK i : i = IF drain_in_packet THEN drain_active_ini ELSE rr_cursor
  BY ZenonT(60)
<1>4. i \in Ini
  BY <1>1, <1>3, ZenonT(60) DEF DrainOK, TypeOK
<1>5. CASE qs[i] # << >> /\ (drain_in_packet \/ outst[i] = 0)
  <2>1. Emit(i, qs, outst, aw)
    BY <1>3, <1>5, ZenonT(60) DEF Drain
  <2>2. outst[i] = 0 \/ (drain_in_packet /\ drain_active_ini = i)
    BY <1>3, <1>5, ZenonT(60)
  <2> QED
    BY <2>1, <2>2, <1>2, <1>4, <1>5, EmitOK, ZenonT(60)
<1>6. CASE ~(qs[i] # << >> /\ (drain_in_packet \/ outst[i] = 0))
  <2>1. /\ q' = qs /\ outstanding' = outst /\ awaiting' = aw
        /\ out' = out /\ sent' = sent
        /\ drain_active_ini' = drain_active_ini /\ drain_in_packet' = drain_in_packet
    BY <1>3, <1>6, ZenonT(60) DEF Drain, Keep, outVars
  <2>2. /\ feed' = fd /\ in_packet_input' = inp
        /\ cur_input_passthrough' = pass /\ cur_input_ini' = cini
    BY <1>1, ZenonT(60) DEF Leaves
  <2>3. TypeOK'
    BY <2>1, <2>2, <1>1, <1>2, ZenonT(60) DEF TypeOK
  <2>4. SoAlone'
    BY <2>1, <1>1, ZenonT(60) DEF SoAlone, StartsSO, Sop, Ordered
  <2>5. ASSUME NEW j \in Ini PROVE QueueOK(j, q[j], sent)'
    <3>1. QueueOK(j, q'[j], sent') /\ reqs' = reqs
      BY <2>1, <1>1, ZenonT(60)
    <3> QED
      BY <3>1, QueueSame, ZenonT(60)
  <2>6. \A j \in Ini : LastOK(j, q[j], feed, in_packet_input, cur_input_passthrough, cur_input_ini)'
    BY <2>1, <2>2, <1>1, ZenonT(60) DEF LastOK, Eop
  <2>7. FeedOK(feed, in_packet_input, cur_input_passthrough, cur_input_ini, q)'
    BY <2>1, <2>2, <1>1, ZenonT(60) DEF FeedOK
  <2>8. DrainOK(feed, in_packet_input, cur_input_passthrough, cur_input_ini, q)'
    BY <2>1, <2>2, <1>1, ZenonT(60) DEF DrainOK
  <2>9. CountOK(outstanding, awaiting)'
    BY <2>1, <1>1, ZenonT(60) DEF CountOK, Ordered
  <2> QED
    BY <2>3, <2>4, <2>5, <2>6, <2>7, <2>8, <2>9, ZenonT(60) DEF Inv, Tracked
<1> QED
  BY <1>5, <1>6, ZenonT(60)

-----------------------------------------------------------------------------
(* Reading a flit.                                                         *)

\* What the flit at the front of port 1 is.
LEMMA HeadOfFeed ==
  ASSUME Inv, feed # << >>
  PROVE  LET f == Head(feed) r == reqs[f.wr] IN
         /\ f \in Flit /\ f = feed[1]
         /\ f.wr = Len(reqs) /\ f.wr \in DOMAIN reqs
         /\ r = reqs[Len(reqs)] /\ r.ini \in Ini /\ r.len \in Nat
         /\ f.k = r.len - Len(feed) + 1 /\ f.k \in 1 .. r.len
         /\ Sop(f) <=> ~in_packet_input
         /\ Eop(f) <=> Len(feed) = 1
         /\ in_packet_input => cur_input_ini = r.ini
         /\ Len(feed) \in Nat /\ Len(feed) >= 1 /\ Len(feed) <= r.len
         /\ Tail(feed) \in Seq(Flit) /\ Len(Tail(feed)) = Len(feed) - 1
         /\ \A j \in 1 .. Len(Tail(feed)) :
              Tail(feed)[j] = [wr |-> Len(reqs), k |-> r.len - Len(Tail(feed)) + j]
         /\ Tail(feed) = << >> <=> Eop(f)
<1> DEFINE f == Head(feed)
           w == Len(reqs)
           r == reqs[w]
<1>1. /\ feed \in Seq(Flit) /\ TypeOK
      /\ FeedOK(feed, in_packet_input, cur_input_passthrough, cur_input_ini, q)
  BY ZenonT(60) DEF Inv, TypeOK, Tracked
<1>2. /\ w > 0 /\ Len(feed) <= r.len
      /\ \A j \in 1 .. Len(feed) : feed[j] = [wr |-> w, k |-> r.len - Len(feed) + j]
      /\ in_packet_input <=> Len(feed) < r.len
      /\ in_packet_input => cur_input_ini = r.ini
  BY <1>1, ZenonT(60) DEF FeedOK
<1>3. w \in DOMAIN reqs /\ r.ini \in Ini /\ r.len \in Nat
  BY <1>1, <1>2, RequestType
<1>4. /\ Len(feed) \in Nat /\ Len(feed) >= 1 /\ f = feed[1] /\ f \in Flit
      /\ Tail(feed) \in Seq(Flit) /\ Len(Tail(feed)) = Len(feed) - 1
      /\ \A j \in 1 .. Len(Tail(feed)) : Tail(feed)[j] = feed[j + 1]
  BY <1>1
<1>5. f = [wr |-> w, k |-> r.len - Len(feed) + 1]
  BY <1>2, <1>4
<1>6. f.wr = w /\ f.k = r.len - Len(feed) + 1
  BY <1>5
<1>7. /\ f.k \in 1 .. r.len
      /\ Sop(f) <=> ~in_packet_input
      /\ Eop(f) <=> Len(feed) = 1
  <2>1. /\ f.k \in 1 .. r.len
        /\ f.k = 1 <=> ~(Len(feed) < r.len)
        /\ f.k = r.len <=> Len(feed) = 1
    <3>1. \A len, n \in Nat :
            n >= 1 /\ n <= len =>
              /\ len - n + 1 \in 1 .. len
              /\ len - n + 1 = 1 <=> ~(n < len)
              /\ len - n + 1 = len <=> n = 1
      OBVIOUS
    <3>2. /\ r.len - Len(feed) + 1 \in 1 .. r.len
          /\ r.len - Len(feed) + 1 = 1 <=> ~(Len(feed) < r.len)
          /\ r.len - Len(feed) + 1 = r.len <=> Len(feed) = 1
      <4> HIDE DEF r
      <4> QED
        BY <3>1, <1>2, <1>3, <1>4, ZenonT(60)
    <3> HIDE DEF f
    <3> QED
      BY <3>2, <1>6, ZenonT(60)
  <2> QED
    BY <2>1, <1>2, <1>6, ZenonT(60) DEF Sop, Eop
<1>8. \A j \in 1 .. Len(Tail(feed)) :
        Tail(feed)[j] = [wr |-> w, k |-> r.len - Len(Tail(feed)) + j]
  <2> TAKE j \in 1 .. Len(Tail(feed))
  <2>1. Tail(feed)[j] = feed[j + 1] /\ j + 1 \in 1 .. Len(feed)
    BY <1>4
  <2>2. feed[j + 1] = [wr |-> w, k |-> r.len - Len(feed) + (j + 1)]
    BY <2>1, <1>2, ZenonT(60)
  <2>3. r.len - Len(feed) + (j + 1) = r.len - Len(Tail(feed)) + j
    <3> HIDE DEF r
    <3>1. PICK len, n, m : len = r.len /\ n = Len(feed) /\ m = Len(Tail(feed))
      BY ZenonT(60)
    <3>2. len \in Nat /\ n \in Nat /\ m = n - 1 /\ j \in 1 .. m
      BY <3>1, <1>3, <1>4, ZenonT(60)
    <3>3. len - n + (j + 1) = len - m + j
      BY <3>2
    <3> QED
      BY <3>1, <3>3, ZenonT(60)
  <2> QED
    BY <2>1, <2>2, <2>3, ZenonT(60)
<1>9. Tail(feed) = << >> <=> Len(feed) = 1
  <2>1. \A t \in Seq(Flit) : Len(t) = 0 <=> t = << >>
    OBVIOUS
  <2>2. Len(feed) - 1 = 0 <=> Len(feed) = 1
    BY <1>4
  <2> QED
    BY <2>1, <2>2, <1>4, Zenon
<1> QED
  BY <1>2, <1>3, <1>4, <1>6, <1>7, <1>8, <1>9, ZenonT(60)

\* Append, as the queues use it.
LEMMA AppendFlit ==
  ASSUME NEW s \in Seq(Flit), NEW f \in Flit
  PROVE  /\ Append(s, f) \in Seq(Flit) /\ Append(s, f) # << >>
         /\ Len(s) \in Nat /\ Len(Append(s, f)) = Len(s) + 1
         /\ Append(s, f)[Len(s) + 1] = f
         /\ \A k \in 1 .. Len(s) : Append(s, f)[k] = s[k]
         /\ s # << >> => Len(s) \in 1 .. Len(s)
         /\ s = << >> => Len(s) = 0
<1>1. Len(s) \in Nat /\ (s # << >> => Len(s) # 0) /\ (s = << >> => Len(s) = 0)
  OBVIOUS
<1>2. PICK t : t = Append(s, f)
  BY Zenon
<1>3. t \in Seq(Flit) /\ Len(t) = Len(s) + 1
  BY <1>2
<1>4. t[Len(s) + 1] = f /\ \A k \in 1 .. Len(s) : t[k] = s[k]
  BY <1>1, <1>2
<1>5. t # << >>
  BY <1>1, <1>3
<1>6. s # << >> => Len(s) \in 1 .. Len(s)
  BY <1>1
<1> QED
  BY <1>1, <1>2, <1>3, <1>4, <1>5, <1>6, Zenon

\* A call reads flit f of a request of initiator i and leaves the rest.
Reads(f, i, rest) ==
  feed # << >> /\ f = Head(feed) /\ rest = Tail(feed) /\ i = reqs[f.wr].ini

\* A call reads flit f and enqueues it, which makes the queues qs.
Enqueuing(f, i, rest, qs) ==
  /\ Inv /\ Reads(f, i, rest) /\ reqs[f.wr].exec = "SO" /\ (Sop(f) \/ ~cur_input_passthrough)
  /\ qs = Enqueued(i, f)

\* Enqueueing the flit that was read: with room for it, the rest of the call
\* finds the queues in order.
LEMMA EnqueueOK ==
  ASSUME MaxBacklog < QSize, NEW f, NEW i, NEW rest, NEW qs, Enqueuing(f, i, rest, qs),
         NEW outst, NEW aw, CountOK(outst, aw)
  PROVE  /\ qs \in [Ini -> Seq(Flit)] /\ rest \in Seq(Flit) /\ i \in Ini
         /\ Tracked(rest, ~Eop(f), FALSE, i, qs, outst, aw)
<1>0. /\ Inv /\ Reads(f, i, rest) /\ reqs[f.wr].exec = "SO" /\ (Sop(f) \/ ~cur_input_passthrough)
      /\ qs = Enqueued(i, f)
  BY ZenonT(60) DEF Enqueuing
<1>1. PICK w, r : w = Len(reqs) /\ r = reqs[Len(reqs)]
  BY ZenonT(60)
<1>2. /\ f \in Flit /\ f = feed[1] /\ f.wr = w /\ f.wr \in DOMAIN reqs
      /\ reqs[f.wr] = r /\ i = r.ini /\ i \in Ini /\ r.len \in Nat
      /\ f.k = r.len - Len(feed) + 1 /\ f.k \in 1 .. r.len
      /\ Sop(f) <=> ~in_packet_input
      /\ Eop(f) <=> Len(feed) = 1
      /\ in_packet_input => cur_input_ini = i
  BY <1>0, <1>1, HeadOfFeed, ZenonT(60) DEF Reads
<1>3. /\ Len(feed) \in Nat /\ Len(feed) >= 1 /\ Len(feed) <= r.len
      /\ rest \in Seq(Flit) /\ Len(rest) = Len(feed) - 1
      /\ \A j \in 1 .. Len(rest) : rest[j] = [wr |-> w, k |-> r.len - Len(rest) + j]
      /\ rest = << >> <=> Eop(f)
  BY <1>0, <1>1, HeadOfFeed, ZenonT(60) DEF Reads
<1>4. TypeOK /\ q \in [Ini -> Seq(Flit)]
  BY <1>0, ZenonT(60) DEF Inv, TypeOK
<1>5. FeedOK(feed, in_packet_input, cur_input_passthrough, cur_input_ini, q)
  BY <1>0, ZenonT(60) DEF Inv, Tracked
<1>6. PICK s : s = q[i]
  BY ZenonT(60)
<1>7. /\ s \in Seq(Flit)
      /\ QueueOK(i, s, sent)
      /\ LastOK(i, s, feed, in_packet_input, cur_input_passthrough, cur_input_ini)
  <2>1. QueueOK(i, q[i], sent)
        /\ LastOK(i, q[i], feed, in_packet_input, cur_input_passthrough, cur_input_ini)
    BY <1>0, <1>2, ZenonT(60) DEF Inv, Tracked
  <2> QED
    BY <2>1, <1>2, <1>4, <1>6, ZenonT(60)
<1>8. /\ Len(s) + Len(feed) <= MaxBacklog
      /\ \A j \in Ini : \A k \in 1 .. Len(q[j]) : Before(q[j][k], f)
      /\ ~in_packet_input => sent[f.wr] = r.len - Len(feed)
  <2>1. /\ Len(q[r.ini]) + Len(feed) <= MaxBacklog
        /\ \A j \in Ini : \A k \in 1 .. Len(q[j]) : Before(q[j][k], feed[1])
        /\ ~in_packet_input => sent[w] = r.len - Len(feed)
    BY <1>0, <1>1, <1>5, ZenonT(60) DEF FeedOK, Reads
  <2> QED
    BY <2>1, <1>2, <1>6, ZenonT(60)
<1>9. PICK t : t = Append(s, f)
  BY ZenonT(60)
<1>10. /\ t \in Seq(Flit) /\ t # << >>
       /\ Len(s) \in Nat /\ Len(t) = Len(s) + 1
       /\ t[Len(s) + 1] = f
       /\ \A k \in 1 .. Len(s) : t[k] = s[k]
       /\ s # << >> => Len(s) \in 1 .. Len(s)
       /\ s = << >> => Len(s) = 0
  BY <1>2, <1>7, <1>9, AppendFlit, ZenonT(60)
<1>11. Len(s) < QSize - 1
  BY <1>3, <1>8, <1>10, ConstantsAssumption
<1>12. qs = [q EXCEPT ![i] = t]
  BY <1>0, <1>6, <1>9, <1>11, ZenonT(60) DEF Enqueued
<1>13. /\ qs \in [Ini -> Seq(Flit)]
       /\ qs[i] = t
       /\ \A j \in Ini : j # i => qs[j] = q[j]
  BY <1>2, <1>4, <1>10, <1>12, ZenonT(60)
<1>14. /\ s = << >> \/ f.k = 1 => sent[f.wr] = f.k - 1
       /\ s # << >> => IF Eop(s[Len(s)]) THEN f.k = 1 ELSE f = Following(s[Len(s)])
  <2>1. CASE Sop(f)
    <3>1. f.k = 1 /\ sent[f.wr] = f.k - 1
      <4>1. f.k = 1 /\ sent[f.wr] = r.len - Len(feed) /\ f.k = r.len - Len(feed) + 1
        BY <2>1, <1>2, <1>8, ZenonT(60) DEF Sop
      <4>2. \A len, n \in Nat : len - n = (len - n + 1) - 1
        OBVIOUS
      <4> QED
        BY <4>1, <4>2, <1>2, <1>3, ZenonT(60)
    <3>2. s # << >> => Eop(s[Len(s)])
      BY <1>0, <2>1, <1>2, <1>7, ZenonT(60) DEF LastOK
    <3> QED
      BY <3>1, <3>2, ZenonT(60)
  <2>2. CASE ~Sop(f)
    <3>1. IF s = << >> THEN sent[f.wr] = f.k - 1 ELSE f = Following(s[Len(s)])
      BY <1>0, <2>2, <1>2, <1>7, ZenonT(60) DEF LastOK
    <3>2. s # << >> => ~Eop(s[Len(s)])
      <4> SUFFICES ASSUME s # << >> PROVE ~Eop(s[Len(s)])
        OBVIOUS
      <4>1. s[Len(s)] \in Flit
        BY <1>7, <1>10
      <4>2. f.wr = s[Len(s)].wr /\ f.k = s[Len(s)].k + 1
        BY <3>1 DEF Following
      <4> QED
        BY <4>1, <4>2, <1>2 DEF Eop, Flit
    <3> QED
      BY <3>1, <3>2, <2>2, ZenonT(60) DEF Sop
  <2> QED
    BY <2>1, <2>2, ZenonT(60)
<1>15. \A j \in Ini : QueueOK(j, qs[j], sent)
  <2>1. QueueOK(i, t, sent)
    BY <1>0, <1>2, <1>6, <1>7, <1>8, <1>9, <1>14, QueueAppend, ZenonT(60)
  <2>2. \A j \in Ini : QueueOK(j, q[j], sent)
    BY <1>0, ZenonT(60) DEF Inv, Tracked
  <2> QED
    BY <2>1, <2>2, <1>13, ZenonT(60)
<1>16. ~Eop(f) => /\ 1 \in 1 .. Len(rest)
                  /\ rest[1] = Following(f)
  <2> SUFFICES ASSUME ~Eop(f) PROVE 1 \in 1 .. Len(rest) /\ rest[1] = Following(f)
    OBVIOUS
  <2>1. 1 \in 1 .. Len(rest)
    BY <1>2, <1>3
  <2>2. rest[1] = [wr |-> w, k |-> r.len - Len(rest) + 1]
    BY <2>1, <1>3
  <2>3. r.len - Len(rest) + 1 = f.k + 1
    BY <1>2, <1>3
  <2> QED
    BY <2>1, <2>2, <2>3, <1>2, ZenonT(60) DEF Following
<1>17. ASSUME NEW j \in Ini PROVE LastOK(j, qs[j], rest, ~Eop(f), FALSE, i)
  <2>1. CASE j = i
    <3>1. qs[j] # << >> /\ qs[j][Len(qs[j])] = f
      BY <2>1, <1>10, <1>13, ZenonT(60)
    <3> QED
      BY <3>1, <2>1, <1>16, ZenonT(60) DEF LastOK
  <2>2. CASE j # i
    <3>1. LastOK(j, q[j], feed, in_packet_input, cur_input_passthrough, cur_input_ini)
      BY <1>0, ZenonT(60) DEF Inv, Tracked
    <3>2. qs[j] = q[j]
      BY <2>2, <1>13, ZenonT(60)
    <3> QED
      BY <3>1, <3>2, <2>2, <1>2, ZenonT(60) DEF LastOK
  <2> QED
    BY <2>1, <2>2, ZenonT(60)
<1>18. FeedOK(rest, ~Eop(f), FALSE, i, qs)
  <2>1. CASE Eop(f)
    BY <2>1, <1>3, ZenonT(60) DEF FeedOK
  <2>2. CASE ~Eop(f)
    <3>1. Len(rest) < r.len /\ Len(rest) <= r.len /\ w > 0
      <4>1. Len(rest) < r.len /\ Len(rest) <= r.len
        <5>1. PICK len, n, m : len = r.len /\ n = Len(feed) /\ m = Len(rest)
          BY ZenonT(60)
        <5>2. len \in Nat /\ n \in Nat /\ m = n - 1 /\ n <= len
          BY <5>1, <1>2, <1>3, ZenonT(60)
        <5>3. m < len /\ m <= len
          BY <5>2
        <5> QED
          BY <5>1, <5>3, ZenonT(60)
      <4>2. w \in 1 .. Len(reqs) /\ Len(reqs) \in Nat
        BY <1>2, <1>4, RequestType, ZenonT(60)
      <4>3. w > 0
        BY <4>2
      <4> QED
        BY <4>1, <4>3, ZenonT(60)
    <3>2. ASSUME NEW j \in Ini, NEW k \in 1 .. Len(qs[j])
          PROVE  Before(qs[j][k], rest[1])
      <4>1. qs[j][k] = f \/ Before(qs[j][k], f)
        <5>1. CASE j = i
          <6>1. qs[j] = t /\ k \in 1 .. Len(s) + 1 /\ Len(s) \in Nat
            BY <5>1, <1>10, <1>13, ZenonT(60)
          <6>2. CASE k = Len(s) + 1
            BY <6>1, <6>2, <1>10, ZenonT(60)
          <6>3. CASE k # Len(s) + 1
            <7>1. k \in 1 .. Len(s)
              BY <6>1, <6>3
            <7> QED
              BY <7>1, <6>1, <1>2, <1>6, <1>8, <1>10, ZenonT(60)
          <6> QED
            BY <6>2, <6>3, ZenonT(60)
        <5>2. CASE j # i
          BY <5>2, <1>8, <1>13, ZenonT(60)
        <5> QED
          BY <5>1, <5>2, ZenonT(60)
      <4>2. qs[j][k] \in Flit
        BY <1>13
      <4> QED
        <5>1. rest[1].wr = f.wr /\ rest[1].k = f.k + 1
          BY <2>2, <1>16 DEF Following
        <5>2. /\ f.wr \in Nat /\ f.k \in Nat
              /\ qs[j][k].wr \in Nat /\ qs[j][k].k \in Nat
          BY <4>2, <1>2, ZenonT(60) DEF Flit
        <5> QED
          <6>1. PICK a, b : a = qs[j][k] /\ b = rest[1]
            BY ZenonT(60)
          <6>2. /\ b.wr = f.wr /\ b.k = f.k + 1 /\ (a = f \/ Before(a, f))
                /\ f.wr \in Nat /\ f.k \in Nat /\ a.wr \in Nat /\ a.k \in Nat
            BY <4>1, <5>1, <5>2, <6>1, ZenonT(60)
          <6>3. Before(a, b)
            BY <6>2 DEF Before
          <6> QED
            BY <6>1, <6>3, ZenonT(60)
    <3>3. Len(qs[r.ini]) + Len(rest) <= MaxBacklog
      <4>1. Len(qs[r.ini]) = Len(s) + 1
        BY <1>2, <1>10, <1>13, ZenonT(60)
      <4> QED
        BY <4>1, <1>3, <1>8, <1>10, ConstantsAssumption
    <3> QED
      BY <1>0, <3>1, <3>2, <3>3, <2>2, <1>1, <1>2, <1>3, ZenonT(60) DEF FeedOK
  <2> QED
    BY <2>1, <2>2, ZenonT(60)
<1>19. DrainOK(rest, ~Eop(f), FALSE, i, qs)
  <2> SUFFICES ASSUME drain_in_packet
               PROVE  /\ drain_active_ini \in Ini
                      /\ qs[drain_active_ini] # << >> /\ qs[drain_active_ini][1].k # 1
    BY ZenonT(60) DEF DrainOK
  <2>1. /\ drain_active_ini \in Ini
        /\ q[drain_active_ini] = << >> => in_packet_input /\ cur_input_ini = drain_active_ini
        /\ q[drain_active_ini] # << >> => q[drain_active_ini][1].k # 1
    BY <1>0, ZenonT(60) DEF Inv, Tracked, DrainOK
  <2>2. CASE drain_active_ini = i
    <3>1. CASE s = << >>
      <4>1. qs[i] = t /\ t # << >> /\ t[1] = f
        <5>1. Len(s) + 1 = 1
          BY <3>1, <1>10
        <5> QED
          BY <5>1, <1>10, <1>13, ZenonT(60)
      <4>2. f.k # 1
        BY <3>1, <2>1, <2>2, <1>2, <1>6, ZenonT(60) DEF Sop
      <4> QED
        BY <4>1, <4>2, <2>1, <2>2, ZenonT(60)
    <3>2. CASE s # << >>
      <4>1. 1 \in 1 .. Len(s)
        BY <3>2, <1>10
      <4> QED
        BY <4>1, <3>2, <2>1, <2>2, <1>6, <1>10, <1>13, ZenonT(60)
    <3> QED
      BY <3>1, <3>2, ZenonT(60)
  <2>3. CASE drain_active_ini # i
    BY <2>1, <2>3, <1>2, <1>13, ZenonT(60)
  <2> QED
    BY <2>1, <2>2, <2>3, ZenonT(60)
<1> QED
  BY <1>2, <1>3, <1>13, <1>15, <1>17, <1>18, <1>19, ZenonT(60) DEF Tracked

\* A call passes on flit f of a request of initiator i, the first one of rest
\* being next; outst and aw are the counters after its notification.
Passing(f, i, rest, outst, aw) ==
  /\ Inv /\ Reads(f, i, rest) /\ (Sop(f) \/ cur_input_passthrough)
  /\ outst \in [Ini -> Nat] /\ aw \in [Ini -> SUBSET Nat] /\ CountOK(outst, aw)
  /\ Sop(f) => Passthrough(f.wr, outst)
  /\ Output(f)
  /\ IF Sop(f) /\ Ordered(f.wr) THEN Count(i, f.wr, outst, aw) ELSE Keep(outst, aw)
  /\ Leaves(rest, ~Eop(f), TRUE, i)
  /\ UNCHANGED <<reqs, q, drainVars, done>>

\* The flit that is passed on is the next one of its request, and none of the
\* flits of that request is in a queue.
LEMMA PassedFlit ==
  ASSUME NEW f, NEW i, NEW rest, NEW outst, NEW aw, Passing(f, i, rest, outst, aw)
  PROVE  /\ f \in Flit /\ f.wr \in DOMAIN reqs /\ reqs[f.wr].ini = i
         /\ f.k \in Nat /\ f.k >= 1 /\ sent[f.wr] = f.k - 1
         /\ \A j \in Ini : \A k \in 1 .. Len(q[j]) : q[j][k].wr # f.wr
<1>1. Inv /\ Reads(f, i, rest) /\ (Sop(f) \/ cur_input_passthrough)
  BY ZenonT(60) DEF Passing
<1>2. PICK w, r : w = Len(reqs) /\ r = reqs[Len(reqs)]
  BY ZenonT(60)
<1>3. /\ f \in Flit /\ f.wr = w /\ f.wr \in DOMAIN reqs
      /\ reqs[f.wr] = r /\ i = r.ini /\ r.len \in Nat
      /\ f.k = r.len - Len(feed) + 1
      /\ Sop(f) <=> ~in_packet_input
      /\ Len(feed) \in Nat /\ Len(feed) <= r.len
  BY <1>1, <1>2, HeadOfFeed, ZenonT(60) DEF Reads
<1>4. /\ \A j \in Ini : \A k \in 1 .. Len(q[j]) : q[j][k].wr # f.wr
      /\ sent[f.wr] = r.len - Len(feed)
  <2>1. FeedOK(feed, in_packet_input, cur_input_passthrough, cur_input_ini, q)
    BY <1>1, ZenonT(60) DEF Inv, Tracked
  <2>2. ~in_packet_input \/ cur_input_passthrough =>
          /\ sent[w] = r.len - Len(feed)
          /\ \A j \in Ini : \A k \in 1 .. Len(q[j]) : q[j][k].wr # w
    BY <1>1, <1>2, <2>1, ZenonT(60) DEF FeedOK, Reads
  <2> QED
    BY <2>2, <1>1, <1>3, ZenonT(60)
<1>5. \A len, n \in Nat : n <= len =>
        len - n + 1 \in Nat /\ len - n + 1 >= 1 /\ len - n = (len - n + 1) - 1
  OBVIOUS
<1>6. r.len - Len(feed) + 1 \in Nat /\ r.len - Len(feed) + 1 >= 1
      /\ r.len - Len(feed) = (r.len - Len(feed) + 1) - 1
  BY <1>3, <1>5, ZenonT(60)
<1> QED
  BY <1>3, <1>4, <1>6, ZenonT(60)

\* What is left on port 1 is the rest of the newest request.
LEMMA PassFeed ==
  ASSUME NEW f, NEW i, NEW rest, NEW outst, NEW aw, Passing(f, i, rest, outst, aw)
  PROVE  FeedOK(feed, in_packet_input, cur_input_passthrough, cur_input_ini, q)'
<1>1. Inv /\ Reads(f, i, rest) /\ q' = q /\ reqs' = reqs /\ Output(f)
  BY ZenonT(60) DEF Passing
<1>2. /\ feed' = rest /\ in_packet_input' = ~Eop(f)
      /\ cur_input_passthrough' = TRUE /\ cur_input_ini' = i
  BY DEF Passing, Leaves
<1>3. PICK w, r, n, m : w = Len(reqs) /\ r = reqs[Len(reqs)] /\ n = Len(feed) /\ m = Len(rest)
  BY ZenonT(60)
<1>4. /\ f \in Flit /\ f = feed[1] /\ f.wr = w /\ f.wr \in DOMAIN reqs
      /\ i = r.ini /\ i \in Ini /\ r.len \in Nat /\ f.k = r.len - n + 1
  BY <1>1, <1>3, HeadOfFeed, ZenonT(60) DEF Reads
<1>5. /\ n \in Nat /\ n >= 1 /\ n <= r.len
      /\ rest \in Seq(Flit) /\ m = n - 1
      /\ \A j \in 1 .. m : rest[j] = [wr |-> w, k |-> r.len - m + j]
      /\ rest = << >> <=> Eop(f)
      /\ Eop(f) <=> n = 1
  BY <1>1, <1>3, HeadOfFeed, ZenonT(60) DEF Reads
<1>6. TypeOK /\ q \in [Ini -> Seq(Flit)]
  BY <1>1, Zenon DEF Inv, TypeOK
<1>7. CASE Eop(f)
  BY <1>2, <1>5, <1>7, ZenonT(60) DEF FeedOK
<1>8. CASE ~Eop(f)
  <2>1. r.len \in Nat /\ n \in Nat /\ n >= 1 /\ n <= r.len /\ m = n - 1 /\ n # 1
    BY <1>4, <1>5, <1>8, ZenonT(60)
  <2>2. m \in Nat
    BY <2>1
  <2>3. /\ m < r.len /\ m <= r.len /\ 1 \in 1 .. m
        /\ r.len - m + 1 = (r.len - n + 1) + 1
    BY <2>1
  <2>4. w > 0 /\ w \in 1 .. MaxWrs
    BY <1>3, <1>4, <1>6, RequestType
  <2>5. rest[1].wr = f.wr /\ rest[1].k = f.k + 1
    <3>1. rest[1] = [wr |-> w, k |-> r.len - m + 1]
      BY <2>3, <1>5, ZenonT(60)
    <3>2. rest[1].wr = w /\ rest[1].k = r.len - m + 1
      BY <3>1
    <3> QED
      BY <3>2, <2>3, <1>4, ZenonT(60)
  <2>6. /\ \A j \in Ini : \A k \in 1 .. Len(q[j]) : Before(q[j][k], f)
        /\ Len(q[r.ini]) + n <= MaxBacklog
    <3>1. FeedOK(feed, in_packet_input, cur_input_passthrough, cur_input_ini, q)
      BY <1>1, ZenonT(60) DEF Inv, Tracked
    <3> QED
      BY <3>1, <1>1, <1>3, <1>4, ZenonT(60) DEF FeedOK, Reads
  <2>7. ASSUME NEW j \in Ini, NEW k \in 1 .. Len(q[j])
        PROVE  Before(q[j][k], rest[1])
    <3>1. PICK g : g = q[j][k]
      BY ZenonT(60)
    <3>2. g \in Flit /\ Before(g, f)
      BY <3>1, <2>6, <1>6
    <3>3. f.wr \in Nat /\ f.k \in Nat /\ g.wr \in Nat /\ g.k \in Nat
      BY <3>2, <1>4, ZenonT(60) DEF Flit
    <3>4. Before(g, rest[1])
      BY <2>5, <3>2, <3>3 DEF Before
    <3> QED
      BY <3>1, <3>4, ZenonT(60)
  <2>8. Len(q[r.ini]) + m <= MaxBacklog
    <3>1. PICK a : a = Len(q[r.ini])
      BY ZenonT(60)
    <3>2. a \in Nat
      BY <3>1, <1>4, <1>6
    <3>3. a + m <= MaxBacklog
      <4>1. a + n <= MaxBacklog
        BY <3>1, <2>6, ZenonT(60)
      <4> QED
        BY <4>1, <3>2, <1>5, ConstantsAssumption
    <3> QED
      BY <3>1, <3>3, ZenonT(60)
  <2>9. /\ sent'[w] = r.len - m
        /\ \A j \in Ini : \A k \in 1 .. Len(q[j]) : q[j][k].wr # w
    <3>1. /\ sent[f.wr] = f.k - 1
          /\ \A j \in Ini : \A k \in 1 .. Len(q[j]) : q[j][k].wr # f.wr
      BY PassedFlit, ZenonT(60)
    <3>2. sent'[f.wr] = sent[f.wr] + 1
      BY <1>1, <1>4, <1>6, OutputType, ZenonT(60)
    <3>3. (f.k - 1) + 1 = r.len - m
      BY <2>1, <1>4
    <3> QED
      BY <3>1, <3>2, <3>3, <1>4, ZenonT(60)
  <2> QED
    BY <2>3, <2>4, <2>7, <2>8, <2>9, <1>1, <1>2, <1>3, <1>4, <1>5, <1>8, ZenonT(60) DEF FeedOK
<1> QED
  BY <1>7, <1>8, ZenonT(60)

\* Passing on the flit that was read.
LEMMA PassOK ==
  ASSUME NEW f, NEW i, NEW rest, NEW outst, NEW aw, Passing(f, i, rest, outst, aw)
  PROVE  Inv'
<1>1. /\ Inv /\ TypeOK /\ Reads(f, i, rest) /\ Output(f) /\ (Sop(f) \/ cur_input_passthrough)
      /\ outst \in [Ini -> Nat] /\ aw \in [Ini -> SUBSET Nat] /\ CountOK(outst, aw)
      /\ q' = q /\ reqs' = reqs /\ done' = done
  BY ZenonT(60) DEF Passing, Inv
<1>2. /\ feed' = rest /\ in_packet_input' = ~Eop(f)
      /\ cur_input_passthrough' = TRUE /\ cur_input_ini' = i
  BY ZenonT(60) DEF Passing, Leaves
<1>3. /\ f \in Flit /\ f.wr \in DOMAIN reqs /\ reqs[f.wr].ini = i
      /\ f.k \in Nat /\ f.k >= 1 /\ sent[f.wr] = f.k - 1
      /\ \A j \in Ini : \A k \in 1 .. Len(q[j]) : q[j][k].wr # f.wr
  BY PassedFlit, ZenonT(60)
<1>4. i \in Ini /\ rest \in Seq(Flit) /\ (Sop(f) <=> ~in_packet_input)
  BY <1>1, HeadOfFeed, ZenonT(60) DEF Reads
<1>5. sent' = [sent EXCEPT ![f.wr] = @ + 1]
  BY <1>1, ZenonT(60) DEF Output
<1>6. /\ outstanding' \in [Ini -> Nat]
      /\ awaiting' \in [Ini -> SUBSET Nat]
      /\ CountOK(outstanding, awaiting)'
  <2>1. CASE Sop(f) /\ Ordered(f.wr)
    <3>1. sent[f.wr] = 0
      BY <2>1, <1>3 DEF Sop
    <3>2. Count(reqs[f.wr].ini, f.wr, outst, aw)
      BY <2>1, <1>3, ZenonT(60) DEF Passing
    <3> QED
      BY <3>1, <3>2, <1>1, <1>3, <1>5, CountAdd, ZenonT(60)
  <2>2. CASE ~(Sop(f) /\ Ordered(f.wr))
    <3>1. Keep(outst, aw)
      BY <2>2, ZenonT(60) DEF Passing
    <3>2. sent[f.wr] > 0 \/ ~Ordered(f.wr)
      BY <2>2, <1>3 DEF Sop
    <3>3. CountOK(outstanding, awaiting)'
      BY <3>1, <3>2, <1>1, <1>3, <1>5, CountKeep, ZenonT(60)
    <3> QED
      BY <3>1, <3>3, <1>1, ZenonT(60) DEF Keep
  <2> QED
    BY <2>1, <2>2, ZenonT(60)
<1>7. SoAlone'
  <2>1. Sop(f) /\ reqs[f.wr].roi /\ reqs[f.wr].exec = "SO" => outst[reqs[f.wr].ini] = 0
    BY ZenonT(60) DEF Passing, Passthrough
  <2> QED
    BY <2>1, <1>1, <1>3, OutputAlone, ZenonT(60)
<1>8. TypeOK'
  <2>1. /\ out' \in Flit /\ out'.wr \in DOMAIN reqs
        /\ sent' \in [1 .. MaxWrs -> Nat]
        /\ \A v \in 1 .. MaxWrs : v > Len(reqs) => sent'[v] = 0
    BY <1>1, <1>3, OutputType, ZenonT(60)
  <2>2. drainVars' = drainVars
    BY ZenonT(60) DEF Passing
  <2> QED
    BY <2>1, <2>2, <1>1, <1>2, <1>4, <1>6, ZenonT(60) DEF TypeOK, drainVars
<1>9. ASSUME NEW j \in Ini PROVE QueueOK(j, q[j], sent)'
  <2>1. QueueOK(j, q[j], sent)
    BY <1>1, ZenonT(60) DEF Inv, Tracked
  <2>2. reqs \in Seq(Request) /\ sent \in [1 .. MaxWrs -> Nat] /\ DOMAIN reqs \subseteq 1 .. MaxWrs
    BY <1>1, RequestType, ZenonT(60) DEF TypeOK
  <2>3. QueueOK(j, q[j], [sent EXCEPT ![f.wr] = @ + 1])
    BY <2>1, <2>2, <1>3, QueueOther, ZenonT(60)
  <2>4. QueueOK(j, q'[j], sent')
    BY <2>3, <1>1, <1>5, ZenonT(60)
  <2> QED
    BY <2>4, <1>1, QueueSame, ZenonT(60)
<1>10. ASSUME NEW j \in Ini
       PROVE  LastOK(j, q[j], feed, in_packet_input, cur_input_passthrough, cur_input_ini)'
  <2>1. LastOK(j, q[j], feed, in_packet_input, cur_input_passthrough, cur_input_ini)
    BY <1>1, ZenonT(60) DEF Inv, Tracked
  <2>2. q[j] # << >> => Eop(q[j][Len(q[j])])
    BY <2>1, <1>1, <1>4, ZenonT(60) DEF LastOK
  <2> QED
    BY <2>2, <1>1, <1>2, ZenonT(60) DEF LastOK, Eop
<1>11. DrainOK(feed, in_packet_input, cur_input_passthrough, cur_input_ini, q)'
  <2>1. DrainOK(feed, in_packet_input, cur_input_passthrough, cur_input_ini, q)
    BY <1>1, ZenonT(60) DEF Inv, Tracked
  <2>2. drain_in_packet => drain_active_ini \in Ini /\ q[drain_active_ini] # << >>
                           /\ q[drain_active_ini][1].k # 1
    BY <2>1, <1>1, <1>4, ZenonT(60) DEF DrainOK
  <2>3. drain_in_packet' = drain_in_packet /\ drain_active_ini' = drain_active_ini
    BY ZenonT(60) DEF Passing, drainVars
  <2> QED
    BY <2>2, <2>3, <1>1, ZenonT(60) DEF DrainOK
<1>12. FeedOK(feed, in_packet_input, cur_input_passthrough, cur_input_ini, q)'
  BY PassFeed, ZenonT(60)
<1> QED
  BY <1>6, <1>7, <1>8, <1>9, <1>10, <1>11, <1>12, ZenonT(60) DEF Inv, Tracked

-----------------------------------------------------------------------------
(* The actions.                                                            *)

\* Posting a request adds it at the end and puts its flits on port 1.
LEMMA PostOK ==
  ASSUME Inv, NEW p \in Request, Post(p)
  PROVE  Inv'
<1>1. /\ TypeOK /\ q \in [Ini -> Seq(Flit)]
      /\ reqs \in Seq(Request) /\ Len(reqs) \in Nat /\ DOMAIN reqs = 1 .. Len(reqs)
      /\ SoAlone
  BY RequestType, ZenonT(60) DEF Inv, TypeOK
<1>2. /\ Len(reqs) < MaxWrs /\ feed = << >> /\ Len(q[p.ini]) + p.len <= MaxBacklog
      /\ reqs' = Append(reqs, p)
      /\ feed' = [k \in 1 .. p.len |-> [wr |-> Len(reqs'), k |-> k]]
      /\ q' = q /\ outstanding' = outstanding /\ awaiting' = awaiting /\ done' = done
      /\ out' = out /\ sent' = sent
      /\ rr_cursor' = rr_cursor /\ drain_active_ini' = drain_active_ini
      /\ drain_in_packet' = drain_in_packet
      /\ in_packet_input' = in_packet_input
      /\ cur_input_passthrough' = cur_input_passthrough /\ cur_input_ini' = cur_input_ini
  BY ZenonT(60) DEF Post, inputVars, drainVars, outVars
<1>3. PICK w : w = Len(reqs) + 1
  OBVIOUS
<1>4. /\ reqs' \in Seq(Request) /\ Len(reqs') = w /\ reqs'[w] = p
      /\ DOMAIN reqs' = 1 .. w
      /\ \A v \in DOMAIN reqs : v # w /\ v < w /\ v \in DOMAIN reqs' /\ reqs'[v] = reqs[v]
  <2>1. reqs \in Seq(Request) /\ reqs' = Append(reqs, p)
    BY <1>1, <1>2, ZenonT(60)
  <2> QED
    BY <2>1, <1>3
<1>5. p.len \in Nat /\ p.len >= 1 /\ p.ini \in Ini /\ w \in Nat /\ w > 0
  BY <1>1, <1>3, ConstantsAssumption DEF Request
<1>6. /\ feed' \in Seq(Flit) /\ Len(feed') = p.len /\ feed' # << >>
      /\ \A j \in 1 .. Len(feed') : feed'[j] = [wr |-> w, k |-> p.len - Len(feed') + j]
  <2>1. feed' = [k \in 1 .. p.len |-> [wr |-> w, k |-> k]]
    BY <1>2, <1>4, Zenon
  <2>2. \A k \in 1 .. p.len : [wr |-> w, k |-> k] \in Flit
    BY <1>5 DEF Flit
  <2>3. feed' \in Seq(Flit) /\ Len(feed') = p.len
    BY <2>1, <2>2, <1>5
  <2>4. \A j \in 1 .. p.len : feed'[j] = [wr |-> w, k |-> j] /\ p.len - p.len + j = j
    BY <2>1, <1>5
  <2>5. feed' # << >>
    BY <2>3, <1>5
  <2> QED
    BY <2>3, <2>4, <2>5
<1>7. ~in_packet_input
  <2>1. FeedOK(feed, in_packet_input, cur_input_passthrough, cur_input_ini, q)
    BY ZenonT(60) DEF Inv, Tracked
  <2> QED
    BY <2>1, <1>2, ZenonT(60) DEF FeedOK
<1>8. TypeOK'
  <2>1. Len(reqs') <= MaxWrs
    BY <1>1, <1>2, <1>3, <1>4, ConstantsAssumption
  <2>2. out # NoFlit => out.wr \in DOMAIN reqs'
    BY <1>1, <1>4, ZenonT(60) DEF TypeOK
  <2>3. \A v \in 1 .. MaxWrs : v > w => sent[v] = 0
    BY <1>1, <1>3 DEF TypeOK
  <2>4. done \subseteq DOMAIN reqs'
    BY <1>1, <1>4, ZenonT(60) DEF TypeOK
  <2> QED
    BY <2>1, <2>2, <2>3, <2>4, <1>1, <1>2, <1>4, <1>6, ZenonT(60) DEF TypeOK
<1>9. sent[w] = 0
  BY <1>1, <1>2, <1>3, ConstantsAssumption DEF TypeOK
<1>10. SoAlone'
  <2> SUFFICES ASSUME StartsSO', NEW v \in DOMAIN reqs' \ {out.wr}, Ordered(v)',
                      reqs'[v].ini = reqs'[out.wr].ini, sent[v] > 0
               PROVE  v \in done
    BY <1>2, ZenonT(60) DEF SoAlone
  <2>1. v # w
    BY <1>9
  <2>2. v \in DOMAIN reqs /\ reqs'[v] = reqs[v]
    BY <2>1, <1>1, <1>3, <1>4
  <2>3. out # NoFlit
    BY <1>2, ZenonT(60) DEF StartsSO
  <2>4. out.wr \in DOMAIN reqs /\ reqs'[out.wr] = reqs[out.wr]
    BY <2>3, <1>1, <1>4, ZenonT(60) DEF TypeOK
  <2> QED
    BY <2>2, <2>4, <1>1, <1>2, ZenonT(60) DEF SoAlone, StartsSO, Ordered, Sop
<1>11. ASSUME NEW j \in Ini PROVE QueueOK(j, q[j], sent)'
  <2>1. QueueOK(j, q[j], sent)
    BY ZenonT(60) DEF Inv, Tracked
  <2>2. \A k \in 1 .. Len(q[j]) : /\ q[j][k].wr \in DOMAIN reqs'
                                  /\ reqs'[q[j][k].wr] = reqs[q[j][k].wr]
    BY <2>1, <1>4, ZenonT(60) DEF QueueOK
  <2>3. Len(q[j]) \in Nat
    BY <1>1
  <2>5. \A k \in 1 .. Len(q[j]) - 1 : k \in 1 .. Len(q[j])
    BY <2>3
  <2>6. ASSUME NEW k \in 1 .. Len(q[j]) - 1
        PROVE  IF q[j][k].k = reqs'[q[j][k].wr].len THEN q[j][k + 1].k = 1 ELSE q[j][k + 1] = Following(q[j][k])
    BY <2>1, <2>2, <2>5, ZenonT(60) DEF QueueOK, Eop
  <2>7. ASSUME NEW k \in 1 .. Len(q[j])
        PROVE  /\ q[j][k].wr \in DOMAIN reqs' /\ reqs'[q[j][k].wr].ini = j
               /\ reqs'[q[j][k].wr].exec = "SO"
               /\ q[j][k].k \in 1 .. reqs'[q[j][k].wr].len
               /\ k = 1 \/ q[j][k].k = 1 => sent[q[j][k].wr] = q[j][k].k - 1
               /\ \A m \in 1 .. Len(q[j]) : k < m => Before(q[j][k], q[j][m])
    BY <2>1, <2>2, ZenonT(60) DEF QueueOK
  <2>8. q[j] \in Seq(Flit)
    BY <1>1, ZenonT(60)
  <2> QED
    BY <2>6, <2>7, <2>8, <1>2, ZenonT(60) DEF QueueOK, Eop
<1>12. ASSUME NEW j \in Ini
       PROVE  LastOK(j, q[j], feed, in_packet_input, cur_input_passthrough, cur_input_ini)'
  <2>1. LastOK(j, q[j], feed, in_packet_input, cur_input_passthrough, cur_input_ini)
        /\ QueueOK(j, q[j], sent)
    BY ZenonT(60) DEF Inv, Tracked
  <2>2. q[j] # << >> => Len(q[j]) \in 1 .. Len(q[j])
    BY <1>1
  <2>3. q[j] # << >> => reqs'[q[j][Len(q[j])].wr] = reqs[q[j][Len(q[j])].wr]
    BY <2>1, <2>2, <1>4, ZenonT(60) DEF QueueOK
  <2>4. q[j] # << >> => Eop(q[j][Len(q[j])])
    BY <2>1, <1>7, ZenonT(60) DEF LastOK
  <2> QED
    BY <2>3, <2>4, <1>2, <1>7, ZenonT(60) DEF LastOK, Eop
<1>13. FeedOK(feed, in_packet_input, cur_input_passthrough, cur_input_ini, q)'
  <2>1. ASSUME NEW i \in Ini, NEW j \in 1 .. Len(q[i])
        PROVE  q[i][j].wr # w /\ Before(q[i][j], feed'[1])
    <3>1. QueueOK(i, q[i], sent)
      BY ZenonT(60) DEF Inv, Tracked
    <3>2. q[i][j].wr # w /\ q[i][j].wr < w
      BY <3>1, <1>4, ZenonT(60) DEF QueueOK
    <3>3. feed'[1].wr = w
      <4>1. 1 \in 1 .. Len(feed')
        BY <1>5, <1>6
      <4>2. feed'[1] = [wr |-> w, k |-> p.len - Len(feed') + 1]
        BY <4>1, <1>6, ZenonT(60)
      <4> QED
        BY <4>2
    <3> QED
      BY <3>2, <3>3, ZenonT(60) DEF Before
  <2>2. p.len - Len(feed') = 0 /\ ~(Len(feed') < p.len) /\ Len(feed') <= p.len
    BY <1>5, <1>6
  <2> QED
    BY <2>1, <2>2, <1>2, <1>4, <1>5, <1>6, <1>7, <1>9, ZenonT(60) DEF FeedOK
<1>14. DrainOK(feed, in_packet_input, cur_input_passthrough, cur_input_ini, q)'
  <2>1. DrainOK(feed, in_packet_input, cur_input_passthrough, cur_input_ini, q)
    BY ZenonT(60) DEF Inv, Tracked
  <2> QED
    BY <2>1, <1>2, <1>7, ZenonT(60) DEF DrainOK
<1>15. CountOK(outstanding, awaiting)'
  <2>1. CountOK(outstanding, awaiting)
    BY ZenonT(60) DEF Inv, Tracked
  <2>2. \A i \in Ini : /\ \A v \in awaiting[i] : v \in DOMAIN reqs' /\ reqs'[v].ini = i /\ sent[v] > 0
                       /\ outstanding[i] = Cardinality(awaiting[i])
    BY <2>1, <1>4, ZenonT(60) DEF CountOK
  <2>3. ASSUME NEW v \in DOMAIN reqs', reqs'[v].exec # "NO", sent[v] > 0
        PROVE  v \in awaiting[reqs'[v].ini] \cup done
    <3>1. v # w
      BY <2>3, <1>9
    <3>2. v \in DOMAIN reqs /\ reqs'[v] = reqs[v]
      BY <3>1, <1>1, <1>3, <1>4
    <3> QED
      BY <3>2, <2>1, <2>3, ZenonT(60) DEF CountOK, Ordered
  <2> QED
    BY <2>2, <2>3, <1>2, ZenonT(60) DEF CountOK, Ordered
<1> QED
  BY <1>8, <1>10, <1>11, <1>12, <1>13, <1>14, <1>15, ZenonT(60) DEF Inv, Tracked

\* An answer.
LEMMA RespondOK ==
  ASSUME Inv, Respond
  PROVE  Inv'
<1>1. done \subseteq done' /\ done' \subseteq DOMAIN reqs
  <2>1. done \subseteq DOMAIN reqs
    BY ZenonT(60) DEF Inv, TypeOK
  <2> QED
    BY <2>1 DEF Respond
<1>2. UNCHANGED <<reqs, feed, q, outstanding, in_packet_input, cur_input_passthrough,
                  cur_input_ini, rr_cursor, drain_active_ini, drain_in_packet, out, sent, awaiting>>
  BY ZenonT(60) DEF Respond, inputVars, drainVars, outVars
<1> QED
  BY <1>1, <1>2, SameOK, ZenonT(60)

\* A call, whatever it reads.
LEMMA HandlerOK ==
  ASSUME Inv, MaxBacklog < QSize, NEW n \in Notify \cup {NoNotify}, Handler(n)
  PROVE  Inv'
<1>1. PICK outst, aw : outst = Notified(n) /\ aw = Awaited(n)
  BY ZenonT(60)
<1>2. /\ outst \in [Ini -> Nat] /\ aw \in [Ini -> SUBSET Nat] /\ CountOK(outst, aw)
      /\ TypeOK /\ SoAlone
  BY <1>1, NotifiedOK, ZenonT(60) DEF Inv, Tracked
<1>3. /\ in_packet_input \in BOOLEAN /\ cur_input_passthrough \in BOOLEAN /\ cur_input_ini \in Ini
      /\ q \in [Ini -> Seq(Flit)] /\ feed \in Seq(Flit)
  BY <1>2, ZenonT(60) DEF TypeOK
<1>4. CASE Idle(n)
  <2>1. /\ Drain(q, outst, aw) /\ reqs' = reqs /\ done' = done /\ feed' = feed
        /\ in_packet_input' = in_packet_input
        /\ cur_input_passthrough' = cur_input_passthrough /\ cur_input_ini' = cur_input_ini
    BY <1>1, <1>4, ZenonT(60) DEF Idle, inputVars
  <2>2. Tracked(feed, in_packet_input, cur_input_passthrough, cur_input_ini, q, outst, aw)
    BY <1>2, ZenonT(60) DEF Inv, Tracked
  <2>3. Draining(feed, in_packet_input, cur_input_passthrough, cur_input_ini, q, outst, aw)
    BY <2>1, <2>2, <1>2, <1>3, ZenonT(60) DEF Draining, Leaves
  <2> QED
    BY <2>1, <2>3, DrainStep, ZenonT(60)
<1>5. ASSUME ReadsFlit(n)
      PROVE  Inv'
  <2>1. feed # << >>
    BY <1>5, ZenonT(60) DEF ReadsFlit, SopPass, SopQueue, NextPass, NextQueue
  <2>2. PICK f, i, rest : Reads(f, i, rest)
    BY <2>1, ZenonT(60) DEF Reads
  <2>3. f = Head(feed) /\ i = reqs[f.wr].ini /\ rest = Tail(feed)
    BY <2>2, ZenonT(60) DEF Reads
  <2>4. /\ f.wr \in DOMAIN reqs /\ i \in Ini /\ rest \in Seq(Flit)
        /\ in_packet_input => cur_input_ini = i
        /\ reqs[f.wr] \in Request
        /\ Sop(f) <=> ~in_packet_input
    <3>1. reqs \in Seq(Request)
      BY <1>2, ZenonT(60) DEF TypeOK
    <3>2. f.wr \in DOMAIN reqs /\ i \in Ini /\ rest \in Seq(Flit)
      BY <2>1, <2>3, HeadOfFeed, ZenonT(60)
    <3>3. (in_packet_input => cur_input_ini = i) /\ (Sop(f) <=> ~in_packet_input)
      BY <2>1, <2>3, HeadOfFeed, ZenonT(60)
    <3>4. reqs[f.wr] \in Request
      BY <3>1, <3>2
    <3> QED
      BY <3>2, <3>3, <3>4, ZenonT(60)
  <2>5. CASE SopPass(n)
    <3>1. /\ Sop(f) /\ Passthrough(f.wr, outst) /\ feed' = rest /\ cur_input_ini' = i
          /\ in_packet_input' = ~Eop(f) /\ cur_input_passthrough' = TRUE /\ Output(f)
          /\ IF Ordered(f.wr) THEN Count(i, f.wr, outst, aw) ELSE Keep(outst, aw)
          /\ UNCHANGED <<reqs, q, drainVars, done>>
      BY <2>3, <2>5, <1>1, ZenonT(60) DEF SopPass
    <3>2. Passing(f, i, rest, outst, aw)
      BY <3>1, <2>2, <1>2, ZenonT(60) DEF Passing, Leaves
    <3> QED
      BY <3>2, PassOK, ZenonT(60)
  <2>6. CASE NextPass(n)
    <3>1. /\ ~Sop(f) /\ in_packet_input /\ cur_input_passthrough /\ feed' = rest
          /\ cur_input_ini' = cur_input_ini /\ cur_input_passthrough' = cur_input_passthrough
          /\ in_packet_input' = ~Eop(f) /\ Output(f) /\ Keep(outst, aw)
          /\ UNCHANGED <<reqs, q, drainVars, done>>
      BY <2>3, <2>6, <1>1, ZenonT(60) DEF NextPass
    <3>2. cur_input_ini' = i /\ cur_input_passthrough' = TRUE
      BY <3>1, <2>4, <1>3, ZenonT(60)
    <3>3. Passing(f, i, rest, outst, aw)
      BY <3>1, <3>2, <2>2, <1>2, ZenonT(60) DEF Passing, Leaves
    <3> QED
      BY <3>3, PassOK, Zenon
  <2>7. PICK qs : qs = Enqueued(i, f)
    BY ZenonT(60)
  <2>8. ASSUME Drain(qs, outst, aw), reqs[f.wr].exec = "SO", Sop(f) \/ ~cur_input_passthrough,
               reqs' = reqs, done' = done, feed' = rest, in_packet_input' = ~Eop(f),
               cur_input_passthrough' = FALSE, cur_input_ini' = i
        PROVE  Inv'
    <3>1. /\ qs \in [Ini -> Seq(Flit)]
          /\ Tracked(rest, ~Eop(f), FALSE, i, qs, outst, aw)
      <4>1. Enqueuing(f, i, rest, qs)
        BY <2>2, <2>7, <2>8, ZenonT(60) DEF Enqueuing
      <4> QED
        BY <4>1, <1>2, EnqueueOK, ZenonT(60)
    <3>2. PICK inp : inp = ~Eop(f) /\ inp \in BOOLEAN
      BY ZenonT(60)
    <3>3. Draining(rest, ~Eop(f), FALSE, i, qs, outst, aw)
      BY <3>1, <3>2, <2>4, <2>8, <1>2, ZenonT(60) DEF Draining, Leaves
    <3> QED
      BY <3>3, <2>8, DrainStep, ZenonT(60)
  <2>9. CASE SopQueue(n)
    <3>1. /\ Sop(f) /\ ~Passthrough(f.wr, outst) /\ feed' = rest /\ cur_input_ini' = i
          /\ in_packet_input' = ~Eop(f) /\ cur_input_passthrough' = FALSE
          /\ Drain(Enqueued(i, f), outst, aw) /\ reqs' = reqs /\ done' = done
      BY <2>3, <2>9, <1>1, ZenonT(60) DEF SopQueue
    <3>2. reqs[f.wr].exec = "SO"
      BY <3>1, <2>4, ZenonT(60) DEF Passthrough, Request, Exec
    <3> QED
      BY <3>1, <3>2, <2>7, <2>8, ZenonT(60)
  <2>10. CASE NextQueue(n)
    <3>1. /\ ~Sop(f) /\ in_packet_input /\ ~cur_input_passthrough /\ feed' = rest
          /\ cur_input_ini' = cur_input_ini /\ cur_input_passthrough' = cur_input_passthrough
          /\ in_packet_input' = ~Eop(f)
          /\ Drain(Enqueued(cur_input_ini, f), outst, aw) /\ reqs' = reqs /\ done' = done
      BY <2>3, <2>10, <1>1, ZenonT(60) DEF NextQueue
    <3>2. cur_input_ini = i /\ cur_input_passthrough = FALSE
      BY <3>1, <2>4, <1>3, ZenonT(60)
    <3>3. reqs[f.wr].exec = "SO"
      <4>1. FeedOK(feed, in_packet_input, cur_input_passthrough, cur_input_ini, q)
        BY ZenonT(60) DEF Inv, Tracked
      <4>2. reqs[Len(reqs)].exec = "SO"
        BY <4>1, <3>1, <2>1, ZenonT(60) DEF FeedOK
      <4>3. f.wr = Len(reqs)
        BY <2>1, <2>3, HeadOfFeed, ZenonT(60)
      <4> QED
        BY <4>2, <4>3, ZenonT(60)
    <3> QED
      BY <3>1, <3>2, <3>3, <2>7, <2>8, ZenonT(60)
  <2> QED
    BY <2>5, <2>6, <2>9, <2>10, <1>5, ZenonT(60) DEF ReadsFlit
<1> QED
  BY <1>4, <1>5, ZenonT(60) DEF Handler

-----------------------------------------------------------------------------
(* The theorem.                                                            *)

\* Initially the tracker is empty.
LEMMA InitOK == Init => Inv
<1> SUFFICES ASSUME Init PROVE Inv
  OBVIOUS
<1>1. TypeOK
  <2>1. 0 \in Ini
    BY ConstantsAssumption DEF Ini
  <2>2. NoFlit \in Flit
    BY ZenonT(60) DEF NoFlit, Flit
  <2> QED
    BY <2>1, <2>2 DEF Init, TypeOK
<1>2. SoAlone
  BY ZenonT(60) DEF Init, SoAlone, StartsSO
<1>3. \A i \in Ini : QueueOK(i, q[i], sent)
  BY DEF Init, QueueOK
<1>4. \A i \in Ini : LastOK(i, q[i], feed, in_packet_input, cur_input_passthrough, cur_input_ini)
  BY ZenonT(60) DEF Init, LastOK
<1>5. FeedOK(feed, in_packet_input, cur_input_passthrough, cur_input_ini, q)
  BY ZenonT(60) DEF Init, FeedOK
<1>6. DrainOK(feed, in_packet_input, cur_input_passthrough, cur_input_ini, q)
  BY ZenonT(60) DEF Init, DrainOK
<1>7. CountOK(outstanding, awaiting)
  BY FS_EmptySet DEF Init, CountOK
<1> QED
  BY <1>1, <1>2, <1>3, <1>4, <1>5, <1>6, <1>7, ZenonT(60) DEF Inv, Tracked

\* When an SO request of service mode ROI is issued, everything ordered that its
\* initiator issued before has been answered (the gate of the passthrough
\* decision and of the drain), for any number of initiators and requests, as
\* long as the queues never fill up: a dropped flit would end this.
THEOREM IssuedAlone ==
  ASSUME MaxBacklog < QSize
  PROVE  Spec => []SoAlone
<1>1. Inv /\ [Next]_vars => Inv'
  <2> SUFFICES ASSUME Inv, [Next]_vars PROVE Inv'
    OBVIOUS
  <2>1. ASSUME NEW r \in Posts, Post(r) PROVE Inv'
    BY <2>1, PostsAssumption, PostOK, ZenonT(60)
  <2>2. CASE Respond
    BY <2>2, RespondOK, ZenonT(60)
  <2>3. ASSUME NEW n \in Notify \cup {NoNotify}, Handler(n) PROVE Inv'
    BY <2>3, HandlerOK, ZenonT(60)
  <2>4. CASE UNCHANGED vars
    <3>1. UNCHANGED <<reqs, feed, q, outstanding, in_packet_input, cur_input_passthrough,
                      cur_input_ini, rr_cursor, drain_active_ini, drain_in_packet, out, sent,
                      done, awaiting>>
      BY <2>4, ZenonT(60) DEF vars, inputVars, drainVars, outVars
    <3>2. done \subseteq done' /\ done' \subseteq DOMAIN reqs
      BY <3>1, ZenonT(60) DEF Inv, TypeOK
    <3> QED
      BY <3>1, <3>2, SameOK, ZenonT(60)
  <2> QED
    BY <2>1, <2>2, <2>3, <2>4, ZenonT(60) DEF Next
<1>2. Inv => SoAlone
  BY DEF Inv
<1> QED
  BY <1>1, <1>2, InitOK, PTL DEF Spec
=============================================================================
