--------------------------- MODULE ProviderProofs ---------------------------
(***************************************************************************)
(* Proofs about Provider, for any workload and any size of the rings and   *)
(* the queue: each request completes once and in order, and a completion's *)
(* status is the fate of its request's own data.                           *)
(***************************************************************************)
EXTENDS ProviderOrderProofs, TLAPS

USE SMTT(60)

-----------------------------------------------------------------------------
(* More small numbers.                                                     *)

\* Nothing is below itself.
LEMMA NotBelow ==
  ASSUME NEW a \in Nat
  PROVE  ~(a < a) /\ ~(a <= a - 1)
OBVIOUS

\* The place behind n places.
LEMMA NextPlace ==
  ASSUME NEW n \in Nat
  PROVE  /\ \A i \in 0 .. (n + 1) - 1 : i \in 0 .. n /\ (i = (n + 1) - 1 <=> i = n) /\ (i # n => i \in 0 .. n - 1)
         /\ \A i \in 0 .. n - 1 : i \in 0 .. (n + 1) - 1
         /\ n > 0 => n - 1 \in 0 .. n - 1
OBVIOUS

\* A place behind them has a new number.
LEMMA PlaceMoves ==
  ASSUME NEW n \in Nat, NEW c \in 0 .. n, NEW k \in 0 .. n - 1, k \notin 0 .. c - 1
  PROVE  k - c \in 0 .. n - c - 1 /\ c + (k - c) = k
OBVIOUS

\* The h-th of k is at the place h - 1.
LEMMA PlaceOf ==
  ASSUME NEW n \in Nat, NEW k \in 0 .. n, NEW h \in 1 .. k
  PROVE  h - 1 \in 0 .. k - 1 /\ h - 1 \in 0 .. n - 1
OBVIOUS

\* Numbers counted from b, with l before the first of n places.
LEMMA Counted ==
  ASSUME NEW b \in Nat, NEW l \in Nat, NEW n \in Nat
  PROVE  /\ \A i \in 0 .. n - 1 : b + l + i + 1 = b + l + n => i = n - 1
         /\ n > 0 => \A h \in 1 .. l : b + h # b + l + n
OBVIOUS

\* The last of them.
LEMMA CountedLast ==
  ASSUME NEW b \in Nat, NEW l \in Nat, NEW n \in Nat
  PROVE  b + l + (n - 1) + 1 = b + l + n
OBVIOUS

\* The parts of l + k places.
LEMMA TwoParts ==
  ASSUME NEW l \in Nat, NEW k \in Nat, NEW i \in 1 .. l + k
  PROVE  (i <= l => i \in 1 .. l) /\ (~(i <= l) => i - l \in 1 .. k)
OBVIOUS

\* A number below a bound that grows.
LEMMA Below ==
  ASSUME NEW a \in Nat, NEW b \in Nat, NEW c \in Nat, a < b, b <= c
  PROVE  a < c /\ 0 < c /\ a # b
OBVIOUS

\* A number below another differs from it.
LEMMA BelowDiffers ==
  ASSUME NEW a \in Nat, NEW b \in Nat, a < b
  PROVE  a # b
OBVIOUS

-----------------------------------------------------------------------------
(* Slots and frames with a request number.                                 *)

\* The slots after a step are those that were there, but for the one the step
\* is about.
LEMMA SlotsStep ==
  ASSUME Types, CallOK, PendOK, Next, NEW i \in 0 .. Outstanding' - 1
  PROVE  Stays(At(i)') \/ Recorded(At(i)') \/ AckFor(At(i)') \/ DataFor(At(i)')
<1>1. RingTypes /\ AppTypes /\ NicTypes
  BY ZenonT(60) DEF Types
<1>2. ASSUME UNCHANGED <<out, outh, outt>>
      PROVE  Stays(At(i)')
  <2>1. Outstanding' = Outstanding /\ At(i)' = At(i)
    BY <1>2, SameView, ZenonT(60)
  <2> QED
    BY <2>1, ZenonT(60) DEF Stays, Like
<1>3. ASSUME NEW j, NEW st, Tells(j, st)
      PROVE  /\ i \in 0 .. Outstanding - 1 /\ j \in 0 .. Outstanding - 1 /\ (i # j => Stays(At(i)'))
             /\ i = j => At(i)'.wr = At(j).wr /\ At(i)'.op = At(j).op /\ At(i)'.req = 0 /\ At(i)'.status = st
  <2>1. /\ Outstanding' = Outstanding
        /\ \A h \in 0 .. Outstanding - 1 : h # j => At(h)' = At(h)
        /\ At(j) \in Slot /\ st \in Status /\ \A h : h = j => At(h)' = Told(At(j), st)
    BY <1>1, <1>3, ToldView, ZenonT(60)
  <2>2. i \in 0 .. Outstanding - 1 /\ j \in 0 .. Outstanding - 1
    BY <2>1, <1>3, ZenonT(60) DEF Tells
  <2>3. i # j => Stays(At(i)')
    BY <2>1, <2>2, ZenonT(60) DEF Stays, Like
  <2>4. ASSUME i = j
        PROVE  At(i)'.wr = At(j).wr /\ At(i)'.op = At(j).op /\ At(i)'.req = 0 /\ At(i)'.status = st
    <3>1. PICK o, q : o = At(i)' /\ q = At(j)
      BY ZenonT(60)
    <3>2. o = Told(q, st) /\ q \in Slot /\ st \in Status
      BY <3>1, <2>1, <2>4, ZenonT(60)
    <3>3. o.wr = q.wr /\ o.op = q.op /\ o.req = 0 /\ o.status = st
      BY <3>2, ToldIs, ZenonT(60)
    <3> QED
      BY <3>1, <3>3, ZenonT(60)
  <2> QED
    BY <2>2, <2>3, <2>4, ZenonT(60)
<1>4. ASSUME PostRecord
      PROVE  Stays(At(i)') \/ Recorded(At(i)')
  <2>1. PICK n : n = Outstanding
    BY ZenonT(60)
  <2>2. PICK st \in Status :
          /\ Outstanding' = n + 1 /\ \A h \in 0 .. n - 1 : At(h)' = At(h)
          /\ \A h : h = n => At(h)' = [wr |-> posted + 1, op |-> app.op, req |-> app.req, waited |-> 0, status |-> st]
    <3>1. ~RingFull
      BY <1>4, ZenonT(60) DEF CallOK, PostRecord
    <3> QED
      BY <3>1, <2>1, <1>1, <1>4, RecordView, ZenonT(60)
  <2>3. n \in Nat /\ Outstanding' = n + 1
    BY <2>1, <2>2, OrderTypes, ZenonT(60)
  <2>4. i \in 0 .. n - 1 \/ i = n
    BY <2>3, NextPlace, ZenonT(60)
  <2>5. CASE i \in 0 .. n - 1
    BY <2>1, <2>2, <2>5, ZenonT(60) DEF Stays, Like
  <2>6. CASE i = n
    <3>1. PICK o, w, op, r : o = At(i)' /\ w = posted + 1 /\ op = app.op /\ r = app.req
      BY ZenonT(60)
    <3>2. o = [wr |-> w, op |-> op, req |-> r, waited |-> 0, status |-> st]
      BY <3>1, <2>2, <2>6, ZenonT(60)
    <3>3. o.wr = w /\ o.op = op /\ o.req = r
      BY <3>2, ZenonT(60)
    <3>4. Recorded(o)
      BY <3>1, <3>3, <1>4, ZenonT(60) DEF Recorded
    <3> QED
      BY <3>1, <3>4, ZenonT(60)
  <2> QED
    BY <2>4, <2>5, <2>6, ZenonT(60)
<1>5. ASSUME PostFail
      PROVE  Stays(At(i)')
  <2>1. Outstanding > 0
    BY <1>5, ZenonT(60) DEF PostFail, CallOK
  <2>2. PICK j : j = Outstanding - 1
    BY ZenonT(60)
  <2>3. Tells(j, "timeout")
    BY <2>1, <2>2, <1>1, <1>5, FailTells, ZenonT(60)
  <2>4. /\ j \in 0 .. Outstanding - 1 /\ (i # j => Stays(At(i)'))
        /\ i = j => At(i)'.wr = At(j).wr /\ At(i)'.op = At(j).op /\ At(i)'.req = 0 /\ At(i)'.status = "timeout"
    BY <2>3, <1>3, ZenonT(60)
  <2>5. i = j => Stays(At(i)')
    BY <2>4, ZenonT(60) DEF Stays, Failed
  <2> QED
    BY <2>4, <2>5, ZenonT(60)
<1>6. ASSUME PollComplete
      PROVE  Stays(At(i)')
  BY <1>6, PollLeaves, ZenonT(60) DEF Stays
<1>7. ASSUME CreateContext
      PROVE  FALSE
  <2>1. outh' = 0 /\ outt' = 0
    BY <1>7, ZenonT(60) DEF CreateContext
  <2>2. Outstanding' = (0 - 0) % MaxOut
    BY <2>1, ZenonT(60) DEF Outstanding
  <2>3. Outstanding' = 0
    BY <2>2, SlotNumbers, ZenonT(60)
  <2> QED
    BY <2>3, NoRange, ZenonT(60)
<1>8. ASSUME NEW op, NEW j, AnswerAt(op, j), ~Stays(At(i)')
      PROVE  /\ At(j).op = op /\ At(j).req = arg.req /\ j \in 0 .. Outstanding - 1
             /\ At(i)'.wr = At(j).wr /\ At(i)'.op = op /\ At(i)'.req = 0 /\ At(i)'.status = arg.status
  <2>1. Tells(j, arg.status)
    BY <1>8, ZenonT(60) DEF AnswerAt
  <2>2. /\ i # j => Stays(At(i)')
        /\ i = j => At(i)'.wr = At(j).wr /\ At(i)'.op = At(j).op /\ At(i)'.req = 0 /\ At(i)'.status = arg.status
    BY <2>1, <1>3, ZenonT(60)
  <2>3. i = j
    BY <2>2, <1>8, ZenonT(60)
  <2> QED
    BY <2>2, <2>3, <1>8, ZenonT(60) DEF AnswerAt
<1>9. ASSUME OnWriteAck, ~Stays(At(i)')
      PROVE  AckFor(At(i)')
  <2>1. PICK j : AnswerAt("WRITE", j)
    BY <1>2, <1>9, AnswerViews, ZenonT(60)
  <2>2. ~OnReadRsp
    BY <1>9, ZenonT(60) DEF OnWriteAck, OnReadRsp
  <2>3. Meant(At(i)', "WRITE")
    BY <2>1, <2>2, <1>8, <1>9, ZenonT(60) DEF Meant
  <2> QED
    BY <2>3, <1>9, ZenonT(60) DEF AckFor
<1>10. ASSUME OnReadRsp, ~Stays(At(i)')
       PROVE  DataFor(At(i)')
  <2>1. PICK j : /\ AnswerAt("READ", j)
                 /\ fetched' = IF arg.status = "ok" /\ At(j).wr = arg.wr THEN fetched \union {arg.wr} ELSE fetched
    BY <1>2, <1>10, AnswerViews, ZenonT(60)
  <2>2. Meant(At(i)', "READ")
    BY <2>1, <1>8, <1>10, ZenonT(60) DEF Meant
  <2> QED
    BY <2>2, <1>10, ZenonT(60) DEF DataFor
<1>11. OffRing => UNCHANGED <<out, outh, outt>>
  BY OffRingSame, ZenonT(60)
<1> QED
  BY <1>2, <1>4, <1>5, <1>6, <1>7, <1>9, <1>10, <1>11, StepIs, ZenonT(60)

\* The numbers of the frames and of the ring are below the next one, that of a
\* request about to be sent is of no other, and a frame and a slot with the same
\* number are of the same request.
ItemReqs == \A x \in Items : x.req # 0 => x.req < Fresh
SlotReqs == \A i \in 0 .. Outstanding - 1 : At(i).req < Bound
LastOK ==
  app.pc = "send" =>
    \A i \in 0 .. Outstanding - 1 :
      IF i = Outstanding - 1 THEN At(i).req = app.req /\ At(i).op = app.op
      ELSE app.req # 0 => At(i).req # app.req
Match == \A x \in Items, i \in 0 .. Outstanding - 1 : x.req # 0 /\ At(i).req = x.req => At(i).wr = x.wr

\* A member is an element.
LEMMA MembersAre ==
  ASSUME NEW T, NEW s \in Seq(T)
  PROVE  Members(s) \subseteq T
BY DEF Members

\* The frames are frames.
LEMMA ItemTypes ==
  ASSUME Types
  PROVE  Items \subseteq Frames /\ \A x \in Items : x.req \in Nat /\ x.wr \in Nat
<1>1. wire["A"] \in Seq(Frames) /\ wire["B"] \in Seq(Frames) /\ batch \in Seq(Frames) /\ tx_q \in Seq(Frames) /\ arg \in Frames
  BY WireType, ZenonT(60) DEF Types, NicTypes
<1>2. /\ Members(wire["A"]) \subseteq Frames /\ Members(wire["B"]) \subseteq Frames /\ Members(batch) \subseteq Frames
      /\ Members(tx_q) \subseteq Frames
  BY <1>1, MembersAre, ZenonT(60)
<1>3. Items \subseteq Frames
  BY <1>1, <1>2, ZenonT(60) DEF Items, Answers, Line, Called
<1> QED
  BY <1>3, ZenonT(60) DEF Frames

\* Every step of a context keeps the numbers of the frames below the next one.
LEMMA ItemReqsKept ==
  ASSUME Types, TxOK, FlowOK, CallOK, PostOK, ItemReqs, Next, ~CreateContext
  PROVE  ItemReqs'
<1>1. Fresh \in Nat /\ Fresh' \in Nat /\ Fresh <= Fresh' /\ (PostSend => app.req < Fresh')
  BY FreshStep, ZenonT(60)
<1>2. \A x \in Items : x.req \in Nat
  BY ItemTypes, ZenonT(60)
<1>3. \A x \in Items : x.req # 0 => x.req < Fresh'
  BY <1>1, <1>2, Below, ZenonT(60) DEF ItemReqs
<1>4. ASSUME Inherits
      PROVE  ItemReqs'
  BY <1>3, <1>4, ZenonT(60) DEF ItemReqs, Inherits
<1>5. ASSUME NEW f, PostSend, QueueMove(f), Items' = Items \cup {f}
      PROVE  ItemReqs'
  BY <1>1, <1>3, <1>5, ZenonT(60) DEF ItemReqs, QueueMove
<1> QED
  BY <1>4, <1>5, ItemsStep, ZenonT(60)

\* It keeps those of the ring below it.
LEMMA SlotReqsKept ==
  ASSUME Types, TxOK, CallOK, PostOK, PendOK, SlotReqs, Next, ~CreateContext
  PROVE  SlotReqs'
<1>1. Bound \in Nat /\ Bound' \in Nat /\ Bound <= Bound' /\ (PostRecord => app.req < Bound')
  BY FreshStep, ZenonT(60)
<1>2. \A k \in 0 .. Outstanding - 1 : At(k).req \in Nat /\ At(k).req < Bound
  BY AtIs, ZenonT(60) DEF SlotReqs, Types, Slot
<1>3. \A k \in 0 .. Outstanding - 1 : At(k).req < Bound' /\ 0 < Bound'
  BY <1>1, <1>2, Below, ZenonT(60)
<1>4. ASSUME NEW i \in 0 .. Outstanding' - 1
      PROVE  At(i)'.req < Bound'
  <2>1. PICK o : o = At(i)'
    BY ZenonT(60)
  <2>2. Stays(o) \/ Recorded(o) \/ AckFor(o) \/ DataFor(o)
    BY <2>1, SlotsStep, ZenonT(60)
  <2>3. CASE Stays(o)
    BY <2>1, <2>3, <1>3, ZenonT(60) DEF Stays, Like, Failed
  <2>4. CASE Recorded(o)
    BY <2>1, <2>4, <1>1, ZenonT(60) DEF Recorded
  <2>5. CASE AckFor(o) \/ DataFor(o)
    BY <2>1, <2>5, <1>3, ZenonT(60) DEF AckFor, DataFor, Meant
  <2> QED
    BY <2>2, <2>3, <2>4, <2>5, ZenonT(60)
<1> QED
  BY <1>4, ZenonT(60) DEF SlotReqs

\* It keeps the number of the request about to be sent its own.
LEMMA LastKept ==
  ASSUME Types, TxOK, FlowOK, CallOK, PostOK, FrameOK, ItemReqs, SlotReqs, LastOK, Next
  PROVE  LastOK'
<1> SUFFICES ASSUME app'.pc = "send"
             PROVE  \A i \in 0 .. Outstanding' - 1 :
                      IF i = Outstanding' - 1 THEN At(i)'.req = app'.req /\ At(i)'.op = app'.op
                      ELSE app'.req # 0 => At(i)'.req # app'.req
  BY ZenonT(60) DEF LastOK
<1>1. (PostRecord /\ Goes("record", {"send", "pump"})) \/ app' = app
  <2>1. AppMoves
    BY AppStep, ZenonT(60)
  <2>2. /\ ~Rests /\ ~Goes("send", {"pump", "fail"}) /\ ~Goes("fail", {"pump"})
        /\ \A op : Starts(op) => app' = app
    BY ZenonT(60) DEF Rests, Goes, Starts
  <2> QED
    BY <2>1, <2>2, ZenonT(60) DEF AppMoves
<1>2. PICK n : n = Outstanding
  BY ZenonT(60)
<1>3. n \in Nat /\ \A i \in 0 .. n - 1 : At(i).req \in Nat /\ At(i).req < Bound
  BY <1>2, OrderTypes, AtIs, ZenonT(60) DEF SlotReqs, Types, Slot
<1>4. RingTypes /\ NicTypes
  BY ZenonT(60) DEF Types
<1>5. ASSUME PostRecord, Goes("record", {"send", "pump"}), NEW i \in 0 .. Outstanding' - 1
      PROVE  IF i = Outstanding' - 1 THEN At(i)'.req = app'.req /\ At(i)'.op = app'.op
             ELSE app'.req # 0 => At(i)'.req # app'.req
  <2>1. app.pc = "record" /\ app'.req = app.req /\ app'.op = app.op /\ app.req \in Nat
    BY <1>5, ZenonT(60) DEF Goes, Types, AppTypes, Thread
  <2>2. PICK st \in Status :
          /\ Outstanding' = n + 1 /\ \A h \in 0 .. n - 1 : At(h)' = At(h)
          /\ \A h : h = n => At(h)' = [wr |-> posted + 1, op |-> app.op, req |-> app.req, waited |-> 0, status |-> st]
    <3>1. ~RingFull
      BY <2>1, ZenonT(60) DEF CallOK
    <3> QED
      BY <3>1, <1>2, <1>4, <1>5, RecordView, ZenonT(60)
  <2>3. Outstanding' = n + 1
    BY <2>2, ZenonT(60)
  <2>4. i \in 0 .. n /\ (i = Outstanding' - 1 <=> i = n) /\ (i # n => i \in 0 .. n - 1)
    <3>1. n \in Nat
      BY <1>3, ZenonT(60)
    <3> QED
      BY <3>1, <2>3, NextPlace, ZenonT(60)
  <2>5. CASE i = n
    <3>1. PICK o, w, op, r : o = At(i)' /\ w = posted + 1 /\ op = app.op /\ r = app.req
      BY ZenonT(60)
    <3>2. o = [wr |-> w, op |-> op, req |-> r, waited |-> 0, status |-> st]
      BY <3>1, <2>2, <2>5, ZenonT(60)
    <3>3. o.op = op /\ o.req = r
      BY <3>2, ZenonT(60)
    <3> QED
      BY <3>1, <3>3, <2>1, <2>4, <2>5, ZenonT(60)
  <2>6. CASE i # n
    <3>1. i \in 0 .. n - 1 /\ At(i)' = At(i)
      BY <2>2, <2>4, <2>6, ZenonT(60)
    <3>2. app.req # 0 => At(i).req < app.req /\ At(i).req \in Nat
      BY <3>1, <2>1, <1>3, ZenonT(60) DEF Bound
    <3>4. app.req # 0 => app.req \in Nat
      BY <2>1, ZenonT(60)
    <3>3. app.req # 0 => At(i).req # app.req
      BY <3>2, <3>4, BelowDiffers, ZenonT(60)
    <3> QED
      BY <3>1, <3>3, <2>1, <2>4, <2>6, ZenonT(60)
  <2> QED
    BY <2>5, <2>6, ZenonT(60)
<1>6. ASSUME app' = app, NEW i \in 0 .. Outstanding' - 1
      PROVE  IF i = Outstanding' - 1 THEN At(i)'.req = app'.req /\ At(i)'.op = app'.op
             ELSE app'.req # 0 => At(i)'.req # app'.req
  <2>1. app.pc = "send"
    BY <1>6, ZenonT(60)
  <2>2. \A h \in 0 .. n - 1 : IF h = n - 1 THEN At(h).req = app.req /\ At(h).op = app.op
                              ELSE app.req # 0 => At(h).req # app.req
    BY <2>1, <1>2, ZenonT(60) DEF LastOK
  <2>3. ASSUME UNCHANGED <<out, outh, outt>>
        PROVE  IF i = Outstanding' - 1 THEN At(i)'.req = app'.req /\ At(i)'.op = app'.op
               ELSE app'.req # 0 => At(i)'.req # app'.req
    <3>1. Outstanding' = n /\ At(i)' = At(i)
      BY <2>3, <1>2, SameView, ZenonT(60)
    <3> QED
      BY <3>1, <2>2, <1>6, ZenonT(60)
  <2>4. ASSUME NEW op, NEW j, AnswerAt(op, j), bg = "cb"
        PROVE  IF i = Outstanding' - 1 THEN At(i)'.req = app'.req /\ At(i)'.op = app'.op
               ELSE app'.req # 0 => At(i)'.req # app'.req
    <3>1. PICK st : st = arg.status
      BY ZenonT(60)
    <3>2. /\ Outstanding' = n /\ j \in 0 .. n - 1
          /\ \A h \in 0 .. n - 1 : h # j => At(h)' = At(h)
          /\ At(j) \in Slot /\ st \in Status /\ \A h : h = j => At(h)' = Told(At(j), st)
      <4>1. Tells(j, st) /\ j \in 0 .. n - 1
        BY <3>1, <2>4, <1>2, ZenonT(60) DEF AnswerAt
      <4> QED
        BY <4>1, <1>2, <1>4, ToldView, ZenonT(60)
    <3>3. At(j).req = arg.req /\ arg \in Items /\ arg \in Answers
      BY <2>4, ZenonT(60) DEF AnswerAt, Items, Answers, Called
    <3>4. arg.req # 0
      BY <3>3, ZenonT(60) DEF FrameOK, AnswerSays
    <3>5. arg.req < Fresh /\ arg.req \in Nat
      BY <3>3, <3>4, ItemTypes, ZenonT(60) DEF ItemReqs
    <3>6. j # n - 1
      <4> SUFFICES ASSUME j = n - 1
                   PROVE  FALSE
        BY ZenonT(60)
      <4>1. arg.req = app.req
        BY <3>2, <3>3, <2>2, ZenonT(60)
      <4>2. "send" \in {"record", "send"}
        BY ZenonT(60)
      <4>3. Fresh = app.req
        BY <4>1, <4>2, <3>4, <2>1, ZenonT(60) DEF Fresh
      <4>4. arg.req < arg.req /\ arg.req \in Nat
        BY <4>1, <4>3, <3>5, ZenonT(60)
      <4> QED
        BY <4>4, NotBelow, ZenonT(60)
    <3>7. CASE i # j
      <4>1. i \in 0 .. n - 1 /\ At(i)' = At(i)
        BY <3>2, <3>7, ZenonT(60)
      <4> QED
        BY <4>1, <3>2, <2>2, <1>6, ZenonT(60)
    <3>8. CASE i = j
      <4>1. PICK o, q : o = At(i)' /\ q = At(j)
        BY ZenonT(60)
      <4>2. o = Told(q, st) /\ q \in Slot /\ st \in Status
        BY <4>1, <3>2, <3>8, ZenonT(60)
      <4>6. o.req = 0
        BY <4>2, ToldIs, ZenonT(60)
      <4>3. At(i)'.req = 0
        BY <4>1, <4>6, ZenonT(60)
      <4>4. i # Outstanding' - 1
        <5>1. Outstanding' = n
          BY <3>2, ZenonT(60)
        <5> QED
          BY <5>1, <3>6, <3>8, ZenonT(60)
      <4>5. app'.req # 0 => At(i)'.req # app'.req
        BY <4>3, ZenonT(60)
      <4> QED
        BY <4>4, <4>5, ZenonT(60)
    <3> QED
      BY <3>7, <3>8, ZenonT(60)
  <2>5. OffRing \/ OnWriteAck \/ OnReadRsp
    <3>1. ~PostRecord /\ ~PostFail /\ ~PollComplete
      BY <2>1, ZenonT(60) DEF PostRecord, PostFail, PollComplete
    <3>2. ~CreateContext
      BY <2>1, CreateIdle, ZenonT(60)
    <3> QED
      BY <3>1, <3>2, StepIs, ZenonT(60)
  <2>6. CASE OffRing
    BY <2>3, <2>6, OffRingSame, ZenonT(60)
  <2>7. CASE OnWriteAck
    <3>1. bg = "cb"
      BY <2>7, ZenonT(60) DEF OnWriteAck
    <3>2. (\E j : AnswerAt("WRITE", j)) \/ UNCHANGED <<out, outh, outt>>
      BY <2>7, AnswerViews, ZenonT(60)
    <3> QED
      BY <3>1, <3>2, <2>3, <2>4, ZenonT(60)
  <2>8. CASE OnReadRsp
    <3>1. bg = "cb"
      BY <2>8, ZenonT(60) DEF OnReadRsp
    <3>2. (\E j : AnswerAt("READ", j)) \/ UNCHANGED <<out, outh, outt>>
      BY <2>8, AnswerViews, ZenonT(60)
    <3> QED
      BY <3>1, <3>2, <2>3, <2>4, ZenonT(60)
  <2> QED
    BY <2>5, <2>6, <2>7, <2>8, ZenonT(60)
<1> QED
  BY <1>1, <1>5, <1>6, ZenonT(60)

\* Frames and slots go on matching.
LEMMA MatchKept ==
  ASSUME Types, TxOK, FlowOK, InOrder, CallOK, PostOK, PendOK, ItemReqs, LastOK, Match, Next, ~CreateContext
  PROVE  Match'
<1>1. ASSUME NEW y, NEW i \in 0 .. Outstanding' - 1, y.req # 0, At(i)'.req = y.req, NEW x \in Items, x.wr = y.wr, x.req = y.req
      PROVE  At(i)'.wr = y.wr
  <2>1. PICK o : o = At(i)'
    BY ZenonT(60)
  <2>2. o.req = x.req /\ o.req # 0 /\ x.req # 0
    BY <2>1, <1>1, ZenonT(60)
  <2>3. Stays(o) \/ Recorded(o) \/ AckFor(o) \/ DataFor(o)
    BY <2>1, SlotsStep, ZenonT(60)
  <2>4. CASE Stays(o)
    <3>1. PICK k \in 0 .. Outstanding - 1 : Like(o, At(k)) \/ Failed(o, At(k))
      BY <2>4, ZenonT(60) DEF Stays
    <3>2. At(k).req = x.req /\ o.wr = At(k).wr
      BY <3>1, <2>2, ZenonT(60) DEF Like, Failed
    <3>3. At(k).wr = x.wr
      BY <3>2, <2>2, ZenonT(60) DEF Match
    <3> QED
      BY <3>2, <3>3, <2>1, <1>1, ZenonT(60)
  <2>5. CASE Recorded(o)
    <3>1. app.req # 0 /\ x.req = app.req /\ Fresh = app.req
      BY <2>2, <2>5, FreshStep, ZenonT(60) DEF Recorded
    <3>2. x.req < x.req /\ x.req \in Nat
      BY <3>1, <2>2, ItemTypes, ZenonT(60) DEF ItemReqs
    <3> QED
      BY <3>2
  <2>6. CASE AckFor(o) \/ DataFor(o)
    BY <2>2, <2>6, ZenonT(60) DEF AckFor, DataFor, Meant
  <2> QED
    BY <2>3, <2>4, <2>5, <2>6, ZenonT(60)
<1>2. ASSUME Inherits
      PROVE  Match'
  <2>1. ASSUME NEW y \in Items', NEW i \in 0 .. Outstanding' - 1, y.req # 0 /\ At(i)'.req = y.req
        PROVE  At(i)'.wr = y.wr
    <3>1. PICK x \in Items : x.wr = y.wr /\ x.req = y.req
      BY <1>2, <2>1, ZenonT(60) DEF Inherits
    <3> QED
      BY <3>1, <2>1, <1>1, ZenonT(60)
  <2> QED
    BY <2>1, ZenonT(60) DEF Match
<1>3. ASSUME NEW f, PostSend, QueueMove(f), Items' = Items \cup {f}
      PROVE  Match'
  <2>1. UNCHANGED <<out, outh, outt>>
    BY <1>3, OffRingSame, ZenonT(60) DEF OffRing
  <2>2. Outstanding' = Outstanding /\ \A i : At(i)' = At(i)
    BY <2>1, SameView, ZenonT(60)
  <2>3. ASSUME NEW i \in 0 .. Outstanding - 1, f.req # 0 /\ At(i).req = f.req
        PROVE  At(i).wr = f.wr
    <3>1. PICK n, l : n = Outstanding /\ l = Len(Finished)
      BY ZenonT(60)
    <3>2. f.req = app.req /\ f.wr = posted /\ app.pc = "send"
      BY <1>3, ZenonT(60) DEF QueueMove, PostSend
    <3>3. i = n - 1
      BY <3>1, <3>2, <2>3, ZenonT(60) DEF LastOK
    <3>4. At(i).wr = base + l + i + 1 /\ base + l + n = posted
      BY <3>1, <2>3, ZenonT(60) DEF InOrder
    <3>5. n \in Nat /\ l \in Nat /\ base \in Nat
      BY <3>1, OrderTypes, ZenonT(60)
    <3>6. base + l + i + 1 = base + l + n
      <4>1. base + l + (n - 1) + 1 = base + l + n
        BY <3>5, CountedLast, ZenonT(60)
      <4> QED
        BY <4>1, <3>3, ZenonT(60)
    <3> QED
      BY <3>2, <3>4, <3>6, ZenonT(60)
  <2>4. \A x \in Items, i \in 0 .. Outstanding - 1 : x.req # 0 /\ At(i).req = x.req => At(i).wr = x.wr
    BY ZenonT(60) DEF Match
  <2>5. \A x \in Items', i \in 0 .. Outstanding' - 1 : x.req # 0 /\ At(i)'.req = x.req => At(i)'.wr = x.wr
    BY <2>2, <2>3, <2>4, <1>3, ZenonT(60)
  <2> QED
    BY <2>5, ZenonT(60) DEF Match
<1> QED
  BY <1>2, <1>3, ItemsStep, ZenonT(60)

\* What a step does to the early answers.
LEMMA PendStep ==
  ASSUME Types, Next, NEW p \in Slots
  PROVE  \/ ~pend'[p].valid
         \/ pend'[p] = pend[p]
         \/ OnWriteAck /\ UNCHANGED <<out, outh, outt>> /\ Waiting("WRITE", arg.req) = {} /\ pend'[p].req = arg.req
<1>1. pend \in [Slots -> Pend]
  BY ZenonT(60) DEF Types, RingTypes
<1>6. NoPend.valid = FALSE
  BY DEF NoPend
<1>2. ASSUME PollComplete
      PROVE  ~pend'[p].valid \/ pend'[p] = pend[p]
  <2>1. pend' = [h \in Slots |->
                   IF ~app.werr /\ \E i \in 0 .. Outstanding - 1 :
                        i <= Completed /\ EarlyAck(Nth(i)) /\ out[Nth(i)].req % MaxOut = h
                   THEN NoPend ELSE pend[h]]
    BY <1>2, ZenonT(60) DEF PollComplete
  <2>2. pend'[p] = NoPend \/ pend'[p] = pend[p]
    BY <2>1
  <2> QED
    BY <2>2, <1>6, ZenonT(60)
<1>3. ASSUME CreateContext
      PROVE  ~pend'[p].valid
  <2>0. pend' = [s \in Slots |-> NoPend]
    BY <1>3, ZenonT(60) DEF CreateContext
  <2>1. pend'[p] = NoPend
    BY <2>0, ZenonT(60)
  <2> QED
    BY <2>1, <1>6, ZenonT(60)
<1>4. ASSUME OnWriteAck
      PROVE  \/ pend'[p] = pend[p]
             \/ UNCHANGED <<out, outh, outt>> /\ Waiting("WRITE", arg.req) = {} /\ pend'[p].req = arg.req
  <2>1. PICK e, q : e = [valid |-> TRUE, req |-> arg.req, status |-> arg.status] /\ q = arg.req % MaxOut
    BY ZenonT(60)
  <2>2. pend' = pend \/ (UNCHANGED <<out, outh, outt>> /\ Waiting("WRITE", arg.req) = {} /\ pend' = [pend EXCEPT ![q] = e])
    BY <2>1, <1>4, AnswerViews, ZenonT(60)
  <2>3. e.req = arg.req
    BY <2>1, ZenonT(60)
  <2>4. pend' = [pend EXCEPT ![q] = e] => pend'[p] = pend[p] \/ pend'[p] = e
    BY <1>1, ZenonT(60)
  <2> QED
    BY <2>2, <2>3, <2>4, ZenonT(60)
<1>5. ASSUME ~PollComplete, ~CreateContext, ~OnWriteAck
      PROVE  pend' = pend
  BY <1>5, ZenonT(60) DEF Next, Post, Poll, Bg, BgPeer, PostStart, PostRecord, PostSend, PostFail, PostPump, PollStart,
       PostRecv, PollRecv, DeleteContext, ReleaseNic, BgSwap, BgSend, BgSendFails, BgRecv,
       OnReadRsp, OnWrite, OnReadReq, OnSend, ringVars
<1> QED
  BY <1>2, <1>3, <1>4, <1>5, ZenonT(60)

\* They go on being of no request in the ring.
LEMMA PendKept ==
  ASSUME Types, TxOK, FlowOK, CallOK, PostOK, FrameOK, PendOK, ItemReqs, Next, ~CreateContext
  PROVE  PendOK'
<1>1. /\ Fresh \in Nat /\ Fresh' \in Nat /\ Fresh <= Fresh'
      /\ PostRecord => (app.req # 0 => Fresh = app.req)
  BY FreshStep, ZenonT(60)
<1>2. ASSUME NEW p \in Slots, pend'[p].valid
      PROVE  /\ pend'[p].req # 0 /\ pend'[p].req < Fresh'
             /\ \A i \in 0 .. Outstanding' - 1 : At(i)'.op = "WRITE" => pend'[p].req # At(i)'.req
  <2>1. CASE pend'[p] = pend[p]
    <3>1. PICK r : r = pend[p].req
      BY ZenonT(60)
    <3>2. r \in Nat /\ r # 0 /\ r < Fresh /\ \A i \in 0 .. Outstanding - 1 : At(i).op = "WRITE" => r # At(i).req
      BY <3>1, <2>1, <1>2, ZenonT(60) DEF PendOK, Types, RingTypes, Pend
    <3>3. r < Fresh' /\ r # Fresh
      <4>1. r \in Nat /\ r < Fresh
        BY <3>2, ZenonT(60)
      <4> QED
        BY <4>1, <1>1, Below, ZenonT(60)
    <3>4. ASSUME NEW i \in 0 .. Outstanding' - 1, At(i)'.op = "WRITE"
          PROVE  r # At(i)'.req
      <4>1. PICK o : o = At(i)'
        BY ZenonT(60)
      <4>2. o.op = "WRITE" /\ (Stays(o) \/ Recorded(o) \/ AckFor(o) \/ DataFor(o))
        BY <4>1, <3>4, SlotsStep, ZenonT(60)
      <4>3. CASE Stays(o)
        BY <4>1, <4>2, <4>3, <3>2, ZenonT(60) DEF Stays, Like, Failed
      <4>4. CASE Recorded(o)
        BY <4>1, <4>4, <3>2, <3>3, <1>1, ZenonT(60) DEF Recorded
      <4>5. CASE AckFor(o) \/ DataFor(o)
        BY <4>1, <4>5, <3>2, ZenonT(60) DEF AckFor, DataFor, Meant
      <4> QED
        BY <4>2, <4>3, <4>4, <4>5, ZenonT(60)
    <3> QED
      BY <3>1, <3>2, <3>3, <3>4, <2>1, ZenonT(60)
  <2>2. CASE OnWriteAck /\ UNCHANGED <<out, outh, outt>> /\ Waiting("WRITE", arg.req) = {} /\ pend'[p].req = arg.req
    <3>1. arg \in Answers /\ arg \in Items
      BY <2>2, ZenonT(60) DEF OnWriteAck, Answers, Items, Called
    <3>2. arg.req # 0
      BY <3>1, ZenonT(60) DEF FrameOK, AnswerSays
    <3>3. arg.req < Fresh /\ arg.req \in Nat
      BY <3>1, <3>2, ItemTypes, ZenonT(60) DEF ItemReqs
    <3>4. arg.req < Fresh'
      BY <3>3, <1>1, Below, ZenonT(60)
    <3>5. Outstanding' = Outstanding /\ \A i : At(i)' = At(i)
      BY <2>2, SameView, ZenonT(60)
    <3>6. \A i \in 0 .. Outstanding - 1 : At(i).op = "WRITE" => arg.req # At(i).req
      BY <2>2, ZenonT(60) DEF Waiting, At
    <3> QED
      BY <3>2, <3>4, <3>5, <3>6, <2>2, ZenonT(60)
  <2> QED
    BY <2>1, <2>2, <1>2, PendStep, ZenonT(60)
<1> QED
  BY <1>2, ZenonT(60) DEF PendOK

-----------------------------------------------------------------------------
(* One context after the other.                                            *)

\* A context that is deleted when nothing is outstanding leaves nothing.
CloseOK == CleanClose /\ ctx # "live" => outh = outt

\* While the wire is up, a frame with a number is of a request in the ring that
\* waits for its answer.
HeldOK ==
  CleanClose /\ NoImm /\ ~fatal =>
    \A x \in Items : x.req # 0 =>
      \E i \in 0 .. Outstanding - 1 : At(i).op \in {"READ", "WRITE"} /\ At(i).req = x.req

\* Every step keeps the deleted ring empty.
LEMMA CloseKept ==
  ASSUME Types, CallOK, CloseOK, Next
  PROVE  CloseOK'
<1> SUFFICES ASSUME CleanClose, ctx' # "live"
             PROVE  outh' = outt'
  BY ZenonT(60) DEF CloseOK
<1>1. CASE DeleteContext
  BY <1>1, ZenonT(60) DEF DeleteContext, ringVars
<1>2. CASE CreateContext
  BY <1>2, ZenonT(60) DEF CreateContext
<1>3. CASE PostRecord \/ PollComplete
  <2>1. app.pc # "idle" /\ ctx' = ctx
    BY <1>3, ZenonT(60) DEF PostRecord, PollComplete, ctxVars
  <2> QED
    BY <2>1, ZenonT(60) DEF CallOK
<1>4. CASE ~DeleteContext /\ ~CreateContext /\ ~PostRecord /\ ~PollComplete
  <2>1. outh' = outh /\ outt' = outt /\ (ctx' = ctx \/ ReleaseNic)
    BY <1>4, ZenonT(60) DEF Next, Post, Poll, Bg, BgPeer, PostStart, PostSend, PostFail, PostPump, PollStart,
         PostRecv, PollRecv, ReleaseNic, BgSwap, BgSend, BgSendFails, BgRecv, OnWriteAck,
         OnReadRsp, OnWrite, OnReadReq, OnSend, ringVars, appVars, ctxVars
  <2>2. ReleaseNic => ctx # "live"
    BY ZenonT(60) DEF ReleaseNic
  <2> QED
    BY <2>1, <2>2, ZenonT(60) DEF CloseOK
<1> QED
  BY <1>1, <1>2, <1>3, <1>4, ZenonT(60)

\* A request that a poll completes has its answer, unless the wire failed.
LEMMA PollAnswered ==
  ASSUME Types, PendOK, ~app.werr, NEW i \in 0 .. Completed - 1
  PROVE  i \in 0 .. Outstanding - 1 /\ (At(i).op \in {"READ", "WRITE"} => At(i).req = 0)
<1>1. Completed \in 0 .. Outstanding /\ Completes(i) /\ Outstanding \in Nat
  BY CompletedIs, OrderTypes, ZenonT(60) DEF Types
<1>2. PICK k, n : k = Completed /\ n = Outstanding
  BY ZenonT(60)
<1>3. k \in 0 .. n /\ n \in Nat /\ i \in 0 .. k - 1
  BY <1>1, <1>2, ZenonT(60)
<1>4. i \in 0 .. n - 1
  BY <1>3, PlacesLeft, ZenonT(60)
<1>5. PICK s : s = Nth(i)
  BY ZenonT(60)
<1>6. Answered(s)
  BY <1>1, <1>5, ZenonT(60) DEF Completes
<1>7. s \in Slots /\ ~EarlyAck(s) /\ At(i) = out[s]
  BY <1>2, <1>4, <1>5, AtIs, NoEarlyAck, ZenonT(60) DEF Types, At
<1>8. Settled(s) = out[s]
  BY <1>7, SettledIs, ZenonT(60) DEF Types
<1>9. out[s].op \in {"READ", "WRITE"} => out[s].req = 0
  BY <1>6, <1>8, ZenonT(60) DEF Answered
<1> QED
  BY <1>2, <1>4, <1>7, <1>9, ZenonT(60)

\* Slot k of the ring is still there, and waits for the same answer.
Waits(k) == \E i \in 0 .. Outstanding' - 1 : At(i)'.op = At(k).op /\ At(i)'.req = At(k).req

\* Every step keeps the frames of requests in the ring.
LEMMA HeldKept ==
  ASSUME Types, TxOK, FlowOK, InOrder, CallOK, PostOK, PendOK, Match, LastOK, HeldOK, Next, ~CreateContext
  PROVE  HeldOK'
\* A request that waits goes on waiting while it has a frame.
<1>WaitsOn. ASSUME Types, TxOK, FlowOK, InOrder, CallOK, PostOK, PendOK, Match, Next, ~CreateContext, ~fatal',
                   NEW x \in Items, x.req # 0, NEW y \in Items', y.wr = x.wr,
                   NEW k \in 0 .. Outstanding - 1, At(k).op \in {"READ", "WRITE"}, At(k).req = x.req
            PROVE  Waits(k)
  <2> USE <1>WaitsOn
  <2>1. RingTypes /\ AppTypes /\ NicTypes
    BY ZenonT(60) DEF Types
  <2>2. PICK n : n = Outstanding
    BY ZenonT(60)
  <2>3. n \in Nat /\ k \in 0 .. n - 1 /\ At(k).wr = x.wr
    BY <2>2, OrderTypes, ZenonT(60) DEF Match
  <2>4. ASSUME UNCHANGED <<out, outh, outt>>
        PROVE  Waits(k)
    BY <2>4, SameView, ZenonT(60) DEF Waits
  <2>5. ASSUME NEW j, NEW st, Tells(j, st), k # j
        PROVE  Waits(k)
    <3>1. Outstanding' = n /\ At(k)' = At(k)
      BY <2>1, <2>2, <2>5, ToldView, ZenonT(60)
    <3> QED
      BY <3>1, <2>3, ZenonT(60) DEF Waits
  <2>6. ASSUME PostRecord
        PROVE  Waits(k)
    <3>1. ~RingFull
      BY <2>6, ZenonT(60) DEF CallOK, PostRecord
    <3>2. Outstanding' = n + 1 /\ At(k)' = At(k)
      BY <3>1, <2>1, <2>2, <2>6, RecordView, ZenonT(60)
    <3>3. k \in 0 .. (n + 1) - 1
      BY <2>3, NextPlace, ZenonT(60)
    <3> QED
      BY <3>2, <3>3, ZenonT(60) DEF Waits
  <2>7. ASSUME PostFail
        PROVE  Waits(k)
    <3>1. Outstanding > 0 /\ app.pc = "fail"
      BY <2>7, ZenonT(60) DEF PostFail, CallOK
    <3>2. Tells(Outstanding - 1, "timeout")
      BY <3>1, <2>1, <2>7, FailTells, ZenonT(60)
    <3>3. k # n - 1
      <4> SUFFICES ASSUME k = n - 1
                   PROVE  FALSE
        BY ZenonT(60)
      <4>1. PICK l, w : l = Len(Finished) /\ w = x.wr
        BY ZenonT(60)
      <4>2. w = base + l + k + 1 /\ base + l + n = posted
        BY <4>1, <2>2, <2>3, ZenonT(60) DEF InOrder
      <4>3. "fail" \in {"send", "fail"}
        BY ZenonT(60)
      <4>4. w <= posted - 1 /\ w \in Nat
        BY <4>1, <4>3, <3>1, ZenonT(60) DEF FlowOK, Upto, Items, Sent
      <4>5. n \in Nat /\ l \in Nat /\ base \in Nat /\ posted \in Nat
        BY <4>1, <2>2, OrderTypes, ZenonT(60)
      <4>6. base + l + k + 1 = base + l + n
        <5>1. base + l + (n - 1) + 1 = base + l + n
          BY <4>5, CountedLast, ZenonT(60)
        <5> QED
          BY <5>1, ZenonT(60)
      <4>7. w = posted
        BY <4>2, <4>6, ZenonT(60)
      <4> QED
        BY <4>4, <4>5, <4>7, NotBelow, ZenonT(60)
    <3> QED
      BY <3>2, <3>3, <2>2, <2>5, ZenonT(60)
  <2>8. ASSUME NEW op, NEW j, AnswerAt(op, j), ReturnMove
        PROVE  Waits(k)
    <3>1. arg \in Items /\ y.wr # arg.wr
      BY <2>8, AnswerGone, ZenonT(60)
    <3>2. k # j
      <4> SUFFICES ASSUME k = j
                   PROVE  FALSE
        BY ZenonT(60)
      <4>1. At(k).req = arg.req /\ arg.req # 0
        BY <2>8, ZenonT(60) DEF AnswerAt
      <4>2. At(k).wr = arg.wr
        BY <4>1, <3>1, ZenonT(60) DEF Match
      <4> QED
        BY <4>2, <3>1, <2>3, ZenonT(60)
    <3> QED
      BY <3>2, <2>5, <2>8, ZenonT(60) DEF AnswerAt
  <2>9. ASSUME PollComplete
        PROVE  Waits(k)
    <3>1. ~app.werr
      BY AppStep, ZenonT(60) DEF PostOK
    <3>2. PICK c : c = Completed
      BY ZenonT(60)
    <3>3. k \notin 0 .. c - 1
      <4> SUFFICES ASSUME k \in 0 .. c - 1
                   PROVE  FALSE
        BY ZenonT(60)
      <4>1. At(k).req = 0
        BY <3>1, <3>2, PollAnswered, ZenonT(60)
      <4> QED
        BY <4>1, ZenonT(60)
    <3>4. c \in 0 .. n /\ Outstanding' = n - c
      BY <3>2, <2>1, <2>2, <2>9, PollView, ZenonT(60)
    <3>5. PICK i : i = k - c
      BY ZenonT(60)
    <3>6. i \in 0 .. n - c - 1 /\ c + i = k
      <4>1. k - c \in 0 .. n - c - 1 /\ c + (k - c) = k
        BY <3>3, <3>4, <2>3, PlaceMoves, ZenonT(60)
      <4> QED
        BY <4>1, <3>5, ZenonT(60)
    <3>7. i \in 0 .. Outstanding' - 1
      BY <3>4, <3>6, ZenonT(60)
    <3>8. Like(At(i)', At(Completed + i))
      BY <3>1, <3>7, <2>9, PollLeaves, ZenonT(60)
    <3>9. At(i)'.op = At(k).op /\ At(i)'.req = At(k).req
      BY <3>2, <3>6, <3>8, ZenonT(60) DEF Like
    <3> QED
      BY <3>7, <3>9, ZenonT(60) DEF Waits
  <2>10. ASSUME OnWriteAck \/ OnReadRsp
         PROVE  Waits(k)
    <3>1. ReturnMove
      BY <2>10, ThreadMoves, ZenonT(60)
    <3>2. (\E op, j : AnswerAt(op, j)) \/ UNCHANGED <<out, outh, outt>>
      BY <2>10, AnswerViews, ZenonT(60)
    <3> QED
      BY <3>1, <3>2, <2>4, <2>8, ZenonT(60)
  <2>11. OffRing => UNCHANGED <<out, outh, outt>>
    BY OffRingSame, ZenonT(60)
  <2> QED
    BY <2>4, <2>6, <2>7, <2>9, <2>10, <2>11, StepIs, ZenonT(60)
<1> SUFFICES ASSUME CleanClose, NoImm, ~fatal', NEW y \in Items', y.req # 0
             PROVE  \E i \in 0 .. Outstanding' - 1 : At(i)'.op \in {"READ", "WRITE"} /\ At(i)'.req = y.req
  BY ZenonT(60) DEF HeldOK
<1>1. ~fatal
  BY AppStep, ZenonT(60)
<1>2. ASSUME NEW x \in Items, x.wr = y.wr, x.req = y.req
      PROVE  \E i \in 0 .. Outstanding' - 1 : At(i)'.op \in {"READ", "WRITE"} /\ At(i)'.req = y.req
  <2>1. PICK k \in 0 .. Outstanding - 1 : At(k).op \in {"READ", "WRITE"} /\ At(k).req = x.req
    BY <1>1, <1>2, ZenonT(60) DEF HeldOK
  <2>2. Waits(k)
    BY <2>1, <1>2, <1>WaitsOn, ZenonT(60)
  <2> QED
    BY <2>1, <2>2, <1>2, ZenonT(60) DEF Waits
<1>3. ASSUME Inherits
      PROVE  \E i \in 0 .. Outstanding' - 1 : At(i)'.op \in {"READ", "WRITE"} /\ At(i)'.req = y.req
  BY <1>2, <1>3, ZenonT(60) DEF Inherits
<1>4. ASSUME NEW f, PostSend, QueueMove(f), Items' = Items \cup {f}
      PROVE  \E i \in 0 .. Outstanding' - 1 : At(i)'.op \in {"READ", "WRITE"} /\ At(i)'.req = y.req
  <2>1. CASE y \in Items
    BY <2>1, <1>2, ZenonT(60)
  <2>2. CASE y = f
    <3>1. UNCHANGED <<out, outh, outt>>
      BY <1>4, OffRingSame, ZenonT(60) DEF OffRing
    <3>2. PICK n : n = Outstanding
      BY ZenonT(60)
    <3>3. Outstanding' = n /\ \A i : At(i)' = At(i)
      BY <3>1, <3>2, SameView, ZenonT(60)
    <3>4. app.pc = "send" /\ f.req = app.req /\ app.op \in Opcode /\ app.op # "WRITE_IMM"
      BY <1>4, ZenonT(60) DEF PostSend, QueueMove, PostOK, Types, AppTypes, Thread
    <3>5. n > 0 /\ n \in Nat
      BY <3>2, <3>4, OrderTypes, ZenonT(60) DEF CallOK
    <3>6. n - 1 \in 0 .. n - 1
      BY <3>5, NextPlace, ZenonT(60)
    <3>7. At(n - 1).req = app.req /\ At(n - 1).op = app.op
      BY <3>2, <3>4, <3>6, ZenonT(60) DEF LastOK
    <3>8. "send" \in {"record", "send"}
      BY ZenonT(60)
    <3>9. HasReq(app.op)
      BY <3>4, <3>8, <2>2, ZenonT(60) DEF PostOK
    <3>10. app.op \in {"READ", "WRITE"}
      BY <3>4, <3>9, ZenonT(60) DEF HasReq
    <3> QED
      BY <3>3, <3>4, <3>6, <3>7, <3>10, <2>2, ZenonT(60)
  <2> QED
    BY <2>1, <2>2, <1>4, ZenonT(60)
<1> QED
  BY <1>3, <1>4, ItemsStep, ZenonT(60)

-----------------------------------------------------------------------------
(* The status of a request.                                                *)

\* A status other than the error of the wire tells what became of the data of a
\* read or a write, and none of its frames is left to change that.
ClaimIn(o, ld, ft, frames) ==
  o.op \in {"READ", "WRITE"} /\ o.status # "timeout" =>
    /\ o.status = "ok" <=> o.wr \in IF o.op = "READ" THEN ft ELSE ld
    /\ \A x \in frames : x.wr # o.wr

\* So it is with the completions, and the requests that have their answer.
TruthOK ==
  /\ \A i \in 1 .. Len(Finished) : ClaimIn(Finished[i], landed, fetched, Items)
  /\ \A i \in 0 .. Outstanding - 1 : At(i).req = 0 => ClaimIn(At(i), landed, fetched, Items)

\* A status that tells that goes on doing so.
LEMMA ClaimStays ==
  ASSUME Types, TxOK, FlowOK, Next, NEW o, ClaimIn(o, landed, fetched, Items), PostSend => o.wr # posted
  PROVE  ClaimIn(o, landed', fetched', Items')
<1> SUFFICES ASSUME o.op \in {"READ", "WRITE"}, o.status # "timeout"
             PROVE  /\ o.status = "ok" <=> o.wr \in IF o.op = "READ" THEN fetched' ELSE landed'
                    /\ \A x \in Items' : x.wr # o.wr
  BY ZenonT(60) DEF ClaimIn
<1>1. /\ o.status = "ok" <=> o.wr \in IF o.op = "READ" THEN fetched ELSE landed
      /\ \A x \in Items : x.wr # o.wr
  BY ZenonT(60) DEF ClaimIn
<1>2. (o.wr \in landed' <=> o.wr \in landed) /\ (o.wr \in fetched' <=> o.wr \in fetched)
  BY <1>1, DataStep, ZenonT(60)
<1>3. \A x \in Items' : x.wr # o.wr
  BY <1>1, ItemsStep, ZenonT(60) DEF Inherits, QueueMove
<1> QED
  BY <1>1, <1>2, <1>3, ZenonT(60)

\* The requests in the ring keep their truth.
LEMMA SlotClaims ==
  ASSUME Types, TxOK, FlowOK, InOrder, CallOK, PostOK, FrameOK, PendOK, LastOK, Match, TruthOK, Next,
         NEW i \in 0 .. Outstanding' - 1, At(i)'.req = 0
  PROVE  ClaimIn(At(i)', landed', fetched', Items')
\* The status of an answered request is that of its answer.
<1>AnswerClaims. ASSUME Types, TxOK, FlowOK, FrameOK, Match, NEW o, AckFor(o) \/ DataFor(o)
                 PROVE  ClaimIn(o, landed', fetched', Items')
  <2> USE <1>AnswerClaims
  <2>1. ReturnMove
    BY ThreadMoves, ZenonT(60) DEF AckFor, DataFor
  <2>2. arg \in Answers /\ arg \in Items /\ \A y \in Items' : y.wr # arg.wr
    BY <2>1, AnswerGone, ZenonT(60)
  <2>3. AnswerSays(arg, landed, fetched)
    BY <2>2, ZenonT(60) DEF FrameOK
  <2>4. arg.req # 0
    BY <2>3, ZenonT(60) DEF AnswerSays
  <2>5. ASSUME NEW j \in 0 .. Outstanding - 1, At(j).req = arg.req
        PROVE  At(j).wr = arg.wr
    BY <2>2, <2>4, <2>5, ZenonT(60) DEF Match
  <2>6. CASE AckFor(o)
    <3>1. arg.tag = "A" /\ landed' = landed
      BY <2>6, ZenonT(60) DEF AckFor, OnWriteAck, dataVars
    <3>2. o.op = "WRITE" /\ o.wr = arg.wr /\ o.status = arg.status
      BY <2>5, <2>6, ZenonT(60) DEF AckFor, Meant
    <3>3. arg.status = "ok" <=> arg.wr \in landed
      BY <3>1, <2>3, ZenonT(60) DEF AnswerSays
    <3>4. o.op # "READ"
      BY <3>2, ZenonT(60)
    <3> QED
      BY <3>1, <3>2, <3>3, <3>4, <2>2, ZenonT(60) DEF ClaimIn
  <2>7. CASE DataFor(o)
    <3>1. arg.tag = "r" /\ OnReadRsp
      BY <2>7, ZenonT(60) DEF DataFor, OnReadRsp
    <3>2. PICK j \in 0 .. Outstanding - 1 :
            /\ At(j).req = arg.req /\ o.wr = At(j).wr /\ o.op = "READ" /\ o.status = arg.status
            /\ fetched' = IF arg.status = "ok" /\ At(j).wr = arg.wr THEN fetched \union {arg.wr} ELSE fetched
      BY <3>1, <2>7, ZenonT(60) DEF DataFor, Meant
    <3>3. o.wr = arg.wr /\ fetched' = IF arg.status = "ok" THEN fetched \union {arg.wr} ELSE fetched
      BY <3>2, <2>5, ZenonT(60)
    <3>4. arg.wr \notin fetched
      BY <3>1, <2>3, ZenonT(60) DEF AnswerSays
    <3>5. arg.status = "ok" <=> arg.wr \in fetched'
      BY <3>3, <3>4, ZenonT(60)
    <3> QED
      BY <3>2, <3>3, <3>5, <2>2, ZenonT(60) DEF ClaimIn
  <2> QED
    BY <2>6, <2>7, ZenonT(60)
\* A request without a number is neither a read nor a write.
<1>Numberless. ASSUME Types, PostOK, app.pc \in {"record", "send"}, app.req = 0
               PROVE  app.op \notin {"READ", "WRITE"}
  <2> USE <1>Numberless
  <2>1. ~HasReq(app.op)
    BY ZenonT(60) DEF PostOK
  <2> QED
    BY <2>1, ZenonT(60) DEF HasReq
<1>1. PICK o : o = At(i)'
  BY ZenonT(60)
<1>2. o.req = 0 /\ (Stays(o) \/ Recorded(o) \/ AckFor(o) \/ DataFor(o))
  BY <1>1, SlotsStep, ZenonT(60)
<1>3. ASSUME Stays(o)
      PROVE  ClaimIn(o, landed', fetched', Items')
  <2>1. PICK k \in 0 .. Outstanding - 1 : Like(o, At(k)) \/ Failed(o, At(k))
    BY <1>3, ZenonT(60) DEF Stays
  <2>2. CASE Failed(o, At(k))
    BY <2>2, ZenonT(60) DEF Failed, ClaimIn
  <2>3. CASE Like(o, At(k)) /\ (PostSend => o.wr # posted)
    <3>1. ClaimIn(At(k), landed, fetched, Items)
      BY <2>1, <2>3, <1>2, ZenonT(60) DEF TruthOK, Like
    <3>2. ClaimIn(o, landed, fetched, Items)
      BY <3>1, <2>3, ZenonT(60) DEF ClaimIn, Like
    <3> QED
      BY <3>2, <2>3, ClaimStays, ZenonT(60)
  <2>4. CASE Like(o, At(k)) /\ PostSend /\ o.wr = posted
    <3>1. PICK n, l : n = Outstanding /\ l = Len(Finished)
      BY ZenonT(60)
    <3>2. posted = base + l + k + 1 /\ base + l + n = posted
      BY <3>1, <2>4, ZenonT(60) DEF InOrder, Like
    <3>3. n \in Nat /\ l \in Nat /\ base \in Nat /\ k \in 0 .. n - 1
      BY <3>1, OrderTypes, ZenonT(60)
    <3>4. k = n - 1
      <4>1. base + l + k + 1 = base + l + n
        BY <3>2, ZenonT(60)
      <4> QED
        BY <4>1, <3>3, Counted, ZenonT(60)
    <3>5. app.pc = "send"
      BY <2>4, ZenonT(60) DEF PostSend
    <3>6. At(k).req = app.req /\ At(k).op = app.op
      BY <3>1, <3>4, <3>5, ZenonT(60) DEF LastOK
    <3>7. "send" \in {"record", "send"}
      BY ZenonT(60)
    <3>8. o.op = app.op /\ app.req = 0
      BY <3>6, <2>4, <1>2, ZenonT(60) DEF Like
    <3>9. o.op \notin {"READ", "WRITE"}
      BY <3>5, <3>7, <3>8, <1>Numberless, ZenonT(60)
    <3> QED
      BY <3>9, ZenonT(60) DEF ClaimIn
  <2> QED
    BY <2>1, <2>2, <2>3, <2>4, ZenonT(60)
<1>4. CASE Recorded(o)
  <2>1. app.pc = "record" /\ o.op = app.op /\ app.req = 0
    BY <1>2, <1>4, ZenonT(60) DEF Recorded, PostRecord
  <2>2. "record" \in {"record", "send"}
    BY ZenonT(60)
  <2>3. o.op \notin {"READ", "WRITE"}
    BY <2>1, <2>2, <1>Numberless, ZenonT(60)
  <2> QED
    BY <2>3, <1>1, ZenonT(60) DEF ClaimIn
<1>5. CASE AckFor(o) \/ DataFor(o)
  BY <1>1, <1>5, <1>AnswerClaims, ZenonT(60)
<1>6. CASE Stays(o)
  BY <1>1, <1>3, <1>6, ZenonT(60)
<1> QED
  BY <1>2, <1>4, <1>5, <1>6, ZenonT(60)

\* What a poll completes is true.
LEMMA BatchClaims ==
  ASSUME Types, TxOK, FlowOK, PendOK, TruthOK, Next, PollComplete, NEW h \in 1 .. Completed
  PROVE  ClaimIn(Batch[h], landed', fetched', Items')
<1>1. RingTypes /\ AppTypes
  BY ZenonT(60) DEF Types
<1>2. PICK i, c : i = h - 1 /\ c = Completed
  BY ZenonT(60)
<1>3. c \in 0 .. Outstanding /\ Outstanding \in Nat
  BY <1>1, <1>2, CompletedIs, OrderTypes, ZenonT(60)
<1>4. i \in 0 .. c - 1 /\ i \in 0 .. Outstanding - 1
  BY <1>2, <1>3, PlaceOf, ZenonT(60)
<1>5. PICK s, e : s = Nth(i) /\ e = Settled(s)
  BY ZenonT(60)
<1>6. s \in Slots /\ At(i) = out[s]
  BY <1>4, <1>5, <1>1, AtIs, ZenonT(60) DEF At
<1>7. e \in Slot /\ e.wr = At(i).wr /\ e.op = At(i).op
  BY <1>1, <1>5, <1>6, SettledType, ZenonT(60)
<1>8. PICK b : b = Batch[h]
  BY ZenonT(60)
<1>9. b.wr = e.wr /\ b.op = e.op /\ b.status = e.status
  BY <1>1, <1>2, <1>5, <1>7, <1>8, BatchType, CompletionIs, ZenonT(60)
<1>10. (~app.werr /\ Like(e, At(i))) \/ (app.werr /\ Failed(e, At(i)))
  BY <1>4, <1>5, <1>7, PollSees, ZenonT(60)
<1>11. CASE app.werr
  <2>1. b.status = "timeout"
    BY <1>9, <1>10, <1>11, ZenonT(60) DEF Failed
  <2> QED
    BY <2>1, <1>8, ZenonT(60) DEF ClaimIn
<1>12. CASE ~app.werr
  <2>1. At(i).op \in {"READ", "WRITE"} => At(i).req = 0
    BY <1>2, <1>4, <1>12, PollAnswered, ZenonT(60)
  <2>2. At(i).req = 0 => ClaimIn(At(i), landed, fetched, Items)
    BY <1>4, ZenonT(60) DEF TruthOK
  <2>3. b.wr = At(i).wr /\ b.op = At(i).op /\ b.status = At(i).status
    BY <1>9, <1>10, <1>12, ZenonT(60) DEF Like
  <2>4. ClaimIn(b, landed, fetched, Items)
    BY <2>1, <2>2, <2>3, ZenonT(60) DEF ClaimIn
  <2>5. ~PostSend
    BY ZenonT(60) DEF PollComplete, PostSend
  <2> QED
    BY <2>4, <2>5, <1>8, ClaimStays, ZenonT(60)
<1> QED
  BY <1>11, <1>12, ZenonT(60)

\* The completions keep their truth.
LEMMA FinishedClaims ==
  ASSUME Types, TxOK, FlowOK, InOrder, CallOK, PendOK, TruthOK, Next, NEW i \in 1 .. Len(Finished')
  PROVE  ClaimIn(Finished'[i], landed', fetched', Items')
<1>1. PICK f, g, n : f = Finished /\ g = Finished' /\ n = Outstanding
  BY ZenonT(60)
<1>2. n \in Nat /\ f \in Seq(Finish) /\ Len(f) \in Nat /\ base \in Nat /\ posted \in Nat
  BY <1>1, OrderTypes, ZenonT(60)
<1>3. ASSUME NEW h \in 1 .. Len(f)
      PROVE  ClaimIn(f[h], landed', fetched', Items')
  <2>1. ClaimIn(f[h], landed, fetched, Items) /\ f[h].wr = base + h /\ base + Len(f) + n = posted
    BY <1>1, <1>3, ZenonT(60) DEF TruthOK, InOrder
  <2>2. ASSUME PostSend
        PROVE  f[h].wr # posted
    <3>1. n > 0
      BY <2>2, <1>1, ZenonT(60) DEF CallOK, PostSend
    <3>2. PICK l, w : l = Len(f) /\ w = f[h].wr
      BY ZenonT(60)
    <3>3. l \in Nat /\ h \in 1 .. l /\ w = base + h /\ base + l + n = posted
      BY <3>2, <2>1, <1>2, <1>3, ZenonT(60)
    <3>4. w # posted
      <4>1. base + h # base + l + n
        BY <3>1, <3>3, <1>2, Counted, ZenonT(60)
      <4> QED
        BY <4>1, <3>3, ZenonT(60)
    <3> QED
      BY <3>2, <3>4, ZenonT(60)
  <2> QED
    BY <2>1, <2>2, ClaimStays, ZenonT(60)
<1>4. CASE PollComplete
  <2>1. PICK b, k : b = Batch /\ k = Completed
    BY ZenonT(60)
  <2>2. b \in Seq(Finish) /\ Len(b) = k /\ k \in Nat
    BY <2>1, BatchType, ZenonT(60) DEF Types
  <2>3. Follows(g, f, b)
    BY <2>1, <1>1, <1>4, FinishedPoll, ZenonT(60)
  <2>4. Joined(g, f, b)
    BY <2>2, <2>3, <1>2, FollowsIs, ZenonT(60)
  <2>5. Len(g) = Len(f) + k /\ g[i] = IF i <= Len(f) THEN f[i] ELSE b[i - Len(f)]
    BY <2>2, <2>4, <1>1, ZenonT(60) DEF Joined
  <2>6. CASE i <= Len(f)
    <3>1. PICK l, m : l = Len(f) /\ m = Len(g)
      BY ZenonT(60)
    <3>2. i \in 1 .. m /\ l \in Nat /\ m = l + k /\ i <= l
      BY <3>1, <2>5, <2>6, <1>1, <1>2, ZenonT(60)
    <3>3. i \in 1 .. l
      BY <3>2, <2>2, TwoParts, ZenonT(60)
    <3> QED
      BY <3>1, <3>3, <2>5, <2>6, <1>1, <1>3, ZenonT(60)
  <2>7. CASE ~(i <= Len(f))
    <3>1. PICK l, m, h : l = Len(f) /\ m = Len(g) /\ h = i - l
      BY ZenonT(60)
    <3>2. i \in 1 .. m /\ l \in Nat /\ m = l + k /\ ~(i <= l) /\ k \in Nat
      BY <3>1, <2>2, <2>5, <2>7, <1>1, <1>2, ZenonT(60)
    <3>3. h \in 1 .. k
      BY <3>1, <3>2, TwoParts, ZenonT(60)
    <3>4. g[i] = b[h]
      BY <3>1, <2>5, <2>7, ZenonT(60)
    <3>5. ClaimIn(Batch[h], landed', fetched', Items')
      BY <3>3, <2>1, <1>4, BatchClaims, ZenonT(60)
    <3> QED
      BY <3>4, <3>5, <2>1, <1>1, ZenonT(60)
  <2> QED
    BY <2>6, <2>7, ZenonT(60)
<1>5. CASE CreateContext
  <2>1. Len(Finished') = 0
    BY <1>5, FinishedCreate, ZenonT(60)
  <2> QED
    BY <2>1
<1>6. CASE ~PollComplete /\ ~CreateContext
  <2>1. Finished' = f
    BY <1>1, <1>6, StepIs, FinishedSame, ZenonT(60)
  <2> QED
    BY <2>1, <1>3, ZenonT(60)
<1> QED
  BY <1>4, <1>5, <1>6, ZenonT(60)

\* Together with the order of the requests this is inductive.
NumbersOK == ItemReqs /\ SlotReqs /\ LastOK /\ Match /\ PendOK
StatusInv == PostOK /\ FrameOK /\ NumbersOK /\ CloseOK /\ HeldOK /\ TruthOK

\* A new context starts with its own numbers.
LEMMA CreateNumbers ==
  ASSUME Types, TxOK, OrderInv, StatusInv, Separate, CreateContext, Next
  PROVE  NumbersOK' /\ HeldOK'
\* A new context finds no frame with a number.
<1>CreateClean. ASSUME Types, PostOK, CloseOK, HeldOK, Separate, CreateContext
                PROVE  /\ Outstanding' = 0 /\ Items' = Items
                       /\ \A x \in Items : x.req = 0
  <2> USE <1>CreateClean
  <2>1. outh' = 0 /\ outt' = 0 /\ ~fatal /\ ctx = "freed" /\ opens < MaxContexts /\ UNCHANGED <<wire, batch, tx_q, bg, arg>>
    BY ZenonT(60) DEF CreateContext, NicReusable, nicVars, threadVars
  <2>2. Outstanding' = 0
    <3>1. Outstanding' = (0 - 0) % MaxOut
      BY <2>1, ZenonT(60) DEF Outstanding
    <3> QED
      BY <3>1, SlotNumbers, ZenonT(60)
  <2>3. Items' = Items
    BY <2>1, ZenonT(60) DEF Items, Answers, Line, Called
  <2>4. ~(MaxContexts <= 1)
    <3>1. opens \in Nat /\ opens >= 1 /\ MaxContexts \in Nat
      BY ConstantsAssumption, ZenonT(60) DEF Types, AppTypes, PostOK
    <3> QED
      BY <3>1, <2>1, AtLeastOne, ZenonT(60)
  <2>5. CleanClose /\ NoImm
    BY <2>4, ZenonT(60) DEF Separate
  <2>6. outh = outt
    BY <2>1, <2>5, ZenonT(60) DEF CloseOK
  <2>7. outt \in Slots
    BY ZenonT(60) DEF Types, RingTypes
  <2>8. Outstanding = (outt - outt) % MaxOut
    BY <2>6, ZenonT(60) DEF Outstanding
  <2>9. Outstanding = 0
    BY <2>7, <2>8, SlotNumbers, ZenonT(60)
  <2>10. 0 .. 0 - 1 = {}
    BY NoRange, ZenonT(60)
  <2>11. \A x \in Items : x.req = 0
    BY <2>1, <2>5, <2>9, <2>10, ZenonT(60) DEF HeldOK
  <2> QED
    BY <2>2, <2>3, <2>11, ZenonT(60)
<1>1. /\ FlowOK /\ CallOK /\ PostOK /\ FrameOK /\ ItemReqs /\ SlotReqs /\ LastOK /\ CloseOK /\ HeldOK
  BY ZenonT(60) DEF OrderInv, StatusInv, NumbersOK
<1>2. /\ Outstanding' = 0 /\ Items' = Items
      /\ \A x \in Items : x.req = 0
  BY <1>1, <1>CreateClean, ZenonT(60)
<1>3. 0 .. 0 - 1 = {}
  BY NoRange, ZenonT(60)
<1>4. LastOK'
  BY <1>1, LastKept, ZenonT(60)
<1>5. ItemReqs' /\ HeldOK'
  BY <1>2, ZenonT(60) DEF ItemReqs, HeldOK
<1>6. SlotReqs' /\ Match'
  BY <1>2, <1>3, ZenonT(60) DEF SlotReqs, Match
<1>7. \A p \in Slots : ~pend'[p].valid
  <2>1. pend' = [s \in Slots |-> NoPend]
    BY ZenonT(60) DEF CreateContext
  <2>2. NoPend.valid = FALSE
    BY DEF NoPend
  <2>3. \A p \in Slots : pend'[p] = NoPend
    BY <2>1, ZenonT(60)
  <2> QED
    BY <2>2, <2>3, ZenonT(60)
<1>8. PendOK'
  BY <1>7, ZenonT(60) DEF PendOK
<1> QED
  BY <1>4, <1>5, <1>6, <1>8, ZenonT(60) DEF NumbersOK

\* Every step keeps it.
LEMMA StatusInvKept ==
  ASSUME Types, TxOK, OrderInv, StatusInv, Separate, Next
  PROVE  StatusInv'
<1>1. /\ FlowOK /\ InOrder /\ CallOK /\ PostOK /\ FrameOK /\ ItemReqs /\ SlotReqs /\ LastOK /\ Match /\ PendOK /\ CloseOK
      /\ HeldOK /\ TruthOK
  BY ZenonT(60) DEF OrderInv, StatusInv, NumbersOK
<1>2. PostOK' /\ FrameOK' /\ CloseOK'
  BY <1>1, PostKept, FrameKept, CloseKept, ZenonT(60)
<1>3. TruthOK'
  <2>1. \A i \in 1 .. Len(Finished') : ClaimIn(Finished'[i], landed', fetched', Items')
    BY <1>1, FinishedClaims, ZenonT(60)
  <2>2. \A i \in 0 .. Outstanding' - 1 : At(i)'.req = 0 => ClaimIn(At(i)', landed', fetched', Items')
    BY <1>1, SlotClaims, ZenonT(60)
  <2> QED
    BY <2>1, <2>2, ZenonT(60) DEF TruthOK
<1>4. NumbersOK' /\ HeldOK'
  <2>1. CASE CreateContext
    BY <2>1, CreateNumbers, ZenonT(60)
  <2>2. CASE ~CreateContext
    <3>1. ItemReqs' /\ SlotReqs'
      BY <2>2, <1>1, ItemReqsKept, SlotReqsKept, ZenonT(60)
    <3>2. LastOK'
      BY <1>1, LastKept, ZenonT(60)
    <3>3. Match'
      BY <2>2, <1>1, MatchKept, ZenonT(60)
    <3>4. PendOK'
      BY <2>2, <1>1, PendKept, ZenonT(60)
    <3>5. HeldOK'
      BY <2>2, <1>1, HeldKept, ZenonT(60)
    <3> QED
      BY <3>1, <3>2, <3>3, <3>4, <3>5, ZenonT(60) DEF NumbersOK
  <2> QED
    BY <2>1, <2>2, ZenonT(60)
<1> QED
  BY <1>2, <1>3, <1>4, ZenonT(60) DEF StatusInv

\* Nothing happens to it when nothing happens.
LEMMA StatusInvSame ==
  ASSUME StatusInv, UNCHANGED vars
  PROVE  StatusInv'
<1>1. UNCHANGED <<out, outh, outt, pend, tx_q, batch, wire, bg, arg, fatal, app, ctx, opens, req_seq, posted, landed,
                  fetched, jfc, delivered>>
  BY ZenonT(60) DEF vars, appVars, ringVars, nicVars, threadVars, ctxVars, complVars, dataVars
<1>2. /\ Finished' = Finished /\ Outstanding' = Outstanding /\ (\A i : At(i)' = At(i))
      /\ Answers' = Answers /\ Line' = Line /\ Items' = Items
      /\ Sent' = Sent /\ Fresh' = Fresh /\ Bound' = Bound
  BY <1>1, ZenonT(60) DEF Finished, Outstanding, At, Nth, Items, Answers, Line, Called, Sent, Fresh, Bound
<1>3. PostOK' /\ FrameOK' /\ CloseOK' /\ HeldOK' /\ TruthOK'
  <2>1. PostOK' /\ CloseOK'
    BY <1>1, ZenonT(60) DEF StatusInv, PostOK, HasReq, CloseOK
  <2>2. FrameOK'
    BY <1>1, <1>2, ZenonT(60) DEF StatusInv, FrameOK
  <2>3. HeldOK'
    BY <1>1, <1>2, ZenonT(60) DEF StatusInv, HeldOK
  <2>4. TruthOK'
    BY <1>1, <1>2, ZenonT(60) DEF StatusInv, TruthOK
  <2> QED
    BY <2>1, <2>2, <2>3, <2>4, ZenonT(60)
<1>4. NumbersOK'
  <2>1. ItemReqs' /\ SlotReqs' /\ Match'
    BY <1>2, ZenonT(60) DEF StatusInv, NumbersOK, ItemReqs, SlotReqs, Match
  <2>2. LastOK'
    BY <1>1, <1>2, ZenonT(60) DEF StatusInv, NumbersOK, LastOK
  <2>3. PendOK'
    BY <1>1, <1>2, ZenonT(60) DEF StatusInv, NumbersOK, PendOK
  <2> QED
    BY <2>1, <2>2, <2>3, ZenonT(60) DEF NumbersOK
<1> QED
  BY <1>3, <1>4, ZenonT(60) DEF StatusInv

\* The provider starts in such a state.
LEMMA StatusInvInit ==
  ASSUME Init
  PROVE  StatusInv
<1>1. "A" \in Node /\ "B" \in Node
  BY DEF Node
<1>2. jfc["A"] = << >> /\ delivered["A"] = << >> /\ wire["A"] = << >> /\ wire["B"] = << >>
  BY <1>1, ZenonT(60) DEF Init
<1>3. << >> \o << >> = << >> /\ Len(<< >>) = 0
  BY SMT
<1>4. /\ outh = 0 /\ outt = 0 /\ app = Idle /\ bg = "recv" /\ batch = << >> /\ tx_q = << >> /\ landed = {} /\ fetched = {}
      /\ req_seq = 1 /\ opens = 1
  BY ZenonT(60) DEF Init
<1>5. Finished = << >>
  BY <1>2, <1>3, ZenonT(60) DEF Finished
<1>6. Items = {} /\ Answers = {} /\ Line = {}
  BY <1>2, <1>4, EmptyMembers, ZenonT(60) DEF Items, Called, Answers, Line
<1>7. Outstanding = 0
  <2>1. Outstanding = (0 - 0) % MaxOut
    BY <1>4, ZenonT(60) DEF Outstanding
  <2> QED
    BY <2>1, SlotNumbers, ZenonT(60)
<1>8. 1 .. 0 = {} /\ 0 .. 0 - 1 = {} /\ 1 > 0 /\ 1 >= 1
  BY NoRange, ZenonT(60)
<1>9. app.pc = "idle" /\ app.werr = FALSE /\ app.op = "CAS"
  BY <1>4, ZenonT(60) DEF Idle
<1>10. PostOK
  <2>1. "idle" \notin {"record", "send"} /\ "CAS" # "WRITE_IMM"
    BY ZenonT(60)
  <2> QED
    BY <2>1, <1>4, <1>8, <1>9, ZenonT(60) DEF PostOK
<1>11. FrameOK /\ CloseOK /\ HeldOK
  BY <1>4, <1>6, ZenonT(60) DEF FrameOK, CloseOK, HeldOK
<1>12. TruthOK
  BY <1>3, <1>5, <1>7, <1>8, ZenonT(60) DEF TruthOK
<1>13. PendOK
  <2>1. NoPend.valid = FALSE
    BY DEF NoPend
  <2>2. \A p \in Slots : pend[p] = NoPend
    BY ZenonT(60) DEF Init
  <2> QED
    BY <2>1, <2>2, ZenonT(60) DEF PendOK
<1>14. ItemReqs /\ SlotReqs /\ LastOK /\ Match
  BY <1>6, <1>7, <1>8, <1>9, ZenonT(60) DEF ItemReqs, SlotReqs, LastOK, Match
<1> QED
  BY <1>10, <1>11, <1>12, <1>13, <1>14, ZenonT(60) DEF StatusInv, NumbersOK

-----------------------------------------------------------------------------
(* The theorems.                                                           *)

LOCAL INSTANCE WellFoundedInduction

\* The loops of ou_poll_jfc and ou_data_cb stop at a first slot, since the
\* numbers are well-ordered.
LEMMA NumbersFirst == FirstOf
<1>1. PICK R : R = {ss \in Nat \X Nat : ss[1] < ss[2]}
  BY ZenonT(60)
<1>2. IsWellFoundedOn(R, Nat)
  BY <1>1, NatLessThanWellFounded, ZenonT(60) DEF OpToRel
<1>3. ASSUME NEW T \in SUBSET Nat, T # {}
      PROVE  \E x \in T : \A y \in T : x <= y
  <2>1. PICK x \in T : \A y \in T : ~(<<y, x>> \in R)
    BY <1>2, <1>3, WFMin, ZenonT(60)
  <2>2. ASSUME NEW y \in T
        PROVE  x <= y
    <3>1. x \in Nat /\ y \in Nat /\ ~(<<y, x>> \in R)
      BY <2>1, ZenonT(60)
    <3>2. y < x => <<y, x>> \in R
      BY <3>1, <1>1
    <3> QED
      BY <3>1, <3>2
  <2> QED
    BY <2>2, ZenonT(60)
<1> QED
  BY <1>3, ZenonT(60) DEF FirstOf

\* Every request completes once, in the order of the posts, and none is lost,
\* whatever the background thread does between the steps of ou_post_one and
\* ou_poll_jfc; the receives of the peer complete once each, in order, with
\* messages in order.
THEOREM EachCompletesOnce == Spec => []CompletesOnce
<1>1. Init => Types /\ TxOK /\ OrderInv
  BY NumbersFirst, BaseInit, OrderInvInit, ZenonT(60)
<1>2. Types /\ TxOK /\ OrderInv /\ [Next]_vars => (Types /\ TxOK /\ OrderInv)'
  BY BaseKept, OrderInvKept, ZenonT(60)
<1>3. Types /\ TxOK /\ OrderInv => CompletesOnce
  <2> SUFFICES ASSUME Types, OrderInv
               PROVE  CompletesOnce
    BY ZenonT(60)
  <2>1. PICK f, r : f = Finished /\ r = Received
    BY ZenonT(60)
  <2>2. f \in Seq(Finish) /\ r \in Seq(Receipt)
    BY <2>1, OrderTypes, ReceivedType, ZenonT(60)
  <2>3. DOMAIN f = 1 .. Len(f) /\ DOMAIN r = 1 .. Len(r)
    BY <2>2, PlacesOf, ZenonT(60)
  <2>4. /\ \A i \in DOMAIN Received : Received[i].recv = i
        /\ \A i, k \in DOMAIN Received : i < k => Received[i].wr < Received[k].wr
    BY <2>1, <2>3, ZenonT(60) DEF OrderInv, RecvOK, FlowOK, Sorted
  <2>5. /\ \A i \in DOMAIN Finished : Finished[i].wr = base + i
        /\ \A i \in 0 .. Outstanding - 1 : out[Nth(i)].wr = base + Len(Finished) + i + 1
        /\ base + Len(Finished) + Outstanding = posted
    BY <2>1, <2>3, ZenonT(60) DEF OrderInv, InOrder, At
  <2> QED
    BY <2>4, <2>5, ZenonT(60) DEF CompletesOnce
<1> QED
  BY <1>1, <1>2, <1>3, PTL DEF Spec

\* The status of a completed read or write is the fate of its own data, however
\* the answers of the peer, the failure of the wire and the polls interleave,
\* and when a NIC is used by one context after the other (ou_data_cb,
\* ou_poll_jfc).
THEOREM StatusIsTrue == ASSUME Separate PROVE Spec => []StatusTrue
<1> DEFINE Inv == Types /\ TxOK /\ OrderInv /\ StatusInv
<1>1. Init => Inv
  BY NumbersFirst, BaseInit, OrderInvInit, StatusInvInit, ZenonT(60)
<1>2. Inv /\ [Next]_vars => Inv'
  <2> SUFFICES ASSUME Inv, [Next]_vars
               PROVE  Inv'
    BY ZenonT(60)
  <2>1. Types' /\ TxOK' /\ OrderInv'
    BY BaseKept, OrderInvKept, ZenonT(60)
  <2>2. StatusInv'
    BY StatusInvKept, StatusInvSame, ZenonT(60)
  <2> QED
    BY <2>1, <2>2, ZenonT(60)
<1>3. Inv => StatusTrue
  <2> SUFFICES ASSUME Types, StatusInv
               PROVE  StatusTrue
    BY ZenonT(60)
  <2>1. PICK f : f = Finished
    BY ZenonT(60)
  <2>2. f \in Seq(Finish)
    BY <2>1, OrderTypes, ZenonT(60)
  <2>3. DOMAIN f = 1 .. Len(f)
    BY <2>2, PlacesOf, ZenonT(60)
  <2>4. ASSUME NEW i \in DOMAIN f
        PROVE  LET c == f[i] IN
               /\ c.op = "WRITE" => /\ c.status = "ok" => c.wr \in landed
                                    /\ c.status = "abort" => c.wr \notin landed
               /\ c.op = "READ" => /\ c.status = "ok" => c.wr \in fetched
                                   /\ c.status = "abort" => c.wr \notin fetched
    <3>1. PICK c : c = f[i]
      BY ZenonT(60)
    <3>2. ClaimIn(c, landed, fetched, Items)
      BY <3>1, <2>1, <2>3, <2>4, ZenonT(60) DEF StatusInv, TruthOK
    <3>3. /\ c.op = "WRITE" => /\ c.status = "ok" => c.wr \in landed
                               /\ c.status = "abort" => c.wr \notin landed
          /\ c.op = "READ" => /\ c.status = "ok" => c.wr \in fetched
                              /\ c.status = "abort" => c.wr \notin fetched
      BY <3>2, ZenonT(60) DEF ClaimIn
    <3> QED
      BY <3>1, <3>3, ZenonT(60)
  <2> QED
    BY <2>1, <2>4, ZenonT(60) DEF StatusTrue
<1> QED
  BY <1>1, <1>2, <1>3, PTL DEF Spec

=============================================================================
