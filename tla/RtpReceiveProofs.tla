--------------------------- MODULE RtpReceiveProofs ---------------------------
(***************************************************************************)
(* Proofs about RtpReceive, for any number of peers, any PSN space, bitmap *)
(* and window, and any losses, repetitions and reorderings by the wire.    *)
(***************************************************************************)
EXTENDS RtpReceive, FiniteSetTheorems, WellFoundedInduction, TLAPS

\* The limit of a leaf that names no prover.
USE SMTT(60)

-----------------------------------------------------------------------------
(* Remainders.                                                             *)

\* The PSN space is even.
LEMMA Space ==
  /\ PsnMod \in Nat \ {0} /\ PsnMod \div 2 \in Nat /\ PsnMod = 2 * (PsnMod \div 2)
  /\ BitmapBits \in 1 .. PsnMod \div 2 /\ Window \in Nat \ {0}
  /\ MaxChannels \in Nat \ {0} /\ Peers \subseteq Nat
BY ConstantsAssumption

\* Quotient and remainder.
LEMMA DivMod ==
  ASSUME NEW a \in Int, NEW S \in Nat \ {0}
  PROVE  a % S \in 0 .. S - 1 /\ a \div S \in Int /\ a = S * (a \div S) + (a % S)
OBVIOUS

\* The remainder is the only number in range that differs by a multiple.
LEMMA ModUnique ==
  ASSUME NEW k \in Int, NEW r \in Int, NEW S \in Nat \ {0}, 0 <= r, r < S
  PROVE  (S * k + r) % S = r
OBVIOUS

\* A multiple of the divisor does not change the remainder.
LEMMA ModShift ==
  ASSUME NEW a \in Int, NEW k \in Int, NEW S \in Nat \ {0}
  PROVE  (a + S * k) % S = a % S
<1>1. PICK d, r : d = a \div S /\ r = a % S
  BY Zenon
<1>2. d \in Int /\ r \in Int /\ 0 <= r /\ r < S /\ a = S * d + r
  BY <1>1, DivMod
<1>3. a + S * k = S * (d + k) + r /\ d + k \in Int
  BY <1>2
<1>4. (S * (d + k) + r) % S = r
  BY <1>2, <1>3, ModUnique, Zenon
<1> QED
  BY <1>1, <1>3, <1>4, Zenon

\* A sum has the remainder of the sum of a remainder.
LEMMA ModAdd ==
  ASSUME NEW a \in Int, NEW b \in Int, NEW S \in Nat \ {0}
  PROVE  ((a % S) + b) % S = (a + b) % S
<1>1. PICK d, r : d = a \div S /\ r = a % S
  BY Zenon
<1>2. d \in Int /\ r \in Int /\ a = S * d + r
  BY <1>1, DivMod
<1>3. a + b = (r + b) + S * d /\ r + b \in Int
  BY <1>2
<1>4. ((r + b) + S * d) % S = (r + b) % S
  BY <1>2, <1>3, ModShift, ZenonT(60)
<1> QED
  BY <1>1, <1>3, <1>4, Zenon

\* How far one number is ahead of another, from their remainders.
LEMMA ModDifference ==
  ASSUME NEW a \in Int, NEW b \in Int, NEW S \in Nat \ {0}
  PROVE  ((a % S) - (b % S)) % S = (a - b) % S
<1>1. PICK d, e, r, s : d = a \div S /\ r = a % S /\ e = b \div S /\ s = b % S
  BY Zenon
<1>2. d \in Int /\ r \in Int /\ a = S * d + r /\ e \in Int /\ s \in Int /\ b = S * e + s
  BY <1>1, DivMod
<1>3. a - b = (r - s) + S * (d - e) /\ r - s \in Int /\ d - e \in Int
  BY <1>2
<1>4. ((r - s) + S * (d - e)) % S = (r - s) % S
  BY <1>3, ModShift, ZenonT(60)
<1> QED
  BY <1>1, <1>3, <1>4, Zenon

\* Where PSN n is taken to be, seen from the expected one, if it is less than
\* the PSN space ahead and at most half of it behind.
LEMMA DiffIs ==
  ASSUME NEW n \in Nat, NEW m \in Nat, n < m + PsnMod, m <= n + PsnMod \div 2,
         NEW d, d = ((n % PsnMod) - (m % PsnMod)) % PsnMod
  PROVE  /\ d \in Nat
         /\ n >= m => d = n - m
         /\ n < m => d >= PsnMod \div 2
<1>1. PsnMod \in Nat \ {0} /\ PsnMod \div 2 \in Nat /\ PsnMod = 2 * (PsnMod \div 2)
  BY Space
<1>2. d = (n - m) % PsnMod
  <2>1. n \in Int /\ m \in Int
    OBVIOUS
  <2>2. ((n % PsnMod) - (m % PsnMod)) % PsnMod = (n - m) % PsnMod
    BY <2>1, <1>1, ModDifference, ZenonT(60)
  <2> QED
    BY <2>2, Zenon
<1>3. CASE n >= m
  <2>1. n - m \in Int /\ 0 <= n - m /\ n - m < PsnMod /\ 0 \in Int /\ PsnMod * 0 + (n - m) = n - m
    BY <1>1, <1>3
  <2>2. (PsnMod * 0 + (n - m)) % PsnMod = n - m
    BY <2>1, <1>1, ModUnique, Zenon
  <2>3. d = n - m
    BY <2>1, <2>2, <1>2, Zenon
  <2> QED
    BY <2>1, <2>3, <1>3
<1>4. CASE n < m
  <2>1. PICK r : r = PsnMod + (n - m)
    BY Zenon
  <2>2. /\ r \in Int /\ 0 <= r /\ r < PsnMod /\ r >= PsnMod \div 2
        /\ 0 - 1 \in Int /\ PsnMod * (0 - 1) + r = n - m
    BY <2>1, <1>1, <1>4
  <2>3. (PsnMod * (0 - 1) + r) % PsnMod = r
    BY <2>2, <1>1, ModUnique, Zenon
  <2>4. d = r
    BY <2>2, <2>3, <1>2, Zenon
  <2> QED
    BY <2>2, <2>4, <1>4
<1> QED
  BY <1>3, <1>4

\* A set of numbers that is not empty has a first one.
LEMMA FirstOf ==
  ASSUME NEW T, T \subseteq Nat, T # {}
  PROVE  \E x \in T : \A y \in T : x <= y
<1>1. PICK R : R = {ss \in Nat \X Nat : ss[1] < ss[2]}
  BY Zenon
<1>2. IsWellFoundedOn(R, Nat)
  BY <1>1, NatLessThanWellFounded, Zenon DEF OpToRel
<1>3. PICK x \in T : \A y \in T : ~(<<y, x>> \in R)
  BY <1>2, WFMin, Zenon
<1>4. ASSUME NEW y \in T
      PROVE  x <= y
  <2>1. x \in Nat /\ y \in Nat /\ ~(<<y, x>> \in R)
    BY <1>3, Zenon
  <2>2. y < x => <<y, x>> \in R
    BY <2>1, <1>1
  <2> QED
    BY <2>1, <2>2
<1> QED
  BY <1>4, Zenon

-----------------------------------------------------------------------------
(* What a channel of UB_TPChannel_RX stands for.                           *)

\* G are the packets before m, and the ones b places after it for b in B.
GotIs(G, m, B) ==
  /\ m \in Nat /\ B \subseteq 1 .. BitmapBits - 1
  /\ G = (0 .. m - 1) \cup {m + b : b \in B}

\* The first packet that is not in G; Missing(p) is First(got[p]).
First(G) == CHOOSE n \in 0 .. Cardinality(Pkts) : n \notin G /\ \A m \in 0 .. n - 1 : m \in G

\* m is that packet.
LEMMA FirstIs ==
  ASSUME NEW G, NEW m, NEW B, G \subseteq Pkts, GotIs(G, m, B)
  PROVE  First(G) = m /\ m \notin G
<1>1. PICK N : N = Cardinality(Pkts)
  BY Zenon
<1>2. N \in Nat /\ Pkts = 0 .. N - 1
  BY <1>1, FlitsAssumption, FS_CardinalityType, Zenon
<1>3. /\ m \in Nat /\ \A x : x \in G => x \in 0 .. N - 1
      /\ \A x \in 0 .. m - 1 : x \in G
  BY <1>2, Zenon DEF GotIs
<1>4. m \in 0 .. N
  <2>1. m = 0 \/ m - 1 \in 0 .. m - 1
    BY <1>3
  <2>2. m = 0 \/ m - 1 \in 0 .. N - 1
    BY <2>1, <1>3, Zenon
  <2> QED
    BY <2>2, <1>2, <1>3
<1>5. m \notin G
  BY <1>3, Space DEF GotIs
<1>6. ASSUME NEW n \in 0 .. N, n \notin G, \A x \in 0 .. n - 1 : x \in G
      PROVE  n = m
  <2>1. ~(n < m)
    <3>1. n < m => n \in 0 .. m - 1
      BY <1>2, <1>3, <1>6
    <3> QED
      BY <3>1, <1>3, <1>6, Zenon
  <2>2. ~(m < n)
    <3>1. m < n => m \in 0 .. n - 1
      BY <1>2, <1>3, <1>6
    <3> QED
      BY <3>1, <1>5, <1>6, Zenon
  <2> QED
    BY <2>1, <2>2, <1>3, <1>6
<1>7. \E n \in 0 .. N : n \notin G /\ \A x \in 0 .. n - 1 : x \in G
  BY <1>3, <1>4, <1>5, Zenon
<1>8. /\ First(G) \in 0 .. N /\ First(G) \notin G /\ \A x \in 0 .. First(G) - 1 : x \in G
  BY <1>1, <1>7, Zenon DEF First
<1> QED
  BY <1>5, <1>6, <1>8, Zenon

\* The bits in a row from the first, plus one.
Run(B) == CHOOSE k \in 1 .. BitmapBits : k \notin B /\ \A b \in 1 .. k - 1 : b \in B

\* There is always such a number.
LEMMA RunIs ==
  ASSUME NEW B, B \subseteq 1 .. BitmapBits - 1
  PROVE  Run(B) \in 1 .. BitmapBits /\ Run(B) \notin B /\ \A b \in 1 .. Run(B) - 1 : b \in B
<1>1. PICK T : T = {k \in 1 .. BitmapBits : k \notin B}
  BY Zenon
<1>2. BitmapBits \in Nat /\ BitmapBits \in T /\ T \subseteq Nat
  BY <1>1, Space
<1>3. PICK k \in T : \A y \in T : k <= y
  BY <1>2, FirstOf, Zenon
<1>4. \A b \in 1 .. k - 1 : b \in B
  <2>1. \A b \in 1 .. k - 1 : b \in 1 .. BitmapBits /\ ~(k <= b)
    BY <1>1, <1>2, <1>3
  <2> QED
    BY <2>1, <1>1, <1>3, Zenon
<1>5. \E x \in 1 .. BitmapBits : x \notin B /\ \A b \in 1 .. x - 1 : b \in B
  BY <1>1, <1>3, <1>4, Zenon
<1> QED
  BY <1>5, Zenon DEF Run

\* The expected packet comes: the window slides over what is there.
LEMMA GotSlid ==
  ASSUME NEW G, NEW m, NEW B, GotIs(G, m, B)
  PROVE  GotIs(G \cup {m}, m + Run(B), Shift(B, Run(B)))
<1>1. PICK r, C : r = Run(B) /\ C = Shift(B, Run(B))
  BY Zenon
<1>2. m \in Nat /\ B \subseteq 1 .. BitmapBits - 1 /\ G = (0 .. m - 1) \cup {m + b : b \in B}
  BY Zenon DEF GotIs
<1>3. r \in 1 .. BitmapBits /\ r \notin B /\ \A b \in 1 .. r - 1 : b \in B
  BY <1>1, <1>2, RunIs, Zenon
<1>4. C = {b - r : b \in {x \in B : x >= r}}
  BY <1>1, Zenon DEF Shift
<1>5. BitmapBits \in Nat
  BY Space
<1>6. C \subseteq 1 .. BitmapBits - 1
  BY <1>2, <1>3, <1>4, <1>5
<1>7. ASSUME NEW x \in G \cup {m}
      PROVE  x \in (0 .. (m + r) - 1) \cup {(m + r) + c : c \in C}
  <2>1. CASE x \in 0 .. m
    BY <2>1, <1>2, <1>3
  <2>2. CASE \E b \in B : x = m + b
    <3>1. PICK b \in B : x = m + b
      BY <2>2
    <3>2. CASE b < r
      BY <3>1, <3>2, <1>2, <1>3
    <3>3. CASE b >= r
      <4>1. b - r \in C /\ x = (m + r) + (b - r)
        BY <3>1, <3>3, <1>2, <1>3, <1>4
      <4> QED
        BY <4>1
    <3> QED
      BY <3>2, <3>3, <1>2, <1>3
  <2> QED
    BY <2>1, <2>2, <1>2
<1>8. ASSUME NEW x \in (0 .. (m + r) - 1) \cup {(m + r) + c : c \in C}
      PROVE  x \in G \cup {m}
  <2>1. CASE x \in 0 .. (m + r) - 1
    <3>1. x \in 0 .. m \/ x - m \in 1 .. r - 1
      BY <2>1, <1>2, <1>3
    <3>2. CASE x - m \in 1 .. r - 1
      <4>1. x - m \in B /\ x = m + (x - m)
        BY <3>2, <2>1, <1>2, <1>3
      <4> QED
        BY <4>1, <1>2
    <3> QED
      BY <3>1, <3>2, <1>2
  <2>2. CASE x \in {(m + r) + c : c \in C}
    <3>1. PICK b \in B : b >= r /\ x = (m + r) + (b - r)
      BY <2>2, <1>4
    <3>2. x = m + b
      BY <3>1, <1>2, <1>3
    <3> QED
      BY <3>1, <3>2, <1>2
  <2> QED
    BY <2>1, <2>2
<1>9. G \cup {m} = (0 .. (m + r) - 1) \cup {(m + r) + c : c \in C}
  BY <1>7, <1>8, Zenon
<1>10. m + r \in Nat
  BY <1>2, <1>3
<1> QED
  BY <1>1, <1>6, <1>9, <1>10, ZenonT(60) DEF GotIs

\* An early packet comes: its bit is set.
LEMMA GotMarked ==
  ASSUME NEW G, NEW m, NEW B, GotIs(G, m, B), NEW d \in 1 .. BitmapBits - 1
  PROVE  GotIs(G \cup {m + d}, m, B \cup {d})
<1>1. m \in Nat /\ B \subseteq 1 .. BitmapBits - 1 /\ G = (0 .. m - 1) \cup {m + b : b \in B}
  BY Zenon DEF GotIs
<1>2. {m + b : b \in B \cup {d}} = {m + b : b \in B} \cup {m + d}
  BY Zenon
<1>3. G \cup {m + d} = (0 .. m - 1) \cup {m + b : b \in B \cup {d}}
  BY <1>1, <1>2
<1>4. B \cup {d} \subseteq 1 .. BitmapBits - 1
  BY <1>1
<1> QED
  BY <1>1, <1>3, <1>4, Zenon DEF GotIs

-----------------------------------------------------------------------------
(* The invariant of UB_TPChannel_RX.                                       *)

RxChannel ==
  [valid : BOOLEAN, cna : Nat, epsn : Nat, bitmap : SUBSET (1 .. BitmapBits - 1), ooo : BOOLEAN]
FlitType == [peer : Nat, n : Nat, k : Nat]

\* Channel c of peer p, from which the packets G were accepted.
ChanOK(c, p, G) ==
  /\ c \in RxChannel /\ G \subseteq Pkts
  /\ GotIs(G, First(G), c.bitmap) /\ c.epsn = First(G) % PsnMod
  /\ c.valid => c.cna = p
  /\ ~c.valid => First(G) = 0 /\ c.bitmap = {}

ChansOK(rx, gt) ==
  /\ rx \in [Chan -> RxChannel] /\ gt \in [Peers -> SUBSET Pkts]
  /\ \A p \in Peers : ChanOK(rx[Idx(p)], p, gt[p])

\* What descriptor a says is what its channel is.
AckSays(a, c) ==
  /\ a.op = "TPACK" /\ ~a.nak => a.psn = (c.epsn - 1) % PsnMod
  /\ a.op = "TPSACK" => a.psn = c.epsn /\ a.bitmap = c.bitmap

AckOK(a, rx) ==
  a.op # "none" => a.peer \in Peers /\ rx[Idx(a.peer)].valid /\ AckSays(a, rx[Idx(a.peer)])

\* A packet that comes is not too far from the expected one, and it is packet 0
\* if it opens the channel.
Near(f, rx, gt) ==
  /\ f.n <= First(gt[f.peer]) + traffic.ahead
  /\ First(gt[f.peer]) <= f.n + PsnMod \div 2
  /\ f.n = 0 \/ rx[Idx(f.peer)].valid

\* What is left on port 1 is the rest of one packet.
RestOf(fd, f) ==
  /\ f \in FlitType /\ f.peer \in Peers /\ f.n \in Pkts /\ f.k >= 1
  /\ Len(fd) = Flits[f.n] - f.k + 1
  /\ \A j \in 1 .. Len(fd) : fd[j] = Flit(f.peer, f.n, f.k + j - 1)

FeedOK(fd, rx, gt) ==
  /\ fd \in Seq(FlitType)
  /\ fd # << >> => RestOf(fd, Head(fd)) /\ (Sop(Head(fd)) => Near(Head(fd), rx, gt))

RxInv ==
  /\ traffic \in Traffics
  /\ ChansOK(rxchan, got) /\ AckOK(ack, rxchan) /\ FeedOK(feed, rxchan, got)

\* The updates of a channel, and its fields after them.
Open(c, p, e) == [c EXCEPT !.valid = TRUE, !.cna = p, !.epsn = e, !.bitmap = {}]
Advance(c, e, B) == [c EXCEPT !.epsn = e, !.bitmap = B]
Mark(c, B) == [c EXCEPT !.bitmap = B]
Setup(c, p, o) == [c EXCEPT !.valid = TRUE, !.cna = p, !.epsn = 0, !.ooo = o]

\* A channel that its first packet opens.
LEMMA Opened ==
  ASSUME NEW c \in RxChannel, NEW p \in Nat, NEW e \in Nat
  PROVE  LET r == Open(c, p, e) IN
         r \in RxChannel /\ r.valid /\ r.cna = p /\ r.epsn = e /\ r.bitmap = {}
<1>1. {} \in SUBSET (1 .. BitmapBits - 1) /\ TRUE \in BOOLEAN
  BY Zenon
<1> QED
  BY <1>1, Zenon DEF RxChannel, Open

\* A channel whose expected PSN moves on.
LEMMA Advanced ==
  ASSUME NEW c \in RxChannel, NEW e \in Nat, NEW B \in SUBSET (1 .. BitmapBits - 1)
  PROVE  LET r == Advance(c, e, B) IN
         r \in RxChannel /\ r.epsn = e /\ r.bitmap = B /\ r.valid = c.valid /\ r.cna = c.cna
BY Zenon DEF RxChannel, Advance

\* A channel whose bitmap gets a packet that came early.
LEMMA Marked ==
  ASSUME NEW c \in RxChannel, NEW B \in SUBSET (1 .. BitmapBits - 1)
  PROVE  LET r == Mark(c, B) IN
         r \in RxChannel /\ r.epsn = c.epsn /\ r.bitmap = B /\ r.valid = c.valid /\ r.cna = c.cna
BY Zenon DEF RxChannel, Mark

\* A channel that the host sets up keeps its bitmap.
LEMMA Provisioned ==
  ASSUME NEW c \in RxChannel, NEW p \in Nat, NEW o \in BOOLEAN
  PROVE  LET r == Setup(c, p, o) IN
         r \in RxChannel /\ r.valid /\ r.cna = p /\ r.epsn = 0 /\ r.bitmap = c.bitmap
<1>1. 0 \in Nat /\ TRUE \in BOOLEAN
  OBVIOUS
<1> QED
  BY <1>1, Zenon DEF RxChannel, Setup

\* The channel of a peer is among the channels.
LEMMA IdxChan ==
  ASSUME NEW p \in Peers
  PROVE  Idx(p) \in Chan /\ p \in Nat
BY Space, Zenon DEF Idx, Chan

\* Only the channel of peer p and what was accepted from it change.
Sets(rx, gt, p, c, G, rx2, gt2) ==
  /\ ChansOK(rx, gt) /\ p \in Peers /\ ChanOK(c, p, G)
  /\ rx2 = [rx EXCEPT ![Idx(p)] = c] /\ gt2 = [gt EXCEPT ![p] = G]

\* The other channels stay as they were: no two peers share one.
LEMMA SetOK ==
  ASSUME Setting, NEW rx, NEW gt, NEW p, NEW c, NEW G, NEW rx2, NEW gt2,
         Sets(rx, gt, p, c, G, rx2, gt2)
  PROVE  ChansOK(rx2, gt2) /\ rx2[Idx(p)] = c /\ gt2[p] = G
<1>0. rx2 = [rx EXCEPT ![Idx(p)] = c] /\ gt2 = [gt EXCEPT ![p] = G] /\ p \in Peers
  BY Zenon DEF Sets
<1>1. /\ rx \in [Chan -> RxChannel] /\ gt \in [Peers -> SUBSET Pkts]
      /\ \A q \in Peers : ChanOK(rx[Idx(q)], q, gt[q])
      /\ c \in RxChannel /\ G \in SUBSET Pkts /\ ChanOK(c, p, G)
  BY Zenon DEF Sets, ChansOK, ChanOK
<1>2. Idx(p) \in Chan
  BY <1>0, IdxChan, Zenon
<1>3. rx2 \in [Chan -> RxChannel] /\ gt2 \in [Peers -> SUBSET Pkts]
  BY <1>0, <1>1, <1>2, Zenon
<1>4. rx2[Idx(p)] = c /\ gt2[p] = G
  BY <1>0, <1>1, <1>2, Zenon
<1>5. ASSUME NEW q \in Peers
      PROVE  ChanOK(rx2[Idx(q)], q, gt2[q])
  <2>1. CASE q = p
    BY <2>1, <1>1, <1>4, Zenon
  <2>2. CASE q # p
    <3>1. Idx(q) # Idx(p) /\ Idx(q) \in Chan
      BY <2>2, <1>0, IdxChan, Zenon DEF Setting
    <3>2. rx2[Idx(q)] = rx[Idx(q)] /\ gt2[q] = gt[q]
      BY <3>1, <2>2, <1>0, <1>1, Zenon
    <3> QED
      BY <3>2, <1>1, Zenon
  <2> QED
    BY <2>1, <2>2, Zenon
<1> QED
  BY <1>3, <1>4, <1>5, Zenon DEF ChansOK

\* A flit is read from port 1.
LEMMA FeedTail ==
  ASSUME FeedOK(feed, rxchan, got), feed # << >>, NEW rx, NEW gt
  PROVE  /\ FeedOK(Tail(feed), rx, gt)
         /\ Tail(feed) # << >> => Head(Tail(feed)) = Flit(Head(feed).peer, Head(feed).n, Head(feed).k + 1)
<1>1. PICK f : f = Head(feed)
  BY Zenon
<1>2. feed \in Seq(FlitType) /\ RestOf(feed, f)
  BY <1>1, Zenon DEF FeedOK
<1>3. /\ f \in FlitType /\ f.peer \in Peers /\ f.n \in Pkts /\ f.k >= 1
      /\ Len(feed) = Flits[f.n] - f.k + 1
      /\ \A j \in 1 .. Len(feed) : feed[j] = Flit(f.peer, f.n, f.k + j - 1)
  BY <1>2, Zenon DEF RestOf
<1>4. f.k \in Nat /\ f.peer \in Nat /\ f.n \in Nat /\ Flits[f.n] \in Nat
  BY <1>3, FlitsAssumption DEF FlitType
<1>5. /\ Tail(feed) \in Seq(FlitType) /\ Len(Tail(feed)) = Len(feed) - 1
      /\ \A j \in 1 .. Len(feed) - 1 : Tail(feed)[j] = feed[j + 1]
      /\ Len(feed) \in Nat
      /\ Tail(feed) # << >> => Len(feed) - 1 >= 1 /\ Head(Tail(feed)) = Tail(feed)[1]
  BY <1>2
<1>6. CASE Tail(feed) # << >>
  <2>1. PICK g : g = Flit(f.peer, f.n, f.k + 1)
    BY Zenon
  <2>2. g \in FlitType /\ g.peer = f.peer /\ g.n = f.n /\ g.k = f.k + 1
    BY <2>1, <1>4 DEF Flit, FlitType
  <2>3. \A j \in 1 .. Len(feed) - 1 : /\ j + 1 \in 1 .. Len(feed)
                                      /\ f.k + (j + 1) - 1 = f.k + 1 + j - 1
    BY <1>4, <1>5
  <2>4. \A j \in 1 .. Len(feed) - 1 : Tail(feed)[j] = Flit(g.peer, g.n, g.k + j - 1)
    BY <2>2, <2>3, <1>3, <1>5
  <2>5. Head(Tail(feed)) = g
    <3>1. 1 \in 1 .. Len(feed) - 1 /\ f.k + 1 + 1 - 1 = f.k + 1
      BY <1>4, <1>5, <1>6
    <3>2. Tail(feed)[1] = Flit(f.peer, f.n, f.k + 1 + 1 - 1)
      BY <3>1, <2>2, <2>4
    <3> QED
      BY <3>1, <3>2, <2>1, <1>5, <1>6, Zenon
  <2>6. g.k >= 1 /\ Len(Tail(feed)) = Flits[g.n] - g.k + 1 /\ ~(g.k = 1)
    BY <2>2, <1>3, <1>4, <1>5
  <2>7. RestOf(Tail(feed), g)
    BY <2>2, <2>4, <2>6, <1>3, <1>5, Zenon DEF RestOf
  <2> QED
    BY <2>1, <2>5, <2>6, <2>7, <1>1, <1>5, Zenon DEF FeedOK, Sop
<1> QED
  BY <1>5, <1>6, Zenon DEF FeedOK

\* The metadata flit that is read, its peer's channel and the packets before.
Reading(f, p, c, G, m) ==
  /\ f = Head(feed) /\ p = f.peer /\ c = Channel(f) /\ G = got[p] /\ m = First(G)
  /\ f \in FlitType /\ p \in Peers /\ f.n \in Pkts /\ Sop(f)
  /\ ChanOK(c, p, G) /\ c.valid
  /\ m \in Nat /\ f.n \in Nat
  /\ f.n < m + PsnMod /\ f.n <= m + traffic.ahead /\ m <= f.n + PsnMod \div 2

\* The channel of a metadata flit, opened if it was not in use.
LEMMA ChannelOK ==
  ASSUME Setting, RxInv, RxMeta
  PROVE  \E f, p, c, G, m : Reading(f, p, c, G, m)
<1>1. PICK f, p, c, G, m :
        f = Head(feed) /\ p = f.peer /\ c = Channel(f) /\ G = got[p] /\ m = First(G)
  BY Zenon
<1>2. /\ feed # << >> /\ Sop(f) /\ RestOf(feed, f) /\ Near(f, rxchan, got)
      /\ traffic \in Traffics /\ ChansOK(rxchan, got)
  BY <1>1, Zenon DEF RxMeta, RxInv, FeedOK
<1>3. f \in FlitType /\ p \in Peers /\ f.n \in Pkts
  BY <1>1, <1>2, Zenon DEF RestOf
<1>4. f.n \in Nat /\ p \in Nat
  BY <1>1, <1>3 DEF FlitType
<1>5. PICK d : d = rxchan[Idx(p)]
  BY Zenon
<1>6. ChanOK(d, p, G)
  BY <1>1, <1>2, <1>3, <1>5, Zenon DEF ChansOK
<1>7. m \in Nat /\ d \in RxChannel
  BY <1>1, <1>6, Zenon DEF ChanOK, GotIs
<1>8. traffic.ahead \in Nat /\ traffic.ahead < PsnMod /\ PsnMod \in Nat
  BY <1>2, ConstantsAssumption, Space DEF Setting
<1>9. f.n <= m + traffic.ahead /\ m <= f.n + PsnMod \div 2 /\ (f.n = 0 \/ d.valid)
  BY <1>1, <1>2, <1>5, Zenon DEF Near
<1>10. f.n < m + PsnMod
  BY <1>4, <1>7, <1>8, <1>9
<1>11. ChanOK(c, p, G) /\ c.valid
  <2>1. CASE d.valid
    <3>1. d.cna = p
      BY <2>1, <1>6, Zenon DEF ChanOK
    <3>2. c = d
      BY <3>1, <2>1, <1>1, <1>5, Zenon DEF Channel
    <3> QED
      BY <3>2, <2>1, <1>6, Zenon
  <2>2. CASE ~d.valid
    <3>1. f.n = 0 /\ m = 0 /\ d.bitmap = {}
      BY <2>2, <1>1, <1>6, <1>9, Zenon DEF ChanOK
    <3>2. c = Open(d, p, Psn(f))
      BY <2>2, <1>1, <1>5, Zenon DEF Channel, Open
    <3>3. Psn(f) = m % PsnMod
      BY <3>1, Zenon DEF Psn
    <3>4. Psn(f) \in Nat
      BY <1>4, Space DEF Psn
    <3>5. LET r == Open(d, p, Psn(f)) IN
          r \in RxChannel /\ r.valid /\ r.cna = p /\ r.epsn = Psn(f) /\ r.bitmap = {}
      BY <3>4, <1>4, <1>7, Opened, ZenonT(60)
    <3> QED
      BY <3>1, <3>2, <3>3, <3>5, <1>1, <1>6, ZenonT(60) DEF ChanOK
  <2> QED
    BY <2>1, <2>2, Zenon
<1>12. Reading(f, p, c, G, m)
  BY <1>1, <1>2, <1>3, <1>4, <1>7, <1>9, <1>10, <1>11, Zenon DEF Reading
<1> QED
  BY <1>12, Zenon

\* What the distance of the PSNs says of the packet.
LEMMA DiffSays ==
  ASSUME NEW f, NEW p, NEW c, NEW G, NEW m, Reading(f, p, c, G, m)
  PROVE  /\ Diff(f, c) \in Nat
         /\ Diff(f, c) = 0 => f.n = m
         /\ ~Behind(f, c) => f.n = m + Diff(f, c)
         /\ Behind(f, c) => f.n < m \/ f.n = m + Diff(f, c)
<1>1. /\ f.n \in Nat /\ m \in Nat /\ f.n < m + PsnMod /\ m <= f.n + PsnMod \div 2
      /\ c.epsn = m % PsnMod
  BY Zenon DEF Reading, ChanOK
<1>2. PICK d : d = Diff(f, c)
  BY Zenon
<1>3. d = ((f.n % PsnMod) - (m % PsnMod)) % PsnMod
  BY <1>1, <1>2, Zenon DEF Diff, Psn
<1>4. d \in Nat /\ (f.n >= m => d = f.n - m) /\ (f.n < m => d >= PsnMod \div 2)
  BY <1>1, <1>3, DiffIs, Zenon
<1>5. PsnMod \div 2 \in Nat /\ 1 <= PsnMod \div 2
  BY Space
<1>6. d = 0 => f.n = m
  BY <1>1, <1>4, <1>5
<1>7. d < PsnMod \div 2 => f.n = m + d
  BY <1>1, <1>4, <1>5
<1>8. f.n < m \/ f.n = m + d
  BY <1>1, <1>4
<1>9. ~Behind(f, c) => d < PsnMod \div 2
  BY <1>2, <1>4, <1>5 DEF Behind
<1> QED
  BY <1>2, <1>4, <1>6, <1>7, <1>8, <1>9, Zenon

\* A call that reads a metadata flit of peer p leaves the channel c and the
\* packets G, and a descriptor that says so.
Leaves(p, c, G) ==
  /\ p \in Peers /\ ChanOK(c, p, G) /\ c.valid
  /\ rxchan' = [rxchan EXCEPT ![Idx(p)] = c] /\ got' = [got EXCEPT ![p] = G]
  /\ ack'.peer = p /\ AckSays(ack', c)
  /\ feed' = Tail(feed) /\ traffic' = traffic

\* A metadata flit that UB_TPChannel_RX reads and answers keeps the invariant.
LEMMA ReadMetaOK ==
  ASSUME Setting, RxInv, RxMeta, NEW p, NEW c, NEW G, Leaves(p, c, G)
  PROVE  RxInv'
<1>1. /\ p \in Peers /\ ChansOK(rxchan, got) /\ traffic \in Traffics /\ c.valid
      /\ ack'.peer = p /\ AckSays(ack', c) /\ feed' = Tail(feed) /\ traffic' = traffic
  BY Zenon DEF Leaves, RxInv
<1>2. ChansOK(rxchan', got') /\ rxchan'[Idx(p)] = c
  <2>1. Sets(rxchan, got, p, c, G, rxchan', got')
    BY <1>1, Zenon DEF Sets, Leaves
  <2> QED
    BY <2>1, SetOK
<1>3. AckOK(ack', rxchan')
  BY <1>1, <1>2, Zenon DEF AckOK
<1>4. \A rx, gt : FeedOK(Tail(feed), rx, gt)
  BY FeedTail, Zenon DEF RxInv, RxMeta
<1>5. FeedOK(feed, rxchan, got)'
  <2>1. FeedOK(Tail(feed), rxchan', got')
    BY <1>4, Zenon
  <2>2. Tail(feed) # << >> => ~Sop(Head(Tail(feed)))
    <3>1. Tail(feed) # << >> => Head(Tail(feed)) = Flit(Head(feed).peer, Head(feed).n, Head(feed).k + 1)
      BY FeedTail, Zenon DEF RxInv, RxMeta
    <3>2. Head(feed).k = 1
      BY Zenon DEF RxMeta, Sop
    <3>3. Flit(Head(feed).peer, Head(feed).n, Head(feed).k + 1).k # 1
      BY <3>2 DEF Flit
    <3> QED
      BY <3>1, <3>3, Zenon DEF Sop
  <2> QED
    BY <2>1, <2>2, <1>1, Zenon DEF FeedOK
<1> QED
  BY <1>1, <1>2, <1>3, <1>5, Zenon DEF RxInv

\* Each descriptor says what its channel is; TPNAK says nothing.
LEMMA Descriptors ==
  ASSUME NEW p, NEW c
  PROVE  /\ AckSays(Tpack(p, (c.epsn - 1) % PsnMod), c)
         /\ AckSays(Tpsack(p, c), c) /\ AckSays(Tpnak(p, c.epsn), c)
         /\ Tpack(p, (c.epsn - 1) % PsnMod).peer = p
         /\ Tpsack(p, c).peer = p /\ Tpnak(p, c.epsn).peer = p
BY DEF AckSays, Tpack, Tpsack, Tpnak

\* What is known of a channel in use.
LEMMA ChanFields ==
  ASSUME NEW c, NEW p, NEW G, NEW m, ChanOK(c, p, G), c.valid, m = First(G)
  PROVE  /\ c \in RxChannel /\ G \subseteq Pkts /\ GotIs(G, m, c.bitmap) /\ c.epsn = m % PsnMod
         /\ c.cna = p /\ c.bitmap \subseteq 1 .. BitmapBits - 1
<1>1. GotIs(G, m, c.bitmap)
  BY Zenon DEF ChanOK
<1> QED
  BY <1>1, Zenon DEF ChanOK, GotIs

\* A channel in use that was updated.
LEMMA NewChannel ==
  ASSUME NEW s, NEW p, NEW G, NEW m, NEW B, G \subseteq Pkts, GotIs(G, m, B),
         s \in RxChannel, s.valid, s.cna = p, s.bitmap = B, s.epsn = m % PsnMod
  PROVE  ChanOK(s, p, G)
<1>1. First(G) = m
  BY FirstIs, Zenon
<1> QED
  BY <1>1, Zenon DEF ChanOK

\* The bits of a set of packets are a bitmap.
LEMMA Bits ==
  ASSUME NEW G, NEW m, NEW B, GotIs(G, m, B)
  PROVE  B \in SUBSET (1 .. BitmapBits - 1)
BY Zenon DEF GotIs

\* The expected packet.
LEMMA InOrderOK ==
  ASSUME Setting, RxInv, RxInOrder
  PROVE  RxInv'
<1>0. RxMeta
  BY Zenon DEF RxInOrder
<1>1. PICK f, p, c, G, m : Reading(f, p, c, G, m)
  BY <1>0, ChannelOK, Zenon
<1>2. /\ f = Head(feed) /\ p = f.peer /\ c = Channel(f) /\ G = got[p] /\ m = First(G)
      /\ p \in Peers /\ ChanOK(c, p, G) /\ c.valid /\ f.n \in Pkts /\ m \in Nat
  BY <1>1, Zenon DEF Reading
<1>3. /\ Diff(f, c) = 0 /\ feed' = Tail(feed) /\ traffic' = traffic
      /\ rxchan' = [rxchan EXCEPT ![Idx(p)] = Slid(c)]
      /\ ack' = Tpack(p, (Slid(c).epsn - 1) % PsnMod)
      /\ got' = [got EXCEPT ![p] = got[p] \cup {f.n}]
  BY <1>2, Zenon DEF RxInOrder, ForwardIf, SetChannel, Accept, wireVars
<1>4. f.n = m
  BY <1>1, <1>3, DiffSays, Zenon
<1>5. /\ c \in RxChannel /\ G \subseteq Pkts /\ GotIs(G, m, c.bitmap) /\ c.epsn = m % PsnMod
      /\ c.cna = p /\ c.bitmap \subseteq 1 .. BitmapBits - 1
  BY <1>2, ChanFields, Zenon
<1>6. PICK r, B, e : r = Run(c.bitmap) /\ B = Shift(c.bitmap, r) /\ e = (c.epsn + r) % PsnMod
  BY Zenon
<1>7. r \in Nat
  BY <1>5, <1>6, RunIs
<1>8. GotIs(G \cup {m}, m + r, B)
  BY <1>5, <1>6, GotSlid, Zenon
<1>9. G \cup {m} \subseteq Pkts
  BY <1>2, <1>4, <1>5, Zenon
<1>10. B \in SUBSET (1 .. BitmapBits - 1)
  BY <1>8, Bits, Zenon
<1>11. e = (m + r) % PsnMod /\ e \in Nat
  <2>1. m \in Int /\ r \in Int /\ m + r \in Int /\ PsnMod \in Nat \ {0}
    BY <1>2, <1>7, Space
  <2>2. ((m % PsnMod) + r) % PsnMod = (m + r) % PsnMod
    BY <2>1, ModAdd, Zenon
  <2>3. e = (m + r) % PsnMod
    BY <2>2, <1>5, <1>6, Zenon
  <2>4. (m + r) % PsnMod \in Nat
    BY <2>1
  <2> QED
    BY <2>3, <2>4, Zenon
<1>12. Slid(c) = Advance(c, e, B)
  BY <1>6, Zenon DEF Slid, Advance, Run
<1>13. PICK s : s = Advance(c, e, B)
  BY Zenon
<1>14. s = Slid(c)
  BY <1>12, <1>13, Zenon
<1>15. s \in RxChannel /\ s.epsn = e /\ s.bitmap = B /\ s.valid = c.valid /\ s.cna = c.cna
  <2>1. c \in RxChannel /\ e \in Nat /\ B \in SUBSET (1 .. BitmapBits - 1)
    BY <1>5, <1>10, <1>11, Zenon
  <2> QED
    BY <2>1, <1>13, Advanced
<1>16. ChanOK(s, p, G \cup {m}) /\ s.valid
  BY <1>2, <1>5, <1>8, <1>9, <1>11, <1>15, NewChannel, ZenonT(60)
<1>17. AckSays(ack', s) /\ ack'.peer = p
  BY <1>3, <1>14, Descriptors, Zenon
<1>18. Leaves(p, s, G \cup {m})
  BY <1>2, <1>3, <1>4, <1>14, <1>16, <1>17, Zenon DEF Leaves
<1> QED
  BY <1>0, <1>18, ReadMetaOK, Zenon

\* An early packet within the bitmap.
LEMMA OutOfOrderOK ==
  ASSUME Setting, RxInv, RxOutOfOrder
  PROVE  RxInv'
<1>0. RxMeta
  BY Zenon DEF RxOutOfOrder
<1>1. PICK f, p, c, G, m : Reading(f, p, c, G, m)
  BY <1>0, ChannelOK, Zenon
<1>2. /\ f = Head(feed) /\ p = f.peer /\ c = Channel(f) /\ G = got[p] /\ m = First(G)
      /\ p \in Peers /\ ChanOK(c, p, G) /\ c.valid /\ f.n \in Pkts /\ m \in Nat
  BY <1>1, Zenon DEF Reading
<1>3. PICK d, B, s : d = Diff(f, c) /\ B = c.bitmap \cup {d} /\ s = Mark(c, B)
  BY Zenon
<1>4. /\ d > 0 /\ ~Behind(f, c) /\ d < BitmapBits /\ feed' = Tail(feed) /\ traffic' = traffic
      /\ rxchan' = [rxchan EXCEPT ![Idx(p)] = s]
      /\ ack' = Tpsack(p, s)
      /\ got' = [got EXCEPT ![p] = got[p] \cup {f.n}]
  BY <1>2, <1>3, Zenon DEF RxOutOfOrder, ForwardIf, SetChannel, Accept, wireVars, Mark
<1>5. f.n = m + d /\ d \in Nat
  BY <1>1, <1>3, <1>4, DiffSays, Zenon
<1>6. d \in 1 .. BitmapBits - 1
  BY <1>4, <1>5, Space
<1>7. /\ c \in RxChannel /\ G \subseteq Pkts /\ GotIs(G, m, c.bitmap) /\ c.epsn = m % PsnMod
      /\ c.cna = p /\ c.bitmap \subseteq 1 .. BitmapBits - 1
  BY <1>2, ChanFields, Zenon
<1>8. GotIs(G \cup {m + d}, m, B)
  BY <1>3, <1>6, <1>7, GotMarked, Zenon
<1>9. G \cup {m + d} \subseteq Pkts
  BY <1>2, <1>5, <1>7, Zenon
<1>10. B \in SUBSET (1 .. BitmapBits - 1)
  BY <1>8, Bits, Zenon
<1>11. s \in RxChannel /\ s.epsn = c.epsn /\ s.bitmap = B /\ s.valid = c.valid /\ s.cna = c.cna
  BY <1>3, <1>7, <1>10, Marked, ZenonT(60)
<1>12. ChanOK(s, p, G \cup {m + d}) /\ s.valid
  BY <1>2, <1>7, <1>8, <1>9, <1>11, NewChannel, ZenonT(60)
<1>13. AckSays(ack', s) /\ ack'.peer = p
  BY <1>4, Descriptors, Zenon
<1>14. Leaves(p, s, G \cup {m + d})
  BY <1>2, <1>4, <1>5, <1>12, <1>13, ZenonT(60) DEF Leaves
<1> QED
  BY <1>0, <1>14, ReadMetaOK, Zenon

\* A packet that is not accepted.
LEMMA RefusedOK ==
  ASSUME Setting, RxInv, RxDuplicate \/ RxNak
  PROVE  RxInv'
<1>0. RxMeta
  BY Zenon DEF RxDuplicate, RxNak
<1>1. PICK f, p, c, G, m : Reading(f, p, c, G, m)
  BY <1>0, ChannelOK, Zenon
<1>2. /\ f = Head(feed) /\ p = f.peer /\ c = Channel(f) /\ G = got[p]
      /\ p \in Peers /\ ChanOK(c, p, G) /\ c.valid
  BY <1>1, Zenon DEF Reading
<1>3. /\ feed' = Tail(feed) /\ traffic' = traffic
      /\ rxchan' = [rxchan EXCEPT ![Idx(p)] = c]
      /\ ack' = Tpack(p, (c.epsn - 1) % PsnMod) \/ ack' = Tpnak(p, c.epsn)
      /\ got' = got
  BY <1>2, Zenon DEF RxDuplicate, RxNak, ForwardIf, SetChannel, wireVars
<1>4. got \in [Peers -> SUBSET Pkts]
  BY Zenon DEF RxInv, ChansOK
<1>5. got' = [got EXCEPT ![p] = G]
  BY <1>2, <1>3, <1>4
<1>6. AckSays(ack', c) /\ ack'.peer = p
  BY <1>3, Descriptors, ZenonT(60)
<1>7. Leaves(p, c, G)
  BY <1>2, <1>3, <1>5, <1>6, Zenon DEF Leaves
<1> QED
  BY <1>0, <1>7, ReadMetaOK, Zenon

\* A later flit.
LEMMA BodyOK ==
  ASSUME RxInv, RxBody
  PROVE  RxInv'
<1>1. /\ feed # << >> /\ feed' = Tail(feed) /\ traffic' = traffic /\ rxchan' = rxchan
      /\ ack' = ack /\ got' = got
  BY Zenon DEF RxBody, ForwardIf, wireVars
<1>2. FeedOK(Tail(feed), rxchan, got)
  BY <1>1, FeedTail, Zenon DEF RxInv
<1> QED
  BY <1>1, <1>2, Zenon DEF RxInv, FeedOK, Near

\* Nothing of the receiver changes.
LEMMA RxSame ==
  ASSUME RxInv, UNCHANGED <<feed, traffic, rxchan, ack, got>>
  PROVE  RxInv'
BY Zenon DEF RxInv, FeedOK, Near

\* A function on the first numbers is a sequence.
LEMMA FunSeq ==
  ASSUME NEW S, NEW N \in Nat, NEW F \in [1 .. N -> S]
  PROVE  F \in Seq(S) /\ Len(F) = N
OBVIOUS

\* The flits of a packet that comes.
LEMMA WholePacket ==
  ASSUME NEW p \in Peers, NEW n \in Pkts, NEW fd, fd = [k \in 1 .. Flits[n] |-> Flit(p, n, k)]
  PROVE  fd \in Seq(FlitType) /\ Head(fd) = Flit(p, n, 1) /\ RestOf(fd, Flit(p, n, 1))
<1>1. PICK N : N = Flits[n]
  BY Zenon
<1>2. N \in Nat /\ N >= 1 /\ p \in Nat /\ n \in Nat
  <2>1. Cardinality(Pkts) \in Nat
    BY FlitsAssumption, FS_CardinalityType, Zenon
  <2> QED
    BY <2>1, <1>1, FlitsAssumption, Space
<1>3. \A k \in Nat : Flit(p, n, k) \in FlitType
  BY <1>2 DEF Flit, FlitType
<1>4. fd = [k \in 1 .. N |-> Flit(p, n, k)]
  BY <1>1, Zenon
<1>5. fd \in Seq(FlitType) /\ Len(fd) = N /\ fd # << >>
  <2>1. 1 .. N \subseteq Nat
    BY <1>2
  <2>2. fd \in [1 .. N -> FlitType]
    BY <2>1, <1>3, <1>4, Zenon
  <2>3. fd \in Seq(FlitType) /\ Len(fd) = N
    BY <2>2, <1>2, FunSeq, Zenon
  <2>4. N # 0 /\ Len(<< >>) = 0
    BY <1>2
  <2> QED
    BY <2>3, <2>4, Zenon
<1>6. \A j \in 1 .. N : fd[j] = Flit(p, n, j)
  BY <1>4, Zenon
<1>7. PICK f : f = Flit(p, n, 1)
  BY Zenon
<1>8. f.peer = p /\ f.n = n /\ f.k = 1
  BY <1>7, Zenon DEF Flit
<1>9. Head(fd) = f
  BY <1>2, <1>5, <1>6, <1>7
<1>10. \A j \in 1 .. N : f.k + j - 1 = j
  BY <1>2, <1>8
<1>11. \A j \in 1 .. Len(fd) : fd[j] = Flit(f.peer, f.n, f.k + j - 1)
  BY <1>5, <1>6, <1>8, <1>10, ZenonT(60)
<1>12. f.k >= 1 /\ Len(fd) = Flits[f.n] - f.k + 1
  BY <1>1, <1>2, <1>5, <1>8
<1>13. f \in FlitType
  BY <1>3, <1>7
<1> QED
  BY <1>5, <1>7, <1>8, <1>9, <1>11, <1>12, <1>13, ZenonT(60) DEF RestOf

\* A packet comes.
LEMMA ArriveOK ==
  ASSUME Setting, RxInv, NEW p \in Peers, NEW n \in Pkts, Arrive(p, n)
  PROVE  RxInv'
<1>1. /\ traffic' = traffic /\ rxchan' = rxchan /\ ack' = ack /\ got' = got
      /\ feed' = [k \in 1 .. Flits[n] |-> Flit(p, n, k)]
      /\ n <= Missing(p) + traffic.ahead /\ Missing(p) <= n + PsnMod \div 2
      /\ n = 0 \/ rxchan[Idx(p)].valid
  BY Zenon DEF Arrive, rxVars, Setting
<1>2. Missing(p) = First(got[p])
  BY Zenon DEF Missing, First
<1>3. PICK f : f = Flit(p, n, 1)
  BY Zenon
<1>4. f.peer = p /\ f.n = n
  BY <1>3, Zenon DEF Flit
<1>5. feed' \in Seq(FlitType) /\ Head(feed') = f /\ RestOf(feed', f)
  BY <1>1, <1>3, WholePacket, Zenon
<1>6. Near(f, rxchan, got)'
  BY <1>1, <1>2, <1>4, Zenon DEF Near
<1>7. FeedOK(feed, rxchan, got)'
  BY <1>5, <1>6, Zenon DEF FeedOK
<1> QED
  BY <1>1, <1>7, Zenon DEF RxInv

\* The host provisions a channel.
LEMMA ProvisionOK ==
  ASSUME Setting, RxInv, NEW p \in Peers, NEW o \in OooModes, Provision(p, o)
  PROVE  RxInv'
<1>1. PICK c, G, s : c = rxchan[Idx(p)] /\ G = got[p] /\ s = Setup(c, p, o)
  BY Zenon
<1>2. /\ traffic' = traffic /\ ack' = ack /\ got' = got /\ feed' = feed /\ ~c.valid
      /\ rxchan' = [rxchan EXCEPT ![Idx(p)] = s]
  BY <1>1, Zenon DEF Provision, Setting, Setup
<1>3. ChansOK(rxchan, got) /\ rxchan \in [Chan -> RxChannel] /\ got \in [Peers -> SUBSET Pkts]
  BY Zenon DEF RxInv, ChansOK
<1>4. ChanOK(c, p, G)
  BY <1>1, <1>3, Zenon DEF ChansOK
<1>5. c \in RxChannel /\ First(G) = 0 /\ G \subseteq Pkts /\ GotIs(G, First(G), c.bitmap)
  BY <1>2, <1>4, Zenon DEF ChanOK
<1>6. p \in Nat /\ o \in BOOLEAN /\ 0 = First(G) % PsnMod
  BY <1>5, Space, ConstantsAssumption
<1>7. s \in RxChannel /\ s.valid /\ s.cna = p /\ s.epsn = 0 /\ s.bitmap = c.bitmap
  BY <1>1, <1>5, <1>6, Provisioned
<1>8. ChanOK(s, p, G)
  BY <1>5, <1>6, <1>7, Zenon DEF ChanOK
<1>9. got' = [got EXCEPT ![p] = G]
  BY <1>1, <1>2, <1>3
<1>10. ChansOK(rxchan', got') /\ rxchan'[Idx(p)] = s
  <2>1. Sets(rxchan, got, p, s, G, rxchan', got')
    BY <1>2, <1>3, <1>8, <1>9, Zenon DEF Sets
  <2> QED
    BY <2>1, SetOK
<1>11. ASSUME NEW q \in Peers
       PROVE  /\ rxchan[Idx(q)].valid => rxchan'[Idx(q)] = rxchan[Idx(q)]
  <2>1. Idx(q) \in Chan /\ Idx(p) \in Chan
    BY IdxChan, Zenon
  <2>2. rxchan[Idx(q)].valid => Idx(q) # Idx(p)
    BY <1>1, <1>2, Zenon
  <2> QED
    BY <2>1, <2>2, <1>2, <1>3, Zenon
<1>12. AckOK(ack', rxchan')
  <2>1. AckOK(ack, rxchan)
    BY Zenon DEF RxInv
  <2> QED
    BY <2>1, <1>2, <1>11, Zenon DEF AckOK
<1>13. FeedOK(feed, rxchan, got)'
  <2>1. FeedOK(feed, rxchan, got)
    BY Zenon DEF RxInv
  <2>2. feed # << >> => Head(feed).peer \in Peers
    BY <2>1, Zenon DEF FeedOK, RestOf
  <2> QED
    BY <2>1, <2>2, <1>2, <1>11, Zenon DEF FeedOK, Near
<1> QED
  BY <1>2, <1>10, <1>12, <1>13, ZenonT(60) DEF RxInv

\* Nothing was accepted yet.
LEMMA RxInitOK ==
  ASSUME Init
  PROVE  RxInv
<1>1. PICK c : c = [valid |-> FALSE, cna |-> 0, epsn |-> 0, bitmap |-> {}, ooo |-> TRUE]
  BY Zenon
<1>2. /\ traffic \in Traffics /\ feed = << >> /\ rxchan = [x \in Chan |-> c]
      /\ ack = NoAck /\ got = [p \in Peers |-> {}]
  BY <1>1, Zenon DEF Init
<1>3. c \in RxChannel /\ ~c.valid /\ c.epsn = 0 /\ c.bitmap = {}
  <2>1. {} \in SUBSET (1 .. BitmapBits - 1) /\ FALSE \in BOOLEAN /\ TRUE \in BOOLEAN /\ 0 \in Nat
    OBVIOUS
  <2> QED
    BY <2>1, <1>1, Zenon DEF RxChannel
<1>4. GotIs({}, 0, {})
  BY DEF GotIs
<1>5. First({}) = 0
  <2>1. {} \subseteq Pkts
    BY Zenon
  <2> QED
    BY <2>1, <1>4, FirstIs
<1>6. 0 % PsnMod = 0
  BY Space
<1>7. \A p \in Peers : ChanOK(c, p, {})
  BY <1>3, <1>4, <1>5, <1>6, Zenon DEF ChanOK
<1>8. ChansOK(rxchan, got)
  <2>1. \A p \in Peers : rxchan[Idx(p)] = c /\ got[p] = {}
    BY <1>2, IdxChan, Zenon
  <2>2. rxchan \in [Chan -> RxChannel] /\ got \in [Peers -> SUBSET Pkts]
    BY <1>2, <1>3, Zenon
  <2> QED
    BY <2>1, <2>2, <1>7, Zenon DEF ChansOK
<1>9. AckOK(ack, rxchan)
  BY <1>2 DEF AckOK, NoAck
<1>10. FeedOK(feed, rxchan, got)
  BY <1>2 DEF FeedOK
<1> QED
  BY <1>2, <1>8, <1>9, <1>10, Zenon DEF RxInv

\* Each step keeps the invariant.
LEMMA RxStepOK ==
  ASSUME Setting, RxInv, [Next]_vars
  PROVE  RxInv'
<1>1. CASE \E p \in Peers, n \in Pkts : Arrive(p, n)
  BY <1>1, ArriveOK, Zenon
<1>2. CASE \E p \in Peers, o \in OooModes : Provision(p, o)
  BY <1>2, ProvisionOK, Zenon
<1>3. CASE TpcRx
  BY <1>3, InOrderOK, OutOfOrderOK, RefusedOK, BodyOK, Zenon DEF TpcRx
<1>4. CASE Reorder
  <2>1. UNCHANGED <<feed, traffic, rxchan, ack, got>>
    BY <1>4, Zenon DEF Reorder, ReorderMeta, ReorderPair, ReorderPass, ReorderDrop, wireVars, rxVars
  <2> QED
    BY <2>1, RxSame, Zenon
<1>5. CASE UNCHANGED vars
  <2>1. UNCHANGED <<feed, traffic, rxchan, ack, got>>
    BY <1>5, Zenon DEF vars, wireVars, rxVars
  <2> QED
    BY <2>1, RxSame, Zenon
<1> QED
  BY <1>1, <1>2, <1>3, <1>4, <1>5, Zenon DEF Next

\* What the descriptor says is true of the packets that were accepted.
LEMMA AckFromInv ==
  ASSUME Setting, RxInv
  PROVE  AckTruthful
<1>1. PICK p, c, G, m : p = ack.peer /\ c = rxchan[Idx(p)] /\ G = got[p] /\ m = First(G)
  BY Zenon
<1>2. Missing(p) = m
  BY <1>1, Zenon DEF Missing, First
<1>3. CASE ack.op = "none"
  BY <1>3 DEF AckTruthful
<1>4. CASE ack.op # "none"
  <2>1. p \in Peers /\ c.valid /\ AckSays(ack, c)
    BY <1>1, <1>4, Zenon DEF RxInv, AckOK
  <2>2. ChanOK(c, p, G)
    BY <2>1, <1>1, Zenon DEF RxInv, ChansOK
  <2>3. G \subseteq Pkts /\ GotIs(G, m, c.bitmap) /\ c.epsn = m % PsnMod
    BY <2>1, <2>2, <1>1, ChanFields, ZenonT(60)
  <2>4. m \in Nat /\ c.bitmap \subseteq 1 .. BitmapBits - 1 /\ G = (0 .. m - 1) \cup {m + b : b \in c.bitmap}
    BY <2>3, Zenon DEF GotIs
  <2>5. (c.epsn - 1) % PsnMod = (m - 1) % PsnMod
    <3>1. m \in Int /\ 0 - 1 \in Int /\ PsnMod \in Nat \ {0} /\ m % PsnMod \in Int
      BY <2>4, Space
    <3>2. ((m % PsnMod) + (0 - 1)) % PsnMod = (m + (0 - 1)) % PsnMod
      BY <3>1, ModAdd, ZenonT(60)
    <3>3. (m % PsnMod) + (0 - 1) = (m % PsnMod) - 1 /\ m + (0 - 1) = m - 1
      BY <3>1
    <3> QED
      BY <3>2, <3>3, <2>3, Zenon
  <2>6. {n \in Pkts : n < m} = 0 .. m - 1
    <3>1. Cardinality(Pkts) \in Nat
      BY FlitsAssumption, FS_CardinalityType, Zenon
    <3>2. Pkts \subseteq Nat
      BY <3>1, FlitsAssumption
    <3>3. 0 .. m - 1 \subseteq Pkts
      BY <2>3, <2>4, Zenon
    <3>4. \A n \in Nat : n < m <=> n \in 0 .. m - 1
      BY <2>4
    <3>5. 0 .. m - 1 \subseteq Nat
      BY <2>4
    <3> QED
      BY <3>2, <3>3, <3>4, <3>5, ZenonT(60)
  <2>7. got[p] = {n \in Pkts : n < m} \cup {m + b : b \in c.bitmap}
    BY <2>4, <2>6, <1>1, Zenon
  <2>8. /\ ack.op = "TPACK" /\ ~ack.nak => ack.psn = (m - 1) % PsnMod
        /\ ack.op = "TPSACK" => ack.psn = m % PsnMod /\ ack.bitmap = c.bitmap
    BY <2>1, <2>3, <2>5, Zenon DEF AckSays
  <2> QED
    BY <2>7, <2>8, <1>1, <1>2, ZenonT(60) DEF AckTruthful
<1> QED
  BY <1>3, <1>4, Zenon

\* What UB_TPChannel_RX acknowledges it has accepted: a TPACK covers exactly
\* the packets before the first missing one and a TPSACK names exactly the
\* others, however the wire loses, repeats and reorders packets and however
\* often the PSNs wrap.
THEOREM TruthfulAck ==
  ASSUME Setting
  PROVE  Spec => []AckTruthful
<1>1. Init => RxInv
  BY RxInitOK, Zenon
<1>2. RxInv /\ [Next]_vars => RxInv'
  BY RxStepOK, Zenon
<1>3. RxInv => AckTruthful
  BY AckFromInv, Zenon
<1> QED
  BY <1>1, <1>2, <1>3, PTL DEF Spec

-----------------------------------------------------------------------------
(* The slots of UB_PSN_Reorder.                                            *)

Places == 0 .. Window - 1
Slot == [a : FlitType, b : FlitType]

\* Slots of peer p, of which the first is that of packet b.
SlotsAre(s, p, b) ==
  /\ s \in [Places -> Slot]
  /\ \A j \in Places : s[j].a = NoFlit \/ s[j].a = Flit(p, b + j, 1)
  /\ \A j \in Places : s[j].b = NoFlit \/ s[j].b.k > 1

Filled(s) == {j \in Places : s[j].a # NoFlit}

\* The packets that left, and the ones in the slots.
Handled(s, b) == (0 .. b - 1) \cup {b + j : j \in Filled(s)}

\* No flit of a packet is the empty one.
LEMMA FlitIs ==
  ASSUME NEW p \in Nat, NEW n \in Nat, NEW k \in Nat
  PROVE  /\ Flit(p, n, k) \in FlitType /\ NoFlit \in FlitType /\ NoFlit.k = 0
         /\ Flit(p, n, k).peer = p /\ Flit(p, n, k).n = n /\ Flit(p, n, k).k = k
         /\ k > 0 => Flit(p, n, k) # NoFlit
BY DEF Flit, FlitType, NoFlit

\* A slot that gets its first flit.
LEMMA SlotSet ==
  ASSUME NEW x \in Slot, NEW f \in FlitType, NEW y, y = [x EXCEPT !.a = f]
  PROVE  y \in Slot /\ y.a = f /\ y.b = x.b
BY DEF Slot

\* A metadata flit is stored.
StoreAt(s, o, f) == [s EXCEPT ![o].a = f]

\* One more slot is filled, and the packets in the others stay.
LEMMA Park ==
  ASSUME NEW p \in Nat, NEW b \in Nat, NEW s, SlotsAre(s, p, b), NEW o \in Places,
         NEW t, t = StoreAt(s, o, Flit(p, b + o, 1))
  PROVE  /\ SlotsAre(t, p, b) /\ Filled(t) = Filled(s) \cup {o}
         /\ \A j \in Places : j # o => t[j] = s[j]
         /\ t[o].b = s[o].b /\ t[o].a = Flit(p, b + o, 1)
<1>1. PICK f, y : f = Flit(p, b + o, 1) /\ y = [s[o] EXCEPT !.a = f]
  BY Zenon
<1>2. f \in FlitType /\ f # NoFlit
  <2>1. b + o \in Nat /\ 1 \in Nat /\ 1 > 0
    BY Space DEF Places
  <2> QED
    BY <2>1, <1>1, FlitIs
<1>3. s \in [Places -> Slot] /\ s[o] \in Slot
  BY Zenon DEF SlotsAre
<1>4. y \in Slot /\ y.a = f /\ y.b = s[o].b
  BY <1>1, <1>2, <1>3, SlotSet
<1>5. t = [s EXCEPT ![o] = y]
  BY <1>1, Zenon DEF StoreAt
<1>6. t \in [Places -> Slot] /\ t[o] = y /\ \A j \in Places : j # o => t[j] = s[j]
  BY <1>3, <1>4, <1>5, ZenonT(60)
<1>7. \A j \in Places : t[j].a = NoFlit \/ t[j].a = Flit(p, b + j, 1)
  BY <1>1, <1>4, <1>6, ZenonT(60) DEF SlotsAre
<1>8. \A j \in Places : t[j].b = s[j].b
  BY <1>4, <1>6, Zenon
<1>9. \A j \in Places : t[j].b = NoFlit \/ t[j].b.k > 1
  BY <1>8, Zenon DEF SlotsAre
<1>10. SlotsAre(t, p, b)
  BY <1>6, <1>7, <1>9, Zenon DEF SlotsAre
<1>11. \A j \in Places : t[j].a # NoFlit <=> s[j].a # NoFlit \/ j = o
  BY <1>2, <1>4, <1>6, Zenon
<1>12. Filled(t) = Filled(s) \cup {o}
  BY <1>11, Zenon DEF Filled
<1> QED
  BY <1>1, <1>4, <1>6, <1>10, <1>12, ZenonT(60)

\* How many slots in a row are filled.
LEMMA ReadyIs ==
  ASSUME NEW s
  PROVE  LET d == Ready(s) IN
         /\ d \in 0 .. Window /\ (d < Window => s[d].a = NoFlit)
         /\ \A j \in 0 .. d - 1 : s[j].a # NoFlit
<1>1. PICK T : T = {d \in 0 .. Window : d < Window => s[d].a = NoFlit}
  BY Zenon
<1>2. Window \in Nat /\ Window \in T /\ T \subseteq Nat
  BY <1>1, Space
<1>3. PICK d \in T : \A y \in T : d <= y
  BY <1>2, FirstOf, Zenon
<1>4. \A j \in 0 .. d - 1 : s[j].a # NoFlit
  <2>1. \A j \in 0 .. d - 1 : j \in 0 .. Window /\ ~(d <= j) /\ j < Window
    BY <1>1, <1>2, <1>3
  <2> QED
    BY <2>1, <1>1, <1>3, Zenon
<1>5. \E x \in 0 .. Window : (x < Window => s[x].a = NoFlit) /\ \A j \in 0 .. x - 1 : s[j].a # NoFlit
  BY <1>1, <1>3, <1>4, Zenon
<1> QED
  BY <1>5, Zenon DEF Ready

\* The first d slots are emptied.
LEMMA DrainedOK ==
  ASSUME NEW p \in Nat, NEW b \in Nat, NEW s, SlotsAre(s, p, b), NEW d \in 0 .. Window,
         d < Window => s[d].a = NoFlit, \A j \in 0 .. d - 1 : s[j].a # NoFlit,
         NEW u, u = Drained(s, d)
  PROVE  SlotsAre(u, p, b + d) /\ u[0].a = NoFlit /\ Handled(u, b + d) = Handled(s, b)
<1>1. Window \in Nat \ {0} /\ d \in Nat /\ s \in [Places -> Slot]
  <2>1. s \in [Places -> Slot]
    BY Zenon DEF SlotsAre
  <2> QED
    BY <2>1, Space
<1>2. EmptySlot \in Slot /\ EmptySlot.a = NoFlit /\ EmptySlot.b = NoFlit
  BY FlitIs DEF EmptySlot, Slot, NoFlit, FlitType
<1>3. u = [j \in Places |-> IF j + d < Window THEN s[j + d] ELSE EmptySlot]
  BY Zenon DEF Drained, Places
<1>4. ASSUME NEW j \in Places
      PROVE  /\ j + d < Window => j + d \in Places /\ u[j] = s[j + d]
             /\ ~(j + d < Window) => u[j] = EmptySlot
             /\ u[j] \in Slot /\ (b + d) + j = b + (j + d)
  <2>1. (j + d < Window => j + d \in Places) /\ (b + d) + j = b + (j + d)
    BY <1>1 DEF Places
  <2>2. /\ j + d < Window => u[j] = s[j + d]
        /\ ~(j + d < Window) => u[j] = EmptySlot
    BY <1>3, Zenon
  <2> QED
    BY <2>1, <2>2, <1>1, <1>2, Zenon
<1>5. u \in [Places -> Slot]
  BY <1>3, <1>4, Zenon
<1>6. SlotsAre(u, p, b + d)
  <2>1. ASSUME NEW j \in Places
        PROVE  /\ u[j].a = NoFlit \/ u[j].a = Flit(p, (b + d) + j, 1)
               /\ u[j].b = NoFlit \/ u[j].b.k > 1
    <3>1. CASE j + d < Window
      <4>1. /\ s[j + d].a = NoFlit \/ s[j + d].a = Flit(p, b + (j + d), 1)
            /\ s[j + d].b = NoFlit \/ s[j + d].b.k > 1
        BY <3>1, <1>4, Zenon DEF SlotsAre
      <4> QED
        BY <4>1, <3>1, <1>4, Zenon
    <3>2. CASE ~(j + d < Window)
      BY <3>2, <1>2, <1>4, Zenon
    <3> QED
      BY <3>1, <3>2, Zenon
  <2> QED
    BY <2>1, <1>5, Zenon DEF SlotsAre
<1>7. u[0].a = NoFlit
  <2>1. 0 \in Places /\ 0 + d = d
    BY <1>1 DEF Places
  <2> QED
    BY <2>1, <1>2, <1>4, Zenon
<1>8. ASSUME NEW x
      PROVE  x \in Handled(s, b) <=> x \in Handled(u, b + d)
  <2>1. x \in Handled(s, b) <=> x \in 0 .. b - 1 \/ \E j \in Places : s[j].a # NoFlit /\ x = b + j
    BY Zenon DEF Handled, Filled
  <2>2. x \in Handled(u, b + d) <=>
          x \in 0 .. (b + d) - 1 \/ \E j \in Places : u[j].a # NoFlit /\ x = (b + d) + j
    BY Zenon DEF Handled, Filled
  <2>3. ASSUME x \in 0 .. b - 1
        PROVE  x \in 0 .. (b + d) - 1
    BY <2>3, <1>1
  <2>4. ASSUME NEW j \in Places, s[j].a # NoFlit, x = b + j
        PROVE  x \in 0 .. (b + d) - 1 \/ \E i \in Places : u[i].a # NoFlit /\ x = (b + d) + i
    <3>1. CASE j < d
      BY <3>1, <2>4, <1>1 DEF Places
    <3>2. CASE j >= d
      <4>1. PICK i : i = j - d
        BY Zenon
      <4>2. i \in Places /\ i + d = j /\ j < Window /\ x = (b + d) + i
        BY <4>1, <3>2, <2>4, <1>1 DEF Places
      <4>3. u[i] = s[j]
        BY <4>2, <1>4, Zenon
      <4> QED
        BY <4>2, <4>3, <2>4, Zenon
    <3> QED
      BY <3>1, <3>2, <1>1 DEF Places
  <2>5. ASSUME x \in 0 .. (b + d) - 1
        PROVE  x \in 0 .. b - 1 \/ \E j \in Places : s[j].a # NoFlit /\ x = b + j
    <3>1. CASE x < b
      BY <3>1, <2>5, <1>1
    <3>2. CASE x >= b
      <4>1. PICK j : j = x - b
        BY Zenon
      <4>2. j \in 0 .. d - 1 /\ j \in Places /\ x = b + j
        BY <4>1, <3>2, <2>5, <1>1 DEF Places
      <4> QED
        BY <4>2, Zenon
    <3> QED
      BY <3>1, <3>2, <2>5, <1>1
  <2>6. ASSUME NEW i \in Places, u[i].a # NoFlit, x = (b + d) + i
        PROVE  \E j \in Places : s[j].a # NoFlit /\ x = b + j
    <3>1. i + d < Window
      BY <2>6, <1>2, <1>4, Zenon
    <3>2. i + d \in Places /\ s[i + d].a # NoFlit /\ x = b + (i + d)
      BY <3>1, <2>6, <1>4, Zenon
    <3> QED
      BY <3>2, Zenon
  <2> QED
    BY <2>1, <2>2, <2>3, <2>4, <2>5, <2>6, ZenonT(60)
<1>9. Handled(s, b) = Handled(u, b + d)
  BY <1>8, Zenon
<1> QED
  BY <1>6, <1>7, <1>9, ZenonT(60)

-----------------------------------------------------------------------------
(* The FIFO between the two elements.                                      *)

\* The packet of p that f is the metadata flit of, if it is one.
Of(f, p) == {n \in Pkts : f = Flit(p, n, 1)}

\* The packets in H and the ones of p in md before place x.
Seen(md, p, H, x) == H \cup {n \in Pkts : \E y \in 1 .. x - 1 : n \in Of(md[y], p)}

\* One at or before n is not in S, and all that are h before it are.
Placed(n, S, h) == (\E q \in 0 .. n : q \notin S) /\ (\A q \in 0 .. n - h : q \in S)

\* What was accepted from p is in H or in md, and each packet in md is near the
\* first that is neither in H nor before it.
MidOK(md, p, H, G, h) ==
  /\ G = Seen(md, p, H, Len(md) + 1)
  /\ \A x \in 1 .. Len(md) : \A n \in Of(md[x], p) : Placed(n, Seen(md, p, H, x), h)

\* What Tail and Append do.
LEMMA TailIs ==
  ASSUME NEW T, NEW md \in Seq(T), md # << >>
  PROVE  /\ Len(md) \in Nat /\ Len(md) >= 1 /\ Head(md) = md[1] /\ Head(md) \in T
         /\ Tail(md) \in Seq(T) /\ Len(Tail(md)) = Len(md) - 1
         /\ \A y \in 1 .. Len(md) - 1 : Tail(md)[y] = md[y + 1]
OBVIOUS

\* What Append does to a sequence.
LEMMA AppendIs ==
  ASSUME NEW T, NEW md \in Seq(T), NEW f \in T
  PROVE  /\ Len(md) \in Nat /\ Append(md, f) \in Seq(T) /\ Len(Append(md, f)) = Len(md) + 1
         /\ \A y \in 1 .. Len(md) : Append(md, f)[y] = md[y]
         /\ Append(md, f)[Len(md) + 1] = f
OBVIOUS

\* A flit is read from the FIFO.
LEMMA Popped ==
  ASSUME NEW T, NEW md \in Seq(T), md # << >>, NEW p, NEW H, NEW G, NEW h, MidOK(md, p, H, G, h)
  PROVE  /\ MidOK(Tail(md), p, H \cup Of(Head(md), p), G, h)
         /\ \A n \in Of(Head(md), p) : Placed(n, H, h)
<1>1. PICK N, f, tl, K : N = Len(md) /\ f = Head(md) /\ tl = Tail(md) /\ K = H \cup Of(f, p)
  BY Zenon
<1>2. /\ N \in Nat /\ N >= 1 /\ f = md[1] /\ Len(tl) = N - 1
      /\ \A y \in 1 .. N - 1 : tl[y] = md[y + 1]
  BY <1>1, TailIs, Zenon
<1>3. ASSUME NEW x \in 1 .. N
      PROVE  Seen(tl, p, K, x) = Seen(md, p, H, x + 1)
  <2>1. ASSUME NEW n \in Of(f, p)
        PROVE  n \in Pkts /\ \E y \in 1 .. (x + 1) - 1 : n \in Of(md[y], p)
    <3>1. 1 \in 1 .. (x + 1) - 1
      BY <1>2
    <3> QED
      BY <3>1, <1>2, Zenon DEF Of
  <2>2. ASSUME NEW n, NEW y \in 1 .. x - 1, n \in Of(tl[y], p)
        PROVE  \E z \in 1 .. (x + 1) - 1 : n \in Of(md[z], p)
    <3>1. y + 1 \in 1 .. (x + 1) - 1 /\ y \in 1 .. N - 1
      BY <1>2
    <3> QED
      BY <3>1, <2>2, <1>2, Zenon
  <2>3. ASSUME NEW n, NEW z \in 1 .. (x + 1) - 1, n \in Of(md[z], p)
        PROVE  n \in Of(f, p) \/ \E y \in 1 .. x - 1 : n \in Of(tl[y], p)
    <3>1. CASE z = 1
      BY <3>1, <2>3, <1>2, Zenon
    <3>2. CASE z # 1
      <4>1. PICK y : y = z - 1
        BY Zenon
      <4>2. y \in 1 .. x - 1 /\ y \in 1 .. N - 1 /\ y + 1 = z
        BY <4>1, <3>2, <1>2
      <4> QED
        BY <4>2, <2>3, <1>2, Zenon
    <3> QED
      BY <3>1, <3>2, Zenon
  <2>4. ASSUME NEW n
        PROVE  n \in Seen(tl, p, K, x) <=> n \in Seen(md, p, H, x + 1)
    BY <2>1, <2>2, <2>3, <1>1, Zenon DEF Seen
  <2> QED
    BY <2>4, Zenon
<1>4. G = Seen(tl, p, K, Len(tl) + 1)
  <2>1. N \in 1 .. N /\ Len(tl) + 1 = N
    BY <1>2
  <2> QED
    BY <2>1, <1>1, <1>3, Zenon DEF MidOK
<1>5. ASSUME NEW x \in 1 .. Len(tl), NEW n \in Of(tl[x], p)
      PROVE  Placed(n, Seen(tl, p, K, x), h)
  <2>1. x \in 1 .. N /\ x + 1 \in 1 .. N /\ x \in 1 .. N - 1
    BY <1>2
  <2>2. Seen(tl, p, K, x) = Seen(md, p, H, x + 1) /\ n \in Of(md[x + 1], p)
    BY <2>1, <1>2, <1>3, <1>5, Zenon
  <2>3. Placed(n, Seen(md, p, H, x + 1), h)
    BY <2>1, <2>2, <1>1, Zenon DEF MidOK
  <2> QED
    BY <2>2, <2>3, Zenon
<1>6. ASSUME NEW n \in Of(f, p)
      PROVE  Placed(n, H, h)
  <2>1. 1 \in 1 .. N /\ 1 .. 1 - 1 = {}
    BY <1>2
  <2>2. Placed(n, Seen(md, p, H, 1), h)
    BY <2>1, <1>1, <1>2, <1>6, Zenon DEF MidOK
  <2>3. Seen(md, p, H, 1) = H
    BY <2>1, Zenon DEF Seen
  <2> QED
    BY <2>2, <2>3, Zenon
<1> QED
  BY <1>1, <1>4, <1>5, <1>6, Zenon DEF MidOK

\* A flit is put into the FIFO.
LEMMA Pushed ==
  ASSUME NEW T, NEW md \in Seq(T), NEW f \in T, NEW p, NEW H, NEW G, NEW h, MidOK(md, p, H, G, h),
         \A n \in Of(f, p) : Placed(n, G, h)
  PROVE  MidOK(Append(md, f), p, H, G \cup Of(f, p), h)
<1>1. PICK N, ap : N = Len(md) /\ ap = Append(md, f)
  BY Zenon
<1>2. /\ N \in Nat /\ Len(ap) = N + 1
      /\ \A y \in 1 .. N : ap[y] = md[y]
      /\ ap[N + 1] = f
  BY <1>1, AppendIs
<1>3. ASSUME NEW x \in 1 .. N + 1
      PROVE  Seen(ap, p, H, x) = Seen(md, p, H, x)
  <2>1. \A y \in 1 .. x - 1 : ap[y] = md[y]
    <3>1. \A y \in 1 .. x - 1 : y \in 1 .. N
      BY <1>2
    <3> QED
      BY <3>1, <1>2, Zenon
  <2> QED
    BY <2>1, Zenon DEF Seen
<1>4. G = Seen(md, p, H, N + 1) /\ N + 1 \in 1 .. N + 1
  BY <1>1, <1>2 DEF MidOK
<1>5. G \cup Of(f, p) = Seen(ap, p, H, Len(ap) + 1)
  <2>1. ASSUME NEW n
        PROVE  (\E y \in 1 .. (N + 1 + 1) - 1 : n \in Of(ap[y], p)) <=>
                 (\E y \in 1 .. (N + 1) - 1 : n \in Of(md[y], p)) \/ n \in Of(f, p)
    <3>1. \A y : y \in 1 .. (N + 1 + 1) - 1 <=> y \in 1 .. N \/ y = N + 1
      BY <1>2
    <3>2. 1 .. (N + 1) - 1 = 1 .. N
      BY <1>2
    <3> QED
      BY <3>1, <3>2, <1>2, ZenonT(60)
  <2>2. Of(f, p) \subseteq Pkts
    BY Zenon DEF Of
  <2>3. ASSUME NEW n
        PROVE  n \in G \cup Of(f, p) <=> n \in Seen(ap, p, H, N + 1 + 1)
    BY <2>1, <2>2, <1>4, Zenon DEF Seen
  <2> QED
    BY <2>3, <1>2, Zenon
<1>6. ASSUME NEW x \in 1 .. Len(ap), NEW n \in Of(ap[x], p)
      PROVE  Placed(n, Seen(ap, p, H, x), h)
  <2>1. x \in 1 .. N + 1 /\ (x \in 1 .. N \/ x = N + 1)
    BY <1>2
  <2>2. CASE x \in 1 .. N
    BY <2>1, <2>2, <1>1, <1>2, <1>3, <1>6, ZenonT(60) DEF MidOK
  <2>3. CASE x = N + 1
    BY <2>1, <2>3, <1>2, <1>3, <1>4, <1>6, ZenonT(60)
  <2> QED
    BY <2>1, <2>2, <2>3, ZenonT(60)
<1> QED
  BY <1>1, <1>5, <1>6, Zenon DEF MidOK

\* The packet at the front of the FIFO is not behind the first slot, and less
\* than h ahead of it.
LEMMA FrontNear ==
  ASSUME NEW s, NEW b \in Nat, NEW n \in Nat, NEW h \in Nat, s[0].a = NoFlit, Placed(n, Handled(s, b), h)
  PROVE  b <= n /\ n < b + h
<1>1. b \notin Handled(s, b)
  <2>1. \A j \in Places : b = b + j => j = 0
    BY Space DEF Places
  <2>2. b \notin 0 .. b - 1
    OBVIOUS
  <2> QED
    BY <2>1, <2>2, Zenon DEF Handled, Filled
<1>2. PICK q \in 0 .. n : q \notin Handled(s, b)
  BY Zenon DEF Placed
<1>3. q \notin 0 .. b - 1
  BY <1>2, Zenon DEF Handled
<1>4. b \notin 0 .. n - h
  BY <1>1, Zenon DEF Placed
<1> QED
  BY <1>2, <1>3, <1>4

-----------------------------------------------------------------------------
(* The invariant of UB_PSN_Reorder.                                        *)

MidFlit == [peer : Peers, n : Pkts, k : Nat \ {0}]
Ring == [slots : [Places -> Slot], base : Nat]

\* The metadata flits that left come in the order of their packets.
Ordered(o) ==
  \A i, j \in 1 .. Len(o) :
    i < j /\ Sop(o[i]) /\ Sop(o[j]) /\ o[i].peer = o[j].peer => o[i].n < o[j].n

\* Those of peer p are before packet b.
Left(o, p, b) == \A j \in 1 .. Len(o) : o[j].peer = p /\ Sop(o[j]) => o[j].n < b

\* Ring r of peer p waits for packet b.
Link(p, b, r, md, o, G, h) ==
  /\ b \in Nat /\ r.base = b % PsnMod /\ SlotsAre(r.slots, p, b) /\ r.slots[0].a = NoFlit
  /\ MidOK(md, p, Handled(r.slots, b), G, h)
  /\ Left(o, p, b)

\* How far a packet that is accepted can be from the expected one, plus one.
Reach == IF traffic.ahead < BitmapBits THEN traffic.ahead + 1 ELSE BitmapBits

LinkInv ==
  /\ rb \in [Chan -> Ring] /\ this_idx \in Chan /\ mid \in Seq(MidFlit) /\ out \in Seq(FlitType)
  /\ Ordered(out)
  /\ \A p \in Peers : \E b : Link(p, b, rb[Idx(p)], mid, out, got[p], Reach)

\* The slots a packet can come into are slots of UB_PSN_Reorder.
LEMMA ReachIs ==
  ASSUME Fits, traffic \in Traffics
  PROVE  /\ Reach \in Nat /\ Reach <= Window /\ Reach <= BitmapBits /\ traffic.ahead \in Nat
         /\ Reach = traffic.ahead + 1 \/ Reach = BitmapBits
         /\ traffic.ahead = 0 => Reach = 1
<1>1. PICK a : a = traffic.ahead
  BY Zenon
<1>2. a \in Nat /\ (BitmapBits <= Window \/ a < Window) /\ BitmapBits \in Nat \ {0} /\ Window \in Nat
  BY <1>1, Space, ConstantsAssumption DEF Fits
<1>3. Reach = IF a < BitmapBits THEN a + 1 ELSE BitmapBits
  BY <1>1, Zenon DEF Reach
<1> QED
  BY <1>1, <1>2, <1>3

\* The packets are numbers.
LEMMA PktsNat == Pkts \subseteq Nat
<1>1. Cardinality(Pkts) \in Nat
  BY FlitsAssumption, FS_CardinalityType, Zenon
<1> QED
  BY <1>1, FlitsAssumption

\* A flit that leaves is not a metadata flit, or is that of a packet of p from
\* b to b2.
LEMMA Output ==
  ASSUME NEW o \in Seq(FlitType), NEW g \in FlitType, Ordered(o), NEW p, NEW b \in Nat, NEW b2 \in Nat,
         Left(o, p, b), b <= b2, g.k # 1 \/ (g.peer = p /\ b <= g.n /\ g.n < b2)
  PROVE  Ordered(Append(o, g)) /\ Left(Append(o, g), p, b2)
<1>1. PICK N, a : N = Len(o) /\ a = Append(o, g)
  BY Zenon
<1>2. N \in Nat /\ Len(a) = N + 1 /\ a[N + 1] = g /\ \A y \in 1 .. N : a[y] = o[y]
  BY <1>1, AppendIs
<1>3. \A y \in 1 .. N : o[y] \in FlitType
  BY <1>1
<1>4. \A y \in 1 .. N : o[y].n \in Nat
  BY <1>3 DEF FlitType
<1>5. g.n \in Nat
  BY DEF FlitType
<1>6. \A y \in 1 .. N : o[y].peer = p /\ Sop(o[y]) => o[y].n < b
  BY <1>1, Zenon DEF Left
<1>7. \A y \in 1 .. N + 1 : y \in 1 .. N \/ y = N + 1
  BY <1>2
<1>8. Left(a, p, b2)
  <2>1. ASSUME NEW j \in 1 .. N + 1, a[j].peer = p, Sop(a[j])
        PROVE  a[j].n < b2
    <3>1. CASE j \in 1 .. N
      <4>1. o[j].n < b /\ a[j] = o[j]
        BY <3>1, <2>1, <1>2, <1>6, ZenonT(60)
      <4>2. o[j].n \in Nat
        BY <3>1, <1>4, Zenon
      <4> QED
        BY <4>1, <4>2
    <3>2. CASE j = N + 1
      BY <3>2, <2>1, <1>2, Zenon DEF Sop
    <3> QED
      BY <3>1, <3>2, <1>7, ZenonT(60)
  <2> QED
    BY <2>1, <1>2, Zenon DEF Left
<1>9. Ordered(a)
  <2>1. ASSUME NEW i \in 1 .. N + 1, NEW j \in 1 .. N + 1, i < j, Sop(a[i]), Sop(a[j]), a[i].peer = a[j].peer
        PROVE  a[i].n < a[j].n
    <3>1. i \in 1 .. N
      BY <2>1, <1>2
    <3>2. CASE j \in 1 .. N
      BY <3>1, <3>2, <2>1, <1>1, <1>2, ZenonT(60) DEF Ordered
    <3>3. CASE j = N + 1
      <4>1. a[j] = g /\ a[i] = o[i] /\ g.peer = p /\ b <= g.n
        BY <3>1, <3>3, <2>1, <1>2, Zenon DEF Sop
      <4>2. o[i].n < b /\ o[i].n \in Nat
        BY <4>1, <3>1, <2>1, <1>4, <1>6, ZenonT(60)
      <4>3. o[i].n < g.n
        BY <4>1, <4>2, <1>5
      <4> QED
        BY <4>1, <4>3, Zenon
    <3> QED
      BY <3>2, <3>3, <1>7, ZenonT(60)
  <2> QED
    BY <2>1, <1>2, ZenonT(60) DEF Ordered
<1> QED
  BY <1>1, <1>8, <1>9, Zenon

\* It is not one of another peer.
LEMMA OutputOther ==
  ASSUME NEW o \in Seq(FlitType), NEW g \in FlitType, NEW q, NEW b, Left(o, q, b), g.k # 1 \/ g.peer # q
  PROVE  Left(Append(o, g), q, b)
<1>1. PICK N, a : N = Len(o) /\ a = Append(o, g)
  BY Zenon
<1>2. N \in Nat /\ Len(a) = N + 1 /\ a[N + 1] = g /\ \A y \in 1 .. N : a[y] = o[y]
  BY <1>1, AppendIs
<1>3. \A y \in 1 .. N + 1 : y \in 1 .. N \/ y = N + 1
  BY <1>2
<1>4. \A y \in 1 .. N + 1 : a[y].peer = q /\ Sop(a[y]) => a[y].n < b
  BY <1>1, <1>2, <1>3, ZenonT(60) DEF Left, Sop
<1> QED
  BY <1>1, <1>2, <1>4, Zenon DEF Left

\* Which metadata flit a flit in the FIFO is.
LEMMA OfIs ==
  ASSUME NEW f \in MidFlit
  PROVE  /\ Sop(f) => f = Flit(f.peer, f.n, 1) /\ Of(f, f.peer) = {f.n}
         /\ \A q : ~Sop(f) \/ q # f.peer => Of(f, q) = {}
         /\ f.peer \in Peers /\ f.peer \in Nat /\ f.n \in Pkts /\ f.n \in Nat
         /\ f.k \in Nat /\ f.k >= 1 /\ f \in FlitType
<1>1. f.peer \in Peers /\ f.n \in Pkts /\ f.k \in Nat \ {0} /\ f = [peer |-> f.peer, n |-> f.n, k |-> f.k]
  BY Zenon DEF MidFlit
<1>2. f.peer \in Nat /\ f.n \in Nat
  BY <1>1, Space, PktsNat, ZenonT(60)
<1>3. f \in FlitType /\ f.k \in Nat /\ f.k >= 1
  BY <1>1, <1>2 DEF FlitType
<1>4. Sop(f) => f = Flit(f.peer, f.n, 1)
  BY <1>1, Zenon DEF Sop, Flit
<1>5. \A q, n : f = Flit(q, n, 1) => f.peer = q /\ f.n = n /\ Sop(f)
  BY DEF Flit, Sop
<1>6. Sop(f) => Of(f, f.peer) = {f.n}
  BY <1>1, <1>4, <1>5, Zenon DEF Of
<1>7. \A q : ~Sop(f) \/ q # f.peer => Of(f, q) = {}
  BY <1>5, Zenon DEF Of
<1> QED
  BY <1>1, <1>2, <1>3, <1>4, <1>6, <1>7, ZenonT(60)

\* Offset, Parked and the number of slots that ReorderMeta frees, for ring r.
OffsetIn(f, r) == (Psn(f) - r.base) % PsnMod
ParkedIn(f, r) == IF OffsetIn(f, r) < Window THEN [r.slots EXCEPT ![OffsetIn(f, r)].a = f] ELSE r.slots
Freed(f, r) == IF OffsetIn(f, r) = 0 THEN Ready(ParkedIn(f, r)) ELSE 0

\* What ReorderMeta does with metadata flit f, to the ring r and the output o.
MetaMoves(f, r, r2, o, o2) ==
  /\ r2 = [slots |-> Drained(ParkedIn(f, r), Freed(f, r)), base |-> (r.base + Freed(f, r)) % PsnMod]
  /\ o2 = IF Freed(f, r) > 0 THEN Append(o, LastOf(ParkedIn(f, r)[Freed(f, r) - 1])) ELSE o

MetaFrom(p, b, r, md, o, G, h, f) ==
  /\ p \in Peers /\ r \in Ring /\ md \in Seq(MidFlit) /\ md # << >> /\ o \in Seq(FlitType)
  /\ h \in Nat /\ h <= Window /\ h <= BitmapBits
  /\ Link(p, b, r, md, o, G, h) /\ Ordered(o)
  /\ f = Head(md) /\ f.peer = p /\ Sop(f)

\* The packet at the front of the FIFO is that of slot n - b.
LEMMA MetaFits ==
  ASSUME NEW p, NEW b, NEW r, NEW md, NEW o, NEW G, NEW h, NEW f, MetaFrom(p, b, r, md, o, G, h, f),
         NEW off, off = OffsetIn(f, r), NEW H, H = Handled(r.slots, b)
  PROVE  /\ off \in Places /\ off < h /\ b + off = f.n /\ f = Flit(p, b + off, 1)
         /\ b \in Nat /\ p \in Nat /\ f.n \in Nat
         /\ MidOK(Tail(md), p, H \cup {f.n}, G, h)
<1>1. /\ p \in Peers /\ md \in Seq(MidFlit) /\ md # << >> /\ f = Head(md) /\ f.peer = p /\ Sop(f)
      /\ h \in Nat /\ h <= Window /\ h <= BitmapBits
  BY Zenon DEF MetaFrom
<1>3. b \in Nat /\ r.base = b % PsnMod /\ r.slots[0].a = NoFlit /\ MidOK(md, p, H, G, h)
  BY Zenon DEF MetaFrom, Link
<1>4. f \in MidFlit
  BY <1>1, TailIs, Zenon
<1>5. /\ f = Flit(p, f.n, 1) /\ Of(f, p) = {f.n} /\ p \in Nat /\ f.n \in Nat
  BY <1>1, <1>4, OfIs, Zenon
<1>6. MidOK(Tail(md), p, H \cup {f.n}, G, h) /\ Placed(f.n, H, h)
  <2>1. /\ MidOK(Tail(md), p, H \cup Of(f, p), G, h)
        /\ \A n \in Of(f, p) : Placed(n, H, h)
    BY <1>1, <1>3, Popped, ZenonT(60)
  <2> QED
    BY <2>1, <1>5, Zenon
<1>7. b <= f.n /\ f.n < b + h
  BY <1>1, <1>3, <1>5, <1>6, FrontNear, ZenonT(60)
<1>8. PICK n : n = f.n
  BY Zenon
<1>9. off = ((n % PsnMod) - (b % PsnMod)) % PsnMod
  BY <1>3, <1>8, Zenon DEF Psn, OffsetIn
<1>10. n \in Nat /\ n >= b /\ n < b + PsnMod /\ b <= n + PsnMod \div 2
  <2>1. b \in Nat /\ n \in Nat /\ h \in Nat /\ b <= n /\ n < b + h /\ h <= BitmapBits
    BY <1>1, <1>3, <1>5, <1>7, <1>8, ZenonT(60)
  <2>2. PICK half : half = PsnMod \div 2
    BY Zenon
  <2>3. half \in Nat /\ PsnMod = 2 * half /\ BitmapBits \in 1 .. half
    BY <2>2, Space, Zenon
  <2>4. n >= b /\ n < b + PsnMod /\ b <= n + half
    BY <2>1, <2>3
  <2> QED
    BY <2>1, <2>2, <2>4, ZenonT(60)
<1>11. off = n - b
  BY <1>3, <1>9, <1>10, DiffIs, ZenonT(60)
<1>12. off \in Places /\ off < h /\ b + off = n
  <2>1. h \in Nat /\ h <= Window /\ n < b + h /\ b \in Nat /\ n \in Nat /\ n >= b
    BY <1>1, <1>3, <1>7, <1>8, <1>10, ZenonT(60)
  <2> QED
    BY <2>1, <1>11, Space DEF Places
<1> QED
  BY <1>3, <1>5, <1>6, <1>8, <1>12, ZenonT(60)

\* The ring, the FIFO and the output after ReorderMeta.
LEMMA MetaLink ==
  ASSUME NEW p, NEW b, NEW r, NEW md, NEW o, NEW G, NEW h, NEW f, MetaFrom(p, b, r, md, o, G, h, f),
         NEW r2, NEW o2, MetaMoves(f, r, r2, o, o2)
  PROVE  /\ r2 \in Ring /\ o2 \in Seq(FlitType) /\ Ordered(o2)
         /\ \E b2 : Link(p, b2, r2, Tail(md), o2, G, h)
         /\ \A q, c : q # p /\ Left(o, q, c) => Left(o2, q, c)
<1>1. PICK off, s, H : off = OffsetIn(f, r) /\ s = r.slots /\ H = Handled(s, b)
  BY ZenonT(60)
<1>2. /\ off \in Places /\ b + off = f.n /\ f = Flit(p, b + off, 1)
      /\ b \in Nat /\ p \in Nat /\ f.n \in Nat /\ MidOK(Tail(md), p, H \cup {f.n}, G, h)
  <2>1. H = Handled(r.slots, b)
    BY <1>1, Zenon
  <2> QED
    BY <2>1, <1>1, MetaFits
<1>3. PICK t : t = StoreAt(s, off, Flit(p, b + off, 1))
  BY Zenon
<1>4. off < Window
  BY <1>2, Space DEF Places
<1>5. PICK d : d = Freed(f, r)
  BY Zenon
<1>a. t = ParkedIn(f, r)
  BY <1>1, <1>2, <1>3, <1>4, ZenonT(60) DEF ParkedIn, StoreAt
<1>b. (off = 0 => d = Ready(t)) /\ (off # 0 => d = 0)
  BY <1>1, <1>5, <1>a, ZenonT(60) DEF Freed
<1>6. /\ r2 = [slots |-> Drained(t, d), base |-> (r.base + d) % PsnMod]
      /\ o2 = IF d > 0 THEN Append(o, LastOf(t[d - 1])) ELSE o
  BY <1>5, <1>a, Zenon DEF MetaMoves
<1>7. SlotsAre(s, p, b) /\ s[0].a = NoFlit /\ r.base = b % PsnMod /\ Left(o, p, b) /\ Ordered(o) /\ o \in Seq(FlitType)
  BY <1>1, Zenon DEF MetaFrom, Link
<1>8. /\ SlotsAre(t, p, b) /\ Filled(t) = Filled(s) \cup {off}
      /\ \A j \in Places : j # off => t[j] = s[j]
  <2>1. p \in Nat /\ b \in Nat /\ SlotsAre(s, p, b) /\ off \in Places
    BY <1>2, <1>7, Zenon
  <2> QED
    BY <2>1, <1>3, Park
<1>9. Handled(t, b) = H \cup {f.n}
  <2>1. {b + j : j \in Filled(s) \cup {off}} = {b + j : j \in Filled(s)} \cup {b + off}
    BY Zenon
  <2> QED
    BY <2>1, <1>1, <1>2, <1>8, ZenonT(60) DEF Handled
<1>10. /\ d \in 0 .. Window /\ (d < Window => t[d].a = NoFlit)
       /\ \A j \in 0 .. d - 1 : t[j].a # NoFlit
  <2>1. CASE off = 0
    BY <2>1, <1>b, ReadyIs, ZenonT(60)
  <2>2. CASE off # 0
    <3>1. 0 \in Places /\ 0 \in 0 .. Window /\ 0 .. 0 - 1 = {}
      BY Space DEF Places
    <3>2. d = 0 /\ t[0].a = NoFlit
      BY <3>1, <2>2, <1>b, <1>7, <1>8, ZenonT(60)
    <3> QED
      BY <3>1, <3>2, Zenon
  <2> QED
    BY <2>1, <2>2, Zenon
<1>11. PICK u, b2 : u = Drained(t, d) /\ b2 = b + d
  BY Zenon
<1>12. SlotsAre(u, p, b2) /\ u[0].a = NoFlit /\ Handled(u, b2) = Handled(t, b)
  BY <1>2, <1>8, <1>10, <1>11, DrainedOK
<1>13. d \in Nat /\ b2 \in Nat /\ b <= b2
  BY <1>2, <1>10, <1>11, Space
<1>14. r2.slots = u /\ r2.base = (r.base + d) % PsnMod
  BY <1>6, <1>11, Zenon
<1>15. r2.base = b2 % PsnMod /\ r2.base \in Nat
  <2>1. b \in Int /\ d \in Int /\ PsnMod \in Nat \ {0}
    BY <1>2, <1>13, Space
  <2>2. ((b % PsnMod) + d) % PsnMod = (b + d) % PsnMod
    BY <2>1, ModAdd, Zenon
  <2>3. b2 % PsnMod \in Nat
    BY <2>1, <1>13
  <2> QED
    BY <2>2, <2>3, <1>7, <1>11, <1>14, ZenonT(60)
<1>16. r2 \in Ring
  <2>1. u \in [Places -> Slot]
    BY <1>12, Zenon DEF SlotsAre
  <2> QED
    BY <2>1, <1>6, <1>11, <1>14, <1>15, ZenonT(60) DEF Ring
<1>17. /\ o2 \in Seq(FlitType) /\ Ordered(o2) /\ Left(o2, p, b2)
       /\ \A q, c : q # p /\ Left(o, q, c) => Left(o2, q, c)
  <2>1. CASE d = 0
    <3>1. o2 = o /\ b2 = b
      BY <2>1, <1>2, <1>6, <1>11
    <3> QED
      BY <3>1, <1>7, ZenonT(60)
  <2>2. CASE d > 0
    <3>1. PICK i, g : i = d - 1 /\ g = LastOf(t[i])
      BY ZenonT(60)
    <3>2. i \in Places /\ i \in 0 .. d - 1 /\ i \in Nat /\ b <= b + i /\ b + i < b2 /\ b + i \in Nat
      BY <3>1, <2>2, <1>2, <1>10, <1>11, Space DEF Places
    <3>3. o2 = Append(o, g)
      BY <3>1, <2>2, <1>6, ZenonT(60)
    <3>4. /\ t[i] \in Slot /\ t[i].a = Flit(p, b + i, 1)
          /\ t[i].b = NoFlit \/ t[i].b.k > 1
      BY <3>2, <1>8, <1>10, ZenonT(60) DEF SlotsAre
    <3>5. g \in FlitType /\ (g.k # 1 \/ g = Flit(p, b + i, 1))
      <4>1. t[i].a \in FlitType /\ t[i].b \in FlitType
        BY <3>4, ZenonT(60) DEF Slot
      <4>2. t[i].b # NoFlit => t[i].b.k # 1
        BY <4>1, <3>4 DEF FlitType
      <4> QED
        BY <4>1, <4>2, <3>1, <3>4, ZenonT(60) DEF LastOf
    <3>6. Flit(p, b + i, 1).peer = p /\ Flit(p, b + i, 1).n = b + i
      BY Zenon DEF Flit
    <3>7. g.k # 1 \/ (g.peer = p /\ b <= g.n /\ g.n < b2)
      BY <3>2, <3>5, <3>6, ZenonT(60)
    <3>8. Ordered(Append(o, g)) /\ Left(Append(o, g), p, b2)
      BY <3>5, <3>7, <1>2, <1>7, <1>13, Output, ZenonT(60)
    <3>9. \A q, c : q # p /\ Left(o, q, c) => Left(Append(o, g), q, c)
      BY <3>5, <3>7, <1>7, OutputOther, ZenonT(60)
    <3>10. Append(o, g) \in Seq(FlitType)
      BY <3>5, <1>7
    <3> QED
      BY <3>3, <3>8, <3>9, <3>10, ZenonT(60)
  <2> QED
    BY <2>1, <2>2, <1>13
<1>18. Link(p, b2, r2, Tail(md), o2, G, h)
  BY <1>2, <1>9, <1>12, <1>13, <1>14, <1>15, <1>17, ZenonT(60) DEF Link
<1> QED
  BY <1>16, <1>17, <1>18, ZenonT(60)

\* Nothing that the invariant speaks of changes.
LEMMA LinkSame ==
  ASSUME LinkInv, UNCHANGED <<rb, this_idx, mid, out, got, traffic>>
  PROVE  LinkInv'
BY Zenon DEF LinkInv, Reach

\* UB_TPChannel_RX puts a flit into the FIFO.
Pushes(f) ==
  /\ f \in MidFlit /\ mid' = Append(mid, f) /\ UNCHANGED <<rb, this_idx, out, traffic>>
  /\ \A p \in Peers : got'[p] = got[p] \cup Of(f, p) /\ \A n \in Of(f, p) : Placed(n, got[p], Reach)

\* The flit is accounted for behind the ones before it in the FIFO.
LEMMA PushLink ==
  ASSUME LinkInv, NEW f, Pushes(f)
  PROVE  LinkInv'
<1>1. /\ f \in MidFlit /\ mid' = Append(mid, f) /\ mid \in Seq(MidFlit)
      /\ rb' = rb /\ this_idx' = this_idx /\ out' = out /\ Reach' = Reach
  BY Zenon DEF Pushes, LinkInv, Reach
<1>2. mid' \in Seq(MidFlit)
  BY <1>1, AppendIs, Zenon
<1>3. ASSUME NEW p \in Peers
      PROVE  \E b : Link(p, b, rb'[Idx(p)], mid', out', got'[p], Reach')
  <2>1. PICK b : Link(p, b, rb[Idx(p)], mid, out, got[p], Reach)
    BY Zenon DEF LinkInv
  <2>2. PICK H, G, h : H = Handled(rb[Idx(p)].slots, b) /\ G = got[p] /\ h = Reach
    BY Zenon
  <2>3. MidOK(mid, p, H, G, h)
    BY <2>1, <2>2, Zenon DEF Link
  <2>4. got'[p] = G \cup Of(f, p) /\ \A n \in Of(f, p) : Placed(n, G, h)
    BY <2>2, ZenonT(60) DEF Pushes
  <2>5. MidOK(Append(mid, f), p, H, G \cup Of(f, p), h)
    BY <2>3, <2>4, <1>1, Pushed, ZenonT(60)
  <2>6. Link(p, b, rb[Idx(p)], Append(mid, f), out, G \cup Of(f, p), h)
    BY <2>1, <2>2, <2>5, Zenon DEF Link
  <2> QED
    BY <2>2, <2>4, <2>6, <1>1, ZenonT(60)
<1> QED
  BY <1>1, <1>2, <1>3, ZenonT(60) DEF LinkInv

\* A ring in which at most a second flit was stored.
Pairs(r, r2) ==
  /\ r2 \in Ring /\ r2.base = r.base
  /\ \A j \in Places : /\ r2.slots[j].a = r.slots[j].a
                       /\ r2.slots[j].b = r.slots[j].b \/ r2.slots[j].b.k > 1

\* UB_PSN_Reorder reads a flit that is not a metadata flit.
Pops(f) ==
  /\ mid # << >> /\ f = Head(mid) /\ ~Sop(f) /\ mid' = Tail(mid)
  /\ UNCHANGED <<this_idx, got, traffic>>
  /\ out' = out \/ out' = Append(out, f)
  /\ rb' \in [Chan -> Ring] /\ \A c \in Chan : Pairs(rb[c], rb'[c])

\* A later flit moves no packet from one place to another.
LEMMA PopLink ==
  ASSUME LinkInv, NEW f, Pops(f)
  PROVE  LinkInv'
<1>1. /\ mid # << >> /\ mid \in Seq(MidFlit) /\ f = Head(mid) /\ ~Sop(f) /\ mid' = Tail(mid)
      /\ this_idx' = this_idx /\ got' = got /\ Reach' = Reach /\ out \in Seq(FlitType) /\ Ordered(out)
  BY Zenon DEF Pops, LinkInv, Reach
<1>2. f \in MidFlit /\ mid' \in Seq(MidFlit)
  BY <1>1, TailIs, Zenon
<1>3. f \in FlitType /\ f.k # 1 /\ \A q : Of(f, q) = {}
  BY <1>1, <1>2, OfIs, ZenonT(60) DEF Sop
<1>4. out' \in Seq(FlitType)
  <2>1. Append(out, f) \in Seq(FlitType)
    BY <1>1, <1>3
  <2> QED
    BY <2>1, <1>1, ZenonT(60) DEF Pops
<1>5. \A q, b : Left(out, q, b) => Left(out', q, b)
  <2>1. \A q, b : Left(out, q, b) => Left(Append(out, f), q, b)
    BY <1>1, <1>3, OutputOther, ZenonT(60)
  <2> QED
    BY <2>1, Zenon DEF Pops
<1>6. Ordered(out')
  <2>1. PICK N, a : N = Len(out) /\ a = Append(out, f)
    BY Zenon
  <2>2. N \in Nat /\ Len(a) = N + 1 /\ a[N + 1] = f /\ \A y \in 1 .. N : a[y] = out[y]
    BY <2>1, <1>1, <1>3, AppendIs
  <2>3. \A i \in 1 .. Len(a) : i \in 1 .. N \/ i = N + 1
    BY <2>2
  <2>4. \A i \in 1 .. Len(a) : Sop(a[i]) => i \in 1 .. N /\ a[i] = out[i]
    BY <2>2, <2>3, <1>1, ZenonT(60)
  <2>5. \A i, j \in 1 .. N :
          i < j /\ Sop(out[i]) /\ Sop(out[j]) /\ out[i].peer = out[j].peer => out[i].n < out[j].n
    BY <2>1, <1>1, Zenon DEF Ordered
  <2>6. ASSUME NEW i \in 1 .. Len(a), NEW j \in 1 .. Len(a),
               i < j, Sop(a[i]), Sop(a[j]), a[i].peer = a[j].peer
        PROVE  a[i].n < a[j].n
    <3>1. i \in 1 .. N /\ a[i] = out[i] /\ j \in 1 .. N /\ a[j] = out[j]
      BY <2>4, <2>6, Zenon
    <3> QED
      BY <3>1, <2>5, <2>6, ZenonT(60)
  <2>7. Ordered(a)
    BY <2>6, Zenon DEF Ordered
  <2> QED
    BY <2>1, <2>7, <1>1, ZenonT(60) DEF Pops
<1>7. ASSUME NEW p \in Peers
      PROVE  \E b : Link(p, b, rb'[Idx(p)], mid', out', got'[p], Reach')
  <2>1. PICK b : Link(p, b, rb[Idx(p)], mid, out, got[p], Reach)
    BY Zenon DEF LinkInv
  <2>2. PICK r, r2, H, G, h : /\ r = rb[Idx(p)] /\ r2 = rb'[Idx(p)] /\ H = Handled(r.slots, b)
                              /\ G = got[p] /\ h = Reach
    BY Zenon
  <2>3. /\ b \in Nat /\ r.base = b % PsnMod /\ SlotsAre(r.slots, p, b) /\ r.slots[0].a = NoFlit
        /\ MidOK(mid, p, H, G, h) /\ Left(out, p, b)
    BY <2>1, <2>2, Zenon DEF Link
  <2>4. Pairs(r, r2)
    BY <2>2, IdxChan, Zenon DEF Pops
  <2>5. /\ r2 \in Ring /\ r2.base = r.base
        /\ \A j \in Places : r2.slots[j].a = r.slots[j].a
        /\ \A j \in Places : r2.slots[j].b = r.slots[j].b \/ r2.slots[j].b.k > 1
    BY <2>4, Zenon DEF Pairs
  <2>6. r2.slots \in [Places -> Slot] /\ 0 \in Places
    BY <2>5, Space DEF Ring, Places
  <2>7. SlotsAre(r2.slots, p, b)
    BY <2>3, <2>5, <2>6, ZenonT(60) DEF SlotsAre
  <2>8. Filled(r2.slots) = Filled(r.slots) /\ r2.slots[0].a = NoFlit
    BY <2>3, <2>5, <2>6, Zenon DEF Filled
  <2>9. Handled(r2.slots, b) = H
    BY <2>2, <2>8, Zenon DEF Handled
  <2>10. MidOK(Tail(mid), p, H, G, h)
    <3>1. MidOK(Tail(mid), p, H \cup Of(f, p), G, h)
      BY <2>3, <1>1, Popped, ZenonT(60)
    <3>2. H \cup Of(f, p) = H
      BY <1>3, Zenon
    <3> QED
      BY <3>1, <3>2, Zenon
  <2>11. Link(p, b, r2, Tail(mid), out', G, h)
    BY <2>3, <2>5, <2>7, <2>8, <2>9, <2>10, <1>5, ZenonT(60) DEF Link
  <2> QED
    BY <2>2, <2>11, <1>1, ZenonT(60)
<1>8. rb' \in [Chan -> Ring] /\ this_idx' \in Chan
  BY <1>1, Zenon DEF Pops, LinkInv
<1> QED
  BY <1>2, <1>4, <1>6, <1>7, <1>8, ZenonT(60) DEF LinkInv

\* UB_PSN_Reorder reads a metadata flit.
LEMMA MetaStep ==
  ASSUME Setting, Fits, traffic \in Traffics, LinkInv, ReorderMeta
  PROVE  LinkInv'
<1>1. PICK f, p, r, r2, G, h :
        /\ f = Head(mid) /\ p = f.peer /\ r = rb[Idx(p)] /\ r2 = rb'[Idx(p)] /\ G = got[p] /\ h = Reach
  BY Zenon
<1>2. /\ mid # << >> /\ Sop(f) /\ mid' = Tail(mid) /\ this_idx' = Idx(p)
      /\ got' = got /\ traffic' = traffic
  BY <1>1, Zenon DEF ReorderMeta, TopFlit, wireVars, rxVars
<1>3. mid \in Seq(MidFlit) /\ out \in Seq(FlitType) /\ Ordered(out) /\ rb \in [Chan -> Ring]
  BY Zenon DEF LinkInv
<1>4. f \in MidFlit /\ mid' \in Seq(MidFlit)
  BY <1>1, <1>2, <1>3, TailIs, ZenonT(60)
<1>5. p \in Peers /\ Idx(p) \in Chan
  BY <1>1, <1>4, OfIs, IdxChan, ZenonT(60)
<1>6. PICK b : Link(p, b, r, mid, out, G, h)
  BY <1>1, <1>5, Zenon DEF LinkInv
<1>7. MetaFrom(p, b, r, mid, out, G, h, f)
  BY <1>1, <1>2, <1>3, <1>5, <1>6, ReachIs, ZenonT(60) DEF MetaFrom
<1>8. OffsetIn(f, r) = Offset(f) /\ ParkedIn(f, r) = Parked(f)
  BY <1>1, Zenon DEF OffsetIn, ParkedIn, Offset, Parked
<1>9. PICK nr : nr = [slots |-> Drained(ParkedIn(f, r), Freed(f, r)), base |-> (r.base + Freed(f, r)) % PsnMod]
  BY Zenon
<1>10. /\ rb' = [rb EXCEPT ![Idx(p)] = nr]
       /\ out' = IF Freed(f, r) > 0 THEN Append(out, LastOf(ParkedIn(f, r)[Freed(f, r) - 1])) ELSE out
  BY <1>1, <1>8, <1>9, ZenonT(60) DEF ReorderMeta, TopFlit, Emit, Freed
<1>11. r2 = nr /\ \A c \in Chan : c # Idx(p) => rb'[c] = rb[c]
  BY <1>1, <1>3, <1>5, <1>10, ZenonT(60)
<1>12. MetaMoves(f, r, r2, out, out')
  BY <1>9, <1>10, <1>11, ZenonT(60) DEF MetaMoves
<1>13. /\ r2 \in Ring /\ out' \in Seq(FlitType) /\ Ordered(out')
       /\ \E b2 : Link(p, b2, r2, Tail(mid), out', G, h)
       /\ \A q, c : q # p /\ Left(out, q, c) => Left(out', q, c)
  BY <1>7, <1>12, MetaLink
<1>14. rb' \in [Chan -> Ring]
  BY <1>3, <1>5, <1>10, <1>11, <1>13, ZenonT(60)
<1>15. ASSUME NEW q \in Peers
       PROVE  \E c : Link(q, c, rb'[Idx(q)], mid', out', got'[q], Reach')
  <2>0. Reach' = Reach
    BY <1>2, Zenon DEF Reach
  <2>1. CASE q = p
    BY <2>0, <2>1, <1>1, <1>2, <1>13, ZenonT(60)
  <2>2. CASE q # p
    <3>1. Idx(q) # Idx(p) /\ Idx(q) \in Chan
      BY <2>2, <1>5, IdxChan, ZenonT(60) DEF Setting
    <3>2. rb'[Idx(q)] = rb[Idx(q)]
      BY <3>1, <1>11, Zenon
    <3>3. PICK c : Link(q, c, rb[Idx(q)], mid, out, got[q], Reach)
      BY Zenon DEF LinkInv
    <3>4. PICK s, H, K : s = rb[Idx(q)] /\ H = Handled(s.slots, c) /\ K = got[q]
      BY Zenon
    <3>5. /\ c \in Nat /\ s.base = c % PsnMod /\ SlotsAre(s.slots, q, c) /\ s.slots[0].a = NoFlit
          /\ MidOK(mid, q, H, K, Reach) /\ Left(out, q, c)
      BY <3>3, <3>4, ZenonT(60) DEF Link
    <3>6. Of(f, q) = {}
      BY <2>2, <1>1, <1>4, OfIs, ZenonT(60)
    <3>7. MidOK(Tail(mid), q, H \cup Of(f, q), K, Reach)
      BY <3>5, <1>1, <1>2, <1>3, Popped, ZenonT(60)
    <3>8. H \cup Of(f, q) = H
      BY <3>6, Zenon
    <3>9. MidOK(Tail(mid), q, H, K, Reach) /\ Left(out', q, c)
      BY <3>5, <3>7, <3>8, <2>2, <1>13, ZenonT(60)
    <3>10. Link(q, c, s, Tail(mid), out', K, Reach)
      BY <3>4, <3>5, <3>9, ZenonT(60) DEF Link
    <3> QED
      BY <2>0, <3>2, <3>4, <3>10, <1>2, ZenonT(60)
  <2> QED
    BY <2>1, <2>2, Zenon
<1> QED
  BY <1>2, <1>4, <1>5, <1>13, <1>14, <1>15, ZenonT(60) DEF LinkInv

\* A packet from the expected one to less than h after it.
LEMMA AcceptPlaced ==
  ASSUME NEW G, NEW m, NEW B, GotIs(G, m, B), m \notin G, NEW n \in Nat, NEW h \in Nat, m <= n, n < m + h
  PROVE  Placed(n, G, h)
<1>1. m \in Nat /\ \A q \in 0 .. m - 1 : q \in G
  BY Zenon DEF GotIs
<1>2. m \in 0 .. n /\ \A q \in 0 .. n - h : q \in 0 .. m - 1
  BY <1>1
<1> QED
  BY <1>1, <1>2, ZenonT(60) DEF Placed

\* A flit on port 1 is one of a packet.
LEMMA FeedFlit ==
  ASSUME RxInv, feed # << >>
  PROVE  Head(feed) \in MidFlit
<1>1. PICK f : f = Head(feed)
  BY Zenon
<1>2. f \in FlitType /\ f.peer \in Peers /\ f.n \in Pkts /\ f.k >= 1
  BY <1>1, Zenon DEF RxInv, FeedOK, RestOf
<1> QED
  BY <1>1, <1>2 DEF MidFlit, FlitType

\* A packet is accepted.
LEMMA AcceptStep ==
  ASSUME Setting, Fits, RxInv, LinkInv, RxInOrder \/ RxOutOfOrder
  PROVE  LinkInv'
<1>0. RxMeta
  BY Zenon DEF RxInOrder, RxOutOfOrder
<1>1. PICK f, p, c, G, m : Reading(f, p, c, G, m)
  BY <1>0, ChannelOK, ZenonT(60)
<1>2. /\ f = Head(feed) /\ p = f.peer /\ c = Channel(f) /\ G = got[p] /\ m = First(G) /\ Sop(f)
      /\ p \in Peers /\ ChanOK(c, p, G) /\ c.valid /\ f.n \in Nat /\ m \in Nat /\ f.n <= m + traffic.ahead
  BY <1>1, Zenon DEF Reading
<1>3. PICK d : d = Diff(f, c)
  BY Zenon
<1>4. /\ d = 0 \/ (~Behind(f, c) /\ d < BitmapBits)
      /\ mid' = Append(mid, f) /\ got' = [got EXCEPT ![p] = got[p] \cup {f.n}]
      /\ UNCHANGED <<rb, this_idx, out, traffic>>
  BY <1>2, <1>3, ZenonT(60) DEF RxInOrder, RxOutOfOrder, ForwardIf, Accept, wireVars, reorderVars
<1>5. d \in Nat /\ f.n = m + d /\ d < BitmapBits
  <2>1. d \in Nat /\ (d = 0 => f.n = m) /\ (~Behind(f, c) => f.n = m + d)
    BY <1>1, <1>3, DiffSays, ZenonT(60)
  <2> QED
    BY <2>1, <1>2, <1>4, Space
<1>6. traffic \in Traffics /\ got \in [Peers -> SUBSET Pkts]
  BY Zenon DEF RxInv, ChansOK
<1>7. PICK h, n : h = Reach /\ n = f.n
  BY ZenonT(60)
<1>8. h \in Nat /\ m <= n /\ n < m + h /\ n \in Nat
  <2>1. h \in Nat /\ traffic.ahead \in Nat /\ (h = traffic.ahead + 1 \/ h = BitmapBits)
    BY <1>6, <1>7, ReachIs, ZenonT(60)
  <2> QED
    BY <2>1, <1>2, <1>5, <1>7, Space
<1>9. Placed(n, G, h)
  <2>1. GotIs(G, m, c.bitmap) /\ G \subseteq Pkts
    BY <1>2, ChanFields, ZenonT(60)
  <2>2. m \notin G
    BY <2>1, FirstIs, ZenonT(60)
  <2> QED
    BY <2>1, <2>2, <1>8, AcceptPlaced, ZenonT(60)
<1>10. f \in MidFlit
  BY <1>0, <1>2, FeedFlit, ZenonT(60) DEF RxMeta
<1>11. Of(f, p) = {n} /\ \A q : q # p => Of(f, q) = {}
  BY <1>2, <1>7, <1>10, OfIs, ZenonT(60)
<1>12. ASSUME NEW q \in Peers
       PROVE  got'[q] = got[q] \cup Of(f, q) /\ \A x \in Of(f, q) : Placed(x, got[q], Reach)
  <2>1. CASE q = p
    BY <2>1, <1>2, <1>4, <1>6, <1>7, <1>9, <1>11, ZenonT(60)
  <2>2. CASE q # p
    <3>1. got'[q] = got[q] /\ Of(f, q) = {}
      BY <2>2, <1>4, <1>6, <1>11, ZenonT(60)
    <3> QED
      BY <3>1, Zenon
  <2> QED
    BY <2>1, <2>2, Zenon
<1>13. Pushes(f)
  BY <1>4, <1>10, <1>12, ZenonT(60) DEF Pushes
<1> QED
  BY <1>13, PushLink, ZenonT(60)

\* A later flit goes into the FIFO or not.
LEMMA BodyStep ==
  ASSUME RxInv, LinkInv, RxBody
  PROVE  LinkInv'
<1>1. /\ feed # << >> /\ ~Sop(Head(feed)) /\ got' = got
      /\ UNCHANGED <<rb, this_idx, out, traffic>>
      /\ mid' = mid \/ mid' = Append(mid, Head(feed))
  BY Zenon DEF RxBody, ForwardIf, wireVars, reorderVars
<1>2. CASE mid' = mid
  BY <1>1, <1>2, LinkSame, ZenonT(60)
<1>3. CASE mid' = Append(mid, Head(feed))
  <2>1. Head(feed) \in MidFlit
    BY <1>1, FeedFlit, Zenon
  <2>2. \A q : Of(Head(feed), q) = {}
    BY <2>1, <1>1, OfIs, ZenonT(60)
  <2>3. Pushes(Head(feed))
    BY <2>1, <2>2, <1>1, <1>3, ZenonT(60) DEF Pushes
  <2> QED
    BY <2>3, PushLink, Zenon
<1> QED
  BY <1>1, <1>2, <1>3, ZenonT(60)

\* A ring is as it was.
LEMMA PairsSame ==
  ASSUME NEW r \in Ring
  PROVE  Pairs(r, r)
BY Zenon DEF Pairs

\* A second flit is stored.
LEMMA PairSlot ==
  ASSUME NEW r \in Ring, NEW j \in Places, NEW f \in FlitType, f.k > 1,
         NEW r2, r2 = [r EXCEPT !.slots[j].b = f]
  PROVE  Pairs(r, r2)
<1>1. PICK s, x, y : s = r.slots /\ x = s[j] /\ y = [x EXCEPT !.b = f]
  BY Zenon
<1>2. s \in [Places -> Slot] /\ x \in Slot /\ r.base \in Nat
  BY <1>1 DEF Ring
<1>3. y \in Slot /\ y.a = x.a /\ y.b = f
  BY <1>1, <1>2 DEF Slot
<1>4. PICK t : t = [s EXCEPT ![j] = y]
  BY Zenon
<1>5. t \in [Places -> Slot] /\ t[j] = y /\ \A i \in Places : i # j => t[i] = s[i]
  BY <1>2, <1>3, <1>4, ZenonT(60)
<1>6. r2 = [r EXCEPT !.slots = t]
  BY <1>1, <1>4, Zenon
<1>7. r2 \in Ring /\ r2.slots = t /\ r2.base = r.base
  BY <1>2, <1>5, <1>6 DEF Ring
<1>8. \A i \in Places : t[i].a = s[i].a /\ (t[i].b = s[i].b \/ t[i].b.k > 1)
  BY <1>1, <1>3, <1>5, ZenonT(60)
<1> QED
  BY <1>1, <1>7, <1>8, ZenonT(60) DEF Pairs

\* UB_PSN_Reorder reads a later flit.
LEMMA LaterStep ==
  ASSUME LinkInv, ReorderPair \/ ReorderPass \/ ReorderDrop
  PROVE  LinkInv'
<1>1. PICK f : f = Head(mid)
  BY Zenon
<1>2. /\ mid # << >> /\ ~Sop(f) /\ mid' = Tail(mid) /\ UNCHANGED <<this_idx, got, traffic>>
      /\ out' = out \/ out' = Append(out, f)
  BY <1>1, Zenon DEF ReorderPair, ReorderPass, ReorderDrop, TopFlit, Emit, wireVars, rxVars, reorderVars
<1>3. mid \in Seq(MidFlit) /\ rb \in [Chan -> Ring] /\ this_idx \in Chan
  BY Zenon DEF LinkInv
<1>4. f \in MidFlit
  BY <1>1, <1>2, <1>3, TailIs, ZenonT(60)
<1>5. f \in FlitType /\ f.k > 1
  <2>1. f \in FlitType /\ f.k \in Nat /\ f.k >= 1 /\ ~(f.k = 1)
    BY <1>2, <1>4, OfIs, Zenon DEF Sop
  <2> QED
    BY <2>1
<1>6. rb' \in [Chan -> Ring] /\ \A c \in Chan : Pairs(rb[c], rb'[c])
  <2>1. CASE rb' = rb
    BY <2>1, <1>3, PairsSame, ZenonT(60)
  <2>2. CASE ReorderPair
    <3>1. PICK j : j = CHOOSE x \in Unpaired : \A y \in Unpaired : x <= y
      BY Zenon
    <3>2. Unpaired # {} /\ rb' = [rb EXCEPT ![this_idx].slots[j].b = f]
      BY <3>1, <2>2, <1>1, ZenonT(60) DEF ReorderPair, TopFlit
    <3>3. Unpaired \subseteq Places /\ Unpaired \subseteq Nat
      BY Space DEF Unpaired, Places
    <3>4. \E x \in Unpaired : \A y \in Unpaired : x <= y
      BY <3>2, <3>3, FirstOf, Zenon
    <3>5. j \in Places
      BY <3>1, <3>3, <3>4, Zenon
    <3>6. PICK r, r2 : r = rb[this_idx] /\ r2 = [r EXCEPT !.slots[j].b = f]
      BY Zenon
    <3>7. Pairs(r, r2)
      BY <3>5, <3>6, <1>3, <1>5, PairSlot
    <3>8. r2 \in Ring
      BY <3>7, Zenon DEF Pairs
    <3>9. rb' = [rb EXCEPT ![this_idx] = r2]
      BY <3>2, <3>6, Zenon
    <3>10. rb' \in [Chan -> Ring] /\ rb'[this_idx] = r2 /\ \A c \in Chan : c # this_idx => rb'[c] = rb[c]
      BY <3>8, <3>9, <1>3, Zenon
    <3>11. \A c \in Chan : rb[c] \in Ring
      BY <1>3, Zenon
    <3> QED
      BY <3>6, <3>7, <3>10, <3>11, PairsSame, ZenonT(60)
  <2> QED
    BY <2>1, <2>2, Zenon DEF ReorderPass, ReorderDrop, reorderVars
<1>7. Pops(f)
  BY <1>1, <1>2, <1>6, Zenon DEF Pops
<1> QED
  BY <1>7, PopLink, Zenon

\* Nothing came yet.
LEMMA LinkInitOK ==
  ASSUME Init
  PROVE  LinkInv
<1>1. PICK s, r : s = [j \in Places |-> EmptySlot] /\ r = [slots |-> s, base |-> 0]
  BY Zenon
<1>2. /\ rb = [c \in Chan |-> r] /\ this_idx \in Chan /\ mid = << >> /\ out = << >>
      /\ got = [p \in Peers |-> {}]
  BY <1>1, Zenon DEF Init, Places
<1>3. EmptySlot \in Slot /\ EmptySlot.a = NoFlit /\ EmptySlot.b = NoFlit
  BY DEF EmptySlot, Slot, NoFlit, FlitType
<1>4. s \in [Places -> Slot] /\ \A j \in Places : s[j].a = NoFlit /\ s[j].b = NoFlit
  BY <1>1, <1>3, ZenonT(60)
<1>5. r \in Ring /\ r.slots = s /\ r.base = 0
  BY <1>1, <1>4 DEF Ring
<1>6. 0 \in Places /\ 0 % PsnMod = 0 /\ 0 .. 0 - 1 = {} /\ Len(<< >>) = 0 /\ 1 .. 0 = {} /\ 1 .. (0 + 1) - 1 = {}
  BY Space DEF Places
<1>7. Handled(s, 0) = {}
  BY <1>4, <1>6, Zenon DEF Handled, Filled
<1>8. \A p, h : MidOK(<< >>, p, {}, {}, h)
  BY <1>6, Zenon DEF MidOK, Seen
<1>9. \A p : SlotsAre(s, p, 0)
  BY <1>4, Zenon DEF SlotsAre
<1>10. \A p : Left(<< >>, p, 0) /\ Ordered(<< >>)
  BY <1>6, Zenon DEF Left, Ordered
<1>11. \A p, h : Link(p, 0, r, << >>, << >>, {}, h)
  <2>1. 0 \in Nat
    OBVIOUS
  <2> QED
    BY <2>1, <1>4, <1>5, <1>6, <1>7, <1>8, <1>9, <1>10, ZenonT(60) DEF Link
<1>12. \A p \in Peers : rb[Idx(p)] = r /\ got[p] = {}
  BY <1>2, IdxChan, ZenonT(60)
<1>13. rb \in [Chan -> Ring] /\ mid \in Seq(MidFlit) /\ out \in Seq(FlitType)
  BY <1>2, <1>5
<1> QED
  BY <1>2, <1>10, <1>11, <1>12, <1>13, ZenonT(60) DEF LinkInv

\* Each step keeps the invariant.
LEMMA LinkStepOK ==
  ASSUME Setting, Fits, RxInv, LinkInv, [Next]_vars
  PROVE  LinkInv'
<1>1. traffic \in Traffics
  BY Zenon DEF RxInv
<1>2. CASE \/ \E p \in Peers, n \in Pkts : Arrive(p, n)
           \/ \E p \in Peers, o \in OooModes : Provision(p, o)
           \/ RxDuplicate \/ RxNak
           \/ UNCHANGED vars
  <2>1. UNCHANGED <<rb, this_idx, mid, out, got, traffic>>
    BY <1>2, Zenon DEF Arrive, Provision, RxDuplicate, RxNak, ForwardIf, vars, wireVars, rxVars, reorderVars
  <2> QED
    BY <2>1, LinkSame, ZenonT(60)
<1>3. CASE RxInOrder \/ RxOutOfOrder
  BY <1>3, AcceptStep, ZenonT(60)
<1>4. CASE RxBody
  BY <1>4, BodyStep, ZenonT(60)
<1>5. CASE Reorder
  BY <1>1, <1>5, MetaStep, LaterStep, ZenonT(60) DEF Reorder
<1> QED
  BY <1>2, <1>3, <1>4, <1>5, ZenonT(60) DEF Next, TpcRx

\* The packets before the first missing one, and the others, determine both.
LEMMA GotUnique ==
  ASSUME NEW m \in Nat, NEW k \in Nat, NEW B, NEW C, B \subseteq Nat \ {0}, C \subseteq Nat \ {0},
         (0 .. m - 1) \cup {m + b : b \in B} = (0 .. k - 1) \cup {k + c : c \in C}
  PROVE  m = k /\ B = C
<1>1. PICK G : G = (0 .. m - 1) \cup {m + b : b \in B}
  BY Zenon
<1>2. G = (0 .. k - 1) \cup {k + c : c \in C}
  BY <1>1, Zenon
<1>3. m \notin G
  <2>1. m \notin 0 .. m - 1 /\ \A b \in B : m # m + b
    OBVIOUS
  <2> QED
    BY <2>1, <1>1, ZenonT(60)
<1>4. k \notin G
  <2>1. k \notin 0 .. k - 1 /\ \A c \in C : k # k + c
    OBVIOUS
  <2> QED
    BY <2>1, <1>2, ZenonT(60)
<1>5. m \notin 0 .. k - 1 /\ k \notin 0 .. m - 1
  BY <1>1, <1>2, <1>3, <1>4, ZenonT(60)
<1>6. m = k
  BY <1>5
<1>7. ASSUME NEW b \in Nat \ {0}
      PROVE  /\ b \in B <=> m + b \in G
             /\ b \in C <=> m + b \in G
  <2>1. m + b \notin 0 .. m - 1 /\ m + b \notin 0 .. k - 1
    BY <1>6
  <2>2. (\A x \in B : m + b = m + x => b = x) /\ (\A x \in C : m + b = k + x => b = x)
    BY <1>6
  <2> QED
    BY <2>1, <2>2, <1>1, <1>2, <1>6, ZenonT(60)
<1> QED
  BY <1>6, <1>7, ZenonT(60)

\* With nothing between them the elements agree.
LEMMA WindowsFromInv ==
  ASSUME RxInv, LinkInv
  PROVE  WindowsAgree
<1>1. ASSUME mid = << >>, NEW c \in Chan
      PROVE  rb[c].base = rxchan[c].epsn /\ {j \in 0 .. Window - 1 : rb[c].slots[j].a # NoFlit} = rxchan[c].bitmap
  <2>1. PICK p \in Peers : c = Idx(p)
    BY Zenon DEF Chan, Idx
  <2>2. PICK b : Link(p, b, rb[c], mid, out, got[p], Reach)
    BY <2>1, ZenonT(60) DEF LinkInv
  <2>3. PICK G, s, m, B : G = got[p] /\ s = rb[c].slots /\ m = First(G) /\ B = rxchan[c].bitmap
    BY Zenon
  <2>4. b \in Nat /\ rb[c].base = b % PsnMod /\ s[0].a = NoFlit /\ MidOK(<< >>, p, Handled(s, b), G, Reach)
    BY <2>2, <2>3, <1>1, ZenonT(60) DEF Link
  <2>5. GotIs(G, m, B) /\ rxchan[c].epsn = m % PsnMod
    BY <2>1, <2>3, Zenon DEF RxInv, ChansOK, ChanOK
  <2>6. m \in Nat /\ B \subseteq 1 .. BitmapBits - 1 /\ G = (0 .. m - 1) \cup {m + x : x \in B}
    BY <2>5, Zenon DEF GotIs
  <2>7. Len(<< >>) = 0 /\ 1 .. (0 + 1) - 1 = {}
    OBVIOUS
  <2>8. G = Handled(s, b)
    BY <2>4, <2>7, ZenonT(60) DEF MidOK, Seen
  <2>9. B \subseteq Nat \ {0}
    BY <2>6, Space
  <2>10. Filled(s) \subseteq Nat \ {0}
    BY <2>4, Space DEF Filled, Places
  <2>11. m = b /\ B = Filled(s)
    <3>1. PICK C : C = Filled(s)
      BY Zenon
    <3>2. (0 .. m - 1) \cup {m + x : x \in B} = (0 .. b - 1) \cup {b + x : x \in C}
      BY <3>1, <2>6, <2>8, ZenonT(60) DEF Handled
    <3>3. C \subseteq Nat \ {0} /\ m \in Nat /\ b \in Nat
      BY <3>1, <2>4, <2>6, <2>10, ZenonT(60)
    <3>4. m = b /\ B = C
      BY <3>2, <3>3, <2>9, GotUnique, ZenonT(60)
    <3> QED
      BY <3>1, <3>4, ZenonT(60)
  <2> QED
    BY <2>3, <2>4, <2>5, <2>11, ZenonT(60) DEF Filled, Places
<1> QED
  BY <1>1, Zenon DEF WindowsAgree

\* UB_TPChannel_RX and UB_PSN_Reorder each keep their own expected PSN and
\* window and never speak of them; once the FIFO between them is empty the two
\* agree, PSN and bitmap, if what can be accepted fits into the slots.
THEOREM AgreeingWindows ==
  ASSUME Setting, Fits
  PROVE  Spec => []WindowsAgree
<1>1. Init => RxInv /\ LinkInv
  BY RxInitOK, LinkInitOK, Zenon
<1>2. RxInv /\ LinkInv /\ [Next]_vars => RxInv' /\ LinkInv'
  BY RxStepOK, LinkStepOK, Zenon
<1>3. RxInv /\ LinkInv => WindowsAgree
  BY WindowsFromInv, Zenon
<1> QED
  BY <1>1, <1>2, <1>3, PTL DEF Spec

-----------------------------------------------------------------------------
(* Packets that do not overtake each other leave as they came.             *)

\* Each flit of s starts a packet after the end of another, or is the one
\* after the flit before it.
Chain(s) ==
  \A j \in 1 .. Len(s) :
    /\ s[j].k <= Flits[s[j].n]
    /\ IF Sop(s[j]) THEN j > 1 => Eop(s[j - 1])
       ELSE j > 1 /\ s[j - 1] = [s[j] EXCEPT !.k = @ - 1]

\* The last flit of s is the end of a packet, or the one before f.
Ended(s) == s # << >> => Eop(s[Len(s)])
Awaits(s, f) == s # << >> /\ s[Len(s)] = [f EXCEPT !.k = @ - 1]
Due(s, fd, w) == IF fd # << >> /\ ~Sop(Head(fd)) /\ w THEN Awaits(s, Head(fd)) ELSE Ended(s)

\* The flits that left and the ones in the FIFO.
Line == out \o mid

WholeInv ==
  traffic.ahead = 0 =>
    /\ \A c \in Chan : rb[c].slots = [j \in Places |-> EmptySlot]
    /\ Chain(Line) /\ Due(Line, feed, in_window)
    /\ ~saw_meta => Ended(out)

\* A flit that leaves the FIFO stays where it is in the line.
LEMMA LineMoves ==
  ASSUME NEW T, NEW o \in Seq(T), NEW md \in Seq(T), md # << >>
  PROVE  Append(o, Head(md)) \o Tail(md) = o \o md
<1>1. PICK N, M, a, b : N = Len(o) /\ M = Len(md) /\ a = Append(o, Head(md)) \o Tail(md) /\ b = o \o md
  BY Zenon
<1>2. /\ N \in Nat /\ M \in Nat /\ M >= 1 /\ a \in Seq(T) /\ b \in Seq(T)
      /\ Len(a) = N + M /\ Len(b) = N + M
  BY <1>1
<1>3. ASSUME NEW j \in 1 .. N + M
      PROVE  a[j] = b[j]
  <2>1. CASE j <= N
    BY <2>1, <1>1, <1>2
  <2>2. CASE j = N + 1
    BY <2>2, <1>1, <1>2
  <2>3. CASE j > N + 1
    BY <2>3, <1>1, <1>2
  <2> QED
    BY <2>1, <2>2, <2>3, <1>2
<1>4. a = b
  BY <1>2, <1>3
<1> QED
  BY <1>1, <1>4, Zenon

\* A flit that is put into the FIFO is put at the end of the line.
LEMMA LineGrows ==
  ASSUME NEW T, NEW o \in Seq(T), NEW md \in Seq(T), NEW f \in T
  PROVE  o \o Append(md, f) = Append(o \o md, f)
<1>1. PICK N, M, a, b : N = Len(o) /\ M = Len(md) /\ a = o \o Append(md, f) /\ b = Append(o \o md, f)
  BY Zenon
<1>2. /\ N \in Nat /\ M \in Nat /\ a \in Seq(T) /\ b \in Seq(T)
      /\ Len(a) = N + M + 1 /\ Len(b) = N + M + 1
  BY <1>1
<1>3. ASSUME NEW j \in 1 .. N + M + 1
      PROVE  a[j] = b[j]
  <2>1. CASE j <= N
    BY <2>1, <1>1, <1>2
  <2>2. CASE j > N /\ j <= N + M
    BY <2>2, <1>1, <1>2
  <2>3. CASE j = N + M + 1
    BY <2>3, <1>1, <1>2
  <2> QED
    BY <2>1, <2>2, <2>3, <1>2
<1>4. a = b
  BY <1>2, <1>3
<1> QED
  BY <1>1, <1>4, ZenonT(60)

\* What is where in the line.
LEMMA LineIs ==
  ASSUME NEW T, NEW o \in Seq(T), NEW md \in Seq(T)
  PROVE  /\ o \o md \in Seq(T) /\ Len(o \o md) = Len(o) + Len(md) /\ Len(o) \in Nat /\ Len(md) \in Nat
         /\ \A j \in 1 .. Len(o) : (o \o md)[j] = o[j]
         /\ md # << >> => (o \o md)[Len(o) + 1] = Head(md) /\ Len(md) >= 1
OBVIOUS

\* A flit that is due is put at the end.
LEMMA ChainGrows ==
  ASSUME NEW s \in Seq(FlitType), NEW f \in FlitType, Chain(s), f.k <= Flits[f.n],
         (Sop(f) /\ Ended(s)) \/ (~Sop(f) /\ Awaits(s, f))
  PROVE  Chain(Append(s, f))
<1>1. PICK N, a : N = Len(s) /\ a = Append(s, f)
  BY Zenon
<1>2. N \in Nat /\ Len(a) = N + 1 /\ a[N + 1] = f /\ \A y \in 1 .. N : a[y] = s[y]
  BY <1>1, AppendIs
<1>3. s # << >> <=> N > 0
  BY <1>1
<1>4. \A j \in 1 .. N + 1 : j \in 1 .. N \/ j = N + 1
  BY <1>2
<1>5. ASSUME NEW j \in 1 .. N
      PROVE  /\ a[j].k <= Flits[a[j].n]
             /\ IF Sop(a[j]) THEN j > 1 => Eop(a[j - 1])
                ELSE j > 1 /\ a[j - 1] = [a[j] EXCEPT !.k = @ - 1]
  <2>1. a[j] = s[j] /\ (j > 1 => a[j - 1] = s[j - 1])
    <3>1. j > 1 => j - 1 \in 1 .. N
      BY <1>2
    <3> QED
      BY <3>1, <1>2, ZenonT(60)
  <2>2. /\ s[j].k <= Flits[s[j].n]
        /\ IF Sop(s[j]) THEN j > 1 => Eop(s[j - 1])
           ELSE j > 1 /\ s[j - 1] = [s[j] EXCEPT !.k = @ - 1]
    BY <1>1, Zenon DEF Chain
  <2> QED
    BY <2>1, <2>2, Zenon
<1>6. /\ a[N + 1].k <= Flits[a[N + 1].n]
      /\ IF Sop(a[N + 1]) THEN N + 1 > 1 => Eop(a[(N + 1) - 1])
         ELSE N + 1 > 1 /\ a[(N + 1) - 1] = [a[N + 1] EXCEPT !.k = @ - 1]
  <2>1. (N + 1) - 1 = N /\ (N + 1 > 1 <=> N > 0) /\ (N > 0 => N \in 1 .. N)
    BY <1>2
  <2>2. N > 0 => a[N] = s[N]
    BY <2>1, <1>2, Zenon
  <2>3. CASE Sop(f)
    BY <2>1, <2>2, <2>3, <1>1, <1>2, <1>3, ZenonT(60) DEF Ended
  <2>4. CASE ~Sop(f)
    BY <2>1, <2>2, <2>4, <1>1, <1>2, <1>3, ZenonT(60) DEF Awaits
  <2> QED
    BY <2>3, <2>4, ZenonT(60)
<1> QED
  BY <1>1, <1>2, <1>4, <1>5, <1>6, ZenonT(60) DEF Chain

\* The flit behind f on port 1 is the next of its packet, if f is not the last.
LEMMA FeedNext ==
  ASSUME RxInv, feed # << >>, NEW f, f = Head(feed), NEW s, s # << >>, s[Len(s)] = f
  PROVE  f.k <= Flits[f.n] /\ Due(s, Tail(feed), TRUE)
<1>1. FeedOK(feed, rxchan, got) /\ feed \in Seq(FlitType) /\ RestOf(feed, f)
  BY Zenon DEF RxInv, FeedOK
<1>2. f \in FlitType /\ f.n \in Pkts /\ f.k >= 1 /\ Len(feed) = Flits[f.n] - f.k + 1
  BY <1>1, Zenon DEF RestOf
<1>3. f.k \in Nat /\ f.n \in Nat /\ f.peer \in Nat /\ Flits[f.n] \in Nat
  BY <1>2, FlitsAssumption DEF FlitType
<1>4. Len(feed) \in Nat /\ Len(feed) >= 1 /\ (Tail(feed) = << >> => Len(feed) = 1)
  <2>1. Len(feed) \in Nat /\ Len(feed) >= 1 /\ Len(Tail(feed)) = Len(feed) - 1
    BY <1>1, TailIs, Zenon
  <2>2. Len(<< >>) = 0
    BY SMT
  <2>3. Tail(feed) = << >> => Len(feed) - 1 = 0
    BY <2>1, <2>2, ZenonT(60)
  <2> QED
    BY <2>1, <2>3
<1>5. f.k <= Flits[f.n]
  BY <1>2, <1>3, <1>4
<1>6. CASE Tail(feed) = << >>
  <2>1. f.k = Flits[f.n]
    BY <1>2, <1>3, <1>4, <1>6
  <2> QED
    BY <2>1, <1>5, <1>6, ZenonT(60) DEF Due, Ended, Eop
<1>7. CASE Tail(feed) # << >>
  <2>1. PICK g : g = Head(Tail(feed))
    BY Zenon
  <2>2. g = Flit(f.peer, f.n, f.k + 1)
    BY <2>1, <1>1, <1>7, FeedTail, ZenonT(60)
  <2>3. g.k # 1 /\ f = [g EXCEPT !.k = @ - 1]
    <3>1. PICK pe, n, k : pe = f.peer /\ n = f.n /\ k = f.k
      BY Zenon
    <3>2. f = [peer |-> pe, n |-> n, k |-> k]
      BY <3>1, <1>2 DEF FlitType
    <3>3. g = [peer |-> pe, n |-> n, k |-> k + 1]
      BY <3>1, <2>2, Zenon DEF Flit
    <3>4. k \in Nat /\ k >= 1
      BY <3>1, <1>2, <1>3, Zenon
    <3>5. g.k # 1 /\ [g EXCEPT !.k = @ - 1] = [peer |-> pe, n |-> n, k |-> k]
      BY <3>3, <3>4
    <3> QED
      BY <3>2, <3>5, Zenon
  <2> QED
    BY <2>1, <2>3, <1>5, <1>7, ZenonT(60) DEF Due, Awaits, Sop
<1> QED
  BY <1>6, <1>7, Zenon

\* The flits of the line.
LEMMA LineType ==
  ASSUME LinkInv
  PROVE  out \in Seq(FlitType) /\ mid \in Seq(FlitType) /\ Line \in Seq(FlitType)
<1>1. out \in Seq(FlitType) /\ mid \in Seq(MidFlit)
  BY Zenon DEF LinkInv
<1>2. MidFlit \subseteq FlitType
  BY OfIs, Zenon
<1>3. mid \in Seq(FlitType)
  BY <1>1, <1>2
<1> QED
  BY <1>1, <1>3, LineIs, Zenon DEF Line

\* UB_TPChannel_RX puts the flit it reads into the FIFO.
WholePushes(f) ==
  /\ feed # << >> /\ f = Head(feed) /\ (Sop(f) \/ in_window)
  /\ mid' = Append(mid, f) /\ feed' = Tail(feed) /\ in_window' = TRUE
  /\ rb' = rb /\ out' = out /\ saw_meta' = saw_meta /\ traffic' = traffic

\* The flit continues the line, or starts a packet after a whole one.
LEMMA WholePush ==
  ASSUME RxInv, LinkInv, WholeInv, NEW f, WholePushes(f)
  PROVE  WholeInv'
<1>1. SUFFICES ASSUME traffic.ahead = 0
               PROVE  WholeInv'
  BY Zenon DEF WholeInv, WholePushes
<1>2. /\ feed # << >> /\ f = Head(feed) /\ (Sop(f) \/ in_window)
      /\ mid' = Append(mid, f) /\ feed' = Tail(feed) /\ in_window' = TRUE
      /\ rb' = rb /\ out' = out /\ saw_meta' = saw_meta
  BY Zenon DEF WholePushes
<1>3. /\ \A c \in Chan : rb[c].slots = [j \in Places |-> EmptySlot]
      /\ Chain(Line) /\ Due(Line, feed, in_window) /\ (~saw_meta => Ended(out))
  BY <1>1, Zenon DEF WholeInv
<1>4. (Sop(f) /\ Ended(Line)) \/ (~Sop(f) /\ Awaits(Line, f))
  BY <1>2, <1>3, Zenon DEF Due
<1>5. f \in FlitType
  <2>1. f \in MidFlit
    BY <1>2, FeedFlit, Zenon
  <2> QED
    BY <2>1, OfIs, Zenon
<1>6. out \in Seq(FlitType) /\ mid \in Seq(FlitType) /\ Line \in Seq(FlitType)
  BY LineType, Zenon
<1>7. Line' = Append(Line, f)
  <2>1. out \o Append(mid, f) = Append(out \o mid, f)
    BY <1>5, <1>6, LineGrows
  <2> QED
    BY <2>1, <1>2, Zenon DEF Line
<1>8. PICK s : s = Append(Line, f)
  BY Zenon
<1>9. s # << >> /\ s[Len(s)] = f
  <2>1. Len(Line) \in Nat /\ s \in Seq(FlitType) /\ Len(s) = Len(Line) + 1 /\ s[Len(Line) + 1] = f
    BY <1>5, <1>6, <1>8, AppendIs, ZenonT(60)
  <2> QED
    BY <2>1
<1>10. f.k <= Flits[f.n] /\ Due(s, Tail(feed), TRUE)
  BY <1>2, <1>9, FeedNext, ZenonT(60)
<1>11. Chain(s)
  BY <1>3, <1>4, <1>5, <1>6, <1>8, <1>10, ChainGrows, ZenonT(60)
<1>12. Line' = s
  BY <1>7, <1>8, Zenon
<1>13. Chain(Line)' /\ Due(Line, feed, in_window)'
  BY <1>2, <1>10, <1>11, <1>12, ZenonT(60) DEF Chain, Due, Awaits, Ended
<1> QED
  BY <1>2, <1>3, <1>13, ZenonT(60) DEF WholeInv, Ended

\* A packet comes, or one is not accepted.
WholeKeeps ==
  /\ mid' = mid /\ rb' = rb /\ out' = out /\ saw_meta' = saw_meta /\ traffic' = traffic
  /\ \/ feed' = feed /\ in_window' = in_window
     \/ /\ feed = << >> \/ Sop(Head(feed)) \/ ~in_window
        /\ feed' = << >> \/ Sop(Head(feed')) \/ ~in_window'

\* The line stays, and so does what may follow it.
LEMMA WholeKeep ==
  ASSUME WholeInv, WholeKeeps
  PROVE  WholeInv'
<1>1. SUFFICES ASSUME traffic.ahead = 0
               PROVE  WholeInv'
  BY Zenon DEF WholeInv, WholeKeeps
<1>2. /\ mid' = mid /\ rb' = rb /\ out' = out /\ saw_meta' = saw_meta
      /\ \/ feed' = feed /\ in_window' = in_window
         \/ /\ feed = << >> \/ Sop(Head(feed)) \/ ~in_window
            /\ feed' = << >> \/ Sop(Head(feed')) \/ ~in_window'
  BY Zenon DEF WholeKeeps
<1>3. /\ \A c \in Chan : rb[c].slots = [j \in Places |-> EmptySlot]
      /\ Chain(Line) /\ Due(Line, feed, in_window) /\ (~saw_meta => Ended(out))
  BY <1>1, Zenon DEF WholeInv
<1>4. Line' = Line
  BY <1>2, Zenon DEF Line
<1>5. Due(Line, feed', in_window')
  <2>1. CASE feed' = feed /\ in_window' = in_window
    BY <2>1, <1>3, ZenonT(60)
  <2>2. CASE /\ feed = << >> \/ Sop(Head(feed)) \/ ~in_window
             /\ feed' = << >> \/ Sop(Head(feed')) \/ ~in_window'
    <3>1. Ended(Line)
      BY <2>2, <1>3, Zenon DEF Due
    <3> QED
      BY <3>1, <2>2, Zenon DEF Due
  <2> QED
    BY <2>1, <2>2, <1>2, ZenonT(60)
<1>6. Chain(Line)' /\ Due(Line, feed, in_window)'
  BY <1>3, <1>4, <1>5, ZenonT(60) DEF Chain, Due, Awaits, Ended
<1> QED
  BY <1>2, <1>3, <1>6, ZenonT(60) DEF WholeInv, Ended

\* UB_PSN_Reorder passes the flit it reads on.
WholePasses(f) ==
  /\ mid # << >> /\ f = Head(mid) /\ mid' = Tail(mid) /\ out' = Append(out, f)
  /\ \A c \in Chan : rb'[c].slots = [j \in Places |-> EmptySlot]
  /\ ~saw_meta' => Eop(f)
  /\ feed' = feed /\ in_window' = in_window /\ traffic' = traffic

\* The flit only moves within the line.
LEMMA WholePass ==
  ASSUME LinkInv, WholeInv, traffic.ahead = 0, NEW f, WholePasses(f)
  PROVE  WholeInv'
<1>1. /\ mid # << >> /\ f = Head(mid) /\ mid' = Tail(mid) /\ out' = Append(out, f)
      /\ \A c \in Chan : rb'[c].slots = [j \in Places |-> EmptySlot]
      /\ ~saw_meta' => Eop(f)
      /\ feed' = feed /\ in_window' = in_window
  BY Zenon DEF WholePasses
<1>2. Chain(Line) /\ Due(Line, feed, in_window)
  BY Zenon DEF WholeInv
<1>3. out \in Seq(FlitType) /\ mid \in Seq(FlitType)
  BY LineType, Zenon
<1>4. Line' = Line
  BY <1>1, <1>3, LineMoves, ZenonT(60) DEF Line
<1>5. Chain(Line)' /\ Due(Line, feed, in_window)'
  BY <1>1, <1>2, <1>4, Zenon DEF Chain, Due, Awaits, Ended
<1>6. f \in FlitType
  BY <1>1, <1>3, TailIs, ZenonT(60)
<1>7. Append(out, f)[Len(Append(out, f))] = f
  BY <1>3, <1>6
<1>8. (~saw_meta => Ended(out))'
  BY <1>1, <1>7, ZenonT(60) DEF Ended, Eop
<1> QED
  BY <1>1, <1>5, <1>8, ZenonT(60) DEF WholeInv

\* A metadata flit has a slot, and one within reach.
LEMMA MetaAt ==
  ASSUME NEW p, NEW b, NEW r, NEW md, NEW o, NEW G, NEW h, NEW f, MetaFrom(p, b, r, md, o, G, h, f)
  PROVE  OffsetIn(f, r) \in Places /\ OffsetIn(f, r) < h
<1>1. PICK off, H : off = OffsetIn(f, r) /\ H = Handled(r.slots, b)
  BY ZenonT(60)
<1>2. /\ off \in Places /\ off < h /\ b + off = f.n /\ f = Flit(p, b + off, 1)
      /\ b \in Nat /\ p \in Nat /\ f.n \in Nat
      /\ MidOK(Tail(md), p, H \cup {f.n}, G, h)
  BY <1>1, MetaFits
<1> QED
  BY <1>1, <1>2, Zenon

\* A metadata flit finds the slots empty and passes through the first one.
LEMMA MetaPasses ==
  ASSUME Setting, Fits, RxInv, LinkInv, WholeInv, traffic.ahead = 0, ReorderMeta
  PROVE  WholePasses(Head(mid))
<1>1. PICK f, p, r, G, h, e :
        /\ f = Head(mid) /\ p = f.peer /\ r = rb[Idx(p)] /\ G = got[p] /\ h = Reach
        /\ e = [j \in Places |-> EmptySlot]
  BY Zenon
<1>2. /\ mid # << >> /\ Sop(f) /\ mid' = Tail(mid) /\ feed' = feed /\ in_window' = in_window
      /\ traffic' = traffic
  BY <1>1, ZenonT(60) DEF ReorderMeta, TopFlit, wireVars, rxVars
<1>3. /\ mid \in Seq(MidFlit) /\ out \in Seq(FlitType) /\ Ordered(out) /\ rb \in [Chan -> Ring]
      /\ traffic \in Traffics /\ \A c \in Chan : rb[c].slots = e
  BY <1>1, Zenon DEF LinkInv, RxInv, WholeInv
<1>4. f \in MidFlit
  BY <1>1, <1>2, <1>3, TailIs, ZenonT(60)
<1>5. p \in Peers /\ Idx(p) \in Chan /\ f \in FlitType
  BY <1>1, <1>4, OfIs, IdxChan, ZenonT(60)
<1>6. PICK b : Link(p, b, r, mid, out, G, h)
  BY <1>1, <1>5, Zenon DEF LinkInv
<1>7. MetaFrom(p, b, r, mid, out, G, h, f)
  BY <1>1, <1>2, <1>3, <1>5, <1>6, ReachIs, ZenonT(60) DEF MetaFrom
<1>8. PICK off : off = OffsetIn(f, r)
  BY Zenon
<1>9. off \in Places /\ off < h
  BY <1>7, <1>8, MetaAt, ZenonT(60)
<1>10. h = 1 /\ Window \in Nat \ {0}
  BY <1>1, <1>3, ReachIs, Space, ZenonT(60)
<1>11. off = 0 /\ 0 \in Places /\ 0 < Window
  BY <1>9, <1>10 DEF Places
<1>12. Offset(f) = 0
  BY <1>1, <1>8, <1>11, Zenon DEF Offset, OffsetIn
<1>13. PICK x, t : x = [EmptySlot EXCEPT !.a = f] /\ t = [e EXCEPT ![0] = x]
  BY Zenon
<1>14. Parked(f) = t
  <2>1. e[0] = EmptySlot
    BY <1>1, <1>11, Zenon
  <2> QED
    BY <2>1, <1>1, <1>3, <1>5, <1>11, <1>12, <1>13, ZenonT(60) DEF Parked
<1>15. x.a = f /\ x.b = NoFlit /\ EmptySlot.a = NoFlit /\ f # NoFlit
  <2>1. f.k = 1
    BY <1>2, Zenon DEF Sop
  <2> QED
    BY <2>1, <1>13 DEF EmptySlot, NoFlit
<1>16. t[0] = x /\ \A j \in Places : j # 0 => t[j] = EmptySlot
  BY <1>1, <1>11, <1>13, ZenonT(60)
<1>17. Ready(t) = 1
  <2>1. PICK d : d = Ready(t)
    BY Zenon
  <2>2. /\ d \in 0 .. Window /\ (d < Window => t[d].a = NoFlit)
        /\ \A j \in 0 .. d - 1 : t[j].a # NoFlit
    BY <2>1, ReadyIs, Zenon
  <2>3. d # 0
    BY <2>2, <1>11, <1>15, <1>16, ZenonT(60)
  <2>4. d > 1 => 1 \in 0 .. d - 1 /\ 1 \in Places
    BY <2>2, <1>10 DEF Places
  <2>5. ~(d > 1)
    BY <2>2, <2>4, <1>15, <1>16
  <2> QED
    BY <2>1, <2>2, <2>3, <2>5, <1>10
<1>18. Drained(t, 1) = e
  <2>1. \A j \in Places : j + 1 < Window => j + 1 \in Places /\ j + 1 # 0
    BY <1>10 DEF Places
  <2>2. \A j \in Places : (IF j + 1 < Window THEN t[j + 1] ELSE EmptySlot) = EmptySlot
    BY <2>1, <1>16, Zenon
  <2> QED
    BY <2>2, <1>1, ZenonT(60) DEF Drained, Places
<1>19. LastOf(t[1 - 1]) = f
  <2>1. 1 - 1 = 0
    OBVIOUS
  <2> QED
    BY <2>1, <1>15, <1>16, Zenon DEF LastOf
<1>20. PICK nr : nr = [slots |-> e, base |-> (r.base + 1) % PsnMod]
  BY Zenon
<1>21. rb' = [rb EXCEPT ![Idx(p)] = nr] /\ out' = Append(out, f) /\ saw_meta'
  <2>1. 1 > 0
    OBVIOUS
  <2>2. /\ rb' = [rb EXCEPT ![Idx(p)] = [slots |-> Drained(t, 1), base |-> (rb[Idx(p)].base + 1) % PsnMod]]
        /\ out' = Append(out, LastOf(t[1 - 1])) /\ saw_meta'
    BY <2>1, <1>1, <1>11, <1>12, <1>14, <1>17, ZenonT(60) DEF ReorderMeta, TopFlit, Emit
  <2> QED
    BY <2>2, <1>1, <1>18, <1>19, <1>20, ZenonT(60)
<1>22. nr.slots = e
  BY <1>20, Zenon
<1>23. \A c \in Chan : rb'[c].slots = e
  BY <1>3, <1>5, <1>21, <1>22, ZenonT(60)
<1> QED
  BY <1>1, <1>2, <1>21, <1>23, ZenonT(60) DEF WholePasses

\* A later flit passes on: no metadata flit waits for one, and the flit before
\* it was not the last of its packet.
LEMMA LaterPasses ==
  ASSUME LinkInv, WholeInv, traffic.ahead = 0, ReorderPair \/ ReorderPass \/ ReorderDrop
  PROVE  WholePasses(Head(mid))
<1>1. PICK f, e : f = Head(mid) /\ e = [j \in Places |-> EmptySlot]
  BY Zenon
<1>2. \A c \in Chan : rb[c].slots = e
  BY <1>1, Zenon DEF WholeInv
<1>3. this_idx \in Chan /\ mid \in Seq(MidFlit)
  BY Zenon DEF LinkInv
<1>4. Unpaired = {}
  <2>1. EmptySlot.a = NoFlit
    BY DEF EmptySlot
  <2>2. \A j \in Places : rb[this_idx].slots[j].a = NoFlit
    BY <2>1, <1>1, <1>2, <1>3, Zenon
  <2> QED
    BY <2>2, Zenon DEF Unpaired, Places
<1>5. ~ReorderPair
  BY <1>4, Zenon DEF ReorderPair
<1>6. ~ReorderDrop
  <2>1. SUFFICES ASSUME ReorderDrop
                 PROVE  FALSE
    BY Zenon
  <2>2. mid # << >> /\ ~Sop(f) /\ ~saw_meta
    BY <2>1, <1>1, Zenon DEF ReorderDrop, TopFlit
  <2>3. Ended(out) /\ Chain(Line)
    BY <2>2, Zenon DEF WholeInv
  <2>4. out \in Seq(FlitType) /\ mid \in Seq(FlitType) /\ f \in MidFlit
    BY <2>2, <1>1, <1>3, LineType, TailIs, ZenonT(60)
  <2>5. PICK N : N = Len(out)
    BY Zenon
  <2>6. /\ N \in Nat /\ Len(Line) = N + Len(mid) /\ Len(mid) \in Nat /\ Len(mid) >= 1
        /\ \A j \in 1 .. N : Line[j] = out[j]
        /\ Line[N + 1] = f
    BY <2>2, <2>4, <2>5, <1>1, LineIs, ZenonT(60) DEF Line
  <2>7. N + 1 \in 1 .. Len(Line) /\ (N + 1) - 1 = N /\ (N + 1 > 1 => N \in 1 .. N /\ N > 0)
    BY <2>6
  <2>8. f.k <= Flits[f.n] /\ N + 1 > 1 /\ Line[(N + 1) - 1] = [f EXCEPT !.k = @ - 1]
    BY <2>2, <2>3, <2>6, <2>7, ZenonT(60) DEF Chain
  <2>9. out[N] = [f EXCEPT !.k = @ - 1] /\ out # << >>
    <3>1. Line[N] = [f EXCEPT !.k = @ - 1]
      BY <2>7, <2>8, Zenon
    <3>2. out # << >>
      BY <2>4, <2>5, <2>7, <2>8
    <3> QED
      BY <3>1, <3>2, <2>6, <2>7, <2>8, ZenonT(60)
  <2>10. Eop(out[N])
    BY <2>3, <2>5, <2>9, ZenonT(60) DEF Ended
  <2>11. PICK g : g = [f EXCEPT !.k = @ - 1]
    BY Zenon
  <2>12. g.n = f.n /\ g.k = f.k - 1 /\ f.k \in Nat /\ f.n \in Pkts
    BY <2>4, <2>11 DEF MidFlit
  <2>13. f.k - 1 = Flits[f.n]
    BY <2>9, <2>10, <2>11, <2>12, ZenonT(60) DEF Eop
  <2>14. Flits[f.n] \in Nat
    BY <2>12, FlitsAssumption, Zenon
  <2> QED
    BY <2>8, <2>12, <2>13, <2>14
<1>7. ReorderPass
  BY <1>5, <1>6, Zenon
<1>8. /\ mid # << >> /\ mid' = Tail(mid) /\ out' = Append(out, f) /\ saw_meta' = ~Eop(f) /\ rb' = rb
      /\ feed' = feed /\ in_window' = in_window /\ traffic' = traffic
  BY <1>1, <1>7, Zenon DEF ReorderPass, TopFlit, Emit, wireVars, rxVars
<1> QED
  BY <1>1, <1>2, <1>8, Zenon DEF WholePasses

\* Each step keeps the invariant.
LEMMA WholeStepOK ==
  ASSUME Setting, Fits, RxInv, LinkInv, WholeInv, [Next]_vars
  PROVE  WholeInv'
<1>1. CASE \E p \in Peers, n \in Pkts : Arrive(p, n)
  <2>1. PICK p \in Peers, n \in Pkts : Arrive(p, n)
    BY <1>1, Zenon
  <2>2. /\ feed = << >> /\ feed' = [k \in 1 .. Flits[n] |-> Flit(p, n, k)]
        /\ UNCHANGED <<mid, rb, out, saw_meta, traffic>>
    BY <2>1, Zenon DEF Arrive, reorderVars
  <2>3. Head(feed') = Flit(p, n, 1)
    BY <2>2, WholePacket, ZenonT(60)
  <2>4. Sop(Head(feed'))
    <3>1. Flit(p, n, 1).k = 1
      BY DEF Flit
    <3> QED
      BY <3>1, <2>3, ZenonT(60) DEF Sop
  <2>5. WholeKeeps
    BY <2>2, <2>4, Zenon DEF WholeKeeps
  <2> QED
    BY <2>5, WholeKeep, Zenon
<1>2. CASE UNCHANGED vars \/ \E p \in Peers, o \in OooModes : Provision(p, o)
  <2>1. WholeKeeps
    BY <1>2, ZenonT(60) DEF WholeKeeps, Provision, vars, wireVars, rxVars, reorderVars
  <2> QED
    BY <2>1, WholeKeep, Zenon
<1>3. CASE RxDuplicate \/ RxNak
  <2>1. WholeKeeps
    BY <1>3, Zenon DEF WholeKeeps, RxDuplicate, RxNak, RxMeta, ForwardIf, wireVars, reorderVars
  <2> QED
    BY <2>1, WholeKeep, Zenon
<1>4. CASE RxInOrder
  <2>1. WholePushes(Head(feed))
    BY <1>4, Zenon DEF WholePushes, RxInOrder, RxMeta, ForwardIf, wireVars, reorderVars
  <2> QED
    BY <2>1, WholePush, Zenon
<1>5. CASE RxOutOfOrder
  <2>1. traffic.ahead # 0
    <3>1. RxMeta
      BY <1>5, Zenon DEF RxOutOfOrder
    <3>2. PICK f, p, c, G, m : Reading(f, p, c, G, m)
      BY <3>1, ChannelOK, Zenon
    <3>3. f = Head(feed) /\ c = Channel(f) /\ f.n <= m + traffic.ahead /\ m \in Nat /\ f.n \in Nat
      BY <3>2, Zenon DEF Reading
    <3>4. Diff(f, c) > 0 /\ ~Behind(f, c)
      BY <3>3, <1>5, Zenon DEF RxOutOfOrder
    <3>5. Diff(f, c) \in Nat /\ f.n = m + Diff(f, c)
      BY <3>2, <3>4, DiffSays, Zenon
    <3> QED
      BY <3>3, <3>4, <3>5
  <2>2. traffic' = traffic
    BY <1>5, Zenon DEF RxOutOfOrder, wireVars
  <2> QED
    BY <2>1, <2>2, Zenon DEF WholeInv
<1>6. CASE RxBody
  <2>1. CASE in_window
    <3>1. WholePushes(Head(feed))
      BY <2>1, <1>6, ZenonT(60) DEF WholePushes, RxBody, ForwardIf, wireVars, reorderVars
    <3> QED
      BY <3>1, WholePush, Zenon
  <2>2. CASE ~in_window
    <3>1. WholeKeeps
      BY <2>2, <1>6, Zenon DEF WholeKeeps, RxBody, ForwardIf, wireVars, reorderVars
    <3> QED
      BY <3>1, WholeKeep, Zenon
  <2> QED
    BY <2>1, <2>2, ZenonT(60)
<1>7. CASE Reorder
  <2>1. CASE traffic.ahead = 0
    <3>1. WholePasses(Head(mid))
      BY <2>1, <1>7, MetaPasses, LaterPasses, ZenonT(60) DEF Reorder
    <3> QED
      BY <3>1, <2>1, WholePass, ZenonT(60)
  <2>2. CASE traffic.ahead # 0
    <3>1. traffic' = traffic
      BY <1>7, Zenon DEF Reorder, ReorderMeta, ReorderPair, ReorderPass, ReorderDrop, wireVars
    <3> QED
      BY <3>1, <2>2, ZenonT(60) DEF WholeInv
  <2> QED
    BY <2>1, <2>2, Zenon
<1> QED
  BY <1>1, <1>2, <1>3, <1>4, <1>5, <1>6, <1>7, ZenonT(60) DEF Next, TpcRx

\* Nothing left yet.
LEMMA WholeInitOK ==
  ASSUME Init
  PROVE  WholeInv
<1>1. PICK s, r : s = [j \in Places |-> EmptySlot] /\ r = [slots |-> s, base |-> 0]
  BY Zenon
<1>2. rb = [c \in Chan |-> r] /\ mid = << >> /\ out = << >> /\ feed = << >>
  BY <1>1, Zenon DEF Init, Places
<1>3. \A c \in Chan : rb[c].slots = s
  BY <1>1, <1>2, ZenonT(60)
<1>4. Line = << >> /\ 1 .. Len(<< >>) = {}
  BY <1>2 DEF Line
<1>5. Chain(Line) /\ Due(Line, feed, in_window) /\ Ended(out)
  BY <1>2, <1>4, Zenon DEF Chain, Due, Ended
<1> QED
  BY <1>1, <1>3, <1>5, ZenonT(60) DEF WholeInv

\* What left is in order, and whole if nothing overtook.
LEMMA OutFromInv ==
  ASSUME LinkInv, WholeInv
  PROVE  OutInOrder
<1>1. out \in Seq(FlitType) /\ mid \in Seq(FlitType) /\ Ordered(out)
  BY LineType, Zenon DEF LinkInv
<1>2. DOMAIN out = 1 .. Len(out)
  BY <1>1
<1>3. \A i, j \in DOMAIN out :
        i < j /\ Sop(out[i]) /\ Sop(out[j]) /\ out[i].peer = out[j].peer => out[i].n < out[j].n
  BY <1>1, <1>2, Zenon DEF Ordered
<1>4. ASSUME traffic.ahead = 0
      PROVE  Whole
  <2>1. Chain(Line)
    BY <1>4, Zenon DEF WholeInv
  <2>2. /\ Len(Line) = Len(out) + Len(mid) /\ Len(out) \in Nat /\ Len(mid) \in Nat
        /\ \A j \in 1 .. Len(out) : Line[j] = out[j]
    BY <1>1, LineIs, Zenon DEF Line
  <2>3. ASSUME NEW j \in 1 .. Len(out)
        PROVE  IF Sop(out[j]) THEN j > 1 => Eop(out[j - 1])
               ELSE j > 1 /\ out[j - 1] = [out[j] EXCEPT !.k = @ - 1]
    <3>1. j \in 1 .. Len(Line) /\ (j > 1 => j - 1 \in 1 .. Len(out))
      BY <2>2
    <3>2. Line[j] = out[j] /\ (j > 1 => Line[j - 1] = out[j - 1])
      BY <3>1, <2>2, ZenonT(60)
    <3>3. IF Sop(Line[j]) THEN j > 1 => Eop(Line[j - 1])
          ELSE j > 1 /\ Line[j - 1] = [Line[j] EXCEPT !.k = @ - 1]
      BY <3>1, <2>1, ZenonT(60) DEF Chain
    <3> QED
      BY <3>2, <3>3, ZenonT(60)
  <2> QED
    BY <2>3, <1>2, Zenon DEF Whole
<1> QED
  BY <1>3, <1>4, Zenon DEF OutInOrder

\* UB_PSN_Reorder emits the packets of a peer in the order of their PSN, each
\* once, across losses, repetitions, reorderings and wraps of the PSN; and if
\* none overtook another they leave flit by flit as they came.
THEOREM OrderedOutput ==
  ASSUME Setting, Fits
  PROVE  Spec => []OutInOrder
<1>1. Init => RxInv /\ LinkInv /\ WholeInv
  BY RxInitOK, LinkInitOK, WholeInitOK, ZenonT(60)
<1>2. RxInv /\ LinkInv /\ WholeInv /\ [Next]_vars => RxInv' /\ LinkInv' /\ WholeInv'
  BY RxStepOK, LinkStepOK, WholeStepOK, ZenonT(60)
<1>3. LinkInv /\ WholeInv => OutInOrder
  BY OutFromInv, Zenon
<1> QED
  BY <1>1, <1>2, <1>3, PTL DEF Spec
=============================================================================
