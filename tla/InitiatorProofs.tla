--------------------------- MODULE InitiatorProofs ---------------------------
(***************************************************************************)
(* Three parts of the sending side that do not meet, each on its own: the  *)
(* timer of UB_RTO_Timer, the ring of UB_Completion_Reorder, and the       *)
(* transmit side of the wire backend.                                      *)
(*                                                                         *)
(* The timer: its safety properties, for every number of channels, every   *)
(* set of peers and every timeout.                                         *)
(*                                                                         *)
(* The ring: ordered completions are released in the order of their        *)
(* numbers, for any number of initiators, any ring length, any width of    *)
(* the TASSN and any arrival order, as long as no number is in use twice.  *)
(* The ring of an initiator is described by one number that the code does  *)
(* not keep: c, how many of its completions were released.  next_tassn is  *)
(* c modulo the width of the TASSN, head is c modulo the length of the     *)
(* ring, and a slot holds the completion between c and c + Win whose       *)
(* number is the slot modulo the length of the ring.                       *)
(*                                                                         *)
(* The wire backend: what openurma_nic_tx_drained and the release of the   *)
(* NIC tell is true, for any threads and any length of the queue.  While   *)
(* the wire is intact the counter and the frame a thread is about to count *)
(* make up the two queues, and what was accepted and that frame make up    *)
(* the wire and the two queues.                                            *)
(***************************************************************************)
EXTENDS CompletionReorder, RTOTimer, TxDrain, TLAPS

-----------------------------------------------------------------------------
(* The timer.                                                              *)

\* The masked index of UB_RTO_Timer is the index of a channel.
LEMMA IndexInRange ==
  ASSUME NEW n \in Nat
  PROVE  n % Channels \in Chan
  BY TimerAssumption DEF Chan

\* Signal 4 clamps every value to 1 .. MAX_TIMEOUT.
LEMMA ClampedInRange ==
  ASSUME NEW n \in Nat
  PROVE  Clamped(n) \in 1 .. MaxTimeout
  BY TimerAssumption DEF Clamped

\* The inductive invariant: the four invariants, and that the base is
\* a timeout the clamp lets through.
TimerInv ==
  /\ TypeOK
  /\ base_timeout \in 1 .. MaxTimeout
  /\ WaitBounded
  /\ StaticUniform
  /\ ChannelRight

\* A channel in a state the invariant allows, whatever the base.
Good(c, i) ==
  /\ c \in [valid : BOOLEAN, cna : Dests \cup {0}, ticks : Nat, timeout : Nat]
  /\ c.ticks <= MaxTimeout
  /\ base_timeout <= c.timeout /\ c.timeout <= MaxTimeout
  /\ ~dynamic_mode => c.timeout = base_timeout
  /\ c.valid => Idx(c.cna) = i

\* A visit keeps a channel good.
LEMMA VisitedGood ==
  ASSUME base_timeout \in 1 .. MaxTimeout, dynamic_mode \in BOOLEAN,
         NEW i, NEW c, Good(c, i)
  PROVE  Good(Visited(c), i)
<1> USE TimerAssumption
<1>1. CASE ~c.valid
  BY <1>1 DEF Visited
<1>2. CASE c.valid /\ ~Expires(c)
  BY <1>2 DEF Visited, Expires, Good
<1>3. CASE c.valid /\ Expires(c)
  <2>1. PICK t : t = Backoff(c.timeout)
    OBVIOUS
  <2>2. Visited(c) = [valid |-> c.valid, cna |-> c.cna, ticks |-> 0, timeout |-> t]
    BY ZenonT(60), <1>3, <2>1 DEF Visited, Good
  <2>3. /\ t \in Nat /\ t <= MaxTimeout /\ base_timeout <= t
        /\ ~dynamic_mode => t = base_timeout
    BY <2>1 DEF Backoff, Good
  <2>4. /\ c.valid \in BOOLEAN /\ c.cna \in Dests \cup {0}
        /\ c.valid => Idx(c.cna) = i
    BY DEF Good
  <2> QED
    BY <2>2, <2>3, <2>4 DEF Good
<1> QED
  BY <1>1, <1>2, <1>3

\* An acknowledgement from d leaves its channel good, and the others as they
\* are.
LEMMA AckedGood ==
  ASSUME base_timeout \in 1 .. MaxTimeout, dynamic_mode \in BOOLEAN,
         NEW d \in Dests,
         NEW c \in [Chan -> [valid : BOOLEAN, cna : Dests \cup {0}, ticks : Nat, timeout : Nat]],
         \A i \in Chan : Good(c[i], i)
  PROVE  /\ Acked(c, d) \in [Chan -> [valid : BOOLEAN, cna : Dests \cup {0}, ticks : Nat, timeout : Nat]]
         /\ \A i \in Chan : Good(Acked(c, d)[i], i)
<1> DEFINE new == [valid |-> TRUE, cna |-> d, ticks |-> 0, timeout |-> base_timeout]
<1>1. Idx(d) \in Chan
  BY IndexInRange, TimerAssumption DEF Idx
<1>2. new \in [valid : BOOLEAN, cna : Dests \cup {0}, ticks : Nat, timeout : Nat]
  OBVIOUS
<1>3. Good(new, Idx(d))
  BY TimerAssumption, <1>2 DEF Good
<1>4. Acked(c, d) = [c EXCEPT ![Idx(d)] = new]
  BY DEF Acked
<1> HIDE DEF new
<1> QED
  BY <1>1, <1>2, <1>3, <1>4

\* UB_RTO_Timer starts with every channel at BASE_TIMEOUT.
LEMMA TimerInvInit == TimerInit => TimerInv
<1> SUFFICES ASSUME TimerInit PROVE TimerInv
  OBVIOUS
<1> USE TimerAssumption DEF TimerInit
<1>1. TypeOK /\ base_timeout \in 1 .. MaxTimeout
  <2>1. [valid |-> FALSE, cna |-> 0, ticks |-> 0, timeout |-> BaseTimeout]
          \in [valid : BOOLEAN, cna : Dests \cup {0}, ticks : Nat, timeout : Nat]
    OBVIOUS
  <2>2. 0 \in Chan
    BY DEF Chan
  <2>3. base_timeout \in 1 .. MaxTimeout /\ base_timeout \in Nat
    OBVIOUS
  <2> QED
    BY ZenonT(60), <2>1, <2>2, <2>3 DEF TypeOK
<1>2. WaitBounded /\ StaticUniform
  BY DEF WaitBounded, StaticUniform
<1>3. ChannelRight
  BY DEF ChannelRight
<1> QED
  BY <1>1, <1>2, <1>3 DEF TimerInv

\* Every call of the handler and every signal keeps the invariant.
LEMMA TimerInvStep == TimerInv /\ [TimerNext]_timerVars => TimerInv'
<1> SUFFICES ASSUME TimerInv, [TimerNext]_timerVars PROVE TimerInv'
  OBVIOUS
<1> DEFINE Rec == [valid : BOOLEAN, cna : Dests \cup {0}, ticks : Nat, timeout : Nat]
<1> USE TimerAssumption
<1>1. /\ ch \in [Chan -> Rec] /\ \A i \in Chan : Good(ch[i], i)
      /\ scan_cursor \in Chan /\ base_timeout \in 1 .. MaxTimeout
      /\ dynamic_mode \in BOOLEAN /\ sent \subseteq Dests /\ waiting \subseteq sent
  BY DEF TimerInv, TypeOK, WaitBounded, StaticUniform, ChannelRight, Good
<1>2. NextCursor(scan_cursor) \in Chan
  <2>1. scan_cursor + 1 \in Nat
    BY <1>1 DEF Chan
  <2> QED
    BY <2>1, IndexInRange DEF NextCursor
\* A call whose result is good channels keeps the invariant.
<1>3. ASSUME NEW c \in [Chan -> Rec], \A i \in Chan : Good(c[i], i),
             ch' = c, UNCHANGED <<base_timeout, dynamic_mode>>,
             scan_cursor' \in Chan, sent' \subseteq Dests, waiting' \subseteq sent'
      PROVE  TimerInv'
  BY <1>1, <1>3 DEF TimerInv, TypeOK, WaitBounded, StaticUniform, ChannelRight, Good
\* A visit to the channel under the cursor keeps the channels good.
<1>4. ASSUME NEW c \in [Chan -> Rec], \A i \in Chan : Good(c[i], i)
      PROVE  /\ [c EXCEPT ![scan_cursor] = Visited(@)] \in [Chan -> Rec]
             /\ \A i \in Chan : Good([c EXCEPT ![scan_cursor] = Visited(@)][i], i)
  <2>1. Good(Visited(c[scan_cursor]), scan_cursor)
    BY <1>1, <1>4, VisitedGood
  <2>2. Visited(c[scan_cursor]) \in Rec
    BY <2>1 DEF Good
  <2> QED
    BY <1>1, <1>4, <2>1, <2>2
<1>5. CASE Tick
  BY <1>1, <1>2, <1>3, <1>4, <1>5 DEF Tick
<1>6. ASSUME NEW d \in Dests, Ack(d) PROVE TimerInv'
  BY <1>1, <1>3, <1>6, AckedGood DEF Ack
<1>7. ASSUME NEW d \in Dests, AckTick(d) PROVE TimerInv'
  <2>1. /\ Acked(ch, d) \in [Chan -> Rec]
        /\ \A i \in Chan : Good(Acked(ch, d)[i], i)
    BY <1>1, AckedGood
  <2> QED
    BY ZenonT(60), <1>1, <1>2, <1>3, <1>4, <1>7, <2>1 DEF AckTick
<1>8. ASSUME NEW d \in Dests, Send(d) PROVE TimerInv'
  BY <1>1, <1>3, <1>8 DEF Send
<1>9. ASSUME NEW nt \in Settings, NEW mode \in BOOLEAN, SetBase(nt, mode) PROVE TimerInv'
  <2>1. Clamped(nt) \in 1 .. MaxTimeout
    BY ClampedInRange
  <2>2. PICK t \in 1 .. MaxTimeout : t = Clamped(nt)
    BY <2>1
  <2>3. \A i \in Chan : /\ ch[i] \in Rec /\ ch[i].ticks <= MaxTimeout
                        /\ ch[i].valid => Idx(ch[i].cna) = i
    BY <1>1 DEF Good
  <2>4. /\ base_timeout' = t /\ dynamic_mode' \in BOOLEAN
        /\ ch' = [i \in Chan |-> [ch[i] EXCEPT !.timeout = t]]
        /\ scan_cursor' \in Chan /\ sent' \subseteq Dests /\ waiting' \subseteq sent'
    BY <1>1, <1>9, <2>2 DEF SetBase
  <2>5. ch' \in [Chan -> Rec]
    BY <2>3, <2>4
  <2>6. \A i \in Chan : /\ ch'[i].ticks = ch[i].ticks /\ ch'[i].timeout = t
                        /\ ch'[i].valid = ch[i].valid /\ ch'[i].cna = ch[i].cna
    BY <2>3, <2>4
  <2>7. TypeOK'
    BY <2>4, <2>5 DEF TypeOK
  <2>8. WaitBounded'
    BY <2>3, <2>4, <2>6 DEF WaitBounded
  <2>9. StaticUniform'
    BY <2>4, <2>6 DEF StaticUniform
  <2>10. ChannelRight'
    BY <2>3, <2>6 DEF ChannelRight
  <2> QED
    BY <2>4, <2>7, <2>8, <2>9, <2>10 DEF TimerInv
<1>10. CASE UNCHANGED timerVars
  BY <1>1, <1>3, <1>10 DEF timerVars
<1> QED
  BY <1>5, <1>6, <1>7, <1>8, <1>9, <1>10 DEF TimerNext

\* UB_RTO_Timer keeps its invariant.
THEOREM TimerCorrect == TimerSpec => []TimerInv
  BY TimerInvInit, TimerInvStep, PTL DEF TimerSpec

\* The cursor, the counters and the timeouts of UB_RTO_Timer keep their types.
THEOREM TypeCorrect == TimerSpec => []TypeOK
<1>1. TimerInv => TypeOK
  BY DEF TimerInv
<1> QED
  BY TimerCorrect, <1>1, PTL

\* No channel of UB_RTO_Timer waits for more than MAX_TIMEOUT visits, nor for
\* less than the base timeout.
THEOREM WaitsAreBounded == TimerSpec => []WaitBounded
<1>1. TimerInv => WaitBounded
  BY DEF TimerInv
<1> QED
  BY TimerCorrect, <1>1, PTL

\* In static mode every channel of UB_RTO_Timer has the base timeout.
THEOREM StaticIsUniform == TimerSpec => []StaticUniform
<1>1. TimerInv => StaticUniform
  BY DEF TimerInv
<1> QED
  BY TimerCorrect, <1>1, PTL

\* No call of UB_RTO_Timer raises an RTO for the channel whose
\* acknowledgement it reads.
THEOREM AckWins == TimerSpec => AckBeatsTick
<1> DEFINE A == \A d \in Dests : AckTick(d) /\ Idx(d) = scan_cursor =>
                  /\ ~Expires(Acked(ch, d)[Idx(d)])
                  /\ ch'[Idx(d)].ticks = 1 /\ ch'[Idx(d)].timeout = base_timeout
<1>1. ASSUME TimerInv PROVE A
  <2> SUFFICES ASSUME NEW d \in Dests, AckTick(d), Idx(d) = scan_cursor
               PROVE  /\ ~Expires(Acked(ch, d)[Idx(d)])
                      /\ ch'[Idx(d)].ticks = 1 /\ ch'[Idx(d)].timeout = base_timeout
    OBVIOUS
  <2> USE TimerAssumption
  <2>1. scan_cursor \in Chan /\ base_timeout \in 1 .. MaxTimeout /\ ch \in [Chan -> [valid : BOOLEAN, cna : Dests \cup {0}, ticks : Nat, timeout : Nat]]
    BY <1>1 DEF TimerInv, TypeOK
  <2>2. PICK c : c = [valid |-> TRUE, cna |-> d, ticks |-> 0, timeout |-> base_timeout]
    BY ZenonT(60)
  <2>3. Acked(ch, d)[Idx(d)] = c /\ Acked(ch, d) = [ch EXCEPT ![scan_cursor] = c]
    BY <2>1, <2>2 DEF Acked
  <2>4. ~Expires(c)
    BY <2>1, <2>2 DEF Expires
  <2>5. Visited(c).ticks = 1 /\ Visited(c).timeout = base_timeout
    BY <2>1, <2>2, <2>4 DEF Visited
  <2>6. ch'[Idx(d)] = Visited(c)
    BY ZenonT(60), <2>1, <2>3 DEF AckTick
  <2> QED
    BY <2>3, <2>4, <2>5, <2>6
<1>2. TimerInv => [A]_timerVars
  BY <1>1
<1> QED
  BY <1>2, TimerCorrect, PTL DEF AckBeatsTick

\* The limit of a leaf that names no prover.
USE SMTT(60)

-----------------------------------------------------------------------------
(* The completion reorder ring: the inductive invariant.                   *)

Flit == [txn : Nat, k : Nat]

\* The metadata flit of completion t was read, nx being the next flit.
Arrived(t, nx) == t < nx.txn \/ (t = nx.txn /\ nx.k > 1)

RingTypes ==
  /\ txns \in Seq(Completion) /\ Distinct(txns)
  /\ next \in Flit /\ next.k >= 1
  /\ out \in Seq(Flit)
  /\ fa \in [Ini -> [Slots -> Nat]]
  /\ valid_a \in [Ini -> [Slots -> BOOLEAN]]
  /\ next_tassn \in [Ini -> Nat]
  /\ head \in [Ini -> Slots]
  /\ cur_idx \in Ini \cup {None}

\* Initiator i had the c completions numbered 0 .. c - 1 released.
CountOK(i, c) ==
  /\ next_tassn[i] = c % TassnMod
  /\ head[i] = c % Win
  /\ \A n \in 0 .. c - 1 : \E t \in Released : Numbered(i, n, t)
  /\ \A t \in Released : txns[t].compl /\ txns[t].ini = i => txns[t].seq < c

\* What slot s of initiator i holds: t, which has arrived and is at most a ring
\* ahead of c.
SlotOK(i, c, s, t, nx) ==
  /\ Numbered(i, txns[t].seq, t) /\ Arrived(t, nx)
  /\ c <= txns[t].seq /\ txns[t].seq < c + Win /\ s = txns[t].seq % Win

\* The slots fs, of which va are in use.
SlotsOK(i, c, fs, va, nx) ==
  \A s \in Slots : va[i][s] => SlotOK(i, c, s, fs[i][s], nx)

RingsOK(fs, va, nx) ==
  \A i \in Ini : \E c \in Nat : CountOK(i, c) /\ SlotsOK(i, c, fs, va, nx)

ReleasedOK(nx) == \A t \in Released : t \in DOMAIN txns /\ Arrived(t, nx)

Inv == RingTypes /\ RingsOK(fa, valid_a, next) /\ ReleasedOK(next) /\ ReleasedInOrder

-----------------------------------------------------------------------------
(* Remainders.                                                             *)

\* Quotient and remainder.
LEMMA DivMod ==
  ASSUME NEW a \in Int, NEW S \in Nat \ {0}
  PROVE  a % S \in 0 .. S - 1 /\ a \div S \in Int /\ a = S * (a \div S) + (a % S)
OBVIOUS

\* The remainder is the only number in range that differs by a multiple.
LEMMA ModUnique ==
  ASSUME NEW k \in Int, NEW r \in Int, NEW S \in Nat \ {0}, 0 <= r, r < S
  PROVE  (S * k + r) % S = r
OBVIOUS

\* A multiple of the divisor does not change the remainder.
LEMMA ModShift ==
  ASSUME NEW a \in Int, NEW k \in Int, NEW S \in Nat \ {0}
  PROVE  (a + S * k) % S = a % S
<1>1. PICK d, r : d = a \div S /\ r = a % S
  BY Zenon
<1>2. d \in Int /\ r \in Int /\ 0 <= r /\ r < S /\ a = S * d + r
  BY <1>1, DivMod
<1>3. a + S * k = S * (d + k) + r /\ d + k \in Int
  BY <1>2
<1>4. (S * (d + k) + r) % S = r
  BY <1>2, <1>3, ModUnique, Zenon
<1> QED
  BY <1>1, <1>3, <1>4, Zenon

\* A sum has the remainder of the sum of a remainder.
LEMMA ModAdd ==
  ASSUME NEW a \in Int, NEW b \in Int, NEW S \in Nat \ {0}
  PROVE  ((a % S) + b) % S = (a + b) % S
<1>1. PICK d, r : d = a \div S /\ r = a % S
  BY Zenon
<1>2. d \in Int /\ r \in Int /\ a = S * d + r
  BY <1>1, DivMod
<1>3. a + b = (r + b) + S * d /\ r + b \in Int
  BY <1>2
<1>4. ((r + b) + S * d) % S = (r + b) % S
  BY <1>2, <1>3, ModShift, ZenonT(60)
<1> QED
  BY <1>1, <1>3, <1>4, Zenon

\* Numbers less than S apart have different remainders.
LEMMA ModInjective ==
  ASSUME NEW a \in Int, NEW b \in Int, NEW S \in Nat \ {0}, a <= b, b < a + S, a % S = b % S
  PROVE  a = b
<1>1. PICK d, e, r : d = a \div S /\ e = b \div S /\ r = a % S
  BY Zenon
<1>2. d \in Int /\ e \in Int /\ r \in Int /\ a = S * d + r /\ b = S * e + r
  BY <1>1, DivMod
<1>3. PICK k : k = e - d
  BY Zenon
<1>4. k \in Int /\ b - a = S * k
  BY <1>2, <1>3
<1>5. k = 0
  BY <1>4
<1> QED
  BY <1>4, <1>5

\* The difference of two TASSNs is the difference of the numbers, if that is
\* less than the width of the TASSN.
LEMMA ModDifference ==
  ASSUME NEW c \in Nat, NEW n \in Nat, NEW S \in Nat \ {0}, c <= n, n < c + S
  PROVE  ((n % S) - (c % S)) % S = n - c
<1>1. PICK d, e, r, p : d = c \div S /\ e = n \div S /\ r = c % S /\ p = n % S
  BY Zenon
<1>2. d \in Int /\ e \in Int /\ r \in Int /\ p \in Int /\ c = S * d + r /\ n = S * e + p
  BY <1>1, DivMod
<1>3. PICK k : k = d - e
  BY Zenon
<1>4. k \in Int /\ p - r = S * k + (n - c) /\ n - c \in Int /\ 0 <= n - c /\ n - c < S
  BY <1>2, <1>3
<1>5. (S * k + (n - c)) % S = n - c
  BY <1>4, ModUnique
<1>6. (p - r) % S = n - c
  BY <1>4, <1>5, Zenon
<1> QED
  BY <1>1, <1>6, Zenon

-----------------------------------------------------------------------------
(* Emitting a flit.                                                        *)

\* What is released once f was emitted.
LEMMA OutAppend ==
  ASSUME out \in Seq(Flit), NEW f \in Flit, out' = Append(out, f)
  PROVE  /\ out' \in Seq(Flit) /\ Len(out) \in Nat /\ Len(out') = Len(out) + 1
         /\ out'[Len(out) + 1] = f
         /\ \A j \in 1 .. Len(out) : out'[j] = out[j]
         /\ \A n \in 0 .. Len(out) : ReleasedBy(n)' = ReleasedBy(n)
         /\ \A t : t \in Released' <=> t \in Released \/ (f.k = 1 /\ t = f.txn)
<1>1. /\ out' \in Seq(Flit) /\ Len(out) \in Nat /\ Len(out') = Len(out) + 1
      /\ out'[Len(out) + 1] = f
      /\ \A j \in 1 .. Len(out) : out'[j] = out[j]
  OBVIOUS
<1>2. ASSUME NEW n \in 0 .. Len(out) PROVE ReleasedBy(n)' = ReleasedBy(n)
  <2>1. \A j \in 1 .. n : out'[j] = out[j]
    BY <1>1
  <2> QED
    BY <2>1 DEF ReleasedBy
<1>3. ASSUME NEW t PROVE t \in Released' <=> t \in Released \/ (f.k = 1 /\ t = f.txn)
  <2>1. PICK n : n = Len(out)
    BY Zenon
  <2>2. /\ n \in Nat /\ Len(out') = n + 1 /\ out'[n + 1] = f
        /\ \A j \in 1 .. n : out'[j] = out[j]
        /\ \A j \in 1 .. n + 1 : j \in 1 .. n \/ j = n + 1
        /\ \A j \in 1 .. n : j \in 1 .. n + 1
        /\ n + 1 \in 1 .. n + 1
    BY <2>1, <1>1
  <2>3. t \in Released' <=> \E j \in 1 .. n + 1 : out'[j].k = 1 /\ t = out'[j].txn
    BY <2>2, Zenon DEF Released, ReleasedBy
  <2>4. t \in Released <=> \E j \in 1 .. n : out[j].k = 1 /\ t = out[j].txn
    BY <2>1, Zenon DEF Released, ReleasedBy
  <2> QED
    BY <2>2, <2>3, <2>4, ZenonT(60)
<1> QED
  BY <1>1, <1>2, <1>3, Zenon

\* The order is kept if f is not the metadata flit of an ordered completion, or
\* its turn has come.
LEMMA OrderKept ==
  ASSUME ReleasedInOrder, out \in Seq(Flit), NEW f \in Flit, out' = Append(out, f),
         txns' = txns,
         f.k = 1 /\ txns[f.txn].compl => Prior(f.txn) \subseteq Released /\ f.txn \notin Released
  PROVE  ReleasedInOrder'
<1>1. PICK n : n = Len(out)
  BY Zenon
<1>2. /\ n \in Nat /\ out' \in Seq(Flit) /\ Len(out') = n + 1 /\ out'[n + 1] = f
      /\ \A j \in 1 .. n : out'[j] = out[j]
      /\ \A m \in 0 .. n : ReleasedBy(m)' = ReleasedBy(m)
  BY <1>1, OutAppend, Zenon
<1>3. /\ DOMAIN out = 1 .. n /\ DOMAIN out' = 1 .. n + 1
  BY <1>1, <1>2
<1> SUFFICES ASSUME NEW j \in 1 .. n + 1, out'[j].k = 1, txns[out'[j].txn].compl
             PROVE  /\ Prior(out'[j].txn) \subseteq ReleasedBy(j - 1)'
                    /\ out'[j].txn \notin ReleasedBy(j - 1)'
  BY <1>3, Zenon DEF ReleasedInOrder, Prior
<1>4. CASE j = n + 1
  <2>1. j - 1 = n /\ n \in 0 .. n
    BY <1>2, <1>4
  <2>2. ReleasedBy(j - 1)' = Released
    BY <2>1, <1>1, <1>2, Zenon DEF Released
  <2> QED
    BY <2>2, <1>2, <1>4, Zenon
<1>5. CASE j # n + 1
  <2>1. j \in 1 .. n /\ j - 1 \in 0 .. n
    BY <1>2, <1>5
  <2>2. ReleasedBy(j - 1)' = ReleasedBy(j - 1) /\ out'[j] = out[j]
    BY <2>1, <1>2, Zenon
  <2> QED
    BY <2>1, <2>2, <1>3, ZenonT(60) DEF ReleasedInOrder
<1> QED
  BY <1>4, <1>5, Zenon

-----------------------------------------------------------------------------
(* The end of a call.                                                      *)

\* A call whose input was stored, in slots fs and va, drains initiator i.
Draining(i, fs, va, vb) ==
  /\ RingTypes /\ ReleasedInOrder /\ i \in Ini
  /\ fs \in [Ini -> [Slots -> Nat]] /\ va \in [Ini -> [Slots -> BOOLEAN]]
  /\ RingsOK(fs, va, next') /\ ReleasedOK(next')
  /\ next' \in Flit /\ next'.k >= 1
  /\ txns' = txns /\ cur_idx' \in Ini \cup {None}
  /\ Drain(i, fs, va, vb)

\* The completion in the slot at the head is the one that is released next.
LEMMA AtHead ==
  ASSUME NEW i, NEW fs, NEW va, NEW vb, Draining(i, fs, va, vb), va[i][head[i]],
         NEW c \in Nat, CountOK(i, c), SlotsOK(i, c, fs, va, next'), NEW t, t = fs[i][head[i]]
  PROVE  /\ SlotOK(i, c, c % Win, t, next')
         /\ Numbered(i, c, t)
         /\ Prior(t) \subseteq Released
         /\ t \notin Released
<1>1. RingTypes /\ i \in Ini
  BY Zenon DEF Draining
<1>2. head[i] = c % Win /\ head[i] \in Slots
  BY <1>1, Zenon DEF CountOK, RingTypes
<1>3. SlotOK(i, c, c % Win, t, next')
  BY <1>2, Zenon DEF SlotsOK
<1>4. /\ t \in DOMAIN txns /\ txns[t].compl /\ txns[t].ini = i
      /\ c <= txns[t].seq /\ txns[t].seq < c + Win /\ c % Win = txns[t].seq % Win
  BY <1>3, Zenon DEF SlotOK, Numbered
<1>5. txns[t] \in Completion
  BY <1>1, <1>4 DEF RingTypes
<1>6. txns[t].seq \in Nat
  BY <1>5 DEF Completion
<1>7. txns[t].seq = c
  <2>1. c \in Int /\ txns[t].seq \in Int
    BY <1>6
  <2> QED
    BY <2>1, <1>4, ModInjective, ConstantsAssumption, ZenonT(60)
<1>8. t \notin Released
  <2>1. ~(txns[t].seq < c)
    BY <1>6, <1>7
  <2> QED
    BY <2>1, <1>4, Zenon DEF CountOK
<1>9. Prior(t) \subseteq Released
  <2> SUFFICES ASSUME NEW u \in DOMAIN txns, txns[u].ini = i, txns[u].seq < c
               PROVE  u \in Released
    BY <1>4, <1>7 DEF Prior
  <2>1. txns[u] \in Completion
    BY <1>1 DEF RingTypes
  <2>2. txns[u].seq \in 0 .. c - 1
    BY <2>1 DEF Completion
  <2>3. PICK v \in Released : Numbered(i, txns[u].seq, v)
    BY <2>2, Zenon DEF CountOK
  <2>4. v = u
    BY <2>3, <1>1, Zenon DEF Numbered, RingTypes, Distinct
  <2> QED
    BY <2>3, <2>4, Zenon
<1> QED
  BY <1>3, <1>4, <1>7, <1>8, <1>9, Zenon DEF Numbered

\* A completion is released.
LEMMA ReleaseOK ==
  ASSUME NEW i, NEW fs, NEW va, NEW vb, Draining(i, fs, va, vb), va[i][head[i]]
  PROVE  Inv'
<1>1. /\ RingTypes /\ ReleasedInOrder /\ i \in Ini
      /\ fs \in [Ini -> [Slots -> Nat]] /\ va \in [Ini -> [Slots -> BOOLEAN]]
      /\ RingsOK(fs, va, next') /\ ReleasedOK(next')
      /\ next' \in Flit /\ next'.k >= 1
      /\ txns' = txns /\ cur_idx' \in Ini \cup {None}
  BY Zenon DEF Draining
<1>2. PICK c \in Nat : CountOK(i, c) /\ SlotsOK(i, c, fs, va, next')
  BY <1>1, Zenon DEF RingsOK
<1>3. PICK t, f : t = fs[i][head[i]] /\ f = [txn |-> t, k |-> 1]
  BY Zenon
<1>4. /\ SlotOK(i, c, c % Win, t, next') /\ Numbered(i, c, t)
      /\ Prior(t) \subseteq Released /\ t \notin Released
  BY <1>2, <1>3, AtHead, Zenon
<1>5. PICK h : h = head[i]
  BY Zenon
<1>6. h \in Slots /\ h = c % Win /\ next_tassn[i] = c % TassnMod
  BY <1>1, <1>2, <1>5, Zenon DEF RingTypes, CountOK
<1>7. /\ fa' = fs
      /\ out' = Append(out, f)
      /\ valid_a' = [va EXCEPT ![i][h] = FALSE]
      /\ head' = [head EXCEPT ![i] = (h + 1) % Win]
      /\ next_tassn' = [next_tassn EXCEPT ![i] = ((c % TassnMod) + 1) % TassnMod]
  <2>1. /\ fa' = fs
        /\ out' = Append(out, [txn |-> fs[i][head[i]], k |-> 1])
        /\ valid_a' = [va EXCEPT ![i][head[i]] = FALSE]
        /\ head' = [head EXCEPT ![i] = (head[i] + 1) % Win]
        /\ next_tassn' = [next_tassn EXCEPT ![i] = (next_tassn[i] + 1) % TassnMod]
    BY Zenon DEF Draining, Drain
  <2> QED
    BY <2>1, <1>3, <1>5, <1>6, Zenon
<1>8. f \in Flit /\ f.txn = t /\ f.k = 1
  <2>1. t \in Nat
    BY <1>1, <1>3, <1>5, <1>6
  <2> QED
    BY <2>1, <1>3 DEF Flit
<1>9. ((c % Win) + 1) % Win = (c + 1) % Win /\ ((c % TassnMod) + 1) % TassnMod = (c + 1) % TassnMod
  <2>1. c \in Int /\ 1 \in Int /\ Win \in Nat \ {0} /\ TassnMod \in Nat \ {0}
    BY ConstantsAssumption
  <2> QED
    BY <2>1, ModAdd, ZenonT(60)
<1>10. (c + 1) % Win \in Slots /\ (c + 1) % TassnMod \in Nat /\ c + 1 \in Nat
  BY DivMod, ConstantsAssumption DEF Slots
<1>11. /\ head' \in [Ini -> Slots] /\ head'[i] = (c + 1) % Win
       /\ next_tassn' \in [Ini -> Nat] /\ next_tassn'[i] = (c + 1) % TassnMod
       /\ \A j \in Ini : j # i => head'[j] = head[j] /\ next_tassn'[j] = next_tassn[j]
  <2>1. head \in [Ini -> Slots] /\ next_tassn \in [Ini -> Nat]
    BY <1>1, Zenon DEF RingTypes
  <2> QED
    BY <2>1, <1>1, <1>6, <1>7, <1>9, <1>10, ZenonT(60)
<1>12. /\ valid_a' \in [Ini -> [Slots -> BOOLEAN]]
       /\ \A s \in Slots : valid_a'[i][s] => s # h /\ va[i][s]
       /\ \A j \in Ini : j # i => valid_a'[j] = va[j]
  BY <1>1, <1>6, <1>7
<1>13. out' \in Seq(Flit) /\ \A u : u \in Released' <=> u \in Released \/ u = t
  <2>1. out \in Seq(Flit)
    BY <1>1, Zenon DEF RingTypes
  <2> QED
    BY <2>1, <1>7, <1>8, OutAppend, ZenonT(60)
<1>14. RingTypes'
  BY <1>1, <1>7, <1>11, <1>12, <1>13, Zenon DEF RingTypes
<1>15. ReleasedInOrder'
  <2>1. out \in Seq(Flit)
    BY <1>1, Zenon DEF RingTypes
  <2> QED
    BY <2>1, <1>1, <1>4, <1>7, <1>8, OrderKept, Zenon
<1>16. ReleasedOK(next)'
  BY <1>1, <1>4, <1>13, Zenon DEF ReleasedOK, Numbered, SlotOK, Arrived
<1>17. CountOK(i, c + 1)'
  <2>1. ASSUME NEW n \in 0 .. (c + 1) - 1 PROVE \E u \in Released' : Numbered(i, n, u)'
    <3>1. CASE n = c
      BY <3>1, <1>1, <1>4, <1>13, Zenon DEF Numbered
    <3>2. CASE n # c
      <4>1. n \in 0 .. c - 1
        BY <3>2
      <4> QED
        BY <4>1, <1>1, <1>2, <1>13, Zenon DEF CountOK, Numbered
    <3> QED
      BY <3>1, <3>2, Zenon
  <2>2. ASSUME NEW u \in Released', txns[u].compl, txns[u].ini = i PROVE txns[u].seq < c + 1
    <3>1. CASE u = t
      <4>1. txns[u].seq = c
        BY <3>1, <1>4, Zenon DEF Numbered
      <4> QED
        BY <4>1
    <3>2. CASE u # t
      <4>1. u \in Released
        BY <3>2, <1>13, Zenon
      <4>2. txns[u].seq < c
        BY <4>1, <2>2, <1>2, Zenon DEF CountOK
      <4>3. txns[u] \in Completion
        BY <4>1, <1>1 DEF ReleasedOK, RingTypes
      <4> QED
        BY <4>2, <4>3 DEF Completion
    <3> QED
      BY <3>1, <3>2, Zenon
  <2> QED
    BY <2>1, <2>2, <1>1, <1>11, Zenon DEF CountOK
<1>18. SlotsOK(i, c + 1, fa, valid_a, next)'
  <2> SUFFICES ASSUME NEW s \in Slots, valid_a'[i][s]
               PROVE  SlotOK(i, c + 1, s, fs[i][s], next)'
    BY <1>7, ZenonT(60) DEF SlotsOK, SlotOK, Numbered, Arrived
  <2>1. s # c % Win /\ SlotOK(i, c, s, fs[i][s], next')
    BY <1>2, <1>6, <1>12, Zenon DEF SlotsOK
  <2>2. PICK u : u = fs[i][s]
    BY Zenon
  <2>3. /\ Numbered(i, txns[u].seq, u) /\ Arrived(u, next')
        /\ c <= txns[u].seq /\ txns[u].seq < c + Win /\ s = txns[u].seq % Win
    BY <2>1, <2>2, Zenon DEF SlotOK
  <2>4. txns[u] \in Completion
    BY <2>3, <1>1 DEF Numbered, RingTypes
  <2>5. txns[u].seq \in Nat /\ txns[u].seq # c
    BY <2>1, <2>3, <2>4 DEF Completion
  <2>6. c + 1 <= txns[u].seq /\ txns[u].seq < (c + 1) + Win
    BY <2>3, <2>5, ConstantsAssumption
  <2> QED
    BY <2>2, <2>3, <2>6, <1>1, Zenon DEF SlotOK, Numbered, Arrived
<1>19. ASSUME NEW j \in Ini, j # i, NEW d \in Nat, CountOK(j, d), SlotsOK(j, d, fs, va, next')
       PROVE  CountOK(j, d)' /\ SlotsOK(j, d, fa, valid_a, next)'
  <2>1. \A u \in Released' : txns[u].compl /\ txns[u].ini = j => txns[u].seq < d
    BY <1>4, <1>13, <1>19, Zenon DEF CountOK, Numbered
  <2>2. \A n \in 0 .. d - 1 : \E u \in Released' : Numbered(j, n, u)
    BY <1>13, <1>19, Zenon DEF CountOK
  <2>3. CountOK(j, d)'
    BY <2>1, <2>2, <1>1, <1>11, <1>19, ZenonT(60) DEF CountOK, Numbered
  <2>4. \A s \in Slots : valid_a'[j][s] => SlotOK(j, d, s, fs[j][s], next')
    BY <1>12, <1>19, Zenon DEF SlotsOK
  <2>5. SlotsOK(j, d, fa, valid_a, next)'
    BY <2>4, <1>1, <1>7, Zenon DEF SlotsOK, SlotOK, Numbered, Arrived
  <2> QED
    BY <2>3, <2>5, Zenon
<1>20. RingsOK(fa, valid_a, next)'
  <2> SUFFICES ASSUME NEW j \in Ini
               PROVE  \E d \in Nat : CountOK(j, d)' /\ SlotsOK(j, d, fa, valid_a, next)'
    BY Zenon DEF RingsOK
  <2>1. CASE j = i
    BY <2>1, <1>10, <1>17, <1>18, Zenon
  <2>2. CASE j # i
    BY <2>2, <1>1, <1>19, Zenon DEF RingsOK
  <2> QED
    BY <2>1, <2>2, Zenon
<1> QED
  BY <1>14, <1>15, <1>16, <1>20, Zenon DEF Inv

\* Nothing is released.
LEMMA NoReleaseOK ==
  ASSUME NEW i, NEW fs, NEW va, NEW vb, Draining(i, fs, va, vb), ~va[i][head[i]]
  PROVE  Inv'
<1>1. /\ RingTypes /\ ReleasedInOrder /\ i \in Ini
      /\ fs \in [Ini -> [Slots -> Nat]] /\ va \in [Ini -> [Slots -> BOOLEAN]]
      /\ RingsOK(fs, va, next') /\ ReleasedOK(next')
      /\ next' \in Flit /\ next'.k >= 1
      /\ txns' = txns /\ cur_idx' \in Ini \cup {None}
  BY Zenon DEF Draining
<1>2. fa' = fs /\ valid_a' = va /\ out' = out /\ head' = head /\ next_tassn' = next_tassn
  BY Zenon DEF Draining, Drain
<1>3. RingTypes'
  BY <1>1, <1>2, Zenon DEF RingTypes
<1>4. ReleasedInOrder'
  <2>1. \A t : Prior(t)' = Prior(t)
    BY <1>1 DEF Prior
  <2>2. \A n : ReleasedBy(n)' = ReleasedBy(n)
    BY <1>2 DEF ReleasedBy
  <2> QED
    BY <2>1, <2>2, <1>1, <1>2, ZenonT(60) DEF ReleasedInOrder
<1>5. ReleasedOK(next)' /\ Released' = Released
  BY <1>1, <1>2, Zenon DEF ReleasedOK, Released, ReleasedBy, Arrived
<1>6. RingsOK(fa, valid_a, next)'
  <2> SUFFICES ASSUME NEW j \in Ini, NEW c \in Nat, CountOK(j, c), SlotsOK(j, c, fs, va, next')
               PROVE  CountOK(j, c)' /\ SlotsOK(j, c, fa, valid_a, next)'
    BY <1>1, Zenon DEF RingsOK
  <2>1. CountOK(j, c)'
    BY <1>1, <1>2, <1>5, Zenon DEF CountOK, Numbered
  <2>2. SlotsOK(j, c, fa, valid_a, next)'
    BY <1>1, <1>2, Zenon DEF SlotsOK, SlotOK, Numbered, Arrived
  <2> QED
    BY <2>1, <2>2, Zenon
<1> QED
  BY <1>3, <1>4, <1>5, <1>6, Zenon DEF Inv

\* The end of a call, whatever it releases.
LEMMA DrainOK ==
  ASSUME NEW i, NEW fs, NEW va, NEW vb, Draining(i, fs, va, vb)
  PROVE  Inv'
BY ReleaseOK, NoReleaseOK, Zenon

-----------------------------------------------------------------------------
(* Reading a flit.                                                         *)

\* What has arrived stays so; the completion that is read arrives.
LEMMA ReadOK ==
  ASSUME RingTypes, HasInput, ReadFlit
  PROVE  /\ next' \in Flit /\ next'.k >= 1
         /\ next.txn \in DOMAIN txns /\ txns[next.txn] \in Completion
         /\ \A t \in DOMAIN txns : Arrived(t, next) => Arrived(t, next')
         /\ Arrived(next.txn, next')
         /\ next.k = 1 => ~Arrived(next.txn, next)
<1>1. /\ next \in Flit /\ next.k >= 1 /\ next.txn \in DOMAIN txns
      /\ txns \in Seq(Completion)
  BY DEF RingTypes, HasInput
<1>2. next.txn \in Nat /\ next.k \in Nat /\ next = [txn |-> next.txn, k |-> next.k]
  BY <1>1 DEF Flit
<1>3. PICK t, k : t = next.txn /\ k = next.k
  BY Zenon
<1>4. \A u \in DOMAIN txns : u \in Nat
  BY <1>1
<1>5. CASE Eop(next)
  <2>1. next' = [txn |-> t + 1, k |-> 1]
    BY <1>3, <1>5, Zenon DEF ReadFlit
  <2>2. next' \in Flit /\ next'.txn = t + 1 /\ next'.k = 1
    BY <2>1, <1>2, <1>3 DEF Flit
  <2> QED
    BY <2>2, <1>1, <1>2, <1>3, <1>4 DEF Arrived
<1>6. CASE ~Eop(next)
  <2>1. next' = [txn |-> t, k |-> k + 1]
    BY <1>2, <1>3, <1>6 DEF ReadFlit
  <2>2. next' \in Flit /\ next'.txn = t /\ next'.k = k + 1
    BY <2>1, <1>2, <1>3 DEF Flit
  <2> QED
    BY <2>2, <1>1, <1>2, <1>3, <1>4 DEF Arrived
<1> QED
  BY <1>5, <1>6, Zenon

\* So the rings and what was released stay right.
LEMMA ReadKeeps ==
  ASSUME Inv, HasInput, ReadFlit
  PROVE  RingsOK(fa, valid_a, next') /\ ReleasedOK(next')
<1>1. \A t \in DOMAIN txns : Arrived(t, next) => Arrived(t, next')
  BY ReadOK, Zenon DEF Inv
<1>2. ReleasedOK(next')
  BY <1>1, Zenon DEF Inv, ReleasedOK
<1>3. ASSUME NEW i \in Ini, NEW c \in Nat, SlotsOK(i, c, fa, valid_a, next)
      PROVE  SlotsOK(i, c, fa, valid_a, next')
  BY <1>1, <1>3, Zenon DEF SlotsOK, SlotOK, Numbered
<1> QED
  BY <1>2, <1>3, Zenon DEF Inv, RingsOK

\* A flit goes out at once, and is not the metadata flit of an ordered completion.
LEMMA PassOK ==
  ASSUME Inv, HasInput, ReadFlit, out' = Append(out, next), next.k = 1 => ~txns[next.txn].compl,
         txns' = txns, fa' = fa, valid_a' = valid_a, next_tassn' = next_tassn, head' = head,
         cur_idx' \in Ini \cup {None}
  PROVE  Inv'
<1>1. /\ RingTypes /\ ReleasedInOrder /\ RingsOK(fa, valid_a, next') /\ ReleasedOK(next')
  BY ReadKeeps, Zenon DEF Inv
<1>2. /\ next' \in Flit /\ next'.k >= 1 /\ next.txn \in DOMAIN txns
      /\ Arrived(next.txn, next')
  BY <1>1, ReadOK, Zenon
<1>3. next \in Flit /\ out \in Seq(Flit)
  BY <1>1, Zenon DEF RingTypes
<1>4. /\ out' \in Seq(Flit)
      /\ \A t : t \in Released' <=> t \in Released \/ (next.k = 1 /\ t = next.txn)
  BY <1>3, OutAppend, Zenon
<1>5. RingTypes'
  BY <1>1, <1>2, <1>4, Zenon DEF RingTypes
<1>6. ReleasedInOrder'
  BY <1>1, <1>3, OrderKept, Zenon
<1>7. ReleasedOK(next)'
  BY <1>1, <1>2, <1>4, Zenon DEF ReleasedOK, Arrived
<1>8. RingsOK(fa, valid_a, next)'
  <2> SUFFICES ASSUME NEW j \in Ini, NEW c \in Nat, CountOK(j, c), SlotsOK(j, c, fa, valid_a, next')
               PROVE  CountOK(j, c)' /\ SlotsOK(j, c, fa, valid_a, next)'
    BY <1>1, Zenon DEF RingsOK
  <2>1. \A u \in Released' : txns[u].compl => u \in Released
    BY <1>4, Zenon
  <2>2. \A u \in Released : u \in Released'
    BY <1>4, Zenon
  <2>3. CountOK(j, c)'
    BY <2>1, <2>2, Zenon DEF CountOK, Numbered
  <2>4. SlotsOK(j, c, fa, valid_a, next)'
    BY Zenon DEF SlotsOK, SlotOK, Numbered, Arrived
  <2> QED
    BY <2>3, <2>4, Zenon
<1> QED
  BY <1>5, <1>6, <1>7, <1>8, Zenon DEF Inv

-----------------------------------------------------------------------------
(* An ordered completion.                                                  *)

\* Its TASSN tells how far it is ahead.
LEMMA OffsetIs ==
  ASSUME Inv, Fresh, HasInput, ReadFlit, next.k = 1, txns[next.txn].compl,
         NEW i \in Ini, i = txns[next.txn].ini, NEW c \in Nat, CountOK(i, c)
  PROVE  /\ txns[next.txn].seq \in Nat
         /\ c <= txns[next.txn].seq
         /\ Offset(next.txn) = txns[next.txn].seq - c
         /\ SlotOf(next.txn) = txns[next.txn].seq % Win
         /\ txns[next.txn].seq % Win \in Slots
<1>1. PICK t, n : t = next.txn /\ n = txns[next.txn].seq
  BY Zenon
<1>2. /\ RingTypes /\ ReleasedOK(next)
      /\ t \in DOMAIN txns /\ txns[t] \in Completion /\ ~Arrived(t, next)
  BY <1>1, ReadOK, Zenon DEF Inv
<1>3. n \in Nat /\ TassnMod \in Nat \ {0} /\ Win \in Nat \ {0}
  BY <1>1, <1>2, ConstantsAssumption DEF Completion
<1>4. c <= n
  <2> SUFFICES ASSUME ~(c <= n) PROVE FALSE
    BY Zenon
  <2>1. n \in 0 .. c - 1
    BY <1>3
  <2>2. PICK u \in Released : Numbered(i, n, u)
    BY <2>1, Zenon DEF CountOK
  <2>3. u = t
    BY <2>2, <1>1, <1>2, Zenon DEF Numbered, RingTypes, Distinct
  <2> QED
    BY <2>2, <2>3, <1>2, Zenon DEF ReleasedOK
<1>5. n < c + TassnMod
  <2> SUFFICES ASSUME ~(n < c + TassnMod) PROVE FALSE
    BY Zenon
  <2>1. n - TassnMod \in 0 .. n - TassnMod /\ ~(n - TassnMod < c)
    BY <1>3
  <2>2. PICK u \in Released : Numbered(i, n - TassnMod, u)
    BY <2>1, <1>1, Zenon DEF Fresh
  <2> QED
    BY <2>1, <2>2, Zenon DEF CountOK, Numbered
<1>6. next_tassn[i] = c % TassnMod /\ head[i] = c % Win
  BY Zenon DEF CountOK
<1>7. ((n % TassnMod) - (c % TassnMod)) % TassnMod = n - c
  BY <1>3, <1>4, <1>5, ModDifference, Zenon
<1>8. Offset(next.txn) = n - c
  BY <1>1, <1>6, <1>7, Zenon DEF Offset, Tassn
<1>9. n % Win \in Slots /\ n - c \in Int /\ c \in Int /\ c + (n - c) = n
  BY <1>3, DivMod DEF Slots
<1>10. ((c % Win) + (n - c)) % Win = (c + (n - c)) % Win
  BY <1>3, <1>9, ModAdd, Zenon
<1>11. SlotOf(next.txn) = n % Win
  BY <1>6, <1>8, <1>9, <1>10, Zenon DEF SlotOf
<1> QED
  BY <1>1, <1>3, <1>4, <1>8, <1>9, <1>11, Zenon

\* The metadata flit of an ordered completion is stored, if there is a slot.
LEMMA MetaOrderedOK ==
  ASSUME Inv, Fresh, MetaOrdered
  PROVE  Inv'
<1>1. PICK t, i : t = next.txn /\ i = txns[next.txn].ini
  BY Zenon
<1>2. HasInput /\ next.k = 1 /\ txns[t].compl /\ ReadFlit /\ cur_idx' = i /\ txns' = txns
  BY <1>1, Zenon DEF MetaOrdered
<1>3. /\ RingTypes /\ ReleasedInOrder /\ RingsOK(fa, valid_a, next') /\ ReleasedOK(next')
  BY <1>2, ReadKeeps, Zenon DEF Inv
<1>4. /\ next' \in Flit /\ next'.k >= 1 /\ t \in DOMAIN txns /\ txns[t] \in Completion
      /\ Arrived(t, next')
  BY <1>1, <1>2, <1>3, ReadOK, Zenon
<1>5. i \in Ini /\ t \in Nat
  <2>1. DOMAIN txns \subseteq Nat
    BY <1>3 DEF RingTypes
  <2> QED
    BY <2>1, <1>1, <1>4 DEF Completion
<1>6. fa \in [Ini -> [Slots -> Nat]] /\ valid_a \in [Ini -> [Slots -> BOOLEAN]]
  BY <1>3, Zenon DEF RingTypes
<1>7. CASE ~InWindow(t)
  <2>1. Drain(i, fa, valid_a, valid_b)
    BY <1>1, <1>7, Zenon DEF MetaOrdered
  <2>2. Draining(i, fa, valid_a, valid_b)
    BY <2>1, <1>2, <1>3, <1>4, <1>5, <1>6, Zenon DEF Draining
  <2> QED
    BY <2>2, DrainOK, Zenon
<1>8. CASE InWindow(t)
  <2>1. PICK c \in Nat : CountOK(i, c) /\ SlotsOK(i, c, fa, valid_a, next')
    BY <1>3, <1>5, Zenon DEF RingsOK
  <2>2. PICK n, s : n = txns[t].seq /\ s = txns[t].seq % Win
    BY Zenon
  <2>3. n \in Nat /\ c <= n /\ Offset(t) = n - c /\ SlotOf(t) = s /\ s \in Slots
    BY <2>1, <2>2, <1>1, <1>2, <1>5, OffsetIs, Zenon
  <2>4. n < c + Win
    BY <2>3, <1>8, ConstantsAssumption DEF InWindow
  <2>5. PICK fs, va : fs = [fa EXCEPT ![i][s] = t] /\ va = [valid_a EXCEPT ![i][s] = TRUE]
    BY Zenon
  <2>6. Drain(i, fs, va, valid_b)
    BY <2>3, <2>5, <1>1, <1>8, Zenon DEF MetaOrdered
  <2>7. /\ fs \in [Ini -> [Slots -> Nat]] /\ va \in [Ini -> [Slots -> BOOLEAN]]
        /\ fs[i][s] = t /\ \A r \in Slots : r # s => fs[i][r] = fa[i][r] /\ va[i][r] = valid_a[i][r]
        /\ \A j \in Ini : j # i => fs[j] = fa[j] /\ va[j] = valid_a[j]
    BY <2>3, <2>5, <1>5, <1>6
  <2>8. SlotOK(i, c, s, t, next')
    BY <2>2, <2>3, <2>4, <1>1, <1>2, <1>4, Zenon DEF SlotOK, Numbered
  <2>9. SlotsOK(i, c, fs, va, next')
    BY <2>1, <2>7, <2>8, Zenon DEF SlotsOK
  <2>10. ASSUME NEW j \in Ini PROVE \E d \in Nat : CountOK(j, d) /\ SlotsOK(j, d, fs, va, next')
    <3>1. CASE j = i
      BY <3>1, <2>1, <2>9, Zenon
    <3>2. CASE j # i
      <4>1. PICK d \in Nat : CountOK(j, d) /\ SlotsOK(j, d, fa, valid_a, next')
        BY <1>3, Zenon DEF RingsOK
      <4>2. SlotsOK(j, d, fs, va, next')
        BY <4>1, <3>2, <2>7, Zenon DEF SlotsOK
      <4> QED
        BY <4>1, <4>2, Zenon
    <3> QED
      BY <3>1, <3>2, Zenon
  <2>11. Draining(i, fs, va, valid_b)
    BY <2>6, <2>7, <2>10, <1>2, <1>3, <1>4, <1>5, Zenon DEF Draining, RingsOK
  <2> QED
    BY <2>11, DrainOK, Zenon
<1> QED
  BY <1>7, <1>8, Zenon

-----------------------------------------------------------------------------
(* The theorem.                                                            *)

\* A step of the element.
LEMMA NextOK ==
  ASSUME Inv, Fresh, [Next]_vars
  PROVE  Inv'
<1>1. CASE MetaBypass
  <2>1. None \in Ini \cup {None}
    OBVIOUS
  <2> QED
    BY <2>1, <1>1, PassOK, Zenon DEF MetaBypass, ringVars
<1>2. CASE MetaOrdered
  BY <1>2, MetaOrderedOK, Zenon
<1>3. CASE BodyBypass
  <2>1. next.k # 1 /\ cur_idx \in Ini \cup {None}
    BY <1>3 DEF BodyBypass, Inv, RingTypes, Flit
  <2> QED
    BY <2>1, <1>3, PassOK, Zenon DEF BodyBypass, ringVars
<1>4. CASE BodyOrdered
  <2>1. HasInput /\ ReadFlit /\ cur_idx # None /\ txns' = txns /\ cur_idx' = cur_idx
    BY <1>4, Zenon DEF BodyOrdered
  <2>2. PICK vb : Drain(cur_idx, fa, valid_a, vb)
    BY <1>4, Zenon DEF BodyOrdered
  <2>3. /\ RingTypes /\ ReleasedInOrder /\ RingsOK(fa, valid_a, next') /\ ReleasedOK(next')
    BY <2>1, ReadKeeps, Zenon DEF Inv
  <2>4. next' \in Flit /\ next'.k >= 1
    BY <2>1, <2>3, ReadOK, Zenon
  <2>5. Draining(cur_idx, fa, valid_a, vb)
    BY <2>1, <2>2, <2>3, <2>4, Zenon DEF Draining, RingTypes
  <2> QED
    BY <2>5, DrainOK, Zenon
<1>5. CASE UNCHANGED vars
  <2>1. UNCHANGED <<txns, next, fa, valid_a, next_tassn, head, cur_idx, out>>
    BY <1>5 DEF vars, ringVars
  <2>2. RingTypes'
    BY <2>1, Zenon DEF Inv, RingTypes
  <2>3. Released' = Released
    BY <2>1, ZenonT(60) DEF Released, ReleasedBy
  <2>4. ReleasedInOrder'
    BY <2>1 DEF Inv, ReleasedInOrder, ReleasedBy, Prior
  <2>5. ReleasedOK(next)'
    BY <2>1, <2>3, Zenon DEF Inv, ReleasedOK, Arrived
  <2>6. ASSUME NEW j \in Ini, NEW c \in Nat, CountOK(j, c), SlotsOK(j, c, fa, valid_a, next)
        PROVE  CountOK(j, c)' /\ SlotsOK(j, c, fa, valid_a, next)'
    <3>1. CountOK(j, c)'
      BY <2>1, <2>3, <2>6, Zenon DEF CountOK, Numbered
    <3>2. SlotsOK(j, c, fa, valid_a, next)'
      BY <2>1, <2>6, ZenonT(60) DEF SlotsOK, SlotOK, Numbered, Arrived
    <3> QED
      BY <3>1, <3>2, Zenon
  <2> QED
    BY <2>2, <2>4, <2>5, <2>6, Zenon DEF Inv, RingsOK
<1> QED
  BY <1>1, <1>2, <1>3, <1>4, <1>5, Zenon DEF Next

\* Initially nothing was released and every ring is empty.
LEMMA InitOK ==
  ASSUME \A o \in Orders : Distinct(o), Init
  PROVE  Inv
<1>1. 0 \in Ini /\ 0 \in Slots /\ 0 % TassnMod = 0 /\ 0 % Win = 0
  BY ConstantsAssumption DEF Ini, Slots
<1>2. RingTypes
  BY <1>1, OrdersAssumption DEF Init, RingTypes, Flit
<1>3. out = << >> /\ Released = {}
  BY DEF Init, Released, ReleasedBy
<1>4. ReleasedInOrder /\ ReleasedOK(next)
  BY <1>3 DEF ReleasedInOrder, ReleasedOK
<1>5. ASSUME NEW i \in Ini PROVE CountOK(i, 0) /\ SlotsOK(i, 0, fa, valid_a, next)
  BY <1>1, <1>3 DEF Init, CountOK, SlotsOK
<1> QED
  BY <1>2, <1>4, <1>5 DEF Inv, RingsOK

\* An ordered completion is released after every completion its initiator
\* numbered before it, and once, for any number of initiators, any ring, any
\* width of the TASSN and any arrival order in which the numbers are distinct
\* and a TASSN is not used again too early.
THEOREM OrderedRelease ==
  ASSUME \A o \in Orders : Distinct(o)
  PROVE  Spec /\ []Fresh => []ReleasedInOrder
<1>1. Init => Inv
  BY InitOK, Zenon
<1>2. Inv /\ Fresh /\ [Next]_vars => Inv'
  BY NextOK, Zenon
<1>3. Inv => ReleasedInOrder
  BY Zenon DEF Inv
<1> QED
  BY <1>1, <1>2, <1>3, PTL DEF Spec

-----------------------------------------------------------------------------
(* The transmit side of the wire backend.                                  *)

\* A frame that is in the queue and not counted yet; one that is on the wire
\* and not taken off the counter.
Uncounted == IF lk # Free /\ pc[lk] = "count" THEN 1 ELSE 0
Unsubtracted == IF bg = "sub" THEN 1 ELSE 0

\* The types, and where the threads are.
DrainTypes ==
  /\ tx_q \in 0 .. MaxTx /\ batch \in 0 .. MaxTx
  /\ wtx \in Nat /\ accepted \in Nat /\ due \in Nat
  /\ fatal \in BOOLEAN /\ since \in [Apps -> Nat]
  /\ said \in [all : Nat, failed : BOOLEAN]
  /\ pc \in [Threads -> {"idle", "call", "send", "count", "zero", "drained"}]
  /\ bg \in {"swap", "test", "sendto", "sub", "zero", "recv", "end"}
  /\ lk \in Threads \cup {Free}
DrainPlaces ==
  /\ \A t \in Threads : pc[t] \in {"count", "zero"} => lk = t
  /\ \A t \in Threads : pc[t] = "count" => tx_q > 0
  /\ \A t \in Threads : pc[t] = "zero" => fatal
  /\ bg = "zero" => fatal
  /\ bg \in {"swap", "recv", "end"} => batch = 0
  /\ bg \in {"sendto", "sub"} => batch > 0
  /\ life = "down" => bg = "end"

\* What the counter counts, and what is where, while the wire is intact.
DrainCounts ==
  ~fatal => /\ pending_tx \in Nat /\ pending_tx + Uncounted = tx_q + batch
            /\ accepted + Uncounted + Unsubtracted = wtx + tx_q + batch
            /\ due + Unsubtracted <= wtx + batch
DrainTold ==
  /\ \A t \in Apps : since[t] <= accepted
  /\ ~said.failed => said.all <= wtx
DrainInv == DrainTypes /\ DrainPlaces /\ DrainCounts /\ DrainTold

\* A small number is its own remainder.
LEMMA SmallMod ==
  ASSUME NEW a \in Nat, NEW S \in Nat, a < S
  PROVE  a % S = a
  OBVIOUS

\* A thread that calls data_send or pump, loads and stores one at a time, keeps
\* the invariant.
LEMMA SendsKeep ==
  ASSUME DrainInv, NEW t \in Threads,
         \/ Call(t) \/ SendTest(t) \/ SendPush(t) \/ SendCount(t) \/ SendRefuse(t)
         \/ PumpFull(t) \/ PumpZero(t)
  PROVE  DrainInv'
<1> USE DrainAssumption DEF DrainInv, lockVars, wireVars, bgVars, told, Goto
<1>0. Free \notin Threads /\ Apps \subseteq Threads BY DEF Threads
<1>1. CASE Call(t) \/ SendTest(t) \/ SendRefuse(t)
  <2>1. /\ pc' \in [Threads -> {"idle", "call", "send", "count", "zero", "drained"}]
        /\ \A u \in Threads : pc'[u] \in {"count", "zero"} => pc'[u] = pc[u]
        /\ pc[t] \notin {"count", "zero"} /\ \A u \in Threads : u # t => pc'[u] = pc[u]
        /\ UNCHANGED <<lk, tx_q, batch, pending_tx, fatal, bg, wtx, accepted, since, said, due, life>>
    BY <1>1 DEF Call, SendTest, SendRefuse, DrainTypes
  <2>2. DrainTypes' BY <2>1 DEF DrainTypes
  <2>3. DrainPlaces' BY <2>1 DEF DrainPlaces
  <2>4. Uncounted' = Uncounted /\ Unsubtracted' = Unsubtracted
    BY <2>1, <1>0 DEF Uncounted, Unsubtracted, DrainTypes, DrainPlaces
  <2>5. DrainCounts' BY <2>1, <2>4 DEF DrainCounts
  <2>6. DrainTold' BY <2>1 DEF DrainTold
  <2> QED BY <2>2, <2>3, <2>5, <2>6
<1>2. CASE SendPush(t)
  <2>1. /\ pc' = [pc EXCEPT ![t] = "count"] /\ lk = Free /\ lk' = t
        /\ tx_q' = tx_q + 1 /\ tx_q < MaxTx
        /\ UNCHANGED <<batch, pending_tx, fatal, bg, wtx, accepted, since, said, due, life>>
    BY <1>2 DEF SendPush
  <2>2. DrainTypes' BY <2>1 DEF DrainTypes
  <2>3. \A u \in Threads : pc[u] \notin {"count", "zero"} BY <2>1, <1>0 DEF DrainPlaces
  <2>4. DrainPlaces' BY <2>1, <2>3 DEF DrainPlaces, DrainTypes
  <2>5. Uncounted = 0 /\ Uncounted' = 1 /\ Unsubtracted' = Unsubtracted /\ Unsubtracted \in {0, 1}
    BY <2>1, <1>0 DEF Uncounted, Unsubtracted, DrainTypes
  <2>6. DrainCounts' BY <2>1, <2>5 DEF DrainCounts, DrainTypes
  <2>7. DrainTold' BY <2>1 DEF DrainTold
  <2> QED BY <2>2, <2>4, <2>6, <2>7
<1>3. CASE SendCount(t)
  <2>1. /\ pc' = [pc EXCEPT ![t] = "idle"] /\ pc[t] = "count" /\ lk' = Free
        /\ accepted' = accepted + 1 /\ pending_tx' = (pending_tx + 1) % CtrMod
        /\ UNCHANGED <<tx_q, batch, fatal, bg, wtx, since, said, due, life>>
    BY <1>3 DEF SendCount
  <2>2. DrainTypes' BY <2>1 DEF DrainTypes
  <2>3. lk = t /\ \A u \in Threads : u # t => pc[u] \notin {"count", "zero"}
    BY <2>1, <1>0 DEF DrainPlaces
  <2>4. DrainPlaces' BY <2>1, <2>3 DEF DrainPlaces, DrainTypes
  <2>5. Uncounted = 1 /\ Uncounted' = 0 /\ Unsubtracted' = Unsubtracted /\ Unsubtracted \in {0, 1}
    BY <2>1, <2>3, <1>0 DEF Uncounted, Unsubtracted
  <2>6. DrainCounts'
    <3> SUFFICES ASSUME ~fatal PROVE /\ pending_tx' \in Nat /\ pending_tx' = tx_q + batch
                                     /\ accepted' + Unsubtracted = wtx + tx_q + batch
                                     /\ due + Unsubtracted <= wtx + batch
      BY <2>1, <2>5 DEF DrainCounts, DrainTypes
    <3>1. /\ pending_tx \in Nat /\ pending_tx + 1 = tx_q + batch
          /\ accepted + 1 + Unsubtracted = wtx + tx_q + batch /\ due + Unsubtracted <= wtx + batch
      BY <2>5 DEF DrainCounts, DrainTypes
    <3>2. pending_tx + 1 \in Nat /\ pending_tx + 1 < CtrMod BY <3>1 DEF DrainTypes
    <3>3. (pending_tx + 1) % CtrMod = pending_tx + 1 BY <3>2, SmallMod
    <3> QED BY <3>1, <3>2, <3>3, <2>1, <2>5 DEF DrainTypes
  <2>7. DrainTold' BY <2>1 DEF DrainTold, DrainTypes
  <2> QED BY <2>2, <2>4, <2>6, <2>7
<1>4. CASE PumpFull(t) \/ PumpZero(t)
  <2>1. /\ pc' \in [Threads -> {"idle", "call", "send", "count", "zero", "drained"}]
        /\ \A u \in Threads : u # t => pc'[u] = pc[u]
        /\ pc'[t] \in {"idle", "zero"} /\ (pc'[t] = "zero" => lk' = t) /\ lk' \in {t, Free}
        /\ fatal' = TRUE /\ lk \in {t, Free}
        /\ UNCHANGED <<tx_q, batch, bg, wtx, accepted, since, said, due, life>>
    BY <1>4 DEF PumpFull, PumpZero, DrainTypes, DrainPlaces
  <2>2. DrainTypes' BY <2>1 DEF DrainTypes
  <2>3. \A u \in Threads : u # t => pc[u] \notin {"count", "zero"} BY <2>1, <1>0 DEF DrainPlaces
  <2>4. DrainPlaces' BY <2>1, <2>3 DEF DrainPlaces
  <2>5. DrainCounts' BY <2>1 DEF DrainCounts
  <2>6. DrainTold' BY <2>1 DEF DrainTold
  <2> QED BY <2>2, <2>4, <2>5, <2>6
<1> QED BY <1>1, <1>2, <1>3, <1>4

\* A step of bg_run keeps it.
LEMMA BgKeeps ==
  ASSUME DrainInv, BgSwap \/ BgTest \/ BgSendto \/ BgSub \/ BgFails \/ BgZero \/ BgLoop
  PROVE  DrainInv'
<1> USE DrainAssumption DEF DrainInv, lockVars, wireVars, bgVars, told
<1>0. Free \notin Threads BY DEF Threads
<1>1. /\ UNCHANGED <<lk, pc, life, accepted, since, said, due>> /\ bg # "end" /\ life # "down"
      /\ wtx' \in Nat /\ wtx <= wtx'
  BY DEF BgSwap, BgTest, BgSendto, BgSub, BgFails, BgZero, BgLoop, DrainTypes, DrainPlaces
<1>2. DrainTypes'
  <2>1. tx_q' \in 0 .. MaxTx /\ batch' \in 0 .. MaxTx
    <3>1. CASE BgSwap BY <3>1 DEF BgSwap, DrainTypes
    <3>2. CASE BgSub BY <3>2 DEF BgSub, DrainTypes, DrainPlaces
    <3> QED BY <3>1, <3>2 DEF BgTest, BgSendto, BgFails, BgZero, BgLoop, DrainTypes
  <2>2. bg' \in {"swap", "test", "sendto", "sub", "zero", "recv", "end"}
    BY ZenonT(60) DEF BgSwap, BgTest, BgSendto, BgSub, BgFails, BgZero, BgLoop
  <2>3. fatal' = fatal \/ fatal' = TRUE
    BY ZenonT(60) DEF BgSwap, BgTest, BgSendto, BgSub, BgFails, BgZero, BgLoop
  <2>4. fatal' \in BOOLEAN BY <2>3, ZenonT(60) DEF DrainTypes
  <2> QED BY <2>1, <2>2, <2>4, <1>1 DEF DrainTypes
<1>3. \A t \in Threads : pc[t] = "count" => tx_q' > 0
  BY <1>0 DEF BgSwap, BgTest, BgSendto, BgSub, BgFails, BgZero, BgLoop, DrainTypes, DrainPlaces
<1>4. DrainPlaces'
  BY <1>1, <1>3 DEF BgSwap, BgTest, BgSendto, BgSub, BgFails, BgZero, BgLoop, DrainTypes, DrainPlaces
<1>5. Uncounted' = Uncounted /\ Uncounted \in {0, 1} /\ (Uncounted = 1 => tx_q > 0)
  BY <1>1 DEF Uncounted, DrainTypes, DrainPlaces
<1>6. DrainCounts'
  <2>0. CASE fatal' = TRUE BY <2>0 DEF DrainCounts
  <2>1. CASE BgSub /\ ~fatal
    <3>1. /\ pending_tx \in Nat /\ pending_tx + Uncounted = tx_q + batch
          /\ accepted + Uncounted + 1 = wtx + tx_q + batch /\ due + 1 <= wtx + batch /\ batch > 0
      BY <2>1 DEF DrainCounts, DrainPlaces, BgSub, Unsubtracted
    <3>2. pending_tx - 1 \in Nat /\ pending_tx - 1 < CtrMod BY <3>1, <1>5 DEF DrainTypes
    <3>3. pending_tx' = pending_tx - 1 BY <3>2, <2>1, SmallMod DEF BgSub
    <3>4. Unsubtracted' = 0 /\ tx_q' = tx_q /\ batch' = batch - 1 /\ wtx' = wtx
      BY <2>1 DEF BgSub, Unsubtracted
    <3> QED BY <3>1, <3>2, <3>3, <3>4, <1>1, <1>5 DEF DrainCounts, DrainTypes
  <2>2. CASE BgSwap /\ ~fatal
    <3>1. /\ batch = 0 /\ batch' = tx_q /\ tx_q' = 0 /\ pending_tx' = pending_tx /\ wtx' = wtx
          /\ Unsubtracted = 0 /\ Unsubtracted' = 0 /\ Uncounted = 0
      BY <2>2 DEF BgSwap, DrainPlaces, Unsubtracted, Uncounted
    <3> QED BY <3>1, <2>2, <1>1, <1>5 DEF DrainCounts, DrainTypes
  <2>3. CASE (BgTest \/ BgSendto \/ BgLoop) /\ ~fatal
    <3>1. tx_q' = tx_q /\ batch' = batch /\ pending_tx' = pending_tx /\ fatal' = fatal
      BY <2>3 DEF BgTest, BgSendto, BgLoop
    <3>2. wtx' + Unsubtracted = wtx + Unsubtracted' /\ Unsubtracted \in {0, 1} /\ Unsubtracted' \in {0, 1}
      BY <2>3 DEF BgTest, BgSendto, BgLoop, Unsubtracted, DrainTypes
    <3>3. /\ pending_tx \in Nat /\ pending_tx + Uncounted = tx_q + batch
          /\ accepted + Uncounted + Unsubtracted = wtx + tx_q + batch /\ due + Unsubtracted <= wtx + batch
          /\ {tx_q, batch, wtx, accepted, due} \subseteq Nat
      BY <2>3 DEF DrainCounts, DrainTypes
    <3>4. /\ accepted + Uncounted + Unsubtracted' = wtx' + tx_q + batch
          /\ due + Unsubtracted' <= wtx' + batch
      BY <3>2, <3>3, <1>1, <1>5
    <3> QED BY <3>1, <3>3, <3>4, <1>1, <1>5 DEF DrainCounts
  <2>4. CASE fatal
    <3>1. fatal' = TRUE BY <2>4, ZenonT(60) DEF BgSwap, BgTest, BgSendto, BgSub, BgFails, BgZero, BgLoop, DrainTypes
    <3> QED BY <3>1, <2>0
  <2>5. CASE BgFails
    <3>1. fatal' = TRUE BY <2>5 DEF BgFails
    <3> QED BY <3>1, <2>0
  <2>6. CASE BgZero /\ ~fatal
    <3>1. FALSE BY <2>6 DEF BgZero, DrainPlaces
    <3> QED BY <3>1
  <2> QED BY <2>1, <2>2, <2>3, <2>4, <2>5, <2>6, ZenonT(60)
<1>7. DrainTold' BY <1>1 DEF DrainTold, DrainTypes
<1> QED BY <1>2, <1>4, <1>6, <1>7

\* The two loads of tx_drained keep it: the counter is zero on an intact wire
\* only when every frame that was accepted is on the wire.
LEMMA DrainedKeeps ==
  ASSUME DrainInv, NEW t \in Apps, DrainedFatal(t) \/ DrainedPending(t)
  PROVE  DrainInv'
<1> USE DrainAssumption DEF DrainInv, lockVars, wireVars, bgVars, told, Goto
<1>0. Free \notin Threads /\ t \in Threads BY DEF Threads
<1>1. /\ UNCHANGED <<lk, tx_q, batch, pending_tx, fatal, bg, wtx, accepted, due, life>>
      /\ pc' \in [Threads -> {"idle", "call", "send", "count", "zero", "drained"}]
      /\ pc[t] \notin {"count", "zero"} /\ pc'[t] \notin {"count", "zero"}
      /\ \A u \in Threads : u # t => pc'[u] = pc[u]
  BY <1>0 DEF DrainedFatal, DrainedPending, DrainTypes
<1>2. Uncounted' = Uncounted /\ Unsubtracted' = Unsubtracted
  BY <1>1, <1>0 DEF Uncounted, Unsubtracted, DrainTypes
<1>3. DrainPlaces' /\ DrainCounts' BY <1>1, <1>2 DEF DrainPlaces, DrainCounts
<1>4. DrainTypes' /\ DrainTold'
  <2>1. CASE DrainedFatal(t) BY <2>1, <1>1 DEF DrainedFatal, DrainTypes, DrainTold
  <2>2. CASE DrainedPending(t) /\ pending_tx # 0
    BY <2>2, <1>1 DEF DrainedPending, DrainTypes, DrainTold
  <2>3. CASE DrainedPending(t) /\ pending_tx = 0
    <3>1. said' = [all |-> since[t], failed |-> fatal] /\ since' = since BY <2>3 DEF DrainedPending
    <3>2. since[t] \in Nat /\ since[t] <= accepted BY DEF DrainTypes, DrainTold
    <3>3. Uncounted \in {0, 1} /\ (Uncounted = 1 => tx_q > 0) /\ Unsubtracted \in {0, 1}
          /\ (Unsubtracted = 1 => batch > 0)
      BY DEF Uncounted, Unsubtracted, DrainTypes, DrainPlaces
    <3>4. ~fatal => accepted <= wtx BY <3>3, <2>3 DEF DrainCounts, DrainTypes
    <3>5. said'.all \in Nat /\ (~said'.failed => said'.all <= wtx)
      BY <3>1, <3>2, <3>4 DEF DrainTypes
    <3> QED BY <3>1, <3>5, <1>1 DEF DrainTypes, DrainTold
  <2> QED BY <2>1, <2>2, <2>3
<1> QED BY <1>3, <1>4

\* The life of the NIC: destroy, create and shutdown keep it.
LEMMA LifeKeeps ==
  ASSUME DrainInv, Destroy \/ Release \/ Reuse \/ Shutdown \/ Join
  PROVE  DrainInv'
<1> USE DrainAssumption DEF DrainInv, lockVars, wireVars, bgVars, told
<1>1. UNCHANGED <<lk, tx_q, batch, pending_tx, fatal, bg, wtx, accepted, pc, since, said>>
  BY DEF Destroy, Release, Reuse, Shutdown, Join
<1>2. due' = due \/ due' = 0 \/ (due' = accepted /\ tx_q = 0 /\ lk = Free)
  BY DEF Destroy, Release, Reuse, Shutdown, Join
<1>3. DrainTypes' BY <1>1, <1>2 DEF DrainTypes
<1>4. DrainPlaces' BY <1>1 DEF DrainPlaces, Destroy, Release, Reuse, Shutdown, Join
<1>5. Uncounted' = Uncounted /\ Unsubtracted' = Unsubtracted /\ (lk = Free => Uncounted = 0)
  BY <1>1 DEF Uncounted, Unsubtracted
<1>6. Unsubtracted \in {0, 1} /\ (Unsubtracted = 1 => batch > 0) BY DEF Unsubtracted, DrainPlaces
<1>7. DrainCounts' BY <1>1, <1>2, <1>5, <1>6 DEF DrainCounts, DrainTypes
<1>8. DrainTold' BY <1>1 DEF DrainTold
<1> QED BY <1>3, <1>4, <1>7, <1>8

\* What openurma_nic tells the application is true, for any threads, any queue
\* length, any interleaving of their loads, stores and locks with those of the
\* background thread, and a wire that fails at any of them.
THEOREM ToldIsTrue == DrainSpec => []SaidTrue
<1>1. DrainInit => DrainInv
  <2> SUFFICES ASSUME DrainInit PROVE DrainInv
    OBVIOUS
  <2>1. /\ pc \in [Threads -> {"idle", "call", "send", "count", "zero", "drained"}]
        /\ since \in [Apps -> Nat] /\ said \in [all : Nat, failed : BOOLEAN]
    BY DEF DrainInit
  <2>2. fatal \in BOOLEAN BY ZenonT(60) DEF DrainInit
  <2>3. /\ tx_q \in 0 .. MaxTx /\ batch \in 0 .. MaxTx /\ wtx \in Nat /\ accepted \in Nat /\ due \in Nat
        /\ bg \in {"swap", "test", "sendto", "sub", "zero", "recv", "end"} /\ lk \in Threads \cup {Free}
    BY DrainAssumption DEF DrainInit
  <2>4. DrainTypes BY <2>1, <2>2, <2>3 DEF DrainTypes
  <2>5. DrainPlaces BY DEF DrainInit, DrainPlaces
  <2>6. DrainCounts BY DEF DrainInit, DrainCounts, Uncounted, Unsubtracted
  <2>7. DrainTold BY DEF DrainInit, DrainTold
  <2> QED BY <2>4, <2>5, <2>6, <2>7 DEF DrainInv
<1>2. DrainInv /\ [DrainNext]_drainVars => DrainInv'
  <2> SUFFICES ASSUME DrainInv, [DrainNext]_drainVars PROVE DrainInv'
    OBVIOUS
  <2>1. CASE DrainNext BY <2>1, SendsKeep, BgKeeps, DrainedKeeps, LifeKeeps, ZenonT(60) DEF DrainNext
  <2>2. CASE UNCHANGED drainVars
    BY <2>2, ZenonT(60) DEF drainVars, lockVars, wireVars, bgVars, told, DrainInv, DrainTypes, DrainPlaces,
         DrainCounts, DrainTold, Uncounted, Unsubtracted
  <2> QED BY <2>1, <2>2
<1>3. DrainInv => SaidTrue
  <2> SUFFICES ASSUME DrainInv PROVE SaidTrue
    OBVIOUS
  <2>1. ~said.failed => said.all <= wtx BY DEF DrainInv, DrainTold
  <2>2. life = "down" /\ ~fatal => due <= wtx
    BY DEF DrainInv, DrainTypes, DrainPlaces, DrainCounts, Unsubtracted
  <2> QED BY <2>1, <2>2 DEF SaidTrue
<1> QED BY <1>1, <1>2, <1>3, PTL DEF DrainSpec
=============================================================================
