------------------------------- MODULE RtpSend -------------------------------
(***************************************************************************)
(* The sending side of the reliable transport: UB_TPChannel_TX numbers the *)
(* packets of each destination, UB_Retrans_Buffer keeps the ones that are  *)
(* not acknowledged and sends them again.  The two run as threads joined   *)
(* by a FIFO.                                                              *)
(*                                                                         *)
(* The acknowledgements are those the receiver of a destination owes for   *)
(* the packets that reach it, a receiver that the host provisioned, so     *)
(* that it awaits the first packet; they may be lost, repeated and late,   *)
(* and so may the packets.  Packet n of destination d is its nth request;  *)
(* a flit is a packet, the PSN in it, and a position: 1 the metadata flit, *)
(* 2 the extension flit, 3 payload.                                        *)
(***************************************************************************)
EXTENDS Integers, Sequences, FiniteSets

CONSTANTS
  Dests,         \* destination CNAs
  TxChannels,    \* MAX_CHANNELS of UB_TPChannel_TX
  RtxChannels,   \* MAX_CHANNELS of UB_Retrans_Buffer
  PsnMod,        \* 2^24 in the code
  Window,        \* WINDOW of UB_Retrans_Buffer
  Flits,         \* the numbers of flits a request may have
  OooModes,      \* what the host may set ooo_enabled of a receiver to
  MaxPkts,       \* bound: requests to one destination
  FifoDepth,     \* flits the FIFO between the elements holds
  MaxUnacked     \* bound: requests of one destination not acknowledged

ASSUME ConstantsAssumption ==
  /\ Dests \subseteq Nat \ {0}
  /\ TxChannels \in Nat \ {0} /\ RtxChannels \in Nat \ {0}
  /\ PsnMod \in Nat \ {0}
  /\ Window \in Nat \ {0}
  /\ Flits \subseteq Nat \ {0} /\ OooModes \subseteq BOOLEAN
  /\ FifoDepth \in Nat /\ MaxPkts \in Nat /\ MaxUnacked \in Nat

TIdx(d) == d % TxChannels
RIdx(d) == d % RtxChannels
TChan == {TIdx(d) : d \in Dests}
RChan == {RIdx(d) : d \in Dests}
Off == 0 .. Window - 1

NoFlit == [dest |-> 0, n |-> 0, k |-> 0, psn |-> 0, uno |-> FALSE]
EmptySlot == [a |-> NoFlit, b |-> NoFlit, again |-> FALSE]

VARIABLES
  lens,       \* lens[d][n]: number of flits of the reliable packet n to d
  feed,       \* unread flits at port 1 of UB_TPChannel_TX
  chan,       \* UB_TPChannel_TX: [valid, cna, psn_next, last_acked]
  psns,       \* psns[d][n]: the PSN given to packet n
  mid,        \* the FIFO between the two elements
  tx,         \* UB_Retrans_Buffer: [slots, base, in_flight]
  saw_meta,
  cur_idx,    \* channel of the packet being read, or Uno
  out,        \* the last flit on port 1 of UB_Retrans_Buffer
  wire,       \* the flits that were emitted
  ooo,        \* ooo[d]: whether d takes packets out of order (ooo_enabled)
  rcvd,       \* rcvd[d]: packets that d took
  net,        \* acknowledgements under way
  freed       \* freed[d]: packets of d covered by the TPACKs handled so far

txVars == <<chan, psns>>
rtxVars == <<tx, saw_meta, cur_idx, out, wire, freed>>
rcvVars == <<ooo, rcvd>>
vars == <<lens, feed, txVars, mid, rtxVars, rcvVars, net>>

Uno == -1      \* the sentinel 0xFFFFFFFF

Init ==
  /\ lens = [d \in Dests |-> << >>]
  /\ feed = << >>
  /\ chan = [c \in TChan |-> [valid |-> FALSE, cna |-> 0, psn_next |-> 0, last_acked |-> 0]]
  /\ psns = [d \in Dests |-> << >>]
  /\ mid = << >>
  /\ tx = [c \in RChan |-> [slots |-> [j \in Off |-> EmptySlot], base |-> 0, in_flight |-> 0]]
  /\ saw_meta = FALSE
  /\ cur_idx = 0
  /\ out = NoFlit
  /\ wire = {}
  /\ ooo \in [Dests -> OooModes]
  /\ rcvd = [d \in Dests |-> {}]
  /\ net = {}
  /\ freed = [d \in Dests |-> 0]

Sop(f) == f.k = 1
Meta(d, n) == [dest |-> d, n |-> n, k |-> 1, psn |-> psns[d][n], uno |-> FALSE]

-----------------------------------------------------------------------------
(* Requests, and the receivers.                                            *)

\* A request of a reliable service mode.
Post(d, len) ==
  LET n == Len(lens[d]) + 1 IN
  /\ feed = << >>
  /\ n <= MaxPkts
  /\ n - freed[d] <= MaxUnacked
  /\ lens' = [lens EXCEPT ![d] = Append(@, len)]
  /\ feed' = [k \in 1 .. len |-> [NoFlit EXCEPT !.dest = d, !.n = n, !.k = k]]
  /\ UNCHANGED <<txVars, mid, rtxVars, rcvVars, net>>

\* A request of service mode UNO.
PostUno(d) ==
  /\ feed = << >>
  /\ feed' = [k \in 1 .. 2 |-> [NoFlit EXCEPT !.dest = d, !.k = k, !.uno = TRUE]]
  /\ UNCHANGED <<lens, txVars, mid, rtxVars, rcvVars, net>>

\* The packets of d that have arrived without a gap.
CumOf(got) == CHOOSE m \in 0 .. MaxPkts : m + 1 \notin got /\ \A x \in 1 .. m : x \in got

Answer(op, d, n, bitmap) == [op |-> op, dest |-> d, n |-> n, bitmap |-> bitmap]

\* Packet n reaches d, which answers as UB_TPChannel_RX does.  A packet ahead
\* of the awaited one is taken and reported if d takes packets out of order
\* (a window of the sender is shorter than BITMAP_BITS), and else refused: the
\* refusal is a TPACK that names the awaited packet.
Receive(d, n) ==
  LET m == CumOf(rcvd[d])
      taken == n <= m + 1 \/ ooo[d]
      got == IF taken THEN rcvd[d] \cup {n} ELSE rcvd[d]
      cum == CumOf(got) IN
  /\ \A k \in 1 .. lens[d][n] : [Meta(d, n) EXCEPT !.k = k] \in wire
  /\ rcvd' = [rcvd EXCEPT ![d] = got]
  /\ net' = net \cup {IF ~taken THEN Answer("TPACK", d, m + 1, {})
                      ELSE IF n <= cum THEN Answer("TPACK", d, cum, {})
                      ELSE Answer("TPSACK", d, m + 1, {x - (m + 1) : x \in {y \in got : y > m}})}
  /\ UNCHANGED <<lens, feed, txVars, mid, rtxVars, ooo>>

\* The PSN an acknowledgement names.
AckPsn(ev) == psns[ev.dest][ev.n]

-----------------------------------------------------------------------------
(* UB_TPChannel_TX.                                                        *)

Provisioned(d) == [valid |-> TRUE, cna |-> d, psn_next |-> 0, last_acked |-> PsnMod - 1]

\* The channel of destination d, a new one if its place was another's.
Allocated(d) ==
  LET c == chan[TIdx(d)] IN IF c.valid /\ c.cna = d THEN c ELSE Provisioned(d)

\* Signals 1 and 3, from a control plane that sends them before the traffic
\* of the channel.
Unused(d) == \A e \in Dests : TIdx(e) = TIdx(d) => psns[e] = << >>

Provision(d) ==
  /\ Unused(d)
  /\ chan' = [chan EXCEPT ![TIdx(d)] = Provisioned(d)]
  /\ UNCHANGED <<lens, feed, psns, mid, rtxVars, rcvVars, net>>

TearDown(d) ==
  /\ Unused(d)
  /\ chan' = [chan EXCEPT ![TIdx(d)].valid = FALSE]
  /\ UNCHANGED <<lens, feed, psns, mid, rtxVars, rcvVars, net>>

NextPsn(psn) == (psn + 1) % PsnMod

TxMeta ==
  LET f == Head(feed) c == Allocated(f.dest) IN
  /\ feed # << >> /\ Sop(f) /\ ~f.uno
  /\ Len(mid) < FifoDepth
  /\ feed' = Tail(feed)
  /\ chan' = [chan EXCEPT ![TIdx(f.dest)] = [c EXCEPT !.psn_next = NextPsn(@)]]
  /\ psns' = [psns EXCEPT ![f.dest] = Append(@, c.psn_next)]
  /\ mid' = Append(mid, [f EXCEPT !.psn = c.psn_next])
  /\ UNCHANGED <<lens, rtxVars, rcvVars, net>>

\* Later flits, and packets of service mode UNO, pass on as they are.
TxPass ==
  LET f == Head(feed) IN
  /\ feed # << >> /\ (~Sop(f) \/ f.uno)
  /\ Len(mid) < FifoDepth
  /\ feed' = Tail(feed)
  /\ mid' = Append(mid, IF f.uno THEN f ELSE [f EXCEPT !.psn = psns[f.dest][f.n]])
  /\ UNCHANGED <<lens, txVars, rtxVars, rcvVars, net>>

\* Port 2.
TxAck(ev) ==
  LET c == chan[TIdx(ev.dest)] IN
  /\ ev.op = "TPACK"
  /\ c.valid /\ c.cna = ev.dest
  /\ chan' = [chan EXCEPT ![TIdx(ev.dest)].last_acked = AckPsn(ev)]
  /\ UNCHANGED <<lens, feed, psns, mid, rtxVars, rcvVars, net>>

-----------------------------------------------------------------------------
(* UB_Retrans_Buffer.  A call handles one event, then one flit; it emits   *)
(* the last flit that either of them puts on the port.                     *)

NoEvent == Answer("none", 0, 0, {})
Rto(d) == Answer("RTO", d, 0, {})

Filled(slots) == {j \in Off : slots[j].a # NoFlit}
Lowest(S) == CHOOSE j \in S : \A x \in S : j <= x
AckOff(ev) == (AckPsn(ev) - tx[RIdx(ev.dest)].base) % PsnMod

\* A channel after the packets up to the one in slot off are acknowledged.
Freed(c, off) ==
  [slots |-> [j \in Off |-> IF j + off + 1 < Window THEN c.slots[j + off + 1] ELSE EmptySlot],
   base |-> (c.base + off + 1) % PsnMod,
   in_flight |-> IF c.in_flight > off + 1 THEN c.in_flight - (off + 1) ELSE 0]

\* Mutant of Resend: the bitmap is read from the base of the window.
Resend_FromBase(ev) ==
  LET slots == tx[RIdx(ev.dest)].slots IN
  CASE ev.op = "TPSACK" ->
         {j \in Filled(slots) : /\ j >= AckOff(ev)
                                /\ j \notin ev.bitmap /\ ~slots[j].again}
    [] ev.op = "RTO" -> Filled(slots)
    [] OTHER -> {}

\* The slots an event asks to send again; one of them is, the lowest.
Resend(ev) ==
  LET slots == tx[RIdx(ev.dest)].slots IN
  CASE ev.op = "TPSACK" ->
         {j \in Filled(slots) : /\ j >= AckOff(ev)
                                /\ j - AckOff(ev) \notin ev.bitmap /\ ~slots[j].again}
    [] ev.op = "RTO" -> Filled(slots)
    [] OTHER -> {}

\* Of a slot with both flits only the second gets out.
LastOf(slot) == IF slot.b # NoFlit THEN slot.b ELSE slot.a

\* The channels, and the flit on the port, after the event.
TxAfter(ev) ==
  CASE ev.op = "TPACK" /\ AckOff(ev) < Window ->
         [tx EXCEPT ![RIdx(ev.dest)] = Freed(@, AckOff(ev))]
    [] ev.op = "TPSACK" /\ Resend(ev) # {} ->
         [tx EXCEPT ![RIdx(ev.dest)].slots[Lowest(Resend(ev))].again = TRUE]
    [] OTHER -> tx
PortAfter(ev) ==
  IF ev # NoEvent /\ Resend(ev) # {}
  THEN LastOf(tx[RIdx(ev.dest)].slots[Lowest(Resend(ev))])
  ELSE NoFlit

\* The event, and its part of the call.
Handled(ev) ==
  freed' = IF ev.op = "TPACK" /\ ev.n > freed[ev.dest] THEN [freed EXCEPT ![ev.dest] = ev.n] ELSE freed

Put(f) ==
  IF f = NoFlit THEN UNCHANGED <<out, wire>>
  ELSE out' = f /\ wire' = wire \cup {f}

\* A call without a flit on port 1.
RtxEvent(ev) ==
  /\ Handled(ev)
  /\ tx' = TxAfter(ev)
  /\ Put(PortAfter(ev))
  /\ UNCHANGED <<lens, feed, txVars, mid, saw_meta, cur_idx, rcvVars, net>>

Eop(f) == f.k = IF f.uno THEN 2 ELSE lens[f.dest][f.n]

RtxUno(ev) ==
  /\ mid # << >> /\ Sop(Head(mid)) /\ Head(mid).uno
  /\ mid' = Tail(mid)
  /\ Handled(ev)
  /\ tx' = TxAfter(ev)
  /\ Put(Head(mid))
  /\ saw_meta' = TRUE
  /\ cur_idx' = Uno
  /\ UNCHANGED <<lens, feed, txVars, rcvVars, net>>

\* A channel after the metadata flit f was stored: an empty window starts at
\* its PSN; outside the window it is not stored.
Stored(c, f) ==
  LET base == IF c.in_flight = 0 THEN f.psn ELSE c.base
      off == (f.psn - base) % PsnMod IN
  IF off < Window
  THEN [slots |-> [c.slots EXCEPT ![off].a = f, ![off].again = FALSE],
        base |-> base, in_flight |-> c.in_flight + 1]
  ELSE [c EXCEPT !.base = base]

RtxMeta(ev) ==
  LET f == Head(mid) i == RIdx(f.dest) IN
  /\ mid # << >> /\ Sop(f) /\ ~f.uno
  /\ mid' = Tail(mid)
  /\ Handled(ev)
  /\ tx' = [TxAfter(ev) EXCEPT ![i] = Stored(@, f)]
  /\ Put(f)
  /\ saw_meta' = TRUE
  /\ cur_idx' = i
  /\ UNCHANGED <<lens, feed, txVars, rcvVars, net>>

\* Mutant of Paired: the second flit goes to the lowest slot without one.
Paired_Any(c, f) ==
  IF Filled(c.slots) = {} THEN c ELSE [c EXCEPT !.slots[Lowest(Filled(c.slots))].b = f]

\* A later flit is stored in the highest slot that lacks a second flit.
Paired(c, f) ==
  LET open == {j \in Filled(c.slots) : c.slots[j].b = NoFlit} IN
  IF open = {} THEN c
  ELSE [c EXCEPT !.slots[CHOOSE j \in open : \A x \in open : x <= j].b = f]

RtxBody(ev) ==
  LET f == Head(mid) IN
  /\ mid # << >> /\ ~Sop(f) /\ saw_meta
  /\ mid' = Tail(mid)
  /\ Handled(ev)
  /\ tx' = IF cur_idx = Uno THEN TxAfter(ev)
           ELSE [TxAfter(ev) EXCEPT ![cur_idx] = Paired(@, f)]
  /\ Put(f)
  /\ saw_meta' = ~Eop(f)
  /\ UNCHANGED <<lens, feed, txVars, cur_idx, rcvVars, net>>

\* No acknowledgement is so late that its PSN has come round again.
Recent(ev) == freed[ev.dest] + 1 - ev.n <= PsnMod - Window
Events == {ev \in net : Recent(ev)} \cup {Rto(d) : d \in Dests}
Retrans(ev) == RtxUno(ev) \/ RtxMeta(ev) \/ RtxBody(ev)

Next ==
  \/ \E d \in Dests, len \in Flits : Post(d, len)
  \/ \E d \in Dests : PostUno(d)
  \/ \E d \in Dests : \E n \in DOMAIN psns[d] : Receive(d, n)
  \/ \E d \in Dests : Provision(d) \/ TearDown(d)
  \/ TxMeta \/ TxPass
  \/ \E ev \in net : TxAck(ev)
  \/ \E ev \in Events : RtxEvent(ev)
  \/ \E ev \in Events \cup {NoEvent} : Retrans(ev)

Spec == Init /\ [][Next]_vars

-----------------------------------------------------------------------------
(* Properties.                                                             *)

\* The window holds what it should where it should: slot j the packet whose
\* PSN is j after the base, with its own second flit; as many as are counted;
\* every packet that was sent and is not acknowledged; and, as the comment on
\* TPACK has it, none up to the one that was acknowledged last.
WindowRight ==
  \A c \in RChan :
    LET slots == tx[c].slots IN
    /\ \A j \in Filled(slots) : slots[j].a.psn = (tx[c].base + j) % PsnMod
    /\ \A j \in Off : slots[j].b # NoFlit => slots[j].b = [slots[j].a EXCEPT !.k = 2]
    /\ tx[c].in_flight = Cardinality(Filled(slots))
    /\ \A j \in Filled(slots) : slots[j].a.n > freed[slots[j].a.dest]
    /\ \A d \in Dests : RIdx(d) = c =>
         \A n \in DOMAIN psns[d] :
           Meta(d, n) \in wire /\ n > freed[d] => \E j \in Off : slots[j].a = Meta(d, n)

\* A TPSACK makes the sender repeat only packets that it reports missing.
SackExact ==
  [][\A c \in RChan, j \in Off :
       tx'[c].slots[j].again /\ ~tx[c].slots[j].again /\ tx'[c].base = tx[c].base =>
         \E ev \in net :
           LET n == tx[c].slots[j].a.n IN
           ev.op = "TPSACK" /\ n >= ev.n /\ n - ev.n \notin ev.bitmap]_vars
=============================================================================
