------------------------------ MODULE RtpReceive ------------------------------
(***************************************************************************)
(* The receiving side of the reliable transport: UB_TPChannel_RX checks    *)
(* the PSN of each packet, acknowledges it and hands it to UB_PSN_Reorder, *)
(* which restores the order.  The two run as threads joined by a FIFO.     *)
(*                                                                         *)
(* The wire loses, repeats and reorders packets; it does not mix their     *)
(* flits.  Packet n of peer p carries PSN n % PsnMod (UB_TPChannel_TX      *)
(* starts at 0).  A flit is a packet and a position in it: 1 the metadata  *)
(* flit, 2 the extension flit, 3 payload.                                  *)
(***************************************************************************)
EXTENDS Integers, Sequences, FiniteSets

CONSTANTS
  Peers,         \* source CNAs
  MaxChannels,   \* MAX_CHANNELS of both elements
  PsnMod,        \* 2^24 in the code
  BitmapBits,    \* BITMAP_BITS of UB_TPChannel_RX
  Window,        \* WINDOW of UB_PSN_Reorder
  Flits,         \* Flits[n]: number of flits of packet n; bounds the packets
  Traffics,      \* what may be sent: [peers, pkts, ahead], see traffic
  MaxRepeats,    \* bound: arrivals of packets that arrived before
  MaxProvisions, \* bound: signals to UB_TPChannel_RX
  OooModes,      \* the values of ooo_enabled the host provisions
  Late,          \* whether the host may provision a channel in use
  FirstFirst     \* whether packet 0 opens a channel that is not provisioned

ASSUME ConstantsAssumption ==
  /\ Peers \subseteq Nat
  /\ MaxChannels \in Nat \ {0}
  /\ PsnMod \in {2 * h : h \in 1 .. PsnMod}
  /\ BitmapBits \in 1 .. PsnMod \div 2
  /\ Window \in Nat \ {0}
  /\ MaxRepeats \in Nat /\ MaxProvisions \in Nat
  /\ \A t \in Traffics : t.peers \subseteq Peers /\ 0 .. t.pkts - 1 \subseteq DOMAIN Flits /\ t.ahead \in Nat
  /\ OooModes \subseteq BOOLEAN /\ Late \in BOOLEAN /\ FirstFirst \in BOOLEAN

Pkts == DOMAIN Flits

ASSUME FlitsAssumption ==
  /\ IsFiniteSet(Pkts) /\ Pkts = 0 .. Cardinality(Pkts) - 1
  /\ \A n \in Pkts : Flits[n] \in Nat \ {0}

Chan == {p % MaxChannels : p \in Peers}
NoFlit == [peer |-> 0, n |-> 0, k |-> 0]
Flit(p, n, k) == [peer |-> p, n |-> n, k |-> k]

VARIABLES
  traffic,     \* the peers that send, how many packets each, and how far a
               \* packet may overtake the first missing one
  feed,        \* unread flits of the packet that is arriving
  arrived,     \* arrived[p]: the packets of p that arrived
  repeats,     \* how often one arrived again
  provisions,  \* number of provisioning signals so far
  rxchan,      \* UB_TPChannel_RX: [valid, cna, epsn, bitmap, ooo]
  in_window,   \* UB_TPChannel_RX: this_in_window
  ack,         \* the last descriptor on port 2 of UB_TPChannel_RX
  mid,         \* the FIFO between the two elements
  rb,          \* UB_PSN_Reorder: [slots, base]
  this_idx, saw_meta, saw_ext,   \* UB_PSN_Reorder
  out,         \* flits on port 1 of UB_PSN_Reorder
  got          \* got[p]: packets of p that UB_TPChannel_RX accepted

wireVars == <<traffic, arrived, repeats, provisions>>
rxVars == <<rxchan, in_window, ack, got>>
reorderVars == <<rb, this_idx, saw_meta, saw_ext, out>>
vars == <<feed, wireVars, rxVars, mid, reorderVars>>

EmptySlot == [a |-> NoFlit, b |-> NoFlit]
NoAck == [op |-> "none", nak |-> FALSE, peer |-> 0, psn |-> 0, bitmap |-> {}]

Init ==
  /\ traffic \in Traffics
  /\ feed = << >>
  /\ arrived = [p \in Peers |-> {}]
  /\ repeats = 0
  /\ provisions = 0
  /\ rxchan = [c \in Chan |-> [valid |-> FALSE, cna |-> 0, epsn |-> 0, bitmap |-> {}, ooo |-> TRUE]]
  /\ in_window = FALSE
  /\ ack = NoAck
  /\ mid = << >>
  /\ rb = [c \in Chan |-> [slots |-> [j \in 0 .. Window - 1 |-> EmptySlot], base |-> 0]]
  /\ this_idx \in Chan
  /\ saw_meta = FALSE
  /\ saw_ext = FALSE
  /\ out = << >>
  /\ got = [p \in Peers |-> {}]

Psn(f) == f.n % PsnMod
Idx(p) == p % MaxChannels
Sop(f) == f.k = 1
Eop(f) == f.k = Flits[f.n]

-----------------------------------------------------------------------------
(* The wire.                                                               *)

\* The first packet of p that has not been accepted.
Missing(p) == CHOOSE n \in 0 .. Cardinality(Pkts) :
                /\ n \notin got[p]
                /\ \A m \in 0 .. n - 1 : m \in got[p]

\* No copy is older than half the PSN space.
Arrive(p, n) ==
  /\ feed = << >>
  /\ p \in traffic.peers /\ n < traffic.pkts
  /\ repeats' = repeats + (IF n \in arrived[p] THEN 1 ELSE 0)
  /\ repeats' <= MaxRepeats
  /\ n <= Missing(p) + traffic.ahead /\ Missing(p) <= n + PsnMod \div 2
  /\ FirstFirst => n = 0 \/ rxchan[Idx(p)].valid
  /\ feed' = [k \in 1 .. Flits[n] |-> Flit(p, n, k)]
  /\ arrived' = [arrived EXCEPT ![p] = @ \cup {n}]
  /\ UNCHANGED <<traffic, provisions, rxVars, mid, reorderVars>>

-----------------------------------------------------------------------------
(* UB_TPChannel_RX.                                                        *)

\* The channel a metadata flit belongs to; a channel that is new, or that was
\* another peer's, starts at the PSN of this packet.
Channel(f) ==
  LET c == rxchan[Idx(f.peer)] IN
  IF c.valid /\ c.cna = f.peer THEN c
  ELSE [c EXCEPT !.valid = TRUE, !.cna = f.peer, !.epsn = Psn(f), !.bitmap = {}]

\* bitmap >> k
Shift(bits, k) == {b - k : b \in {x \in bits : x >= k}}

\* How far a PSN is ahead of the expected one, and whether it is behind.
Diff(f, c) == (Psn(f) - c.epsn) % PsnMod
Behind(f, c) == Diff(f, c) >= PsnMod \div 2

\* Mutant of Slid: one PSN too far.
Slid_TooFar(c) ==
  LET run == CHOOSE k \in 1 .. BitmapBits : k \notin c.bitmap /\ \A b \in 1 .. k - 1 : b \in c.bitmap IN
  [c EXCEPT !.epsn = (@ + run + 1) % PsnMod, !.bitmap = Shift(@, run)]

Slid(c) ==
  LET run == CHOOSE k \in 1 .. BitmapBits : k \notin c.bitmap /\ \A b \in 1 .. k - 1 : b \in c.bitmap IN
  [c EXCEPT !.epsn = (@ + run) % PsnMod, !.bitmap = Shift(@, run)]

\* Descriptors.  nak only records why one was sent: it is not part of it.
Tpack(p, psn) == [op |-> "TPACK", nak |-> FALSE, peer |-> p, psn |-> psn, bitmap |-> {}]
Tpnak(p, psn) == [op |-> "TPACK", nak |-> TRUE, peer |-> p, psn |-> psn, bitmap |-> {}]
Tpsack(p, c) == [op |-> "TPSACK", nak |-> FALSE, peer |-> p, psn |-> c.epsn, bitmap |-> c.bitmap]

\* The flit at the front of port 1 is read; accepted flits go to the FIFO.
ForwardIf(accept, f) ==
  /\ feed' = Tail(feed)
  /\ in_window' = accept
  /\ mid' = IF accept THEN Append(mid, f) ELSE mid

SetChannel(f, c) == rxchan' = [rxchan EXCEPT ![Idx(f.peer)] = c]
Accept(f) == got' = [got EXCEPT ![f.peer] = @ \cup {f.n}]

RxMeta == feed # << >> /\ Sop(Head(feed))

RxInOrder ==
  LET f == Head(feed) c == Channel(f) IN
  /\ RxMeta
  /\ Diff(f, c) = 0
  /\ ForwardIf(TRUE, f)
  /\ SetChannel(f, Slid(c))
  /\ ack' = Tpack(f.peer, (Slid(c).epsn - 1) % PsnMod)
  /\ Accept(f)
  /\ UNCHANGED <<wireVars, reorderVars>>

RxOutOfOrder ==
  LET f == Head(feed) c == Channel(f)
      marked == [c EXCEPT !.bitmap = @ \cup {Diff(f, c)}] IN
  /\ RxMeta
  /\ Diff(f, c) > 0 /\ ~Behind(f, c) /\ c.ooo
  /\ Diff(f, c) < BitmapBits
  /\ ForwardIf(TRUE, f)
  /\ SetChannel(f, marked)
  /\ ack' = Tpsack(f.peer, marked)
  /\ Accept(f)
  /\ UNCHANGED <<wireVars, reorderVars>>

RxDuplicate ==
  LET f == Head(feed) c == Channel(f) IN
  /\ RxMeta
  /\ Behind(f, c)
  /\ ForwardIf(FALSE, f)
  /\ SetChannel(f, c)
  /\ ack' = Tpack(f.peer, (c.epsn - 1) % PsnMod)
  /\ UNCHANGED <<wireVars, got, reorderVars>>

\* Too far ahead, or out of order where that is not enabled: the descriptor
\* names the expected PSN and carries the opcode of an acknowledgement.
RxNak ==
  LET f == Head(feed) c == Channel(f) IN
  /\ RxMeta
  /\ Diff(f, c) > 0 /\ ~Behind(f, c)
  /\ c.ooo => Diff(f, c) >= BitmapBits
  /\ ForwardIf(FALSE, f)
  /\ SetChannel(f, c)
  /\ ack' = Tpnak(f.peer, c.epsn)
  /\ UNCHANGED <<wireVars, got, reorderVars>>

\* A later flit goes the way of its metadata flit.
RxBody ==
  /\ feed # << >> /\ ~Sop(Head(feed))
  /\ ForwardIf(in_window, Head(feed))
  /\ UNCHANGED <<wireVars, rxchan, ack, got, reorderVars>>

\* Signal 1: the host provisions the channel of p.
Provision(p, ooo) ==
  /\ provisions < MaxProvisions
  /\ Late \/ ~rxchan[Idx(p)].valid
  /\ provisions' = provisions + 1
  /\ rxchan' = [rxchan EXCEPT ![Idx(p)] =
                  [@ EXCEPT !.valid = TRUE, !.cna = p, !.epsn = 0, !.ooo = ooo]]
  /\ UNCHANGED <<traffic, feed, arrived, repeats, in_window, ack, got, mid, reorderVars>>

-----------------------------------------------------------------------------
(* UB_PSN_Reorder.                                                         *)

TopFlit == Head(mid)

Offset(f) == (Psn(f) - rb[Idx(f.peer)].base) % PsnMod

Emit(f) == out' = Append(out, f)

\* The slots with the metadata flit f stored.
Parked(f) ==
  IF Offset(f) < Window
  THEN [rb[Idx(f.peer)].slots EXCEPT ![Offset(f)].a = f]
  ELSE rb[Idx(f.peer)].slots

\* Mutant of Ready: one slot at most.
Ready_One(slots) == 1

\* How many slots in a row are filled, from the first.
Ready(slots) ==
  CHOOSE d \in 0 .. Window :
    /\ d < Window => slots[d].a = NoFlit
    /\ \A j \in 0 .. d - 1 : slots[j].a # NoFlit

\* The loop empties the first d slots, but a call emits one flit: the last
\* one that is put on the port.
Drained(slots, d) ==
  [j \in 0 .. Window - 1 |-> IF j + d < Window THEN slots[j + d] ELSE EmptySlot]
LastOf(slot) == IF slot.b # NoFlit THEN slot.b ELSE slot.a

\* Mutant of ReorderMeta: what is early is passed on as well as kept.
ReorderMeta_Eager ==
  LET f == TopFlit
      i == Idx(f.peer)
      slots == Parked(f)
      d == IF Offset(f) = 0 THEN Ready(slots) ELSE 0 IN
  /\ mid # << >> /\ Sop(f)
  /\ mid' = Tail(mid)
  /\ this_idx' = i
  /\ saw_ext' = FALSE
  /\ saw_meta' = IF Offset(f) < Window THEN TRUE ELSE saw_meta
  /\ rb' = [rb EXCEPT ![i] = [slots |-> Drained(slots, d), base |-> (@.base + d) % PsnMod]]
  /\ IF d > 0 THEN Emit(LastOf(slots[d - 1])) ELSE Emit(f)
  /\ UNCHANGED <<feed, wireVars, rxVars>>

ReorderMeta ==
  LET f == TopFlit
      i == Idx(f.peer)
      slots == Parked(f)
      d == IF Offset(f) = 0 THEN Ready(slots) ELSE 0 IN
  /\ mid # << >> /\ Sop(f)
  /\ mid' = Tail(mid)
  /\ this_idx' = i
  /\ saw_ext' = FALSE
  /\ saw_meta' = IF Offset(f) < Window THEN TRUE ELSE saw_meta
  /\ rb' = [rb EXCEPT ![i] = [slots |-> Drained(slots, d), base |-> (@.base + d) % PsnMod]]
  /\ IF d > 0 THEN Emit(LastOf(slots[d - 1])) ELSE UNCHANGED out
  /\ UNCHANGED <<feed, wireVars, rxVars>>

\* Slots with a metadata flit that waits for its second flit.
Unpaired == {j \in 0 .. Window - 1 : rb[this_idx].slots[j].a # NoFlit /\ rb[this_idx].slots[j].b = NoFlit}

\* A second flit is stored with the first metadata flit that lacks one ...
ReorderPair ==
  LET j == CHOOSE x \in Unpaired : \A y \in Unpaired : x <= y IN
  /\ mid # << >> /\ ~Sop(TopFlit)
  /\ saw_meta /\ ~saw_ext /\ Unpaired # {}
  /\ mid' = Tail(mid)
  /\ rb' = [rb EXCEPT ![this_idx].slots[j].b = TopFlit]
  /\ saw_meta' = FALSE
  /\ UNCHANGED <<feed, wireVars, rxVars, this_idx, saw_ext, out>>

\* Mutant of ReorderPass: a flit waits for the one behind it.
ReorderPass_Waits ==
  /\ Len(mid) > 1 /\ ~Sop(TopFlit)
  /\ saw_meta /\ (saw_ext \/ Unpaired = {})
  /\ mid' = Tail(mid)
  /\ Emit(TopFlit)
  /\ saw_meta' = ~Eop(TopFlit)
  /\ saw_ext' = ~Eop(TopFlit)
  /\ UNCHANGED <<feed, wireVars, rxVars, rb, this_idx>>

\* ... or passes on, and what follows it passes on too.
ReorderPass ==
  /\ mid # << >> /\ ~Sop(TopFlit)
  /\ saw_meta /\ (saw_ext \/ Unpaired = {})
  /\ mid' = Tail(mid)
  /\ Emit(TopFlit)
  /\ saw_meta' = ~Eop(TopFlit)
  /\ saw_ext' = ~Eop(TopFlit)
  /\ UNCHANGED <<feed, wireVars, rxVars, rb, this_idx>>

ReorderDrop ==
  /\ mid # << >> /\ ~Sop(TopFlit)
  /\ ~saw_meta
  /\ mid' = Tail(mid)
  /\ UNCHANGED <<feed, wireVars, rxVars, reorderVars>>

TpcRx == RxInOrder \/ RxOutOfOrder \/ RxDuplicate \/ RxNak \/ RxBody
Reorder == ReorderMeta \/ ReorderPair \/ ReorderPass \/ ReorderDrop

Next ==
  \/ \E p \in Peers, n \in Pkts : Arrive(p, n)
  \/ \E p \in Peers, ooo \in OooModes : Provision(p, ooo)
  \/ TpcRx
  \/ Reorder

Spec == Init /\ [][Next]_vars

\* The threads of the two elements keep running, and the sender repeats a
\* packet until it arrives.
GoesOn == TpcRx \/ Reorder \/ \E p \in Peers, n \in Pkts : n \notin arrived[p] /\ Arrive(p, n)
FairSpec == Spec /\ WF_vars(GoesOn)

-----------------------------------------------------------------------------
(* Properties.                                                             *)

\* What the wire and the host do: no two peers share a channel, packet 0 opens
\* a channel that the host did not provision before its first packet, and no
\* packet is a PSN space ahead.
Setting ==
  /\ \A p, q \in Peers : Idx(p) = Idx(q) => p = q
  /\ FirstFirst /\ ~Late
  /\ \A t \in Traffics : t.ahead < PsnMod

\* A packet that is accepted fits into the slots: the bitmap is no wider than
\* the window, or no packet overtakes as many as the window holds.
Fits == \A t \in Traffics : BitmapBits <= Window \/ t.ahead < Window

\* What an acknowledgement says of packets that were accepted is true: a
\* TPACK covers exactly the packets before the first missing one, and bit i
\* of a TPSACK stands for the packet i places after it.
AckTruthful ==
  LET p == ack.peer IN
  /\ ack.op = "TPACK" /\ ~ack.nak => ack.psn = (Missing(p) - 1) % PsnMod
  /\ ack.op = "TPSACK" =>
       /\ ack.psn = Missing(p) % PsnMod
       /\ got[p] = {n \in Pkts : n < Missing(p)} \cup {Missing(p) + b : b \in ack.bitmap}

Whole ==
  \A j \in DOMAIN out :
    IF Sop(out[j]) THEN j > 1 => Eop(out[j - 1])
    ELSE j > 1 /\ out[j - 1] = [out[j] EXCEPT !.k = @ - 1]

\* Packets leave UB_PSN_Reorder in the order of their PSN, each once, and if
\* none overtook another they leave as they came: flit by flit, with nothing
\* between.
OutInOrder ==
  /\ \A i, j \in DOMAIN out :
       i < j /\ Sop(out[i]) /\ Sop(out[j]) /\ out[i].peer = out[j].peer => out[i].n < out[j].n
  /\ traffic.ahead = 0 => Whole

\* Once the FIFO between them is empty the two elements expect the same PSN,
\* and a slot is filled just when the bitmap has its bit.
WindowsAgree ==
  mid = << >> =>
    \A c \in Chan :
      /\ rb[c].base = rxchan[c].epsn
      /\ {j \in 0 .. Window - 1 : rb[c].slots[j].a # NoFlit} = rxchan[c].bitmap

\* If none overtakes another, every packet is delivered with all its flits.
AllDelivered ==
  traffic.ahead = 0 =>
    <>(\A p \in traffic.peers, n \in 0 .. traffic.pkts - 1 :
         \A k \in 1 .. Flits[n] : \E j \in DOMAIN out : out[j] = Flit(p, n, k))
=============================================================================
