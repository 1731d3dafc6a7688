------------------------------- MODULE RoceNic -------------------------------
(***************************************************************************)
(* The OpenRoCE baseline NIC as gem5 runs it (NICTopologyRoCE): one NIC    *)
(* whose wire leads back to itself.  A host process writes the flits of    *)
(* its requests to the doorbell slot, and reads the completion slot.       *)
(*                                                                         *)
(* An element is an operator that takes a NIC and a flit and returns the   *)
(* NIC after its handler ran, and the flits it puts out with the elements  *)
(* they go to.  Run passes them on: b_transport is a call, so what the     *)
(* first port puts out is taken to the end before the second port's.       *)
(*                                                                         *)
(* The second inputs of RoCE_QP_TX, RoCE_DCQCN and RoCE_Retrans_Buffer     *)
(* have no source in this topology.                                        *)
(***************************************************************************)
EXTENDS Integers, Sequences, FiniteSets, SequencesExt

CONSTANTS
  Qp,        \* Qp[l]: the remote QP of the local QP l
  MaxQp,     \* MAX_QP of RoCE_QP_TX and RoCE_QP_RX
  PsnMod,    \* 2^24
  CqCap,     \* the completion queue holds this many flits
  KeySets,   \* what the MR table may hold: sets of keys, each for all memory
  Programs,  \* the sequences of requests a host may post
  MemWords   \* size of the memory RoCE_Atomic works on

\* QPs that share a table entry share its sequence numbers.
ASSUME RoceAssumption ==
  /\ PsnMod \in Nat /\ PsnMod > 2 /\ CqCap \in Nat \ {0}
  /\ \A l, m \in DOMAIN Qp : l # m => l % MaxQp # m % MaxQp /\ Qp[l] % MaxQp # Qp[m] % MaxQp

ChunkBytes == 32
HdrBytes == 26
Window == 8

RespOps == {"READ_RESP", "ACKNOWLEDGE", "ATOMIC_ACK"}
AtomOps == {"CAS", "FAA"}
RethOps == {"WRITE", "READ"}

NoExt == [va |-> 0, len |-> 0, swp |-> 0, cmp |-> 0]
\* A metadata flit as the host writes it, and the extension flit.
Meta(w) ==
  [sop |-> TRUE, eop |-> FALSE, valid |-> w.valid, op |-> w.op, lc |-> w.qp, rc |-> Qp[w.qp],
   src |-> 0, dst |-> 0, psn |-> 0, key |-> 0, synd |-> "OK"]
Ext(e) == [sop |-> FALSE, eop |-> TRUE, e |-> e]

NoFrame == [h |-> [op |-> "none", dst |-> 0, psn |-> 0, synd |-> "OK"], e |-> NoExt, len |-> 0]

NicInit ==
  [qptx |-> [i \in 0 .. MaxQp - 1 |-> [valid |-> FALSE, remote |-> 0, psn_next |-> 0]],
   rtx |-> [meta |-> FALSE, tx |-> [i \in 0 .. MaxQp - 1 |-> [base |-> 0, n |-> 0]]],
   enc |-> [mode |-> 0, in |-> FALSE, frame |-> NoFrame, off |-> 0],
   dec |-> [phase |-> 0, bytes |-> 0, frame |-> NoFrame],
   qprx |-> [i \in 0 .. MaxQp - 1 |-> [valid |-> FALSE, epsn |-> 0]], in_window |-> FALSE,
   is_resp |-> FALSE, mr |-> [meta |-> FALSE, key |-> 0], cur_port |-> 5,
   mem_meta |-> [p \in 1 .. 3 |-> FALSE], at_op |-> "none", have_meta |-> FALSE,
   cs |-> FALSE, mem |-> [w \in 0 .. MemWords - 1 |-> 0],
   tx |-> << >>, cqe |-> << >>, irq |-> FALSE,   \* pending_wire_tx_, cqe_queue_
   \* History: packets RoCE_QP_RX let pass; completions pushed out of the queue.
   passed |-> << >>, lost |-> << >>]

VARIABLES
  prog, feed,  \* the requests of the host; the flits it has yet to write
  keys,        \* the keys in the MR table
  nic,
  got          \* what the host read

vars == <<prog, feed, keys, nic, got>>

\* What a handler returns: the NIC, and flits for other elements.
At(elem, f) == <<[elem |-> elem, flit |-> f]>>
To(n, elem, f) == [nic |-> n, out |-> At(elem, f)]
Sink(n) == [nic |-> n, out |-> << >>]

-----------------------------------------------------------------------------
(* The completion queue and the wire tap of the NIC.                       *)

\* cqe_tap_b drops the oldest flit when there are too many.  (Mutant: one early.)
CqeTap_Early(n, c) ==
  LET q == Append(n.cqe, c) IN
  [n EXCEPT !.cqe = IF Len(q) >= CqCap THEN Tail(q) ELSE q,
            !.lost = IF Len(q) >= CqCap THEN Append(@, Head(q)) ELSE @,
            !.irq = TRUE]
CqeTap(n, c) ==
  LET q == Append(n.cqe, c) IN
  [n EXCEPT !.cqe = IF Len(q) > CqCap THEN Tail(q) ELSE q,
            !.lost = IF Len(q) > CqCap THEN Append(@, Head(q)) ELSE @,
            !.irq = TRUE]

\* wire_tx_tap_b queues the chunk for pump_wire.
WireTxTap(n, c) == [n EXCEPT !.tx = Append(@, c)]

\* RoCE_Comp_Stream: lane 0 of a completion is never zero, that of the flit
\* behind it always is.
Cstream(n, f) ==
  Sink(IF f.sop THEN CqeTap([n EXCEPT !.cs = TRUE], [op |-> f.op, qp |-> f.dst, synd |-> f.synd])
       ELSE IF n.cs THEN CqeTap([n EXCEPT !.cs = ~f.eop], [op |-> "zero", qp |-> 0, synd |-> "OK"])
       ELSE n)

-----------------------------------------------------------------------------
(* Frames.                                                                 *)

ExtBytes(op) ==
  IF op \in RethOps THEN 16 ELSE IF op \in AtomOps THEN 28 ELSE IF op \in RespOps THEN 4 ELSE 0

\* RoCE_Eth_Encap: one chunk of the frame.
EncEmit(n) ==
  LET last == n.enc.off + ChunkBytes >= n.enc.frame.len IN
  WireTxTap([n EXCEPT !.enc = IF last THEN NicInit.enc ELSE [@ EXCEPT !.off = @ + ChunkBytes]],
            [sop |-> n.enc.off = 0, eop |-> last, frame |-> n.enc.frame])
RECURSIVE EncFlush(_)
EncFlush(n) == IF n.enc.mode = 1 THEN EncFlush(EncEmit(n)) ELSE n

\* A metadata flit starts a frame whatever came before.  An acknowledgement of
\* one flit carries its AETH; other frames wait for their extension flit.
\* (Mutant: the acknowledgement waits too.)
Whole_NoAck(f) == f.eop /\ f.op \notin RethOps \cup AtomOps \cup RespOps
Whole(f) == f.eop /\ f.op \notin RethOps \cup AtomOps
EncHeader(n, f) ==
  LET whole == Whole(f) IN
  [n EXCEPT !.enc =
     [mode |-> IF whole THEN 1 ELSE 0, in |-> TRUE, off |-> 0,
      frame |-> [h |-> [op |-> f.op, dst |-> f.dst, psn |-> f.psn,
                        synd |-> IF whole THEN f.synd ELSE "OK"],
                 e |-> NoExt, len |-> HdrBytes + (IF whole THEN ExtBytes(f.op) ELSE 0)]]]

\* What RETH and AtomicETH keep: the data of a write is not among it.
WireExt(op, e) ==
  IF op \in RethOps THEN [NoExt EXCEPT !.va = e.va, !.len = e.len]
  ELSE IF op \in AtomOps THEN [e EXCEPT !.len = 0] ELSE NoExt
EncExt(n, f) ==
  LET op == n.enc.frame.h.op IN
  [n EXCEPT !.enc.mode = 1, !.enc.frame.e = WireExt(op, f.e), !.enc.frame.len = @ + ExtBytes(op)]

Encode(n, f) == IF f.sop THEN EncHeader(n, f) ELSE IF n.enc.in THEN EncExt(n, f) ELSE n
Ethenc(n, f) == Sink(Encode(EncFlush(n), f))

\* The mux passes a flit on before the call that offers it returns.
Txmux(n, f) == To(n, "ethenc", f)

-----------------------------------------------------------------------------
(* Requests on their way out.                                              *)

\* RoCE_Retrans_Buffer: with no acknowledgements coming in, the window keeps
\* the first eight packets of a QP.
Retrans(n, f) ==
  IF f.sop
  THEN LET i == f.dst % MaxQp
           t == n.rtx.tx[i]
           base == IF t.n = 0 THEN f.psn ELSE t.base
           kept == (f.psn - base) % PsnMod < Window
       IN To([n EXCEPT !.rtx.meta = TRUE,
                       !.rtx.tx[i] = [base |-> base, n |-> IF kept THEN t.n + 1 ELSE t.n]], "txmux", f)
  ELSE IF n.rtx.meta THEN To([n EXCEPT !.rtx.meta = ~f.eop], "txmux", f)
  ELSE Sink(n)

\* RoCE_DCQCN counts bytes in flight and holds nothing back.
Dcqcn(n, f) == To(n, "retrans", f)
Bthb(n, f) == To(n, "dcqcn", f)

\* RoCE_QP_TX: the first request of a QP fixes its remote end.
QpTx(n, f) ==
  IF ~f.sop THEN To(n, "bthb", f)
  ELSE LET i == f.lc % MaxQp
           q == IF n.qptx[i].valid THEN n.qptx[i]
                ELSE [valid |-> TRUE, remote |-> f.rc, psn_next |-> 0]
       IN To([n EXCEPT !.qptx[i] = [q EXCEPT !.psn_next = (@ + 1) % PsnMod]], "bthb",
             [f EXCEPT !.psn = q.psn_next, !.dst = q.remote, !.src = f.lc])

\* RoCE_Doorbell drops an invalid metadata flit; what follows it passes.
Doorbell(n, f) == IF f.sop /\ ~f.valid THEN Sink(n) ELSE To(n, "qptx", f)

-----------------------------------------------------------------------------
(* Requests on their way in.                                               *)

\* RoCE_Comp_Gen swaps the ends; the wire does not carry the source.
Cgen(n, f) ==
  IF f.sop
  THEN To([n EXCEPT !.have_meta = TRUE], "txmux",
          [f EXCEPT !.src = f.dst, !.dst = f.src, !.lc = f.rc, !.rc = f.lc, !.synd = "OK",
                    !.op = IF f.op = "READ" THEN "READ_RESP"
                           ELSE IF f.op \in AtomOps THEN "ATOMIC_ACK" ELSE "ACKNOWLEDGE"])
  ELSE IF n.have_meta THEN To([n EXCEPT !.have_meta = ~f.eop], "txmux", f)
  ELSE Sink(n)
Dmux(n, f) == To(n, "cgen", f)

\* RoCE_Mem_Read, RoCE_Mem_Write: separate memories; the first stays zero and
\* the second receives the zero the wire delivers.
Mread(n, f) ==
  IF f.sop THEN To([n EXCEPT !.mem_meta[1] = TRUE], "dmux", f)
  ELSE IF n.mem_meta[1] THEN To([n EXCEPT !.mem_meta[1] = ~f.eop], "dmux", [f EXCEPT !.e.swp = 0])
  ELSE Sink(n)
Mwrite(n, f) ==
  IF f.sop THEN To([n EXCEPT !.mem_meta[2] = TRUE], "dmux", f)
  ELSE IF n.mem_meta[2] THEN To([n EXCEPT !.mem_meta[2] = ~f.eop], "dmux", f)
  ELSE Sink(n)

\* RoCE_Atomic.
AtomicResult(op, cur, e) ==
  IF op = "CAS" THEN IF cur = e.cmp THEN e.swp ELSE cur ELSE cur + e.swp
Atom(n, f) ==
  IF f.sop THEN To([n EXCEPT !.mem_meta[3] = TRUE, !.at_op = f.op], "dmux", f)
  ELSE IF ~n.mem_meta[3] THEN Sink(n)
  ELSE LET w == f.e.va \div 8
           m == [n EXCEPT !.mem_meta[3] = ~f.eop]
       IN IF w < MemWords
          THEN To([m EXCEPT !.mem[w] = AtomicResult(n.at_op, @, f.e)], "dmux",
                  [f EXCEPT !.e.swp = n.mem[w]])
          ELSE To(m, "dmux", f)

Jrecv(n, f) == To(n, "dmux", f)

\* RoCE_Dispatch; port 5 is a sink.
Dispatch(n0, f) ==
  LET n == IF ~f.sop THEN n0
           ELSE [n0 EXCEPT !.cur_port = IF f.op = "READ" THEN 1 ELSE IF f.op = "WRITE" THEN 2
                                        ELSE IF f.op \in AtomOps THEN 3
                                        ELSE IF f.op = "SEND" THEN 4 ELSE 5]
  IN CASE n.cur_port = 1 -> To(n, "mread", f)
       [] n.cur_port = 2 -> To(n, "mwrite", f)
       [] n.cur_port = 3 -> To(n, "atom", f)
       [] n.cur_port = 4 -> To(n, "jrecv", f)
       [] n.cur_port = 5 -> Sink(n)

\* RoCE_MR_Table: the metadata flit passes; the extension flit passes if the
\* key is known and the range is inside.
Mrtab(n, f) ==
  IF f.sop THEN To([n EXCEPT !.mr = [meta |-> TRUE, key |-> f.key]], "dispatch", f)
  ELSE IF ~n.mr.meta THEN Sink(n)
  ELSE LET m == [n EXCEPT !.mr.meta = ~f.eop] IN
       IF n.mr.key \in keys /\ f.e.va + f.e.len <= 8 * MemWords THEN To(m, "dispatch", f) ELSE Sink(m)

\* RoCE_BTH_Parse.
Bthp(n, f) ==
  LET resp == IF f.sop THEN f.op \in RespOps ELSE n.is_resp
      m == [n EXCEPT !.is_resp = resp]
  IN IF resp THEN To(m, "cstream", f) ELSE To(m, "mrtab", f)

\* RoCE_ACK_Gen: one flit, addressed by the receiver's own QP number.
Ackg(n, d) ==
  To(n, "txmux", [sop |-> TRUE, eop |-> TRUE, valid |-> TRUE, op |-> "ACKNOWLEDGE", lc |-> 0, rc |-> 0,
                  src |-> d.qpn, dst |-> d.qpn, psn |-> d.psn, key |-> 0, synd |-> d.synd])

\* RoCE_QP_RX: a response passes unseen; a request passes if it is the next
\* one, and is acknowledged after it passed.  What follows a metadata flit
\* passes if the last request did.  (Mutant: the number wraps one early.)
NextPsn_Early(psn) == (psn + 1) % (PsnMod - 1)
NextPsn(psn) == (psn + 1) % PsnMod
Qprx(n, f) ==
  IF ~f.sop THEN IF n.in_window THEN To(n, "bthp", f) ELSE Sink(n)
  ELSE IF f.op \in RespOps THEN To(n, "bthp", f)
  ELSE
  LET i == f.dst % MaxQp
      q == IF n.qprx[i].valid THEN n.qprx[i] ELSE [valid |-> TRUE, epsn |-> f.psn]
      diff == (f.psn - q.epsn) % PsnMod
      next == diff = 0
      dup == diff >= PsnMod \div 2
      now == [q EXCEPT !.epsn = IF next THEN NextPsn(@) ELSE @]
      m == [n EXCEPT !.qprx[i] = now, !.in_window = next,
                     !.passed = IF next THEN Append(@, [qp |-> f.dst, psn |-> f.psn]) ELSE @]
      ack == [qpn |-> f.dst, psn |-> (now.epsn - 1) % PsnMod,
              synd |-> IF next \/ dup THEN "OK" ELSE "NAK"]
  IN [nic |-> m, out |-> (IF next THEN At("bthp", f) ELSE << >>) \o At("ackg", ack)]

\* RoCE_Eth_Decap collects chunks until the headers are there; bytes that do
\* not start a frame have another ethertype and are dropped.
Ethdec(n, c) ==
  IF ~c.sop /\ n.dec.bytes = 0 THEN n
  ELSE LET bytes == IF c.sop THEN ChunkBytes ELSE n.dec.bytes + ChunkBytes IN
       [n EXCEPT !.dec = [phase |-> IF c.eop THEN 1 ELSE 0, bytes |-> bytes, frame |-> c.frame]]

\* One emission phase: metadata, then the extension if the opcode has one.
EthdecTick(n) ==
  LET h == n.dec.frame.h
      ext == ExtBytes(h.op) > 0
      m == [n EXCEPT !.dec = IF n.dec.phase = 1 /\ ext THEN [@ EXCEPT !.phase = 2] ELSE NicInit.dec]
  IN IF n.dec.phase = 1
     THEN To(m, "qprx", [sop |-> TRUE, eop |-> ~ext, valid |-> TRUE, op |-> h.op, lc |-> 0, rc |-> 0,
                         src |-> 0, dst |-> h.dst, psn |-> h.psn, key |-> 0, synd |-> h.synd])
     ELSE To(m, "qprx", Ext(n.dec.frame.e))

-----------------------------------------------------------------------------
(* The NIC and its host.                                                   *)

\* The elements a port of another is bound to.
Handle(n, elem, f) ==
  CASE elem = "cstream" -> Cstream(n, f)
    [] elem = "ethenc" -> Ethenc(n, f)
    [] elem = "txmux" -> Txmux(n, f)
    [] elem = "retrans" -> Retrans(n, f)
    [] elem = "dcqcn" -> Dcqcn(n, f)
    [] elem = "bthb" -> Bthb(n, f)
    [] elem = "qptx" -> QpTx(n, f)
    [] elem = "doorbell" -> Doorbell(n, f)
    [] elem = "cgen" -> Cgen(n, f)
    [] elem = "dmux" -> Dmux(n, f)
    [] elem = "mread" -> Mread(n, f)
    [] elem = "mwrite" -> Mwrite(n, f)
    [] elem = "atom" -> Atom(n, f)
    [] elem = "jrecv" -> Jrecv(n, f)
    [] elem = "dispatch" -> Dispatch(n, f)
    [] elem = "mrtab" -> Mrtab(n, f)
    [] elem = "bthp" -> Bthp(n, f)
    [] elem = "ackg" -> Ackg(n, f)
    [] elem = "qprx" -> Qprx(n, f)

\* The flits still to be taken, the most recent first.
RECURSIVE Run(_, _), Goes(_, _)
Run(n, work) == IF work = << >> THEN n ELSE Goes(Handle(n, work[1].elem, work[1].flit), Tail(work))
Goes(r, work) == Run(r.nic, r.out \o work)

\* drain_synchronous: sweeps over the elements that act without an input.
SweepDec(n) == IF n.dec.phase # 0 THEN Goes(EthdecTick(n), << >>) ELSE n
SweepEnc(n) == IF n.enc.mode = 1 THEN EncEmit(n) ELSE n
RECURSIVE Drain(_), DrainOn(_, _)
Drain(n) == DrainOn(n, SweepEnc(SweepDec(n)))
DrainOn(before, n) == IF n = before THEN n ELSE Drain(n)

\* pump_wire and wire_rx_b: the chunks go round until none is pending.
RECURSIVE PumpWire(_)
PumpWire(n) ==
  IF n.tx = << >> THEN n
  ELSE PumpWire(Drain(Ethdec([n EXCEPT !.tx = Tail(@)], Head(n.tx))))

Init ==
  /\ prog \in Programs
  /\ feed = FlattenSeq([i \in DOMAIN prog |-> <<Meta(prog[i]), Ext(prog[i].e)>>])
  /\ keys \in KeySets
  /\ nic = NicInit
  /\ got = << >>

\* mmio_b, a write that completes the doorbell slot.
Write ==
  /\ feed # << >>
  /\ feed' = Tail(feed)
  /\ nic' = PumpWire(Drain(Run(nic, At("doorbell", Head(feed)))))
  /\ UNCHANGED <<prog, keys, got>>

\* The flits of lane 0 = 0 at the head of the queue are skipped.
Shown(q) == SelectInSeq(q, LAMBDA c : c.op # "zero")

\* mmio_b, a read of the completion slot.  (Mutant: any read clears the pin.)
Clears_Always(q) == TRUE
Clears(q) == q = << >>
Read ==
  LET k == Shown(nic.cqe)
      rest == SubSeq(nic.cqe, k + 1, Len(nic.cqe))
  IN /\ nic.cqe # << >>
     /\ IF k = 0
        THEN /\ nic' = [nic EXCEPT !.cqe = << >>]
             /\ got' = got
        ELSE /\ nic' = [nic EXCEPT !.cqe = rest, !.irq = IF Clears(rest) THEN FALSE ELSE @]
             /\ got' = Append(got, nic.cqe[k])
     /\ UNCHANGED <<prog, feed, keys>>

Next == Write \/ Read
Spec == Init /\ [][Next]_vars

-----------------------------------------------------------------------------
(* Properties.                                                             *)

\* The valid requests whose two flits are written, in the order written.
Posted ==
  SelectSeq(SubSeq(prog, 1, (2 * Len(prog) - Len(feed)) \div 2), LAMBDA w : w.valid)

\* The value of a word after the atomics of a sequence of requests.
RECURSIVE WordAfter(_, _)
WordAfter(w, s) ==
  IF s = << >> THEN 0
  ELSE LET r == Last(s)
           v == WordAfter(w, Front(s))
       IN IF r.e.va # 8 * w THEN v
          ELSE IF r.op = "FAA" THEN v + r.e.swp
          ELSE IF r.op = "CAS" /\ v = r.e.cmp THEN r.e.swp ELSE v

\* RoCE_QP_RX lets every request pass once, in the order of its QP, with
\* consecutive numbers that wrap; a response in between changes nothing.  And
\* the memory holds what the atomics make it, each applied once, if the table
\* knows the key the wire carries, and nothing otherwise.
OnceInOrder ==
  /\ nic.passed =
       [i \in DOMAIN Posted |->
         [qp |-> Qp[Posted[i].qp],
          psn |-> Cardinality({j \in 1 .. i - 1 : Posted[j].qp = Posted[i].qp}) % PsnMod]]
  /\ \A w \in DOMAIN nic.mem : nic.mem[w] = IF 0 \in keys THEN WordAfter(w, Posted) ELSE 0

Real(s) == SelectSeq(s, LAMBDA c : c.op # "zero")
Completions == Real(got \o nic.cqe)
Ack(qp) == [op |-> "ACKNOWLEDGE", qp |-> qp, synd |-> "OK"]

\* What the host gets to see, as long as no completion was pushed out, are
\* exactly the acknowledgements of the requests RoCE_QP_RX took, each once and
\* in order, and before that of a send the one of RoCE_Comp_Gen, which is for
\* QP 0.  An acknowledgement means received: not that the MR table admitted
\* the request, and no data comes with it.
AcksExact ==
  nic.lost = << >> =>
    Completions = FlattenSeq([i \in DOMAIN Posted |->
      (IF Posted[i].op = "SEND" THEN <<Ack(0)>> ELSE << >>) \o <<Ack(Qp[Posted[i].qp])>>])

Count(s, ops) == Len(SelectSeq(s, LAMBDA x : x.op \in ops))

\* What RoCE_Comp_Gen and RoCE_Comp_Stream say they are for: reads come back as
\* READ_RESP, atomics as ATOMIC_ACK, with the data behind them.
ResponsesCome ==
  nic.lost = << >> /\ 0 \in keys =>
    /\ Count(Completions, {"READ_RESP"}) = Count(Posted, {"READ"})
    /\ Count(Completions, {"ATOMIC_ACK"}) = Count(Posted, AtomOps)

\* A host that sleeps until the pin is raised misses nothing: the pin is low
\* only when the queue is empty.
PinHonest == ~nic.irq => nic.cqe = << >>

Owed == Len(Posted) + Len(SelectSeq(Posted, LAMBDA w : w.op = "SEND"))

\* A completion is pushed out of the queue only when the host has left more
\* unread than the queue takes, two flits for each.
LostOnlyWhenBehind ==
  [][Real(nic'.lost) # Real(nic.lost)
       => 2 * (Owed' - Len(got) - Len(Real(nic.lost))) > CqCap]_vars
=============================================================================
