-------------------------------- MODULE UbNic --------------------------------
(***************************************************************************)
(* One NIC as the TLM build composes it (topology_tlm.cpp): every element  *)
(* is an operator that takes a NIC and a flit and returns the NIC after    *)
(* its handler ran, and the flits it puts out with the elements they go    *)
(* to.  Run passes them on: b_transport is a call, so what an element puts *)
(* out is taken to the end before the next port of the same element is     *)
(* emitted.  What an element does without an input (the emission phases of *)
(* UB_Eth_Decap and UB_Eth_Encap, the scan of UB_Jetty_Sched) happens in   *)
(* the sweeps of drain_synchronous.                                        *)
(*                                                                         *)
(* The feedback inputs (completions to UB_Jetty_Sched and                  *)
(* UB_OrderTracker_Initiator, acknowledgements to UB_TPChannel_TX and      *)
(* UB_Retrans_Buffer) have no source in this topology.  Requests carry     *)
(* no fence and no order tag: the elements that act on those are modelled  *)
(* in JettySched, OrderIni, OrderTgt and CompletionReorder.                *)
(*                                                                         *)
(* A metadata flit is a record of header fields.  Any other flit is the    *)
(* pair of what its bytes mean as an extension header (e) and as data (d). *)
(***************************************************************************)
EXTENDS Integers, Sequences, FiniteSets, FiniteSetsExt, Bitwise

CONSTANTS
  MaxIni,     \* MAX_INI of UB_Jetty_Sched
  IdleSweeps, \* idle_threshold of drain_synchronous
  HbmSize,    \* HBM_SIZE of the memories, in bytes
  Tokens,     \* token ids the MR table holds; each covers the whole memory
  Groups,     \* Jetty group: tcid -> [members, policy]
  Channels    \* num_channels of the TP group

ASSUME NicAssumption ==
  /\ MaxIni \in Nat \ {0} /\ IdleSweeps \in Nat \ {0} /\ Channels \in Nat \ {0}
  /\ HbmSize \in {8 * w : w \in 1 .. HbmSize}
  /\ \A g \in DOMAIN Groups : Groups[g].members # << >>

WIRE_MAX == 384
HdrBytes == 58
ChunkBytes == 32
PsnMod == 16777216
RxBits == 64
RxWindow == 8
QueueDepth == 32

WriteOps == {"WRITE", "WRITE_BE", "WRITE_IMM", "WRITE_NOTIFY", "WRITEBACK", "WRITEBACK_BE"}
SendOps == {"SEND", "SEND_IMM"}
AtomicOps == {"CAS", "SWAP", "STORE", "LOAD", "FAA", "FSUB", "FAND", "FOR", "FXOR"}
RespOps == {"TAACK", "READ_RESP", "ATOMIC_RESP"}
AckOps == {"TPACK", "TPACK_CC", "TPSACK", "TPSACK_CC", "CNP"}

\* The fields of ub_ext; the bytes of a padded frame read as this.
ZeroExt == [addr |-> 0, len |-> 0, tok |-> 0, tv |-> 0, opd |-> 0, tc |-> 0, hint |-> 0]
\* Data bytes read as an extension header: an address outside the memory.
DataExt == [ZeroExt EXCEPT !.addr = HbmSize, !.len = ChunkBytes]
ZeroPiece == [e |-> ZeroExt, d |-> "zero"]

\* A metadata flit as a driver leaves it, and a flit that follows one.
Meta(op, svc, t, rc) ==
  [sop |-> TRUE, eop |-> FALSE, valid |-> TRUE, op |-> op, svc |-> svc, t |-> t, rc |-> rc,
   tv |-> TRUE, mt |-> FALSE, nlp |-> "none", tpop |-> "UTP", psn |-> 0, dtpn |-> 0,
   resp |-> FALSE, st |-> "OK", fecn |-> FALSE]
Body(e, d, eop) == [sop |-> FALSE, eop |-> eop, e |-> e, d |-> d]

NoFrame == [h |-> Meta("none", "ROI", 0, 0), e |-> ZeroExt, pay |-> << >>, len |-> 0]
NoFlit == Body(ZeroExt, "none", FALSE)

-----------------------------------------------------------------------------
(* The state of the elements, and the queues of the facade.                *)

NicInit ==
  [js |-> [q |-> [i \in 0 .. MaxIni - 1 |-> << >>], rr |-> 0, cur |-> 0, in |-> FALSE,
           act |-> 0, out |-> FALSE],
   ord |-> FALSE, tpg |-> 0, psn_next |-> 0, inflight |-> 0, rtx |-> FALSE,
   enc |-> [mode |-> 0, in |-> FALSE, frame |-> NoFrame, off |-> 0],
   dec |-> [phase |-> 0, frame |-> NoFrame, bytes |-> 0, off |-> 0],
   go_utp |-> FALSE, is_ack |-> FALSE, is_resp |-> FALSE,
   rx |-> [valid |-> FALSE, epsn |-> 0, bitmap |-> {}, in |-> FALSE],
   ro |-> [base |-> 0, a |-> [j \in 0 .. RxWindow - 1 |-> NoFlit],
           b |-> [j \in 0 .. RxWindow - 1 |-> NoFlit], meta |-> FALSE, ext |-> FALSE],
   mr |-> [meta |-> FALSE, ext |-> FALSE, send |-> FALSE],
   cur_port |-> 5,
   rd |-> FALSE,
   wr |-> [meta |-> FALSE, ext |-> FALSE, addr |-> 0, left |-> 0],
   at |-> [meta |-> FALSE, op |-> "none"],
   jg |-> [valid |-> FALSE, member |-> 0,
           rr |-> [g \in DOMAIN Groups |-> 0],
           depth |-> [g \in DOMAIN Groups |-> [k \in DOMAIN Groups[g].members |-> 0]]],
   have_meta |-> FALSE, drop_pkt |-> FALSE, cq |-> FALSE,
   hbm |-> [w \in 0 .. HbmSize \div 8 - 1 |-> 0],  \* UB_HBM_Atomic's memory, by word
   cqe |-> << >>, tx |-> << >>,                    \* cqe_queue_, wire_tx_queue_
   \* History: the requests as UB_TPChannel_TX numbered them; the one the
   \* memories work on; the stores of UB_HBM_Write; the receive queue each
   \* send went to; the requests whose last flit reached UB_Completion_Gen.
   issued |-> << >>, now |-> 0, stores |-> << >>, recvs |-> << >>, done |-> << >>]

\* What a handler returns: the NIC, and flits for other elements.
At(elem, f) == <<[elem |-> elem, flit |-> f]>>
To(n, elem, f) == [nic |-> n, out |-> At(elem, f)]
Sink(n) == [nic |-> n, out |-> << >>]

-----------------------------------------------------------------------------
(* The completion stream.                                                  *)

\* UB_CQE_Stream: a completion for a metadata flit, a data flit for the rest.
CqeStream(n, f) ==
  Sink(IF f.sop
       THEN [n EXCEPT !.cq = TRUE, !.cqe = Append(@, [op |-> f.op, t |-> f.t, st |-> f.st])]
       ELSE IF n.cq
       THEN [n EXCEPT !.cq = ~f.eop, !.cqe = Append(@, [op |-> "data", t |-> f.e.opd, st |-> "OK"])]
       ELSE n)

-----------------------------------------------------------------------------
(* The frame on the wire.                                                  *)

NeedsMae(h) == h.op \in WriteOps \cup {"READ", "PREFETCH_TGT"} \cup AtomicOps
NeedsMt(h) == h.mt \/ h.op \in SendOps

\* Offset of the first byte behind the extension headers.
ExtEnd(h) ==
  HdrBytes + (IF NeedsMae(h) THEN 16 + (IF h.tv THEN 4 ELSE 0) ELSE 0)
           + (IF NeedsMt(h) THEN 4 ELSE 0)
           + (IF h.op \in AtomicOps THEN 8 ELSE 0)

\* What the header keeps: a UTP header has no PSN, a response no order byte.
WireHdr(m) ==
  [m EXCEPT !.psn = IF m.nlp = "UTPH" THEN 0 ELSE @,
            !.st = IF m.nlp = "UTPH" THEN "OK" ELSE @,
            !.mt = @ /\ m.op \notin RespOps]

\* What the extension headers keep.
WireExt(h, e) ==
  [addr |-> IF NeedsMae(h) THEN e.addr ELSE 0, len |-> IF NeedsMae(h) THEN e.len ELSE 0,
   tok |-> IF NeedsMae(h) THEN e.tok ELSE 0, tv |-> IF NeedsMae(h) /\ h.tv THEN e.tv ELSE 0,
   opd |-> IF h.op \in AtomicOps THEN e.opd ELSE 0,
   tc |-> IF NeedsMt(h) THEN e.tc ELSE 0, hint |-> IF NeedsMt(h) THEN e.hint ELSE 0]

\* One chunk of the frame goes out; the last one resets the element.  (The
\* chunk that ends a frame stands for its bytes.)
EncEmit(n) ==
  LET last == n.enc.off + ChunkBytes >= n.enc.frame.len
      chunk == [sop |-> n.enc.off = 0, eop |-> last,
                frame |-> IF last THEN n.enc.frame ELSE NoFrame]
  IN [n EXCEPT !.tx = Append(@, chunk),
               !.enc = IF last THEN NicInit.enc ELSE [@ EXCEPT !.off = @ + ChunkBytes]]

\* A flit waits at the input until the frame before it has gone out.
RECURSIVE EncFlush(_)
EncFlush(n) == IF n.enc.mode = 2 THEN EncFlush(EncEmit(n)) ELSE n

\* A metadata flit starts a frame, also when the frame before is unfinished.
EncHeader(n, f) ==
  [n EXCEPT !.enc = [mode |-> IF f.eop THEN 2 ELSE 0, in |-> TRUE, off |-> 0,
                     frame |-> [NoFrame EXCEPT !.h = WireHdr(f), !.len = HdrBytes]]]

EncExt(n, f) ==
  LET h == n.enc.frame.h
      more == ~f.eop \/ (h.op \in WriteOps /\ f.e.len > 8)
  IN [n EXCEPT !.enc.mode = IF more THEN 1 ELSE 2,
               !.enc.frame.e = WireExt(h, f.e), !.enc.frame.len = ExtEnd(h)]

EncPayload(n, f) ==
  LET copy == Min({ChunkBytes, WIRE_MAX - n.enc.frame.len})
  IN [n EXCEPT !.enc.mode = IF f.eop THEN 2 ELSE 1,
               !.enc.frame.len = @ + copy,
               !.enc.frame.pay = IF copy > 0 THEN Append(@, [e |-> f.e, d |-> f.d]) ELSE @]

\* UB_Eth_Encap; a flit waits until the frame before it has gone out.
Encode(n, f) ==
  IF n.enc.mode = 1
  THEN EncPayload(n, IF f.sop THEN Body(DataExt, "meta", f.eop) ELSE f)
  ELSE IF f.sop THEN EncHeader(n, f)
  ELSE IF n.enc.in THEN EncExt(n, f) ELSE n
Ethenc(n, f) == Sink(Encode(EncFlush(n), f))

\* UB_NTH_Builder.
NthB(n, f) ==
  To(n, "ethenc", IF f.sop /\ f.nlp = "none" THEN [f EXCEPT !.nlp = "RTPH"] ELSE f)

\* UB_Mux in front of it: its cursor passes every input within eight cycles,
\* so a flit goes through before the call that offers it returns.
TxMux(n, f) == To(n, "nth_b", f)

-----------------------------------------------------------------------------
(* Requests on their way out.                                              *)

\* UB_RTPH_Builder.
RtphB(n, f) ==
  To(n, "tx_mux", IF f.sop /\ f.nlp # "UTPH" /\ f.svc # "UNO"
                  THEN [f EXCEPT !.tpop = "DATA", !.fecn = FALSE, !.nlp = "RTPH"] ELSE f)

\* (Mutant: the packet ends with its first flit.)
Retrans_Short(n, f) ==
  IF f.sop THEN To([n EXCEPT !.rtx = TRUE], "rtph_b", f)
  ELSE IF n.rtx THEN To([n EXCEPT !.rtx = FALSE], "rtph_b", f)
  ELSE Sink(n)
\* UB_Retransmit_Buffer: what it passes on; its slots are in RtpSend.
Retrans(n, f) ==
  IF f.sop THEN To([n EXCEPT !.rtx = TRUE], "rtph_b", f)
  ELSE IF n.rtx THEN To([n EXCEPT !.rtx = ~f.eop], "rtph_b", f)
  ELSE Sink(n)

\* UB_Cong_Window counts the bytes in flight and holds nothing back.
Cwnd(n, f) == To([n EXCEPT !.inflight = @ + (IF f.sop THEN 64 ELSE 0)], "retrans", f)

\* UB_TPChannel_TX numbers the packets of the reliable modes.
TpcTx(n, f) ==
  IF ~f.sop THEN To(n, "cwnd", f)
  ELSE LET m == [n EXCEPT !.issued = Append(@, f.t)] IN
       IF f.svc = "UNO"
       THEN To(m, "cwnd", [f EXCEPT !.nlp = "UTPH", !.tpop = "UTP", !.psn = 0])
       ELSE To([m EXCEPT !.psn_next = (@ + 1) % PsnMod], "cwnd",
               [f EXCEPT !.nlp = "RTPH", !.psn = n.psn_next, !.dtpn = 0])

\* UB_TPG_Group spreads packets over the channels of a group.
Tpg(n, f) ==
  IF f.sop /\ Channels > 1
  THEN To([n EXCEPT !.tpg = @ + 1], "tpc_tx", [f EXCEPT !.dtpn = n.tpg % Channels])
  ELSE To(n, "tpc_tx", f)

\* UB_BTAH_Builder.
BtahB(n, f) == To(n, "tpg", IF f.sop THEN [f EXCEPT !.resp = FALSE] ELSE f)

\* UB_OrderTracker_Initiator: requests without an order tag.
OrdIni(n, f) ==
  IF f.sop \/ n.ord THEN To([n EXCEPT !.ord = ~f.eop], "btah_b", f) ELSE Sink(n)

\* UB_Jetty_Sched: between packets the cursor moves by one queue a cycle and
\* takes a packet only from the queue it stands at.
Picked(js) == ~js.out /\ js.q[js.rr] # << >> /\ Head(js.q[js.rr]).sop
\* (Mutant: a cursor that waits.)
JschedPick_Waits(js) ==
  IF js.out \/ ~Picked(js) THEN js
  ELSE [js EXCEPT !.rr = (@ + 1) % MaxIni, !.act = js.rr, !.out = TRUE]
JschedPick(js) ==
  IF js.out THEN js
  ELSE [js EXCEPT !.rr = (@ + 1) % MaxIni, !.act = IF Picked(js) THEN js.rr ELSE @,
                  !.out = Picked(js)]
JschedEmits(n) == LET js == JschedPick(n.js) IN js.out /\ js.q[js.act] # << >>
JschedCycle(n) ==
  LET js == JschedPick(n.js) IN
  IF JschedEmits(n)
  THEN LET f == Head(js.q[js.act]) IN
       To([n EXCEPT !.js = [js EXCEPT !.q[js.act] = Tail(@), !.out = ~f.eop]], "ord_ini", f)
  ELSE Sink([n EXCEPT !.js = js])

JschedEnqueue(js, f) ==
  LET i == IF f.sop THEN f.rc % MaxIni ELSE js.cur
      kept == (f.sop \/ js.in) /\ Len(js.q[i]) < QueueDepth - 1
  IN [js EXCEPT !.q[i] = IF kept THEN Append(@, f) ELSE @,
                !.cur = IF f.sop THEN i ELSE @, !.in = (f.sop \/ js.in) /\ ~f.eop]

\* A stray flit returns before the scan.
Jsched(n, f) ==
  IF ~f.sop /\ ~n.js.in THEN Sink(n)
  ELSE JschedCycle([n EXCEPT !.js = JschedEnqueue(@, f)])

\* UB_WR_Doorbell.
Doorbell(n, f) == IF f.sop /\ ~f.valid THEN Sink(n) ELSE To(n, "jsched", f)

-----------------------------------------------------------------------------
(* Responses on their way out.                                             *)

\* UB_TAACK_Gen.
Taack(n, f) ==
  LET drop == IF f.sop THEN f.svc \in {"UNO", "ROL"} ELSE n.drop_pkt
      m == [n EXCEPT !.drop_pkt = drop /\ ~f.eop]
  IN IF drop THEN Sink(m) ELSE To(m, "tx_mux", f)

\* UB_Completion_Reorder: responses without the completion-order bit.
CompReord(n, f) == To(n, "taack", f)

\* UB_Completion_Gen turns the request around.
CompGen(n, f) ==
  IF f.sop
  THEN To([n EXCEPT !.have_meta = TRUE], "comp_reord",
          [f EXCEPT !.resp = TRUE, !.st = "OK",
                    !.op = IF f.op = "READ" THEN "READ_RESP"
                           ELSE IF f.op \in AtomicOps THEN "ATOMIC_RESP" ELSE "TAACK"])
  ELSE IF n.have_meta
  THEN To([n EXCEPT !.have_meta = ~f.eop,
                    !.done = IF f.eop THEN Append(@, n.now) ELSE @], "comp_reord", f)
  ELSE Sink(n)

DispatchMux(n, f) == To(n, "comp_gen", f)

-----------------------------------------------------------------------------
(* The memories and the receive queues.                                    *)

Jrecv(n, f) == To(n, "dispatch_mux", f)

\* The member a group gives a send: by hint, in turn, or the least loaded.
Member(n, g, hint) ==
  LET mem == DOMAIN Groups[g].members
      k == Cardinality(mem)
      depth == n.jg.depth[g]
  IN CASE Groups[g].policy = "HINT" -> (hint % k) + 1
       [] Groups[g].policy = "RR" -> n.jg.rr[g] + 1
       [] OTHER -> Min({i \in mem : \A j \in mem : depth[i] <= depth[j]})

\* UB_Jetty_Group picks at the extension flit of a send.
Jgrp(n, f) ==
  IF f.sop
  THEN To([n EXCEPT !.jg.valid = f.op \in SendOps /\ ~f.eop], "jrecv", f)
  ELSE LET first == n.jg.valid /\ n.jg.member = 0
           g == f.e.tc
           hit == first /\ g \in DOMAIN Groups
           k == Member(n, g, f.e.hint)
           tc == IF hit THEN Groups[g].members[k] ELSE g
           jg == [n.jg EXCEPT
                    !.valid = @ /\ ~first /\ ~f.eop,
                    !.member = IF f.eop THEN 0 ELSE IF hit THEN tc ELSE @,
                    !.rr = IF hit /\ Groups[g].policy = "RR"
                           THEN [@ EXCEPT ![g] = (@ + 1) % Len(Groups[g].members)] ELSE @,
                    !.depth = IF hit THEN [@ EXCEPT ![g][k] = @ + 1] ELSE @]
       IN To([n EXCEPT !.jg = jg,
                       !.recvs = IF first THEN Append(@, [t |-> n.now, tc |-> tc]) ELSE @],
             "jrecv", [f EXCEPT !.e.tc = tc])

\* (Mutant: a swap that does not compare.)
AtomicResult_NoCompare(op, cur, e) ==
  CASE op = "CAS" -> e.tv
    [] op = "FAA" -> cur + e.opd
    [] OTHER -> cur
\* The new value of a word; CAS takes its new value from token_value.
AtomicResult(op, cur, e) ==
  CASE op = "CAS" -> IF cur = e.opd THEN e.tv ELSE cur
    [] op \in {"SWAP", "STORE"} -> e.opd
    [] op = "LOAD" -> cur
    [] op = "FAA" -> cur + e.opd
    [] op = "FSUB" -> cur - e.opd
    [] op = "FAND" -> cur & e.opd
    [] op = "FOR" -> cur | e.opd
    [] op = "FXOR" -> cur ^^ e.opd

\* UB_HBM_Atomic: every flit of the packet behind the metadata flit is taken
\* as an operation.
Atom(n, f) ==
  IF f.sop THEN To([n EXCEPT !.at = [meta |-> TRUE, op |-> f.op]], "dispatch_mux", f)
  ELSE IF ~n.at.meta THEN Sink(n)
  ELSE LET w == f.e.addr \div 8
           m == [n EXCEPT !.at = IF f.eop THEN [meta |-> FALSE, op |-> "none"] ELSE @]
       IN IF n.at.op \in AtomicOps /\ f.e.addr + 8 <= HbmSize
          THEN To([m EXCEPT !.hbm[w] = AtomicResult(n.at.op, @, f.e)], "dispatch_mux",
                  [f EXCEPT !.e.opd = n.hbm[w]])
          ELSE To(m, "dispatch_mux", f)

\* UB_HBM_Write: an inline write of at most eight bytes, or payload.
Store(n, addr, take, d) ==
  IF addr + take <= HbmSize
  THEN Append(n.stores, [t |-> n.now, addr |-> addr, take |-> take, d |-> d])
  ELSE n.stores
\* The rest of the payload goes behind what is stored.  (Mutant: on top of it.)
Advance_Still(wr, take) == [wr EXCEPT !.left = @ - take]
Advance(wr, take) == [wr EXCEPT !.addr = @ + take, !.left = @ - take]
HbmWr(n, f) ==
  LET fin == NicInit.wr IN
  IF f.sop
  THEN To([n EXCEPT !.wr = [fin EXCEPT !.meta = TRUE]], "dispatch_mux", f)
  ELSE IF n.wr.meta /\ ~n.wr.ext
  THEN To([n EXCEPT !.wr = IF f.eop THEN fin
                           ELSE [@ EXCEPT !.ext = TRUE, !.addr = f.e.addr, !.left = f.e.len],
                    !.stores = IF f.eop /\ f.e.len <= 8
                               THEN Store(n, f.e.addr, f.e.len, f.e.opd) ELSE @], "dispatch_mux", f)
  ELSE IF n.wr.meta /\ n.wr.left > 0
  THEN LET take == Min({ChunkBytes, n.wr.left}) IN
       To([n EXCEPT !.wr = IF f.eop THEN fin ELSE Advance(@, take),
                    !.stores = Store(n, n.wr.addr, take, f.d)], "dispatch_mux", f)
  ELSE Sink(n)

\* UB_HBM_Read.  Its memory is not the one UB_HBM_Write fills: it stays zero.
HbmRd(n, f) ==
  IF f.sop THEN To([n EXCEPT !.rd = TRUE], "dispatch_mux", f)
  ELSE IF n.rd THEN To([n EXCEPT !.rd = ~f.eop], "dispatch_mux", [f EXCEPT !.e.opd = 0])
  ELSE Sink(n)

\* UB_Target_Dispatch: the element that serves the packet; port 5 is a sink.
Dispatch(n0, f) ==
  LET n == IF f.sop
           THEN [n0 EXCEPT !.now = f.t,
                           !.cur_port = IF f.op = "READ" THEN 1
                                        ELSE IF f.op \in WriteOps THEN 2
                                        ELSE IF f.op \in AtomicOps THEN 3
                                        ELSE IF f.op \in SendOps THEN 4 ELSE 5]
           ELSE n0
  IN CASE n.cur_port = 1 -> To(n, "hbm_rd", f)
       [] n.cur_port = 2 -> To(n, "hbm_wr", f)
       [] n.cur_port = 3 -> To(n, "atom", f)
       [] n.cur_port = 4 -> To(n, "jgrp", f)
       [] n.cur_port = 5 -> Sink(n)

\* UB_MR_Table: a send has no token; a token or range that is not known sends
\* the extension flit, and only that flit, to the error port.
MrTab(n, f) ==
  IF f.sop
  THEN To([n EXCEPT !.mr = [meta |-> TRUE, ext |-> FALSE, send |-> f.op \in SendOps]], "dispatch", f)
  ELSE IF ~n.mr.meta THEN Sink(n)
  ELSE LET m == [n EXCEPT !.mr = IF f.eop THEN NicInit.mr ELSE [@ EXCEPT !.ext = TRUE]] IN
       IF n.mr.send \/ n.mr.ext \/ (f.e.tok \in Tokens /\ f.e.addr + f.e.len <= HbmSize)
       THEN To(m, "dispatch", f) ELSE Sink(m)

-----------------------------------------------------------------------------
(* Packets on their way in.                                                *)

\* UB_OrderTracker_Target: requests without an order tag.
OrdTgt(n, f) == To(n, "mr_tab", f)

\* UB_BTAH_Parser.
BtahP(n, f) ==
  LET resp == IF f.sop THEN f.resp ELSE n.is_resp
      m == [n EXCEPT !.is_resp = resp]
  IN IF resp THEN To(m, "cqe_stream", f) ELSE To(m, "ord_tgt", f)

\* UB_PSN_Reorder.  Of the flits one cycle puts out the last one is seen.
ReorderMeta(n, f) ==
  LET off == (f.psn - n.ro.base) % PsnMod
      ro == IF off < RxWindow THEN [n.ro EXCEPT !.ext = FALSE, !.meta = TRUE, !.a[off] = f]
            ELSE [n.ro EXCEPT !.ext = FALSE]
      run == Max({k \in 1 .. RxWindow : \A j \in 0 .. k - 1 : ro.a[j] # NoFlit})
      sh(s) == [j \in 0 .. RxWindow - 1 |-> IF j + run < RxWindow THEN s[j + run] ELSE NoFlit]
      final == IF ro.b[run - 1] # NoFlit THEN ro.b[run - 1] ELSE ro.a[run - 1]
  IN IF off = 0
     THEN To([n EXCEPT !.ro = [ro EXCEPT !.a = sh(@), !.b = sh(@),
                                         !.base = (@ + run) % PsnMod]], "btah_p", final)
     ELSE Sink([n EXCEPT !.ro = ro])
ReorderBody(n, f) ==
  LET waiting == {j \in 0 .. RxWindow - 1 : n.ro.a[j] # NoFlit /\ n.ro.b[j] = NoFlit}
  IN IF ~n.ro.meta THEN Sink(n)
     ELSE IF ~n.ro.ext /\ waiting # {}
     THEN Sink([n EXCEPT !.ro.b[Min(waiting)] = f, !.ro.meta = FALSE])
     ELSE To([n EXCEPT !.ro.meta = ~f.eop, !.ro.ext = ~f.eop], "btah_p", f)
Reorder(n, f) == IF f.sop THEN ReorderMeta(n, f) ELSE ReorderBody(n, f)

\* UB_UTPH_Parser.
UtphP(n, f) == To(n, "btah_p", IF f.sop THEN [f EXCEPT !.svc = "UNO"] ELSE f)

\* UB_TPACK_Gen: one metadata flit; a negative acknowledgement looks the same.
Tpack(n, d) ==
  To(n, "tx_mux", [Meta("TAACK", "ROI", 0, 0) EXCEPT !.tpop = d.kind, !.psn = d.psn, !.nlp = "RTPH",
                                                     !.tv = FALSE, !.resp = TRUE, !.eop = TRUE])

\* UB_TPChannel_RX.
TpcRx(n, f) ==
  IF ~f.sop THEN IF n.rx.in THEN To(n, "reorder", f) ELSE Sink(n)
  ELSE
  LET rx == IF n.rx.valid THEN n.rx
            ELSE [valid |-> TRUE, epsn |-> f.psn, bitmap |-> {}, in |-> FALSE]
      diff == (f.psn - rx.epsn) % PsnMod
      ahead == diff \in 1 .. PsnMod \div 2 - 1
      behind == diff >= PsnMod \div 2
      \* The next PSN, past the ones the bitmap marks; bit 0 is epsn's.
      step == Min({k \in 1 .. RxBits : k \notin rx.bitmap})
      now == [rx EXCEPT !.in = diff < RxBits,
                        !.epsn = IF diff = 0 THEN (@ + step) % PsnMod ELSE @,
                        !.bitmap = IF diff = 0 THEN {b - step : b \in {x \in @ : x > step}}
                                   ELSE IF diff < RxBits THEN @ \cup {diff} ELSE @]
      ack == [kind |-> IF ahead /\ now.in THEN "TPSACK" ELSE "TPACK",
              psn |-> IF ahead THEN now.epsn ELSE (now.epsn - 1) % PsnMod]
  IN [nic |-> [n EXCEPT !.rx = now],
      out |-> (IF now.in THEN At("reorder", f) ELSE << >>) \o At("tpack", ack)]

\* UB_Cong_Echo: a marked packet is answered by a CNP behind it.
CongEcho(n, f) ==
  LET cnp == [Meta("SEND", "ROI", 0, 0) EXCEPT !.tpop = "CNP", !.nlp = "RTPH", !.tv = FALSE,
                                               !.resp = TRUE, !.eop = TRUE]
  IN [nic |-> n,
      out |-> At("tpc_rx", f) \o (IF f.sop /\ f.fecn THEN At("tx_mux", cnp) ELSE << >>)]

\* UB_RTPH_Parser.
RtphP(n, f) ==
  LET ack == IF f.sop THEN f.tpop \in AckOps ELSE n.is_ack
      m == [n EXCEPT !.is_ack = ack]
  IN IF ack THEN To(m, "cqe_stream", f) ELSE To(m, "cong_echo", f)

\* UB_NTH_Parser.
NthP(n, f) ==
  LET utp == IF f.sop THEN f.nlp = "UTPH" ELSE n.go_utp
      m == [n EXCEPT !.go_utp = utp]
  IN IF utp THEN To(m, "utph_p", f) ELSE To(m, "rtph_p", f)

\* UB_Eth_Decap takes chunks until the frame is complete.
Ethdec(n, c) ==
  LET bytes == IF c.sop THEN ChunkBytes ELSE Min({WIRE_MAX, n.dec.bytes + ChunkBytes}) IN
  [n EXCEPT !.dec = IF c.eop /\ bytes >= HdrBytes
                    THEN [phase |-> 1, frame |-> c.frame, bytes |-> bytes, off |-> 0]
                    ELSE [@ EXCEPT !.bytes = bytes]]

\* (Mutant: the padding counts as payload.)
PayloadTotal_Padded(dec) == Max({0, dec.bytes - ExtEnd(dec.frame.h)})
\* The payload is what the chunks hold behind the headers, padding included,
\* cut to the length field if there is one.
PayloadTotal(dec) ==
  LET rest == Max({0, dec.bytes - ExtEnd(dec.frame.h)}) IN
  IF dec.frame.e.len > 0 THEN Min({rest, dec.frame.e.len}) ELSE rest

\* The metadata flit as parsed: what kind it is follows from its opcode.
Parsed(h) ==
  [h EXCEPT !.resp = h.op \in RespOps, !.svc = IF h.nlp = "UTPH" THEN "UNO" ELSE @]

\* One emission phase: metadata, extension, payload.
EthdecTick(n) ==
  LET d == n.dec
      total == PayloadTotal(d)
      ext == NeedsMae(d.frame.h) \/ NeedsMt(d.frame.h)
      k == d.off \div ChunkBytes + 1
      piece == IF k <= Len(d.frame.pay) THEN d.frame.pay[k] ELSE ZeroPiece
      last == d.off + ChunkBytes >= total
      next(p) == [n EXCEPT !.dec = IF p = 0 THEN NicInit.dec ELSE [@ EXCEPT !.phase = p]]
  IN CASE d.phase = 1 ->
            To(next(IF ext THEN 2 ELSE IF total > 0 THEN 3 ELSE 0), "nth_p",
               [Parsed(d.frame.h) EXCEPT !.eop = ~ext /\ total = 0])
       [] d.phase = 2 ->
            To(next(IF total > 0 THEN 3 ELSE 0), "nth_p", Body(d.frame.e, "ext", total = 0))
       [] d.phase = 3 ->
            To(IF last THEN next(0) ELSE [n EXCEPT !.dec.off = @ + ChunkBytes], "nth_p",
               Body(piece.e, piece.d, last))

-----------------------------------------------------------------------------
(* The calls of the facade.                                                *)

\* The elements the ports of others are bound to.
Handle(n, elem, f) ==
  CASE elem = "cqe_stream" -> CqeStream(n, f)
    [] elem = "ethenc" -> Ethenc(n, f)
    [] elem = "nth_b" -> NthB(n, f)
    [] elem = "tx_mux" -> TxMux(n, f)
    [] elem = "rtph_b" -> RtphB(n, f)
    [] elem = "retrans" -> Retrans(n, f)
    [] elem = "cwnd" -> Cwnd(n, f)
    [] elem = "tpc_tx" -> TpcTx(n, f)
    [] elem = "tpg" -> Tpg(n, f)
    [] elem = "btah_b" -> BtahB(n, f)
    [] elem = "ord_ini" -> OrdIni(n, f)
    [] elem = "jsched" -> Jsched(n, f)
    [] elem = "doorbell" -> Doorbell(n, f)
    [] elem = "taack" -> Taack(n, f)
    [] elem = "comp_reord" -> CompReord(n, f)
    [] elem = "comp_gen" -> CompGen(n, f)
    [] elem = "dispatch_mux" -> DispatchMux(n, f)
    [] elem = "jrecv" -> Jrecv(n, f)
    [] elem = "jgrp" -> Jgrp(n, f)
    [] elem = "atom" -> Atom(n, f)
    [] elem = "hbm_wr" -> HbmWr(n, f)
    [] elem = "hbm_rd" -> HbmRd(n, f)
    [] elem = "dispatch" -> Dispatch(n, f)
    [] elem = "mr_tab" -> MrTab(n, f)
    [] elem = "ord_tgt" -> OrdTgt(n, f)
    [] elem = "btah_p" -> BtahP(n, f)
    [] elem = "reorder" -> Reorder(n, f)
    [] elem = "tpack" -> Tpack(n, f)
    [] elem = "tpc_rx" -> TpcRx(n, f)
    [] elem = "utph_p" -> UtphP(n, f)
    [] elem = "cong_echo" -> CongEcho(n, f)
    [] elem = "rtph_p" -> RtphP(n, f)
    [] elem = "nth_p" -> NthP(n, f)

\* The flits still to be taken, the most recent first.
RECURSIVE Run(_, _), Goes(_, _)
Run(n, work) == IF work = << >> THEN n ELSE Goes(Handle(n, work[1].elem, work[1].flit), Tail(work))
Goes(r, work) == Run(r.nic, r.out \o work)

\* One sweep over the elements that act without an input, in sweep order, and
\* whether any of them did something.
SweepDec(s) ==
  IF s.nic.dec.phase = 0 THEN s ELSE [nic |-> Goes(EthdecTick(s.nic), << >>), work |-> TRUE]
SweepEnc(s) == IF s.nic.enc.mode # 2 THEN s ELSE [nic |-> EncEmit(s.nic), work |-> TRUE]
SweepJsched(s) ==
  [nic |-> Goes(JschedCycle(s.nic), << >>), work |-> s.work \/ JschedEmits(s.nic)]
Sweep(n) == SweepJsched(SweepEnc(SweepDec([nic |-> n, work |-> FALSE])))

\* drain_synchronous: sweep until `threshold' sweeps in a row did nothing.
RECURSIVE Drain(_, _, _), DrainOn(_, _, _)
Drain(n, idle, threshold) == IF idle = threshold THEN n ELSE DrainOn(Sweep(n), idle, threshold)
DrainOn(s, idle, threshold) == Drain(s.nic, IF s.work THEN 0 ELSE idle + 1, threshold)

\* NIC_TLM::submit_wr and NIC_TLM::push_wire_rx.
SubmitWr(n, f) == Drain(Run(n, At("doorbell", f)), 0, IdleSweeps)
PushWireRx(n, c) == Drain(Ethdec(n, c), 0, IdleSweeps)
\* NIC_TLM::pop_cqe, when the queue is not empty.
PopCqe(n) == [n EXCEPT !.cqe = Tail(@)]
=============================================================================
