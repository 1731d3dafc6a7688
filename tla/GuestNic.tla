------------------------------- MODULE GuestNic -------------------------------
(***************************************************************************)
(* Guest processes on the kernel-path provider (openurma_provider_kernel)  *)
(* and the functional data plane of the NIC they share (NICTopologySC),    *)
(* on one node or on two nodes joined by the peer ring.                    *)
(*                                                                         *)
(* One process per context: it has registered with CLAIM and has its own   *)
(* doorbell slots, one jetty, and one JFC for sends and receives, as the   *)
(* applications of integration/umdk set them up.  The stores of a work     *)
(* request go to its own slots and are one step; those of a registration   *)
(* go to the one slot all processes share and are separate steps.  A node  *)
(* serves one MMIO access at a time, and its processes wait meanwhile;     *)
(* the other node does not.  It has one core (the default of --num-cores), *)
(* so the page table the NIC reads from core 0 when a registration fires   *)
(* is that of the process that made the store.                             *)
(*                                                                         *)
(* Memory cells stand for 4 KB pages, the unit of ou_dma_mr and of         *)
(* ou_copy_mr.  The copy through the SystemC pipeline (OPENURMA_PIPE_DATA) *)
(* is off; the pipeline gives a request its latency and its completions    *)
(* are dropped.                                                            *)
(***************************************************************************)
EXTENDS PeerRing, FiniteSets

CONSTANTS
  Proc, Home,      \* Home[p]: the node of process p
  Jetty, Jfc,      \* Jetty[p], Jfc[p]: the ids of its jetty and JFC
  Token0,          \* the token sequences of the nodes at the start
  TokenMod,        \* token ids are taken modulo 64
  CqCap, RecvCap,  \* lengths of a completion queue and of dp_recv_q_
  SlotCells,       \* the payload a ring slot takes
  Cells,           \* the pages that are mapped
  Programs,        \* what may run: the calls of each process, with a peer or without
  None

\* No two processes of a node share a jetty or JFC id: each node's driver counts
\* its own.
ASSUME GuestAssumption ==
  /\ Home \in [Proc -> Node] /\ None \notin Proc
  /\ \A p, q \in Proc : p # q /\ Home[p] = Home[q] => Jetty[p] # Jetty[q] /\ Jfc[p] # Jfc[q]

VARIABLES
  has_peer,        \* the NICs are joined by the ring
  todo,            \* the calls a process has yet to make
  token_seq,
  seg, reg,        \* its segment, and how many stores of the registration it made
  nic,             \* per node: assembly, MR table, dp_recv_q_, dp_pending_send_q_, CQs
  busy,            \* the process whose access the NIC is serving
  mem,             \* the memory of the processes
  done, torn       \* history: all completions; registrations others stored into

vars == <<has_peer, todo, token_seq, seg, reg, nic, busy, mem, done, torn, ringvars>>

NoFields == [va |-> 0, tok |-> 0, len |-> 0]
NoSeg == [tok |-> 0, va |-> 0, len |-> 0]

Init ==
  /\ RingInit
  /\ \E c \in Programs : todo = c.calls /\ has_peer = c.peer
  /\ token_seq \in Token0
  /\ seg = [p \in Proc |-> NoSeg]
  /\ reg = [p \in Proc |-> 0]
  /\ nic = [n \in Node |-> [asm |-> NoFields, mr |-> [t \in {} |-> NoSeg], recvq |-> << >>,
                            pend |-> << >>, cq |-> [j \in {Jfc[p] : p \in Proc} |-> << >>]]]
  /\ busy = [n \in Node |-> None]
  /\ mem = [p \in Proc |-> [a \in Cells |-> 0]]
  /\ done = [p \in Proc |-> << >>]
  /\ torn = [p \in Proc |-> FALSE]

-----------------------------------------------------------------------------
(* Registration.                                                           *)

Calls(p, call) ==
  /\ busy[Home[p]] = None
  /\ todo[p] # << >> /\ Head(todo[p]).call = call

\* A store by p into the shared slot tears the registrations that are under way.
Tears(p) == torn' = [q \in Proc |-> torn[q] \/ (q # p /\ Home[q] = Home[p] /\ reg[q] # 0)]

\* k_register_seg up to the first store: ou_register_seg hands out a token.  A
\* process of the model registers one segment.
RegisterSeg(p) ==
  LET n == Home[p] IN
  /\ Calls(p, "reg") /\ seg[p] = NoSeg
  /\ token_seq' = [token_seq EXCEPT ![n] = @ + 1]
  /\ seg' = [seg EXCEPT ![p] = [tok |-> token_seq'[n] % TokenMod,
                                va |-> Head(todo[p]).va, len |-> Head(todo[p]).len]]
  /\ nic' = [nic EXCEPT ![n].asm.va = Head(todo[p]).va]
  /\ reg' = [reg EXCEPT ![p] = 1]
  /\ Tears(p)
  /\ UNCHANGED <<has_peer, todo, busy, mem, done, ringvars>>

\* The other stores, and mmio_b at REGISTER_MR_OFFSET: the token, the length,
\* and the padding, whose last word fires.  (Mutant: the token does.)
Fires_Early(p) == reg[p] = 1
Fires(p) == reg[p] = 3
StoreMr(p) ==
  LET n == Home[p]
      a == CASE reg[p] = 1 -> [nic[n].asm EXCEPT !.tok = seg[p].tok]
             [] reg[p] = 2 -> [nic[n].asm EXCEPT !.len = seg[p].len]
             [] OTHER -> nic[n].asm
      entry == [owner |-> p, va |-> a.va, len |-> a.len]
  IN
  /\ Calls(p, "reg") /\ reg[p] # 0
  /\ nic' = IF Fires(p)
            THEN [nic EXCEPT ![n].asm = NoFields,
                             ![n].mr = [t \in DOMAIN @ \cup {a.tok} |-> IF t = a.tok THEN entry ELSE @[t]]]
            ELSE [nic EXCEPT ![n].asm = a]
  /\ reg' = [reg EXCEPT ![p] = (@ + 1) % 4]
  /\ todo' = IF reg[p] = 3 THEN [todo EXCEPT ![p] = Tail(@)] ELSE todo
  /\ Tears(p)
  /\ UNCHANGED <<has_peer, token_seq, seg, busy, mem, done, ringvars>>

-----------------------------------------------------------------------------
(* Memory regions and completions.                                         *)

\* ou_dma_mr: the range is inside the region, and its pages are mapped.
InMr(n, tok, va, len) ==
  /\ tok \in DOMAIN nic[n].mr
  /\ LET m == nic[n].mr[tok] IN m.va <= va /\ va - m.va + len <= m.len
Valid(n, tok, va, len) == InMr(n, tok, va, len) /\ va .. va + len - 1 \subseteq Cells
Owner(n, tok) == nic[n].mr[tok].owner
Load(m, n, tok, va, len) == [i \in 1 .. len |-> m[Owner(n, tok)][va + i - 1]]
Store(m, n, tok, va, data) ==
  [m EXCEPT ![Owner(n, tok)] =
     [a \in Cells |-> IF a \in va .. va + Len(data) - 1 THEN data[a - va + 1] ELSE @[a]]]
\* ou_dma_mr writing: page by page, up to the first that is not mapped.
\* (Mutant: one page further.)
Mapped(va, data) ==
  SubSeq(data, 1, CHOOSE k \in 0 .. Len(data) :
                    va .. va + k - 1 \subseteq Cells /\ (k < Len(data) => va + k \notin Cells))
Land_Further(m, n, tok, va, data) ==
  IF InMr(n, tok, va, Len(data)) THEN Store(m, n, tok, va + 1, Mapped(va, data)) ELSE m
Land(m, n, tok, va, data) ==
  IF InMr(n, tok, va, Len(data)) THEN Store(m, n, tok, va, Mapped(va, data)) ELSE m

\* ou_copy_mr, chunk by chunk up to the first that fails.
Chunks(n, dtok, dva, stok, sva, len) ==
  LET Fits(i) == Valid(n, stok, sva + i, 1) /\ Valid(n, dtok, dva + i, 1) IN
  CHOOSE k \in 0 .. len : (\A i \in 0 .. k - 1 : Fits(i)) /\ (k < len => ~Fits(k))
Copied(n, dtok, dva, stok, sva, len) == len > 0 /\ Chunks(n, dtok, dva, stok, sva, len) = len
Copy(m, n, dtok, dva, stok, sva, len) ==
  LET k == Chunks(n, dtok, dva, stok, sva, len) IN
  IF k = 0 THEN m ELSE Store(m, n, dtok, dva, Load(m, n, stok, sva, k))

\* dp_push_cqe.  The fields p, with, at and data are history: the process, the
\* other process, and what went where.
Cqe(p, op, sr, ok, uctx, with, at, data) ==
  [jfc |-> Jfc[p], p |-> p, op |-> op, sr |-> sr, ok |-> ok, uctx |-> uctx,
   with |-> with, at |-> at, data |-> data]
Sent(p, w, ok) == Cqe(p, w.op, 0, ok, w.uctx, w.to, 0, w.val)
Newest(q, k) == IF Len(q) <= k THEN q ELSE SubSeq(q, Len(q) - k + 1, Len(q))
Push(cq, c) == [cq EXCEPT ![c.jfc] = Newest(Append(@, c), CqCap)]
Log(log, c) == [log EXCEPT ![c.p] = Append(@, c)]

\* A call pushes one completion or two.
Pushed(cq, cs) == IF Len(cs) = 1 THEN Push(cq, cs[1]) ELSE Push(Push(cq, cs[1]), cs[2])
Logged(cs) == IF Len(cs) = 1 THEN Log(done, cs[1]) ELSE Log(Log(done, cs[1]), cs[2])

\* find_recv: the oldest receive posted on a jetty, 0 if there is none.
\* (Mutant: the newest.)
FindRecv_Newest(q, j) ==
  LET found == {i \in DOMAIN q : q[i].jetty = j} IN
  IF found = {} THEN 0 ELSE CHOOSE k \in found : \A i \in found : i <= k
FindRecv(q, j) ==
  LET found == {i \in DOMAIN q : q[i].jetty = j} IN
  IF found = {} THEN 0 ELSE CHOOSE k \in found : \A i \in found : k <= i
Without(q, k) == IF k = 0 THEN q ELSE SubSeq(q, 1, k - 1) \o SubSeq(q, k + 1, Len(q))
Received(r, op, ok, from, at, data) == Cqe(r.p, op, 1, ok, r.uctx, from, at, data)

\* The completions cs of a call, and what the call leaves of the receives.
Finish(p, q, cs) ==
  LET n == Home[p] IN
  /\ nic' = [nic EXCEPT ![n].recvq = q,
                        ![n].cq = Pushed(@, cs)]
  /\ done' = Logged(cs)
  /\ todo' = [todo EXCEPT ![p] = Tail(@)]
  /\ UNCHANGED <<has_peer, token_seq, seg, reg, torn>>

-----------------------------------------------------------------------------
(* k_post_jetty_send_wr and mmio_b at the doorbell.                        *)

Writes == {"WRITE", "WRITE_IMM"}
Sends == {"SEND", "SEND_IMM"}

\* The call, the receive it finds, and the memory with the data the process
\* put into its buffer before.
Wr(p) == Head(todo[p])
Posts(p, ops) ==
  /\ Calls(p, "wr") /\ Wr(p).op \in ops
  /\ Wr(p).op \notin Sends => seg[Wr(p).to] # NoSeg /\ reg[Wr(p).to] = 0
Found(p) == FindRecv(nic[Home[p]].recvq, Jetty[Wr(p).to])
Written(p) ==
  [mem EXCEPT ![p] = [a \in Cells |-> IF a \in Wr(p).lva .. Wr(p).lva + Wr(p).len - 1
                                      THEN Wr(p).val ELSE @[a]]]
RemLocal(p) == seg[Wr(p).to].tok \in DOMAIN nic[Home[p]].mr

\* A write to a region of this node; without a peer, also one to no region.
PostWrite(p) ==
  LET n == Home[p]
      w == Wr(p)
      t == seg[w.to].tok
      ok == RemLocal(p) /\ Copied(n, t, w.rva, seg[p].tok, w.lva, w.len)
      k == IF w.op = "WRITE_IMM" /\ RemLocal(p) /\ w.len > 0 THEN Found(p) ELSE 0
      q == nic[n].recvq
  IN
  /\ Posts(p, Writes) /\ (RemLocal(p) \/ ~has_peer \/ w.len = 0)
  /\ mem' = IF RemLocal(p) THEN Copy(Written(p), n, t, w.rva, seg[p].tok, w.lva, w.len) ELSE Written(p)
  /\ Finish(p, Without(q, k),
            IF k = 0 THEN <<Sent(p, w, ok)>>
            ELSE <<Sent(p, w, ok), Received(q[k], w.op, ok, p, w.rva, w.val)>>)
  /\ UNCHANGED <<busy, ringvars>>

\* A read, from a region of this node only.
PostRead(p) ==
  LET n == Home[p]
      w == Wr(p)
      t == seg[w.to].tok
  IN
  /\ Posts(p, {"READ"})
  /\ mem' = Copy(mem, n, seg[p].tok, w.lva, t, w.rva, w.len)
  /\ Finish(p, nic[n].recvq, <<Sent(p, w, Copied(n, seg[p].tok, w.lva, t, w.rva, w.len))>>)
  /\ UNCHANGED <<busy, ringvars>>

\* An atomic, on a region of this node only: the old value goes to the local
\* buffer, and then the new one to the target.  (Mutant: the target is changed
\* first.)
AtomicMem_TargetFirst(n, rtok, rva, ltok, lva, old, new) ==
  IF ~Valid(n, rtok, rva, 1) THEN mem
  ELSE Land(Store(mem, n, rtok, rva, <<new>>), n, ltok, lva, <<old>>)
AtomicMem(n, rtok, rva, ltok, lva, old, new) ==
  IF Valid(n, rtok, rva, 1) /\ Valid(n, ltok, lva, 1)
  THEN Store(Store(mem, n, ltok, lva, <<old>>), n, rtok, rva, <<new>>)
  ELSE mem
PostAtomic(p) ==
  LET n == Home[p]
      w == Wr(p)
      t == seg[w.to].tok
      ok == Valid(n, t, w.rva, 1) /\ Valid(n, seg[p].tok, w.lva, 1)
      old == IF Valid(n, t, w.rva, 1) THEN mem[Owner(n, t)][w.rva] ELSE 0
      new == CASE w.op = "FADD" -> old + w.val
               [] w.op = "CAS" -> IF old = w.cmp THEN w.val ELSE old
               [] w.op = "SWAP" -> w.val
  IN
  /\ Posts(p, {"FADD", "CAS", "SWAP"})
  /\ mem' = AtomicMem(n, t, w.rva, seg[p].tok, w.lva, old, new)
  /\ Finish(p, nic[n].recvq, <<Cqe(p, w.op, 0, ok, w.uctx, w.to, w.rva, old)>>)
  /\ UNCHANGED <<busy, ringvars>>

\* dp_deliver_send: a send and a receive on this node meet.
PostSend(p) ==
  LET n == Home[p]
      w == Wr(p)
      r == nic[n].recvq[Found(p)]
      ok == Copied(n, r.tok, r.va, seg[p].tok, w.lva, w.len)
  IN
  /\ Posts(p, Sends) /\ Found(p) # 0
  /\ mem' = Copy(Written(p), n, r.tok, r.va, seg[p].tok, w.lva, w.len)
  /\ Finish(p, Without(nic[n].recvq, Found(p)), <<Sent(p, w, ok), Received(r, w.op, ok, p, r.va, w.val)>>)
  /\ UNCHANGED <<busy, ringvars>>

\* A send before its receive, on a node without a peer.
PostPending(p) ==
  /\ Posts(p, Sends) /\ Found(p) = 0 /\ ~has_peer
  /\ mem' = Written(p)
  /\ nic' = [nic EXCEPT ![Home[p]].pend = Append(@, [jetty |-> Jetty[Wr(p).to], p |-> p,
                                                     tok |-> seg[p].tok, w |-> Wr(p)])]
  /\ todo' = [todo EXCEPT ![p] = Tail(@)]
  /\ UNCHANGED <<has_peer, token_seq, seg, reg, busy, done, torn, ringvars>>

\* What goes to the peer: a write to a region this node does not know, a send
\* for which no receive is posted here.
ToPeer(p) ==
  /\ has_peer
  /\ \/ Posts(p, Writes) /\ ~RemLocal(p) /\ Wr(p).len > 0
     \/ Posts(p, Sends) /\ Found(p) = 0
Readable(p) == Valid(Home[p], seg[p].tok, Wr(p).lva, Wr(p).len)
Packet(p) ==
  LET w == Wr(p) IN
  [op |-> w.op, jetty |-> Jetty[w.to], tok |-> IF w.op \in Writes THEN seg[w.to].tok ELSE 0,
   va |-> IF w.op \in Writes THEN w.rva ELSE 0, len |-> w.len, val |-> w.val, from |-> p]
PostPeer(p) ==
  /\ ToPeer(p) /\ Readable(p) /\ Wr(p).len <= SlotCells
  /\ Fill(Home[p], Packet(p))
  /\ mem' = Written(p)
  /\ busy' = [busy EXCEPT ![Home[p]] = p]
  /\ UNCHANGED <<has_peer, todo, token_seq, seg, reg, nic, done, torn>>

\* The rest of peer_send; the completion reports success.
PeerSent(p) ==
  /\ busy[Home[p]] = p /\ Publish(Home[p])
  /\ Finish(p, nic[Home[p]].recvq, <<Sent(p, Wr(p), TRUE)>>)
  /\ busy' = [busy EXCEPT ![Home[p]] = None]
  /\ UNCHANGED mem

\* Nothing is sent when the buffer is not readable or the packet too big.
PostUnsent(p) ==
  /\ ToPeer(p) /\ ~(Readable(p) /\ Wr(p).len <= SlotCells)
  /\ mem' = Written(p)
  /\ Finish(p, nic[Home[p]].recvq, <<Sent(p, Wr(p), Readable(p) \/ Wr(p).op \in Sends)>>)
  /\ UNCHANGED <<busy, ringvars>>

-----------------------------------------------------------------------------
(* Receives and completions.                                               *)

\* ou_ring_recv and mmio_b at RECV_DB_OFFSET.  A send that waited is delivered
\* to the new receive, which stays in the queue.
PostRecv(p) ==
  LET n == Home[p]
      r == [jetty |-> Jetty[p], p |-> p, tok |-> seg[p].tok, va |-> Head(todo[p]).va,
            uctx |-> Head(todo[p]).uctx]
      all == Append(nic[n].recvq, r)
      q == IF Len(all) > RecvCap THEN Tail(all) ELSE all
      k == FindRecv(nic[n].pend, Jetty[p])
      s == nic[n].pend[k]
      ok == Copied(n, r.tok, r.va, s.tok, s.w.lva, s.w.len)
      cs == <<Sent(s.p, s.w, ok), Received(r, s.w.op, ok, s.p, r.va, s.w.val)>>
  IN
  /\ Calls(p, "recv")
  /\ IF k = 0
     THEN /\ mem' = mem /\ done' = done
          /\ nic' = [nic EXCEPT ![n].recvq = q]
     ELSE /\ mem' = Copy(mem, n, r.tok, r.va, s.tok, s.w.lva, s.w.len)
          /\ nic' = [nic EXCEPT ![n].recvq = q, ![n].pend = Without(@, k),
                                ![n].cq = Pushed(@, cs)]
          /\ done' = Logged(cs)
  /\ todo' = [todo EXCEPT ![p] = Tail(@)]
  /\ UNCHANGED <<has_peer, token_seq, seg, reg, busy, torn, ringvars>>

\* Who is polling, or may start to.
Polling(p) == busy[Home[p]] = None \/ (busy[Home[p]] = p /\ ~filled[Home[p]])

\* peer_apply, in peer_ring_drain: a packet for which there is no receive is
\* dropped.
PollDrain(p, d) ==
  LET n == Home[p]
      k == Oldest(d)
      data == [i \in 1 .. k.len |-> k.val]
      i == IF k.op = "WRITE" THEN 0 ELSE FindRecv(nic[n].recvq, k.jetty)
      r == nic[n].recvq[i]
      tok == IF k.op \in Writes THEN k.tok ELSE r.tok
      va == IF k.op \in Writes THEN k.va ELSE r.va
      c == Received(r, k.op, Valid(n, tok, va, k.len) /\ (k.len > 0 \/ k.op \in Sends), k.from, va, k.val)
  IN
  /\ has_peer /\ d # n /\ Polling(p) /\ Take(d)
  /\ busy' = [busy EXCEPT ![n] = p]
  /\ mem' = IF k.op \in Sends /\ i = 0 THEN mem ELSE Land(mem, n, tok, va, data)
  /\ nic' = IF i = 0 THEN nic
            ELSE [nic EXCEPT ![n].recvq = Without(@, i), ![n].cq = Pushed(@, <<c>>)]
  /\ done' = IF i = 0 THEN done ELSE Logged(<<c>>)
  /\ UNCHANGED <<has_peer, todo, token_seq, seg, reg, torn>>

\* k_poll_jfc, once the ring is empty, with room for all that the queue holds.
PollCq(p) ==
  LET n == Home[p]
      q == nic[n].cq[Jfc[p]]
  IN
  /\ Polling(p) /\ (has_peer => \A d \in Node \ {n} : ~More(d))
  /\ busy[n] = p \/ q # << >>
  /\ busy' = [busy EXCEPT ![n] = None]
  /\ nic' = [nic EXCEPT ![n].cq[Jfc[p]] = << >>]
  /\ UNCHANGED <<has_peer, todo, token_seq, seg, reg, mem, done, torn, ringvars>>

\* What a node does without a new call: it ends a send, and it polls.
GoesOn(n) ==
  \E p \in {q \in Proc : Home[q] = n} :
    PeerSent(p) \/ PollCq(p) \/ \E d \in Node : PollDrain(p, d)
Next ==
  \/ \E p \in Proc :
       \/ RegisterSeg(p) \/ StoreMr(p)
       \/ PostWrite(p) \/ PostRead(p) \/ PostAtomic(p) \/ PostSend(p) \/ PostPending(p)
       \/ PostPeer(p) \/ PostUnsent(p) \/ PostRecv(p)
  \/ \E n \in Node : GoesOn(n)

Spec == Init /\ [][Next]_vars
\* An access ends, and some application of a node polls while there is
\* something to poll.
FairSpec == Spec /\ \A n \in Node : WF_vars(GoesOn(n))

-----------------------------------------------------------------------------
(* Properties.                                                             *)

Untorn == \A p \in Proc : ~torn[p]
Receipts(p) == {i \in DOMAIN done[p] : done[p][i].sr = 1}

\* Programs in which the user contexts of a process's receives tell the order
\* of their posts.
IsSequence(s) == s \in Seq({s[i] : i \in DOMAIN s})
InPostOrder ==
  \A c \in Programs :
    /\ c.calls = [p \in Proc |-> c.calls[p]]
    /\ \A p \in Proc : LET s == c.calls[p] IN
         /\ IsSequence(s)
         /\ \A i, j \in DOMAIN s :
              i < j /\ s[i].call = "recv" /\ s[j].call = "recv" => s[i].uctx < s[j].uctx

\* A receive completes at most once, and the receives of a jetty complete in
\* the order they were posted (find_recv: "FIFO per jetty").
ReceivesInOrder ==
  \A p \in Proc : LET s == done[p] IN
    \A i, j \in Receipts(p) : i < j => s[i].uctx < s[j].uctx

\* A receive that completed well has its data in place: that of the send in
\* the posted buffer, that of the write in the target region.
DataThere ==
  Untorn => \A p \in Proc : LET s == done[p] IN
    \A i \in Receipts(p) : s[i].ok => mem[p][s[i].at] = s[i].data

\* A counter holds the number of fetch-and-adds on it that completed well, and
\* between them they fetched every value up to it, each once.
Fadds == UNION {{<<p, i>> : i \in {k \in DOMAIN done[p] : done[p][k].op = "FADD"}} : p \in Proc}
CounterRight ==
  Untorn => \A x \in Fadds :
    LET c(y) == done[y[1]][y[2]]
        well == {y \in Fadds : c(y).with = c(x).with /\ c(y).at = c(x).at /\ c(y).ok}
    IN /\ mem[c(x).with][c(x).at] = Cardinality(well)
       /\ {c(y).data : y \in well} = 0 .. Cardinality(well) - 1

\* The MR table describes every segment as it was registered, unless another
\* process stored into the shared slot meanwhile or has the same token.  (Token
\* 0 is what a registration writes when the slot was cleared under it.)
MrIntact ==
  \A p \in Proc :
    LET n == Home[p] IN
    seg[p].tok # 0 /\ reg[p] = 0 /\ ~torn[p] /\ (\A q \in Proc \ {p} : Home[q] = n => seg[q].tok # seg[p].tok)
    => /\ seg[p].tok \in DOMAIN nic[n].mr
       /\ nic[n].mr[seg[p].tok] = [owner |-> p, va |-> seg[p].va, len |-> seg[p].len]

\* What is sent to the peer is taken: the ring is empty again and again.
RingDrains == \A d \in Node : []<>(tail[d] = head[d])
=============================================================================
