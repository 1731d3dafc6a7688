------------------------------- MODULE TwoNode -------------------------------
(***************************************************************************)
(* Two hosts, each with a UBController and its NIC, joined by a link that  *)
(* keeps the order of the flits (one flit is one Ethernet packet).         *)
(*                                                                         *)
(* A host writes the flits of its work requests to the controller's        *)
(* aperture one by one and reads completions from it.  Every call runs to  *)
(* the end before the next: gem5 delivers events one at a time.  Between   *)
(* calls the SystemC kernel may run the armed drain methods of the NIC.    *)
(***************************************************************************)
EXTENDS UbNic, SequencesExt

CONSTANTS
  Node,      \* the two nodes
  Programs,  \* the sets of work requests a host may post: Programs[x], sequences
  Armed      \* DRAIN_COOLDOWN_CYCLES: idle cycles before the methods disarm

\* A work request: [op, svc, t, rc, addr, len, tok, opd, tv, tc, hint, data].
ASSUME TwoNodeAssumption ==
  /\ Cardinality(Node) = 2
  /\ Armed \in Nat /\ Armed > MaxIni
  /\ \A x \in Node : \A p \in Programs[x] : \A i \in DOMAIN p : p[i].t = i

VARIABLES
  prog,   \* prog[x]: the work requests host x posts, in this order
  feed,   \* feed[x]: the flits host x has yet to write
  nic,    \* nic[x]: the state of a NIC, as in UbNic
  link,   \* link[x]: flits on their way to x
  cqes    \* cqes[x]: what host x read

vars == <<prog, feed, nic, link, cqes>>

Peer(x) == CHOOSE y \in Node : y # x

\* The flits of a request: metadata, extension, payload.
WrFlits(w) ==
  LET e == [addr |-> w.addr, len |-> w.len, tok |-> w.tok, tv |-> w.tv, opd |-> w.opd,
            tc |-> w.tc, hint |-> w.hint]
      pay == [k \in 1 .. Len(w.data) |-> Body(DataExt, w.data[k], k = Len(w.data))]
  IN <<Meta(w.op, w.svc, w.t, w.rc), Body(e, "ext", w.data = << >>)>> \o pay

Init ==
  /\ prog \in [Node -> UNION {Programs[x] : x \in Node}]
  /\ \A x \in Node : prog[x] \in Programs[x]
  /\ feed = [x \in Node |-> FlattenSeq([i \in DOMAIN prog[x] |-> WrFlits(prog[x][i])])]
  /\ nic = [x \in Node |-> NicInit]
  /\ link = [x \in Node |-> << >>]
  /\ cqes = [x \in Node |-> << >>]

\* The controller moves what the NIC put out to the link.
Flush(x, n, l) ==
  /\ nic' = [nic EXCEPT ![x] = [n EXCEPT !.tx = << >>]]
  /\ link' = [l EXCEPT ![Peer(x)] = @ \o n.tx]

\* CPUPort::recvAtomic, a write: one flit of a work request.
Write(x) ==
  /\ feed[x] # << >>
  /\ feed' = [feed EXCEPT ![x] = Tail(@)]
  /\ Flush(x, SubmitWr(nic[x], Head(feed[x])), link)
  /\ UNCHANGED <<prog, cqes>>

\* CPUPort::recvAtomic, a read: the oldest completion.
Read(x) ==
  /\ nic[x].cqe # << >>
  /\ cqes' = [cqes EXCEPT ![x] = Append(@, Head(nic[x].cqe))]
  /\ nic' = [nic EXCEPT ![x] = PopCqe(@)]
  /\ UNCHANGED <<prog, feed, link>>

\* WirePort::recvPacket.
RecvPacket(x) ==
  /\ link[x] # << >>
  /\ Flush(x, PushWireRx(nic[x], Head(link[x])), [link EXCEPT ![x] = Tail(@)])
  /\ UNCHANGED <<prog, feed, cqes>>

\* The kernel runs the drain methods until they disarm; nothing is flushed.
Kernel(x) ==
  /\ nic' = [nic EXCEPT ![x] = Drain(@, 0, Armed)]
  /\ nic' # nic
  /\ UNCHANGED <<prog, feed, link, cqes>>

Next == \E x \in Node : Write(x) \/ Read(x) \/ RecvPacket(x) \/ Kernel(x)

Spec == Init /\ [][Next]_vars
\* Weak fairness of the steps other than Write, spelled out: they are enabled
\* while Busy, and they are the steps that leave feed alone.  The simulator
\* delivers what is on the link and runs the armed methods, and the hosts
\* poll; a host need not post.
Busy ==
  \E x \in Node : \/ link[x] # << >>
                  \/ nic[x].cqe # << >>
                  \/ Drain(nic[x], 0, Armed) # nic[x]
FairSpec == Spec /\ ([]<>~Busy \/ []<><<feed' = feed>>_vars)

-----------------------------------------------------------------------------
(* Properties of traffic in one direction.                                 *)

Reliable(w) == w.svc # "UNO"

\* The stores a write asks for: 32 bytes per payload flit.
StoresOf(w) ==
  [k \in 1 .. (IF w.op \in WriteOps THEN Len(w.data) ELSE 0) |->
    [t |-> w.t, addr |-> w.addr + ChunkBytes * (k - 1), take |-> ChunkBytes, d |-> w.data[k]]]

Issued(x) == [i \in DOMAIN nic[x].issued |-> prog[x][nic[x].issued[i]]]

\* The receive queues of sends in the order they were issued: those to a group
\* go to its members in turn.
Rank(sent, i) == Cardinality({j \in 1 .. i - 1 : sent[j].tc = sent[i].tc})
Target(sent, i) ==
  LET g == sent[i].tc IN
  IF g \in DOMAIN Groups THEN Groups[g].members[(Rank(sent, i) % Len(Groups[g].members)) + 1] ELSE g

\* Writes and sends land as they were posted: the stores of UB_HBM_Write are
\* those of the requests in the order UB_TPChannel_TX sent them, each once, each
\* with the address and the data of its own request, and each send gets the
\* receive queue it names or the next member of its group, through two
\* schedulers, two frame codecs and the reorder buffer.
LandsAsPosted ==
  \A x \in Node :
    LET sent == SelectSeq(Issued(x), LAMBDA w : w.op \in SendOps) IN
    /\ IsPrefix(nic[Peer(x)].stores,
                FlattenSeq([i \in DOMAIN Issued(x) |-> StoresOf(Issued(x)[i])]))
    /\ IsPrefix(nic[Peer(x)].recvs, [i \in DOMAIN sent |-> [t |-> sent[i].t, tc |-> Target(sent, i)]])

\* An acknowledgement that reaches the completion stream of a host stands for
\* a request the other side has finished: UB_TPChannel_RX acknowledges at the
\* metadata flit, before the request is carried out.
AckMeansDone ==
  \A x \in Node :
    Cardinality({i \in DOMAIN cqes[x] : cqes[x][i].op = "TAACK"})
      + Cardinality({i \in DOMAIN nic[x].cqe : nic[x].cqe[i].op = "TAACK"})
      <= Cardinality({i \in DOMAIN nic[Peer(x)].done : Reliable(prog[x][nic[Peer(x)].done[i]])})

\* The value of a word after the atomics of a sequence of requests.
RECURSIVE WordAfter(_, _)
WordAfter(w, s) ==
  IF s = << >> THEN 0
  ELSE LET r == Last(s)
           v == WordAfter(w, Front(s))
       IN IF r.addr # 8 * w THEN v
          ELSE IF r.op = "FAA" THEN v + r.opd
          ELSE IF r.op = "CAS" /\ v = r.opd THEN r.tv ELSE v

\* A word of UB_HBM_Atomic's memory is what the finished atomics on it make it,
\* each applied once.  (Not word 0: the padding of the frame reaches the
\* element as one more flit, which it applies there with operand 0.)
AtomicsOnce ==
  \A x \in Node : LET y == Peer(x) IN
    \A w \in DOMAIN nic[y].hbm \ {0} :
      nic[y].hbm[w] = WordAfter(w, [i \in DOMAIN nic[y].done |-> prog[x][nic[y].done[i]]])

\* The flits of the first i requests of host x are written.
Written(x, i) ==
  Len(feed[x]) <= Len(FlattenSeq([k \in 1 .. Len(prog[x]) - i |-> WrFlits(prog[x][k + i])]))

\* A request whose flits are written leaves the scheduler, although the sweeps
\* of the call that posted it may stop before the cursor gets to its queue
\* (unless the host stops inside a request: its packet then holds the output).
Scheduled ==
  <>[](\A x \in Node : (feed[x] = << >> \/ Head(feed[x]).sop) =>
        \A i \in DOMAIN prog[x] : Written(x, i) => Contains(nic[x].issued, i))

\* What the controller has moved to the link is carried out by the other side,
\* and the host reads an acknowledgement for each reliable request.
LinkDelivers ==
  <>[](\A x \in Node : nic[x].tx = << >> =>
        LET sent == SelectSeq(nic[x].issued, LAMBDA i : Written(x, i)) IN
        /\ nic[Peer(x)].done = sent
        /\ Cardinality({i \in DOMAIN cqes[x] : cqes[x][i].op = "TAACK"})
             = Len(SelectSeq(sent, LAMBDA i : Reliable(prog[x][i]))))
=============================================================================
