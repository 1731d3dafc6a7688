------------------------------ MODULE Provider ------------------------------
(***************************************************************************)
(* The UMDK provider (openurma_provider.c) over its wire backend           *)
(* (openurma_nic.cpp).  Node A posts requests and polls for completions on *)
(* the application's thread.  Its background thread owns the socket: it    *)
(* takes the transmit queue, sends it, reads what came and runs the        *)
(* provider's callback.  Node B is the passive responder: its background   *)
(* thread runs the same callback on A's frames.  B's own transmit queue is *)
(* part of the FIFO from B to A, and does not overflow or fail here.       *)
(*                                                                         *)
(* The lock of the context (dlk) and that of the NIC (lk) make the steps:  *)
(* an action is what a thread does up to the end of a critical section.    *)
(* The SystemC pipeline below is outside: it accepts a request's flits and *)
(* completes the request when it likes.  Its own flits on the wire are     *)
(* left out, but for the failure when one of them finds the queue full.    *)
(* The counter of unsent frames, which only openurma_nic_tx_drained reads, *)
(* is in TxDrain, with the atomics and the lock one by one.                *)
(* Request number w is the w-th that was posted with success.              *)
(***************************************************************************)
EXTENDS Integers, Sequences, FiniteSets

CONSTANTS
  Workload,      \* the opcodes the i-th post is taken from; bounds the posts
  MaxOut,        \* MAX_OUT: slots of the rings of requests and completions
  MaxRecv,       \* MAX_RECV: slots of the ring of receives
  MaxTx,         \* MAX_TX_QUEUE_FRAMES
  Backstop,      \* OPENURMA_BACKSTOP
  CrCnt,         \* completions the application asks for in a poll
  RecvList,      \* receives B posts in a call
  MaxRecvs,      \* bound: receives B posts
  MaxContexts,   \* bound: contexts A opens, one after the other
  WireMayFail,   \* whether A's socket may fail
  WaitTimesOut,  \* whether openurma_nic_destroy may give up waiting
  CleanClose     \* whether A deletes a context only when nothing is outstanding

Opcode == {"WRITE", "WRITE_IMM", "READ", "SEND", "CAS"}
Node == {"A", "B"}

ASSUME ConstantsAssumption ==
  /\ Workload \in Seq(SUBSET Opcode)
  /\ MaxOut \in Nat \ {0} /\ MaxRecv \in Nat \ {0} /\ MaxTx \in Nat
  /\ Backstop \in Nat \ {0} /\ CrCnt \in Nat \ {0}
  /\ RecvList \in Nat /\ MaxRecvs \in Nat /\ MaxContexts \in Nat
  /\ WireMayFail \in BOOLEAN /\ WaitTimesOut \in BOOLEAN /\ CleanClose \in BOOLEAN

Slots == 0 .. MaxOut - 1
Status == {"ok", "abort", "timeout"}
NoSlot == [wr |-> 0, op |-> "CAS", req |-> 0, waited |-> 0, status |-> "ok"]
NoPend == [valid |-> FALSE, req |-> 0, status |-> "ok"]
Frame(tag, wr, req, status) == [tag |-> tag, wr |-> wr, req |-> req, status |-> status]
NoFrame == Frame("-", 0, 0, "ok")
Idle == [pc |-> "idle", op |-> "CAS", req |-> 0, cqe |-> 0, werr |-> FALSE]

VARIABLES
  app,           \* A's thread: [pc, op, req] of a post, [cqe, werr] of a poll
  out, outh, outt,   \* the ring of outstanding requests, slot by slot
  pend,          \* pending_write_ack
  req_seq,
  jfc,           \* jfc[n]: ring of completions
  rq,            \* B's posted receives
  ctx,           \* A's context: "live", "closing", "freed"
  tx_q, batch,   \* A's transmit queue, and the part its thread took of it
  wire,          \* wire[n]: frames on the way to n
  bg,            \* A's background thread: "recv", "send", "cb"
  arg,           \* the frame its callback is called with
  fatal,         \* fatal_errno # 0
  cb,            \* A's data callback is set
  tries, recvs, opens,   \* posts tried, receives posted, contexts opened
  posted,        \* requests posted with success
  base,          \* requests that earlier contexts posted
  delivered,     \* completions polled from the context
  landed, fetched    \* requests whose data was written at B, stored at A

ringVars == <<out, outh, outt, pend>>
nicVars == <<tx_q, fatal>>
threadVars == <<batch, wire, bg, arg>>
ctxVars == <<ctx, cb, opens, base>>
appVars == <<app, ctxVars, req_seq, tries, posted>>
recvVars == <<rq, recvs>>
dataVars == <<landed, fetched>>
complVars == <<jfc, delivered>>
vars == <<ringVars, nicVars, threadVars, appVars, recvVars, dataVars, complVars>>

Init ==
  /\ app = Idle
  /\ out = [s \in Slots |-> NoSlot] /\ outh = 0 /\ outt = 0
  /\ pend = [s \in Slots |-> NoPend]
  /\ req_seq = 1
  /\ jfc = [n \in Node |-> << >>]
  /\ rq = << >>
  /\ ctx = "live"
  /\ tx_q = << >> /\ batch = << >>
  /\ wire = [n \in Node |-> << >>]
  /\ bg = "recv" /\ arg = NoFrame
  /\ fatal = FALSE
  /\ cb = TRUE
  /\ tries = 0 /\ recvs = 0 /\ opens = 1
  /\ posted = 0 /\ base = 0
  /\ delivered = [n \in Node |-> << >>]
  /\ landed = {} /\ fetched = {}

-----------------------------------------------------------------------------
(* openurma_nic, as the callers see it.                                    *)

\* openurma_nic_data_send
Accepts == ~fatal /\ Len(tx_q) < MaxTx
DataSend(f) == tx_q' = IF Accepts THEN Append(tx_q, f) ELSE tx_q

\* mark_wire_failed.  (The counter it clears is in TxDrain.)
WireFails == fatal' = TRUE

\* openurma_nic_pump: a flit that the pipeline puts on the wire finds the queue
\* full, and the wire fails.
Pump ==
  \/ UNCHANGED fatal
  \/ ~fatal /\ Len(tx_q) = MaxTx /\ WireFails

-----------------------------------------------------------------------------
(* ou_post_one.                                                            *)

Succ(s) == (s + 1) % MaxOut

\* Mutant of RingFull: no slot is kept empty.
RingFull_Never == FALSE

RingFull == Succ(outt) = outh
Outstanding == (outt - outh) % MaxOut
Nth(i) == (outh + i) % MaxOut
HasReq(op) == op \in {"WRITE", "WRITE_IMM", "READ"}

\* The room is tested, and the two flits are given to the pipeline, which may
\* refuse the first or the second of them.
PostStart(op) ==
  /\ app.pc = "idle" /\ ctx = "live"
  /\ tries < Len(Workload) /\ op \in Workload[tries + 1]
  /\ ~RingFull
  /\ tries' = tries + 1
  /\ req_seq' = IF HasReq(op) THEN req_seq + 1 ELSE req_seq
  /\ \/ /\ ~fatal
        /\ app' = [Idle EXCEPT !.pc = "record", !.op = op, !.req = IF HasReq(op) THEN req_seq ELSE 0]
     \/ UNCHANGED app
  /\ UNCHANGED <<ringVars, nicVars, threadVars, ctxVars, posted, recvVars, dataVars, complVars>>

\* The status of the slot stays what the request before it left there.
PostRecord ==
  /\ app.pc = "record"
  /\ out' = [out EXCEPT ![outt] = [wr |-> posted + 1, op |-> app.op, req |-> app.req,
                                   waited |-> 0, status |-> @.status]]
  /\ outt' = Succ(outt)
  /\ posted' = posted + 1
  /\ app' = [app EXCEPT !.pc = IF app.op = "CAS" THEN "pump" ELSE "send"]
  /\ UNCHANGED <<outh, pend, nicVars, threadVars, ctxVars, req_seq, tries, recvVars, dataVars, complVars>>

SideTag(op) == CASE op \in {"WRITE", "WRITE_IMM"} -> "W"
                 [] op = "READ" -> "R"
                 [] op = "SEND" -> "S"

PostSend ==
  /\ app.pc = "send"
  /\ DataSend(Frame(SideTag(app.op), posted, app.req, "ok"))
  /\ app' = [app EXCEPT !.pc = IF Accepts THEN "pump" ELSE "fail"]
  /\ UNCHANGED <<ringVars, fatal, threadVars, ctxVars, req_seq, tries, posted, recvVars, dataVars, complVars>>

\* Mutant of PostFail: the request goes on waiting for an answer.
PostFail_KeepReq ==
  /\ app.pc = "fail"
  /\ LET s == (outt + MaxOut - 1) % MaxOut IN
     out' = [out EXCEPT ![s] = [@ EXCEPT !.status = "timeout"]]
  /\ app' = [app EXCEPT !.pc = "pump"]
  /\ UNCHANGED <<outh, outt, pend, nicVars, threadVars, ctxVars, req_seq, tries, posted, recvVars, dataVars, complVars>>

PostFail ==
  /\ app.pc = "fail"
  /\ LET s == (outt + MaxOut - 1) % MaxOut IN
     out' = [out EXCEPT ![s] = [@ EXCEPT !.status = "timeout", !.req = 0]]
  /\ app' = [app EXCEPT !.pc = "pump"]
  /\ UNCHANGED <<outh, outt, pend, nicVars, threadVars, ctxVars, req_seq, tries, posted, recvVars, dataVars, complVars>>

PostPump ==
  /\ app.pc = "pump"
  /\ Pump
  /\ app' = Idle
  /\ UNCHANGED <<tx_q, ringVars, threadVars, ctxVars, req_seq, tries, posted, recvVars, dataVars, complVars>>

-----------------------------------------------------------------------------
(* ou_poll_jfc.                                                            *)

\* The pipeline is advanced, then its completions and the error are read
\* without a lock.
PollStart ==
  /\ app.pc = "idle" /\ ctx = "live"
  /\ Pump
  /\ \E c \in 0 .. Outstanding : app' = [Idle EXCEPT !.pc = "poll", !.cqe = c, !.werr = fatal']
  /\ UNCHANGED <<tx_q, ringVars, threadVars, ctxVars, req_seq, tries, posted, recvVars, dataVars, complVars>>

EarlyAck(s) ==
  LET p == pend[out[s].req % MaxOut] IN
  out[s].op = "WRITE" /\ out[s].req # 0 /\ p.valid /\ p.req = out[s].req

\* Slot s as the loop sees it once the error and an early answer are applied.
Settled(s) ==
  IF app.werr THEN [out[s] EXCEPT !.status = "timeout", !.req = 0]
  ELSE IF EarlyAck(s) THEN [out[s] EXCEPT !.status = pend[out[s].req % MaxOut].status, !.req = 0]
  ELSE out[s]

\* Mutant of Answered: a write does not wait for its acknowledgement.
Answered_ReadOnly(s) == ~(Settled(s).op = "READ" /\ Settled(s).req # 0)

Answered(s) == ~(Settled(s).op \in {"READ", "WRITE"} /\ Settled(s).req # 0)

\* Whether the i-th oldest request has no use for the backstop: an error, or a
\* completion of the pipeline the i before it have left over.
Signalled(i) == app.werr \/ app.cqe > i

Ready(i) == Signalled(i) \/ out[Nth(i)].waited + 1 > Backstop
Completes(i) == Answered(Nth(i)) /\ Ready(i) /\ Len(jfc["A"]) + i < MaxOut - 1

\* How many the loop completes before it stops at one that it cannot.
Completed == CHOOSE k \in 0 .. Outstanding :
               /\ \A i \in 0 .. k - 1 : Completes(i)
               /\ k < Outstanding => ~Completes(k)

\* What the loop leaves in slot s, the i-th oldest: the one it stopped at has
\* waited for one more poll, if waiting was what it was asked for.
Polled(s) ==
  LET i == (s - outh) % MaxOut IN
  IF i >= Outstanding \/ i > Completed THEN out[s]
  ELSE [Settled(s) EXCEPT !.waited = IF Answered(s) /\ ~Signalled(i) THEN @ + 1 ELSE @]

Completion(o) == [wr |-> o.wr, op |-> o.op, status |-> o.status]

\* Completions go to the ring, and up to CrCnt of the ring to the caller.
Collect(n, crs) ==
  LET ring == jfc[n] \o crs
      got == IF CrCnt <= Len(ring) THEN CrCnt ELSE Len(ring) IN
  /\ jfc' = [jfc EXCEPT ![n] = SubSeq(ring, got + 1, Len(ring))]
  /\ delivered' = [delivered EXCEPT ![n] = @ \o SubSeq(ring, 1, got)]

PollComplete ==
  /\ app.pc = "poll"
  /\ out' = [s \in Slots |-> Polled(s)]
  /\ outh' = Nth(Completed)
  /\ pend' = [p \in Slots |->
                IF ~app.werr /\ \E i \in 0 .. Outstanding - 1 :
                     i <= Completed /\ EarlyAck(Nth(i)) /\ out[Nth(i)].req % MaxOut = p
                THEN NoPend ELSE pend[p]]
  /\ Collect("A", [i \in 1 .. Completed |-> Completion(Settled(Nth(i - 1)))])
  /\ app' = Idle
  /\ UNCHANGED <<outt, nicVars, threadVars, ctxVars, req_seq, tries, posted, recvVars, dataVars>>

-----------------------------------------------------------------------------
(* The application of B: receives and their completions.                   *)

\* ou_post_jfr_wr, with a list of receives: as many as there is room for.
PostRecv ==
  LET room == MaxRecv - 1 - Len(rq)
      n == IF RecvList <= room THEN RecvList ELSE room IN
  /\ recvs < MaxRecvs /\ n > 0
  /\ recvs' = recvs + n
  /\ rq' = rq \o [i \in 1 .. n |-> recvs + i]
  /\ UNCHANGED <<ringVars, nicVars, threadVars, appVars, dataVars, complVars>>

PollRecv ==
  /\ jfc["B"] # << >>
  /\ Collect("B", << >>)
  /\ UNCHANGED <<ringVars, nicVars, threadVars, appVars, recvVars, dataVars>>

-----------------------------------------------------------------------------
(* The contexts of A, which share one NIC and its wire.                    *)

\* ou_delete_context: the callback is taken away ...
DeleteContext ==
  /\ app.pc = "idle" /\ ctx = "live"
  /\ CleanClose => outh = outt
  /\ ctx' = "closing"
  /\ cb' = FALSE
  /\ UNCHANGED <<app, opens, base, req_seq, tries, posted, ringVars, nicVars, threadVars, recvVars, dataVars, complVars>>

\* ... and openurma_nic_destroy waits for an empty queue, for so long.
ReleaseNic ==
  /\ ctx = "closing"
  /\ tx_q = << >> \/ WaitTimesOut
  /\ ctx' = "freed"
  /\ UNCHANGED <<app, cb, opens, base, req_seq, tries, posted, ringVars, nicVars, threadVars, recvVars, dataVars, complVars>>

\* openurma_nic_create: a NIC that was released is used again unless it failed.
NicReusable == ctx = "freed" /\ ~fatal

\* ou_create_context on the released NIC, and a new jetty and JFC.
CreateContext ==
  /\ NicReusable /\ opens < MaxContexts
  /\ ctx' = "live" /\ opens' = opens + 1 /\ base' = posted
  /\ cb' = TRUE
  /\ out' = [s \in Slots |-> NoSlot] /\ outh' = 0 /\ outt' = 0
  /\ pend' = [s \in Slots |-> NoPend]
  /\ req_seq' = 1
  /\ jfc' = [jfc EXCEPT !["A"] = << >>] /\ delivered' = [delivered EXCEPT !["A"] = << >>]
  /\ UNCHANGED <<app, tries, posted, nicVars, threadVars, recvVars, dataVars>>

-----------------------------------------------------------------------------
(* bg_run: the background thread of A.                                     *)

\* The inbox is empty, and the thread takes the queue.
BgSwap ==
  /\ bg = "recv" /\ wire["A"] = << >> /\ tx_q # << >>
  /\ batch' = tx_q /\ tx_q' = << >>
  /\ bg' = "send"
  /\ UNCHANGED <<fatal, wire, arg, ringVars, appVars, recvVars, dataVars, complVars>>

BgSend ==
  /\ bg = "send" /\ ~fatal
  /\ wire' = [wire EXCEPT !["B"] = Append(@, Head(batch))]
  /\ batch' = Tail(batch)
  /\ bg' = IF Len(batch) = 1 THEN "recv" ELSE "send"
  /\ UNCHANGED <<tx_q, fatal, arg, ringVars, appVars, recvVars, dataVars, complVars>>

\* The datagram cannot be sent, or an error is seen: the rest is dropped.
BgSendFails ==
  /\ bg = "send"
  /\ WireMayFail \/ fatal
  /\ WireFails
  /\ batch' = << >>
  /\ bg' = "recv"
  /\ UNCHANGED <<tx_q, wire, arg, ringVars, appVars, recvVars, dataVars, complVars>>

\* A datagram is read.  The callback is looked up here and called later.
BgRecv ==
  /\ bg = "recv" /\ wire["A"] # << >>
  /\ wire' = [wire EXCEPT !["A"] = Tail(@)]
  /\ IF cb THEN bg' = "cb" /\ arg' = Head(wire["A"]) ELSE UNCHANGED <<bg, arg>>
  /\ UNCHANGED <<nicVars, batch, ringVars, appVars, recvVars, dataVars, complVars>>

-----------------------------------------------------------------------------
(* ou_data_cb at B, for the frames of A.                                   *)

Arrives(tag) == wire["B"] # << >> /\ Head(wire["B"]).tag = tag
Taken == wire' = [wire EXCEPT !["B"] = Tail(@)]

\* The answer, by whether the request is within a registered region.
Reply(tag, valid) ==
  LET f == Head(wire["B"]) IN
  wire' = [B |-> Tail(wire["B"]),
           A |-> Append(wire["A"], Frame(tag, f.wr, f.req, IF valid THEN "ok" ELSE "abort"))]

OnWrite ==
  /\ Arrives("W")
  /\ \E valid \in BOOLEAN :
       /\ landed' = IF valid THEN landed \union {Head(wire["B"]).wr} ELSE landed
       /\ Reply("A", valid)
  /\ UNCHANGED <<fetched, nicVars, batch, bg, arg, ringVars, appVars, recvVars, complVars>>

OnReadReq ==
  /\ Arrives("R")
  /\ \E valid \in BOOLEAN : Reply("r", valid)
  /\ UNCHANGED <<nicVars, batch, bg, arg, ringVars, appVars, recvVars, dataVars, complVars>>

Consumed == Tail(rq)

\* A message that finds no receive, or no room for its completion, is dropped.
OnSend ==
  /\ Arrives("S")
  /\ Taken
  /\ IF rq # << >> /\ Len(jfc["B"]) < MaxOut - 1
     THEN /\ rq' = Consumed
          /\ jfc' = [jfc EXCEPT !["B"] = Append(@, [wr |-> Head(wire["B"]).wr, recv |-> Head(rq)])]
     ELSE UNCHANGED <<rq, jfc>>
  /\ UNCHANGED <<recvs, delivered, ringVars, nicVars, batch, bg, arg, appVars, dataVars>>

-----------------------------------------------------------------------------
(* ou_data_cb at A, for the answers of B.                                  *)

\* The places of the outstanding requests of opcode op that wait for answer req.
Waiting(op, req) == {i \in 0 .. Outstanding - 1 : out[Nth(i)].op = op /\ out[Nth(i)].req = req}
Oldest(places) == Nth(CHOOSE i \in places : \A k \in places : i <= k)
Answer(s) == out' = [out EXCEPT ![s].status = arg.status, ![s].req = 0]
Returns == bg' = "recv" /\ arg' = NoFrame

OnWriteAck ==
  /\ bg = "cb" /\ arg.tag = "A"
  /\ LET w == Waiting("WRITE", arg.req) IN
     IF w # {}
     THEN Answer(Oldest(w)) /\ UNCHANGED pend
     ELSE /\ pend' = [pend EXCEPT ![arg.req % MaxOut] =
                        [valid |-> TRUE, req |-> arg.req, status |-> arg.status]]
          /\ UNCHANGED out
  /\ Returns
  /\ UNCHANGED <<outh, outt, nicVars, batch, wire, appVars, recvVars, dataVars, complVars>>

\* The data goes to the buffer of the request that matches.
OnReadRsp ==
  /\ bg = "cb" /\ arg.tag = "r"
  /\ LET w == Waiting("READ", arg.req) IN
     IF w # {}
     THEN /\ Answer(Oldest(w))
          /\ fetched' = IF arg.status = "ok" /\ out[Oldest(w)].wr = arg.wr
                        THEN fetched \union {arg.wr} ELSE fetched
     ELSE UNCHANGED <<out, fetched>>
  /\ Returns
  /\ UNCHANGED <<landed, outh, outt, pend, nicVars, batch, wire, appVars, recvVars, complVars>>

-----------------------------------------------------------------------------
Post == PostRecord \/ PostSend \/ PostFail \/ PostPump
Poll == PollStart \/ PollComplete
Bg == BgSwap \/ BgSend \/ BgSendFails \/ BgRecv \/ OnWriteAck \/ OnReadRsp
BgPeer == OnWrite \/ OnReadReq \/ OnSend

Next ==
  \/ \E op \in Opcode : PostStart(op)
  \/ Post \/ Poll
  \/ PostRecv \/ PollRecv
  \/ DeleteContext \/ ReleaseNic \/ CreateContext
  \/ Bg \/ BgPeer

\* The threads go on, and the application finishes its calls and polls.
Fairness ==
  /\ WF_vars(Post) /\ WF_vars(Poll)
  /\ WF_vars(Bg) /\ WF_vars(BgPeer)

Spec == Init /\ [][Next]_vars
FairSpec == Spec /\ Fairness

-----------------------------------------------------------------------------
Finished == delivered["A"] \o jfc["A"]
Received == delivered["B"] \o jfc["B"]

\* Every request completes once, in the order of the posts, and none is lost:
\* "each WR completes exactly once" (ou_poll_jfc).  Whatever the background
\* thread does between the steps of a post or a poll, the completions of a
\* context are its first requests and the ring holds the others.  The receives
\* of the other side complete once each, in order, with messages in order.
CompletesOnce ==
  /\ \A i \in DOMAIN Received : Received[i].recv = i
  /\ \A i, k \in DOMAIN Received : i < k => Received[i].wr < Received[k].wr
  /\ ctx # "freed" =>
    /\ \A i \in DOMAIN Finished : Finished[i].wr = base + i
    /\ \A i \in 0 .. Outstanding - 1 : out[Nth(i)].wr = base + Len(Finished) + i + 1
    /\ base + Len(Finished) + Outstanding = posted

\* No write with an immediate is posted.
NoImm == \A i \in 1 .. Len(Workload) : "WRITE_IMM" \notin Workload[i]

\* Contexts do not meet in the request numbers: there is one, or each is left
\* when all its requests have completed, and none posts a write with an
\* immediate, whose acknowledgement the completion does not wait for.
Separate == MaxContexts <= 1 \/ (CleanClose /\ NoImm)

\* The status of a read or write is the fate of its own data: a success means
\* that the data is where it belongs, a remote error that it never gets there
\* (ou_data_cb, ou_poll_jfc).
StatusTrue ==
  \A i \in DOMAIN Finished : LET c == Finished[i] IN
    /\ c.op = "WRITE" => /\ c.status = "ok" => c.wr \in landed
                         /\ c.status = "abort" => c.wr \notin landed
    /\ c.op = "READ" => /\ c.status = "ok" => c.wr \in fetched
                        /\ c.status = "abort" => c.wr \notin fetched

\* The requests that were posted complete, with success or an error, unless
\* their context is deleted: by the answer, the failure of the wire, or the
\* backstop of ou_poll_jfc.  The ring is empty again and again.
AllComplete == []<>(outh = outt \/ ctx # "live")
=============================================================================
