----------------------------- MODULE JettySched -----------------------------
(***************************************************************************)
(* UB_Doorbell and UB_Jetty_Sched: work requests posted by the host are    *)
(* queued per initiator and drained round robin, one flit per handler      *)
(* call.  A fenced request is held while the initiator has Reads or        *)
(* Atomics outstanding.                                                    *)
(*                                                                         *)
(* The stream between host and scheduler carries the requests one after    *)
(* another; the model keeps the unread flits of the one at its front.      *)
(* Initiators whose ini_rc_id share the low bits share a queue and are one *)
(* initiator here.  The response side is modelled from the contract of     *)
(* port 2: one notification per Read or Atomic that was issued.            *)
(***************************************************************************)
EXTENDS Integers, Sequences, FiniteSets

CONSTANTS
  MaxIni,       \* MAX_INI: number of initiator queues
  QueueDepth,   \* QUEUE_DEPTH: ring slots per queue, one of which stays empty
  MaxFlits,     \* bound: flits per work request
  MaxWrs,       \* bound: work requests posted in a behaviour
  MaxBacklog    \* bound: flits of one initiator the host leaves undrained

ASSUME ConstantsAssumption ==
  /\ MaxIni \in Nat \ {0}
  /\ QueueDepth \in Nat \ {0}
  /\ MaxFlits \in Nat \ {0}
  /\ MaxWrs \in Nat
  /\ MaxBacklog \in Nat

Ini == 0 .. MaxIni - 1
None == -1

\* A flit carries what the scheduler reads: the request it belongs to (wr),
\* the initiator, sop and eop; on the sop flit also Fence and whether the
\* opcode is a Read or an Atomic.
Flit == [wr : Nat, ini : Ini, sop : BOOLEAN, eop : BOOLEAN,
         fence : BOOLEAN, ra : BOOLEAN]

\* What out holds before anything was emitted.
NoFlit == [wr |-> 0, ini |-> 0, sop |-> FALSE, eop |-> TRUE,
           fence |-> FALSE, ra |-> FALSE]

VARIABLES
  feed,              \* unread flits of the request at the front of port 1
  nextWr,            \* number of requests posted so far
  q,                 \* q[i]: the ring of initiator i, oldest flit first
  outstanding,       \* outstanding_read_atomic
  rr_cursor,
  cur_input_ini,
  in_packet_input,
  drain_active_ini,
  drain_in_packet,
  out,               \* the last flit emitted on port 1 and the one before it
  awaiting,          \* issued Reads/Atomics whose notification is not read yet
  unanswered         \* accepted Reads/Atomics that have not been responded to

hostVars  == <<feed, nextWr>>
inputVars == <<cur_input_ini, in_packet_input>>
drainVars == <<rr_cursor, drain_active_ini, drain_in_packet, out>>
vars == <<hostVars, inputVars, drainVars, q, outstanding, awaiting, unanswered>>

Init ==
  /\ feed = << >>
  /\ nextWr = 0
  /\ q = [i \in Ini |-> << >>]
  /\ outstanding = [i \in Ini |-> 0]
  /\ rr_cursor = 0
  /\ cur_input_ini = 0
  /\ in_packet_input = FALSE
  /\ drain_active_ini = None
  /\ drain_in_packet = FALSE
  /\ out = [last |-> NoFlit, prev |-> NoFlit]
  /\ awaiting = [i \in Ini |-> {}]
  /\ unanswered = [i \in Ini |-> {}]

-----------------------------------------------------------------------------
(* The host and the doorbell.                                              *)

\* The flits of a request: the metadata flit, then its extension and payload.
WrFlits(w, i, n, fence, ra) ==
  [k \in 1 .. n |-> [wr |-> w, ini |-> i, sop |-> k = 1, eop |-> k = n,
                     fence |-> fence /\ k = 1, ra |-> ra /\ k = 1]]

\* UB_Doorbell: an invalid metadata flit is dropped, every other flit passes.
Doorbell(flits, valid) == IF valid THEN flits ELSE Tail(flits)

HostPost(i, n, fence, ra, valid) ==
  /\ feed = << >>
  /\ nextWr < MaxWrs
  /\ Len(q[i]) + n <= MaxBacklog
  /\ nextWr' = nextWr + 1
  /\ feed' = Doorbell(WrFlits(nextWr', i, n, fence, ra), valid)
  /\ UNCHANGED <<inputVars, drainVars, q, outstanding, awaiting, unanswered>>

\* The target answers an issued Read or Atomic, in any order; this puts a
\* notification on port 2.
Respond(i) ==
  /\ \E w \in awaiting[i] \cap unanswered[i] :
        unanswered' = [unanswered EXCEPT ![i] = @ \ {w}]
  /\ UNCHANGED <<hostVars, inputVars, drainVars, q, outstanding, awaiting>>

-----------------------------------------------------------------------------
(* The handler of UB_Jetty_Sched.  A call reads at most one notification n *)
(* and at most one flit f, then drains at most one flit.                   *)

\* Notifications that wait on port 2; NoNotify when the port is empty.
NoNotify == [ini |-> None, wr |-> 0]
Notifications(i) == {[ini |-> i, wr |-> w] : w \in awaiting[i] \ unanswered[i]}

Awaited(n) ==
  IF n = NoNotify THEN awaiting ELSE [awaiting EXCEPT ![n.ini] = @ \ {n.wr}]

\* Mutant of Notified: notifications are read and forgotten.
Notified_Ignored(n) == outstanding

Notified(n) ==
  IF n = NoNotify \/ outstanding[n.ini] = 0
  THEN outstanding
  ELSE [outstanding EXCEPT ![n.ini] = @ - 1]

\* A flit that continues a packet is queued with the initiator of its sop.
InputIni(f) == IF f.sop THEN f.ini ELSE cur_input_ini

\* nt # head: the ring keeps one slot empty.
HasRoom(i) == Len(q[i]) < QueueDepth - 1

\* A flit that finds its queue full is dropped.
Enqueued(f) ==
  IF HasRoom(InputIni(f)) THEN [q EXCEPT ![InputIni(f)] = Append(@, f)] ELSE q

Accepted(f) ==
  IF f.ra /\ HasRoom(f.ini)
  THEN [unanswered EXCEPT ![f.ini] = @ \cup {f.wr}]
  ELSE unanswered

\* Mutant of Eligible: the fence test is dropped.
Eligible_NoFence(i, qs, outst) == qs[i] # << >> /\ Head(qs[i]).sop

\* The round robin pick: a queue whose head starts a packet and is not held
\* back by its fence.
Eligible(i, qs, outst) ==
  /\ qs[i] # << >>
  /\ Head(qs[i]).sop
  /\ ~(Head(qs[i]).fence /\ outst[i] > 0)

Emit(i, qs, outst, aw) ==
  LET f == Head(qs[i]) IN
  /\ q' = [qs EXCEPT ![i] = Tail(@)]
  /\ out' = [last |-> f, prev |-> out.last]
  /\ outstanding' = IF f.ra THEN [outst EXCEPT ![i] = @ + 1] ELSE outst
  /\ awaiting' = IF f.ra THEN [aw EXCEPT ![i] = @ \cup {f.wr}] ELSE aw
  /\ drain_in_packet' = ~f.eop
  /\ drain_active_ini' = IF f.eop THEN None ELSE i

Hold(qs, outst, aw) ==
  /\ q' = qs
  /\ outstanding' = outst
  /\ awaiting' = aw
  /\ UNCHANGED <<out, drain_active_ini, drain_in_packet>>

\* Mutant of Drain: the initiator under the cursor is drained, packet or not.
Drain_AnyQueue(qs, outst, aw) ==
  /\ rr_cursor' = (rr_cursor + 1) % MaxIni
  /\ IF qs[rr_cursor] # << >>
     THEN Emit(rr_cursor, qs, outst, aw)
     ELSE Hold(qs, outst, aw)

\* In the middle of a packet the drain stays on its initiator; otherwise it
\* looks at the queue under the cursor and moves the cursor on.
Drain(qs, outst, aw) ==
  IF drain_in_packet
  THEN /\ UNCHANGED rr_cursor
       /\ IF qs[drain_active_ini] # << >>
          THEN Emit(drain_active_ini, qs, outst, aw)
          ELSE Hold(qs, outst, aw)
  ELSE /\ rr_cursor' = (rr_cursor + 1) % MaxIni
       /\ IF Eligible(rr_cursor, qs, outst)
          THEN Emit(rr_cursor, qs, outst, aw)
          ELSE Hold(qs, outst, aw)

\* A call that finds port 1 empty.
SchedIdle(n) ==
  /\ Drain(q, Notified(n), Awaited(n))
  /\ UNCHANGED <<hostVars, inputVars, unanswered>>

\* Mutant of SchedFlit: in_packet_input is not tested, a stray flit is queued.
SchedFlit_TakeStray(n) ==
  /\ feed # << >>
  /\ feed' = Tail(feed)
  /\ cur_input_ini' = InputIni(Head(feed))
  /\ in_packet_input' = ~Head(feed).eop
  /\ unanswered' = Accepted(Head(feed))
  /\ Drain(Enqueued(Head(feed)), Notified(n), Awaited(n))
  /\ UNCHANGED nextWr

\* A call that reads a flit of a packet.
SchedFlit(n) ==
  /\ feed # << >>
  /\ Head(feed).sop \/ in_packet_input
  /\ feed' = Tail(feed)
  /\ cur_input_ini' = InputIni(Head(feed))
  /\ in_packet_input' = ~Head(feed).eop
  /\ unanswered' = Accepted(Head(feed))
  /\ Drain(Enqueued(Head(feed)), Notified(n), Awaited(n))
  /\ UNCHANGED nextWr

\* A call that reads a flit outside any packet drops it and returns at once.
SchedStray(n) ==
  /\ feed # << >>
  /\ ~Head(feed).sop
  /\ ~in_packet_input
  /\ feed' = Tail(feed)
  /\ outstanding' = Notified(n)
  /\ awaiting' = Awaited(n)
  /\ UNCHANGED <<nextWr, inputVars, drainVars, q, unanswered>>

-----------------------------------------------------------------------------
Host ==
  \E i \in Ini, n \in 1 .. MaxFlits, fence, ra, valid \in BOOLEAN :
     HostPost(i, n, fence, ra, valid)

Handler(n) == SchedIdle(n) \/ SchedFlit(n) \/ SchedStray(n)

ReadsNotification(i) == \E n \in Notifications(i) : Handler(n)

Next ==
  \/ Host
  \/ \E i \in Ini : Respond(i)
  \/ Handler(NoNotify)
  \/ \E i \in Ini : ReadsNotification(i)

Spec == Init /\ [][Next]_vars

\* Every thread of the emulator keeps running: the handler is called again
\* and again, takes what its ports hold, and the target answers.  Nothing is
\* assumed of the host.
ReadsFlit ==
  \/ SchedFlit(NoNotify) \/ SchedStray(NoNotify)
  \/ \E i \in Ini, n \in UNION {Notifications(j) : j \in Ini} :
        SchedFlit(n) \/ SchedStray(n)

Fairness ==
  /\ WF_vars(Handler(NoNotify) \/ \E i \in Ini : ReadsNotification(i))
  /\ WF_vars(ReadsFlit)
  /\ \A i \in Ini : WF_vars(ReadsNotification(i)) /\ WF_vars(Respond(i))

FairSpec == Spec /\ Fairness

-----------------------------------------------------------------------------
(* Properties.                                                             *)

TypeOK ==
  /\ feed \in Seq(Flit)
  /\ nextWr \in 0 .. MaxWrs
  /\ q \in [Ini -> Seq(Flit)]
  /\ \A i \in Ini : Len(q[i]) < QueueDepth
  /\ outstanding \in [Ini -> Nat]
  /\ rr_cursor \in Ini
  /\ cur_input_ini \in Ini
  /\ in_packet_input \in BOOLEAN
  /\ drain_active_ini \in Ini \cup {None}
  /\ drain_in_packet \in BOOLEAN
  /\ drain_in_packet <=> drain_active_ini # None
  /\ out \in [last : Flit, prev : Flit]
  /\ awaiting \in [Ini -> SUBSET Nat]
  /\ unanswered \in [Ini -> SUBSET Nat]

\* Fence (header of UB_Jetty_Sched): when a fenced request leaves the
\* scheduler, every Read and Atomic its initiator posted before it has been
\* responded to, whether it had been issued or was still queued.
FenceSafe ==
  out.last.sop /\ out.last.fence =>
    \A w \in unanswered[out.last.ini] : w >= out.last.wr

\* Framing: the flits of a packet leave back to back, sop to eop, and no flit
\* of another packet comes between them, although queues of several
\* initiators are drained in turn.
Contiguous ==
  IF out.last.sop
  THEN out.prev.eop
  ELSE out.last # NoFlit => ~out.prev.eop /\ out.prev.wr = out.last.wr

\* Outside a drain every queue starts with the sop of a packet: the code's
\* comment says a non-sop head "shouldn't happen with multi-flit-aware
\* enqueue", and the drain logic has no way past one.
HeadIsSop ==
  \A i \in Ini : q[i] # << >> /\ drain_active_ini # i => Head(q[i]).sop

-----------------------------------------------------------------------------
(* The inductive invariant behind the properties, for a host that never    *)
(* overfills a queue (MaxBacklog < QueueDepth).                            *)

\* The packet whose last flits are still to be read belongs to initiator i.
Open(i) == in_packet_input /\ cur_input_ini = i

\* The request posted last, once its sop was read or dropped.
Newest == IF feed # << >> /\ feed[1].sop THEN nextWr - 1 ELSE nextWr

\* s is the end of the flits of request w, or all of them.
FeedOK(s, w) ==
  \A k \in 1 .. Len(s) :
    /\ s[k].wr = w
    /\ s[k].ini = s[1].ini
    /\ s[k].eop <=> k = Len(s)
    /\ s[k].sop => k = 1
    /\ s[k].fence \/ s[k].ra => s[k].sop

\* The unread flits are the rest of the request posted last, and its queue
\* has room for them.
FeedInv ==
  /\ FeedOK(feed, nextWr)
  /\ feed # << >> => Len(q[feed[1].ini]) + Len(feed) <= MaxBacklog
  /\ in_packet_input =>
       feed # << >> /\ ~feed[1].sop /\ feed[1].ini = cur_input_ini
  /\ feed # << >> /\ feed[1].sop => ~in_packet_input

\* A queue s of initiator i holds whole packets in the order they were posted.
\* Only the first may have been drained in part (active), and only the last
\* may still lack flits (open).
QueueOK(i, s, active, open, newest) ==
  /\ \A k \in 1 .. Len(s) : /\ s[k].ini = i
                            /\ s[k].wr <= newest
                            /\ s[k].fence \/ s[k].ra => s[k].sop
  /\ \A j, k \in 1 .. Len(s) : j <= k => s[j].wr <= s[k].wr
  /\ \A k \in 1 .. Len(s) - 1 :
       IF s[k].eop
       THEN s[k + 1].sop /\ s[k].wr < s[k + 1].wr
       ELSE ~s[k + 1].sop /\ s[k].wr = s[k + 1].wr
  /\ IF s = << >>
     THEN active <=> open
     ELSE /\ s[1].sop <=> ~active
          /\ s[Len(s)].eop <=> ~open
          /\ open => s[Len(s)].wr = newest

QueueInv ==
  \A i \in Ini :
    /\ Len(q[i]) <= MaxBacklog
    /\ QueueOK(i, q[i], drain_active_ini = i, Open(i), Newest)

\* The flit emitted last and the queue s it came from: a packet that was
\* begun goes on at the head of s.
DrainOK(s, last, newest) ==
  IF s # << >> THEN s[1].wr = last.wr ELSE last.wr = newest

DrainInv ==
  /\ out.last.wr <= Newest
  /\ drain_in_packet <=> ~out.last.eop
  /\ drain_in_packet => DrainOK(q[drain_active_ini], out.last, Newest)

\* The counter is the number of notifications still to come, a request that
\* is counted has left queue s, and one without a response is counted or in s.
CountOK(s, count, aw, un, newest) ==
  /\ IsFiniteSet(aw)
  /\ count = Cardinality(aw)
  /\ \A w \in aw : /\ w <= newest
                   /\ \A k \in 1 .. Len(s) : s[k].ra => s[k].wr # w
  /\ \A w \in un : w \in aw \/ \E k \in 1 .. Len(s) : s[k].ra /\ s[k].wr = w

CountInv ==
  \A i \in Ini : CountOK(q[i], outstanding[i], awaiting[i], unanswered[i], Newest)

SchedInv ==
  TypeOK /\ FeedInv /\ QueueInv /\ DrainInv /\ CountInv /\ FenceSafe /\ Contiguous

-----------------------------------------------------------------------------
\* Every queue that holds flits is eventually drained: fences lift once the
\* responses are in, and the round robin reaches every queue.
QueuesDrain == \A i \in Ini : q[i] # << >> ~> q[i] = << >>
=============================================================================
