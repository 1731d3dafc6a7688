------------------------------ MODULE OrderIni ------------------------------
(***************************************************************************)
(* UB_OrderTracker_Initiator: in service mode ROI a strongly ordered (SO)  *)
(* request waits in a queue of its initiator while relaxed or strongly     *)
(* ordered requests (RO, SO) of that initiator are outstanding.  Everything*)
(* else passes straight through.                                           *)
(*                                                                         *)
(* A flit is a pair of a request and a position in it; reqs records what   *)
(* the metadata flit of a request says.  The response side is modelled     *)
(* from the contract of port 2: one notification per RO or SO request that *)
(* was issued and answered.                                                *)
(***************************************************************************)
EXTENDS Integers, Sequences, FiniteSets

CONSTANTS
  MaxIni,       \* MAX_INI
  QSize,        \* QSIZE: ring slots per queue, one of which stays empty
  MaxFlits,     \* bound: flits per request
  MaxWrs,       \* bound: requests in a behaviour
  MaxBacklog,   \* bound: flits of one initiator left undrained
  Posts         \* the requests the host may post

ASSUME ConstantsAssumption ==
  /\ MaxIni \in Nat \ {0}
  /\ QSize \in Nat \ {0}
  /\ MaxFlits \in Nat \ {0}
  /\ MaxWrs \in Nat
  /\ MaxBacklog \in Nat

Ini == 0 .. MaxIni - 1
None == -1
Exec == {"NO", "RO", "SO"}
Request == [ini : Ini, roi : BOOLEAN, exec : Exec, len : 1 .. MaxFlits]
ASSUME PostsAssumption == Posts \subseteq Request

NoFlit == [wr |-> 0, k |-> 0]

VARIABLES
  reqs,                    \* the requests posted so far
  feed,                    \* unread flits of the request at the front of port 1
  q,                       \* the queues, oldest flit first
  outstanding,             \* outstanding_ro_so
  rr_cursor,
  in_packet_input,
  cur_input_passthrough,
  cur_input_ini,
  drain_active_ini,
  drain_in_packet,
  out,                     \* the last flit emitted on port 1
  sent,                    \* sent[w]: flits of request w emitted so far
  done,                    \* requests that have been answered
  awaiting                 \* issued RO/SO requests whose notification is unread

inputVars == <<in_packet_input, cur_input_passthrough, cur_input_ini>>
drainVars == <<rr_cursor, drain_active_ini, drain_in_packet>>
outVars == <<out, sent>>
vars == <<reqs, feed, q, outstanding, inputVars, drainVars, outVars, done, awaiting>>

Init ==
  /\ reqs = << >>
  /\ feed = << >>
  /\ q = [i \in Ini |-> << >>]
  /\ outstanding = [i \in Ini |-> 0]
  /\ rr_cursor = 0
  /\ in_packet_input = FALSE
  /\ cur_input_passthrough = FALSE
  /\ cur_input_ini = 0
  /\ drain_active_ini = None
  /\ drain_in_packet = FALSE
  /\ out = NoFlit
  /\ sent = [w \in 1 .. MaxWrs |-> 0]
  /\ done = {}
  /\ awaiting = [i \in Ini |-> {}]

\* RO and SO requests are the ones that are counted and waited for.
Ordered(w) == reqs[w].exec # "NO"
Sop(f) == f.k = 1
Eop(f) == f.k = reqs[f.wr].len

-----------------------------------------------------------------------------
\* Jetty_Sched hands over a request, flit by flit.
Post(r) ==
  /\ feed = << >>
  /\ Len(reqs) < MaxWrs
  /\ Len(q[r.ini]) + r.len <= MaxBacklog
  /\ reqs' = Append(reqs, r)
  /\ feed' = [k \in 1 .. r.len |-> [wr |-> Len(reqs'), k |-> k]]
  /\ UNCHANGED <<q, outstanding, inputVars, drainVars, outVars, done, awaiting>>

\* The target answers a request that was issued as a whole, in any order.
Respond ==
  /\ \E w \in DOMAIN reqs \ done :
       /\ sent[w] = reqs[w].len
       /\ done' = done \cup {w}
  /\ UNCHANGED <<reqs, feed, q, outstanding, inputVars, drainVars, outVars, awaiting>>

-----------------------------------------------------------------------------
(* The handler.  A call reads at most one notification n and one flit.     *)

NoNotify == [ini |-> None, wr |-> 0]
Notifications(i) == {[ini |-> i, wr |-> w] : w \in awaiting[i] \cap done}

Awaited(n) ==
  IF n = NoNotify THEN awaiting ELSE [awaiting EXCEPT ![n.ini] = @ \ {n.wr}]

\* Mutant of Notified: notifications are read and forgotten.
Notified_Ignored(n) == outstanding

Notified(n) ==
  IF n = NoNotify \/ outstanding[n.ini] = 0
  THEN outstanding
  ELSE [outstanding EXCEPT ![n.ini] = @ - 1]

\* Mutant of Passthrough: nothing is held back.
Passthrough_Ungated(w, outst) == TRUE

\* The decision taken on the sop flit of request w.
Passthrough(w, outst) ==
  \/ ~reqs[w].roi
  \/ reqs[w].exec \in {"NO", "RO"}
  \/ reqs[w].exec = "SO" /\ outst[reqs[w].ini] = 0

\* set_output_port(1, f)
Output(f) ==
  /\ out' = f
  /\ sent' = [sent EXCEPT ![f.wr] = @ + 1]

\* outstanding_ro_so++ for initiator i, on behalf of request w.
Count(i, w, outst, aw) ==
  /\ outstanding' = [outst EXCEPT ![i] = @ + 1]
  /\ awaiting' = [aw EXCEPT ![i] = @ \cup {w}]

Keep(outst, aw) ==
  /\ outstanding' = outst
  /\ awaiting' = aw

\* A flit that finds its queue full is dropped.
Enqueued(i, f) ==
  IF Len(q[i]) < QSize - 1 THEN [q EXCEPT ![i] = Append(@, f)] ELSE q

Emit(i, qs, outst, aw) ==
  LET f == Head(qs[i]) IN
  /\ q' = [qs EXCEPT ![i] = Tail(@)]
  /\ Output(f)
  /\ IF Sop(f) THEN Count(i, f.wr, outst, aw) ELSE Keep(outst, aw)
  /\ drain_in_packet' = ~Eop(f)
  /\ drain_active_ini' = IF Eop(f) THEN None ELSE i

\* In the middle of a packet the drain stays on its initiator; otherwise it
\* looks at the queue under the cursor, which may start a packet when nothing
\* of its initiator is outstanding.
Drain(qs, outst, aw) ==
  LET i == IF drain_in_packet THEN drain_active_ini ELSE rr_cursor IN
  /\ rr_cursor' = IF drain_in_packet THEN rr_cursor ELSE (rr_cursor + 1) % MaxIni
  /\ IF qs[i] # << >> /\ (drain_in_packet \/ outst[i] = 0)
     THEN Emit(i, qs, outst, aw)
     ELSE q' = qs /\ Keep(outst, aw) /\ UNCHANGED <<outVars, drain_active_ini, drain_in_packet>>

\* A call that finds port 1 empty.
Idle(n) ==
  /\ Drain(q, Notified(n), Awaited(n))
  /\ UNCHANGED <<reqs, feed, inputVars, done>>

\* A call that reads a sop and passes it on; it returns before the drain.
SopPass(n) ==
  LET f == Head(feed) i == reqs[f.wr].ini IN
  /\ feed # << >>
  /\ Sop(f)
  /\ Passthrough(f.wr, Notified(n))
  /\ feed' = Tail(feed)
  /\ cur_input_ini' = i
  /\ in_packet_input' = ~Eop(f)
  /\ cur_input_passthrough' = TRUE
  /\ Output(f)
  /\ IF Ordered(f.wr)
     THEN Count(i, f.wr, Notified(n), Awaited(n))
     ELSE Keep(Notified(n), Awaited(n))
  /\ UNCHANGED <<reqs, q, drainVars, done>>

\* A call that reads a sop and queues it.
SopQueue(n) ==
  LET f == Head(feed) i == reqs[f.wr].ini IN
  /\ feed # << >>
  /\ Sop(f)
  /\ ~Passthrough(f.wr, Notified(n))
  /\ feed' = Tail(feed)
  /\ cur_input_ini' = i
  /\ in_packet_input' = ~Eop(f)
  /\ cur_input_passthrough' = FALSE
  /\ Drain(Enqueued(i, f), Notified(n), Awaited(n))
  /\ UNCHANGED <<reqs, done>>

\* A call that reads a later flit of a packet: it goes the way of its sop.
NextPass(n) ==
  LET f == Head(feed) IN
  /\ feed # << >>
  /\ ~Sop(f)
  /\ in_packet_input
  /\ cur_input_passthrough
  /\ feed' = Tail(feed)
  /\ in_packet_input' = ~Eop(f)
  /\ Output(f)
  /\ Keep(Notified(n), Awaited(n))
  /\ UNCHANGED <<reqs, q, cur_input_ini, cur_input_passthrough, drainVars, done>>

NextQueue(n) ==
  LET f == Head(feed) IN
  /\ feed # << >>
  /\ ~Sop(f)
  /\ in_packet_input
  /\ ~cur_input_passthrough
  /\ feed' = Tail(feed)
  /\ in_packet_input' = ~Eop(f)
  /\ Drain(Enqueued(cur_input_ini, f), Notified(n), Awaited(n))
  /\ UNCHANGED <<reqs, cur_input_ini, cur_input_passthrough, done>>

ReadsFlit(n) == SopPass(n) \/ SopQueue(n) \/ NextPass(n) \/ NextQueue(n)
Handler(n) == Idle(n) \/ ReadsFlit(n)

Notify == UNION {Notifications(i) : i \in Ini}

Next ==
  \/ \E r \in Posts : Post(r)
  \/ Respond
  \/ \E n \in Notify \cup {NoNotify} : Handler(n)

Spec == Init /\ [][Next]_vars

\* The threads keep running and take what their ports hold; every request
\* that was issued is answered.  Nothing is assumed of the host.
Fairness ==
  /\ WF_vars(\E n \in Notify \cup {NoNotify} : Handler(n))
  /\ WF_vars(\E n \in Notify \cup {NoNotify} : ReadsFlit(n))
  /\ WF_vars(\E n \in Notify : Handler(n))
  /\ WF_vars(Respond)

FairSpec == Spec /\ Fairness

-----------------------------------------------------------------------------
(* Properties.                                                             *)

\* The last flit emitted starts an SO request in service mode ROI.
StartsSO ==
  out # NoFlit /\ Sop(out) /\ reqs[out.wr].roi /\ reqs[out.wr].exec = "SO"

\* When an SO request of service mode ROI is issued, every RO or SO request
\* of its initiator that was issued before has been answered.
SoAlone ==
  StartsSO =>
    \A w \in DOMAIN reqs \ {out.wr} :
      Ordered(w) /\ reqs[w].ini = reqs[out.wr].ini /\ sent[w] > 0 => w \in done

\* Every request that reached the tracker is issued as a whole: the SO that
\* waits does not wait forever.
AllIssued ==
  \A w \in 1 .. MaxWrs :
    w \in DOMAIN reqs ~> (w \in DOMAIN reqs /\ sent[w] = reqs[w].len)
=============================================================================
