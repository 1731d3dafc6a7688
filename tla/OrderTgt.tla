------------------------------ MODULE OrderTgt ------------------------------
(***************************************************************************)
(* UB_OrderTracker_Target: in service mode ROT the target executes         *)
(* strongly ordered (SO) transactions of an initiator in the order of      *)
(* their TASSN.  An SO that comes early waits in a ring of its initiator   *)
(* with the one flit that follows its metadata flit.                       *)
(*                                                                         *)
(* A behaviour starts with the order in which transactions arrive.  A      *)
(* transaction is named by its place in that order; seq is its place in    *)
(* the order in which its initiator numbered it, of which TASSN keeps the  *)
(* remainder.  A flit is a pair of a transaction and a position in it.     *)
(***************************************************************************)
EXTENDS Integers, Sequences, FiniteSets

CONSTANTS
  MaxIni,       \* MAX_INI
  QSize,        \* QSIZE: ring slots per initiator, one of which stays empty
  TassnMod,     \* 2^16 in the code: TASSN is a 16 bit number
  Orders        \* the arrival orders, sequences of transactions

ASSUME ConstantsAssumption ==
  /\ MaxIni \in Nat \ {0}
  /\ QSize \in Nat \ {0}
  /\ TassnMod \in Nat \ {0}

Ini == 0 .. MaxIni - 1
Slots == 0 .. QSize - 1
Exec == {"NO", "RO", "SO"}
Txn == [ini : Ini, rot : BOOLEAN, exec : Exec, seq : Nat, len : 1 .. 3]

ASSUME OrdersAssumption == Orders \subseteq Seq(Txn)

None == -1      \* cur_idx = 0xFFFFFFFF

VARIABLES
  txns,            \* the arrival order
  next,            \* the next flit on port 1
  queue,           \* queue[i][s]: [txn, valid_a, valid_b, attached]
  head, tail,
  exec_complete,   \* exec_complete_tassn
  saw_meta,
  cur_idx,
  out,             \* the flits emitted on port 1
  dropped          \* transactions dropped because their ring was full

vars == <<txns, next, queue, head, tail, exec_complete, saw_meta, cur_idx, out, dropped>>

EmptySlot == [txn |-> 0, valid_a |-> FALSE, valid_b |-> FALSE, attached |-> 0]

Init ==
  /\ txns \in Orders
  /\ next = [txn |-> 1, k |-> 1]
  /\ queue = [i \in Ini |-> [s \in Slots |-> EmptySlot]]
  /\ head = [i \in Ini |-> 0]
  /\ tail = [i \in Ini |-> 0]
  /\ exec_complete = [i \in Ini |-> TassnMod - 1]
  /\ saw_meta = FALSE
  /\ cur_idx = 0
  /\ out = << >>
  /\ dropped = {}

-----------------------------------------------------------------------------
Tassn(t) == txns[t].seq % TassnMod

Want(i) == (exec_complete[i] + 1) % TassnMod
Eop(f) == f.k = txns[f.txn].len

HasInput == next.txn \in DOMAIN txns

\* read_input_port(PORT_1)
ReadFlit ==
  next' = IF Eop(next) THEN [txn |-> next.txn + 1, k |-> 1]
                       ELSE [next EXCEPT !.k = @ + 1]

Output(f) == out' = Append(out, f)

Ready(i, qs, tl) ==
  /\ head[i] # tl[i]
  /\ qs[i][head[i]].valid_a
  /\ Tassn(qs[i][head[i]].txn) = Want(i)

\* Mutant of Drain: the second flit stays valid in the slot that is freed.
Drain_KeepSecond(i, qs, tl) ==
  /\ tail' = tl
  /\ IF i # None /\ Ready(i, qs, tl)
     THEN LET h == head[i] IN
       /\ Output([txn |-> qs[i][h].txn, k |-> 1])
       /\ queue' = [qs EXCEPT ![i][h].valid_a = FALSE]
       /\ head' = [head EXCEPT ![i] = (h + 1) % QSize]
       /\ exec_complete' = [exec_complete EXCEPT ![i] = Tassn(qs[i][h].txn)]
     ELSE queue' = qs /\ UNCHANGED <<out, head, exec_complete>>

\* At the end of a call that emitted nothing: the ring of the initiator that
\* was last looked at may release its head.  Only the metadata flit leaves.
\* qs and tl are the rings after the input was handled, i that initiator.
Drain(i, qs, tl) ==
  /\ tail' = tl
  /\ IF i # None /\ Ready(i, qs, tl)
     THEN LET h == head[i] IN
       /\ Output([txn |-> qs[i][h].txn, k |-> 1])
       /\ queue' = [qs EXCEPT ![i][h].valid_a = FALSE, ![i][h].valid_b = FALSE]
       /\ head' = [head EXCEPT ![i] = (h + 1) % QSize]
       /\ exec_complete' = [exec_complete EXCEPT ![i] = Tassn(qs[i][h].txn)]
     ELSE queue' = qs /\ UNCHANGED <<out, head, exec_complete>>

\* Mutant of Idle: the ring is drained only when a flit comes.
Idle_NoDrain == UNCHANGED vars

\* A call that finds no flit on port 1.
Idle ==
  /\ Drain(cur_idx, queue, tail)
  /\ UNCHANGED <<txns, next, saw_meta, cur_idx, dropped>>

\* The metadata flit of a transaction outside service mode ROT.
MetaOther ==
  /\ HasInput /\ next.k = 1
  /\ ~txns[next.txn].rot
  /\ ReadFlit
  /\ Output(next)
  /\ saw_meta' = TRUE
  /\ cur_idx' = None
  /\ UNCHANGED <<txns, queue, head, tail, exec_complete, dropped>>

\* Mutant of Executes: an SO does not wait for the ones before it.
Executes_AnySo(t) == TRUE

\* NO and RO execute on arrival, an SO when it is the next one.
Executes(t) ==
  \/ txns[t].exec \in {"NO", "RO"}
  \/ txns[t].exec = "SO" /\ Tassn(t) = Want(txns[t].ini)

MetaExecute ==
  LET t == next.txn i == txns[next.txn].ini IN
  /\ HasInput /\ next.k = 1
  /\ txns[t].rot
  /\ Executes(t)
  /\ ReadFlit
  /\ Output(next)
  /\ saw_meta' = TRUE
  /\ cur_idx' = i
  /\ exec_complete' = IF txns[t].exec = "NO" THEN exec_complete
                      ELSE [exec_complete EXCEPT ![i] = Tassn(t)]
  /\ UNCHANGED <<txns, queue, head, tail, dropped>>

\* Mutant of HasRoom: the ring is filled to its last slot.
HasRoom_Full(i) == TRUE

HasRoom(i) == (tail[i] + 1) % QSize # head[i]

MetaBuffer ==
  LET t == next.txn i == txns[next.txn].ini IN
  /\ HasInput /\ next.k = 1
  /\ txns[t].rot
  /\ ~Executes(t)
  /\ ReadFlit
  /\ saw_meta' = TRUE
  /\ cur_idx' = i
  /\ IF HasRoom(i)
     THEN /\ Drain(i, [queue EXCEPT ![i][tail[i]].txn = t, ![i][tail[i]].valid_a = TRUE],
                   [tail EXCEPT ![i] = (@ + 1) % QSize])
          /\ UNCHANGED dropped
     ELSE /\ Drain(i, queue, tail)
          /\ dropped' = dropped \cup {t}
  /\ UNCHANGED txns

\* Slots of initiator i that hold a metadata flit and no second flit.
Unattached(i) == {s \in Slots : queue[i][s].valid_a /\ ~queue[i][s].valid_b}

\* A later flit is attached to the first slot that lacks one ...
BodyAttach ==
  LET i == cur_idx
      s == CHOOSE x \in Unattached(i) : \A y \in Unattached(i) : x <= y IN
  /\ HasInput /\ next.k > 1
  /\ saw_meta
  /\ i # None /\ Unattached(i) # {}
  /\ ReadFlit
  /\ saw_meta' = ~Eop(next)
  /\ Drain(i, [queue EXCEPT ![i][s].valid_b = TRUE, ![i][s].attached = next.txn], tail)
  /\ UNCHANGED <<txns, cur_idx, dropped>>

\* ... and passes on when there is none.
BodyPass ==
  /\ HasInput /\ next.k > 1
  /\ saw_meta
  /\ cur_idx # None => Unattached(cur_idx) = {}
  /\ ReadFlit
  /\ saw_meta' = ~Eop(next)
  /\ Output(next)
  /\ UNCHANGED <<txns, queue, head, tail, exec_complete, cur_idx, dropped>>

Reads == MetaOther \/ MetaExecute \/ MetaBuffer \/ BodyAttach \/ BodyPass
Next == Idle \/ Reads

\* The element's thread keeps calling the handler and flits that were sent
\* arrive.
Spec == Init /\ [][Next]_vars
FairSpec == Spec /\ WF_vars(Next) /\ WF_vars(Reads)

-----------------------------------------------------------------------------
(* Properties.                                                             *)

\* Transactions whose metadata flit was emitted among the first n flits.
ExecutedBy(n) == {out[j].txn : j \in {x \in 1 .. n : out[x].k = 1}}
Executed == ExecutedBy(Len(out))

\* The transactions that initiator i numbers for service mode ROT.
Counted(o, i, t) == t \in DOMAIN o /\ o[t].rot /\ o[t].exec # "NO" /\ o[t].ini = i

\* No number is given twice.
Distinct(o) ==
  \A i \in Ini, t, u \in DOMAIN o :
    Counted(o, i, t) /\ Counted(o, i, u) /\ o[t].seq = o[u].seq => t = u

\* An RO or SO of another service mode comes before the SOs numbered after it.
OthersFirst(o) ==
  \A t, u \in DOMAIN o :
    /\ ~o[u].rot /\ o[u].exec # "NO" /\ o[t].rot /\ o[t].exec = "SO"
    /\ o[u].ini = o[t].ini /\ o[u].seq < o[t].seq
    => u < t

\* When the metadata flit of an RO or SO of service mode ROT comes, the ones
\* have executed whose TASSN it could be mistaken for; when it is an RO, all
\* that its initiator numbered before it.  The scoreboard relies on this and
\* does not check it.
Fresh ==
  LET t == next.txn
      i == txns[next.txn].ini
      RanTo(m) == \A n \in 0 .. m : \E u \in Executed : Counted(txns, i, u) /\ txns[u].seq = n IN
  HasInput /\ next.k = 1 /\ Counted(txns, i, t) =>
    /\ RanTo(txns[t].seq - TassnMod)
    /\ txns[t].exec = "RO" => RanTo(txns[t].seq - 1)

\* The header's promise: an SO of service mode ROT executes only after every
\* RO and SO its initiator numbered before it.
SoInOrder ==
  \A j \in 1 .. Len(out) :
    LET t == out[j].txn IN
    out[j].k = 1 /\ txns[t].rot /\ txns[t].exec = "SO" =>
      \A u \in DOMAIN txns :
        txns[u].ini = txns[t].ini /\ txns[u].exec # "NO" /\ txns[u].seq < txns[t].seq
        => u \in ExecutedBy(j - 1)

\* The slots between head and tail are the ones that hold a transaction, and
\* a transaction that was read is executed, dropped or in one of them, and
\* only once.
InRing(i, s) == (s - head[i]) % QSize < (tail[i] - head[i]) % QSize

Conserved ==
  /\ \A i \in Ini, s \in Slots : queue[i][s].valid_a <=> InRing(i, s)
  /\ \A t \in 1 .. next.txn - 1 :
       LET held == {x \in Ini \X Slots : InRing(x[1], x[2]) /\ queue[x[1]][x[2]].txn = t}
           execs == {j \in DOMAIN out : out[j] = [txn |-> t, k |-> 1]} IN
       Cardinality(held) + Cardinality(execs) + (IF t \in dropped THEN 1 ELSE 0) = 1

\* The second flit in a slot is the one that followed its metadata flit.
AttachedRight ==
  \A i \in Ini, s \in Slots :
    queue[i][s].valid_a /\ queue[i][s].valid_b => queue[i][s].attached = queue[i][s].txn

\* Every transaction that arrives is executed, unless a full ring refused one
\* (the SOs numbered after that one then wait for it).
AllExecuted == <>(Executed = DOMAIN txns \/ dropped # {})
=============================================================================
