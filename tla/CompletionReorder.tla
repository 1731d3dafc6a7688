-------------------------- MODULE CompletionReorder --------------------------
(***************************************************************************)
(* UB_Completion_Reorder: completions that ask for it (ODR[2] = 1) are     *)
(* released in the order of their TASSN.  Each initiator has a ring of     *)
(* slots; the slot at the head belongs to the TASSN that is released next, *)
(* the slot off places further to the TASSN off places later.              *)
(*                                                                         *)
(* A behaviour starts with the order in which completions arrive.  A       *)
(* completion is named by its place in that order; seq is its place in the *)
(* numbering of its initiator, of which TASSN keeps the remainder.  A flit *)
(* is a pair of a completion and a position in it.                         *)
(***************************************************************************)
EXTENDS Integers, Sequences

CONSTANTS
  MaxIni,       \* MAX_INI
  Win,          \* WIN: slots of a ring
  TassnMod,     \* 2^16 in the code: TASSN is a 16 bit number
  Orders        \* the arrival orders, sequences of completions

ASSUME ConstantsAssumption ==
  /\ MaxIni \in Nat \ {0}
  /\ Win \in Nat \ {0}
  /\ TassnMod \in Nat \ {0}

Ini == 0 .. MaxIni - 1
Slots == 0 .. Win - 1
Completion == [ini : Ini, compl : BOOLEAN, seq : Nat, len : 1 .. 3]

ASSUME OrdersAssumption == Orders \subseteq Seq(Completion)

None == -1      \* 0xFFFFFFFF in cur_idx and cur_slot

VARIABLES
  txns,            \* the arrival order
  next,            \* the next flit on port 1
  fa,              \* fa[i][s]: the completion whose metadata flit a slot holds
  valid_a, valid_b,
  next_tassn, head,
  saw_meta, cur_idx, cur_slot,
  out              \* the flits emitted on port 1

ringVars == <<fa, valid_a, valid_b, next_tassn, head>>
vars == <<txns, next, ringVars, saw_meta, cur_idx, cur_slot, out>>

Init ==
  /\ txns \in Orders
  /\ next = [txn |-> 1, k |-> 1]
  /\ fa = [i \in Ini |-> [s \in Slots |-> 0]]
  /\ valid_a = [i \in Ini |-> [s \in Slots |-> FALSE]]
  /\ valid_b = valid_a
  /\ next_tassn = [i \in Ini |-> 0]
  /\ head = [i \in Ini |-> 0]
  /\ saw_meta = FALSE
  /\ cur_idx = 0
  /\ cur_slot = None
  /\ out = << >>

-----------------------------------------------------------------------------
Tassn(t) == txns[t].seq % TassnMod
Eop(f) == f.k = txns[f.txn].len
HasInput == next.txn \in DOMAIN txns

\* read_input_port(PORT_1)
ReadFlit ==
  next' = IF Eop(next) THEN [txn |-> next.txn + 1, k |-> 1]
                       ELSE [next EXCEPT !.k = @ + 1]

\* The metadata flit of a completion that may be released in any order.
MetaBypass ==
  /\ HasInput /\ next.k = 1
  /\ ~txns[next.txn].compl
  /\ ReadFlit
  /\ out' = Append(out, next)
  /\ saw_meta' = TRUE
  /\ cur_idx' = None
  /\ cur_slot' = None
  /\ UNCHANGED <<txns, ringVars>>

\* The end of a call that read a flit of initiator i: at most one completion
\* leaves, the one at the head, and only its metadata flit.  fs, va and vb
\* are the slots after the flit was stored.
Drain(i, fs, va, vb) ==
  /\ fa' = fs
  /\ IF va[i][head[i]]
     THEN /\ out' = Append(out, [txn |-> fs[i][head[i]], k |-> 1])
          /\ valid_a' = [va EXCEPT ![i][head[i]] = FALSE]
          /\ valid_b' = [vb EXCEPT ![i][head[i]] = FALSE]
          /\ head' = [head EXCEPT ![i] = (@ + 1) % Win]
          /\ next_tassn' = [next_tassn EXCEPT ![i] = (@ + 1) % TassnMod]
     ELSE valid_a' = va /\ valid_b' = vb /\ UNCHANGED <<out, next_tassn, head>>

\* How far the TASSN of completion t is ahead of the one released next.
Offset(t) == (Tassn(t) - next_tassn[txns[t].ini]) % TassnMod

SlotOf(t) == (head[txns[t].ini] + Offset(t)) % Win

\* Mutant of InWindow: one place further than the ring is long.
InWindow_Inclusive(t) == Offset(t) <= Win

InWindow(t) == Offset(t) < Win

\* The metadata flit of an ordered completion; outside the window it is lost.
MetaOrdered ==
  LET t == next.txn i == txns[next.txn].ini IN
  /\ HasInput /\ next.k = 1
  /\ txns[t].compl
  /\ ReadFlit
  /\ saw_meta' = TRUE
  /\ cur_idx' = i
  /\ IF InWindow(t)
     THEN /\ cur_slot' = SlotOf(t)
          /\ Drain(i, [fa EXCEPT ![i][SlotOf(t)] = t],
                      [valid_a EXCEPT ![i][SlotOf(t)] = TRUE], valid_b)
     ELSE /\ cur_slot' = None
          /\ Drain(i, fa, valid_a, valid_b)
  /\ UNCHANGED txns

\* A later flit goes where its metadata flit went: out, into the slot, or
\* nowhere.
BodyBypass ==
  /\ HasInput /\ next.k > 1
  /\ saw_meta
  /\ cur_idx = None
  /\ ReadFlit
  /\ saw_meta' = ~Eop(next)
  /\ out' = Append(out, next)
  /\ UNCHANGED <<txns, ringVars, cur_idx, cur_slot>>

\* Mutant of BodyOrdered: nothing is drained when a later flit comes.
BodyOrdered_NoDrain ==
  /\ HasInput /\ next.k > 1
  /\ saw_meta
  /\ cur_idx # None
  /\ ReadFlit
  /\ saw_meta' = ~Eop(next)
  /\ UNCHANGED <<txns, ringVars, out, cur_idx, cur_slot>>

BodyOrdered ==
  /\ HasInput /\ next.k > 1
  /\ saw_meta
  /\ cur_idx # None
  /\ ReadFlit
  /\ saw_meta' = ~Eop(next)
  /\ Drain(cur_idx, fa, valid_a,
           IF cur_slot = None THEN valid_b ELSE [valid_b EXCEPT ![cur_idx][cur_slot] = TRUE])
  /\ UNCHANGED <<txns, cur_idx, cur_slot>>

Next == MetaBypass \/ MetaOrdered \/ BodyBypass \/ BodyOrdered

\* A call without input does nothing.  The element's thread keeps calling the
\* handler and flits that were sent arrive.
Spec == Init /\ [][Next]_vars
FairSpec == Spec /\ WF_vars(Next)

-----------------------------------------------------------------------------
(* Properties.                                                             *)

\* Completions whose metadata flit was emitted among the first n flits.
ReleasedBy(n) == {out[j].txn : j \in {x \in 1 .. n : out[x].k = 1}}
Released == ReleasedBy(Len(out))

Prior(t) == {u \in DOMAIN txns : txns[u].ini = txns[t].ini /\ txns[u].seq < txns[t].seq}

\* An initiator gives each completion a number of its own.
Distinct(o) ==
  \A t, u \in DOMAIN o : o[t].ini = o[u].ini /\ o[t].seq = o[u].seq => t = u

Numbered(i, n, t) ==
  t \in DOMAIN txns /\ txns[t].compl /\ txns[t].ini = i /\ txns[t].seq = n

\* A TASSN is used again only when the completion that had it was released:
\* an ordered completion that arrives finds every number that is TassnMod or
\* more places before its own released.  The ring relies on this and does not
\* check it.
Fresh ==
  HasInput /\ next.k = 1 /\ txns[next.txn].compl =>
    \A n \in 0 .. txns[next.txn].seq - TassnMod :
      \E u \in Released : Numbered(txns[next.txn].ini, n, u)

\* The header's promise: an ordered completion is released
\* only after all completions its initiator numbered before it, and once.
ReleasedInOrder ==
  \A j \in DOMAIN out :
    LET t == out[j].txn IN
    out[j].k = 1 /\ txns[t].compl =>
      Prior(t) \subseteq ReleasedBy(j - 1) /\ t \notin ReleasedBy(j - 1)

\* Completions of one initiator that all ask for order, have more than one
\* flit and arrive at most one place early or late are all released.  (Each
\* flit that is read releases at most one completion, so those that are
\* further out of order, or have no second flit, can be left in the ring.)
NearlyInOrder ==
  \A t \in DOMAIN txns :
    /\ txns[t].compl /\ txns[t].ini = txns[1].ini /\ txns[t].len > 1
    /\ txns[t].seq - (t - 1) \in -1 .. 1
AllReleased == NearlyInOrder => <>(Released = DOMAIN txns)
=============================================================================
