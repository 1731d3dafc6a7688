---------------------------- MODULE MC_Initiator ----------------------------
(***************************************************************************)
(* Three parts of the sending side that share no state and send each other *)
(* nothing: the ring of UB_Completion_Reorder, with its arrival orders,    *)
(* UB_RTO_Timer, and the transmit side of the wire backend.  Interleaving  *)
(* them would show nothing about any, so one of them moves in a behaviour. *)
(***************************************************************************)
EXTENDS CompletionReorder, RTOTimer, TxDrain

C(i, compl, n, len) == [ini |-> i, compl |-> compl, seq |-> n, len |-> len]

Permuted(s) == {[k \in DOMAIN s |-> s[p[k]]] : p \in
                  {f \in [DOMAIN s -> DOMAIN s] : \A a, b \in DOMAIN s : f[a] = f[b] => a = b}}

\* Any order of as many completions as a ring holds, after n others that
\* moved the head; another initiator, and one that needs no order.
AnyOrder(n, l) ==
  {[k \in 1 .. n |-> C(0, TRUE, k - 1, 1)] \o <<C(1, TRUE, 0, l)>> \o p \o <<C(1, FALSE, 1, l)>> :
     p \in Permuted([k \in 1 .. Win |-> C(0, TRUE, n + k - 1, l)])}

\* One further ahead than the ring is long.
TooFar == {<<C(0, TRUE, Win, 2), C(0, TRUE, 0, 2), C(0, TRUE, 1, 2)>>}

AnyOrders == UNION {AnyOrder(n, l) : n \in {0, Win - 1}, l \in 1 .. 3} \cup TooFar

\* Some neighbours are swapped; the TASSNs wrap.
Swapped(n, swap, l) ==
  [k \in 1 .. 2 * n |-> C(0, TRUE, IF ~swap[(k + 1) \div 2] THEN k - 1
                                    ELSE IF k % 2 = 1 THEN k ELSE k - 2, l)]
Neighbours == {Swapped(Win + 1, swap, l) : swap \in [1 .. Win + 1 -> BOOLEAN], l \in 2 .. 3}

MCOrders == AnyOrders \cup Neighbours \cup {<< >>}

\* What OrderedRelease asks of the initiators.
ASSUME OrdersDistinct == \A o \in MCOrders : Distinct(o)

-----------------------------------------------------------------------------
VARIABLE part  \* the part that moves

allVars == <<part, vars, timerVars, drainVars>>

\* No completion arrives when the ring does not move.
PartsInit ==
  /\ part \in {"ring", "timer", "drain"}
  /\ Init /\ (txns = << >> <=> part # "ring")
  /\ TimerInit /\ DrainInit

RingStep == part = "ring" /\ Next /\ UNCHANGED <<part, timerVars, drainVars>>
TimerStep == part = "timer" /\ TimerNext /\ UNCHANGED <<part, vars, drainVars>>
DrainStep == part = "drain" /\ DrainNext /\ UNCHANGED <<part, vars, timerVars>>
PartsNext == RingStep \/ TimerStep \/ DrainStep

\* The handlers are called for ever, and the clock ticks.
PartsSpec ==
  /\ PartsInit /\ [][PartsNext]_allVars
  /\ WF_allVars(RingStep) /\ WF_allVars(TimerStep /\ Ticks)
=============================================================================
