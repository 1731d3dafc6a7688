------------------------------- MODULE TxDrain -------------------------------
(***************************************************************************)
(* The transmit side of the wire backend (openurma_nic.cpp), at the grain  *)
(* of its lock and of its single atomic loads, stores and updates: frames  *)
(* are queued by the threads of the application and by the callbacks of    *)
(* the background thread, the background thread sends them, the wire may   *)
(* fail at any time, and two calls tell the application that all is sent:  *)
(* openurma_nic_tx_drained, and the release of the NIC with its shutdown.  *)
(*                                                                         *)
(* Frames are alike and both queues are first in, first out, so a queue is *)
(* the number of frames in it, and what is on the wire are the first wtx   *)
(* that were queued.  A frame is accepted when its call counted it.        *)
(* Atomics are sequentially consistent here; the code asks for less.       *)
(***************************************************************************)
EXTENDS Integers, FiniteSets

CONSTANTS
  Apps,        \* the threads of the application
  Bg, Free,    \* the background thread; the lock is free
  MaxTx,       \* MAX_TX_QUEUE_FRAMES
  CtrMod,      \* 2^64: pending_tx is a size_t
  MaxFrames    \* bound: frames accepted

Threads == Apps \cup {Bg}

ASSUME DrainAssumption ==
  /\ Bg \notin Apps /\ Free \notin Threads
  /\ MaxTx \in Nat \ {0} /\ CtrMod \in Nat /\ CtrMod > 2 * MaxTx /\ MaxFrames \in Nat

VARIABLES
  lk,          \* who holds the lock
  tx_q, batch, \* frames in the queue, and in the copy the background thread sends
  pending_tx,
  fatal,       \* fatal_errno # 0
  pc,          \* pc[t]: where a thread is in a call
  bg,          \* where the background thread is in its loop
  life,        \* of the NIC: "open", "linger", "released", "stopping", "down"
  wtx,         \* frames sent
  accepted,    \* history: frames accepted
  since,       \* since[t]: the frames accepted when t called tx_drained
  said,        \* the last yes of tx_drained: [all, failed]
  due          \* the frames accepted when destroy saw the queue empty

lockVars == <<lk, tx_q>>
wireVars == <<fatal, pending_tx>>
bgVars == <<batch, bg, wtx>>
told == <<since, said, due>>
drainVars == <<lockVars, wireVars, bgVars, pc, life, accepted, told>>

DrainInit ==
  /\ lk = Free /\ tx_q = 0 /\ batch = 0
  /\ pending_tx = 0 /\ fatal = FALSE
  /\ pc = [t \in Threads |-> "idle"]
  /\ bg = "swap" /\ life = "open"
  /\ wtx = 0 /\ accepted = 0
  /\ since = [t \in Apps |-> 0]
  /\ said = [all |-> 0, failed |-> FALSE] /\ due = 0

Goto(t, where) == pc' = [pc EXCEPT ![t] = where]

-----------------------------------------------------------------------------
(* openurma_nic_data_send, and openurma_nic_pump for each flit.            *)

\* An application uses a NIC while it is open.  The background thread is in
\* a callback, which it looked up before the release took it away.
Call(t) ==
  /\ pc[t] = "idle"
  /\ IF t = Bg THEN bg = "recv" /\ lk = Free /\ life \in {"open", "linger"} ELSE life = "open"
  /\ Goto(t, "call")
  /\ UNCHANGED <<lockVars, wireVars, bgVars, life, accepted, told>>

\* The wire is looked at before the lock is taken.
SendTest(t) ==
  /\ pc[t] = "call"
  /\ Goto(t, IF fatal THEN "idle" ELSE "send")
  /\ UNCHANGED <<lockVars, wireVars, bgVars, life, accepted, told>>

SendPush(t) ==
  /\ pc[t] = "send" /\ lk = Free /\ tx_q < MaxTx /\ accepted < MaxFrames
  /\ lk' = t /\ tx_q' = tx_q + 1
  /\ Goto(t, "count")
  /\ UNCHANGED <<wireVars, bgVars, life, accepted, told>>

SendCount(t) ==
  /\ pc[t] = "count"
  /\ pending_tx' = (pending_tx + 1) % CtrMod
  /\ accepted' = accepted + 1
  /\ lk' = Free
  /\ Goto(t, "idle")
  /\ UNCHANGED <<tx_q, fatal, bgVars, life, told>>

\* A full queue: data_send refuses ...
SendRefuse(t) ==
  /\ pc[t] = "send" /\ lk = Free /\ tx_q >= MaxTx
  /\ Goto(t, "idle")
  /\ UNCHANGED <<lockVars, wireVars, bgVars, life, accepted, told>>

\* ... and pump calls mark_wire_failed, with the lock held: who changes
\* fatal_errno clears the counter afterwards.
PumpFull(t) ==
  /\ t # Bg /\ pc[t] = "send" /\ lk = Free /\ tx_q >= MaxTx
  /\ fatal' = TRUE
  /\ IF fatal THEN lk' = Free /\ Goto(t, "idle") ELSE lk' = t /\ Goto(t, "zero")
  /\ UNCHANGED <<tx_q, pending_tx, bgVars, life, accepted, told>>

PumpZero(t) ==
  /\ pc[t] = "zero"
  /\ pending_tx' = 0
  /\ lk' = Free
  /\ Goto(t, "idle")
  /\ UNCHANGED <<tx_q, fatal, bgVars, life, accepted, told>>

-----------------------------------------------------------------------------
(* bg_run.                                                                 *)

\* (Mutant: frames that are taken count as sent.)
BgSwap_Counted ==
  /\ bg = "swap" /\ lk = Free
  /\ batch' = tx_q /\ tx_q' = 0 /\ bg' = "test"
  /\ pending_tx' = (pending_tx - tx_q) % CtrMod
  /\ UNCHANGED <<lk, fatal, wtx, pc, life, accepted, told>>
BgSwap ==
  /\ bg = "swap" /\ lk = Free
  /\ batch' = tx_q /\ tx_q' = 0 /\ bg' = "test"
  /\ UNCHANGED <<lk, wireVars, wtx, pc, life, accepted, told>>

\* The next frame of the copy, unless the wire has failed.
BgTest ==
  /\ bg = "test"
  /\ IF batch = 0 \/ fatal THEN batch' = 0 /\ bg' = "recv" ELSE batch' = batch /\ bg' = "sendto"
  /\ UNCHANGED <<lockVars, wireVars, wtx, pc, life, accepted, told>>

BgSendto ==
  /\ bg = "sendto"
  /\ wtx' = wtx + 1 /\ bg' = "sub"
  /\ UNCHANGED <<lockVars, wireVars, batch, pc, life, accepted, told>>

BgSub ==
  /\ bg = "sub"
  /\ pending_tx' = (pending_tx - 1) % CtrMod
  /\ batch' = batch - 1 /\ bg' = "test"
  /\ UNCHANGED <<lockVars, fatal, wtx, pc, life, accepted, told>>

\* The frame cannot be sent: mark_wire_failed.
BgFails ==
  /\ bg = "sendto"
  /\ fatal' = TRUE
  /\ bg' = IF fatal THEN "test" ELSE "zero"
  /\ UNCHANGED <<lockVars, pending_tx, batch, wtx, pc, life, accepted, told>>

BgZero ==
  /\ bg = "zero"
  /\ pending_tx' = 0
  /\ bg' = "test"
  /\ UNCHANGED <<lockVars, fatal, batch, wtx, pc, life, accepted, told>>

\* The inbox is empty; stop is looked at here only.
BgLoop ==
  /\ bg = "recv" /\ pc[Bg] = "idle"
  /\ bg' = IF life = "stopping" THEN "end" ELSE "swap"
  /\ UNCHANGED <<lockVars, wireVars, batch, wtx, pc, life, accepted, told>>

-----------------------------------------------------------------------------
(* What the application is told.                                           *)

\* openurma_nic_tx_drained: two loads, without the lock.
DrainedFatal(t) ==
  /\ pc[t] = "idle" /\ life = "open" /\ ~fatal
  /\ since' = [since EXCEPT ![t] = accepted]
  /\ Goto(t, "drained")
  /\ UNCHANGED <<lockVars, wireVars, bgVars, life, accepted, said, due>>

DrainedPending(t) ==
  /\ pc[t] = "drained"
  /\ said' = IF pending_tx = 0 THEN [all |-> since[t], failed |-> fatal] ELSE said
  /\ Goto(t, "idle")
  /\ UNCHANGED <<lockVars, wireVars, bgVars, life, accepted, since, due>>

\* openurma_nic_destroy, when the application makes no other call: it waits for
\* an empty queue, up to a limit ...
Destroy ==
  /\ life = "open" /\ \A t \in Apps : pc[t] = "idle"
  /\ lk = Free
  /\ due' = IF tx_q = 0 THEN accepted ELSE 0
  /\ life' = "linger"
  /\ UNCHANGED <<lockVars, wireVars, bgVars, pc, accepted, since, said>>

\* ... and takes the callback away.
Release ==
  /\ life = "linger" /\ lk = Free
  /\ life' = "released"
  /\ UNCHANGED <<lockVars, wireVars, bgVars, pc, accepted, told>>

\* openurma_nic_create, on a NIC that was released.
Reuse ==
  /\ life = "released" /\ ~fatal
  /\ life' = "open"
  /\ UNCHANGED <<lockVars, wireVars, bgVars, pc, accepted, told>>

\* openurma_nic_shutdown_runtime: stop is set, and the thread joined.
Shutdown ==
  /\ life = "released"
  /\ life' = "stopping"
  /\ UNCHANGED <<lockVars, wireVars, bgVars, pc, accepted, told>>
Join ==
  /\ life = "stopping" /\ bg = "end"
  /\ life' = "down"
  /\ UNCHANGED <<lockVars, wireVars, bgVars, pc, accepted, told>>

-----------------------------------------------------------------------------
DrainNext ==
  \/ \E t \in Threads :
       \/ Call(t) \/ SendTest(t) \/ SendPush(t) \/ SendCount(t) \/ SendRefuse(t)
       \/ PumpFull(t) \/ PumpZero(t)
  \/ BgSwap \/ BgTest \/ BgSendto \/ BgSub \/ BgFails \/ BgZero \/ BgLoop
  \/ \E t \in Apps : DrainedFatal(t) \/ DrainedPending(t)
  \/ Destroy \/ Release \/ Reuse \/ Shutdown \/ Join

DrainSpec == DrainInit /\ [][DrainNext]_drainVars

\* What the application is told is true.  A yes of openurma_nic_tx_drained,
\* when the wire has not failed by the end of the call: every frame that was
\* accepted when the call began is on the wire.  (When the wire fails between
\* the two loads, the failure has cleared the counter, and the call says yes of
\* frames that are never sent.)  A NIC that was destroyed with an empty queue
\* and shut down: every frame that was accepted then is on the wire, though
\* destroy does not see what the background thread has taken, unless the wire
\* failed.
SaidTrue ==
  /\ ~said.failed => said.all <= wtx
  /\ life = "down" /\ ~fatal => due <= wtx
=============================================================================
