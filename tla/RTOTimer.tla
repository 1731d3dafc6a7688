------------------------------- MODULE RTOTimer -------------------------------
(***************************************************************************)
(* UB_RTO_Timer: one timer per channel.  A tick flit visits one channel,   *)
(* in turn; a channel visited more often than its timeout since the last   *)
(* acknowledgement, or the last timeout, raises an RTO event.  In dynamic  *)
(* mode a timeout doubles the next one.                                    *)
(***************************************************************************)
EXTENDS Integers

CONSTANTS
  Dests,         \* remote CNAs
  Channels,      \* MAX_CHANNELS
  BaseTimeout,   \* BASE_TIMEOUT
  MaxTimeout,    \* MAX_TIMEOUT
  Settings       \* values the host sends with signal 4

ASSUME TimerAssumption ==
  /\ Dests \subseteq Nat
  /\ Channels \in Nat \ {0}
  /\ BaseTimeout \in Nat \ {0} /\ MaxTimeout \in Nat
  /\ BaseTimeout <= MaxTimeout
  /\ Settings \subseteq Nat

VARIABLES
  ch,             \* ch[i]: [valid, cna, ticks, timeout]
  scan_cursor,
  base_timeout,
  dynamic_mode,
  sent,           \* the CNAs that a packet was sent to
  waiting         \* the CNAs whose oldest packet waits for an acknowledgement

timerVars == <<ch, scan_cursor, base_timeout, dynamic_mode, sent, waiting>>

Chan == 0 .. Channels - 1
Idx(d) == d % Channels

\* cna starts undefined in the code; it is read only when valid is set.
TimerInit ==
  /\ ch = [i \in Chan |-> [valid |-> FALSE, cna |-> 0, ticks |-> 0, timeout |-> BaseTimeout]]
  /\ scan_cursor = 0
  /\ base_timeout = BaseTimeout
  /\ dynamic_mode = FALSE
  /\ sent = {} /\ waiting = {}

\* The channels after an acknowledgement from d.
Acked(c, d) ==
  [c EXCEPT ![Idx(d)] = [valid |-> TRUE, cna |-> d, ticks |-> 0, timeout |-> base_timeout]]

\* A visit to channel c raises an RTO event.
Expires(c) == c.valid /\ c.ticks + 1 > c.timeout

\* Mutant of Backoff: the cap is missing.
Backoff_NoCap(t) == IF dynamic_mode THEN 2 * t ELSE t

\* The timeout after one of t ticks has passed.
Backoff(t) ==
  IF ~dynamic_mode THEN t
  ELSE IF 2 * t > MaxTimeout THEN MaxTimeout ELSE 2 * t

\* Channel c after a visit.
Visited(c) ==
  IF ~c.valid THEN c
  ELSE IF Expires(c) THEN [c EXCEPT !.ticks = 0, !.timeout = Backoff(@)]
  ELSE [c EXCEPT !.ticks = @ + 1]

\* Mutant of NextCursor: the last channel is left out.
NextCursor_Short(i) == IF i + 1 >= Channels - 1 THEN 0 ELSE i + 1

NextCursor(i) == (i + 1) % Channels

\* A call with an acknowledgement and no tick.
Ack(d) ==
  /\ d \in sent
  /\ ch' = Acked(ch, d)
  /\ waiting' = waiting \ {d}
  /\ UNCHANGED <<scan_cursor, base_timeout, dynamic_mode, sent>>

\* A call with a tick and no acknowledgement.
Tick ==
  /\ ch' = [ch EXCEPT ![scan_cursor] = Visited(@)]
  /\ scan_cursor' = NextCursor(scan_cursor)
  /\ UNCHANGED <<base_timeout, dynamic_mode, sent, waiting>>

\* A call with both: the acknowledgement comes first.
AckTick(d) ==
  /\ d \in sent
  /\ ch' = [Acked(ch, d) EXCEPT ![scan_cursor] = Visited(@)]
  /\ scan_cursor' = NextCursor(scan_cursor)
  /\ waiting' = waiting \ {d}
  /\ UNCHANGED <<base_timeout, dynamic_mode, sent>>

\* Mutant of Clamped: a timeout of 0 is let through.
Clamped_NoFloor(nt) == IF nt > MaxTimeout THEN MaxTimeout ELSE nt

\* The timeout the host gets when it asks for nt.
Clamped(nt) == IF nt < 1 THEN 1 ELSE IF nt > MaxTimeout THEN MaxTimeout ELSE nt

\* Signal 4: a new base timeout, for every channel, and the mode.
SetBase(nt, mode) ==
  /\ base_timeout' = Clamped(nt)
  /\ dynamic_mode' = mode
  /\ ch' = [i \in Chan |-> [ch[i] EXCEPT !.timeout = Clamped(nt)]]
  /\ UNCHANGED <<scan_cursor, sent, waiting>>

\* The sender has a packet under way to d.
Send(d) ==
  /\ d \notin waiting
  /\ sent' = sent \cup {d}
  /\ waiting' = waiting \cup {d}
  /\ UNCHANGED <<ch, scan_cursor, base_timeout, dynamic_mode>>

TimerNext ==
  \/ Tick
  \/ \E d \in Dests : Ack(d) \/ AckTick(d) \/ Send(d)
  \/ \E nt \in Settings, mode \in BOOLEAN : SetBase(nt, mode)

\* The ticks are a timer's: one always comes.
Ticks == Tick \/ \E d \in Dests : AckTick(d)
TimerSpec == TimerInit /\ [][TimerNext]_timerVars
TimerFairSpec == TimerSpec /\ WF_timerVars(Ticks)

-----------------------------------------------------------------------------
(* Properties.                                                             *)

TypeOK ==
  /\ ch \in [Chan -> [valid : BOOLEAN, cna : Dests \cup {0}, ticks : Nat, timeout : Nat]]
  /\ scan_cursor \in Chan
  /\ base_timeout \in Nat
  /\ dynamic_mode \in BOOLEAN
  /\ sent \subseteq Dests /\ waiting \subseteq sent

\* Whatever the order of signals, acknowledgements and timeouts, no channel
\* waits longer than MAX_TIMEOUT visits, and none has a timeout below the
\* base the host asked for.
WaitBounded ==
  \A i \in Chan : /\ ch[i].ticks <= MaxTimeout
                  /\ base_timeout <= ch[i].timeout /\ ch[i].timeout <= MaxTimeout

\* Header: in static mode the timeout is "applied uniformly to every channel".
StaticUniform == ~dynamic_mode => \A i \in Chan : ch[i].timeout = base_timeout

\* A channel holds the number of a peer that maps to it.
ChannelRight == \A i \in Chan : ch[i].valid => Idx(ch[i].cna) = i

\* A tick that meets an acknowledgement in one call does not raise an RTO:
\* the channel has a whole timeout, of at least one visit, before it.
AckBeatsTick ==
  [][\A d \in Dests : AckTick(d) /\ Idx(d) = scan_cursor =>
       /\ ~Expires(Acked(ch, d)[Idx(d)])
       /\ ch'[Idx(d)].ticks = 1 /\ ch'[Idx(d)].timeout = base_timeout]_timerVars

Expiry(i) == scan_cursor = i /\ Expires(ch[i]) /\ Ticks

\* The header's "timeout-retransmit detector": a packet that is never
\* acknowledged makes its channel time out again and again, whatever the host
\* sets and the other channels do.  The channel must be known to the timer as
\* that destination's, which only an earlier acknowledgement makes it.
LossDetected ==
  \A d \in Dests :
    LET i == Idx(d) IN
    <>[](d \in waiting /\ ch[i].valid /\ ch[i].cna = d) => []<><<Expiry(i)>>_timerVars
=============================================================================
