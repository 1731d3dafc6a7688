--------------------------- MODULE MC_RtpReceive ---------------------------
(* Packet lengths for RtpReceive: TPACKs have one flit, reads two, writes  *)
(* three.  Seven packets of one peer pass the wrap of the PSN space; the    *)
(* packets of two peers come in order.                                     *)
EXTENDS RtpReceive

MCFlits == [n \in 0 .. 6 |-> IF n = 2 THEN 3 ELSE 1 + (n % 2)]
MCTraffics ==
  {[peers |-> {1}, pkts |-> 7, ahead |-> 3], [peers |-> {1, 2}, pkts |-> 2, ahead |-> 0],
   [peers |-> {1}, pkts |-> 3, ahead |-> 0]}

ASSUME Undisturbed == Setting /\ Fits
=============================================================================
