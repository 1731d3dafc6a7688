---------------------------- MODULE MC_Provider -----------------------------
(***************************************************************************)
(* Instances of Provider for TLC.                                          *)
(***************************************************************************)
EXTENDS Provider

\* Three posts over rings of three slots, two of them usable: the ring fills and
\* its indices wrap.
MixedWorkload == << {"WRITE", "READ"}, {"WRITE", "SEND"}, {"SEND", "CAS"} >>

\* The condition under which a status is proved to be true.
ASSUME ContextsApart == Separate
=============================================================================
