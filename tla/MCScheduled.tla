----------------------------- MODULE MCScheduled -----------------------------
(* Small instances of Scheduled.                                             *)
EXTENDS Scheduled

MCThrottleDelay == [n \in 1..MaxThrottled |-> 1]
=============================================================================
