----------------------------- MODULE MCBroadcast -----------------------------
(* Small instances of Broadcast.                                             *)
EXTENDS Broadcast

MCThrottleDelay == [n \in 1..MaxThrottled |-> 1]
=============================================================================
