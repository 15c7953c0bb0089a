----------------------------- MODULE MCDelivery -----------------------------
(* Small instances of Delivery: a message from each of two customers and a   *)
(* status of a send to the first of them.                                    *)
EXTENDS Delivery

CONSTANTS m1, m2, s1, w1, c1, c2

MCAbout == [e \in Events |-> IF e = s1 THEN w1 ELSE NoWamid]
MCCustomerOf == [e \in Events |-> IF e = m2 THEN c2 ELSE c1]
MCBackoff == [n \in 1..MaxAttempts |-> n]
=============================================================================
