------------------------- MODULE MCDeliveryHistory --------------------------
(* The instances of MCDelivery with the history of their rows. *)
EXTENDS MCDelivery, DeliveryHistory, TLC

(* Without the status, the customers may change places with their messages.  *)
MCCustomersSwap ==
  {p \in Permutations({m1, m2, c1, c2}) :
     <<p[m1], p[c1], p[m2], p[c2]>>
       \in {<<m1, c1, m2, c2>>, <<m2, c2, m1, c1>>}}
=============================================================================
