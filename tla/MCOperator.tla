----------------------------- MODULE MCOperator -----------------------------
(* A small instance of what an operator does and sees: broadcasts that are   *)
(* created and cancelled, and a thread that is read while messages arrive.   *)
(* They share no state, so a behaviour runs one part and the other stays in  *)
(* its initial state. The thread comes in two parts: the visits to it, with  *)
(* the reads that overlap, and the pages of one visit.                       *)
EXTENDS MCBroadcast, ThreadView

VARIABLE part

operatorVars == <<vars, threadVars, part>>

OperatorInit == Init /\ ThreadInit /\ part \in {"broadcasts", "visits", "pages"}

(* What the parts of ThreadView leave out: one message and no older page is  *)
(* enough to tell reads apart; one visit has no prefetch and no second       *)
(* opening.                                                                  *)
VisitsOnly == Len(stamps') <= 1 /\ older'.pc = "idle"
PagesOnly ==
  /\ open \/ reads = <<>>
  /\ reads' # <<>> => open'
  /\ done'.kind = "ok" => done'.young

(* A thread whose bounds are used up stays as it is.                         *)
OperatorNext ==
  /\ part' = part
  /\ \/ part = "broadcasts" /\ Next /\ UNCHANGED threadVars
     \/ part = "visits" /\ ThreadNext /\ VisitsOnly /\ UNCHANGED vars
     \/ part = "pages" /\ ThreadNext /\ PagesOnly /\ UNCHANGED vars
     \/ part # "broadcasts" /\ UNCHANGED <<vars, threadVars>>

OperatorSpec == OperatorInit /\ [][OperatorNext]_operatorVars
=============================================================================
