----------------------------- MODULE OrderRelay -----------------------------
(***************************************************************************)
(* What the two serial links of the vessel promise the operator, without   *)
(* links: the board executes the orders in the order in which they were    *)
(* given, leaving out some that newer ones replaced, and the GUI shows     *)
(* what the board executes, late but in the same order.                    *)
(*                                                                         *)
(* Orders and statuses are numbers as in DataLinks, which implements this. *)
(***************************************************************************)
EXTENDS Naturals

CONSTANT MaxOrders

VARIABLES given, executed, display

vars == <<given, executed, display>>

Init == given = 0 /\ executed = 0 /\ display = 0

GiveOrder ==
    /\ given < MaxOrders
    /\ given' = given + 1
    /\ UNCHANGED <<executed, display>>

Execute ==
    /\ executed' \in executed .. given
    /\ UNCHANGED <<given, display>>

Confirm ==
    /\ display' \in display .. executed
    /\ UNCHANGED <<given, executed>>

Next == GiveOrder \/ Execute \/ Confirm

Spec == Init /\ [][Next]_vars
=============================================================================
