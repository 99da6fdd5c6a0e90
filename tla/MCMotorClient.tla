---------------------------- MODULE MCMotorClient ----------------------------
(***************************************************************************)
(* Constants for TLC: every angle within half a turn in steps of 90        *)
(* degrees, and one beyond a whole turn (450 degrees).                     *)
(***************************************************************************)
EXTENDS MotorClient

MCAngles == (-2 .. 2) \cup {5}
=============================================================================
