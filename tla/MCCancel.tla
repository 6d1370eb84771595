------------------------------ MODULE MCCancel -------------------------------
(***************************************************************************)
(* Instances of XnetCancel for TLC: a task that awaits two others, one     *)
(* after or below the other, and two threads that cancel.                  *)
(***************************************************************************)
EXTENDS XnetCancel

TwoChildren   == {"b", "c"}
TwoCancellers == {"x", "y"}
=============================================================================
