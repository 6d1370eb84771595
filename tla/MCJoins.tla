------------------------------- MODULE MCJoins -------------------------------
(***************************************************************************)
(* Instances of Joins for TLC: three branches, a task, a plain operation   *)
(* and a command.                                                          *)
(***************************************************************************)
EXTENDS Joins

AllKinds  == {"race", "any", "all", "settled", "chain", "cluster"}
OneTask    == {1}
OneCommand == {3}
=============================================================================
