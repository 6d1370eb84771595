---------------------------- MODULE MCEventLoop -----------------------------
(***************************************************************************)
(* Instances of EventLoop for TLC: one command from the loop's own thread  *)
(* and one from another thread.                                            *)
(***************************************************************************)
EXTENDS EventLoop

OneLocal   == {"a"}
OneForeign == {"b"}
=============================================================================
