----------------------------- MODULE MCPipeline -----------------------------
(***************************************************************************)
(* Instances of Pipeline for TLC.  Ops are strings here because a token    *)
(* names either a command or the HELLO or SELECT of the handshake.         *)
(***************************************************************************)
EXTENDS Pipeline

One    == {"a"}
Two    == {"a", "b"}
OnlyA  == {"a"}
NoOps  == {}
Close1 == {"close"}
Both   == {"close", "destroy"}
=============================================================================
