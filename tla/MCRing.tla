------------------------------- MODULE MCRing -------------------------------
(***************************************************************************)
(* The instance of MPSCRing for TLC: ring.cfg gives the constants.  The    *)
(* producers run the same code, but the fairness of FairSpec names each of *)
(* them, so no symmetry is declared.                                       *)
(***************************************************************************)
EXTENDS MPSCRing
=============================================================================
