----------------------------- MODULE MCReporter -----------------------------
(***************************************************************************)
(* An instance of Reporter for TLC.                                        *)
(***************************************************************************)
EXTENDS Reporter, TLC
=============================================================================
