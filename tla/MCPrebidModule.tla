-------------------------- MODULE MCPrebidModule ---------------------------
(***************************************************************************)
(* An instance of PrebidModule for TLC.                                    *)
(***************************************************************************)
EXTENDS PrebidModule, TLC
=============================================================================
