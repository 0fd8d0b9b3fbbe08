----------------------------- MODULE MCEnricher -----------------------------
(***************************************************************************)
(* Instances of Enricher for TLC.                                          *)
(***************************************************************************)
EXTENDS Enricher, TLC

\* Callers and identities are only compared and quantified over.  Used in runs
\* that check no liveness.
Symmetry == Permutations(Callers) \cup Permutations(Shutdowns)

\* Timeouts: one that executionPlanFor refuses and one it accepts.  Waits: a
\* refused one, and one on each side of every comparison of
\* normalizeWaitTimeout.
MCTimeouts == {0, 2}
MCWaits == {-1, 0, 1, 2}
=============================================================================
