---------------------------- MODULE AdmissionPool ----------------------------
(***************************************************************************)
(* What the reporter and the enricher promise about background work: at    *)
(* most Capacity jobs run at a time, no job starts once the pool is        *)
(* closed, and the pool is declared drained only when nothing runs.        *)
(* Callers, permits, the drain goroutine and the Shutdown callers are all  *)
(* hidden; Reporter and Enricher implement this specification.             *)
(***************************************************************************)
EXTENDS Naturals, FiniteSets

CONSTANTS
  Jobs,       \* identities of the jobs that may be offered
  Capacity    \* MaxConcurrentCalls

VARIABLES
  phase,      \* "open", "closing" or "drained"
  running     \* the jobs admitted and not finished

poolVars == <<phase, running>>

PoolInit ==
  /\ phase = "open"
  /\ running = {}

PoolAdmit(j) ==
  /\ phase = "open"
  /\ j \notin running
  /\ Cardinality(running) < Capacity
  /\ running' = running \cup {j}
  /\ UNCHANGED phase

PoolFinish(j) ==
  /\ j \in running
  /\ running' = running \ {j}
  /\ UNCHANGED phase

PoolClose ==
  /\ phase = "open"
  /\ phase' = "closing"
  /\ UNCHANGED running

PoolDrained ==
  /\ phase = "closing"
  /\ running = {}
  /\ phase' = "drained"
  /\ UNCHANGED running

PoolNext ==
  \/ \E j \in Jobs : PoolAdmit(j) \/ PoolFinish(j)
  \/ PoolClose
  \/ PoolDrained

\* Safety only: what the TLAPS refinement proofs establish.
PoolSafety == PoolInit /\ [][PoolNext]_poolVars

\* The promise that admitted jobs end and that a closed pool drains.
PoolFairness ==
  /\ \A j \in Jobs : WF_poolVars(PoolFinish(j))
  /\ WF_poolVars(PoolDrained)
=============================================================================
