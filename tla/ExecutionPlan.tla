--------------------------- MODULE ExecutionPlan ---------------------------
(***************************************************************************)
(* enrichment/enrichment.go and resolver.go: the wait mode of a request,   *)
(* and which requests an enricher refuses to run.  Enricher uses it for    *)
(* what Enrich does, AccountConfig for what the host's validation must     *)
(* imply.                                                                  *)
(***************************************************************************)
EXTENDS Integers

CONSTANT NoWait   \* a nil WaitTimeout

\* normalizeWaitTimeout.
WaitModeOf(timeout, wait) ==
  IF wait = NoWait \/ timeout <= 0 \/ wait >= timeout THEN "sync"
  ELSE IF wait <= 0 THEN "async" ELSE "hybrid"

\* executionPlanFor, in an enricher with or without a cache whose limiter has
\* the given capacity.
PlanError(rq, hasCache, capacity) ==
  \/ rq.timeout <= 0
  \/ rq.wait # NoWait /\ rq.wait < 0
  \/ /\ WaitModeOf(rq.timeout, rq.wait) # "sync"
     /\ ~hasCache \/ ~rq.cacheEnabled \/ capacity = 0
=============================================================================
