-------------------------- MODULE BoundedAdmission --------------------------
(***************************************************************************)
(* The limiter channel and the shutdown protocol that reporting/reporter.go*)
(* and enrichment/resolver.go have in common.  A limiter is a buffered     *)
(* channel of capacity MaxConcurrentCalls: a send takes a permit, a        *)
(* receive frees one, permits is its length.  Shutdown stores closing,     *)
(* starts one Drain goroutine through drainOnce and waits for it or for    *)
(* its own context.  A nil limiter (capacity 0) never has room, as here.   *)
(***************************************************************************)
EXTENDS Integers, FiniteSets

CONSTANTS
  MaxConcurrentCalls,  \* capacity of the limiter channel
  Shutdowns            \* concurrent callers of Shutdown, each with its own ctx

\* An enricher whose configuration has no calls to bound runs with a nil
\* limiter: capacity 0 is legal.
ASSUME CapacityAssumption == MaxConcurrentCalls \in Nat

VARIABLES
  permits,   \* len(limiter)
  taken,     \* permits the Drain loop has acquired for good
  closing,   \* the atomic flag
  drain,     \* the drain goroutine: "idle", "draining", "drained" (channel closed)
  shut       \* pc of each Shutdown caller

admissionVars == <<permits, taken, closing, drain, shut>>

ShutStates == {"idle", "stored", "waiting", "nil", "expired"}

AdmissionTypeOK ==
  /\ permits \in 0..MaxConcurrentCalls
  /\ taken \in 0..MaxConcurrentCalls
  /\ closing \in BOOLEAN
  /\ drain \in {"idle", "draining", "drained"}
  /\ shut \in [Shutdowns -> ShutStates]

AdmissionInit ==
  /\ permits = 0
  /\ taken = 0
  /\ closing = FALSE
  /\ drain = "idle"
  /\ shut = [s \in Shutdowns |-> "idle"]

-----------------------------------------------------------------------------
\* The limiter channel.

\* The send of the select succeeds.
TryAcquire ==
  /\ permits < MaxConcurrentCalls
  /\ permits' = permits + 1

\* The select falls to its default case.
AtCeiling == permits = MaxConcurrentCalls

\* A receive blocks on an empty channel.
Release ==
  /\ permits > 0
  /\ permits' = permits - 1

\* One iteration of the Drain loop; the send blocks while the channel is full.
DrainOne ==
  /\ drain = "draining"
  /\ taken < MaxConcurrentCalls
  /\ TryAcquire
  /\ taken' = taken + 1
  /\ UNCHANGED <<closing, drain, shut>>

\* Mutant: the loop leaves one permit out.
MutCloseDrained ==
  /\ drain = "draining"
  /\ taken + 1 >= MaxConcurrentCalls
  /\ drain' = "drained"
  /\ UNCHANGED <<permits, taken, closing, shut>>

\* The loop is over: close(drained).
CloseDrained ==
  /\ drain = "draining"
  /\ taken = MaxConcurrentCalls
  /\ drain' = "drained"
  /\ UNCHANGED <<permits, taken, closing, shut>>

-----------------------------------------------------------------------------
\* Shutdown(ctx), one caller s.

ShutdownStore(s) ==
  /\ shut[s] = "idle"
  /\ closing' = TRUE
  /\ shut' = [shut EXCEPT ![s] = "stored"]
  /\ UNCHANGED <<permits, taken, drain>>

\* Mutant: the once is spent and no goroutine starts.
MutShutdownOnce(s) ==
  /\ shut[s] = "stored"
  /\ shut' = [shut EXCEPT ![s] = "waiting"]
  /\ UNCHANGED <<permits, taken, closing, drain>>

\* drainOnce.Do: only the first caller starts the goroutine.
ShutdownOnce(s) ==
  /\ shut[s] = "stored"
  /\ drain' = IF drain = "idle" THEN "draining" ELSE drain
  /\ shut' = [shut EXCEPT ![s] = "waiting"]
  /\ UNCHANGED <<permits, taken, closing>>

ShutdownDrained(s) ==
  /\ shut[s] = "waiting"
  /\ drain = "drained"
  /\ shut' = [shut EXCEPT ![s] = "nil"]
  /\ UNCHANGED <<permits, taken, closing, drain>>

\* ctx may expire at any time; the select may prefer it to a closed drained.
ShutdownExpired(s) ==
  /\ shut[s] = "waiting"
  /\ shut' = [shut EXCEPT ![s] = "expired"]
  /\ UNCHANGED <<permits, taken, closing, drain>>

\* Where the drain goroutine and the callers of Shutdown stand relative to each
\* other, whoever holds the permits: the order of the stores in Shutdown.
ShutdownOrder ==
  /\ drain # "idle" => closing
  /\ taken > 0 => drain # "idle"
  /\ drain = "drained" => taken = MaxConcurrentCalls
  /\ \A s \in Shutdowns : shut[s] # "idle" => closing
  /\ \A s \in Shutdowns : shut[s] = "nil" => drain = "drained"

\* The state of the pool as AdmissionPool sees it.
Phase == IF drain = "drained" THEN "drained" ELSE IF closing THEN "closing" ELSE "open"
=============================================================================
