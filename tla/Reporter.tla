------------------------------ MODULE Reporter ------------------------------
(***************************************************************************)
(* reporting/reporter.go: TryReport, the goroutine it starts for an        *)
(* accepted report, and Shutdown.  A request slot r is one call of         *)
(* TryReport followed, when it is accepted, by its goroutine; pc[r] is     *)
(* where it stands between two atomic operations (the loads of closing,    *)
(* the channel operations of the limiter, the calls to the host).  Slots   *)
(* are reused: a host calls TryReport as often as it likes.                *)
(*                                                                         *)
(* The reporting API, the metrics and the logger belong to the host and    *)
(* may panic during report and recordPanic; a metric that panics has       *)
(* counted nothing.  The gauge and what runs in the caller's goroutine are *)
(* taken not to panic.                                                     *)
(***************************************************************************)
EXTENDS BoundedAdmission

CONSTANT Requests    \* calls of TryReport that can overlap in time

ASSUME RequestsAssumption == IsFiniteSet(Requests)

VARIABLES
  pc,        \* program counter of each slot
  outcome,   \* what ReportImpression did for the slot's accepted report, or
             \* "uncounted": it panicked and so did the counter of that
  active,    \* the in-flight gauge: ReportingStarted minus ReportingFinished
  counts,    \* the counters the slot's current report has incremented
  cancelled  \* reportContext is cancelled

callVars == <<pc, outcome, active, counts, cancelled>>
vars == <<admissionVars, callVars>>

-----------------------------------------------------------------------------
\* The stages of a slot.

Answering == {"checked", "full", "acquired", "admitted"}
RunningStates == {"admitted", "spawned", "calling", "finishing", "releasing"}
HolderStates == {"acquired"} \cup RunningStates
CountedStates == {"spawned", "calling", "finishing"}
Rejections == {"atCapacity", "shuttingDown"}
Returned == {"recovering", "done"} \cup Rejections
PCs == {"idle"} \cup Answering \cup RunningStates \cup Returned

Panics == {"panic", "okPanic", "errorPanic"}
ReportOutcomes == {"ok", "error"} \cup Panics
Outcomes == {"none", "noop", "uncounted"} \cup ReportOutcomes

In(states) == {r \in Requests : pc[r] \in states}
Holders == In(HolderStates)      \* slots that hold a permit
Running == In(RunningStates)     \* reports accepted and not released
Counted == In(CountedStates)     \* reports the gauge counts

\* ImpressionReported, ImpressionError and ImpressionRejected.
Counters == {"reported", "errors", "rejected"}
NoCounts == [m \in Counters |-> 0]
One(metric) == [m \in Counters |-> IF m = metric THEN 1 ELSE 0]

TypeOK ==
  /\ AdmissionTypeOK
  /\ pc \in [Requests -> PCs]
  /\ outcome \in [Requests -> Outcomes]
  /\ active \in Int
  /\ counts \in [Requests -> [Counters -> Nat]]
  /\ cancelled \in BOOLEAN

Init ==
  /\ AdmissionInit
  /\ pc = [r \in Requests |-> "idle"]
  /\ outcome = [r \in Requests |-> "none"]
  /\ active = 0
  /\ counts = [r \in Requests |-> NoCounts]
  /\ cancelled = FALSE

Goto(r, from, to) == pc[r] = from /\ pc' = [pc EXCEPT ![r] = to]

Count(r, metric) == counts' = [counts EXCEPT ![r][metric] = @ + 1]

\* reject(partnerID, result), and the return of result.
Reject(r, from, result) == Goto(r, from, result) /\ Count(r, "rejected")

-----------------------------------------------------------------------------
\* TryReport.

\* The first load of closing.
EnterTryReport(r) ==
  /\ \/ ~closing /\ Goto(r, "idle", "checked") /\ UNCHANGED counts
     \/ closing /\ Reject(r, "idle", "shuttingDown")
  /\ UNCHANGED <<admissionVars, outcome, active, cancelled>>

Acquire(r) ==
  /\ Goto(r, "checked", "acquired")
  /\ TryAcquire
  /\ UNCHANGED <<taken, closing, drain, shut, outcome, active, counts, cancelled>>

\* Mutant: TryAcquire is repeated until there is room.
MutAcquireFails(r) == AtCeiling /\ pc[r] = "checked" /\ UNCHANGED vars

AcquireFails(r) ==
  /\ AtCeiling
  /\ Goto(r, "checked", "full")
  /\ UNCHANGED <<admissionVars, outcome, active, counts, cancelled>>

\* Mutant: a failed TryAcquire is always reported as a full limiter.
MutClassifyFull(r) ==
  /\ Reject(r, "full", "atCapacity")
  /\ UNCHANGED <<admissionVars, outcome, active, cancelled>>

\* The second load: a limiter that is full because Drain holds it is no ceiling.
ClassifyFull(r) ==
  /\ Reject(r, "full", IF closing THEN "shuttingDown" ELSE "atCapacity")
  /\ UNCHANGED <<admissionVars, outcome, active, cancelled>>

\* Mutant: no third load.
MutAdmit(r) ==
  /\ Goto(r, "acquired", "admitted")
  /\ UNCHANGED <<admissionVars, outcome, active, counts, cancelled>>

\* The third load finds the reporter open: the report is accepted.
Admit(r) ==
  /\ ~closing
  /\ Goto(r, "acquired", "admitted")
  /\ UNCHANGED <<admissionVars, outcome, active, counts, cancelled>>

\* The third load finds Shutdown under way: the permit goes back.
Withdraw(r) ==
  /\ closing
  /\ Release
  /\ Reject(r, "acquired", "shuttingDown")
  /\ UNCHANGED <<taken, closing, drain, shut, outcome, active, cancelled>>

\* newReportJob, ReportingStarted, go run(job), return ReportAccepted.
Start(r) ==
  /\ Goto(r, "admitted", "spawned")
  /\ active' = active + 1
  /\ UNCHANGED <<admissionVars, outcome, counts, cancelled>>

-----------------------------------------------------------------------------
\* run and report, in the goroutine of an accepted report.

\* The job has no URL (the request had no endpoint): report returns at once.
SkipReport(r) ==
  /\ Goto(r, "spawned", "finishing")
  /\ outcome' = [outcome EXCEPT ![r] = "noop"]
  /\ UNCHANGED <<admissionVars, active, counts, cancelled>>

StartReport(r) ==
  /\ Goto(r, "spawned", "calling")
  /\ UNCHANGED <<admissionVars, outcome, active, counts, cancelled>>

\* Mutant: the error path falls through to ImpressionReported.
MutApiReturns(r) == \E res \in ReportOutcomes :
  /\ Goto(r, "calling", "finishing")
  /\ outcome' = [outcome EXCEPT ![r] = res]
  /\ counts' = [counts EXCEPT ![r] =
       [@ EXCEPT !["reported"] = @ + (IF res \in {"ok", "okPanic", "error"} THEN 1 ELSE 0),
                 !["errors"] = @ + (IF res \in {"error", "errorPanic"} THEN 1 ELSE 0)]]
  /\ UNCHANGED <<admissionVars, active, cancelled>>

\* ReportImpression returns, or it (or the counter) panics; "okPanic" and
\* "errorPanic" are a logger or the deferred ImpressionAPIRequestDuration that
\* panics once the report was counted.
ApiReturns(r) == \E res \in ReportOutcomes :
  /\ Goto(r, "calling", "finishing")
  /\ outcome' = [outcome EXCEPT ![r] = res]
  /\ \/ res \in {"ok", "okPanic"} /\ Count(r, "reported")
     \/ res \in {"error", "errorPanic"} /\ Count(r, "errors")
     \/ res = "panic" /\ UNCHANGED counts
  /\ UNCHANGED <<admissionVars, active, cancelled>>

\* The deferred calls, in the order they run: ReportingFinished ...
ReportingFinished(r) ==
  /\ Goto(r, "finishing", "releasing")
  /\ active' = active - 1
  /\ UNCHANGED <<admissionVars, outcome, counts, cancelled>>

\* Mutant: Release is not deferred, so a panic skips it.
MutReleasePermit(r) ==
  /\ Goto(r, "releasing", IF outcome[r] \in Panics THEN "recovering" ELSE "done")
  /\ IF outcome[r] \in Panics THEN UNCHANGED permits ELSE Release
  /\ UNCHANGED <<taken, closing, drain, shut, outcome, active, counts, cancelled>>

\* ... Release ...
ReleasePermit(r) ==
  /\ Goto(r, "releasing", IF outcome[r] \in Panics THEN "recovering" ELSE "done")
  /\ Release
  /\ UNCHANGED <<taken, closing, drain, shut, outcome, active, counts, cancelled>>

\* Mutant: the panic is contained and not counted.
MutRecordPanic(r) ==
  /\ Goto(r, "recovering", "done")
  /\ UNCHANGED <<admissionVars, outcome, active, counts, cancelled>>

\* ... and, when the report panicked, recover and recordPanic, which swallows a
\* panic of ImpressionError itself.
RecordPanic(r) ==
  /\ Goto(r, "recovering", "done")
  /\ \/ Count(r, "errors") /\ UNCHANGED outcome
     \/ outcome' = [outcome EXCEPT ![r] = "uncounted"] /\ UNCHANGED counts
  /\ UNCHANGED <<admissionVars, active, cancelled>>

\* The slot is used for another call.
NextCall(r) ==
  /\ pc[r] \in {"done"} \cup Rejections
  /\ pc' = [pc EXCEPT ![r] = "idle"]
  /\ outcome' = [outcome EXCEPT ![r] = "none"]
  /\ counts' = [counts EXCEPT ![r] = NoCounts]
  /\ UNCHANGED <<admissionVars, active, cancelled>>

-----------------------------------------------------------------------------
\* Shutdown: closing.Store, drainOnce.Do, and the select.

BeginShutdown(s) == (ShutdownStore(s) \/ ShutdownOnce(s)) /\ UNCHANGED callVars

DrainStep == (DrainOne \/ CloseDrained) /\ UNCHANGED callVars

\* Mutant: the contexts are cancelled as soon as Shutdown begins to wait.
MutShutdownReturnsNil(s) ==
  /\ shut[s] = "waiting"
  /\ cancelled' = TRUE
  /\ IF drain = "drained" THEN ShutdownDrained(s) ELSE UNCHANGED admissionVars
  /\ UNCHANGED <<pc, outcome, active, counts>>

ShutdownReturnsNil(s) ==
  /\ ShutdownDrained(s)
  /\ cancelled' = TRUE
  /\ UNCHANGED <<pc, outcome, active, counts>>

ShutdownReturnsErr(s) ==
  /\ ShutdownExpired(s)
  /\ cancelled' = TRUE
  /\ UNCHANGED <<pc, outcome, active, counts>>

-----------------------------------------------------------------------------
CallerStep(r) ==
  \/ Acquire(r) \/ AcquireFails(r) \/ ClassifyFull(r)
  \/ Admit(r) \/ Withdraw(r) \/ Start(r)

JobStep(r) ==
  \/ SkipReport(r) \/ StartReport(r) \/ ApiReturns(r)
  \/ ReportingFinished(r) \/ ReleasePermit(r) \/ RecordPanic(r)

ShutdownStep(s) == BeginShutdown(s) \/ ShutdownReturnsNil(s) \/ ShutdownReturnsErr(s)

Next ==
  \/ \E r \in Requests : EnterTryReport(r) \/ CallerStep(r) \/ JobStep(r) \/ NextCall(r)
  \/ \E s \in Shutdowns : ShutdownStep(s)
  \/ DrainStep

Spec == Init /\ [][Next]_vars

\* The Go scheduler runs every goroutine that is ready, and ReportImpression
\* returns because report bounds it with context.WithTimeout.  No fairness on
\* the arrival of calls, on Shutdown being called or on its ctx expiring.
Fairness ==
  /\ \A r \in Requests : WF_vars(CallerStep(r)) /\ WF_vars(JobStep(r))
  /\ \A s \in Shutdowns :
       WF_vars((ShutdownOnce(s) /\ UNCHANGED callVars) \/ ShutdownReturnsNil(s))
  /\ WF_vars(DrainStep)

\* Only the goroutines that called TryReport are scheduled.
CallerFairSpec == Spec /\ \A r \in Requests : WF_vars(CallerStep(r))

-----------------------------------------------------------------------------
\* Properties.

\* Every permit of the limiter is held by exactly one report or by Drain: no
\* path through TryReport and run, a panic included, loses or doubles one.
PermitAccounting == permits = Cardinality(Holders) + taken

\* The in-flight gauge never shows more reports than MaxConcurrentCalls and
\* never goes negative, whatever the host reads it against: ReportingStarted
\* follows TryAcquire and ReportingFinished precedes Release.
GaugeWithinCapacity == active \in 0..MaxConcurrentCalls

\* When some Shutdown has returned nil, no accepted report is still running
\* and none can hold a permit; all that may remain is recordPanic.
DrainedQuiescent == (\E s \in Shutdowns : shut[s] = "nil") => closing /\ Holders = {}

\* A report still running sees its context cancelled only because the ctx of
\* some Shutdown caller expired; draining alone cancels nothing.
DrainBeforeCancel ==
  cancelled /\ Running # {} => \E s \in Shutdowns : shut[s] = "expired"

\* TryReport answers ReportAtCapacity only when reports occupied the limiter:
\* permits taken by Drain make it answer ReportShuttingDown.
CapacityRejectIsGenuine ==
  [][\A r \in Requests : pc[r] = "full" /\ pc'[r] = "atCapacity" => taken = 0]_vars

\* A call is settled in the counters exactly as it ended: a rejected one is
\* counted once, as rejected; an accepted one without a URL not at all; one
\* with a URL once, as reported or as failed; and one whose report panicked is
\* counted as failed, whatever it had counted before, unless the counter of
\* failures panics too: then it stands as it was counted before.
SettledOnce == \A r \in Requests :
  LET c == counts[r] IN
  /\ pc[r] \in Rejections => c = One("rejected")
  /\ pc[r] = "done" =>
       \/ outcome[r] = "noop" /\ c = NoCounts
       \/ outcome[r] = "ok" /\ c = One("reported")
       \/ outcome[r] = "error" /\ c = One("errors")
       \/ outcome[r] \in Panics /\ c["errors"] > 0 /\ c["rejected"] = 0
       \/ outcome[r] = "uncounted" /\ c \in {NoCounts, One("reported"), One("errors")}

\* The counters of a slot at each stage of its call.
SettledSoFar == \A r \in Requests :
  LET c == counts[r] IN
  /\ pc[r] \in {"idle", "spawned", "calling"} \cup Answering => c = NoCounts
  /\ pc[r] \in {"finishing", "releasing"} =>
       \/ outcome[r] \in {"noop", "panic"} /\ c = NoCounts
       \/ outcome[r] \in {"ok", "okPanic"} /\ c = One("reported")
       \/ outcome[r] \in {"error", "errorPanic"} /\ c = One("errors")
  /\ pc[r] = "recovering" =>
       \/ outcome[r] = "panic" /\ c = NoCounts
       \/ outcome[r] = "okPanic" /\ c = One("reported")
       \/ outcome[r] = "errorPanic" /\ c = One("errors")

\* The inductive invariant behind the safety properties above: the permits and
\* the gauge count the slots in the right stages of TryReport and run, and the
\* stores of Shutdown happen in order.
ReporterInv ==
  /\ TypeOK
  /\ PermitAccounting
  /\ active = Cardinality(Counted)
  /\ ShutdownOrder
  /\ cancelled => \E s \in Shutdowns : shut[s] \in {"nil", "expired"}
  /\ SettledSoFar
  /\ SettledOnce

\* Under Fairness a Shutdown whose ctx does not expire returns nil.
ShutdownReturns ==
  Fairness => \A s \in Shutdowns : shut[s] = "stored" ~> shut[s] \in {"nil", "expired"}

\* TryReport is non-blocking: it returns although no other goroutine, the
\* running reports included, is ever scheduled.
TryReportReturns == \A r \in Requests : pc[r] \in Answering ~> pc[r] \notin Answering

\* The reporter implements the bounded pool that closes and drains.
Pool == INSTANCE AdmissionPool WITH
  Jobs <- Requests, Capacity <- MaxConcurrentCalls, phase <- Phase, running <- Running

\* The safety part of that refinement: a report starts only while the pool is
\* open and below capacity, and the pool is drained only when none runs.
ImplementsPool == Pool!PoolSafety

\* The rest of it: under Fairness reports end, panics included, and a reporter
\* that was closed is drained.
ImplementsPoolLive == Fairness => Pool!PoolFairness
=============================================================================
