------------------------------ MODULE Enricher ------------------------------
(***************************************************************************)
(* enrichment/resolver.go: Enrich in its three wait modes, the background  *)
(* goroutine of async and hybrid calls, and Shutdown.  A slot c is one     *)
(* call of Enrich (pc[c]) and, when the call was admitted, its background  *)
(* goroutine (task[c]), which may outlive the call; a slot is used again   *)
(* when both are over.                                                     *)
(*                                                                         *)
(* The cache is its interface enrichment.Cache: per identity, the entries  *)
(* that a Get may find.  Any operation of it may fail, which the enricher  *)
(* logs and ignores, and entries disappear when they expire.  Keys are     *)
(* abstracted to the identity they belong to, URLs and consent are left    *)
(* out.  Metrics are the in-flight gauge and what the call counted as      *)
(* enriched or not enriched.                                               *)
(***************************************************************************)
EXTENDS BoundedAdmission, ExecutionPlan

CONSTANTS
  Callers,    \* calls of Enrich that can overlap in time
  Ids,        \* identities in the auctions
  Timeouts,   \* values of Request.Timeout
  Waits,      \* values of *Request.WaitTimeout
  HasCache,   \* the enricher was built with a cache
  S2SReplies  \* how S2S may answer, a subset of Replies

ASSUME EnricherAssumption ==
  /\ IsFiniteSet(Callers)
  /\ Timeouts \subseteq Int /\ Waits \subseteq Int /\ NoWait \notin Waits
  /\ HasCache \in BOOLEAN /\ Ids # {}
  /\ S2SReplies \subseteq {"ids", "noIDs", "empty", "error"}

VARIABLES
  pc,        \* program counter of the call
  job,       \* what the call resolved its request to: mode, keys, identity
  answer,    \* what the call returned
  task,      \* program counter of the background goroutine
  reply,     \* the S2S reply the call or its goroutine got
  channel,   \* the completion channel of a hybrid call (buffer of 1)
  tally,     \* Enriched and NotEnriched events counted for the call
  active,    \* the gauge: BackgroundStarted minus BackgroundFinished
  cache,     \* for each identity, the entries a Get may find
  upstream   \* history: which of "ids" and "noIDs" S2S ever replied for an identity

slotVars == <<pc, job, answer, task, reply, channel, tally, active>>
cacheVars == <<cache, upstream>>
vars == <<admissionVars, slotVars, cacheVars>>

-----------------------------------------------------------------------------
\* Requests and their execution plan.

Inputs == [endpoint : BOOLEAN, auction : BOOLEAN, timeout : Timeouts, wait : Waits \cup {NoWait},
           cacheEnabled : BOOLEAN, keys : BOOLEAN, id : Ids]

Refused(rq) == PlanError(rq, HasCache, MaxConcurrentCalls)

\* cacheKeysFor: keys are extracted only for an enabled cache, and a detached
\* call must have some.
Keyed(rq) == HasCache /\ rq.cacheEnabled /\ rq.keys
KeysError(rq) == ~Keyed(rq) /\ WaitModeOf(rq.timeout, rq.wait) # "sync"

JobOf(rq) == [mode |-> WaitModeOf(rq.timeout, rq.wait), keyed |-> Keyed(rq), id |-> rq.id]

-----------------------------------------------------------------------------
\* The stages of a slot.

SyncStates == {"syncMarking", "syncCalling", "syncStoring"}
WaitStates == {"waiting", "expired"}
PCs == {"idle", "lookup", "schedule", "full", "acquired", "admitted", "marking", "returned"}
         \cup SyncStates \cup WaitStates
TaskStates == {"none", "resolving", "sending", "storing", "finishing", "releasing"}

Running == {c \in Callers : pc[c] \in {"admitted", "marking"} \/ task[c] # "none"}
Holders == {c \in Callers : pc[c] = "acquired"} \cup Running
Counted == {c \in Callers : pc[c] = "marking" \/ task[c] \notin {"none", "releasing"}}

Replies == {"ids", "noIDs", "empty", "error"}
AnswerTo == [r \in Replies |->
  CASE r = "ids" -> "enriched" [] r = "noIDs" -> "noIDs"
    [] r = "empty" -> "unresolved" [] r = "error" -> "s2sError"]

NotEnrichedAnswers == {"noEndpoint", "noIDs", "cachedNoIDs", "unresolved", "inProgress",
                       "waitExpired", "backgroundLimit"}
ErrorAnswers == {"shuttingDown", "noAuction", "invalid", "s2sError"}
Answers == {"none", "enriched"} \cup NotEnrichedAnswers \cup ErrorAnswers

Modes == {"sync", "async", "hybrid"}
NoJob == [mode |-> "sync", keyed |-> FALSE, id |-> CHOOSE i \in Ids : TRUE]
Counters == {"enriched", "notEnriched"}
NoTally == [m \in Counters |-> 0]
Entries == {"hit", "negative", "inProgress"}

TypeOK ==
  /\ AdmissionTypeOK
  /\ pc \in [Callers -> PCs]
  /\ job \in [Callers -> [mode : Modes, keyed : BOOLEAN, id : Ids]]
  /\ answer \in [Callers -> Answers]
  /\ task \in [Callers -> TaskStates]
  /\ reply \in [Callers -> Replies \cup {"none"}]
  /\ channel \in [Callers -> Replies \cup {"none"}]
  /\ tally \in [Callers -> [Counters -> Nat]]
  /\ active \in Int
  /\ cache \in [Ids -> SUBSET Entries]
  /\ upstream \in [Ids -> SUBSET {"ids", "noIDs"}]

Init ==
  /\ AdmissionInit
  /\ pc = [c \in Callers |-> "idle"]
  /\ job = [c \in Callers |-> NoJob]
  /\ answer = [c \in Callers |-> "none"]
  /\ task = [c \in Callers |-> "none"]
  /\ reply = [c \in Callers |-> "none"]
  /\ channel = [c \in Callers |-> "none"]
  /\ tally = [c \in Callers |-> NoTally]
  /\ active = 0
  /\ cache = [i \in Ids |-> {}]
  /\ upstream = [i \in Ids |-> {}]

Goto(c, from, to) == pc[c] = from /\ pc' = [pc EXCEPT ![c] = to]
TaskGoto(c, from, to) == task[c] = from /\ task' = [task EXCEPT ![c] = to]

Tally(c, metric) == tally' = [tally EXCEPT ![c][metric] = @ + 1]

\* Enrich returns a; the events it counts on the way.
Return(c, a) ==
  /\ pc' = [pc EXCEPT ![c] = "returned"]
  /\ answer' = [answer EXCEPT ![c] = a]

NotEnriched(c, a) == Return(c, a) /\ Tally(c, "notEnriched")

-----------------------------------------------------------------------------
\* Enrich up to the execution plan.

\* An identity may be asked for in any mode.
EnterEnrich(c) == \E rq \in Inputs :
  /\ pc[c] = "idle" /\ task[c] = "none"
  /\ \/ closing /\ Return(c, "shuttingDown") /\ UNCHANGED <<job, tally>>
     \/ /\ ~closing /\ ~rq.endpoint
        /\ NotEnriched(c, "noEndpoint") /\ UNCHANGED job
     \/ /\ ~closing /\ rq.endpoint /\ ~rq.auction
        /\ Return(c, "noAuction") /\ UNCHANGED <<job, tally>>
     \/ /\ ~closing /\ rq.endpoint /\ rq.auction
        /\ Refused(rq) \/ KeysError(rq)
        /\ Return(c, "invalid") /\ UNCHANGED <<job, tally>>
     \/ /\ ~closing /\ rq.endpoint /\ rq.auction
        /\ ~Refused(rq) /\ ~KeysError(rq)
        /\ pc' = [pc EXCEPT ![c] = IF Keyed(rq) THEN "lookup" ELSE "schedule"]
        /\ job' = [job EXCEPT ![c] = JobOf(rq)]
        /\ UNCHANGED <<answer, tally>>
  /\ UNCHANGED <<admissionVars, cacheVars, task, reply, channel, active>>

\* lookupCache: Get fails, misses, or finds one of the entries.
Lookup(c) ==
  /\ pc[c] = "lookup"
  /\ \/ pc' = [pc EXCEPT ![c] = "schedule"] /\ UNCHANGED <<answer, tally>>
     \/ "hit" \in cache[job[c].id] /\ Return(c, "enriched") /\ Tally(c, "enriched")
     \/ "negative" \in cache[job[c].id] /\ NotEnriched(c, "cachedNoIDs")
     \/ "inProgress" \in cache[job[c].id] /\ NotEnriched(c, "inProgress")
  /\ UNCHANGED <<admissionVars, cacheVars, job, task, reply, channel, active>>

-----------------------------------------------------------------------------
\* Calls on the cache and on S2S.

\* A write may fail, replace what readers find, or leave an entry of the other
\* layer visible.
Put(id, e) ==
  \/ UNCHANGED cache
  \/ \E kept \in {{}, cache[id]} : cache' = [cache EXCEPT ![id] = kept \cup {e}]

\* markInProgress.
MarkInProgress(c) ==
  IF job[c].keyed THEN Put(job[c].id, "inProgress") ELSE UNCHANGED cache

\* Mutant: a failed call is counted as not enriched too.
MutResolve(c, r) ==
  /\ reply' = [reply EXCEPT ![c] = r]
  /\ upstream' = [upstream EXCEPT ![job[c].id] = @ \cup ({r} \cap {"ids", "noIDs"})]
  /\ Tally(c, IF r = "ids" THEN "enriched" ELSE "notEnriched")

\* resolve: the reply and the events it counts.
Resolve(c, r) ==
  /\ reply' = [reply EXCEPT ![c] = r]
  /\ upstream' = [upstream EXCEPT ![job[c].id] = @ \cup ({r} \cap {"ids", "noIDs"})]
  /\ \/ r = "ids" /\ Tally(c, "enriched")
     \/ r \in {"noIDs", "empty"} /\ Tally(c, "notEnriched")
     \/ r = "error" /\ UNCHANGED tally

\* Mutant: an empty body is remembered as "no IDs".
MutStoreResult(c) ==
  IF job[c].keyed /\ reply[c] = "ids" THEN Put(job[c].id, "hit")
  ELSE IF job[c].keyed /\ reply[c] \in {"noIDs", "empty"} THEN Put(job[c].id, "negative")
  ELSE UNCHANGED cache

\* storeResult: only Enriched and NoIDs are stored.
StoreResult(c) ==
  IF job[c].keyed /\ reply[c] = "ids" THEN Put(job[c].id, "hit")
  ELSE IF job[c].keyed /\ reply[c] = "noIDs" THEN Put(job[c].id, "negative")
  ELSE UNCHANGED cache

\* An entry expires or is evicted.
Expire(id) == \E e \in cache[id] :
  /\ cache' = [cache EXCEPT ![id] = @ \ {e}]
  /\ UNCHANGED <<admissionVars, slotVars, upstream>>

-----------------------------------------------------------------------------
\* schedule, sync mode: the caller resolves, outside the limiter.

ScheduleSync(c) ==
  /\ job[c].mode = "sync"
  /\ Goto(c, "schedule", "syncMarking")
  /\ UNCHANGED <<admissionVars, cacheVars, job, answer, task, reply, channel, tally, active>>

SyncMark(c) ==
  /\ Goto(c, "syncMarking", "syncCalling")
  /\ MarkInProgress(c)
  /\ UNCHANGED <<admissionVars, job, answer, task, reply, channel, tally, active, upstream>>

\* runBounded: an error returns at once, nothing is stored.
SyncResolve(c) == \E r \in S2SReplies :
  /\ pc[c] = "syncCalling"
  /\ Resolve(c, r)
  /\ IF r = "error" THEN Return(c, "s2sError")
     ELSE pc' = [pc EXCEPT ![c] = "syncStoring"] /\ UNCHANGED answer
  /\ UNCHANGED <<admissionVars, job, task, channel, active, cache>>

SyncStore(c) ==
  /\ pc[c] = "syncStoring"
  /\ StoreResult(c)
  /\ Return(c, AnswerTo[reply[c]])
  /\ UNCHANGED <<admissionVars, job, task, reply, channel, tally, active, upstream>>

-----------------------------------------------------------------------------
\* schedule, async and hybrid mode: admission to the background pool.

Acquire(c) ==
  /\ job[c].mode # "sync"
  /\ Goto(c, "schedule", "acquired")
  /\ TryAcquire
  /\ UNCHANGED <<taken, closing, drain, shut, cacheVars>>
  /\ UNCHANGED <<job, answer, task, reply, channel, tally, active>>

AcquireFails(c) ==
  /\ job[c].mode # "sync"
  /\ AtCeiling
  /\ Goto(c, "schedule", "full")
  /\ UNCHANGED <<admissionVars, cacheVars, job, answer, task, reply, channel, tally, active>>

\* Mutant: any failed TryAcquire is reported as the background limit.
MutClassifyFull(c) ==
  /\ pc[c] = "full"
  /\ NotEnriched(c, "backgroundLimit")
  /\ UNCHANGED <<admissionVars, cacheVars, job, task, reply, channel, active>>

ClassifyFull(c) ==
  /\ pc[c] = "full"
  /\ \/ closing /\ Return(c, "shuttingDown") /\ UNCHANGED tally
     \/ ~closing /\ NotEnriched(c, "backgroundLimit")
  /\ UNCHANGED <<admissionVars, cacheVars, job, task, reply, channel, active>>

\* Mutant: closing is not read again once the permit is held.
MutAdmit(c) ==
  /\ Goto(c, "acquired", "admitted")
  /\ UNCHANGED <<admissionVars, cacheVars, job, answer, task, reply, channel, tally, active>>

Admit(c) ==
  /\ ~closing
  /\ Goto(c, "acquired", "admitted")
  /\ UNCHANGED <<admissionVars, cacheVars, job, answer, task, reply, channel, tally, active>>

\* Mutant: the permit of a call turned away by Shutdown is kept.
MutWithdraw(c) ==
  /\ closing
  /\ pc[c] = "acquired"
  /\ Return(c, "shuttingDown")
  /\ UNCHANGED <<admissionVars, cacheVars, job, task, reply, channel, tally, active>>

Withdraw(c) ==
  /\ closing
  /\ pc[c] = "acquired"
  /\ Release
  /\ Return(c, "shuttingDown")
  /\ UNCHANGED <<taken, closing, drain, shut, cacheVars>>
  /\ UNCHANGED <<job, task, reply, channel, tally, active>>

BackgroundStarted(c) ==
  /\ Goto(c, "admitted", "marking")
  /\ active' = active + 1
  /\ UNCHANGED <<admissionVars, cacheVars, job, answer, task, reply, channel, tally>>

\* markInProgress, then startBackground: an async call returns with it.
StartBackground(c) ==
  /\ pc[c] = "marking"
  /\ MarkInProgress(c)
  /\ task' = [task EXCEPT ![c] = "resolving"]
  /\ IF job[c].mode = "async" THEN NotEnriched(c, "waitExpired")
     ELSE pc' = [pc EXCEPT ![c] = "waiting"] /\ UNCHANGED <<answer, tally>>
  /\ UNCHANGED <<admissionVars, job, reply, channel, active, upstream>>

-----------------------------------------------------------------------------
\* The background goroutine.

TaskResolve(c) == \E r \in S2SReplies :
  /\ TaskGoto(c, "resolving", IF job[c].mode = "hybrid" THEN "sending" ELSE "storing")
  /\ Resolve(c, r)
  /\ UNCHANGED <<admissionVars, pc, job, answer, channel, active, cache>>

\* Mutant: an unbuffered channel, where the send needs a waiting receiver.
MutTaskSend(c) ==
  /\ pc[c] \in WaitStates
  /\ TaskGoto(c, "sending", "storing")
  /\ channel' = [channel EXCEPT ![c] = reply[c]]
  /\ UNCHANGED <<admissionVars, cacheVars, pc, job, answer, reply, tally, active>>

\* The send into the buffer of a hybrid call, blocking when it is full.
TaskSend(c) ==
  /\ channel[c] = "none"
  /\ TaskGoto(c, "sending", "storing")
  /\ channel' = [channel EXCEPT ![c] = reply[c]]
  /\ UNCHANGED <<admissionVars, cacheVars, pc, job, answer, reply, tally, active>>

\* storeResult, when err is nil.
TaskStore(c) ==
  /\ TaskGoto(c, "storing", "finishing")
  /\ IF reply[c] = "error" THEN UNCHANGED cache ELSE StoreResult(c)
  /\ UNCHANGED <<admissionVars, pc, job, answer, reply, channel, tally, active, upstream>>

\* The deferred function: BackgroundFinished, then Release.
BackgroundFinished(c) ==
  /\ TaskGoto(c, "finishing", "releasing")
  /\ active' = active - 1
  /\ UNCHANGED <<admissionVars, cacheVars, pc, job, answer, reply, channel, tally>>

TaskRelease(c) ==
  /\ TaskGoto(c, "releasing", "none")
  /\ Release
  /\ UNCHANGED <<taken, closing, drain, shut, cacheVars>>
  /\ UNCHANGED <<pc, job, answer, reply, channel, tally, active>>

-----------------------------------------------------------------------------
\* waitForResult.

Receive(c, from) ==
  /\ pc[c] = from
  /\ channel[c] # "none"
  /\ Return(c, AnswerTo[channel[c]])
  /\ channel' = [channel EXCEPT ![c] = "none"]
  /\ UNCHANGED <<admissionVars, cacheVars, job, task, reply, tally, active>>

\* The first select: the completion ...
ReceiveResult(c) == Receive(c, "waiting")

\* Mutant: the wait has no timer.
MutTimerFires(c) == FALSE /\ pc[c] = "waiting" /\ UNCHANGED vars

\* ... or the timer, also when both are ready.
TimerFires(c) ==
  /\ Goto(c, "waiting", "expired")
  /\ UNCHANGED <<admissionVars, cacheVars, job, answer, task, reply, channel, tally, active>>

\* Mutant: the timer case gives up at once.
MutWaitExpires(c) ==
  /\ pc[c] = "expired"
  /\ NotEnriched(c, "waitExpired")
  /\ UNCHANGED <<admissionVars, cacheVars, job, task, reply, channel, active>>

\* The second select, with a default: a result at the boundary is preferred.
WaitExpires(c) ==
  \/ Receive(c, "expired")
  \/ /\ pc[c] = "expired" /\ channel[c] = "none"
     /\ NotEnriched(c, "waitExpired")
     /\ UNCHANGED <<admissionVars, cacheVars, job, task, reply, channel, active>>

\* The slot is used for another call: its channel is garbage.
NextCall(c) ==
  /\ pc[c] = "returned" /\ task[c] = "none"
  /\ pc' = [pc EXCEPT ![c] = "idle"]
  /\ job' = [job EXCEPT ![c] = NoJob]
  /\ answer' = [answer EXCEPT ![c] = "none"]
  /\ reply' = [reply EXCEPT ![c] = "none"]
  /\ channel' = [channel EXCEPT ![c] = "none"]
  /\ tally' = [tally EXCEPT ![c] = NoTally]
  /\ UNCHANGED <<admissionVars, cacheVars, task, active>>

-----------------------------------------------------------------------------
\* Shutdown: closing.Store, drainOnce.Do and the select; nothing is cancelled.

BeginShutdown(s) == (ShutdownStore(s) \/ ShutdownOnce(s)) /\ UNCHANGED <<slotVars, cacheVars>>
DrainStep == (DrainOne \/ CloseDrained) /\ UNCHANGED <<slotVars, cacheVars>>
ShutdownReturnsNil(s) == ShutdownDrained(s) /\ UNCHANGED <<slotVars, cacheVars>>
ShutdownReturnsErr(s) == ShutdownExpired(s) /\ UNCHANGED <<slotVars, cacheVars>>

-----------------------------------------------------------------------------
\* Steps of the calling goroutine that do not wait for S2S.
CallerStep(c) ==
  \/ Lookup(c) \/ ScheduleSync(c) \/ SyncMark(c) \/ SyncStore(c)
  \/ Acquire(c) \/ AcquireFails(c) \/ ClassifyFull(c) \/ Admit(c) \/ Withdraw(c)
  \/ BackgroundStarted(c) \/ StartBackground(c)
  \/ ReceiveResult(c) \/ TimerFires(c) \/ WaitExpires(c)

TaskStep(c) ==
  \/ TaskResolve(c) \/ TaskSend(c) \/ TaskStore(c)
  \/ BackgroundFinished(c) \/ TaskRelease(c)

ShutdownStep(s) == BeginShutdown(s) \/ ShutdownReturnsNil(s) \/ ShutdownReturnsErr(s)

Next ==
  \/ \E c \in Callers :
       EnterEnrich(c) \/ CallerStep(c) \/ SyncResolve(c) \/ TaskStep(c) \/ NextCall(c)
  \/ \E s \in Shutdowns : ShutdownStep(s)
  \/ DrainStep
  \/ \E id \in Ids : Expire(id)

Spec == Init /\ [][Next]_vars

\* Ready goroutines are scheduled; timers fire; S2S returns because resolve
\* runs under context.WithTimeout.  Nothing about arrivals, Shutdown calls,
\* expiring contexts or the cache's contents.
Fairness ==
  /\ \A c \in Callers :
       WF_vars(CallerStep(c)) /\ WF_vars(SyncResolve(c)) /\ WF_vars(TaskStep(c))
  /\ \A s \in Shutdowns :
       WF_vars((ShutdownOnce(s) /\ UNCHANGED <<slotVars, cacheVars>>) \/ ShutdownReturnsNil(s))
  /\ WF_vars(DrainStep)

\* Only the callers run: S2S never answers.
CallerFairSpec == Spec /\ \A c \in Callers : WF_vars(CallerStep(c))

-----------------------------------------------------------------------------
\* Properties.

\* How the call and its background goroutine stand to each other: before the
\* goroutine starts nothing has been resolved, a caller waits only in hybrid mode, and as
\* long as it waits the channel holds whatever its goroutine has sent.
Unresolved == {"idle", "lookup", "schedule", "full", "acquired", "admitted", "marking",
               "syncMarking", "syncCalling"}
InOrder(c) ==
  /\ pc[c] \in Unresolved => task[c] = "none" /\ reply[c] = "none" /\ channel[c] = "none"
  /\ pc[c] = "syncStoring" => task[c] = "none" /\ reply[c] \notin {"none", "error"}
  /\ pc[c] \in {"full", "acquired", "admitted", "marking"} => job[c].mode # "sync"
  /\ pc[c] \in WaitStates =>
       /\ job[c].mode = "hybrid"
       /\ channel[c] = IF task[c] \in {"resolving", "sending"} THEN "none" ELSE reply[c]
  /\ pc[c] # "returned" <=> answer[c] = "none"
  /\ task[c] = "resolving" => reply[c] = "none" /\ channel[c] = "none"
  /\ task[c] # "resolving" /\ (task[c] # "none" \/ pc[c] \in WaitStates) => reply[c] # "none"
  /\ pc[c] = "returned" /\ answer[c] # "waitExpired" => task[c] # "resolving"

\* The events counted for a slot so far: those of the reply that resolve got, and
\* the one of a call that did not wait for it.
Bit(b) == IF b THEN 1 ELSE 0
CountedSoFar(c) ==
  LET resolved == pc[c] # "returned" \/ answer[c] = "waitExpired" IN
  /\ tally[c]["enriched"] = IF resolved THEN Bit(reply[c] = "ids") ELSE Bit(answer[c] = "enriched")
  /\ tally[c]["notEnriched"] =
       IF resolved THEN Bit(reply[c] \in {"noIDs", "empty"}) + Bit(answer[c] = "waitExpired")
       ELSE Bit(answer[c] \in NotEnrichedAnswers)

\* Where the replies, entries and answers about an identity come from.
Sourced ==
  /\ \A i \in Ids :
       /\ "hit" \in cache[i] => "ids" \in upstream[i]
       /\ "negative" \in cache[i] => "noIDs" \in upstream[i]
  /\ \A c \in Callers :
       /\ reply[c] = "ids" \/ answer[c] = "enriched" => "ids" \in upstream[job[c].id]
       /\ reply[c] = "noIDs" \/ answer[c] \in {"noIDs", "cachedNoIDs"}
            => "noIDs" \in upstream[job[c].id]

\* The books of the pool at every step: each permit is held by exactly one
\* admitted call, one being admitted, or Drain; the gauge counts the calls
\* between BackgroundStarted and BackgroundFinished, so that it never passes the
\* capacity it is published with; once a Shutdown has returned nil every
\* admitted call is over, its cache write included; and every slot is in order.
EnricherInv ==
  /\ TypeOK
  /\ ShutdownOrder
  /\ permits = Cardinality(Holders) + taken
  /\ active = Cardinality(Counted) /\ active <= MaxConcurrentCalls
  /\ (\E s \in Shutdowns : shut[s] = "nil") => closing /\ Holders = {}
  /\ \A c \in Callers : InOrder(c) /\ CountedSoFar(c)
  /\ Sourced

\* What callers and the cache are told about an identity is what S2S said:
\* positive entries and answers come from a reply with IDs, negative ones from
\* a reply without (never from an empty body or a failed call).
AnswersFromUpstream ==
  /\ \A i \in Ids :
       /\ "hit" \in cache[i] => "ids" \in upstream[i]
       /\ "negative" \in cache[i] => "noIDs" \in upstream[i]
  /\ \A c \in Callers :
       /\ answer[c] = "enriched" => "ids" \in upstream[job[c].id]
       /\ answer[c] \in {"noIDs", "cachedNoIDs"} => "noIDs" \in upstream[job[c].id]

\* What a finished call (its background goroutine included) has counted: one
\* event that fits its answer and none for an error, no event lost and none
\* counted twice on any path; a call that gave up waiting also has the event of
\* the resolution that went on without it.  That second event is what the code
\* counts, not what the metric's description says: see EnrichedMeansAdded.
TalliedAsAnswered == \A c \in Callers :
  LET late == IF answer[c] # "waitExpired" THEN "error" ELSE reply[c] IN
  pc[c] = "returned" /\ task[c] = "none" =>
    tally[c] = [m \in Counters |->
      IF m = "enriched"
      THEN (IF answer[c] = "enriched" THEN 1 ELSE 0) + (IF late = "ids" THEN 1 ELSE 0)
      ELSE (IF answer[c] \in NotEnrichedAnswers THEN 1 ELSE 0)
             + (IF late \in {"noIDs", "empty"} THEN 1 ELSE 0)]

\* background_limit is answered only when calls occupied the limiter, never
\* because Drain holds its permits.
LimitRejectIsGenuine ==
  [][\A c \in Callers : pc[c] = "full" /\ answer'[c] = "backgroundLimit" => taken = 0]_vars

\* A result that reached the channel before its caller returned is what the
\* caller returns, also when the timer fired first; it is never reported late.
ResultDelivered ==
  [][\A c \in Callers :
       pc[c] \in WaitStates /\ channel[c] # "none" /\ pc'[c] = "returned"
         => answer'[c] = AnswerTo[channel[c]]]_vars

\* An async or hybrid call returns although S2S never answers and no
\* background goroutine makes progress.
DetachedReturns == \A c \in Callers :
  (pc[c] = "schedule" /\ job[c].mode # "sync") ~> pc[c] = "returned"

\* The background calls of the enricher are the jobs of a bounded pool.
Pool == INSTANCE AdmissionPool WITH
  Jobs <- Callers, Capacity <- MaxConcurrentCalls, phase <- Phase, running <- Running

\* Calls are admitted only while the enricher is open and below capacity, and
\* drained is closed only when none runs.
ImplementsPool == Pool!PoolSafety

\* Under Fairness admitted calls end and give their permits back, whether or not
\* their callers are there to take the result, and a closed enricher is drained.
ImplementsPoolLive == Fairness => Pool!PoolFairness

-----------------------------------------------------------------------------
\* Statements of the documentation that the code does not keep.

Resolving(i) == {c \in Callers :
  /\ job[c].id = i
  /\ pc[c] \in {"marking"} \cup SyncStates \/ task[c] \in {"resolving", "sending", "storing"}}

\* The comment of OutcomeInProgress: another request is already resolving this
\* identity.  A marker that a failed resolution leaves behind is answered too.
InProgressMeansResolving ==
  [][\A c \in Callers : answer[c] # "inProgress" /\ answer'[c] = "inProgress"
       => Resolving(job[c].id) # {}]_vars

\* The description of enriched_total: "Resolutions that added >=1 eid to
\* user.eids".  A resolution that ends after its call gave up waiting is counted
\* there too, although the auction got nothing of it, and the call is counted in
\* not_enriched_total as well.
EnrichedMeansAdded == \A c \in Callers :
  pc[c] = "returned" /\ task[c] = "none" =>
    tally[c]["enriched"] = Bit(answer[c] = "enriched")
=============================================================================
