---------------------------- MODULE PrebidModule ----------------------------
(***************************************************************************)
(* example/prebid-module: Builder, the two auction hooks and Shutdown, the *)
(* composition of the enricher, the reporter, the L2 store and the metrics *)
(* listener in one host.  Enricher and reporter appear as what they are    *)
(* shown to implement, a bounded pool that closes and drains               *)
(* (AdmissionPool): the jobs of one are detached enrichments, those of the *)
(* other accepted impression reports.                                      *)
(***************************************************************************)
EXTENDS Naturals, FiniteSets

CONSTANTS
  Auctions,         \* auctions that can overlap in time
  Bids,             \* the bids of one auction's response
  EnrichCapacity,   \* max_concurrent_calls
  ReportCapacity,   \* reporting.max_concurrent_calls
  Shutdowns         \* calls of Module.Shutdown

ASSUME ModuleAssumption ==
  /\ EnrichCapacity \in Nat /\ ReportCapacity \in Nat
  /\ IsFiniteSet(Auctions) /\ IsFiniteSet(Bids)

VARIABLES
  config,     \* what Builder was given, as far as it decides what Builder opens
  stage,      \* how far Builder got
  listener,   \* the metrics listener
  store,      \* the L2 store
  ephase, enriching,   \* the enricher's pool: phase and detached enrichments
  rphase, reports,     \* the reporter's pool: phase and running reports
  auction,    \* where each auction stands
  answer,     \* what Enrich answered for it
  context,    \* the auctionContext stored for it
  eids,       \* how often resolved EIDs were appended to its request
  left,       \* the bids of its response still to be reported
  sent,       \* the auctionContexts its accepted reports were made from
  shut        \* program counter of each Shutdown call

buildVars == <<config, stage, listener, store>>
enricherVars == <<ephase, enriching>>
reporterVars == <<rphase, reports>>
hookVars == <<auction, answer, context, eids, left, sent>>
vars == <<buildVars, enricherVars, reporterVars, hookVars, shut>>

Enricher == INSTANCE AdmissionPool WITH
  Jobs <- Auctions, Capacity <- EnrichCapacity, phase <- ephase, running <- enriching
Reporter == INSTANCE AdmissionPool WITH
  Jobs <- Auctions \X Bids, Capacity <- ReportCapacity, phase <- rphase, running <- reports

-----------------------------------------------------------------------------
\* Contexts: whether they have the auction's request data and the metadata of
\* its enrichment.
NoContext == [request |-> FALSE, metadata |-> FALSE]
RequestContext == [request |-> TRUE, metadata |-> FALSE]
FullContext == [request |-> TRUE, metadata |-> TRUE]
Contexts == {NoContext, RequestContext, FullContext}

\* What Enrich answers: EIDs and metadata, metadata only, neither, or an error.
Replies == {"eids", "metadata", "bare", "error"}
Resources == {"none", "open", "closed"}

\* A listener is bound until the goroutine of its server runs, which then serves
\* it, or closes it if the server was closed first and never knew of it.
Listeners == Resources \cup {"bound", "abandoned"}
Stages == {"start", "config", "serving", "storing", "ready", "failed"}
AuctionStates == {"idle", "enrich", "wait", "answered", "respond", "done"}
ShutStates == {"idle", "reporter", "enricher", "metrics", "store", "nil", "error"}

TypeOK ==
  /\ config \in [metrics : BOOLEAN, cache : BOOLEAN, reporting : BOOLEAN]
  /\ stage \in Stages /\ listener \in Listeners /\ store \in Resources
  /\ ephase \in {"open", "closing", "drained"} /\ enriching \subseteq Auctions
  /\ rphase \in {"open", "closing", "drained"} /\ reports \subseteq Auctions \X Bids
  /\ auction \in [Auctions -> AuctionStates]
  /\ answer \in [Auctions -> Replies \cup {"none"}]
  /\ context \in [Auctions -> Contexts]
  /\ eids \in [Auctions -> Nat]
  /\ left \in [Auctions -> SUBSET Bids]
  /\ sent \in [Auctions -> SUBSET Contexts]
  /\ shut \in [Shutdowns -> ShutStates]

Init ==
  /\ config \in [metrics : BOOLEAN, cache : BOOLEAN, reporting : BOOLEAN]
  /\ stage = "start" /\ listener = "none" /\ store = "none"
  /\ Enricher!PoolInit /\ Reporter!PoolInit
  /\ auction = [a \in Auctions |-> "idle"]
  /\ answer = [a \in Auctions |-> "none"]
  /\ context = [a \in Auctions |-> NoContext]
  /\ eids = [a \in Auctions |-> 0]
  /\ left = [a \in Auctions |-> {}]
  /\ sent = [a \in Auctions |-> {}]
  /\ shut = [s \in Shutdowns |-> "idle"]

Closed(resource) == IF resource = "open" THEN "closed" ELSE resource

\* http.Server.Close closes the listeners that Serve has registered.
closeMetricsServer == IF listener = "bound" THEN "abandoned" ELSE Closed(listener)

-----------------------------------------------------------------------------
\* Builder.

BuildStep(from, to) == stage = from /\ stage' = to
BuilderFrame == UNCHANGED <<config, enricherVars, reporterVars, hookVars, shut>>

\* Parsing and validate; an error leaves nothing behind.
ParseConfig ==
  /\ BuildStep("start", "config") \/ BuildStep("start", "failed")
  /\ UNCHANGED <<listener, store>> /\ BuilderFrame

\* serveMetrics listens when metrics are enabled on a port; net.Listen may fail.
serveMetrics == IF config.metrics THEN {"bound", "error"} ELSE {"none"}

\* prometheus.New, on a registry of its own, registers every metric once and
\* does not fail.
ServeMetrics ==
  /\ \/ BuildStep("config", "serving") /\ listener' \in serveMetrics \ {"error"}
     \/ BuildStep("config", "failed") /\ "error" \in serveMetrics /\ UNCHANGED listener
  /\ UNCHANGED store /\ BuilderFrame

\* The goroutine of serveMetrics calls Serve.
Serve ==
  /\ \/ listener = "bound" /\ listener' = "open"
     \/ listener = "abandoned" /\ listener' = "closed"
  /\ UNCHANGED <<stage, store>> /\ BuilderFrame

\* newStore connects when the cache is enabled; a provider that is unknown,
\* wrongly configured or out of reach is an error.
newStore == IF config.cache THEN {"open", "error"} ELSE {"none"}

\* Mutant: the listener is left open.
MutNewStore ==
  /\ \/ BuildStep("serving", "storing") /\ store' \in newStore \ {"error"}
     \/ BuildStep("serving", "failed") /\ "error" \in newStore /\ UNCHANGED store
  /\ UNCHANGED listener /\ BuilderFrame

\* Without a store the listener is closed again.
NewStore ==
  /\ \/ /\ BuildStep("serving", "storing")
        /\ store' \in newStore \ {"error"}
        /\ UNCHANGED listener
     \/ /\ BuildStep("serving", "failed")
        /\ "error" \in newStore
        /\ listener' = closeMetricsServer
        /\ UNCHANGED store
  /\ BuilderFrame

\* The constructors.  cache.New and enrichment.New refuse nothing that got this
\* far; reporting.New refuses a capacity of 0, which validate lets through.
NewComponents ==
  /\ \/ /\ config.reporting
        /\ BuildStep("storing", "ready")
        /\ UNCHANGED <<listener, store>>
     \/ /\ ~config.reporting
        /\ BuildStep("storing", "failed")
        /\ store' = Closed(store)
        /\ listener' = closeMetricsServer
  /\ BuilderFrame

-----------------------------------------------------------------------------
\* HandleProcessedAuctionHook.

AuctionStep(a, from, to) == auction[a] = from /\ auction' = [auction EXCEPT ![a] = to]

\* Enrich is entered while the enricher is open.  Until it answers, or gets a
\* permit, no pool counts it: its own lookup in the cache, and all of a
\* synchronous resolution, may outlast a drain.
EnterEnrich(a) ==
  /\ stage = "ready" /\ ephase = "open"
  /\ AuctionStep(a, "idle", "enrich")
  /\ UNCHANGED <<buildVars, enricherVars, reporterVars, answer, context, eids, left, sent, shut>>

\* It schedules a detached enrichment, which needs the cache; once the enricher
\* closes it can only answer, with an error.
EnrichDetached(a) ==
  /\ config.cache
  /\ AuctionStep(a, "enrich", "wait")
  /\ Enricher!PoolAdmit(a)
  /\ UNCHANGED <<buildVars, reporterVars, answer, context, eids, left, sent, shut>>

\* Mutant: the deferred call gets its argument when it is deferred.
MutStoredContext(res) == RequestContext

\* The deferred storeAuctionContext: with the metadata Enrich answered, if any.
StoredContext(res) == IF res \in {"eids", "metadata"} THEN FullContext ELSE RequestContext

\* The hook returns, with the mutation that appends EIDs when there are any.
Answer(a, res) ==
  /\ answer' = [answer EXCEPT ![a] = res]
  /\ context' = [context EXCEPT ![a] = StoredContext(res)]
  /\ eids' = [eids EXCEPT ![a] = IF res = "eids" THEN @ + 1 ELSE @]

\* Enrich answers, from the cache, from S2S or with a refusal; a detached one may
\* go on (wait expired).
EnrichReturns(a) == \E res \in Replies :
  /\ AuctionStep(a, "enrich", "answered") \/ AuctionStep(a, "wait", "answered")
  /\ Answer(a, res)
  /\ UNCHANGED <<buildVars, enricherVars, reporterVars, left, sent, shut>>

\* Enrich answers at once, without reaching the store: ErrShuttingDown.
EnrichRefused(a) ==
  /\ stage = "ready" /\ ephase # "open"
  /\ AuctionStep(a, "idle", "answered")
  /\ Answer(a, "error")
  /\ UNCHANGED <<buildVars, enricherVars, reporterVars, left, sent, shut>>

\* The background goroutine of a detached enrichment has stored its result.
EnrichmentEnds(a) ==
  /\ Enricher!PoolFinish(a)
  /\ UNCHANGED <<buildVars, reporterVars, hookVars, shut>>

-----------------------------------------------------------------------------
\* HandleAuctionResponseHook.  It also runs for an auction whose request hook
\* did not: loadAuctionContext then yields the zero context.

StartResponse(a) ==
  /\ stage = "ready"
  /\ AuctionStep(a, "answered", "respond") \/ AuctionStep(a, "idle", "respond")
  /\ \E bids \in SUBSET Bids : left' = [left EXCEPT ![a] = bids]
  /\ UNCHANGED <<buildVars, enricherVars, reporterVars, answer, context, eids, sent, shut>>

\* One iteration: TryReport accepts the bid ...
ReportBid(a) == \E b \in left[a] :
  /\ auction[a] = "respond"
  /\ Reporter!PoolAdmit(<<a, b>>)
  /\ left' = [left EXCEPT ![a] = @ \ {b}]
  /\ sent' = [sent EXCEPT ![a] = @ \cup {context[a]}]
  /\ UNCHANGED <<buildVars, enricherVars, auction, answer, context, eids, shut>>

\* ... or rejects it, and the hook goes on.  Calls of other auctions that are
\* just being admitted can make the reporter full, so no count is a guard here.
SkipBid(a) == \E b \in left[a] :
  /\ auction[a] = "respond"
  /\ left' = [left EXCEPT ![a] = @ \ {b}]
  /\ UNCHANGED <<buildVars, enricherVars, reporterVars, auction, answer, context, eids, sent, shut>>

FinishResponse(a) ==
  /\ left[a] = {}
  /\ AuctionStep(a, "respond", "done")
  /\ UNCHANGED <<buildVars, enricherVars, reporterVars, answer, context, eids, left, sent, shut>>

ReportEnds(a) == \E b \in Bids :
  /\ Reporter!PoolFinish(<<a, b>>)
  /\ UNCHANGED <<buildVars, enricherVars, hookVars, shut>>

\* The slot is used for another auction once its jobs are over.
NextAuction(a) ==
  /\ auction[a] = "done" /\ a \notin enriching /\ reports \cap ({a} \X Bids) = {}
  /\ auction' = [auction EXCEPT ![a] = "idle"]
  /\ answer' = [answer EXCEPT ![a] = "none"]
  /\ context' = [context EXCEPT ![a] = NoContext]
  /\ eids' = [eids EXCEPT ![a] = 0]
  /\ sent' = [sent EXCEPT ![a] = {}]
  /\ UNCHANGED <<buildVars, enricherVars, reporterVars, left, shut>>

-----------------------------------------------------------------------------
\* Module.Shutdown.

ShutStep(s, from, to) == shut[s] = from /\ shut' = [shut EXCEPT ![s] = to]

\* reporter.Shutdown stores closing.
BeginShutdown(s) ==
  /\ stage = "ready"
  /\ ShutStep(s, "idle", "reporter")
  /\ Reporter!PoolClose \/ (rphase # "open" /\ UNCHANGED reporterVars)
  /\ UNCHANGED <<buildVars, enricherVars, hookVars>>

\* Mutant: the drain of the enricher is awaited and never asked for.
MutReporterDrained(s) ==
  /\ rphase = "drained"
  /\ ShutStep(s, "reporter", "enricher")
  /\ UNCHANGED <<buildVars, enricherVars, reporterVars, hookVars>>

\* Its nil answer: enricher.Shutdown stores closing.
ReporterDrained(s) ==
  /\ rphase = "drained"
  /\ ShutStep(s, "reporter", "enricher")
  /\ Enricher!PoolClose \/ (ephase # "open" /\ UNCHANGED enricherVars)
  /\ UNCHANGED <<buildVars, reporterVars, hookVars>>

\* Mutant: an enricher that did not drain in time is only logged.
MutEnricherDrained(s) ==
  /\ ShutStep(s, "enricher", "metrics")
  /\ UNCHANGED <<buildVars, enricherVars, reporterVars, hookVars>>

EnricherDrained(s) ==
  /\ ephase = "drained"
  /\ ShutStep(s, "enricher", "metrics")
  /\ UNCHANGED <<buildVars, enricherVars, reporterVars, hookVars>>

\* 2*timeout + 1s have passed before either answered: Shutdown returns.
ShutdownExpires(s) ==
  /\ ShutStep(s, "reporter", "error") \/ ShutStep(s, "enricher", "error")
  /\ UNCHANGED <<buildVars, enricherVars, reporterVars, hookVars>>

\* Mutant: without a store there is nothing to close.
MutCloseMetrics(s) ==
  /\ ShutStep(s, "metrics", "store")
  /\ listener' = IF store = "none" THEN listener ELSE closeMetricsServer
  /\ UNCHANGED <<config, stage, store, enricherVars, reporterVars, hookVars>>

CloseMetrics(s) ==
  /\ ShutStep(s, "metrics", "store")
  /\ listener' = closeMetricsServer
  /\ UNCHANGED <<config, stage, store, enricherVars, reporterVars, hookVars>>

\* store.Close, whose error Shutdown returns.
CloseStore(s) ==
  /\ \/ ShutStep(s, "store", "nil")
     \/ store # "none" /\ ShutStep(s, "store", "error")
  /\ store' = Closed(store)
  /\ UNCHANGED <<config, stage, listener, enricherVars, reporterVars, hookVars>>

\* The drain goroutines of the two pools.
DrainReporter ==
  /\ Reporter!PoolDrained
  /\ UNCHANGED <<buildVars, enricherVars, hookVars, shut>>

DrainEnricher ==
  /\ Enricher!PoolDrained
  /\ UNCHANGED <<buildVars, reporterVars, hookVars, shut>>

-----------------------------------------------------------------------------
Builder == ParseConfig \/ ServeMetrics \/ NewStore \/ NewComponents

HookStep(a) ==
  \/ EnterEnrich(a) \/ EnrichDetached(a) \/ EnrichReturns(a) \/ EnrichRefused(a)
  \/ StartResponse(a) \/ ReportBid(a) \/ SkipBid(a) \/ FinishResponse(a) \/ NextAuction(a)

Shutdown(s) ==
  \/ ReporterDrained(s) \/ EnricherDrained(s) \/ CloseMetrics(s) \/ CloseStore(s)

Next ==
  \/ Builder \/ Serve
  \/ \E a \in Auctions : HookStep(a) \/ EnrichmentEnds(a) \/ ReportEnds(a)
  \/ \E s \in Shutdowns : BeginShutdown(s) \/ Shutdown(s) \/ ShutdownExpires(s)
  \/ DrainReporter \/ DrainEnricher

Spec == Init /\ [][Next]_vars

\* Jobs end and closed pools drain, as ImplementsPoolLive of Reporter and of
\* Enricher says they do; Shutdown is not suspended for ever.
Fairness ==
  /\ \A a \in Auctions : WF_vars(EnrichmentEnds(a)) /\ WF_vars(ReportEnds(a))
  /\ \A s \in Shutdowns : WF_vars(Shutdown(s))
  /\ WF_vars(DrainReporter) /\ WF_vars(DrainEnricher)

FairSpec == Spec /\ Fairness

-----------------------------------------------------------------------------
\* Properties.

Listening == listener \in {"bound", "open"}

\* A Builder that fails leaves neither a store nor a listener open, whichever of
\* its steps failed and whether or not Serve had run: at most a listener that
\* Serve closes as soon as it runs.
FailedBuildLeaksNothing == stage = "failed" => ~Listening /\ store # "open"

\* The calls that have passed the drain of the reporter, of the enricher, and
\* the closing of the listener.
Past(s, states) == shut[s] \in states
PastReporter(s) == Past(s, {"enricher", "metrics", "store", "nil"})
PastEnricher(s) == Past(s, {"metrics", "store", "nil"})
PastMetrics(s) == Past(s, {"store", "nil"})

\* What Builder has opened at each of its steps.
BuilderOrder ==
  /\ stage \in {"start", "config"} => listener = "none"
  /\ stage \in {"start", "config", "serving"} => store = "none"
  /\ FailedBuildLeaksNothing

\* Hooks run on a built module.  What they have stored and sent: before the request hook has its
\* answer nothing, and then only contexts that hold that answer.
HookOrder(a) ==
  /\ auction[a] # "idle" => stage = "ready"
  /\ auction[a] \in {"idle", "enrich", "wait"} => answer[a] = "none"
  /\ auction[a] \in {"idle", "enrich", "wait", "answered"} => sent[a] = {}
  /\ context[a] = IF answer[a] = "none" THEN NoContext ELSE StoredContext(answer[a])
  /\ sent[a] \subseteq {context[a]}
  /\ eids[a] = IF answer[a] = "eids" THEN 1 ELSE 0

\* How far a call of Shutdown got: past a drain only when that pool has drained.
ShutdownOrder(s) ==
  /\ shut[s] # "idle" => stage = "ready" /\ rphase # "open"
  /\ PastReporter(s) => rphase = "drained" /\ ephase # "open"
  /\ PastEnricher(s) => ephase = "drained"
  /\ PastMetrics(s) => ~Listening
  /\ shut[s] = "nil" => store # "open"

\* A store that is closed belongs to a failed build or to a drained enricher, and
\* only an open or closing pool of a built module has jobs.
JobsHaveStore ==
  /\ store = "closed" => stage = "failed" \/ ephase = "drained"
  /\ stage # "ready" \/ ephase = "drained" => enriching = {}
  /\ stage # "ready" \/ rphase = "drained" => reports = {}

\* The order of Builder, of the hooks and of Module.Shutdown, for any number of
\* auctions and of Shutdown calls of which some expire, so that no detached
\* enrichment ever finds its store closed.  That is about jobs: the lookup that
\* Enrich itself makes before it has a permit may.
ModuleInv ==
  /\ TypeOK
  /\ \A s \in Shutdowns : ShutdownOrder(s)
  /\ JobsHaveStore
  /\ BuilderOrder
  /\ \A a \in Auctions : HookOrder(a)

\* A Shutdown that returned nil has closed what Builder opened, although others
\* may have expired or still be under way, and no admitted job holds a permit.
\* (The panic of a report may still be recorded after its permit came back.)
NilMeansClosed ==
  (\E s \in Shutdowns : shut[s] = "nil") =>
    ~Listening /\ store # "open" /\ enriching = {} /\ reports = {}

\* Every report carries what its auction's hook knew: the request data if it
\* ran, the metadata if Enrich answered with some; a failed Enrich leaves the request's
\* EIDs alone and still gets its reports attributed to the auction.
ReportsAttributed == \A a \in Auctions :
  /\ \A c \in sent[a] :
       /\ c.request = (answer[a] # "none")
       /\ c.metadata = (answer[a] \in {"eids", "metadata"})
  /\ eids[a] = IF answer[a] = "eids" THEN 1 ELSE 0

\* A Shutdown call ends.
ShutdownEnds == \A s \in Shutdowns : shut[s] = "reporter" ~> shut[s] \in {"nil", "error"}
=============================================================================
