---------------------------- MODULE ModuleProofs ----------------------------
(***************************************************************************)
(* Proofs about the Prebid module: any auctions and bids, any capacities,  *)
(* any number of calls of Shutdown.                                        *)
(***************************************************************************)
EXTENDS PrebidModule, TLAPS

-----------------------------------------------------------------------------
\* The type invariant.

\* The contexts and answers of the hooks are well typed.
LEMMA ContextTypes ==
  /\ \A res : StoredContext(res) \in Contexts
  /\ NoContext \in Contexts
BY DEF StoredContext, Contexts

\* The steps of a pool keep its state well typed.
LEMMA PoolTypes ==
  ASSUME TypeOK
  PROVE  /\ \A a \in Auctions : Enricher!PoolAdmit(a) \/ Enricher!PoolFinish(a) =>
              ephase' \in {"open", "closing", "drained"} /\ enriching' \subseteq Auctions
         /\ Enricher!PoolClose \/ Enricher!PoolDrained =>
              ephase' \in {"open", "closing", "drained"} /\ enriching' \subseteq Auctions
         /\ \A j \in Auctions \X Bids : Reporter!PoolAdmit(j) \/ Reporter!PoolFinish(j) =>
              rphase' \in {"open", "closing", "drained"} /\ reports' \subseteq Auctions \X Bids
         /\ Reporter!PoolClose \/ Reporter!PoolDrained =>
              rphase' \in {"open", "closing", "drained"} /\ reports' \subseteq Auctions \X Bids
BY DEF TypeOK, Enricher!PoolAdmit, Enricher!PoolFinish, Enricher!PoolClose, Enricher!PoolDrained,
   Reporter!PoolAdmit, Reporter!PoolFinish, Reporter!PoolClose, Reporter!PoolDrained

\* Every step of the module preserves the types.
LEMMA NextTypeOK == TypeOK /\ [Next]_vars => TypeOK'
<1> SUFFICES ASSUME TypeOK, [Next]_vars PROVE TypeOK'
  OBVIOUS
<1> USE DEF TypeOK, buildVars, enricherVars, reporterVars, hookVars, AuctionStep, ShutStep
<1>1. CASE Builder
  <2>1. UNCHANGED <<config, enricherVars, reporterVars, hookVars, shut>> /\ stage' \in Stages
    BY <1>1 DEF Builder, ParseConfig, ServeMetrics, NewStore, NewComponents, BuilderFrame,
       BuildStep, Stages
  <2>2. listener' \in Listeners /\ store' \in Resources
    BY <1>1 DEF Builder, ParseConfig, ServeMetrics, NewStore, NewComponents, serveMetrics,
       newStore, closeMetricsServer, Closed, Listeners, Resources
  <2> QED  BY <2>1, <2>2
<1>2. ASSUME NEW a \in Auctions, EnterEnrich(a) \/ StartResponse(a) \/ SkipBid(a) \/ FinishResponse(a)
      PROVE  TypeOK'
  BY <1>2 DEF EnterEnrich, StartResponse, SkipBid, FinishResponse, AuctionStates
<1>3. ASSUME NEW a \in Auctions, EnrichDetached(a) PROVE TypeOK'
  <2>1. ephase' \in {"open", "closing", "drained"} /\ enriching' \subseteq Auctions
    BY <1>3, PoolTypes DEF EnrichDetached
  <2> QED  BY <1>3, <2>1 DEF EnrichDetached, AuctionStates
<1>4. ASSUME NEW a \in Auctions, NEW res \in Replies, Answer(a, res)
      PROVE  /\ answer' \in [Auctions -> Replies \cup {"none"}]
             /\ context' \in [Auctions -> Contexts] /\ eids' \in [Auctions -> Nat]
  BY <1>4, ContextTypes DEF Answer
<1>5. ASSUME NEW a \in Auctions, EnrichReturns(a) \/ EnrichRefused(a) PROVE TypeOK'
  <2>1. /\ \E res \in Replies : Answer(a, res)
        /\ auction' \in [Auctions -> AuctionStates]
        /\ UNCHANGED <<buildVars, enricherVars, reporterVars, left, sent, shut>>
    BY <1>5 DEF EnrichReturns, EnrichRefused, AuctionStates, Replies
  <2> QED  BY <1>4, <2>1
<1>6. ASSUME NEW a \in Auctions, ReportBid(a) PROVE TypeOK'
  <2>1. PICK b \in left[a] : ReportBid(a)!(b)  BY <1>6 DEF ReportBid
  <2>2. <<a, b>> \in Auctions \X Bids  BY <2>1
  <2>3. rphase' \in {"open", "closing", "drained"} /\ reports' \subseteq Auctions \X Bids
    BY <2>1, <2>2, PoolTypes
  <2>4. left' \in [Auctions -> SUBSET Bids] /\ sent' \in [Auctions -> SUBSET Contexts]
    BY <2>1
  <2> QED  BY <2>1, <2>3, <2>4
<1>7. ASSUME NEW a \in Auctions, NextAuction(a) PROVE TypeOK'
  BY <1>7, ContextTypes DEF NextAuction, AuctionStates
<1>8. ASSUME NEW a \in Auctions, EnrichmentEnds(a) PROVE TypeOK'
  BY <1>8, PoolTypes DEF EnrichmentEnds
<1>9. ASSUME NEW a \in Auctions, ReportEnds(a) PROVE TypeOK'
  BY <1>9, PoolTypes DEF ReportEnds
<1>10. ASSUME NEW s \in Shutdowns, BeginShutdown(s) PROVE TypeOK'
  BY <1>10, PoolTypes DEF BeginShutdown, ShutStates
<1>11. ASSUME NEW s \in Shutdowns, ReporterDrained(s) PROVE TypeOK'
  BY <1>11, PoolTypes DEF ReporterDrained, ShutStates
<1>12. ASSUME NEW s \in Shutdowns, EnricherDrained(s) \/ ShutdownExpires(s) PROVE TypeOK'
  BY <1>12 DEF EnricherDrained, ShutdownExpires, ShutStates
<1>13. ASSUME NEW s \in Shutdowns, CloseMetrics(s) \/ CloseStore(s) PROVE TypeOK'
  BY <1>13 DEF CloseMetrics, CloseStore, closeMetricsServer, Closed, Listeners, Resources, ShutStates
<1>14. CASE DrainReporter \/ DrainEnricher
  BY <1>14, PoolTypes DEF DrainReporter, DrainEnricher
<1>15. CASE UNCHANGED vars  BY <1>15 DEF vars
<1>16. CASE Serve  BY <1>16 DEF Serve, BuilderFrame, Listeners, Resources
<1> QED
  BY <1>1, <1>2, <1>3, <1>5, <1>6, <1>7, <1>8, <1>9, <1>10, <1>11, <1>12, <1>13, <1>14, <1>15,
     <1>16
  DEF Next, HookStep, Shutdown

-----------------------------------------------------------------------------
\* Builder and Shutdown.

ShutdownsInOrder == \A s \in Shutdowns : ShutdownOrder(s)
HooksInOrder == \A a \in Auctions : HookOrder(a)

\* The steps of auctions and of the pools' goroutines.
WorkStep ==
  \/ \E a \in Auctions : HookStep(a) \/ EnrichmentEnds(a) \/ ReportEnds(a)
  \/ DrainReporter \/ DrainEnricher

\* What auctions and drains may do to the pools: admit while open, finish, and
\* be drained when nothing runs; they never touch a resource or a Shutdown call.
LEMMA WorkFrame ==
  ASSUME WorkStep, HooksInOrder
  PROVE  /\ UNCHANGED <<buildVars, shut>>
         /\ \/ ephase' = ephase /\ enriching' \subseteq enriching
            \/ ephase' = ephase /\ ephase = "open" /\ stage = "ready"
            \/ ephase = "closing" /\ ephase' = "drained" /\ enriching' = {}
         /\ \/ rphase' = rphase /\ reports' \subseteq reports
            \/ rphase' = rphase /\ rphase = "open" /\ stage = "ready"
            \/ rphase = "closing" /\ rphase' = "drained" /\ reports' = {}
<1> USE DEF buildVars, enricherVars, reporterVars, Enricher!PoolAdmit, Enricher!PoolFinish,
      Enricher!PoolDrained, Reporter!PoolAdmit, Reporter!PoolFinish, Reporter!PoolDrained
<1>1. ASSUME NEW a \in Auctions, HookStep(a) PROVE UNCHANGED <<buildVars, shut>>
  BY <1>1 DEF HookStep, EnterEnrich, EnrichDetached, EnrichReturns, EnrichRefused, StartResponse,
     ReportBid, SkipBid, FinishResponse, NextAuction
<1>2. ASSUME NEW a \in Auctions, HookStep(a)
      PROVE  /\ UNCHANGED enricherVars \/ (Enricher!PoolAdmit(a) /\ stage = "ready")
             /\ \/ UNCHANGED reporterVars
                \/ (\E b \in left[a] : Reporter!PoolAdmit(<<a, b>>)) /\ stage = "ready"
  <2>1. auction[a] \in {"enrich", "respond"} => stage = "ready"  BY DEF HooksInOrder, HookOrder
  <2> QED
    BY <1>2, <2>1 DEF AuctionStep, HookStep, EnterEnrich, EnrichDetached, EnrichReturns, EnrichRefused,
       StartResponse, ReportBid, SkipBid, FinishResponse, NextAuction
<1>3. CASE \E a \in Auctions : HookStep(a)  BY <1>1, <1>2, <1>3
<1>4. ASSUME NEW a \in Auctions, EnrichmentEnds(a) \/ ReportEnds(a)
      PROVE  /\ UNCHANGED <<buildVars, shut, ephase, rphase>>
             /\ enriching' \subseteq enriching /\ reports' \subseteq reports
  BY <1>4 DEF EnrichmentEnds, ReportEnds
<1>5. CASE DrainReporter  BY <1>5 DEF DrainReporter
<1>6. CASE DrainEnricher  BY <1>6 DEF DrainEnricher
<1> QED  BY <1>3, <1>4, <1>5, <1>6 DEF WorkStep

BuildAndShutdown == ShutdownsInOrder /\ JobsHaveStore /\ BuilderOrder

\* Every step keeps Builder and Shutdown in their order.
LEMMA NextBuildAndShutdown == 
  TypeOK /\ HooksInOrder /\ BuildAndShutdown /\ [Next]_vars => BuildAndShutdown'
<1> SUFFICES ASSUME TypeOK, HooksInOrder, BuildAndShutdown, [Next]_vars PROVE BuildAndShutdown'
  OBVIOUS
<1>0. /\ shut \in [Shutdowns -> ShutStates] /\ listener \in Listeners /\ store \in Resources
      /\ stage \in Stages
  BY DEF TypeOK
<1> USE <1>0 DEF BuildAndShutdown, ShutdownsInOrder, ShutdownOrder, JobsHaveStore, BuilderOrder,
      FailedBuildLeaksNothing, Listening, PastReporter, PastEnricher, PastMetrics, Past
<1>1. CASE Builder
  <2>1. stage # "ready" /\ UNCHANGED <<ephase, enriching, rphase, reports, shut>>
    BY <1>1 DEF Builder, ParseConfig, ServeMetrics, NewStore, NewComponents, BuilderFrame,
       BuildStep, enricherVars, reporterVars
  <2>2. \A s \in Shutdowns : shut[s] = "idle"  BY <2>1
  <2>3. BuilderOrder' /\ (store' = "closed" => stage' = "failed" \/ ephase = "drained")
    BY <1>1 DEF Builder, ParseConfig, ServeMetrics, NewStore, NewComponents, BuildStep,
       serveMetrics, newStore, closeMetricsServer, Closed, Listeners, Resources
  <2> QED  BY <2>1, <2>2, <2>3
<1>2. CASE WorkStep
  <2>1. /\ UNCHANGED <<config, stage, listener, store, shut>>
        /\ \/ ephase' = ephase /\ enriching' \subseteq enriching
           \/ ephase' = ephase /\ ephase = "open" /\ stage = "ready"
           \/ ephase = "closing" /\ ephase' = "drained" /\ enriching' = {}
        /\ \/ rphase' = rphase /\ reports' \subseteq reports
           \/ rphase' = rphase /\ rphase = "open" /\ stage = "ready"
           \/ rphase = "closing" /\ rphase' = "drained" /\ reports' = {}
    BY <1>2, WorkFrame DEF buildVars
  <2>2. BuilderOrder'  BY <2>1
  <2>3. ShutdownsInOrder'  BY <2>1
  <2>4. JobsHaveStore'  BY <2>1
  <2> QED  BY <2>2, <2>3, <2>4
<1>3. ASSUME NEW s \in Shutdowns, BeginShutdown(s) PROVE BuildAndShutdown'
  BY <1>3 DEF BeginShutdown, ShutStep, Reporter!PoolClose, buildVars, enricherVars, reporterVars
<1>4. ASSUME NEW s \in Shutdowns, ReporterDrained(s) PROVE BuildAndShutdown'
  BY <1>4 DEF ReporterDrained, ShutStep, Enricher!PoolClose, buildVars, enricherVars, reporterVars
<1>5. ASSUME NEW s \in Shutdowns, EnricherDrained(s) \/ ShutdownExpires(s) PROVE BuildAndShutdown'
  BY <1>5 DEF EnricherDrained, ShutdownExpires, ShutStep, buildVars, enricherVars, reporterVars
<1>6. ASSUME NEW s \in Shutdowns, CloseMetrics(s) \/ CloseStore(s) PROVE BuildAndShutdown'
  BY <1>6 DEF CloseMetrics, CloseStore, ShutStep, closeMetricsServer, Closed, buildVars, enricherVars,
     reporterVars
<1>7. CASE UNCHANGED vars
  BY <1>7 DEF vars, buildVars, enricherVars, reporterVars
<1>8. CASE Serve
  BY <1>8 DEF Serve, BuilderFrame, enricherVars, reporterVars
<1> QED
  BY <1>1, <1>2, <1>3, <1>4, <1>5, <1>6, <1>7, <1>8 DEF Next, WorkStep, Shutdown

-----------------------------------------------------------------------------
\* The hooks.

\* A hook moves the state of its own auction only.
LEMMA HookKeepsOthers ==
  ASSUME TypeOK, NEW a \in Auctions, HookStep(a), NEW o \in Auctions \ {a}
  PROVE  /\ auction'[o] = auction[o] /\ answer'[o] = answer[o] /\ context'[o] = context[o]
         /\ eids'[o] = eids[o] /\ sent'[o] = sent[o]
BY DEF TypeOK, HookStep, EnterEnrich, EnrichDetached, EnrichReturns, EnrichRefused, Answer,
   StartResponse, ReportBid, SkipBid, FinishResponse, NextAuction, AuctionStep

\* Each step of a hook leaves its auction in order.
LEMMA HookKeepsOrder ==
  ASSUME TypeOK, NEW a \in Auctions, HookStep(a), HookOrder(a)
  PROVE  HookOrder(a)'
<1>S. stage' = stage
  BY DEF HookStep, EnterEnrich, EnrichDetached, EnrichReturns, EnrichRefused, StartResponse,
     ReportBid, SkipBid, FinishResponse, NextAuction, buildVars
<1>0. /\ auction \in [Auctions -> AuctionStates] /\ answer \in [Auctions -> Replies \cup {"none"}]
      /\ context \in [Auctions -> Contexts] /\ eids \in [Auctions -> Nat]
      /\ sent \in [Auctions -> SUBSET Contexts]
  BY DEF TypeOK
<1> USE <1>0, <1>S DEF HookOrder, AuctionStep
<1>1. CASE EnterEnrich(a) \/ EnrichDetached(a) \/ StartResponse(a) \/ FinishResponse(a)
  BY <1>1 DEF EnterEnrich, EnrichDetached, StartResponse, FinishResponse
<1>2. ASSUME NEW res \in Replies, Answer(a, res), answer[a] = "none", sent[a] = {},
             auction'[a] = "answered", UNCHANGED sent, stage = "ready"
      PROVE  HookOrder(a)'
  BY <1>2 DEF Answer, Replies
<1>3. CASE EnrichReturns(a)
  <2>1. PICK res \in Replies : EnrichReturns(a)!(res)  BY <1>3 DEF EnrichReturns
  <2> QED  BY <1>2, <2>1
<1>4. CASE EnrichRefused(a)  BY <1>2, <1>4 DEF EnrichRefused, Replies
<1>5. CASE ReportBid(a) \/ SkipBid(a)  BY <1>5 DEF ReportBid, SkipBid
<1>6. CASE NextAuction(a)  BY <1>6 DEF NextAuction
<1> QED  BY <1>1, <1>3, <1>4, <1>5, <1>6 DEF HookStep

\* Every step leaves every auction in order.
LEMMA NextHooks == TypeOK /\ HooksInOrder /\ [Next]_vars => HooksInOrder'
<1> SUFFICES ASSUME TypeOK, HooksInOrder, [Next]_vars PROVE HooksInOrder'
  OBVIOUS
<1>1. ASSUME NEW a \in Auctions, HookStep(a) PROVE HooksInOrder'
  <2>1. HookOrder(a)'  BY <1>1, HookKeepsOrder DEF HooksInOrder
  <2>2. ASSUME NEW o \in Auctions \ {a} PROVE HookOrder(o)'
    <3>1. /\ auction'[o] = auction[o] /\ answer'[o] = answer[o] /\ context'[o] = context[o]
          /\ eids'[o] = eids[o] /\ sent'[o] = sent[o] /\ stage' = stage
      BY <1>1, HookKeepsOthers, WorkFrame DEF WorkStep, buildVars
    <3>2. HookOrder(o)  BY DEF HooksInOrder
    <3> QED  BY <3>1, <3>2 DEF HookOrder
  <2> QED  BY <2>1, <2>2 DEF HooksInOrder
<1>2. ASSUME ~\E a \in Auctions : HookStep(a)
      PROVE  /\ UNCHANGED <<auction, answer, context, eids, sent>>
             /\ stage = "ready" => stage' = "ready"
  BY <1>2
  DEF Next, vars, Serve, Builder, ParseConfig, ServeMetrics, NewStore, NewComponents, BuilderFrame, BuildStep,
      EnrichmentEnds, ReportEnds, BeginShutdown, Shutdown, ReporterDrained, EnricherDrained,
      CloseMetrics, CloseStore, ShutdownExpires, DrainReporter, DrainEnricher, hookVars,
      buildVars
<1> QED  BY <1>1, <1>2 DEF HooksInOrder, HookOrder

-----------------------------------------------------------------------------
\* The theorems.

\* A host that has not called Builder yet satisfies the invariant.
LEMMA InitInv == Init => ModuleInv
<1> SUFFICES ASSUME Init PROVE ModuleInv
  OBVIOUS
<1>1. TypeOK
  BY ContextTypes DEF Init, TypeOK, Stages, Listeners, Resources, AuctionStates, ShutStates,
     Enricher!PoolInit, Reporter!PoolInit
<1>2. \A s \in Shutdowns : ShutdownOrder(s)
  BY DEF Init, ShutdownOrder, PastReporter, PastEnricher, PastMetrics, Past
<1>3. JobsHaveStore /\ BuilderOrder
  BY DEF Init, JobsHaveStore, BuilderOrder, FailedBuildLeaksNothing, Listening, Enricher!PoolInit,
     Reporter!PoolInit
<1>4. \A a \in Auctions : HookOrder(a)  BY DEF Init, HookOrder
<1> QED  BY <1>1, <1>2, <1>3, <1>4 DEF ModuleInv

\* In every run Builder, the hooks and Shutdown keep their order: above all, a
\* detached enrichment never finds its store closed.
THEOREM ModuleInvariant == Spec => []ModuleInv
<1>1. ModuleInv /\ [Next]_vars => ModuleInv'
  <2> SUFFICES ASSUME ModuleInv, [Next]_vars PROVE ModuleInv'
    OBVIOUS
  <2>1. TypeOK /\ BuildAndShutdown /\ HooksInOrder
    BY DEF ModuleInv, BuildAndShutdown, ShutdownsInOrder, HooksInOrder
  <2>2. TypeOK'  BY <2>1, NextTypeOK
  <2>3. BuildAndShutdown'  BY <2>1, NextBuildAndShutdown
  <2>4. HooksInOrder'  BY <2>1, NextHooks
  <2> QED  BY <2>2, <2>3, <2>4 DEF ModuleInv, BuildAndShutdown, ShutdownsInOrder, HooksInOrder
<1> QED  BY <1>1, InitInv, PTL DEF Spec

\* A Builder that fails leaves nothing open, whichever step failed and wherever
\* the goroutine of its metrics server stands.
THEOREM FailedBuildCleansUp == Spec => []FailedBuildLeaksNothing
<1>1. ModuleInv => FailedBuildLeaksNothing  BY DEF ModuleInv, BuilderOrder
<1> QED  BY <1>1, ModuleInvariant, PTL

\* A nil Shutdown has closed the listener and the store and left no job.
THEOREM NilShutdownIsComplete == Spec => []NilMeansClosed
<1>1. ModuleInv => NilMeansClosed
  BY DEF ModuleInv, ShutdownOrder, JobsHaveStore, NilMeansClosed, PastReporter, PastEnricher,
     PastMetrics, Past
<1> QED  BY <1>1, ModuleInvariant, PTL

\* Reports carry what the request hook of their own auction learned.
THEOREM ReportsAreAttributed == Spec => []ReportsAttributed
<1>1. ASSUME ModuleInv PROVE ReportsAttributed
  <2> SUFFICES ASSUME NEW a \in Auctions
               PROVE  /\ \A c \in sent[a] :
                           /\ c.request = (answer[a] # "none")
                           /\ c.metadata = (answer[a] \in {"eids", "metadata"})
                      /\ eids[a] = IF answer[a] = "eids" THEN 1 ELSE 0
    BY DEF ReportsAttributed
  <2>1. HookOrder(a)  BY <1>1 DEF ModuleInv
  <2>2. ASSUME NEW c \in sent[a]
        PROVE  /\ c.request = (answer[a] # "none")
               /\ c.metadata = (answer[a] \in {"eids", "metadata"})
    <3>1. c = IF answer[a] = "none" THEN NoContext ELSE StoredContext(answer[a])
      BY <2>1, <2>2 DEF HookOrder
    <3>2. CASE answer[a] = "none"
      <4>1. c.request = FALSE /\ c.metadata = FALSE  BY <3>1, <3>2 DEF NoContext
      <4>2. (answer[a] # "none") = FALSE /\ (answer[a] \in {"eids", "metadata"}) = FALSE
        BY <3>2
      <4> QED  BY <4>1, <4>2
    <3>3. CASE answer[a] \in {"eids", "metadata"}
      <4>1. c.request = TRUE /\ c.metadata = TRUE
        BY <3>1, <3>3 DEF StoredContext, FullContext
      <4>2. (answer[a] # "none") = TRUE /\ (answer[a] \in {"eids", "metadata"}) = TRUE
        BY <3>3
      <4> QED  BY <4>1, <4>2
    <3>4. CASE answer[a] \notin {"none", "eids", "metadata"}
      <4>1. c.request = TRUE /\ c.metadata = FALSE
        BY <3>1, <3>4 DEF StoredContext, RequestContext
      <4>2. (answer[a] # "none") = TRUE /\ (answer[a] \in {"eids", "metadata"}) = FALSE
        BY <3>4
      <4> QED  BY <4>1, <4>2
    <3> QED  BY <3>2, <3>3, <3>4
  <2> QED  BY <2>1, <2>2 DEF HookOrder
<1> QED  BY <1>1, ModuleInvariant, PTL
=============================================================================
