--------------------------- MODULE EnricherProofs ---------------------------
(***************************************************************************)
(* Proofs that the enricher's safety properties hold for every capacity,   *)
(* every finite set of overlapping calls, any identities, timeouts and     *)
(* waits, with and without a cache.                                        *)
(***************************************************************************)
EXTENDS Enricher, TLAPS, FiniteSetTheorems

-----------------------------------------------------------------------------
\* The limiter and the shutdown protocol.

\* The steps of one call of Shutdown.
ShutdownMove(s) ==
  ShutdownStore(s) \/ ShutdownOnce(s) \/ ShutdownDrained(s) \/ ShutdownExpired(s)

\* A limiter that New has just made is empty and nobody has called Shutdown.
LEMMA AdmissionStarts == AdmissionInit => AdmissionTypeOK /\ ShutdownOrder
<1> SUFFICES ASSUME AdmissionInit PROVE AdmissionTypeOK /\ ShutdownOrder
  OBVIOUS
<1>1. closing \in BOOLEAN  BY Zenon DEF AdmissionInit
<1>2. permits \in 0..MaxConcurrentCalls /\ taken \in 0..MaxConcurrentCalls
  BY CapacityAssumption DEF AdmissionInit
<1>3. shut \in [Shutdowns -> ShutStates]  BY DEF AdmissionInit, ShutStates
<1>4. drain = "idle"  BY DEF AdmissionInit
<1>5. ShutdownOrder  BY DEF AdmissionInit, ShutdownOrder
<1> QED  BY <1>1, <1>2, <1>3, <1>4, <1>5 DEF AdmissionTypeOK

\* The steps of Shutdown and Drain preserve the types of the protocol's state.
LEMMA AdmissionTypes ==
  ASSUME AdmissionTypeOK
  PROVE  /\ (\E s \in Shutdowns : ShutdownMove(s)) => AdmissionTypeOK'
         /\ DrainOne \/ CloseDrained => AdmissionTypeOK'
         /\ TryAcquire \/ Release => permits' \in 0..MaxConcurrentCalls
<1>1. ASSUME NEW s \in Shutdowns, ShutdownStore(s) PROVE AdmissionTypeOK'
  <2>1. closing' \in BOOLEAN  BY <1>1, Zenon DEF ShutdownStore
  <2>2. shut' \in [Shutdowns -> ShutStates]
    BY <1>1 DEF ShutdownStore, AdmissionTypeOK, ShutStates
  <2> QED  BY <1>1, <2>1, <2>2 DEF ShutdownStore, AdmissionTypeOK
<1>2. ASSUME NEW s \in Shutdowns, ShutdownOnce(s) PROVE AdmissionTypeOK'
  BY <1>2 DEF ShutdownOnce, AdmissionTypeOK, ShutStates
<1>3. ASSUME NEW s \in Shutdowns, ShutdownDrained(s) \/ ShutdownExpired(s)
      PROVE  AdmissionTypeOK'
  BY <1>3 DEF ShutdownDrained, ShutdownExpired, AdmissionTypeOK, ShutStates
<1>4. TryAcquire \/ Release => permits' \in 0..MaxConcurrentCalls
  BY CapacityAssumption DEF TryAcquire, Release, AdmissionTypeOK
<1>5. DrainOne \/ CloseDrained => AdmissionTypeOK'
  BY <1>4, CapacityAssumption DEF DrainOne, CloseDrained, AdmissionTypeOK
<1> QED  BY <1>1, <1>2, <1>3, <1>4, <1>5 DEF ShutdownMove

\* They also keep the stores of Shutdown in their order: closing before the
\* drain, every permit before drained, drained before a nil answer.
LEMMA OrderKept ==
  ASSUME AdmissionTypeOK, ShutdownOrder
  PROVE  /\ (\E s \in Shutdowns : ShutdownMove(s)) => ShutdownOrder'
         /\ DrainOne \/ CloseDrained => ShutdownOrder'
         /\ UNCHANGED <<taken, closing, drain, shut>> => ShutdownOrder'
<1> USE DEF ShutdownOrder
<1>0. /\ shut \in [Shutdowns -> ShutStates]
      /\ taken \in Int /\ MaxConcurrentCalls \in Int
  BY CapacityAssumption DEF AdmissionTypeOK
<1>1. ASSUME NEW s \in Shutdowns, ShutdownStore(s) PROVE ShutdownOrder'
  BY <1>0, <1>1 DEF ShutdownStore
<1>2. ASSUME NEW s \in Shutdowns, ShutdownOnce(s) PROVE ShutdownOrder'
  BY <1>0, <1>2 DEF ShutdownOnce
<1>3. ASSUME NEW s \in Shutdowns, ShutdownDrained(s) \/ ShutdownExpired(s)
      PROVE  ShutdownOrder'
  BY <1>0, <1>3 DEF ShutdownDrained, ShutdownExpired
<1>4. ASSUME DrainOne \/ CloseDrained PROVE ShutdownOrder'
  BY <1>0, <1>4 DEF DrainOne, CloseDrained
<1>5. ASSUME UNCHANGED <<taken, closing, drain, shut>> PROVE ShutdownOrder'
  BY <1>5
<1> QED  BY <1>1, <1>2, <1>3, <1>4, <1>5 DEF ShutdownMove

\* What the steps of Shutdown and Drain leave alone: only Drain touches the
\* limiter, and it keeps what it takes.
LEMMA AdmissionFrame ==
  ASSUME AdmissionTypeOK
  PROVE  /\ \A s \in Shutdowns : ShutdownMove(s) => UNCHANGED <<permits, taken>>
         /\ DrainOne \/ CloseDrained =>
              permits' - taken' = permits - taken /\ permits' \in Int /\ taken' \in Int
<1>1. permits \in Int /\ taken \in Int
  BY CapacityAssumption DEF AdmissionTypeOK
<1> QED
  BY <1>1 DEF ShutdownMove, ShutdownStore, ShutdownOnce, ShutdownDrained, ShutdownExpired,
     DrainOne, CloseDrained, TryAcquire

\* What the protocol's steps are to a pool that sees only Phase: a stutter, its
\* closing, or its being drained.
LEMMA PhaseSteps ==
  ASSUME AdmissionTypeOK, ShutdownOrder
  PROVE  /\ \A s \in Shutdowns :
              ShutdownMove(s) => Phase' = Phase \/ (Phase = "open" /\ Phase' = "closing")
         /\ DrainOne => Phase' = Phase
         /\ CloseDrained => Phase = "closing" /\ Phase' = "drained"
         /\ UNCHANGED <<closing, drain>> => Phase' = Phase
         /\ ~closing => Phase = "open"
BY DEF ShutdownMove, ShutdownStore, ShutdownOnce, ShutdownDrained, ShutdownExpired,
   DrainOne, CloseDrained, Phase, ShutdownOrder, AdmissionTypeOK

-----------------------------------------------------------------------------
\* The type invariant.

\* What a call resolves its request to is a job.
LEMMA JobTypes ==
  /\ NoJob \in [mode : Modes, keyed : BOOLEAN, id : Ids]
  /\ \A rq \in Inputs : JobOf(rq) \in [mode : Modes, keyed : BOOLEAN, id : Ids]
<1>1. NoJob.id \in Ids  BY EnricherAssumption DEF NoJob
<1>2. NoJob \in [mode : Modes, keyed : BOOLEAN, id : Ids]
  BY <1>1 DEF NoJob, Modes
<1>3. ASSUME NEW rq \in Inputs PROVE JobOf(rq) \in [mode : Modes, keyed : BOOLEAN, id : Ids]
  <2>1. rq.id \in Ids  BY DEF Inputs
  <2>2. WaitModeOf(rq.timeout, rq.wait) \in Modes  BY DEF WaitModeOf, Modes
  <2>3. Keyed(rq) \in BOOLEAN
    BY EnricherAssumption, Zenon DEF Keyed, Inputs
  <2> QED  BY <2>1, <2>2, <2>3 DEF JobOf
<1> QED  BY <1>2, <1>3

\* An enricher that New has just built is well typed.
LEMMA InitTypeOK == Init => TypeOK
<1> SUFFICES ASSUME Init PROVE TypeOK
  OBVIOUS
<1>1. AdmissionTypeOK  BY AdmissionStarts DEF Init
<1>2. pc \in [Callers -> PCs] /\ task \in [Callers -> TaskStates]
  BY DEF Init, PCs, TaskStates
<1>3. job \in [Callers -> [mode : Modes, keyed : BOOLEAN, id : Ids]]
  BY JobTypes DEF Init
<1>4. answer \in [Callers -> Answers]  BY DEF Init, Answers
<1>5. reply \in [Callers -> Replies \cup {"none"}] /\ channel \in [Callers -> Replies \cup {"none"}]
  BY DEF Init
<1>6. tally \in [Callers -> [Counters -> Nat]] /\ active \in Int
  BY DEF Init, Counters, NoTally
<1>7. cache \in [Ids -> SUBSET Entries] /\ upstream \in [Ids -> SUBSET {"ids", "noIDs"}]
  BY DEF Init
<1> QED  BY <1>1, <1>2, <1>3, <1>4, <1>5, <1>6, <1>7 DEF TypeOK

\* Counting an event, returning an answer, and writing an entry keep the types.
LEMMA EffectTypes ==
  ASSUME TypeOK, NEW c \in Callers
  PROVE  /\ \A m \in Counters : Tally(c, m) => tally' \in [Callers -> [Counters -> Nat]]
         /\ \A a \in Answers : Return(c, a) =>
              pc' \in [Callers -> PCs] /\ answer' \in [Callers -> Answers]
         /\ \A e \in Entries : Put(job[c].id, e) => cache' \in [Ids -> SUBSET Entries]
         /\ \A r \in S2SReplies : Resolve(c, r) =>
              /\ reply' \in [Callers -> Replies \cup {"none"}]
              /\ upstream' \in [Ids -> SUBSET {"ids", "noIDs"}]
              /\ tally' \in [Callers -> [Counters -> Nat]]
         /\ \A r \in Replies : AnswerTo[r] \in Answers
<1>1. \A m \in Counters : Tally(c, m) => tally' \in [Callers -> [Counters -> Nat]]
  BY DEF TypeOK, Tally
<1>2. \A a \in Answers : Return(c, a) => pc' \in [Callers -> PCs] /\ answer' \in [Callers -> Answers]
  BY DEF TypeOK, Return, PCs
<1>3. job[c].id \in Ids  BY DEF TypeOK
<1>4. \A e \in Entries : Put(job[c].id, e) => cache' \in [Ids -> SUBSET Entries]
  BY <1>3 DEF TypeOK, Put
<1>5. ASSUME NEW r \in S2SReplies, Resolve(c, r)
      PROVE  /\ reply' \in [Callers -> Replies \cup {"none"}]
             /\ upstream' \in [Ids -> SUBSET {"ids", "noIDs"}]
             /\ tally' \in [Callers -> [Counters -> Nat]]
  <2>1. r \in Replies  BY EnricherAssumption DEF Replies
  <2>2. reply' \in [Callers -> Replies \cup {"none"}]  BY <1>5, <2>1 DEF TypeOK, Resolve
  <2>3. upstream' \in [Ids -> SUBSET {"ids", "noIDs"}]  BY <1>3, <1>5 DEF TypeOK, Resolve
  <2>4. tally' \in [Callers -> [Counters -> Nat]]
    BY <1>1, <1>5 DEF TypeOK, Resolve, Counters
  <2> QED  BY <2>2, <2>3, <2>4
<1>6. \A r \in Replies : AnswerTo[r] \in Answers
  BY DEF AnswerTo, Replies, Answers, NotEnrichedAnswers, ErrorAnswers
<1> QED  BY <1>1, <1>2, <1>4, <1>5, <1>6

\* Marking, storing a result and expiry keep the cache well typed.
LEMMA CacheTypes ==
  ASSUME TypeOK, NEW c \in Callers
  PROVE  /\ MarkInProgress(c) => cache' \in [Ids -> SUBSET Entries]
         /\ StoreResult(c) => cache' \in [Ids -> SUBSET Entries]
<1>1. cache \in [Ids -> SUBSET Entries]  BY DEF TypeOK
<1>2. {"hit", "negative", "inProgress"} = Entries  BY DEF Entries
<1> QED  BY <1>1, <1>2, EffectTypes DEF MarkInProgress, StoreResult

SlotsInOrder == \A c \in Callers : InOrder(c)

\* Every step of the enricher preserves the types; that a call of SyncStore has
\* a reply to return is a fact about the order of its stages.
LEMMA NextTypeOK == TypeOK /\ SlotsInOrder /\ [Next]_vars => TypeOK'
<1> SUFFICES ASSUME TypeOK, SlotsInOrder, [Next]_vars PROVE TypeOK'
  OBVIOUS
<1>0. /\ {"none", "enriched", "noEndpoint", "noIDs", "cachedNoIDs", "unresolved", "inProgress",
          "waitExpired", "backgroundLimit", "shuttingDown", "noAuction", "invalid", "s2sError"}
           \subseteq Answers
      /\ {"enriched", "notEnriched"} = Counters
  BY DEF Answers, NotEnrichedAnswers, ErrorAnswers, Counters
<1>P. /\ {"idle", "lookup", "schedule", "full", "acquired", "admitted", "marking", "returned",
          "syncMarking", "syncCalling", "syncStoring", "waiting", "expired"} = PCs
      /\ {"none", "resolving", "sending", "storing", "finishing", "releasing"} = TaskStates
  BY DEF PCs, SyncStates, WaitStates, TaskStates
<1> USE <1>0, <1>P DEF TypeOK, Goto, TaskGoto, NotEnriched, slotVars, cacheVars
<1>1. ASSUME NEW c \in Callers, EnterEnrich(c) PROVE TypeOK'
  <2>1. PICK rq \in Inputs : EnterEnrich(c)!(rq)  BY <1>1 DEF EnterEnrich
  <2>2. pc' \in [Callers -> PCs] /\ answer' \in [Callers -> Answers]
    BY <2>1, EffectTypes
  <2>3. tally' \in [Callers -> [Counters -> Nat]]
    BY <2>1, EffectTypes
  <2>4. job' \in [Callers -> [mode : Modes, keyed : BOOLEAN, id : Ids]]
    BY <2>1, JobTypes
  <2> QED  BY <2>1, <2>2, <2>3, <2>4 DEF admissionVars, AdmissionTypeOK
<1>2. ASSUME NEW c \in Callers, Lookup(c) PROVE TypeOK'
  <2>1. /\ pc' \in [Callers -> PCs] /\ answer' \in [Callers -> Answers]
        /\ tally' \in [Callers -> [Counters -> Nat]]
    BY <1>2, EffectTypes DEF Lookup
  <2> QED  BY <1>2, <2>1 DEF Lookup, admissionVars, AdmissionTypeOK
<1>3. ASSUME NEW c \in Callers, ScheduleSync(c) PROVE TypeOK'
  BY <1>3 DEF ScheduleSync, admissionVars, AdmissionTypeOK
<1>4. ASSUME NEW c \in Callers, SyncMark(c) PROVE TypeOK'
  BY <1>4, CacheTypes DEF SyncMark, admissionVars, AdmissionTypeOK
<1>5. ASSUME NEW c \in Callers, SyncResolve(c) PROVE TypeOK'
  <2>1. PICK r \in S2SReplies : SyncResolve(c)!(r)  BY <1>5 DEF SyncResolve
  <2>2. pc' \in [Callers -> PCs] /\ answer' \in [Callers -> Answers]
    BY <2>1, EffectTypes
  <2> QED  BY <2>1, <2>2, EffectTypes DEF admissionVars, AdmissionTypeOK
<1>6. ASSUME NEW c \in Callers, SyncStore(c) PROVE TypeOK'
  <2>1. reply[c] \in Replies  BY <1>6 DEF SyncStore, SlotsInOrder, InOrder
  <2>2. pc' \in [Callers -> PCs] /\ answer' \in [Callers -> Answers]
    BY <1>6, <2>1, EffectTypes DEF SyncStore
  <2> QED  BY <1>6, <2>2, CacheTypes DEF SyncStore, admissionVars, AdmissionTypeOK
<1>7. ASSUME NEW c \in Callers, Acquire(c) PROVE TypeOK'
  BY <1>7, AdmissionTypes DEF Acquire, AdmissionTypeOK
<1>8. ASSUME NEW c \in Callers, AcquireFails(c) \/ Admit(c) \/ TimerFires(c) PROVE TypeOK'
  BY <1>8 DEF AcquireFails, Admit, TimerFires, admissionVars, AdmissionTypeOK
<1>9. ASSUME NEW c \in Callers, ClassifyFull(c) PROVE TypeOK'
  <2>1. /\ pc' \in [Callers -> PCs] /\ answer' \in [Callers -> Answers]
        /\ tally' \in [Callers -> [Counters -> Nat]]
    BY <1>9, EffectTypes DEF ClassifyFull
  <2> QED  BY <1>9, <2>1 DEF ClassifyFull, admissionVars, AdmissionTypeOK
<1>10. ASSUME NEW c \in Callers, Withdraw(c) PROVE TypeOK'
  BY <1>10, AdmissionTypes, EffectTypes DEF Withdraw, AdmissionTypeOK
<1>11. ASSUME NEW c \in Callers, BackgroundStarted(c) PROVE TypeOK'
  BY <1>11 DEF BackgroundStarted, admissionVars, AdmissionTypeOK
<1>12. ASSUME NEW c \in Callers, StartBackground(c) PROVE TypeOK'
  <2>1. /\ pc' \in [Callers -> PCs] /\ answer' \in [Callers -> Answers]
        /\ tally' \in [Callers -> [Counters -> Nat]]
    BY <1>12, EffectTypes DEF StartBackground
  <2> QED  BY <1>12, <2>1, CacheTypes DEF StartBackground, admissionVars, AdmissionTypeOK
<1>13. ASSUME NEW c \in Callers, TaskResolve(c) PROVE TypeOK'
  <2>1. PICK r \in S2SReplies : TaskResolve(c)!(r)  BY <1>13 DEF TaskResolve
  <2>2. task' \in [Callers -> TaskStates]  BY <2>1
  <2> QED  BY <2>1, <2>2, EffectTypes DEF admissionVars, AdmissionTypeOK
<1>14. ASSUME NEW c \in Callers, TaskSend(c) PROVE TypeOK'
  BY <1>14 DEF TaskSend, admissionVars, AdmissionTypeOK
<1>15. ASSUME NEW c \in Callers, TaskStore(c) PROVE TypeOK'
  <2>1. cache' \in [Ids -> SUBSET Entries]  BY <1>15, CacheTypes DEF TaskStore
  <2> QED  BY <1>15, <2>1 DEF TaskStore, admissionVars, AdmissionTypeOK
<1>16. ASSUME NEW c \in Callers, BackgroundFinished(c) PROVE TypeOK'
  BY <1>16 DEF BackgroundFinished, admissionVars, AdmissionTypeOK
<1>17. ASSUME NEW c \in Callers, TaskRelease(c) PROVE TypeOK'
  BY <1>17, AdmissionTypes DEF TaskRelease, AdmissionTypeOK
<1>18. ASSUME NEW c \in Callers, NEW from, Receive(c, from) PROVE TypeOK'
  <2>1. channel[c] \in Replies  BY <1>18 DEF Receive
  <2>2. pc' \in [Callers -> PCs] /\ answer' \in [Callers -> Answers]
    BY <1>18, <2>1, EffectTypes DEF Receive
  <2> QED  BY <1>18, <2>2 DEF Receive, admissionVars, AdmissionTypeOK
<1>19. ASSUME NEW c \in Callers, WaitExpires(c) PROVE TypeOK'
  <2>1. CASE Receive(c, "expired")  BY <1>18, <2>1
  <2>2. CASE ~Receive(c, "expired")
    <3>1. /\ pc' \in [Callers -> PCs] /\ answer' \in [Callers -> Answers]
          /\ tally' \in [Callers -> [Counters -> Nat]]
      BY <1>19, <2>2, EffectTypes DEF WaitExpires
    <3> QED  BY <1>19, <2>2, <3>1 DEF WaitExpires, admissionVars, AdmissionTypeOK
  <2> QED  BY <2>1, <2>2
<1>20. ASSUME NEW c \in Callers, NextCall(c) PROVE TypeOK'
  <2>1. tally' \in [Callers -> [Counters -> Nat]]
    BY <1>20 DEF NextCall, NoTally
  <2> QED  BY <1>20, <2>1, JobTypes DEF NextCall, admissionVars, AdmissionTypeOK
<1>21. ASSUME NEW s \in Shutdowns, ShutdownStep(s) PROVE TypeOK'
  BY <1>21, AdmissionTypes
  DEF ShutdownMove, ShutdownStep, BeginShutdown, ShutdownReturnsNil, ShutdownReturnsErr
<1>22. ASSUME DrainStep PROVE TypeOK'
  BY <1>22, AdmissionTypes DEF DrainStep
<1>23. ASSUME NEW id \in Ids, Expire(id) PROVE TypeOK'
  <2>1. cache' \in [Ids -> SUBSET Entries]  BY <1>23 DEF Expire
  <2> QED  BY <1>23, <2>1 DEF Expire, admissionVars, AdmissionTypeOK
<1>24. ASSUME UNCHANGED vars PROVE TypeOK'
  BY <1>24 DEF vars, admissionVars, AdmissionTypeOK
<1> QED
  BY <1>1, <1>2, <1>3, <1>4, <1>5, <1>6, <1>7, <1>8, <1>9, <1>10, <1>11, <1>12, <1>13, <1>14,
     <1>15, <1>16, <1>17, <1>18, <1>19, <1>20, <1>21, <1>22, <1>23, <1>24
  DEF Next, CallerStep, TaskStep, ReceiveResult

-----------------------------------------------------------------------------
\* The stages of the slots.

\* Only slot c moves.
OnlyMoves(c) == \A d \in Callers \ {c} :
  /\ pc'[d] = pc[d] /\ job'[d] = job[d] /\ answer'[d] = answer[d] /\ task'[d] = task[d]
  /\ reply'[d] = reply[d] /\ channel'[d] = channel[d] /\ tally'[d] = tally[d]

SlotStep(c) ==
  EnterEnrich(c) \/ CallerStep(c) \/ SyncResolve(c) \/ TaskStep(c) \/ NextCall(c)

\* A step of a call or of its goroutine moves no other slot.
LEMMA SlotFrame ==
  ASSUME TypeOK, NEW c \in Callers, SlotStep(c)
  PROVE  OnlyMoves(c)
<1> USE DEF TypeOK, OnlyMoves, Return, NotEnriched, Tally, Goto, TaskGoto, Resolve
<1>1. CASE EnterEnrich(c)  BY <1>1 DEF EnterEnrich
<1>2. CASE Lookup(c)  BY <1>2 DEF Lookup
<1>3. CASE ScheduleSync(c) \/ SyncMark(c) \/ SyncStore(c)
  BY <1>3 DEF ScheduleSync, SyncMark, SyncStore
<1>4. CASE SyncResolve(c)  BY <1>4 DEF SyncResolve
<1>5. CASE Acquire(c) \/ AcquireFails(c) \/ Admit(c) \/ Withdraw(c)
  BY <1>5 DEF Acquire, AcquireFails, Admit, Withdraw
<1>6. CASE ClassifyFull(c)  BY <1>6 DEF ClassifyFull
<1>7. CASE BackgroundStarted(c) \/ TimerFires(c) \/ NextCall(c)
  BY <1>7 DEF BackgroundStarted, TimerFires, NextCall
<1>8. CASE StartBackground(c)  BY <1>8 DEF StartBackground
<1>9. CASE TaskResolve(c)  BY <1>9 DEF TaskResolve
<1>10. CASE TaskSend(c) \/ TaskStore(c) \/ BackgroundFinished(c) \/ TaskRelease(c)
  BY <1>10 DEF TaskSend, TaskStore, BackgroundFinished, TaskRelease
<1>11. CASE ReceiveResult(c) \/ WaitExpires(c)
  BY <1>11 DEF ReceiveResult, WaitExpires, Receive
<1> QED
  BY <1>1, <1>2, <1>3, <1>4, <1>5, <1>6, <1>7, <1>8, <1>9, <1>10, <1>11
  DEF SlotStep, CallerStep, TaskStep

\* Counting an event adds one to its counter and leaves the other alone.
LEMMA TallyEffect ==
  ASSUME TypeOK, NEW c \in Callers
  PROVE  /\ tally[c]["enriched"] \in Nat /\ tally[c]["notEnriched"] \in Nat
         /\ Tally(c, "enriched") =>
              /\ tally'[c]["enriched"] = tally[c]["enriched"] + 1
              /\ tally'[c]["notEnriched"] = tally[c]["notEnriched"]
         /\ Tally(c, "notEnriched") =>
              /\ tally'[c]["enriched"] = tally[c]["enriched"]
              /\ tally'[c]["notEnriched"] = tally[c]["notEnriched"] + 1
BY DEF TypeOK, Tally, Counters

\* The answer that a reply becomes, and that none of them is a late one.
LEMMA AnswerValues ==
  /\ AnswerTo["ids"] = "enriched" /\ AnswerTo["noIDs"] = "noIDs"
  /\ AnswerTo["empty"] = "unresolved" /\ AnswerTo["error"] = "s2sError"
BY DEF AnswerTo, Replies

\* Each step of a call or of its goroutine leaves the slot in order and its events
\* counted.
LEMMA SlotKeepsOrder ==
  ASSUME TypeOK, NEW c \in Callers, SlotStep(c), InOrder(c), CountedSoFar(c)
  PROVE  InOrder(c)' /\ CountedSoFar(c)'
<1>0. /\ pc \in [Callers -> PCs] /\ task \in [Callers -> TaskStates]
      /\ job \in [Callers -> [mode : Modes, keyed : BOOLEAN, id : Ids]]
      /\ answer \in [Callers -> Answers]
      /\ reply \in [Callers -> Replies \cup {"none"}]
      /\ channel \in [Callers -> Replies \cup {"none"}]
      /\ tally \in [Callers -> [Counters -> Nat]]
      /\ upstream \in [Ids -> SUBSET {"ids", "noIDs"}]
  BY DEF TypeOK
<1> USE <1>0 DEF InOrder, CountedSoFar, Bit, Unresolved, WaitStates
<1>1. CASE EnterEnrich(c)
  <2>1. PICK rq \in Inputs : EnterEnrich(c)!(rq)  BY <1>1 DEF EnterEnrich
  <2> QED  BY <2>1, TallyEffect DEF Return, NotEnriched, NotEnrichedAnswers
<1>2. CASE Lookup(c)
  BY <1>2, TallyEffect DEF Lookup, Return, NotEnriched, NotEnrichedAnswers
<1>3. CASE ScheduleSync(c) \/ SyncMark(c)
  BY <1>3 DEF ScheduleSync, SyncMark, Goto
<1>4. CASE SyncStore(c)
  BY <1>4, AnswerValues DEF SyncStore, Return, Replies, NotEnrichedAnswers
<1>5. CASE SyncResolve(c)
  <2>1. PICK r \in S2SReplies : SyncResolve(c)!(r)  BY <1>5 DEF SyncResolve
  <2>2. r \in Replies  BY EnricherAssumption DEF Replies
  <2> QED  BY <2>1, <2>2, TallyEffect DEF Resolve, Return, Replies, NotEnrichedAnswers
<1>6. CASE Acquire(c) \/ AcquireFails(c) \/ Admit(c)
  BY <1>6 DEF Acquire, AcquireFails, Admit, Goto
<1>7. CASE Withdraw(c)  BY <1>7 DEF Withdraw, Return, NotEnrichedAnswers
<1>8. CASE ClassifyFull(c)
  BY <1>8, TallyEffect DEF ClassifyFull, Return, NotEnriched, NotEnrichedAnswers
<1>9. CASE BackgroundStarted(c) \/ TimerFires(c)
  BY <1>9 DEF BackgroundStarted, TimerFires, Goto
<1>10. CASE StartBackground(c)
  <2>1. job[c].mode # "async" => job[c].mode = "hybrid"
    BY <1>10 DEF StartBackground, Modes
  <2> QED  BY <1>10, <2>1, TallyEffect DEF StartBackground, Return, NotEnriched
<1>11. CASE TaskResolve(c)
  <2>1. PICK r \in S2SReplies : TaskResolve(c)!(r)  BY <1>11 DEF TaskResolve
  <2>2. r \in Replies  BY EnricherAssumption DEF Replies
  <2>3. pc[c] \in WaitStates \/ (pc[c] = "returned" /\ answer[c] = "waitExpired")
    BY <2>1 DEF TaskGoto, PCs, SyncStates
  <2>4. /\ reply'[c] = r /\ reply[c] = "none" /\ task'[c] # "resolving" /\ task'[c] # "none"
        /\ pc[c] \in WaitStates => task'[c] = "sending"
    BY <2>1 DEF TaskGoto, Resolve
  <2>5. InOrder(c)'
    BY <2>1, <2>2, <2>3, <2>4 DEF Replies
  <2>6. CountedSoFar(c)'
    <3>1. /\ tally[c]["enriched"] = 0
          /\ tally[c]["notEnriched"] = Bit(answer[c] = "waitExpired")
      BY <2>3, <2>4
    <3>2. /\ tally'[c]["enriched"] = Bit(r = "ids")
          /\ tally'[c]["notEnriched"] =
               Bit(r \in {"noIDs", "empty"}) + Bit(answer[c] = "waitExpired")
      BY <2>1, <2>2, <3>1, TallyEffect DEF Resolve, Replies
    <3>3. pc' = pc /\ answer' = answer  BY <2>1
    <3> QED  BY <2>3, <2>4, <3>2, <3>3
  <2> QED  BY <2>5, <2>6
<1>12. CASE TaskSend(c)  BY <1>12 DEF TaskSend, TaskGoto
<1>13. CASE TaskStore(c) \/ BackgroundFinished(c) \/ TaskRelease(c)
  BY <1>13 DEF TaskStore, BackgroundFinished, TaskRelease, TaskGoto
<1>14. ASSUME NEW from \in WaitStates, Receive(c, from) PROVE InOrder(c)' /\ CountedSoFar(c)'
  BY <1>14, AnswerValues DEF Receive, Return, Replies, NotEnrichedAnswers
<1>15. CASE WaitExpires(c)
  <2>1. CASE Receive(c, "expired")  BY <1>14, <2>1
  <2>2. CASE ~Receive(c, "expired")
    BY <1>15, <2>2, TallyEffect DEF WaitExpires, Return, NotEnriched
  <2> QED  BY <2>1, <2>2
<1>16. CASE NextCall(c)
  BY <1>16 DEF NextCall, NoTally, Counters
<1> QED
  BY <1>1, <1>2, <1>3, <1>4, <1>5, <1>6, <1>7, <1>8, <1>9, <1>10, <1>11, <1>12, <1>13, <1>14,
     <1>15, <1>16
  DEF SlotStep, CallerStep, TaskStep, ReceiveResult

\* The steps of nobody's slot.
OtherStep ==
  (\E s \in Shutdowns : ShutdownStep(s)) \/ DrainStep \/ (\E id \in Ids : Expire(id))

\* A step is one of a slot, or leaves all slots alone.
LEMMA StepKinds ==
  [Next]_vars => (\E c \in Callers : SlotStep(c)) \/ (OtherStep \/ UNCHANGED vars)
BY DEF Next, SlotStep, OtherStep

\* Shutdown, Drain and an expiring entry touch no slot.
LEMMA OtherFrame == OtherStep \/ UNCHANGED vars => UNCHANGED slotVars
BY DEF OtherStep, ShutdownStep, BeginShutdown, ShutdownReturnsNil, ShutdownReturnsErr, DrainStep,
   Expire, vars

SlotsCounted == \A c \in Callers : CountedSoFar(c)

\* Every step leaves all slots in order and all events counted.
LEMMA NextSlots ==
  TypeOK /\ SlotsInOrder /\ SlotsCounted /\ [Next]_vars => SlotsInOrder' /\ SlotsCounted'
<1> SUFFICES ASSUME TypeOK, SlotsInOrder, SlotsCounted, [Next]_vars
             PROVE  SlotsInOrder' /\ SlotsCounted'
  OBVIOUS
<1>1. ASSUME NEW c \in Callers, SlotStep(c) PROVE SlotsInOrder' /\ SlotsCounted'
  <2>1. InOrder(c)' /\ CountedSoFar(c)'
    BY <1>1, SlotKeepsOrder DEF SlotsInOrder, SlotsCounted
  <2>2. ASSUME NEW d \in Callers \ {c} PROVE InOrder(d)' /\ CountedSoFar(d)'
    <3>1. /\ pc'[d] = pc[d] /\ job'[d] = job[d] /\ answer'[d] = answer[d] /\ task'[d] = task[d]
          /\ reply'[d] = reply[d] /\ channel'[d] = channel[d] /\ tally'[d] = tally[d]
      BY <1>1, SlotFrame DEF OnlyMoves
    <3>2. InOrder(d) /\ CountedSoFar(d)  BY DEF SlotsInOrder, SlotsCounted
    <3> QED  BY <3>1, <3>2 DEF InOrder, CountedSoFar
  <2> QED  BY <2>1, <2>2 DEF SlotsInOrder, SlotsCounted
<1>2. ASSUME OtherStep \/ UNCHANGED vars PROVE SlotsInOrder' /\ SlotsCounted'
  BY <1>2, OtherFrame DEF slotVars, SlotsInOrder, SlotsCounted, InOrder, CountedSoFar
<1> QED  BY <1>1, <1>2, StepKinds

-----------------------------------------------------------------------------
\* The permits and the gauge.

\* Whether a slot at these stages holds a permit, is an admitted call, and is
\* counted by the gauge.
Runs(p, t) == p \in {"admitted", "marking"} \/ t # "none"
Holds(p, t) == p = "acquired" \/ Runs(p, t)
Gauged(p, t) == p = "marking" \/ t \notin {"none", "releasing"}

\* A slot enters or leaves a set of slots, or does not, alone.
LEMMA MoveOne ==
  ASSUME NEW S \in SUBSET Callers, NEW T \in SUBSET Callers, NEW c \in Callers,
         S \ {c} = T \ {c}
  PROVE  /\ IsFiniteSet(S) /\ Cardinality(S) \in Nat
         /\ (c \in S <=> c \in T) => T = S
         /\ c \notin S /\ c \in T => T = S \cup {c} /\ Cardinality(T) = Cardinality(S) + 1
         /\ c \in S /\ c \notin T => T = S \ {c} /\ Cardinality(T) = Cardinality(S) - 1
<1>1. IsFiniteSet(S) /\ Cardinality(S) \in Nat
  BY EnricherAssumption, FS_Subset, FS_CardinalityType
<1>2. (c \in S <=> c \in T) => T = S  OBVIOUS
<1>3. ASSUME c \notin S, c \in T
      PROVE  T = S \cup {c} /\ Cardinality(T) = Cardinality(S) + 1
  <2>1. T = S \cup {c}  BY <1>3
  <2> QED  BY <1>1, <1>3, <2>1, FS_AddElement
<1>4. ASSUME c \in S, c \notin T
      PROVE  T = S \ {c} /\ Cardinality(T) = Cardinality(S) - 1
  <2>1. T = S \ {c}  BY <1>4
  <2> QED  BY <1>1, <1>4, <2>1, FS_RemoveElement
<1> QED  BY <1>1, <1>2, <1>3, <1>4

\* What a step of one slot does to the permit holders, the gauge's calls and the
\* admitted calls.
LEMMA StageCounts ==
  ASSUME NEW c \in Callers, OnlyMoves(c)
  PROVE  LET h == Cardinality(Holders)
             k == Cardinality(Counted) IN
         /\ h \in Nat /\ k \in Nat
         /\ (Holds(pc[c], task[c]) <=> Holds(pc'[c], task'[c])) => Cardinality(Holders') = h
         /\ ~Holds(pc[c], task[c]) /\ Holds(pc'[c], task'[c]) => Cardinality(Holders') = h + 1
         /\ Holds(pc[c], task[c]) /\ ~Holds(pc'[c], task'[c]) => Cardinality(Holders') = h - 1
         /\ (Gauged(pc[c], task[c]) <=> Gauged(pc'[c], task'[c])) => Cardinality(Counted') = k
         /\ ~Gauged(pc[c], task[c]) /\ Gauged(pc'[c], task'[c]) => Cardinality(Counted') = k + 1
         /\ Gauged(pc[c], task[c]) /\ ~Gauged(pc'[c], task'[c]) => Cardinality(Counted') = k - 1
         /\ (Runs(pc[c], task[c]) <=> Runs(pc'[c], task'[c])) => Running' = Running
         /\ ~Runs(pc[c], task[c]) /\ Runs(pc'[c], task'[c]) =>
              c \notin Running /\ Running' = Running \cup {c}
         /\ Runs(pc[c], task[c]) /\ ~Runs(pc'[c], task'[c]) =>
              c \in Running /\ Running' = Running \ {c}
<1>1. /\ Holders \in SUBSET Callers /\ Holders' \in SUBSET Callers
      /\ Counted \in SUBSET Callers /\ Counted' \in SUBSET Callers
      /\ Running \in SUBSET Callers /\ Running' \in SUBSET Callers
  BY DEF Holders, Counted, Running
<1>2. /\ c \in Holders <=> Holds(pc[c], task[c])
      /\ c \in Holders' <=> Holds(pc'[c], task'[c])
      /\ c \in Counted <=> Gauged(pc[c], task[c])
      /\ c \in Counted' <=> Gauged(pc'[c], task'[c])
      /\ c \in Running <=> Runs(pc[c], task[c])
      /\ c \in Running' <=> Runs(pc'[c], task'[c])
  BY DEF Holders, Counted, Running, Holds, Gauged, Runs
<1>3. Holders \ {c} = Holders' \ {c}
  BY DEF OnlyMoves, Holders, Running
<1>4. Counted \ {c} = Counted' \ {c}
  BY DEF OnlyMoves, Counted
<1>5. Running \ {c} = Running' \ {c}
  BY DEF OnlyMoves, Running
<1>6. /\ Cardinality(Holders) \in Nat
      /\ (c \in Holders <=> c \in Holders') => Holders' = Holders
      /\ c \notin Holders /\ c \in Holders' => Cardinality(Holders') = Cardinality(Holders) + 1
      /\ c \in Holders /\ c \notin Holders' => Cardinality(Holders') = Cardinality(Holders) - 1
  BY <1>1, <1>3, MoveOne
<1>7. /\ Cardinality(Counted) \in Nat
      /\ (c \in Counted <=> c \in Counted') => Counted' = Counted
      /\ c \notin Counted /\ c \in Counted' => Cardinality(Counted') = Cardinality(Counted) + 1
      /\ c \in Counted /\ c \notin Counted' => Cardinality(Counted') = Cardinality(Counted) - 1
  <2>1. Counted \in SUBSET Callers /\ Counted' \in SUBSET Callers  BY <1>1
  <2> QED  BY <2>1, <1>4, MoveOne
<1>8. /\ (c \in Running <=> c \in Running') => Running' = Running
      /\ c \notin Running /\ c \in Running' => Running' = Running \cup {c}
      /\ c \in Running /\ c \notin Running' => Running' = Running \ {c}
  BY <1>1, <1>5, MoveOne
<1> QED  BY <1>2, <1>6, <1>7, <1>8

\* The limiter and the gauge move with the slot: a permit is taken on entering
\* the stages that hold one and freed on leaving them, the same for the gauge,
\* and a call is admitted only while the enricher is open.
LEMMA SlotEffect ==
  ASSUME TypeOK, NEW c \in Callers, SlotStep(c), InOrder(c)
  PROVE  /\ UNCHANGED <<taken, closing, drain, shut>>
         /\ permits' = permits + Bit(Holds(pc'[c], task'[c])) - Bit(Holds(pc[c], task[c]))
         /\ active' = active + Bit(Gauged(pc'[c], task'[c])) - Bit(Gauged(pc[c], task[c]))
         /\ ~Runs(pc[c], task[c]) /\ Runs(pc'[c], task'[c]) => ~closing /\ pc[c] = "acquired"
<1>0. /\ pc \in [Callers -> PCs] /\ task \in [Callers -> TaskStates]
      /\ permits \in Int /\ active \in Int
  BY CapacityAssumption DEF TypeOK, AdmissionTypeOK
<1> USE <1>0 DEF Holds, Runs, Gauged, Bit, admissionVars, Goto, TaskGoto, NotEnriched
<1>1. CASE EnterEnrich(c)
  <2>1. PICK rq \in Inputs : EnterEnrich(c)!(rq)  BY <1>1 DEF EnterEnrich
  <2> QED  BY <2>1 DEF Return
<1>2. CASE Lookup(c)  BY <1>2 DEF Lookup, Return, InOrder, Unresolved
<1>3. CASE ScheduleSync(c) \/ SyncMark(c) \/ SyncStore(c)
  BY <1>3 DEF ScheduleSync, SyncMark, SyncStore, Return, InOrder, Unresolved
<1>4. CASE SyncResolve(c)
  <2>1. PICK r \in S2SReplies : SyncResolve(c)!(r)  BY <1>4 DEF SyncResolve
  <2> QED  BY <2>1 DEF Return, InOrder, Unresolved
<1>5. CASE Acquire(c) \/ AcquireFails(c) \/ Admit(c)
  BY <1>5 DEF Acquire, AcquireFails, Admit, TryAcquire, InOrder, Unresolved
<1>6. CASE Withdraw(c)  BY <1>6 DEF Withdraw, Release, Return, InOrder, Unresolved
<1>7. CASE ClassifyFull(c)  BY <1>7 DEF ClassifyFull, Return, InOrder, Unresolved
<1>8. CASE BackgroundStarted(c)  BY <1>8 DEF BackgroundStarted, InOrder, Unresolved
<1>9. CASE StartBackground(c)  BY <1>9 DEF StartBackground, Return, InOrder, Unresolved
<1>10. CASE TaskResolve(c)
  <2>1. PICK r \in S2SReplies : TaskResolve(c)!(r)  BY <1>10 DEF TaskResolve
  <2>2. pc' = pc /\ task[c] = "resolving" /\ task'[c] \in {"sending", "storing"}  BY <2>1
  <2>3. UNCHANGED <<admissionVars, active>>  BY <2>1
  <2> QED  BY <2>2, <2>3
<1>11. CASE TaskSend(c) \/ TaskStore(c)  BY <1>11 DEF TaskSend, TaskStore
<1>12. CASE BackgroundFinished(c)
  BY <1>12 DEF BackgroundFinished, InOrder, Unresolved
<1>13. CASE TaskRelease(c)  BY <1>13 DEF TaskRelease, Release, InOrder, Unresolved
<1>14. CASE ReceiveResult(c) \/ TimerFires(c) \/ WaitExpires(c)
  BY <1>14 DEF ReceiveResult, TimerFires, WaitExpires, Receive, Return
<1>15. CASE NextCall(c)  BY <1>15 DEF NextCall
<1> QED
  BY <1>1, <1>2, <1>3, <1>4, <1>5, <1>6, <1>7, <1>8, <1>9, <1>10, <1>11, <1>12, <1>13, <1>14,
     <1>15
  DEF SlotStep, CallerStep, TaskStep

PermitsBalance == permits = Cardinality(Holders) + taken
GaugeBalance == active = Cardinality(Counted)

\* Every step keeps the books: a permit for each holder and each of Drain's, and
\* the gauge at the number of calls it counts.
LEMMA NextBooks ==
  TypeOK /\ SlotsInOrder /\ PermitsBalance /\ GaugeBalance /\ [Next]_vars
    => PermitsBalance' /\ GaugeBalance'
<1> SUFFICES ASSUME TypeOK, SlotsInOrder, PermitsBalance, GaugeBalance, [Next]_vars
             PROVE  PermitsBalance' /\ GaugeBalance'
  OBVIOUS
<1>0. permits \in Int /\ taken \in Int /\ AdmissionTypeOK
  BY CapacityAssumption DEF TypeOK, AdmissionTypeOK
<1>1. ASSUME NEW c \in Callers, SlotStep(c) PROVE PermitsBalance' /\ GaugeBalance'
  <2>1. InOrder(c)  BY DEF SlotsInOrder
  <2>2. OnlyMoves(c)  BY <1>1, SlotFrame
  <2>3. /\ UNCHANGED <<taken, closing, drain, shut>>
        /\ permits' = permits + Bit(Holds(pc'[c], task'[c])) - Bit(Holds(pc[c], task[c]))
        /\ active' = active + Bit(Gauged(pc'[c], task'[c])) - Bit(Gauged(pc[c], task[c]))
    BY <1>1, <2>1, SlotEffect
  <2>4. Cardinality(Holders') =
          Cardinality(Holders) + Bit(Holds(pc'[c], task'[c])) - Bit(Holds(pc[c], task[c]))
    BY <2>2, StageCounts DEF Bit
  <2>5. Cardinality(Counted') =
          Cardinality(Counted) + Bit(Gauged(pc'[c], task'[c])) - Bit(Gauged(pc[c], task[c]))
    BY <2>2, StageCounts DEF Bit
  <2>6. Cardinality(Holders) \in Nat /\ Cardinality(Counted) \in Nat  BY <2>2, StageCounts
  <2>7. /\ Bit(Holds(pc'[c], task'[c])) \in Int /\ Bit(Holds(pc[c], task[c])) \in Int
        /\ Bit(Gauged(pc'[c], task'[c])) \in Int /\ Bit(Gauged(pc[c], task[c])) \in Int
    BY DEF Bit
  <2> QED  BY <1>0, <2>3, <2>4, <2>5, <2>6, <2>7 DEF PermitsBalance, GaugeBalance
<1>2. ASSUME OtherStep \/ UNCHANGED vars PROVE PermitsBalance' /\ GaugeBalance'
  <2>1. UNCHANGED slotVars  BY <1>2, OtherFrame
  <2>2. Holders' = Holders /\ Counted' = Counted /\ active' = active
    BY <2>1 DEF slotVars, Holders, Running, Counted
  <2>3. permits' - taken' = permits - taken /\ permits' \in Int /\ taken' \in Int
    <3>1. CASE \E s \in Shutdowns : ShutdownStep(s)
      <4>1. \E s \in Shutdowns : ShutdownMove(s)
        BY <3>1 DEF ShutdownStep, BeginShutdown, ShutdownReturnsNil, ShutdownReturnsErr, ShutdownMove
      <4> QED  BY <1>0, <4>1, AdmissionFrame
    <3>2. CASE DrainStep
      BY <1>0, <3>2, AdmissionFrame DEF DrainStep
    <3>3. CASE (\E id \in Ids : Expire(id)) \/ UNCHANGED vars
      BY <1>0, <3>3 DEF Expire, vars, admissionVars
    <3> QED  BY <1>2, <3>1, <3>2, <3>3 DEF OtherStep
  <2>4. permits - taken = Cardinality(Holders) /\ Cardinality(Holders) \in Int
    <3>1. IsFiniteSet(Holders)
      BY EnricherAssumption, FS_Subset DEF Holders, Running
    <3> QED  BY <1>0, <3>1, FS_CardinalityType DEF PermitsBalance
  <2>5. permits' = Cardinality(Holders) + taken'
    <3>1. permits' \in Int  BY <2>3
    <3>2. taken' \in Int  BY <2>3
    <3>3. permits' - taken' = Cardinality(Holders)  BY <2>3, <2>4
    <3>4. Cardinality(Holders) \in Int  BY <2>4
    <3> QED  BY <3>1, <3>2, <3>3, <3>4
  <2> QED  BY <2>2, <2>5 DEF PermitsBalance, GaugeBalance
<1> QED  BY <1>1, <1>2, StepKinds

\* Every step keeps the stores of Shutdown in their order.
LEMMA NextOrder ==
  TypeOK /\ SlotsInOrder /\ ShutdownOrder /\ [Next]_vars => ShutdownOrder'
<1> SUFFICES ASSUME TypeOK, SlotsInOrder, ShutdownOrder, [Next]_vars PROVE ShutdownOrder'
  OBVIOUS
<1>0. AdmissionTypeOK  BY DEF TypeOK
<1>1. ASSUME NEW c \in Callers, SlotStep(c) PROVE ShutdownOrder'
  BY <1>0, <1>1, SlotEffect, OrderKept DEF SlotsInOrder
<1>2. CASE \E s \in Shutdowns : ShutdownStep(s)
  <2>1. \E s \in Shutdowns : ShutdownMove(s)
    BY <1>2 DEF ShutdownStep, BeginShutdown, ShutdownReturnsNil, ShutdownReturnsErr, ShutdownMove
  <2> QED  BY <1>0, <2>1, OrderKept
<1>3. CASE DrainStep  BY <1>0, <1>3, OrderKept DEF DrainStep
<1>4. CASE (\E id \in Ids : Expire(id)) \/ UNCHANGED vars
  BY <1>0, <1>4, OrderKept DEF Expire, vars, admissionVars
<1> QED  BY <1>1, <1>2, <1>3, <1>4, StepKinds DEF OtherStep

-----------------------------------------------------------------------------
\* Where entries and answers come from.

EntriesSourced == \A i \in Ids :
  /\ "hit" \in cache[i] => "ids" \in upstream[i]
  /\ "negative" \in cache[i] => "noIDs" \in upstream[i]

SlotSourced(c) ==
  /\ reply[c] = "ids" \/ answer[c] = "enriched" => "ids" \in upstream[job[c].id]
  /\ reply[c] = "noIDs" \/ answer[c] \in {"noIDs", "cachedNoIDs"}
       => "noIDs" \in upstream[job[c].id]

\* What S2S has said is never unsaid.
LEMMA UpstreamGrows ==
  ASSUME TypeOK, [Next]_vars
  PROVE  \A i \in Ids : upstream[i] \subseteq upstream'[i]
<1>0. upstream \in [Ids -> SUBSET {"ids", "noIDs"}]  BY DEF TypeOK
<1>1. ASSUME NEW c \in Callers, NEW r, Resolve(c, r)
      PROVE  \A i \in Ids : upstream[i] \subseteq upstream'[i]
  BY <1>0, <1>1 DEF Resolve
<1>2. ASSUME NEW c \in Callers, SlotStep(c)
      PROVE  (\E r : Resolve(c, r)) \/ UNCHANGED upstream
  <2>1. CASE SyncResolve(c) \/ TaskResolve(c)  BY <2>1 DEF SyncResolve, TaskResolve
  <2>2. CASE ~(SyncResolve(c) \/ TaskResolve(c))
    BY <1>2, <2>2
    DEF SlotStep, EnterEnrich, CallerStep, TaskStep, Lookup, ScheduleSync, SyncMark, SyncStore,
        Acquire, AcquireFails, ClassifyFull, Admit, Withdraw, BackgroundStarted, StartBackground,
        ReceiveResult, TimerFires, WaitExpires, Receive, TaskSend, TaskStore, BackgroundFinished,
        TaskRelease, NextCall, cacheVars
  <2> QED  BY <2>1, <2>2
<1>3. ASSUME OtherStep \/ UNCHANGED vars PROVE UNCHANGED upstream
  BY <1>3 DEF OtherStep, ShutdownStep, BeginShutdown, ShutdownReturnsNil, ShutdownReturnsErr,
     DrainStep, Expire, vars, cacheVars
<1> QED  BY <1>1, <1>2, <1>3, StepKinds

\* The entries that the steps of a slot may add: the result it got from S2S.
LEMMA SlotWrites ==
  ASSUME TypeOK, NEW c \in Callers, SlotStep(c), NEW i \in Ids
  PROVE  /\ "hit" \in cache'[i] => "hit" \in cache[i] \/ (i = job[c].id /\ reply[c] = "ids")
         /\ "negative" \in cache'[i] =>
              "negative" \in cache[i] \/ (i = job[c].id /\ reply[c] = "noIDs")
<1>0. cache \in [Ids -> SUBSET Entries] /\ job[c].id \in Ids  BY DEF TypeOK
<1>1. ASSUME NEW e, Put(job[c].id, e)
      PROVE  \A x : x \in cache'[i] => x \in cache[i] \/ (i = job[c].id /\ x = e)
  BY <1>0, <1>1 DEF Put
<1>2. ASSUME MarkInProgress(c) PROVE \A x : x \in cache'[i] => x \in cache[i] \/ x = "inProgress"
  BY <1>1, <1>2 DEF MarkInProgress
<1>3. CASE StoreResult(c)
  <2>1. CASE job[c].keyed /\ reply[c] = "ids"
    BY <1>1, <1>3, <2>1 DEF StoreResult
  <2>2. CASE job[c].keyed /\ reply[c] = "noIDs"
    BY <1>1, <1>3, <2>2 DEF StoreResult
  <2>3. CASE ~job[c].keyed \/ reply[c] \notin {"ids", "noIDs"}
    BY <1>3, <2>3 DEF StoreResult
  <2> QED  BY <2>1, <2>2, <2>3
<1>4. MarkInProgress(c) \/ StoreResult(c) \/ UNCHANGED cache
  <2>1. CASE SyncMark(c) \/ StartBackground(c) \/ SyncStore(c) \/ TaskStore(c)
    BY <2>1 DEF SyncMark, StartBackground, SyncStore, TaskStore
  <2>2. CASE ~(SyncMark(c) \/ StartBackground(c) \/ SyncStore(c) \/ TaskStore(c))
    BY <2>2
    DEF SlotStep, EnterEnrich, CallerStep, TaskStep, Lookup, ScheduleSync, SyncResolve,
        Acquire, AcquireFails, ClassifyFull, Admit, Withdraw, BackgroundStarted, TaskResolve,
        ReceiveResult, TimerFires, WaitExpires, Receive, TaskSend, BackgroundFinished,
        TaskRelease, NextCall, cacheVars
  <2> QED  BY <2>1, <2>2
<1> QED  BY <1>2, <1>3, <1>4

\* What slot c answers, and what its reply says, comes from S2S.
LEMMA SlotStaysSourced ==
  ASSUME TypeOK, NEW c \in Callers, SlotStep(c), InOrder(c), EntriesSourced, SlotSourced(c),
         \A i \in Ids : upstream[i] \subseteq upstream'[i]
  PROVE  SlotSourced(c)'
<1>0. /\ pc \in [Callers -> PCs] /\ task \in [Callers -> TaskStates]
      /\ job \in [Callers -> [mode : Modes, keyed : BOOLEAN, id : Ids]]
      /\ answer \in [Callers -> Answers]
      /\ reply \in [Callers -> Replies \cup {"none"}]
      /\ channel \in [Callers -> Replies \cup {"none"}]
      /\ upstream \in [Ids -> SUBSET {"ids", "noIDs"}]
  BY DEF TypeOK
<1>G. job[c].id \in Ids /\ upstream[job[c].id] \subseteq upstream'[job[c].id]
  BY <1>0
<1> USE <1>0, <1>G DEF SlotSourced
<1>1. CASE EnterEnrich(c)
  <2>1. PICK rq \in Inputs : EnterEnrich(c)!(rq)  BY <1>1 DEF EnterEnrich
  <2>2. /\ reply'[c] = "none"
        /\ answer'[c] \notin {"enriched", "noIDs", "cachedNoIDs"}
    BY <2>1 DEF InOrder, Unresolved, Return, NotEnriched
  <2> QED  BY <2>2
<1>2. CASE Lookup(c)
  <2>1. job' = job /\ reply' = reply /\ reply[c] = "none" /\ answer[c] = "none"
    BY <1>2 DEF Lookup, InOrder, Unresolved
  <2>2. /\ answer'[c] = "enriched" => "hit" \in cache[job[c].id]
        /\ answer'[c] \in {"noIDs", "cachedNoIDs"} => "negative" \in cache[job[c].id]
    BY <1>2, <2>1 DEF Lookup, Return, NotEnriched
  <2> QED  BY <2>1, <2>2 DEF EntriesSourced
<1>3. CASE SyncResolve(c) \/ TaskResolve(c)
  <2>1. PICK r \in S2SReplies : Resolve(c, r)  BY <1>3 DEF SyncResolve, TaskResolve
  <2>2. job' = job /\ reply'[c] = r /\ {r} \cap {"ids", "noIDs"} \subseteq upstream'[job[c].id]
    <3>1. job' = job  BY <1>3 DEF SyncResolve, TaskResolve
    <3>2. reply'[c] = r  BY <2>1 DEF Resolve
    <3>3. upstream'[job[c].id] = upstream[job[c].id] \cup ({r} \cap {"ids", "noIDs"})
      BY <2>1 DEF Resolve
    <3> QED  BY <3>1, <3>2, <3>3
  <2>3. answer'[c] \in {answer[c], "s2sError"}
    BY <1>3 DEF SyncResolve, TaskResolve, Return
  <2> QED  BY <2>2, <2>3
<1>4. CASE SyncStore(c)
  <2>1. /\ reply' = reply /\ job' = job /\ answer'[c] = AnswerTo[reply[c]]
        /\ reply[c] \in Replies
    BY <1>4 DEF SyncStore, Return, InOrder
  <2> QED  BY <2>1, AnswerValues DEF Replies
<1>5. ASSUME NEW from \in WaitStates, Receive(c, from) PROVE SlotSourced(c)'
  <2>1. /\ reply' = reply /\ job' = job /\ answer'[c] = AnswerTo[reply[c]]
        /\ reply[c] \in Replies
    BY <1>5 DEF Receive, Return, InOrder
  <2> QED  BY <2>1, AnswerValues DEF Replies
<1>6. ASSUME /\ UNCHANGED <<reply, job>>
             /\ answer'[c] = answer[c] \/ answer'[c] \notin {"enriched", "noIDs", "cachedNoIDs"}
      PROVE  SlotSourced(c)'
  BY <1>6
<1>7. CASE ScheduleSync(c) \/ SyncMark(c) \/ Acquire(c) \/ AcquireFails(c) \/ Admit(c)
             \/ BackgroundStarted(c) \/ TimerFires(c)
  BY <1>6, <1>7 DEF ScheduleSync, SyncMark, Acquire, AcquireFails, Admit, BackgroundStarted,
     TimerFires
<1>8. CASE TaskSend(c) \/ TaskStore(c) \/ BackgroundFinished(c) \/ TaskRelease(c)
  BY <1>6, <1>8 DEF TaskSend, TaskStore, BackgroundFinished, TaskRelease
<1>9. CASE Withdraw(c) \/ ClassifyFull(c) \/ StartBackground(c)
  BY <1>6, <1>9 DEF Withdraw, ClassifyFull, StartBackground, Return, NotEnriched
<1>10. CASE WaitExpires(c)
  <2>1. CASE Receive(c, "expired")  BY <1>5, <2>1 DEF WaitStates
  <2>2. CASE ~Receive(c, "expired")
    BY <1>6, <1>10, <2>2 DEF WaitExpires, Return, NotEnriched
  <2> QED  BY <2>1, <2>2
<1>11. CASE NextCall(c)
  BY <1>11 DEF NextCall
<1>12. CASE ReceiveResult(c)  BY <1>5, <1>12 DEF ReceiveResult, WaitStates
<1> QED
  BY <1>1, <1>2, <1>3, <1>4, <1>7, <1>8, <1>9, <1>10, <1>11, <1>12
  DEF SlotStep, CallerStep, TaskStep

\* Every step keeps entries, replies and answers with what S2S said.
LEMMA NextSourced == TypeOK /\ SlotsInOrder /\ Sourced /\ [Next]_vars => Sourced'
<1> SUFFICES ASSUME TypeOK, SlotsInOrder, Sourced, [Next]_vars PROVE Sourced'
  OBVIOUS
<1>0. \A i \in Ids : upstream[i] \subseteq upstream'[i]  BY UpstreamGrows
<1>1. EntriesSourced /\ \A c \in Callers : SlotSourced(c)
  BY DEF Sourced, EntriesSourced, SlotSourced
<1>2. \A d \in Callers : job[d].id \in Ids  BY DEF TypeOK
<1>3. ASSUME NEW c \in Callers, SlotStep(c)
      PROVE  EntriesSourced' /\ \A d \in Callers : SlotSourced(d)'
  <2>1. SlotSourced(c)'
    BY <1>0, <1>1, <1>3, SlotStaysSourced DEF SlotsInOrder
  <2>2. ASSUME NEW d \in Callers \ {c} PROVE SlotSourced(d)'
    <3>1. job'[d] = job[d] /\ answer'[d] = answer[d] /\ reply'[d] = reply[d]
      BY <1>3, SlotFrame DEF OnlyMoves
    <3>2. SlotSourced(d) /\ upstream[job[d].id] \subseteq upstream'[job[d].id]
      BY <1>0, <1>1, <1>2
    <3> QED  BY <3>1, <3>2 DEF SlotSourced
  <2>3. ASSUME NEW i \in Ids
        PROVE  /\ "hit" \in cache'[i] => "ids" \in upstream'[i]
               /\ "negative" \in cache'[i] => "noIDs" \in upstream'[i]
    <3>1. /\ "hit" \in cache'[i] => "hit" \in cache[i] \/ (i = job[c].id /\ reply[c] = "ids")
          /\ "negative" \in cache'[i] =>
               "negative" \in cache[i] \/ (i = job[c].id /\ reply[c] = "noIDs")
      BY <1>3, SlotWrites
    <3>2. SlotSourced(c)  BY <1>1
    <3> QED  BY <1>0, <1>1, <3>1, <3>2 DEF EntriesSourced, SlotSourced
  <2> QED  BY <2>1, <2>2, <2>3 DEF EntriesSourced
<1>4. ASSUME OtherStep \/ UNCHANGED vars
      PROVE  EntriesSourced' /\ \A d \in Callers : SlotSourced(d)'
  <2>1. UNCHANGED <<job, answer, reply>>  BY <1>4, OtherFrame DEF slotVars
  <2>2. \A i \in Ids : cache'[i] \subseteq cache[i]
    BY <1>4 DEF OtherStep, ShutdownStep, BeginShutdown, ShutdownReturnsNil, ShutdownReturnsErr,
       DrainStep, Expire, vars, cacheVars, TypeOK
  <2>3. ASSUME NEW d \in Callers PROVE SlotSourced(d)'
    <3>1. SlotSourced(d) /\ upstream[job[d].id] \subseteq upstream'[job[d].id]
      BY <1>0, <1>1, <1>2
    <3> QED  BY <2>1, <3>1 DEF SlotSourced
  <2> QED  BY <1>0, <1>1, <2>2, <2>3 DEF EntriesSourced
<1>5. EntriesSourced' /\ \A d \in Callers : SlotSourced(d)'  BY <1>3, <1>4, StepKinds
<1> QED  BY <1>5 DEF Sourced, EntriesSourced, SlotSourced

-----------------------------------------------------------------------------
\* The invariant and what follows from it.

\* The parts of the invariant that the steps preserve.
Books == TypeOK /\ ShutdownOrder /\ PermitsBalance /\ GaugeBalance

\* The gauge counts holders of permits, so it stays within the capacity; and
\* when drained is closed Drain holds every permit, so no call holds one.
LEMMA BooksBound ==
  ASSUME Books
  PROVE  /\ active <= MaxConcurrentCalls
         /\ drain = "drained" => Holders = {}
         /\ Cardinality(Running) <= MaxConcurrentCalls
         /\ Cardinality(Holders) <= MaxConcurrentCalls
<1>1. permits \in Int /\ permits <= MaxConcurrentCalls /\ taken \in Nat /\ MaxConcurrentCalls \in Int
  BY CapacityAssumption DEF Books, TypeOK, AdmissionTypeOK
<1>2. Holders \subseteq Callers /\ Counted \subseteq Holders /\ Running \subseteq Holders
  BY DEF Holders, Counted, Running
<1>3. IsFiniteSet(Holders)  BY <1>2, EnricherAssumption, FS_Subset
<1>4. /\ Cardinality(Counted) <= Cardinality(Holders)
      /\ Cardinality(Running) <= Cardinality(Holders)
  BY <1>2, <1>3, FS_Subset
<1>5. Cardinality(Holders) \in Nat  BY <1>3, FS_CardinalityType
<1>6. Cardinality(Counted) \in Nat /\ Cardinality(Running) \in Nat
  BY <1>2, <1>3, FS_Subset, FS_CardinalityType
<1>7. permits = Cardinality(Holders) + taken  BY DEF Books, PermitsBalance
<1>8. active = Cardinality(Counted)  BY DEF Books, GaugeBalance
<1>9. Cardinality(Holders) <= MaxConcurrentCalls  BY <1>1, <1>5, <1>7
<1>10. ASSUME drain = "drained" PROVE Holders = {}
  <2>1. taken = MaxConcurrentCalls  BY <1>10 DEF Books, ShutdownOrder
  <2>2. Cardinality(Holders) = 0  BY <1>1, <1>5, <1>7, <2>1
  <2> QED  BY <1>3, <2>2, FS_EmptySet
<1> QED  BY <1>1, <1>4, <1>5, <1>6, <1>8, <1>9, <1>10

\* EnricherInv is those parts together with the order of the slots and the
\* origin of what they say.
LEMMA InvParts == EnricherInv <=> Books /\ SlotsInOrder /\ SlotsCounted /\ Sourced
<1>1. EnricherInv => Books /\ SlotsInOrder /\ SlotsCounted /\ Sourced
  BY DEF EnricherInv, Books, PermitsBalance, GaugeBalance, SlotsInOrder, SlotsCounted
<1>2. ASSUME Books, SlotsInOrder, SlotsCounted, Sourced PROVE EnricherInv
  <2>1. active <= MaxConcurrentCalls  BY <1>2, BooksBound
  <2>2. (\E s \in Shutdowns : shut[s] = "nil") => closing /\ Holders = {}
    BY <1>2, BooksBound DEF Books, ShutdownOrder
  <2> QED
    BY <1>2, <2>1, <2>2
    DEF EnricherInv, Books, PermitsBalance, GaugeBalance, SlotsInOrder, SlotsCounted
<1> QED  BY <1>1, <1>2

\* An enricher that New has just built satisfies the invariant.
LEMMA InitInv == Init => EnricherInv
<1> SUFFICES ASSUME Init PROVE EnricherInv
  OBVIOUS
<1>1. TypeOK /\ ShutdownOrder  BY InitTypeOK, AdmissionStarts DEF Init
<1>2. Holders = {} /\ Counted = {}
  BY DEF Init, Holders, Running, Counted
<1>3. Cardinality({}) = 0  BY FS_EmptySet
<1>4. PermitsBalance /\ GaugeBalance
  BY <1>2, <1>3 DEF Init, AdmissionInit, PermitsBalance, GaugeBalance
<1>5. SlotsInOrder  BY DEF Init, SlotsInOrder, InOrder, Unresolved, WaitStates
<1>6. SlotsCounted
  <2> SUFFICES ASSUME NEW c \in Callers PROVE CountedSoFar(c)
    BY DEF SlotsCounted
  <2>1. pc[c] = "idle" /\ reply[c] = "none" /\ answer[c] = "none"  BY DEF Init
  <2>2. tally[c]["enriched"] = 0 /\ tally[c]["notEnriched"] = 0
    BY DEF Init, NoTally, Counters
  <2> QED  BY <2>1, <2>2 DEF CountedSoFar, Bit
<1>7. Sourced  BY DEF Init, Sourced
<1> QED  BY <1>1, <1>4, <1>5, <1>6, <1>7, InvParts DEF Books

\* Every step of the enricher preserves the invariant.
LEMMA NextInv == EnricherInv /\ [Next]_vars => EnricherInv'
<1> SUFFICES ASSUME EnricherInv, [Next]_vars PROVE EnricherInv'
  OBVIOUS
<1>1. Books /\ SlotsInOrder /\ SlotsCounted /\ Sourced  BY InvParts
<1>2. TypeOK /\ ShutdownOrder /\ PermitsBalance /\ GaugeBalance  BY <1>1 DEF Books
<1>3. TypeOK'  BY <1>1, <1>2, NextTypeOK
<1>4. ShutdownOrder'  BY <1>1, <1>2, NextOrder
<1>5. PermitsBalance' /\ GaugeBalance'  BY <1>1, <1>2, NextBooks
<1>6. SlotsInOrder' /\ SlotsCounted'  BY <1>1, <1>2, NextSlots
<1>7. Sourced'  BY <1>1, <1>2, NextSourced
<1>8. Books'  BY <1>3, <1>4, <1>5 DEF Books
<1>9. (EnricherInv <=> Books /\ SlotsInOrder /\ SlotsCounted /\ Sourced)'
  BY InvParts, PTL
<1> QED  BY <1>6, <1>7, <1>8, <1>9

\* In every run each permit has one holder, the gauge is exact and within its
\* capacity, a nil Shutdown leaves no admitted call, and every slot is in order.
THEOREM EnricherInvariant == Spec => []EnricherInv
BY InitInv, NextInv, PTL DEF Spec

\* What callers and readers of the cache are told about an identity is what S2S
\* replied for it.
THEOREM AnswersComeFromUpstream == Spec => []AnswersFromUpstream
<1>1. EnricherInv => AnswersFromUpstream
  BY DEF EnricherInv, Sourced, AnswersFromUpstream
<1> QED  BY <1>1, EnricherInvariant, PTL

\* A finished call has counted the one event of its answer, and a call that gave
\* up waiting that of its resolution too.
THEOREM TallyFitsAnswer == Spec => []TalliedAsAnswered
<1>1. ASSUME EnricherInv PROVE TalliedAsAnswered
  <2> SUFFICES ASSUME NEW c \in Callers, pc[c] = "returned", task[c] = "none"
               PROVE  LET late == IF answer[c] # "waitExpired" THEN "error" ELSE reply[c] IN
                      tally[c] = [m \in Counters |->
                        IF m = "enriched"
                        THEN (IF answer[c] = "enriched" THEN 1 ELSE 0) + (IF late = "ids" THEN 1 ELSE 0)
                        ELSE (IF answer[c] \in NotEnrichedAnswers THEN 1 ELSE 0)
                               + (IF late \in {"noIDs", "empty"} THEN 1 ELSE 0)]
    BY DEF TalliedAsAnswered
  <2>1. CountedSoFar(c)  BY <1>1 DEF EnricherInv
  <2>2. tally[c] \in [Counters -> Nat]  BY <1>1 DEF EnricherInv, TypeOK
  <2>3. CASE answer[c] = "waitExpired"
    <3>1. answer[c] \in NotEnrichedAnswers /\ answer[c] # "enriched"
      BY <2>3 DEF NotEnrichedAnswers
    <3>2. /\ tally[c]["enriched"] = IF reply[c] = "ids" THEN 1 ELSE 0
          /\ tally[c]["notEnriched"] = 1 + (IF reply[c] \in {"noIDs", "empty"} THEN 1 ELSE 0)
      BY <2>1, <2>3 DEF CountedSoFar, Bit
    <3> QED  BY <2>2, <2>3, <3>1, <3>2 DEF Counters
  <2>4. CASE answer[c] # "waitExpired"
    <3>1. /\ tally[c]["enriched"] = IF answer[c] = "enriched" THEN 1 ELSE 0
          /\ tally[c]["notEnriched"] = IF answer[c] \in NotEnrichedAnswers THEN 1 ELSE 0
      BY <2>1, <2>4 DEF CountedSoFar, Bit
    <3> QED  BY <2>2, <2>4, <3>1 DEF Counters
  <2> QED  BY <2>3, <2>4
<1> QED  BY <1>1, EnricherInvariant, PTL

\* background_limit is never an artefact of Drain.
THEOREM LimitRejectGenuine == Spec => LimitRejectIsGenuine
<1> DEFINE Step == \A c \in Callers : pc[c] = "full" /\ answer'[c] = "backgroundLimit" => taken = 0
<1>1. EnricherInv /\ [Next]_vars => Step
  <2> SUFFICES ASSUME EnricherInv, [Next]_vars, NEW c \in Callers,
                      pc[c] = "full", answer'[c] = "backgroundLimit"
               PROVE  taken = 0
    OBVIOUS
  <2>0. TypeOK /\ InOrder(c)  BY DEF EnricherInv
  <2>1. answer[c] = "none" /\ task[c] = "none"  BY <2>0 DEF InOrder, Unresolved
  <2>2. ASSUME NEW d \in Callers, SlotStep(d) PROVE d = c
    <3>1. OnlyMoves(d)  BY <2>0, <2>2, SlotFrame
    <3> QED  BY <2>1, <3>1 DEF OnlyMoves
  <2>3. ~(OtherStep \/ UNCHANGED vars)  BY <2>1, OtherFrame DEF slotVars
  <2>4. SlotStep(c)  BY <2>2, <2>3, StepKinds
  <2>5. ClassifyFull(c)
    BY <2>1, <2>4
    DEF SlotStep, EnterEnrich, CallerStep, SyncResolve, TaskStep, Lookup, ScheduleSync, SyncMark,
        SyncStore, Acquire, AcquireFails, Admit, Withdraw, BackgroundStarted, StartBackground,
        ReceiveResult, TimerFires, WaitExpires, Receive, TaskResolve, TaskSend, TaskStore,
        BackgroundFinished, TaskRelease, NextCall, Goto, TaskGoto
  <2>6. answer \in [Callers -> Answers] /\ taken \in Nat
    BY <2>0, CapacityAssumption DEF TypeOK, AdmissionTypeOK
  <2>7. ~closing  BY <2>5, <2>6 DEF ClassifyFull, Return
  <2> QED  BY <2>6, <2>7 DEF EnricherInv, ShutdownOrder
<1>2. EnricherInv /\ [Next]_vars => [Step]_vars  BY <1>1
<1> QED  BY <1>2, EnricherInvariant, PTL DEF Spec, LimitRejectIsGenuine

\* A waiting caller whose result has arrived returns that result.
THEOREM ResultIsDelivered == Spec => ResultDelivered
<1> DEFINE Step == \A c \in Callers :
      pc[c] \in WaitStates /\ channel[c] # "none" /\ pc'[c] = "returned"
        => answer'[c] = AnswerTo[channel[c]]
<1>1. EnricherInv /\ [Next]_vars => Step
  <2> SUFFICES ASSUME EnricherInv, [Next]_vars, NEW c \in Callers,
                      pc[c] \in WaitStates, channel[c] # "none", pc'[c] = "returned"
               PROVE  answer'[c] = AnswerTo[channel[c]]
    OBVIOUS
  <2>0. TypeOK /\ pc[c] # "returned"  BY DEF EnricherInv, WaitStates
  <2>2. ASSUME NEW d \in Callers, SlotStep(d) PROVE d = c
    <3>1. OnlyMoves(d)  BY <2>0, <2>2, SlotFrame
    <3> QED  BY <2>0, <3>1 DEF OnlyMoves
  <2>3. ~(OtherStep \/ UNCHANGED vars)  BY <2>0, OtherFrame DEF slotVars
  <2>4. SlotStep(c)  BY <2>2, <2>3, StepKinds
  <2>5. pc \in [Callers -> PCs] /\ answer \in [Callers -> Answers]  BY <2>0 DEF TypeOK
  <2>6. ~TaskStep(c)
    BY <2>0 DEF TaskStep, TaskResolve, TaskSend, TaskStore, BackgroundFinished, TaskRelease
  <2>7. Receive(c, "waiting") \/ Receive(c, "expired")
    BY <2>0, <2>4, <2>5, <2>6
    DEF SlotStep, EnterEnrich, CallerStep, SyncResolve, Lookup, ScheduleSync, SyncMark,
        SyncStore, Acquire, AcquireFails, ClassifyFull, Admit, Withdraw, BackgroundStarted,
        StartBackground, ReceiveResult, TimerFires, WaitExpires, NextCall, Goto, WaitStates
  <2> QED  BY <2>5, <2>7 DEF Receive, Return
<1>2. EnricherInv /\ [Next]_vars => [Step]_vars  BY <1>1
<1> QED  BY <1>2, EnricherInvariant, PTL DEF Spec, ResultDelivered

-----------------------------------------------------------------------------
\* The enricher implements the abstract pool.

\* Admit is an admission of the open pool, TaskRelease a completion, the store of
\* closing its closing, and close(drained) its drained step.
THEOREM EnricherImplementsPool == Spec => ImplementsPool
<1> DEFINE PStep == [Pool!PoolNext]_(Pool!poolVars)
<1>1. Init => Pool!PoolInit
  BY DEF Init, AdmissionInit, Pool!PoolInit, Phase, Running
<1>B. EnricherInv => Books /\ AdmissionTypeOK /\ ShutdownOrder /\ TypeOK /\ SlotsInOrder
  BY InvParts DEF Books, TypeOK
<1>H. EnricherInv => Cardinality(Running) <= MaxConcurrentCalls /\ (drain = "drained" => Holders = {})
  BY <1>B, BooksBound
<1>N. (EnricherInv => Cardinality(Running) <= MaxConcurrentCalls /\ (drain = "drained" => Holders = {}))'
  BY <1>H, PTL
<1>C. Pool!Cardinality(Running) = Cardinality(Running)
  BY Zenon DEF Pool!Cardinality, Cardinality
<1>2. EnricherInv /\ EnricherInv' /\ [Next]_vars => PStep
  <2> SUFFICES ASSUME EnricherInv, EnricherInv', [Next]_vars PROVE PStep
    OBVIOUS
  <2>0. AdmissionTypeOK /\ ShutdownOrder /\ TypeOK /\ SlotsInOrder  BY <1>B
  <2>U. ASSUME Phase' = Phase, Running' = Running PROVE PStep
    BY <2>U DEF Pool!poolVars
  <2>1. ASSUME NEW c \in Callers, SlotStep(c) PROVE PStep
    <3>1. /\ UNCHANGED <<taken, closing, drain, shut>>
          /\ ~Runs(pc[c], task[c]) /\ Runs(pc'[c], task'[c]) => ~closing /\ pc[c] = "acquired"
      BY <2>0, <2>1, SlotEffect DEF SlotsInOrder
    <3>2. OnlyMoves(c)  BY <2>0, <2>1, SlotFrame
    <3>3. Phase' = Phase  BY <3>1 DEF Phase
    <3>4. CASE Runs(pc[c], task[c]) <=> Runs(pc'[c], task'[c])
      BY <2>U, <3>2, <3>3, <3>4, StageCounts
    <3>5. CASE ~Runs(pc[c], task[c]) /\ Runs(pc'[c], task'[c])
      <4>1. c \notin Running /\ Running' = Running \cup {c}  BY <3>2, <3>5, StageCounts
      <4>2. Phase = "open"  BY <2>0, <3>1, <3>5, PhaseSteps
      <4>3. IsFiniteSet(Running) /\ Cardinality(Running) \in Nat
        BY EnricherAssumption, FS_Subset, FS_CardinalityType DEF Running
      <4>4. Cardinality(Running') = Cardinality(Running) + 1  BY <4>1, <4>3, FS_AddElement
      <4>5. Cardinality(Running) < MaxConcurrentCalls
        BY <1>N, <4>3, <4>4, CapacityAssumption
      <4>6. Pool!PoolAdmit(c)  BY <1>C, <3>3, <4>1, <4>2, <4>5 DEF Pool!PoolAdmit
      <4> QED  BY <4>6 DEF Pool!PoolNext
    <3>6. CASE Runs(pc[c], task[c]) /\ ~Runs(pc'[c], task'[c])
      <4>1. c \in Running /\ Running' = Running \ {c}  BY <3>2, <3>6, StageCounts
      <4>2. Pool!PoolFinish(c)  BY <3>3, <4>1 DEF Pool!PoolFinish
      <4> QED  BY <4>2 DEF Pool!PoolNext
    <3> QED  BY <3>4, <3>5, <3>6
  <2>2. ASSUME OtherStep \/ UNCHANGED vars PROVE Running' = Running
    BY <2>2, OtherFrame DEF slotVars, Running
  <2>3. ASSUME NEW s \in Shutdowns, ShutdownStep(s) PROVE PStep
    <3>1. Running' = Running  BY <2>2, <2>3 DEF OtherStep
    <3>2. ShutdownMove(s)
      BY <2>3 DEF ShutdownStep, BeginShutdown, ShutdownReturnsNil, ShutdownReturnsErr, ShutdownMove
    <3>3. Phase' = Phase \/ (Phase = "open" /\ Phase' = "closing")
      BY <2>0, <3>2, PhaseSteps
    <3> QED  BY <3>1, <3>3 DEF Pool!PoolNext, Pool!PoolClose, Pool!poolVars
  <2>4. ASSUME DrainStep PROVE PStep
    <3>1. Running' = Running  BY <2>2, <2>4 DEF OtherStep
    <3>2. CASE DrainOne  BY <2>0, <2>U, <3>1, <3>2, PhaseSteps
    <3>3. CASE CloseDrained
      <4>1. Running' = {}  BY <1>N, <3>3 DEF CloseDrained, Holders
      <4>2. Phase = "closing" /\ Phase' = "drained"  BY <2>0, <3>3, PhaseSteps
      <4>3. Pool!PoolDrained  BY <3>1, <4>1, <4>2 DEF Pool!PoolDrained
      <4> QED  BY <4>3 DEF Pool!PoolNext
    <3> QED  BY <2>4, <3>2, <3>3 DEF DrainStep
  <2>5. ASSUME (\E id \in Ids : Expire(id)) \/ UNCHANGED vars PROVE PStep
    <3>1. UNCHANGED <<closing, drain>>  BY <2>5 DEF Expire, vars, admissionVars
    <3>2. Running' = Running  BY <2>2, <2>5 DEF OtherStep
    <3> QED  BY <2>0, <2>U, <3>1, <3>2, PhaseSteps
  <2> QED  BY <2>1, <2>3, <2>4, <2>5, StepKinds DEF OtherStep
<1> QED  BY <1>1, <1>2, EnricherInvariant, PTL DEF Spec, ImplementsPool, Pool!PoolSafety
=============================================================================
