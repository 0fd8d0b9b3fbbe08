--------------------------- MODULE ReporterProofs ---------------------------
(***************************************************************************)
(* Proofs that the reporter's safety properties hold for every capacity,   *)
(* every finite set of overlapping calls and any callers of Shutdown.      *)
(***************************************************************************)
EXTENDS Reporter, TLAPS, FiniteSetTheorems

-----------------------------------------------------------------------------
\* The limiter and the shutdown protocol.

\* The steps of one call of Shutdown.
ShutdownMove(s) ==
  ShutdownStore(s) \/ ShutdownOnce(s) \/ ShutdownDrained(s) \/ ShutdownExpired(s)

\* A limiter that New has just made is empty and nobody has called Shutdown.
LEMMA AdmissionStarts == AdmissionInit => AdmissionTypeOK /\ ShutdownOrder
<1> SUFFICES ASSUME AdmissionInit PROVE AdmissionTypeOK /\ ShutdownOrder
  OBVIOUS
<1>1. closing \in BOOLEAN  BY Zenon DEF AdmissionInit
<1>2. permits \in 0..MaxConcurrentCalls /\ taken \in 0..MaxConcurrentCalls
  BY CapacityAssumption DEF AdmissionInit
<1>3. shut \in [Shutdowns -> ShutStates]  BY DEF AdmissionInit, ShutStates
<1>4. drain = "idle"  BY DEF AdmissionInit
<1>5. ShutdownOrder  BY DEF AdmissionInit, ShutdownOrder
<1> QED  BY <1>1, <1>2, <1>3, <1>4, <1>5 DEF AdmissionTypeOK

\* The steps of Shutdown and Drain preserve the types of the protocol's state.
LEMMA AdmissionTypes ==
  ASSUME AdmissionTypeOK
  PROVE  /\ (\E s \in Shutdowns : ShutdownMove(s)) => AdmissionTypeOK'
         /\ DrainOne \/ CloseDrained => AdmissionTypeOK'
         /\ TryAcquire \/ Release => permits' \in 0..MaxConcurrentCalls
<1>1. ASSUME NEW s \in Shutdowns, ShutdownStore(s) PROVE AdmissionTypeOK'
  <2>1. closing' \in BOOLEAN  BY <1>1, Zenon DEF ShutdownStore
  <2>2. shut' \in [Shutdowns -> ShutStates]
    BY <1>1 DEF ShutdownStore, AdmissionTypeOK, ShutStates
  <2> QED  BY <1>1, <2>1, <2>2 DEF ShutdownStore, AdmissionTypeOK
<1>2. ASSUME NEW s \in Shutdowns, ShutdownOnce(s) PROVE AdmissionTypeOK'
  BY <1>2 DEF ShutdownOnce, AdmissionTypeOK, ShutStates
<1>3. ASSUME NEW s \in Shutdowns, ShutdownDrained(s) \/ ShutdownExpired(s)
      PROVE  AdmissionTypeOK'
  BY <1>3 DEF ShutdownDrained, ShutdownExpired, AdmissionTypeOK, ShutStates
<1>4. TryAcquire \/ Release => permits' \in 0..MaxConcurrentCalls
  BY CapacityAssumption DEF TryAcquire, Release, AdmissionTypeOK
<1>5. DrainOne \/ CloseDrained => AdmissionTypeOK'
  BY <1>4, CapacityAssumption DEF DrainOne, CloseDrained, AdmissionTypeOK
<1> QED  BY <1>1, <1>2, <1>3, <1>4, <1>5 DEF ShutdownMove

\* They also keep the stores of Shutdown in their order: closing before the
\* drain, every permit before drained, drained before a nil answer.
LEMMA OrderKept ==
  ASSUME AdmissionTypeOK, ShutdownOrder
  PROVE  /\ (\E s \in Shutdowns : ShutdownMove(s)) => ShutdownOrder'
         /\ DrainOne \/ CloseDrained => ShutdownOrder'
         /\ UNCHANGED <<taken, closing, drain, shut>> => ShutdownOrder'
<1> USE DEF ShutdownOrder
<1>0. /\ shut \in [Shutdowns -> ShutStates]
      /\ taken \in Int /\ MaxConcurrentCalls \in Int
  BY CapacityAssumption DEF AdmissionTypeOK
<1>1. ASSUME NEW s \in Shutdowns, ShutdownStore(s) PROVE ShutdownOrder'
  BY <1>0, <1>1 DEF ShutdownStore
<1>2. ASSUME NEW s \in Shutdowns, ShutdownOnce(s) PROVE ShutdownOrder'
  BY <1>0, <1>2 DEF ShutdownOnce
<1>3. ASSUME NEW s \in Shutdowns, ShutdownDrained(s) \/ ShutdownExpired(s)
      PROVE  ShutdownOrder'
  BY <1>0, <1>3 DEF ShutdownDrained, ShutdownExpired
<1>4. ASSUME DrainOne \/ CloseDrained PROVE ShutdownOrder'
  BY <1>0, <1>4 DEF DrainOne, CloseDrained
<1>5. ASSUME UNCHANGED <<taken, closing, drain, shut>> PROVE ShutdownOrder'
  BY <1>5
<1> QED  BY <1>1, <1>2, <1>3, <1>4, <1>5 DEF ShutdownMove

\* What the steps of Shutdown and Drain leave alone: only Drain touches the
\* limiter, and it keeps what it takes.
LEMMA AdmissionFrame ==
  ASSUME AdmissionTypeOK
  PROVE  /\ \A s \in Shutdowns : ShutdownMove(s) => UNCHANGED <<permits, taken>>
         /\ DrainOne \/ CloseDrained =>
              permits' - taken' = permits - taken /\ permits' \in Int /\ taken' \in Int
<1>1. permits \in Int /\ taken \in Int
  BY CapacityAssumption DEF AdmissionTypeOK
<1> QED
  BY <1>1 DEF ShutdownMove, ShutdownStore, ShutdownOnce, ShutdownDrained, ShutdownExpired,
     DrainOne, CloseDrained, TryAcquire

-----------------------------------------------------------------------------
\* Counting slots.

\* The slots that an assignment q of program counters puts in some stages.
At(q, states) == {r \in Requests : q[r] \in states}

\* Moving one slot changes the number of slots in given stages by at most one,
\* as its old and its new stage say.
LEMMA MoveOne ==
  ASSUME NEW p \in [Requests -> PCs], NEW r \in Requests, NEW to \in PCs, NEW S
  PROVE  LET q == [p EXCEPT ![r] = to] IN
         /\ IsFiniteSet(At(p, S)) /\ Cardinality(At(p, S)) \in Nat
         /\ (p[r] \in S <=> to \in S) => At(q, S) = At(p, S)
         /\ p[r] \notin S /\ to \in S =>
              Cardinality(At(q, S)) = Cardinality(At(p, S)) + 1
         /\ p[r] \in S /\ to \notin S =>
              Cardinality(At(q, S)) = Cardinality(At(p, S)) - 1
<1> DEFINE q == [p EXCEPT ![r] = to]
<1>1. IsFiniteSet(At(p, S)) /\ Cardinality(At(p, S)) \in Nat
  <2>1. At(p, S) \in SUBSET Requests  BY DEF At
  <2>2. IsFiniteSet(At(p, S))  BY <2>1, RequestsAssumption, FS_Subset
  <2> QED  BY <2>2, FS_CardinalityType
<1>2. (p[r] \in S <=> to \in S) => At(q, S) = At(p, S)
  BY DEF At
<1>3. ASSUME p[r] \notin S, to \in S
      PROVE  Cardinality(At(q, S)) = Cardinality(At(p, S)) + 1
  <2>1. At(q, S) = At(p, S) \cup {r}  BY <1>3 DEF At
  <2>2. r \notin At(p, S)  BY <1>3 DEF At
  <2> QED  BY <1>1, <2>1, <2>2, FS_AddElement
<1>4. ASSUME p[r] \in S, to \notin S
      PROVE  Cardinality(At(q, S)) = Cardinality(At(p, S)) - 1
  <2>1. At(q, S) = At(p, S) \ {r}  BY <1>4 DEF At
  <2>2. r \in At(p, S)  BY <1>4 DEF At
  <2> QED  BY <1>1, <2>1, <2>2, FS_RemoveElement
<1> QED  BY <1>1, <1>2, <1>3, <1>4

-----------------------------------------------------------------------------
\* The type invariant.

\* A reporter that New has just built is well typed.
LEMMA InitTypeOK == Init => TypeOK
<1> SUFFICES ASSUME Init PROVE TypeOK
  OBVIOUS
<1>1. AdmissionTypeOK  BY AdmissionStarts DEF Init
<1>2. pc \in [Requests -> PCs] /\ outcome \in [Requests -> Outcomes]
  BY DEF Init, PCs, Outcomes
<1>3. counts \in [Requests -> [Counters -> Nat]]
  BY DEF Init, Counters, NoCounts
<1>4. active \in Int  BY DEF Init
<1>5. cancelled \in BOOLEAN  BY Zenon DEF Init
<1> QED  BY <1>1, <1>2, <1>3, <1>4, <1>5 DEF TypeOK

\* Every step of the reporter preserves the types.
LEMMA NextTypeOK == TypeOK /\ [Next]_vars => TypeOK'
<1> SUFFICES ASSUME TypeOK, [Next]_vars PROVE TypeOK'
  OBVIOUS
<1> USE DEF TypeOK, Counters, PCs, Answering, RunningStates, Returned, Rejections, Goto
<1>1. ASSUME NEW r \in Requests, EnterTryReport(r) PROVE TypeOK'
  BY <1>1 DEF EnterTryReport, Reject, Count, admissionVars, AdmissionTypeOK
<1>2. ASSUME NEW r \in Requests, Acquire(r) PROVE TypeOK'
  BY <1>2, AdmissionTypes DEF Acquire, AdmissionTypeOK
<1>3. ASSUME NEW r \in Requests, AcquireFails(r) PROVE TypeOK'
  BY <1>3 DEF AcquireFails, admissionVars, AdmissionTypeOK
<1>4. ASSUME NEW r \in Requests, ClassifyFull(r) PROVE TypeOK'
  BY <1>4 DEF ClassifyFull, Reject, Count, admissionVars, AdmissionTypeOK
<1>5. ASSUME NEW r \in Requests, Admit(r) PROVE TypeOK'
  BY <1>5 DEF Admit, admissionVars, AdmissionTypeOK
<1>6. ASSUME NEW r \in Requests, Withdraw(r) PROVE TypeOK'
  BY <1>6, AdmissionTypes DEF Withdraw, Reject, Count, AdmissionTypeOK
<1>7. ASSUME NEW r \in Requests, Start(r) PROVE TypeOK'
  BY <1>7 DEF Start, admissionVars, AdmissionTypeOK
<1>8. ASSUME NEW r \in Requests, SkipReport(r) \/ StartReport(r) PROVE TypeOK'
  BY <1>8 DEF SkipReport, StartReport, Outcomes, admissionVars, AdmissionTypeOK
<1>9. ASSUME NEW r \in Requests, ApiReturns(r) PROVE TypeOK'
  BY <1>9 DEF ApiReturns, ReportOutcomes, Outcomes, Count, admissionVars, AdmissionTypeOK
<1>10. ASSUME NEW r \in Requests, ReportingFinished(r) PROVE TypeOK'
  BY <1>10 DEF ReportingFinished, admissionVars, AdmissionTypeOK
<1>11. ASSUME NEW r \in Requests, ReleasePermit(r) PROVE TypeOK'
  BY <1>11, AdmissionTypes DEF ReleasePermit, AdmissionTypeOK
<1>12. ASSUME NEW r \in Requests, RecordPanic(r) PROVE TypeOK'
  BY <1>12 DEF RecordPanic, Outcomes, Count, admissionVars, AdmissionTypeOK
<1>13. ASSUME NEW r \in Requests, NextCall(r) PROVE TypeOK'
  BY <1>13 DEF NextCall, Counters, NoCounts, Outcomes, admissionVars, AdmissionTypeOK
<1>14. ASSUME NEW s \in Shutdowns, ShutdownStep(s) PROVE TypeOK'
  BY <1>14, AdmissionTypes
  DEF ShutdownMove, ShutdownStep, BeginShutdown, ShutdownReturnsNil, ShutdownReturnsErr, callVars
<1>15. ASSUME DrainStep PROVE TypeOK'
  BY <1>15, AdmissionTypes DEF DrainStep, callVars
<1>16. ASSUME UNCHANGED vars PROVE TypeOK'
  BY <1>16 DEF vars, callVars, admissionVars, AdmissionTypeOK
<1> QED
  BY <1>1, <1>2, <1>3, <1>4, <1>5, <1>6, <1>7, <1>8, <1>9, <1>10, <1>11, <1>12,
     <1>13, <1>14, <1>15, <1>16 DEF Next, CallerStep, JobStep

\* Every reachable state of the reporter is well typed.
THEOREM TypeCorrect == Spec => []TypeOK
BY InitTypeOK, NextTypeOK, PTL DEF Spec

-----------------------------------------------------------------------------
\* The permits and the gauge.

\* What a move of one slot does to the number of permit holders and to the
\* number of reports under the gauge.
LEMMA StageCounts ==
  ASSUME TypeOK, NEW r \in Requests, NEW from, NEW to \in PCs, Goto(r, from, to)
  PROVE  LET h == Cardinality(Holders)
             c == Cardinality(Counted) IN
         /\ h \in Nat /\ c \in Nat
         /\ (from \in HolderStates <=> to \in HolderStates) => h' = h
         /\ from \notin HolderStates /\ to \in HolderStates => h' = h + 1
         /\ from \in HolderStates /\ to \notin HolderStates => h' = h - 1
         /\ (from \in CountedStates <=> to \in CountedStates) => c' = c
         /\ from \notin CountedStates /\ to \in CountedStates => c' = c + 1
         /\ from \in CountedStates /\ to \notin CountedStates => c' = c - 1
<1>1. pc \in [Requests -> PCs] /\ pc[r] = from /\ pc' = [pc EXCEPT ![r] = to]
  BY DEF TypeOK, Goto
<1>2. /\ Holders = At(pc, HolderStates) /\ Holders' = At(pc', HolderStates)
      /\ Counted = At(pc, CountedStates) /\ Counted' = At(pc', CountedStates)
  BY DEF Holders, Counted, In, At, HolderStates, CountedStates, RunningStates
<1> QED  BY <1>1, <1>2, MoveOne

\* Permits and gauge together: what every step must keep.
Accounting == PermitAccounting /\ active = Cardinality(Counted)

\* Every step of TryReport, run and Shutdown keeps permits and gauge in step
\* with the stages of the slots.
LEMMA NextAccounting == TypeOK /\ Accounting /\ [Next]_vars => Accounting'
<1> SUFFICES ASSUME TypeOK, Accounting, [Next]_vars PROVE Accounting'
  OBVIOUS
<1> USE DEF Accounting, PermitAccounting
<1>0. permits \in Int /\ taken \in Int /\ active \in Int
  BY CapacityAssumption DEF TypeOK, AdmissionTypeOK
<1>S. /\ {"atCapacity", "shuttingDown", "recovering", "done", "idle", "checked", "full"}
           \subseteq PCs \ (HolderStates \cup CountedStates)
      /\ {"acquired", "admitted", "releasing"} \subseteq (PCs \cap HolderStates) \ CountedStates
      /\ {"spawned", "calling", "finishing"} \subseteq PCs \cap HolderStates \cap CountedStates
  BY DEF PCs, HolderStates, RunningStates, CountedStates, Answering, Returned, Rejections
<1>1. ASSUME NEW r \in Requests, EnterTryReport(r) PROVE Accounting'
  <2>1. Goto(r, "idle", "checked") \/ Goto(r, "idle", "shuttingDown")
    BY <1>1 DEF EnterTryReport, Reject
  <2> QED  BY <1>1, <2>1, <1>0, <1>S, StageCounts DEF EnterTryReport, admissionVars
<1>2. ASSUME NEW r \in Requests, Acquire(r) PROVE Accounting'
  BY <1>2, <1>0, <1>S, StageCounts DEF Acquire, TryAcquire
<1>3. ASSUME NEW r \in Requests, AcquireFails(r) PROVE Accounting'
  BY <1>3, <1>0, <1>S, StageCounts DEF AcquireFails, admissionVars
<1>4. ASSUME NEW r \in Requests, ClassifyFull(r) PROVE Accounting'
  <2>1. Goto(r, "full", "shuttingDown") \/ Goto(r, "full", "atCapacity")
    BY <1>4 DEF ClassifyFull, Reject
  <2> QED  BY <1>4, <2>1, <1>0, <1>S, StageCounts DEF ClassifyFull, admissionVars
<1>5. ASSUME NEW r \in Requests, Admit(r) PROVE Accounting'
  BY <1>5, <1>0, <1>S, StageCounts DEF Admit, admissionVars
<1>6. ASSUME NEW r \in Requests, Withdraw(r) PROVE Accounting'
  BY <1>6, <1>0, <1>S, StageCounts DEF Withdraw, Release, Reject
<1>7. ASSUME NEW r \in Requests, Start(r) PROVE Accounting'
  BY <1>7, <1>0, <1>S, StageCounts DEF Start, admissionVars
<1>8. ASSUME NEW r \in Requests, SkipReport(r) \/ StartReport(r) PROVE Accounting'
  <2>1. Goto(r, "spawned", "finishing") \/ Goto(r, "spawned", "calling")
    BY <1>8 DEF SkipReport, StartReport
  <2> QED  BY <1>8, <2>1, <1>0, <1>S, StageCounts DEF SkipReport, StartReport, admissionVars
<1>9. ASSUME NEW r \in Requests, ApiReturns(r) PROVE Accounting'
  <2>1. Goto(r, "calling", "finishing") /\ UNCHANGED <<admissionVars, active>>
    BY <1>9 DEF ApiReturns
  <2> QED  BY <2>1, <1>0, <1>S, StageCounts DEF admissionVars
<1>10. ASSUME NEW r \in Requests, ReportingFinished(r) PROVE Accounting'
  BY <1>10, <1>0, <1>S, StageCounts DEF ReportingFinished, admissionVars
<1>11. ASSUME NEW r \in Requests, ReleasePermit(r) PROVE Accounting'
  <2>1. Goto(r, "releasing", "recovering") \/ Goto(r, "releasing", "done")
    BY <1>11 DEF ReleasePermit
  <2> QED  BY <1>11, <2>1, <1>0, <1>S, StageCounts DEF ReleasePermit, Release
<1>12. ASSUME NEW r \in Requests, RecordPanic(r) PROVE Accounting'
  BY <1>12, <1>0, <1>S, StageCounts DEF RecordPanic, admissionVars
<1>13. ASSUME NEW r \in Requests, NextCall(r) PROVE Accounting'
  <2>1. Goto(r, pc[r], "idle") /\ pc[r] \in {"done", "atCapacity", "shuttingDown"}
    BY <1>13 DEF NextCall, Goto, Rejections
  <2> QED  BY <1>13, <2>1, <1>0, <1>S, StageCounts DEF NextCall, admissionVars
<1>14. ASSUME UNCHANGED <<pc, active>>, permits' - taken' = permits - taken,
              permits' \in Int, taken' \in Int
       PROVE  Accounting'
  <2>1. Holders' = Holders /\ Counted' = Counted
    BY <1>14 DEF Holders, Counted, In
  <2>2. Cardinality(Holders) = permits - taken
    <3>1. Holders \in SUBSET Requests  BY DEF Holders, In
    <3>2. Cardinality(Holders) \in Int
      BY <3>1, RequestsAssumption, FS_Subset, FS_CardinalityType
    <3> QED  BY <3>2, <1>0
  <2>3. permits' = Cardinality(Holders) + taken'  BY <2>2, <1>0, <1>14
  <2> QED  BY <2>1, <2>3, <1>14
<1>15. ASSUME NEW s \in Shutdowns, ShutdownStep(s) PROVE Accounting'
  <2>1. UNCHANGED <<pc, active, permits, taken>>
    BY <1>15, AdmissionFrame DEF TypeOK, ShutdownMove, ShutdownStep, BeginShutdown,
       ShutdownReturnsNil, ShutdownReturnsErr, callVars
  <2> QED  BY <2>1, <1>14, <1>0
<1>16. ASSUME DrainStep PROVE Accounting'
  BY <1>16, <1>14, AdmissionFrame DEF TypeOK, DrainStep, callVars
<1>17. ASSUME UNCHANGED vars PROVE Accounting'
  BY <1>17, <1>14, <1>0 DEF vars, callVars, admissionVars
<1> QED
  BY <1>1, <1>2, <1>3, <1>4, <1>5, <1>6, <1>7, <1>8, <1>9, <1>10, <1>11, <1>12,
     <1>13, <1>15, <1>16, <1>17 DEF Next, CallerStep, JobStep

-----------------------------------------------------------------------------
\* The order of the stores in Shutdown.

Cancellation == cancelled => \E s \in Shutdowns : shut[s] \in {"nil", "expired"}

\* No step of a report touches the state of Shutdown; the steps of Shutdown
\* and Drain keep it ordered.
LEMMA NextShutdownOrder ==
  TypeOK /\ ShutdownOrder /\ Cancellation /\ [Next]_vars => ShutdownOrder' /\ Cancellation'
<1> SUFFICES ASSUME TypeOK, ShutdownOrder, Cancellation, [Next]_vars
             PROVE  ShutdownOrder' /\ Cancellation'
  OBVIOUS
<1>0. AdmissionTypeOK /\ shut \in [Shutdowns -> ShutStates]
  BY DEF TypeOK, AdmissionTypeOK
<1>1. ASSUME UNCHANGED <<taken, closing, drain, shut, cancelled>>
      PROVE  ShutdownOrder' /\ Cancellation'
  BY <1>0, <1>1, OrderKept DEF Cancellation
<1>2. ASSUME NEW r \in Requests, EnterTryReport(r) \/ CallerStep(r) \/ JobStep(r) \/ NextCall(r)
      PROVE  UNCHANGED <<taken, closing, drain, shut, cancelled>>
  BY <1>2 DEF EnterTryReport, CallerStep, Acquire, AcquireFails, ClassifyFull, Admit,
     Withdraw, Start, JobStep, SkipReport, StartReport, ApiReturns, ReportingFinished,
     ReleasePermit, RecordPanic, NextCall, admissionVars
<1>3. ASSUME NEW s \in Shutdowns, ShutdownStep(s)
      PROVE  ShutdownOrder' /\ Cancellation'
  <2>1. ShutdownMove(s)
    BY <1>3 DEF ShutdownStep, BeginShutdown, ShutdownReturnsNil, ShutdownReturnsErr, ShutdownMove
  <2>2. ShutdownOrder'  BY <1>0, <2>1, OrderKept
  <2>3. Cancellation'
    BY <1>0, <1>3 DEF Cancellation, ShutdownStep, BeginShutdown, ShutdownReturnsNil,
       ShutdownReturnsErr, ShutdownStore, ShutdownOnce, ShutdownDrained, ShutdownExpired, callVars
  <2> QED  BY <2>2, <2>3
<1>4. ASSUME DrainStep PROVE ShutdownOrder' /\ Cancellation'
  BY <1>0, <1>4, OrderKept DEF Cancellation, DrainStep, DrainOne, CloseDrained, callVars
<1>5. ASSUME UNCHANGED vars PROVE ShutdownOrder' /\ Cancellation'
  BY <1>1, <1>5 DEF vars, callVars, admissionVars
<1> QED  BY <1>1, <1>2, <1>3, <1>4, <1>5 DEF Next

-----------------------------------------------------------------------------
\* The counters.

Settled == SettledSoFar /\ SettledOnce

\* What Count does to a slot that has counted nothing, and to any slot.
LEMMA CountEffect ==
  ASSUME counts \in [Requests -> [Counters -> Nat]], NEW r \in Requests,
         NEW metric \in Counters, Count(r, metric)
  PROVE  /\ counts[r] = NoCounts => counts'[r] = One(metric)
         /\ \A m \in Counters :
              counts'[r][m] = IF m = metric THEN counts[r][m] + 1 ELSE counts[r][m]
         /\ \A x \in Requests \ {r} : counts'[x] = counts[x]
<1> DEFINE c == counts[r]
<1>1. counts' = [counts EXCEPT ![r] = [c EXCEPT ![metric] = c[metric] + 1]]
  BY DEF Count
<1>2. c \in [Counters -> Nat]  OBVIOUS
<1>3. \A x \in Requests \ {r} : counts'[x] = counts[x]  BY <1>1
<1>4. counts'[r] = [c EXCEPT ![metric] = c[metric] + 1]  BY <1>1
<1>5. \A m \in Counters : counts'[r][m] = IF m = metric THEN c[m] + 1 ELSE c[m]
  BY <1>2, <1>4
<1>6. ASSUME c = NoCounts PROVE counts'[r] = One(metric)
  BY <1>2, <1>4, <1>6 DEF NoCounts, One
<1> QED  BY <1>3, <1>5, <1>6

\* The values of the counters that have counted at most one event.
LEMMA CounterValues ==
  /\ \A m \in Counters : NoCounts[m] = 0 /\ One(m)[m] = 1
  /\ \A m, n \in Counters : m # n => One(m)[n] = 0
  /\ {"reported", "errors", "rejected"} = Counters
BY DEF NoCounts, One, Counters

\* Every step leaves the counters of every slot as its stage demands.
LEMMA NextSettled == TypeOK /\ Settled /\ [Next]_vars => Settled'
<1> SUFFICES ASSUME TypeOK, Settled, [Next]_vars PROVE Settled'
  OBVIOUS
<1> USE DEF Settled, SettledSoFar, SettledOnce, Answering, Rejections, Goto
<1>0. /\ pc \in [Requests -> PCs] /\ outcome \in [Requests -> Outcomes]
      /\ counts \in [Requests -> [Counters -> Nat]]
      /\ "reported" \in Counters /\ "errors" \in Counters /\ "rejected" \in Counters
  BY CounterValues DEF TypeOK
<1>R. ASSUME NEW r \in Requests, NEW from \in {"idle", "full", "acquired"},
             NEW res \in Rejections, Reject(r, from, res), UNCHANGED outcome
      PROVE  Settled'
  BY <1>0, <1>R, CountEffect DEF Reject
<1>1. ASSUME NEW r \in Requests, EnterTryReport(r) PROVE Settled'
  BY <1>0, <1>1, <1>R DEF EnterTryReport
<1>2. ASSUME NEW r \in Requests, Acquire(r) \/ AcquireFails(r) PROVE Settled'
  BY <1>0, <1>2 DEF Acquire, AcquireFails
<1>3. ASSUME NEW r \in Requests, ClassifyFull(r) PROVE Settled'
  BY <1>3, <1>R DEF ClassifyFull
<1>4. ASSUME NEW r \in Requests, Admit(r) \/ Start(r) PROVE Settled'
  BY <1>0, <1>4 DEF Admit, Start
<1>5. ASSUME NEW r \in Requests, Withdraw(r) PROVE Settled'
  BY <1>5, <1>R DEF Withdraw
<1>6. ASSUME NEW r \in Requests, SkipReport(r) \/ StartReport(r) PROVE Settled'
  BY <1>0, <1>6 DEF SkipReport, StartReport
<1>7. ASSUME NEW r \in Requests, ApiReturns(r) PROVE Settled'
  BY <1>0, <1>7, CountEffect DEF ApiReturns, ReportOutcomes, Panics
<1>8. ASSUME NEW r \in Requests, ReportingFinished(r) PROVE Settled'
  BY <1>0, <1>8 DEF ReportingFinished
<1>9. ASSUME NEW r \in Requests, ReleasePermit(r) PROVE Settled'
  BY <1>0, <1>9, CounterValues DEF ReleasePermit, Panics
<1>10. ASSUME NEW r \in Requests, RecordPanic(r) PROVE Settled'
  <2>1. pc[r] = "recovering" /\ pc' = [pc EXCEPT ![r] = "done"]
    BY <1>10 DEF RecordPanic
  <2>2. outcome[r] \in Panics /\ counts[r]["rejected"] = 0 /\ counts[r]["errors"] \in Nat
    BY <1>0, <2>1, CounterValues DEF Panics
  <2>3. CASE Count(r, "errors") /\ UNCHANGED outcome
    <3>1. /\ \A m \in Counters :
               counts'[r][m] = IF m = "errors" THEN counts[r][m] + 1 ELSE counts[r][m]
          /\ \A x \in Requests \ {r} : counts'[x] = counts[x]
      BY <1>0, <2>3, CountEffect
    <3>2. counts'[r]["errors"] > 0 /\ counts'[r]["rejected"] = 0
      BY <1>0, <2>2, <3>1
    <3> QED  BY <1>0, <2>1, <2>2, <2>3, <3>1, <3>2
  <2>4. CASE outcome' = [outcome EXCEPT ![r] = "uncounted"] /\ UNCHANGED counts
    <3>1. counts[r] \in {NoCounts, One("reported"), One("errors")}  BY <2>1
    <3> QED  BY <1>0, <2>1, <2>4, <3>1
  <2> QED  BY <1>10, <2>3, <2>4 DEF RecordPanic
<1>11. ASSUME NEW r \in Requests, NextCall(r) PROVE Settled'
  BY <1>0, <1>11 DEF NextCall
<1>12. ASSUME UNCHANGED <<pc, outcome, counts>> PROVE Settled'
  BY <1>12
<1>13. ASSUME NEW s \in Shutdowns, ShutdownStep(s) PROVE Settled'
  BY <1>12, <1>13 DEF ShutdownStep, BeginShutdown, ShutdownReturnsNil, ShutdownReturnsErr, callVars
<1>14. ASSUME DrainStep \/ UNCHANGED vars PROVE Settled'
  BY <1>12, <1>14 DEF DrainStep, vars, callVars
<1> QED
  BY <1>1, <1>2, <1>3, <1>4, <1>5, <1>6, <1>7, <1>8, <1>9, <1>10, <1>11, <1>13, <1>14
  DEF Next, CallerStep, JobStep

-----------------------------------------------------------------------------
\* The inductive invariant.

\* The inductive invariant holds of a reporter that New has just built ...
LEMMA InitInv == Init => ReporterInv
<1> SUFFICES ASSUME Init PROVE ReporterInv
  OBVIOUS
<1>1. Holders = {} /\ Counted = {}
  BY DEF Init, Holders, Counted, In, HolderStates, RunningStates, CountedStates
<1>2. PermitAccounting /\ active = Cardinality(Counted)
  BY <1>1, FS_EmptySet DEF Init, AdmissionInit, PermitAccounting
<1>3. ShutdownOrder  BY AdmissionStarts DEF Init
<1>4. cancelled => \E s \in Shutdowns : shut[s] \in {"nil", "expired"}
  BY DEF Init
<1>5. SettledSoFar /\ SettledOnce
  BY DEF Init, SettledSoFar, SettledOnce, Rejections
<1> QED  BY InitTypeOK, <1>2, <1>3, <1>4, <1>5 DEF ReporterInv

\* ... and every step of TryReport, run, Drain and Shutdown preserves it.
LEMMA NextInv == ReporterInv /\ [Next]_vars => ReporterInv'
BY NextTypeOK, NextAccounting, NextShutdownOrder, NextSettled
DEF ReporterInv, Accounting, Cancellation, Settled

\* The invariant holds in every reachable state, for every capacity and every
\* finite set of overlapping calls.
THEOREM InvCorrect == Spec => []ReporterInv
BY InitInv, NextInv, PTL DEF Spec

-----------------------------------------------------------------------------
\* What the invariant gives.

\* The limiter bounds the permit holders.
HoldersBounded ==
  /\ IsFiniteSet(Holders)
  /\ Cardinality(Holders) \in Nat
  /\ Cardinality(Holders) + taken <= MaxConcurrentCalls
  /\ Running \subseteq Holders /\ Counted \subseteq Holders

\* Permit holders and the permits of Drain never exceed the channel capacity.
LEMMA HolderBound == ReporterInv => HoldersBounded
<1> SUFFICES ASSUME ReporterInv PROVE HoldersBounded
  OBVIOUS
<1>1. IsFiniteSet(Holders)
  <2>1. Holders \in SUBSET Requests  BY DEF Holders, In
  <2> QED  BY <2>1, RequestsAssumption, FS_Subset
<1>2. Cardinality(Holders) \in Nat  BY <1>1, FS_CardinalityType
<1>3. Cardinality(Holders) + taken <= MaxConcurrentCalls
  BY <1>2, CapacityAssumption DEF ReporterInv, PermitAccounting, TypeOK, AdmissionTypeOK
<1>4. Running \subseteq Holders /\ Counted \subseteq Holders
  BY DEF Running, Counted, Holders, In, HolderStates, CountedStates, RunningStates
<1> QED  BY <1>1, <1>2, <1>3, <1>4 DEF HoldersBounded

\* Once Drain has closed drained, nobody holds a permit.
NobodyLeft == drain = "drained" => Holders = {} /\ Running = {}

\* Once Drain owns every permit, no slot of TryReport or run holds one.
LEMMA DrainedEmpty == ReporterInv => NobodyLeft
<1> SUFFICES ASSUME ReporterInv, drain = "drained" PROVE Holders = {} /\ Running = {}
  BY DEF NobodyLeft
<1>1. taken = MaxConcurrentCalls  BY DEF ReporterInv, ShutdownOrder
<1>2. Cardinality(Holders) = 0
  BY <1>1, HolderBound, CapacityAssumption DEF HoldersBounded
<1> QED  BY <1>2, HolderBound, FS_EmptySet DEF HoldersBounded

\* No permit is lost or doubled on any path of TryReport, run and Shutdown.
THEOREM PermitsAccounted == Spec => []PermitAccounting
BY InvCorrect, PTL DEF ReporterInv

\* The in-flight gauge stays between 0 and MaxConcurrentCalls.
THEOREM GaugeBounded == Spec => []GaugeWithinCapacity
<1>1. ReporterInv => GaugeWithinCapacity
  <2> SUFFICES ASSUME ReporterInv PROVE GaugeWithinCapacity
    OBVIOUS
  <2>1. Cardinality(Counted) \in Nat /\ Cardinality(Counted) <= Cardinality(Holders)
    <3>1. IsFiniteSet(Counted) /\ Cardinality(Counted) <= Cardinality(Holders)
      BY HolderBound, FS_Subset DEF HoldersBounded
    <3> QED  BY <3>1, FS_CardinalityType
  <2>2. taken \in Nat  BY CapacityAssumption DEF ReporterInv, TypeOK, AdmissionTypeOK
  <2>3. active = Cardinality(Counted)  BY DEF ReporterInv
  <2> QED  BY <2>1, <2>2, <2>3, HolderBound, CapacityAssumption
           DEF GaugeWithinCapacity, HoldersBounded
<1> QED  BY <1>1, InvCorrect, PTL

\* A nil answer of Shutdown means that no accepted report is left running.
THEOREM NilMeansDrained == Spec => []DrainedQuiescent
<1>1. ReporterInv => DrainedQuiescent
  BY DrainedEmpty DEF NobodyLeft, DrainedQuiescent, ReporterInv, ShutdownOrder
<1> QED  BY <1>1, InvCorrect, PTL

\* Draining does not cancel: a running report is cancelled only after the ctx
\* of a Shutdown caller has expired.
THEOREM DrainCancelsNothing == Spec => []DrainBeforeCancel
<1>1. ReporterInv => DrainBeforeCancel
  BY DrainedEmpty DEF NobodyLeft, DrainBeforeCancel, ReporterInv, ShutdownOrder
<1> QED  BY <1>1, InvCorrect, PTL

\* Every settled call is counted as it ended.
THEOREM CallsSettledOnce == Spec => []SettledOnce
BY InvCorrect, PTL DEF ReporterInv

\* ReportAtCapacity is never an artefact of Drain.
THEOREM CapacityRejectGenuine == Spec => CapacityRejectIsGenuine
<1> DEFINE Step == \A r \in Requests : pc[r] = "full" /\ pc'[r] = "atCapacity" => taken = 0
<1>1. ReporterInv /\ [Next]_vars => Step
  <2> SUFFICES ASSUME ReporterInv, [Next]_vars, NEW r \in Requests,
                      pc[r] = "full", pc'[r] = "atCapacity"
               PROVE  taken = 0
    OBVIOUS
  <2>0. pc \in [Requests -> PCs] /\ taken \in Nat
    BY CapacityAssumption DEF ReporterInv, TypeOK, AdmissionTypeOK
  <2>1. ClassifyFull(r)
    BY <2>0 DEF Next, vars, callVars, EnterTryReport, CallerStep, Acquire, AcquireFails,
       ClassifyFull, Admit, Withdraw, Start, JobStep, SkipReport, StartReport, ApiReturns,
       ReportingFinished, ReleasePermit, RecordPanic, NextCall, ShutdownStep, BeginShutdown,
       ShutdownReturnsNil, ShutdownReturnsErr, DrainStep, Goto, Reject, Rejections
  <2>2. ~closing  BY <2>0, <2>1 DEF ClassifyFull, Reject, Goto
  <2> QED  BY <2>0, <2>2 DEF ReporterInv, ShutdownOrder
<1>2. ReporterInv /\ [Next]_vars => [Step]_vars  BY <1>1
<1> QED  BY <1>2, InvCorrect, PTL DEF Spec, CapacityRejectIsGenuine

-----------------------------------------------------------------------------
\* The reporter implements the abstract pool.

\* A step that moves no slot in or out of the running stages and leaves Phase
\* alone is a stutter of the pool.
LEMMA MoveRunning ==
  ASSUME TypeOK, NEW r \in Requests, NEW from, NEW to \in PCs, Goto(r, from, to)
  PROVE  /\ (from \in RunningStates <=> to \in RunningStates) => Running' = Running
         /\ from \notin RunningStates /\ to \in RunningStates =>
              r \notin Running /\ Running' = Running \cup {r}
         /\ from \in RunningStates /\ to \notin RunningStates =>
              r \in Running /\ Running' = Running \ {r}
BY DEF TypeOK, Goto, Running, In

\* Accepting a report is an admission of the open pool, ending one a completion,
\* the store of closing its closing, and close(drained) its drained step.
THEOREM ReporterImplementsPool == Spec => ImplementsPool
<1> DEFINE PStep == [Pool!PoolNext]_(Pool!poolVars)
<1>1. Init => Pool!PoolInit
  BY DEF Init, AdmissionInit, Pool!PoolInit, Phase, Running, In, RunningStates
<1>H. ReporterInv' => HoldersBounded' /\ NobodyLeft'
  BY HolderBound, DrainedEmpty, PTL
<1>C. Pool!Cardinality(Running) = Cardinality(Running)
  BY Zenon DEF Pool!Cardinality, Cardinality
<1>2. ReporterInv /\ ReporterInv' /\ [Next]_vars => PStep
  <2> SUFFICES ASSUME ReporterInv, ReporterInv', [Next]_vars PROVE PStep
    OBVIOUS
  <2>0. TypeOK /\ pc \in [Requests -> PCs]  BY DEF ReporterInv, TypeOK
  <2>S. /\ {"atCapacity", "shuttingDown", "recovering", "done", "idle", "checked", "full",
             "acquired"} \subseteq PCs \ RunningStates
        /\ RunningStates = {"admitted", "spawned", "calling", "finishing", "releasing"}
        /\ RunningStates \subseteq PCs
    BY DEF PCs, RunningStates, Answering, Returned, Rejections
  <2>U. ASSUME UNCHANGED <<closing, drain>>, Running' = Running PROVE PStep
    BY <2>U DEF Pool!poolVars, Phase
  <2>1. ASSUME NEW r \in Requests, EnterTryReport(r) PROVE PStep
    BY <2>0, <2>S, <2>U, <2>1, MoveRunning DEF EnterTryReport, Reject, admissionVars
  <2>2. ASSUME NEW r \in Requests, Acquire(r) \/ AcquireFails(r) PROVE PStep
    BY <2>0, <2>S, <2>U, <2>2, MoveRunning DEF Acquire, AcquireFails, admissionVars
  <2>3. ASSUME NEW r \in Requests, ClassifyFull(r) \/ Withdraw(r) PROVE PStep
    <3>1. \/ Goto(r, "full", "shuttingDown") \/ Goto(r, "full", "atCapacity")
          \/ Goto(r, "acquired", "shuttingDown")
      BY <2>3 DEF ClassifyFull, Withdraw, Reject
    <3> QED
      BY <2>0, <2>S, <2>U, <2>3, <3>1, MoveRunning DEF ClassifyFull, Withdraw, admissionVars
  <2>4. ASSUME NEW r \in Requests, Admit(r) PROVE PStep
    <3>1. r \notin Running /\ Running' = Running \cup {r}
      BY <2>0, <2>S, <2>4, MoveRunning DEF Admit
    <3>2. Phase = "open" /\ Phase' = Phase
      BY <2>4 DEF Admit, admissionVars, Phase, ReporterInv, ShutdownOrder
    <3>3. Cardinality(Running) < MaxConcurrentCalls
      <4>1. IsFiniteSet(Holders') /\ Running' \subseteq Holders'
            /\ Cardinality(Holders') \in Nat
            /\ Cardinality(Holders') + taken' <= MaxConcurrentCalls
        BY <1>H DEF HoldersBounded
      <4>2. IsFiniteSet(Running') /\ Cardinality(Running') <= Cardinality(Holders')
        BY <4>1, FS_Subset
      <4>3. IsFiniteSet(Running) /\ Cardinality(Running) \in Nat
        BY HolderBound, FS_Subset, FS_CardinalityType DEF HoldersBounded
      <4>4. Cardinality(Running') = Cardinality(Running) + 1
        BY <3>1, <4>3, FS_AddElement
      <4>5. taken' \in Nat
        BY CapacityAssumption DEF ReporterInv, TypeOK, AdmissionTypeOK
      <4> QED  BY <4>1, <4>2, <4>3, <4>4, <4>5, CapacityAssumption
    <3>4. Pool!PoolAdmit(r)  BY <1>C, <3>1, <3>2, <3>3 DEF Pool!PoolAdmit
    <3> QED  BY <3>4 DEF Pool!PoolNext
  <2>5. ASSUME NEW r \in Requests, Start(r) \/ SkipReport(r) \/ StartReport(r)
                                     \/ ReportingFinished(r)
        PROVE  PStep
    BY <2>0, <2>S, <2>U, <2>5, MoveRunning
    DEF Start, SkipReport, StartReport, ReportingFinished, admissionVars
  <2>6. ASSUME NEW r \in Requests, ApiReturns(r) PROVE PStep
    <3>1. Goto(r, "calling", "finishing") /\ UNCHANGED admissionVars
      BY <2>6 DEF ApiReturns
    <3> QED  BY <2>0, <2>S, <2>U, <3>1, MoveRunning DEF admissionVars
  <2>7. ASSUME NEW r \in Requests, ReleasePermit(r) PROVE PStep
    <3>1. Goto(r, "releasing", "recovering") \/ Goto(r, "releasing", "done")
      BY <2>7 DEF ReleasePermit
    <3>2. r \in Running /\ Running' = Running \ {r}
      BY <2>0, <2>S, <3>1, MoveRunning
    <3>3. Pool!PoolFinish(r)
      BY <2>7, <3>2 DEF Pool!PoolFinish, ReleasePermit, Phase
    <3> QED  BY <3>3 DEF Pool!PoolNext
  <2>8. ASSUME NEW r \in Requests, RecordPanic(r) PROVE PStep
    BY <2>0, <2>S, <2>U, <2>8, MoveRunning DEF RecordPanic, admissionVars
  <2>9. ASSUME NEW r \in Requests, NextCall(r) PROVE PStep
    <3>1. Goto(r, pc[r], "idle") /\ pc[r] \in {"done", "atCapacity", "shuttingDown"}
      BY <2>9 DEF NextCall, Goto, Rejections
    <3> QED  BY <2>0, <2>S, <2>U, <2>9, <3>1, MoveRunning DEF NextCall, admissionVars
  <2>10. ASSUME UNCHANGED pc PROVE Running' = Running
    BY <2>10 DEF Running, In
  <2>11. ASSUME NEW s \in Shutdowns, BeginShutdown(s) PROVE PStep
    <3>1. Running' = Running  BY <2>10, <2>11 DEF BeginShutdown, callVars
    <3>2. \/ Phase' = Phase
          \/ Phase = "open" /\ Phase' = "closing"
      BY <2>11 DEF BeginShutdown, ShutdownStore, ShutdownOnce, Phase, ReporterInv, ShutdownOrder
    <3> QED  BY <3>1, <3>2 DEF Pool!PoolNext, Pool!PoolClose, Pool!poolVars
  <2>12. ASSUME NEW s \in Shutdowns, ShutdownReturnsNil(s) \/ ShutdownReturnsErr(s)
         PROVE  PStep
    BY <2>10, <2>12, <2>U
    DEF ShutdownReturnsNil, ShutdownReturnsErr, ShutdownDrained, ShutdownExpired
  <2>13. ASSUME DrainStep PROVE PStep
    <3>1. Running' = Running  BY <2>10, <2>13 DEF DrainStep, callVars
    <3>2. CASE DrainOne  BY <2>U, <3>1, <3>2 DEF DrainOne
    <3>3. CASE CloseDrained
      <4>1. Running' = {} /\ drain' = "drained" /\ drain = "draining"
        BY <3>3, <1>H DEF CloseDrained, NobodyLeft
      <4>2. Phase = "closing" /\ Phase' = "drained"
        BY <4>1 DEF Phase, ReporterInv, ShutdownOrder
      <4>3. Pool!PoolDrained  BY <3>1, <4>1, <4>2 DEF Pool!PoolDrained
      <4> QED  BY <4>3 DEF Pool!PoolNext
    <3> QED  BY <2>13, <3>2, <3>3 DEF DrainStep
  <2>14. ASSUME UNCHANGED vars PROVE PStep
    BY <2>10, <2>14, <2>U DEF vars, callVars, admissionVars
  <2> QED
    BY <2>1, <2>2, <2>3, <2>4, <2>5, <2>6, <2>7, <2>8, <2>9, <2>11, <2>12, <2>13, <2>14
    DEF Next, CallerStep, JobStep, ShutdownStep
<1> QED  BY <1>1, <1>2, InvCorrect, PTL DEF Spec, ImplementsPool, Pool!PoolSafety

=============================================================================
