--------------------------- MODULE AccountProofs ---------------------------
(***************************************************************************)
(* Proofs about the configuration of the Prebid module, for any number of  *)
(* concurrent hook invocations.  OverlayIsolated and ResolvedHasPlan do    *)
(* not hold of every configuration; the theorems say of which they do.     *)
(***************************************************************************)
EXTENDS AccountConfig, TLAPS

\* No account can write through the module's WaitTimeout: it has none, or no
\* account configuration has a number in that place.
WaitKept == \A b \in Builts :
  b.wait = NoWait \/ \A ov \in Overlays : ov.wait \in {Absent, Null}

\* No account enables the cache of a module that was built without one.
CacheKept == \A b \in Builts :
  b.cacheEnabled \/ \A ov \in Overlays : ov.cacheEnabled \in {FALSE, Absent}

-----------------------------------------------------------------------------
\* The inductive invariant.

PlainConfig == [timeout : Int, wait : Int \cup {NoWait}, cacheEnabled : BOOLEAN, maxCalls : Int]
WorkConfig == [c : PlainConfig, shared : BOOLEAN]
RequestRecord == [timeout : Int, wait : Int \cup {NoWait}, cacheEnabled : BOOLEAN]

AccountTypeOK ==
  /\ built \in Builts /\ built \in PlainConfig
  /\ pc \in [Invocations -> {"idle", "validating", "resolved", "requested"}]
  /\ overlay \in [Invocations -> Overlays \cup {NoOverlay}]
  /\ config \in [Invocations -> WorkConfig]
  /\ request \in [Invocations -> RequestRecord]

\* The module's configuration is what Builder was given and validated.
ModuleKept == Valid(built) /\ cell = built.wait

\* The configuration an invocation is to work with.
Effective(ov) == IF Usable(ov) THEN Apply(built, ov) ELSE built

\* What an invocation knows at each point of its way.
InvocationOrder(h) ==
  /\ pc[h] = "idle" => overlay[h] = NoOverlay
  /\ pc[h] = "validating" =>
       overlay[h] \in Overlays /\ overlay[h].decodes /\ Current(h) = Apply(built, overlay[h])
  /\ pc[h] = "resolved" => Current(h) = Effective(overlay[h])
  /\ pc[h] = "requested" => request[h] = Wanted(overlay[h])

AccountInv == AccountTypeOK /\ ModuleKept /\ \A h \in Invocations : InvocationOrder(h)

-----------------------------------------------------------------------------
\* An overlay makes a configuration of a configuration.
LEMMA ApplyType ==
  ASSUME NEW c \in PlainConfig, NEW ov \in Overlays
  PROVE  Apply(c, ov) \in PlainConfig
<1>1. ov \in [decodes : BOOLEAN, timeout : Int \cup {Absent}, wait : Int \cup {Absent, Null},
              cacheEnabled : BOOLEAN \cup {Absent}, maxCalls : Int \cup {Absent}]
  BY OverlayAssumption
<1> QED  BY <1>1 DEF Apply, Override, PlainConfig

\* While nothing is written through the pointer, a copy of the module's
\* configuration is what Builder was given.
LEMMA CopyFacts ==
  ASSUME AccountInv
  PROVE  /\ ModuleConfig = built /\ Copy \in WorkConfig /\ Copy.c = built
         /\ [built EXCEPT !.wait = cell] = built
<1>1. built \in PlainConfig /\ cell = built.wait  BY DEF AccountInv, AccountTypeOK, ModuleKept
<1>2. [built EXCEPT !.wait = cell] = built  BY <1>1 DEF PlainConfig
<1> QED  BY <1>1, <1>2 DEF ModuleConfig, Copy, WorkConfig

\* A configuration read through its pointer.
Seen(w) == IF w.shared THEN [w.c EXCEPT !.wait = cell] ELSE w.c

\* What a copy of the module's configuration shows is what Builder was given.
LEMMA CopySeen ==
  ASSUME AccountInv
  PROVE  Seen(Copy) = built
BY CopyFacts DEF Seen

\* An invocation that a step does not touch stays in order.
LEMMA OthersKept ==
  ASSUME AccountInv, built' = built, cell' = cell, NEW h \in Invocations,
         pc'[h] = pc[h], overlay'[h] = overlay[h], config'[h] = config[h], request'[h] = request[h]
  PROVE  InvocationOrder(h)'
<1>1. InvocationOrder(h)  BY DEF AccountInv
<1> QED
  BY <1>1 DEF InvocationOrder, Current, Effective, Usable, Wanted

\* A step of one invocation that leaves the module's configuration alone, and
\* what must hold of the invocation after it.
LEMMA InvocationStep ==
  ASSUME AccountInv, built' = built, cell' = cell, NEW g \in Invocations,
         NEW p \in {"idle", "validating", "resolved", "requested"},
         NEW ov \in Overlays \cup {NoOverlay}, NEW w \in WorkConfig, NEW r \in RequestRecord,
         pc' = [pc EXCEPT ![g] = p], overlay' = [overlay EXCEPT ![g] = ov],
         config' = [config EXCEPT ![g] = w], request' = [request EXCEPT ![g] = r],
         p = "idle" => ov = NoOverlay,
         p = "validating" => ov \in Overlays /\ ov.decodes /\ Seen(w) = Apply(built, ov),
         p = "resolved" => Seen(w) = Effective(ov),
         p = "requested" => r = Wanted(ov)
  PROVE  AccountInv'
<1>1. AccountTypeOK  BY DEF AccountInv
<1>2. AccountTypeOK'  BY <1>1 DEF AccountTypeOK
<1>3. ModuleKept'
  <2>1. ModuleKept  BY DEF AccountInv
  <2> QED  BY <2>1 DEF ModuleKept, Valid
<1>4. ASSUME NEW h \in Invocations PROVE InvocationOrder(h)'
  <2>1. CASE h = g
    <3>1. pc'[h] = p /\ overlay'[h] = ov /\ config'[h] = w /\ request'[h] = r
      BY <1>1, <2>1 DEF AccountTypeOK
    <3>2. Current(h)' = Seen(w)  BY <3>1 DEF Current, Seen
    <3>3. Effective(ov)' = Effective(ov) /\ Wanted(ov)' = Wanted(ov)
      BY DEF Effective, Usable, Wanted
    <3> QED  BY <3>1, <3>2, <3>3 DEF InvocationOrder, Effective, Wanted, Usable
  <2>2. CASE h # g
    <3>1. pc'[h] = pc[h] /\ overlay'[h] = overlay[h] /\ config'[h] = config[h] /\ request'[h] = request[h]
      BY <1>1, <2>2 DEF AccountTypeOK
    <3> QED  BY <3>1, OthersKept
  <2> QED  BY <2>1, <2>2
<1> QED  BY <1>2, <1>3, <1>4 DEF AccountInv

\* No step writes into the module's configuration.
LEMMA CellKept ==
  ASSUME WaitKept, AccountInv, NEW ov \in Overlays
  PROVE  /\ ov.wait \in {Absent, Null} \/ cell = NoWait
         /\ cell # NoWait /\ ov.wait # Null => Apply(built, ov).wait = cell
<1>1. built \in Builts /\ cell = built.wait  BY DEF AccountInv, AccountTypeOK, ModuleKept
<1>2. ov.wait \in {Absent, Null} \/ cell = NoWait  BY <1>1 DEF WaitKept
<1>3. cell # NoWait /\ ov.wait # Null => Apply(built, ov).wait = cell
  BY <1>1, <1>2 DEF Apply, Override
<1> QED  BY <1>2, <1>3

\* A module that Builder has just built is in order.
LEMMA AccountInit == Init => AccountInv
<1> SUFFICES ASSUME Init PROVE AccountInv  OBVIOUS
<1>1. built \in Builts /\ Valid(built)  BY DEF Init
<1>2. built \in PlainConfig  BY <1>1, OverlayAssumption DEF PlainConfig
<1>3. NoConfig \in WorkConfig /\ NoRequest \in RequestRecord
  BY DEF NoConfig, NoRequest, WorkConfig, PlainConfig, RequestRecord
<1>4. AccountTypeOK  BY <1>1, <1>2, <1>3 DEF Init, AccountTypeOK
<1>5. \A h \in Invocations : InvocationOrder(h)  BY DEF Init, InvocationOrder
<1> QED  BY <1>1, <1>4, <1>5 DEF AccountInv, ModuleKept, Init

\* Every step of an invocation preserves the invariant.
LEMMA AccountNext ==
  ASSUME WaitKept
  PROVE  AccountInv /\ [Next]_vars => AccountInv'
<1> SUFFICES ASSUME AccountInv, [Next]_vars PROVE AccountInv'  OBVIOUS
<1>1. CASE UNCHANGED vars
  <2>1. AccountTypeOK' /\ ModuleKept'
    BY <1>1 DEF AccountInv, AccountTypeOK, ModuleKept, Valid, vars
  <2>2. ASSUME NEW h \in Invocations PROVE InvocationOrder(h)'  BY <1>1, OthersKept DEF vars
  <2> QED  BY <2>1, <2>2 DEF AccountInv
<1>2. ASSUME NEW g \in Invocations,
             ResolveModule(g) \/ ResolveOverlay(g) \/ CheckOverlay(g) \/ MakeRequest(g) \/ NextInvocation(g)
      PROVE  AccountInv'
  <2>1. /\ pc \in [Invocations -> {"idle", "validating", "resolved", "requested"}]
        /\ overlay \in [Invocations -> Overlays \cup {NoOverlay}]
        /\ config \in [Invocations -> WorkConfig] /\ request \in [Invocations -> RequestRecord]
        /\ built \in PlainConfig
    BY DEF AccountInv, AccountTypeOK
  <2>2. /\ overlay = [overlay EXCEPT ![g] = overlay[g]] /\ overlay[g] \in Overlays \cup {NoOverlay}
        /\ config = [config EXCEPT ![g] = config[g]] /\ config[g] \in WorkConfig
        /\ request = [request EXCEPT ![g] = request[g]] /\ request[g] \in RequestRecord
    BY <2>1
  <2>3. Copy \in WorkConfig /\ Seen(Copy) = built  BY CopyFacts, CopySeen
  <2>4. InvocationOrder(g) /\ Seen(config[g]) = Current(g)
    BY DEF AccountInv, Seen, Current
  <2>5. CASE ResolveModule(g)
    <3>1. overlay[g] = NoOverlay  BY <2>4, <2>5 DEF ResolveModule, InvocationOrder
    <3>2. Seen(Copy) = Effective(overlay[g])  BY <2>3, <3>1 DEF Effective, Usable
    <3> QED  BY <2>2, <2>3, <2>5, <3>2, InvocationStep DEF ResolveModule
  <2>6. CASE ResolveOverlay(g)
    <3>1. PICK ov \in Overlays : ResolveOverlay(g)!(ov)  BY <2>6 DEF ResolveOverlay
    <3>2. cell' = cell  BY <3>1, CellKept
    <3>3. ov # NoOverlay  BY OverlayAssumption
    <3>4. CASE ov.decodes
      <4> DEFINE a == Apply(built, ov)
                 shared == cell # NoWait /\ ov.wait # Null
                 w == [c |-> a, shared |-> shared]
      <4>1. ModuleConfig = built  BY CopyFacts
      <4>2. a \in PlainConfig  BY <2>1, ApplyType
      <4>3. shared => a.wait = cell  BY CellKept
      <4>4. config' = [config EXCEPT ![g] = w] /\ pc' = [pc EXCEPT ![g] = "validating"]
        BY <3>1, <3>4, <4>1
      <4>5. shared \in BOOLEAN  OBVIOUS
      <4> HIDE DEF a, shared
      <4>6. w \in WorkConfig /\ w.c = a /\ w.shared = shared  BY <4>2, <4>5 DEF WorkConfig
      <4>7. Seen(w) = a
        <5>1. shared => [a EXCEPT !.wait = cell] = a  BY <4>2, <4>3 DEF PlainConfig
        <5> HIDE DEF w
        <5> QED  BY <4>5, <4>6, <5>1 DEF Seen
      <4> HIDE DEF w
      <4>8. built' = built /\ overlay' = [overlay EXCEPT ![g] = ov] /\ request' = request
        BY <3>1
      <4>9. request' = [request EXCEPT ![g] = request[g]] /\ request[g] \in RequestRecord
        BY <2>2, <4>8
      <4>10. ov \in Overlays \cup {NoOverlay} /\ ov.decodes /\ Seen(w) = Apply(built, ov)
        BY <3>4, <4>7 DEF a
      <4> QED  BY <3>2, <4>4, <4>6, <4>8, <4>9, <4>10, InvocationStep
    <3>5. CASE ~ov.decodes
      <4>1. Seen(Copy) = Effective(ov)  BY <2>3, <3>5 DEF Effective, Usable
      <4>2. built' = built /\ overlay' = [overlay EXCEPT ![g] = ov] /\ request' = request
        BY <3>1
      <4>3. config' = [config EXCEPT ![g] = Copy] /\ pc' = [pc EXCEPT ![g] = "resolved"]
        BY <3>1, <3>5
      <4>4. request' = [request EXCEPT ![g] = request[g]] /\ request[g] \in RequestRecord
        BY <2>2, <4>2
      <4> QED  BY <2>3, <3>2, <4>1, <4>2, <4>3, <4>4, InvocationStep
    <3> QED  BY <3>4, <3>5
  <2>7. CASE CheckOverlay(g)
    <3> DEFINE ov == overlay[g]
    <3>1. ov \in Overlays /\ ov.decodes /\ Current(g) = Apply(built, ov)
      BY <2>4, <2>7 DEF CheckOverlay, InvocationOrder
    <3>2. ov # NoOverlay  BY <3>1, OverlayAssumption
    <3>3. CASE Valid(Current(g))
      <4>1. Seen(config[g]) = Effective(ov)
        BY <2>4, <3>1, <3>2, <3>3 DEF Effective, Usable
      <4>2. /\ built' = built /\ cell' = cell /\ pc' = [pc EXCEPT ![g] = "resolved"]
            /\ overlay' = overlay /\ config' = config /\ request' = request
        BY <2>7, <3>3 DEF CheckOverlay
      <4> QED  BY <2>2, <4>1, <4>2, InvocationStep
    <3>4. CASE ~Valid(Current(g))
      <4>1. Seen(Copy) = Effective(ov)  BY <2>3, <3>1, <3>4 DEF Effective, Usable
      <4>2. /\ built' = built /\ cell' = cell /\ pc' = [pc EXCEPT ![g] = "resolved"]
            /\ overlay' = overlay /\ config' = [config EXCEPT ![g] = Copy] /\ request' = request
        BY <2>7, <3>4 DEF CheckOverlay
      <4> QED  BY <2>2, <2>3, <4>1, <4>2, InvocationStep
    <3> QED  BY <3>3, <3>4
  <2>8. CASE MakeRequest(g)
    <3> DEFINE c == Effective(overlay[g])
               r == [timeout |-> c.timeout, wait |-> c.wait, cacheEnabled |-> c.cacheEnabled]
    <3>1. Current(g) = c  BY <2>4, <2>8 DEF MakeRequest, InvocationOrder
    <3>2. c \in PlainConfig
      <4>1. Usable(overlay[g]) => overlay[g] \in Overlays  BY <2>2 DEF Usable
      <4> QED  BY <2>1, <4>1, ApplyType DEF Effective
    <3>3. r = Wanted(overlay[g])  BY DEF Effective, Wanted
    <3>4. request' = [request EXCEPT ![g] = r]  BY <2>8, <3>1 DEF MakeRequest
    <3> HIDE DEF c
    <3>5. r \in RequestRecord  BY <3>2 DEF PlainConfig, RequestRecord
    <3> HIDE DEF r
    <3>6. /\ built' = built /\ cell' = cell /\ pc' = [pc EXCEPT ![g] = "requested"]
          /\ overlay' = [overlay EXCEPT ![g] = overlay[g]]
          /\ config' = [config EXCEPT ![g] = config[g]]
      BY <2>2, <2>8 DEF MakeRequest
    <3> QED  BY <2>2, <3>3, <3>4, <3>5, <3>6, InvocationStep
  <2>9. CASE NextInvocation(g)
    <3>1. NoConfig \in WorkConfig /\ NoRequest \in RequestRecord
      BY DEF NoConfig, NoRequest, WorkConfig, PlainConfig, RequestRecord
    <3> QED  BY <2>9, <3>1, InvocationStep DEF NextInvocation
  <2> QED  BY <1>2, <2>5, <2>6, <2>7, <2>8, <2>9
<1> QED  BY <1>1, <1>2 DEF Next

-----------------------------------------------------------------------------
\* Where no account can write a number through the module's WaitTimeout, every
\* invocation works with its own account's configuration, or with the module's,
\* however the invocations overlap.
THEOREM AccountsAreIsolated ==
  ASSUME WaitKept
  PROVE  Spec => []OverlayIsolated
<1>1. Init => AccountInv  BY AccountInit
<1>2. AccountInv /\ [Next]_vars => AccountInv'  BY AccountNext
<1>3. AccountInv => OverlayIsolated  BY DEF AccountInv, InvocationOrder, OverlayIsolated
<1> QED  BY <1>1, <1>2, <1>3, PTL DEF Spec

\* Where, besides, no account enables the cache of a module that has none, what
\* resolve and validate let through is a request that executionPlanFor accepts.
THEOREM ResolvedRequestsHavePlans ==
  ASSUME WaitKept, CacheKept
  PROVE  Spec => []ResolvedHasPlan
<1>1. Init => AccountInv  BY AccountInit
<1>2. AccountInv /\ [Next]_vars => AccountInv'  BY AccountNext
<1>3. AccountInv => ResolvedHasPlan
  <2> SUFFICES ASSUME AccountInv, NEW h \in Invocations, pc[h] = "requested"
               PROVE  ~PlanError(request[h], built.cacheEnabled, built.maxCalls)
    BY DEF ResolvedHasPlan
  <2> DEFINE ov == overlay[h]
             c == Effective(ov)
  <2>1. built \in Builts /\ built \in PlainConfig /\ Valid(built)
    BY DEF AccountInv, AccountTypeOK, ModuleKept
  <2>2. Usable(ov) => ov \in Overlays  BY DEF AccountInv, AccountTypeOK, Usable
  <2>3. c \in PlainConfig  BY <2>1, <2>2, ApplyType DEF Effective
  <2>4. Valid(c)  BY <2>1 DEF Effective, Usable
  <2>5. c.maxCalls = built.maxCalls  BY DEF Effective, Apply
  <2>6. c.cacheEnabled => built.cacheEnabled
    <3>1. CASE Usable(ov)
      <4>1. c.cacheEnabled = Override(built.cacheEnabled, ov.cacheEnabled)
        BY <3>1 DEF Effective, Apply
      <4>2. built.cacheEnabled \/ ov.cacheEnabled \in {FALSE, Absent}
        BY <2>1, <2>2, <3>1 DEF CacheKept
      <4> QED  BY <4>1, <4>2 DEF Override
    <3>2. CASE ~Usable(ov)  BY <3>2 DEF Effective
    <3> QED  BY <3>1, <3>2
  <2>7. request[h] = [timeout |-> c.timeout, wait |-> c.wait, cacheEnabled |-> c.cacheEnabled]
    BY DEF AccountInv, InvocationOrder, Wanted, Effective
  <2> HIDE DEF c
  <2>8. /\ request[h].timeout = c.timeout /\ request[h].wait = c.wait
        /\ request[h].cacheEnabled = c.cacheEnabled
    BY <2>7
  <2>9. c.timeout \in Int /\ c.wait \in Int \cup {NoWait} /\ c.maxCalls \in Int
    BY <2>3 DEF PlainConfig
  <2>10. c.timeout > 0  BY <2>4 DEF Valid
  <2>11. c.wait # NoWait => c.wait \in Int /\ c.wait >= 0  BY <2>4, <2>9 DEF Valid
  <2>12. WaitModeOf(c.timeout, c.wait) # "sync" => c.wait # NoWait /\ c.wait < c.timeout
    BY <2>9, <2>11 DEF WaitModeOf
  <2>13. WaitModeOf(c.timeout, c.wait) # "sync" => c.cacheEnabled /\ c.maxCalls > 0
    BY <2>4, <2>12 DEF Valid
  <2>14. built.maxCalls \in Int  BY <2>1 DEF PlainConfig
  <2> QED  BY <2>5, <2>6, <2>8, <2>9, <2>10, <2>11, <2>13, <2>14 DEF PlanError
<1> QED  BY <1>1, <1>2, <1>3, PTL DEF Spec
=============================================================================
