--------------------------- MODULE AccountConfig ---------------------------
(***************************************************************************)
(* example/prebid-module/config.go and the start of the two hooks: every   *)
(* hook invocation overlays the account's configuration on the module's    *)
(* and calls the enricher with the outcome.  Invocations run concurrently. *)
(*                                                                         *)
(* WaitTimeout is a pointer.  resolve copies the module configuration by   *)
(* value, so the copy points to the module's own int64, and json.Unmarshal *)
(* writes a number through a pointer that is not nil.  The module's int64  *)
(* is therefore the variable cell (NoWait when the pointer is nil), and a  *)
(* configuration either shares it or has a wait of its own.  The fields    *)
(* kept are those that validate or executionPlanFor look at.               *)
(***************************************************************************)
EXTENDS ExecutionPlan

CONSTANTS
  Invocations,  \* hook invocations that can overlap in time
  Builts,       \* configurations Builder may be given
  Overlays,     \* account configurations
  NoOverlay,    \* an account without one
  Absent,       \* a field the account configuration does not have
  Null          \* a JSON null

ASSUME OverlayAssumption ==
  /\ NoOverlay \notin Overlays /\ Null # Absent
  /\ Builts \subseteq [timeout : Int, wait : Int \cup {NoWait}, cacheEnabled : BOOLEAN, maxCalls : Int]
  /\ Overlays \subseteq [decodes : BOOLEAN, timeout : Int \cup {Absent},
                         wait : Int \cup {Absent, Null}, cacheEnabled : BOOLEAN \cup {Absent},
                         maxCalls : Int \cup {Absent}]

VARIABLES
  built,     \* module.config, but for what WaitTimeout points to
  cell,      \* the int64 it points to
  pc,        \* program counter of each invocation
  overlay,   \* its account configuration
  config,    \* the configuration it works with
  request    \* the fields of the enrichment.Request it made

vars == <<built, cell, pc, overlay, config, request>>

-----------------------------------------------------------------------------
\* validate.
Valid(c) ==
  /\ c.timeout > 0
  /\ c.wait # NoWait => c.wait >= 0
  /\ c.maxCalls >= 0
  /\ c.wait # NoWait /\ c.wait < c.timeout => c.cacheEnabled /\ c.maxCalls > 0

Override(old, new) == IF new = Absent THEN old ELSE new

\* Mutant: the capacity is not set back.
MutApply(c, ov) ==
  [timeout |-> Override(c.timeout, ov.timeout),
   wait |-> IF ov.wait = Null THEN NoWait ELSE Override(c.wait, ov.wait),
   cacheEnabled |-> Override(c.cacheEnabled, ov.cacheEnabled),
   maxCalls |-> Override(c.maxCalls, ov.maxCalls)]

\* The fields of ov replace those of c, but for the capacity, which is set back
\* to the module's.
Apply(c, ov) ==
  [timeout |-> Override(c.timeout, ov.timeout),
   wait |-> IF ov.wait = Null THEN NoWait ELSE Override(c.wait, ov.wait),
   cacheEnabled |-> Override(c.cacheEnabled, ov.cacheEnabled),
   maxCalls |-> c.maxCalls]

\* The module's configuration as an invocation sees it now.
ModuleConfig == [built EXCEPT !.wait = cell]

\* The configuration of an invocation, read through its pointer.
Current(h) == IF config[h].shared THEN [config[h].c EXCEPT !.wait = cell] ELSE config[h].c

\* The whole configuration copied: it shares the pointer, if there is one.
Copy == [c |-> ModuleConfig, shared |-> cell # NoWait]

\* Mutant: an overlay that validate refuses is used all the same.
MutCheckOverlay(h) ==
  /\ pc[h] = "validating"
  /\ pc' = [pc EXCEPT ![h] = "resolved"]
  /\ UNCHANGED <<built, cell, overlay, config, request>>

-----------------------------------------------------------------------------
NoConfig == [c |-> [timeout |-> 1, wait |-> NoWait, cacheEnabled |-> FALSE, maxCalls |-> 0],
             shared |-> FALSE]
NoRequest == [timeout |-> 0, wait |-> NoWait, cacheEnabled |-> FALSE]

\* Builder has parsed and validated the module's configuration.
Init ==
  /\ built \in {b \in Builts : Valid(b)}
  /\ cell = built.wait
  /\ pc = [h \in Invocations |-> "idle"]
  /\ overlay = [h \in Invocations |-> NoOverlay]
  /\ config = [h \in Invocations |-> NoConfig]
  /\ request = [h \in Invocations |-> NoRequest]

\* resolve, without an account configuration.
ResolveModule(h) ==
  /\ pc[h] = "idle"
  /\ pc' = [pc EXCEPT ![h] = "resolved"]
  /\ config' = [config EXCEPT ![h] = Copy]
  /\ UNCHANGED <<built, cell, overlay, request>>

\* resolve up to validate: the copy, json.Unmarshal into it (a field of the
\* wrong type is an error, once all the others are decoded), and the return of
\* the module's configuration after an error.  Text that is no JSON decodes
\* nothing: an overlay with only Absent fields that does not decode.
ResolveOverlay(h) == \E ov \in Overlays :
  /\ pc[h] = "idle"
  /\ overlay' = [overlay EXCEPT ![h] = ov]
  /\ cell' = IF ov.wait \in {Absent, Null} \/ cell = NoWait THEN cell ELSE ov.wait
  /\ \/ /\ ov.decodes
        /\ pc' = [pc EXCEPT ![h] = "validating"]
        /\ config' = [config EXCEPT ![h] =
             [c |-> Apply(ModuleConfig, ov), shared |-> cell # NoWait /\ ov.wait # Null]]
     \/ /\ ~ov.decodes
        /\ pc' = [pc EXCEPT ![h] = "resolved"]
        /\ config' = [config EXCEPT ![h] = Copy]
  /\ UNCHANGED <<built, request>>

\* validate, and the return of the module's configuration when it fails.
CheckOverlay(h) ==
  /\ pc[h] = "validating"
  /\ pc' = [pc EXCEPT ![h] = "resolved"]
  /\ config' = IF Valid(Current(h)) THEN config ELSE [config EXCEPT ![h] = Copy]
  /\ UNCHANGED <<built, cell, overlay, request>>

\* HandleProcessedAuctionHook makes its enrichment.Request: timeout(),
\* waitTimeout() and Cache.Enabled.
MakeRequest(h) ==
  /\ pc[h] = "resolved"
  /\ pc' = [pc EXCEPT ![h] = "requested"]
  /\ request' = [request EXCEPT ![h] =
       LET c == Current(h) IN
       [timeout |-> c.timeout, wait |-> c.wait, cacheEnabled |-> c.cacheEnabled]]
  /\ UNCHANGED <<built, cell, overlay, config>>

\* The invocation ends and another one begins.
NextInvocation(h) ==
  /\ pc[h] = "requested"
  /\ pc' = [pc EXCEPT ![h] = "idle"]
  /\ overlay' = [overlay EXCEPT ![h] = NoOverlay]
  /\ config' = [config EXCEPT ![h] = NoConfig]
  /\ request' = [request EXCEPT ![h] = NoRequest]
  /\ UNCHANGED <<built, cell>>

Next == \E h \in Invocations :
  \/ ResolveModule(h) \/ ResolveOverlay(h) \/ CheckOverlay(h)
  \/ MakeRequest(h) \/ NextInvocation(h)

Spec == Init /\ [][Next]_vars

-----------------------------------------------------------------------------
\* Properties.

\* What the module's configuration and one account configuration ask for.
Usable(ov) == ov # NoOverlay /\ ov.decodes /\ Valid(Apply(built, ov))
Wanted(ov) ==
  LET c == IF Usable(ov) THEN Apply(built, ov) ELSE built
  IN  [timeout |-> c.timeout, wait |-> c.wait, cacheEnabled |-> c.cacheEnabled]

\* An invocation runs with its own account's configuration over the one Builder
\* was given, or with the latter alone when the account's is unusable, whatever
\* other invocations do before or meanwhile.
OverlayIsolated == \A h \in Invocations :
  pc[h] = "requested" => request[h] = Wanted(overlay[h])

\* The enricher was built from the module's configuration: what resolve lets
\* through has an execution plan in it.
ResolvedHasPlan == \A h \in Invocations :
  pc[h] = "requested" => ~PlanError(request[h], built.cacheEnabled, built.maxCalls)
=============================================================================
