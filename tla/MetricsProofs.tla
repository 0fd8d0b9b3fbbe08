---------------------------- MODULE MetricsProofs ----------------------------
(***************************************************************************)
(* Proofs about the Prometheus metrics: any components, any registries     *)
(* they share, any foreign collectors, any number of events.               *)
(***************************************************************************)
EXTENDS PrometheusMetrics, TLAPS

-----------------------------------------------------------------------------
\* The tables of the 18 collectors and of the 20 methods.

\* The arguments of method m under the labels of its collector.
LabelsOf(m) ==
  LET labels == Collectors[m.field].labels
  IN  {<<labels[i], m.arguments[i]>> : i \in 1..Len(labels)}

\* Every argument is under a label that is meant for it, and none is dropped.
WellLabelled(m) ==
  /\ \A l \in LabelsOf(m) : l[2] \in Carries[l[1]]
  /\ {l[2] : l \in LabelsOf(m)} = {m.arguments[j] : j \in 1..Len(m.arguments)}

\* The fields of the methods are fields of Metrics.
LEMMA MethodFields == \A m \in Methods : m.field \in Fields
<1>1. /\ Len(Order) = 18
      /\ Order[1] = "cacheLookup" /\ Order[2] = "requests" /\ Order[3] = "apiSuccess"
      /\ Order[4] = "apiError" /\ Order[5] = "enriched" /\ Order[6] = "notEnriched"
      /\ Order[7] = "apiLatency" /\ Order[8] = "backgroundActive"
      /\ Order[9] = "backgroundCapacity" /\ Order[10] = "impressionReported"
      /\ Order[11] = "impressionError" /\ Order[12] = "impressionRejected"
      /\ Order[13] = "impressionLatency" /\ Order[14] = "reportingActive"
      /\ Order[15] = "reportingCapacity" /\ Order[16] = "l2GetLatency"
      /\ Order[17] = "l2PutLatency" /\ Order[18] = "l2Requests"
  BY DEF Order
<1>2. {"cacheLookup", "requests", "apiSuccess", "apiError", "enriched", "notEnriched",
       "apiLatency", "backgroundActive", "backgroundCapacity", "impressionReported",
       "impressionError", "impressionRejected", "impressionLatency", "reportingActive",
       "reportingCapacity", "l2GetLatency", "l2PutLatency", "l2Requests"} \subseteq Fields
  BY <1>1 DEF Fields
<1> QED  BY <1>2 DEF Methods, Inc, Observe, Method

\* A collector without labels is counted into without arguments.
LEMMA Labels0 ==
  ASSUME NEW m, Collectors[m.field].labels = <<>>, m.arguments = <<>>
  PROVE  WellLabelled(m)
BY DEF WellLabelled, LabelsOf

\* The same with one label.
LEMMA Labels1 ==
  ASSUME NEW m, NEW l1, NEW a1,
         Collectors[m.field].labels = <<l1>>, m.arguments = <<a1>>, a1 \in Carries[l1]
  PROVE  WellLabelled(m)
<1>1. LabelsOf(m) = {<<l1, a1>>}  BY DEF LabelsOf
<1>2. {m.arguments[j] : j \in 1..Len(m.arguments)} = {a1}  OBVIOUS
<1> QED  BY <1>1, <1>2 DEF WellLabelled

\* The same with two labels.
LEMMA Labels2 ==
  ASSUME NEW m, NEW l1, NEW a1, NEW l2, NEW a2,
         Collectors[m.field].labels = <<l1, l2>>, m.arguments = <<a1, a2>>,
         a1 \in Carries[l1], a2 \in Carries[l2]
  PROVE  WellLabelled(m)
<1>1. LabelsOf(m) = {<<l1, a1>>, <<l2, a2>>}  BY DEF LabelsOf
<1>2. {m.arguments[j] : j \in 1..Len(m.arguments)} = {a1, a2}  OBVIOUS
<1>3. {l[2] : l \in LabelsOf(m)} = {a1, a2}  BY <1>1
<1> QED  BY <1>1, <1>2, <1>3 DEF WellLabelled

\* The same with three labels.
LEMMA Labels3 ==
  ASSUME NEW m, NEW l1, NEW a1, NEW l2, NEW a2, NEW l3, NEW a3,
         Collectors[m.field].labels = <<l1, l2, l3>>, m.arguments = <<a1, a2, a3>>,
         a1 \in Carries[l1], a2 \in Carries[l2], a3 \in Carries[l3]
  PROVE  WellLabelled(m)
<1>1. LabelsOf(m) = {<<l1, a1>>, <<l2, a2>>, <<l3, a3>>}  BY DEF LabelsOf
<1>2. {m.arguments[j] : j \in 1..Len(m.arguments)} = {a1, a2, a3}  OBVIOUS
<1>3. {l[2] : l \in LabelsOf(m)} = {a1, a2, a3}  BY <1>1
<1> QED  BY <1>1, <1>2, <1>3 DEF WellLabelled

\* Each of the methods hands its arguments over in the order of the labels.
LEMMA MethodsWellLabelled == \A m \in Methods : WellLabelled(m)
<1> SUFFICES ASSUME NEW m \in Methods PROVE WellLabelled(m)
  OBVIOUS
<1>1. /\ "partnerID" \in Carries["partner_id"] /\ "reason" \in Carries["reason"]
      /\ "kind" \in Carries["reason"] /\ "statusCode" \in Carries["status_code"]
      /\ "result" \in Carries["result"] /\ "layer" \in Carries["layer"]
      /\ "operation" \in Carries["op"]
  BY DEF Carries
<1>2. CASE m.field \in {"requests", "enriched", "apiLatency", "apiSuccess", "impressionReported",
                       "impressionError", "impressionLatency"}
  <2>1. m.arguments = <<"partnerID">>
    BY <1>2 DEF Methods, Inc, Observe, Method
  <2>2. Collectors[m.field].labels = <<"partner_id">>
    BY <1>2 DEF Collectors, PerPartner, Collector
  <2> QED  BY <1>1, <2>1, <2>2, Labels1
<1>3. CASE m.field \in {"notEnriched", "impressionRejected"}
  <2>1. m.arguments = <<"reason", "partnerID">>
    BY <1>3 DEF Methods, Inc, Observe, Method
  <2>2. Collectors[m.field].labels = <<"reason", "partner_id">>
    BY <1>3 DEF Collectors, Collector
  <2> QED  BY <1>1, <2>1, <2>2, Labels2
<1>4. CASE m.field = "l2Requests"
  <2>1. m.arguments = <<"operation", "result">>
    BY <1>4 DEF Methods, Inc, Observe, Method
  <2>2. Collectors[m.field].labels = <<"op", "result">>
    BY <1>4 DEF Collectors, Collector
  <2> QED  BY <1>1, <2>1, <2>2, Labels2
<1>5. CASE m.field = "apiError"
  <2>1. m.arguments = <<"kind", "statusCode", "partnerID">>
    BY <1>5 DEF Methods, Inc, Observe, Method
  <2>2. Collectors[m.field].labels = <<"reason", "status_code", "partner_id">>
    BY <1>5 DEF Collectors, Collector
  <2> QED  BY <1>1, <2>1, <2>2, Labels3
<1>6. CASE m.field = "cacheLookup"
  <2>1. m.arguments = <<"result", "layer", "partnerID">>
    BY <1>6 DEF Methods, Inc, Observe, Method
  <2>2. Collectors[m.field].labels = <<"result", "layer", "partner_id">>
    BY <1>6 DEF Collectors, Collector
  <2> QED  BY <1>1, <2>1, <2>2, Labels3
<1>7. CASE m.field \in {"backgroundCapacity", "backgroundActive", "reportingCapacity",
                       "reportingActive", "l2GetLatency", "l2PutLatency"}
  <2>1. m.arguments = <<>>
    BY <1>7 DEF Methods, Inc, Observe, Method
  <2>2. Collectors[m.field].labels = <<>>
    BY <1>7 DEF Collectors, Gauge, Collector
  <2> QED  BY <2>1, <2>2, Labels0
<1> QED
  BY <1>2, <1>3, <1>4, <1>5, <1>6, <1>7 DEF Methods, Inc, Observe, Method

-----------------------------------------------------------------------------
\* The inductive invariant.

Registries == {RegistryOf(x) : x \in Registerers}

\* What may stand under the name of field f: the collector that some New made and
\* registered, or a foreign one.
Own(f) == Made("New", Collectors[f].type, TRUE, TRUE)
Others == {Made("foreign", o.type, o.same, TRUE) : o \in Foreign}
Kinds == {NoCollector} \cup {Own(f) : f \in Fields} \cup Others

\* A foreign collector contradicts the one that New wants under that name.
Contradicts(have, f) ==
  have.by = "foreign" /\ ~(have.same /\ Asserts(Collectors[f].type, have.type))

\* The event of a method counted into the collector that its registry exposes.
Event(b, m) == [build |-> b, method |-> m, exposed |-> TRUE, labels |-> LabelsOf(m)]
Events == {Event(x[1], x[2]) : x \in Builds \X Methods}

MetricsTypeOK ==
  /\ registry \in [Registries -> [Fields -> Kinds]]
  /\ build \in [Builds -> [registerer : Registerers, next : 0..(Len(Order) + 1),
                          metrics : [Fields -> Kinds]]]
  /\ samples \in Seq(Events)

RegistryOK == \A r \in Registries, f \in Fields :
  registry[r][f] \in {NoCollector, Own(f)} \cup Others

\* What New has filled in so far is registered; a New that failed met a foreign
\* collector, which is still there.
BuildOK(b) ==
  /\ \A i \in 1..(build[b].next - 1) :
       build[b].metrics[Order[i]] \in {Own(Order[i])} \cup Others
  /\ Failed(b) =>
       \E f \in Fields : Contradicts(registry[RegistryOf(build[b].registerer)][f], f)

MetricsInv == MetricsTypeOK /\ RegistryOK /\ \A b \in Builds : BuildOK(b)

\* Registered collectors are not NoCollector, and all of them are exposed.
LEMMA HeldFacts ==
  ASSUME NEW f
  PROVE  /\ Own(f) # NoCollector /\ Own(f).by = "New" /\ Own(f).same = TRUE
         /\ Own(f).type = Collectors[f].type /\ Own(f).exposed = TRUE
         /\ \A h \in Others : h # NoCollector /\ h.by = "foreign" /\ h.exposed = TRUE
<1>1. NoCollector.by = "nobody"  BY DEF NoCollector, Made
<1>2. /\ Own(f).by = "New" /\ Own(f).same = TRUE /\ Own(f).type = Collectors[f].type
      /\ Own(f).exposed = TRUE
  BY DEF Own, Made
<1>3. \A h \in Others : h.by = "foreign" /\ h.exposed = TRUE  BY DEF Others, Made
<1> QED  BY <1>1, <1>2, <1>3

\* What register yields for field f, given what stands in the registry.
LEMMA RegisterOutcome ==
  ASSUME NEW f, NEW have \in {NoCollector, Own(f)} \cup Others
  PROVE  LET made == Made("New", Collectors[f].type, TRUE, ~Registered(have))
             got == Register(have, made) IN
         /\ have = NoCollector => made = Own(f) /\ got = Own(f) /\ ~Registered(have)
         /\ have # NoCollector => Registered(have)
         /\ got # NoCollector => got \in {Own(f)} \cup Others
         /\ got = NoCollector => Contradicts(have, f)
<1> DEFINE made == Made("New", Collectors[f].type, TRUE, ~Registered(have))
           got == Register(have, made)
<1>1. CASE have = NoCollector
  <2>1. Registered(have) = FALSE  BY <1>1 DEF Registered
  <2>2. (~Registered(have)) = TRUE  BY <2>1
  <2>3. made = Own(f)  BY <2>2 DEF Own
  <2>4. got = made  BY <2>1 DEF Register
  <2> QED  BY <1>1, <2>1, <2>3, <2>4, HeldFacts
<1>2. CASE have # NoCollector
  <2>1. Registered(have)  BY <1>2 DEF Registered
  <2>2. made.type = Collectors[f].type  BY DEF Made
  <2>3. CASE have = Own(f)
    <3>1. have.same = TRUE /\ Asserts(made.type, have.type)
      BY <2>2, <2>3, HeldFacts DEF Asserts
    <3>2. got = have  BY <2>1, <3>1 DEF Register
    <3> QED  BY <1>2, <2>1, <2>3, <3>2
  <2>4. CASE have \in Others
    <3>1. have.by = "foreign"  BY <2>4, HeldFacts
    <3>2. CASE have.same /\ Asserts(made.type, have.type)
      <4>1. got = have  BY <2>1, <3>2 DEF Register
      <4> QED  BY <1>2, <2>1, <2>4, <4>1
    <3>3. CASE ~(have.same /\ Asserts(made.type, have.type))
      <4>1. got = NoCollector  BY <2>1, <3>3 DEF Register
      <4>2. Contradicts(have, f)  BY <2>2, <3>1, <3>3 DEF Contradicts
      <4> QED  BY <1>2, <2>1, <4>1, <4>2
    <3> QED  BY <3>2, <3>3
  <2> QED  BY <1>2, <2>3, <2>4
<1> QED  BY <1>1, <1>2

\* A registration of New preserves the invariant.
LEMMA NewInv ==
  ASSUME MetricsInv, NEW b \in Builds, New(b)
  PROVE  MetricsInv'
<1> DEFINE i == build[b].next
           f == Order[i]
           r == RegistryOf(build[b].registerer)
           have == registry[r][f]
           made == Made("New", Collectors[f].type, TRUE, ~Registered(have))
           got == Register(have, made)
<1>1. /\ i \in 1..Len(Order)
      /\ registry' = IF Registered(have) THEN registry ELSE [registry EXCEPT ![r][f] = made]
      /\ build' = [build EXCEPT ![b] =
           IF got = NoCollector THEN [@ EXCEPT !.next = 0, !.metrics = NilMetrics]
           ELSE [@ EXCEPT !.next = i + 1, !.metrics[f] = got]]
      /\ UNCHANGED samples
  BY DEF New
<1>2. f \in Fields  BY <1>1 DEF Fields
<1>3. r \in Registries  BY DEF MetricsInv, MetricsTypeOK, Registries
<1>4. have \in {NoCollector, Own(f)} \cup Others  BY <1>2, <1>3 DEF MetricsInv, RegistryOK
<1>5. /\ have = NoCollector => made = Own(f) /\ got = Own(f) /\ ~Registered(have)
      /\ have # NoCollector => Registered(have)
      /\ got # NoCollector => got \in {Own(f)} \cup Others
      /\ got = NoCollector => Contradicts(have, f)
  BY <1>4, RegisterOutcome
<1> HIDE DEF made, got, f, r, have
<1>6. Own(f) \in Kinds /\ NoCollector \in Kinds /\ Others \subseteq Kinds  BY <1>2 DEF Kinds
<1>7. Len(Order) = 18  BY DEF Order
<1>8. /\ registry \in [Registries -> [Fields -> Kinds]]
      /\ build \in [Builds -> [registerer : Registerers, next : 0..(Len(Order) + 1),
                              metrics : [Fields -> Kinds]]]
  BY DEF MetricsInv, MetricsTypeOK
<1>9. /\ registry' \in [Registries -> [Fields -> Kinds]]
      /\ \A q \in Registries, g \in Fields :
           \/ registry'[q][g] = registry[q][g]
           \/ registry[q][g] = NoCollector /\ registry'[q][g] = Own(g)
  <2>1. CASE Registered(have)  BY <1>1, <1>8, <2>1
  <2>2. CASE ~Registered(have)
    <3>1. have = NoCollector /\ made = Own(f)  BY <1>5, <2>2
    <3>2. registry' = [registry EXCEPT ![r][f] = Own(f)]  BY <1>1, <2>2, <3>1
    <3>3. registry[r][f] = NoCollector  BY <3>1 DEF have
    <3> QED  BY <1>2, <1>3, <1>6, <1>8, <3>2, <3>3
  <2> QED  BY <2>1, <2>2
<1>10. RegistryOK'
  BY <1>9 DEF RegistryOK, MetricsInv
<1>11. NilMetrics \in [Fields -> Kinds]  BY <1>6 DEF NilMetrics
<1>12. build' \in [Builds -> [registerer : Registerers, next : 0..(Len(Order) + 1),
                             metrics : [Fields -> Kinds]]]
  <2> DEFINE B == [registerer : Registerers, next : 0..(Len(Order) + 1),
                   metrics : [Fields -> Kinds]]
             failed == [build[b] EXCEPT !.next = 0, !.metrics = NilMetrics]
             further == [build[b] EXCEPT !.next = i + 1, !.metrics[f] = got]
  <2>1. build[b] \in B  BY <1>8
  <2>2. CASE got = NoCollector
    <3>0. 0 \in 0..(Len(Order) + 1)  BY <1>7
    <3>1. failed \in B  BY <1>11, <2>1, <3>0
    <3>2. build' = [build EXCEPT ![b] = failed]  BY <1>1, <2>2
    <3> QED  BY <1>8, <3>1, <3>2
  <2>3. CASE got # NoCollector
    <3>1. got \in Kinds  BY <1>5, <1>6, <2>3
    <3>2. i + 1 \in 0..(Len(Order) + 1)  BY <1>1, <1>7
    <3>3. further \in B  BY <2>1, <3>1, <3>2
    <3>4. build' = [build EXCEPT ![b] = further]  BY <1>1, <2>3
    <3> QED  BY <1>8, <3>3, <3>4
  <2> QED  BY <2>2, <2>3
<1>13. \A q \in Registries, g \in Fields :
         Contradicts(registry[q][g], g) => Contradicts(registry'[q][g], g)
  <2>1. ~Contradicts(NoCollector, f)  BY DEF Contradicts, NoCollector, Made
  <2>2. \A g : ~Contradicts(NoCollector, g)  BY DEF Contradicts, NoCollector, Made
  <2> QED  BY <1>9, <2>2
<1>14. ASSUME NEW d \in Builds PROVE BuildOK(d)'
  <2>1. RegistryOf(build[d].registerer) \in Registries  BY <1>8 DEF Registries
  <2>2. build'[d].registerer = build[d].registerer
    <3>1. CASE got = NoCollector  BY <1>1, <1>8, <3>1
    <3>2. CASE got # NoCollector  BY <1>1, <1>8, <3>2
    <3> QED  BY <3>1, <3>2
  <2>3. BuildOK(d)  BY DEF MetricsInv
  <2>4. CASE d # b
    <3>1. build'[d] = build[d]  BY <1>1, <1>8, <2>4
    <3> QED  BY <1>13, <2>1, <2>3, <3>1 DEF BuildOK, Failed
  <2>5. CASE d = b /\ got = NoCollector
    <3>1. build'[d].next = 0  BY <1>1, <1>8, <2>5
    <3>2. Contradicts(registry[r][f], f)  BY <1>5, <2>5 DEF have
    <3>3. Contradicts(registry'[r][f], f)  BY <1>2, <1>3, <1>13, <3>2
    <3>4. RegistryOf(build'[d].registerer) = r  BY <2>2, <2>5 DEF r
    <3> QED  BY <1>2, <3>1, <3>3, <3>4 DEF BuildOK
  <2>6. CASE d = b /\ got # NoCollector
    <3>1. build'[d].next = i + 1 /\ build'[d].metrics = [build[d].metrics EXCEPT ![f] = got]
      BY <1>1, <1>8, <2>6
    <3>2. got \in {Own(f)} \cup Others  BY <1>5, <2>6
    <3>3. i \in Nat /\ i # 0  BY <1>1, <1>7
    <3>4. ASSUME NEW j \in 1..(build'[d].next - 1)
          PROVE  build'[d].metrics[Order[j]] \in {Own(Order[j])} \cup Others
      <4>1. j \in 1..i  BY <3>1, <3>3
      <4>2. Order[j] \in Fields  BY <1>1, <1>7, <4>1 DEF Fields
      <4>3. build[d].metrics \in [Fields -> Kinds]  BY <1>8
      <4>4. CASE Order[j] = f  BY <3>1, <3>2, <4>2, <4>3, <4>4
      <4>5. CASE Order[j] # f
        <5>1. j # i  BY <4>5 DEF f
        <5>2. j \in 1..(build[d].next - 1)  BY <2>6, <3>3, <4>1, <5>1
        <5>3. build[d].metrics[Order[j]] \in {Own(Order[j])} \cup Others
          BY <2>3, <5>2 DEF BuildOK
        <5> QED  BY <3>1, <4>2, <4>3, <4>5, <5>3
      <4> QED  BY <4>4, <4>5
    <3>5. ~Failed(d)'  BY <3>1, <3>3 DEF Failed
    <3> QED  BY <3>4, <3>5 DEF BuildOK
  <2> QED  BY <2>4, <2>5, <2>6
<1>15. samples' \in Seq(Events)  BY <1>1 DEF MetricsInv, MetricsTypeOK
<1> QED  BY <1>9, <1>10, <1>12, <1>14, <1>15 DEF MetricsInv, MetricsTypeOK

\* Counting an event preserves it: the Metrics of a New that is through are full.
LEMMA CountInv ==
  ASSUME MetricsInv, NEW b \in Builds, Count(b)
  PROVE  MetricsInv'
<1>1. PICK m \in Methods : Count(b)!(m)  BY DEF Count
<1>2. m.field \in Fields  BY MethodFields
<1>3. PICK i \in 1..Len(Order) : m.field = Order[i]  BY <1>2 DEF Fields
<1>4. Len(Order) = 18  BY DEF Order
<1>5. build[b].metrics[m.field] \in {Own(m.field)} \cup Others
  <2>1. i \in 1..(build[b].next - 1)  BY <1>1, <1>4 DEF Built
  <2> QED  BY <1>3, <2>1 DEF MetricsInv, BuildOK
<1>6. build[b].metrics[m.field].exposed = TRUE  BY <1>5, HeldFacts
<1>7. samples' = Append(samples, Event(b, m))  BY <1>1, <1>6 DEF Event, LabelsOf
<1>8. Event(b, m) \in Events
  <2>1. <<b, m>> \in Builds \X Methods /\ <<b, m>>[1] = b /\ <<b, m>>[2] = m  OBVIOUS
  <2> QED  BY <2>1 DEF Events
<1>9. samples' \in Seq(Events)  BY <1>7, <1>8 DEF MetricsInv, MetricsTypeOK
<1>10. UNCHANGED <<registry, build>>  BY <1>1
<1> QED
  BY <1>9, <1>10 DEF MetricsInv, MetricsTypeOK, RegistryOK, BuildOK, Failed

\* Registries with at most one foreign collector and calls of New that have not
\* begun satisfy the invariant.
LEMMA InitInv == Init => MetricsInv
<1> SUFFICES ASSUME Init PROVE MetricsInv
  OBVIOUS
<1>1. PICK reg \in [Builds -> Registerers] :
        build = [b \in Builds |-> [registerer |-> reg[b], next |-> 1, metrics |-> NilMetrics]]
  BY DEF Init
<1>2. PICK o \in Foreign :
        registry = [r \in {RegistryOf(x) : x \in Registerers} |->
          [f \in Fields |-> IF r = "default" /\ f = o.field
                            THEN Made("foreign", o.type, o.same, TRUE) ELSE NoCollector]]
  BY DEF Init
<1>3. Made("foreign", o.type, o.same, TRUE) \in Others  BY DEF Others
<1>4. registry \in [Registries -> [Fields -> Kinds]] /\ RegistryOK
  BY <1>2, <1>3 DEF Registries, Kinds, RegistryOK
<1>5. NilMetrics \in [Fields -> Kinds]  BY DEF NilMetrics, Kinds
<1>6. Len(Order) = 18  BY DEF Order
<1>7. build \in [Builds -> [registerer : Registerers, next : 0..(Len(Order) + 1),
                           metrics : [Fields -> Kinds]]]
  BY <1>1, <1>5, <1>6
<1>8. \A b \in Builds : BuildOK(b)  BY <1>1 DEF BuildOK, Failed
<1>9. samples \in Seq(Events)  BY DEF Init
<1> QED  BY <1>4, <1>7, <1>8, <1>9 DEF MetricsInv, MetricsTypeOK

\* In every run what New has filled in is registered and every event is exposed.
THEOREM MetricsInvariant == Spec => []MetricsInv
<1>1. MetricsInv /\ [Next]_vars => MetricsInv'
  <2> SUFFICES ASSUME MetricsInv, [Next]_vars PROVE MetricsInv'
    OBVIOUS
  <2>1. CASE UNCHANGED vars
    BY <2>1 DEF vars, MetricsInv, MetricsTypeOK, RegistryOK, BuildOK, Failed
  <2> QED  BY <2>1, NewInv, CountInv DEF Next
<1> QED  BY <1>1, InitInv, PTL DEF Spec

\* Whatever is counted is exposed, under the labels meant for it.
THEOREM EventsAreExposed == Spec => []EventsExposed
<1>1. ASSUME MetricsInv PROVE EventsExposed
  <2> SUFFICES ASSUME NEW i \in 1..Len(samples)
               PROVE  /\ samples[i].exposed
                      /\ \A l \in samples[i].labels : l[2] \in Carries[l[1]]
                      /\ {l[2] : l \in samples[i].labels} =
                           {samples[i].method.arguments[j] :
                              j \in 1..Len(samples[i].method.arguments)}
    BY DEF EventsExposed
  <2>1. samples[i] \in Events  BY <1>1 DEF MetricsInv, MetricsTypeOK
  <2>2. PICK x \in Builds \X Methods : samples[i] = Event(x[1], x[2])  BY <2>1 DEF Events
  <2>3. x[2] \in Methods  BY <2>2
  <2>4. samples[i].exposed = TRUE /\ samples[i].labels = LabelsOf(x[2]) /\ samples[i].method = x[2]
    BY <2>2 DEF Event
  <2>5. WellLabelled(x[2])  BY <2>3, MethodsWellLabelled
  <2>6. samples[i].exposed  BY <2>4
  <2>7. /\ \A l \in samples[i].labels : l[2] \in Carries[l[1]]
        /\ {l[2] : l \in samples[i].labels} =
             {samples[i].method.arguments[j] : j \in 1..Len(samples[i].method.arguments)}
    <3>1. samples[i].labels = LabelsOf(x[2])  BY <2>4
    <3>2. samples[i].method = x[2]  BY <2>4
    <3> QED  BY <2>5, <3>1, <3>2, Zenon DEF WellLabelled
  <2> QED  BY <2>6, <2>7
<1> QED  BY <1>1, MetricsInvariant, PTL

\* New fails only where a foreign collector contradicts one of its own.
THEOREM NewFailsForForeignOnly == Spec => []NewFailsOnlyForForeign
<1>1. MetricsInv => NewFailsOnlyForForeign
  BY DEF MetricsInv, BuildOK, Contradicts, NewFailsOnlyForForeign
<1> QED  BY <1>1, MetricsInvariant, PTL
=============================================================================
