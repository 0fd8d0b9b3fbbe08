------------------------- MODULE PrometheusMetrics -------------------------
(***************************************************************************)
(* integrations/prometheus/metrics.go: New, which registers 18 collectors  *)
(* one after the other, called by components that may share a registry     *)
(* with each other and with foreign collectors, and the methods that count *)
(* into them.  A registry has at most one collector under a name and never *)
(* gives it up, so that of a collector only this matters: whether New or a *)
(* foreign library made it, its type, whether its descriptor (labels, help *)
(* text) is that of New, and whether it is the one in the registry.  An    *)
(* argument of a method stands for its value.                              *)
(***************************************************************************)
EXTENDS Integers, Sequences, FiniteSets

CONSTANTS
  Builds,      \* calls of New
  Registerers, \* what New may be given, "nil" among them
  Foreign,     \* what else may be registered: a field's name, a type, a descriptor
  MaxEvents    \* bound of the events counted

VARIABLES
  registry,  \* for each registry, its collectors by name
  build,     \* for each call of New: its registerer, stage, and the Metrics it fills
  samples    \* what was counted: by which method of whose Metrics, with which
             \* labels, and whether into a collector of the registry

vars == <<registry, build, samples>>

-----------------------------------------------------------------------------
Collector(type, labels) == [type |-> type, labels |-> labels]
Gauge == Collector("gauge", <<>>)
PerPartner(type) == Collector(type, <<"partner_id">>)

\* The fields, in the order in which New registers them.
Order == <<"cacheLookup", "requests", "apiSuccess", "apiError", "enriched", "notEnriched",
  "apiLatency", "backgroundActive", "backgroundCapacity", "impressionReported",
  "impressionError", "impressionRejected", "impressionLatency", "reportingActive",
  "reportingCapacity", "l2GetLatency", "l2PutLatency", "l2Requests">>
Fields == {Order[i] : i \in 1..Len(Order)}

Collectors == [
  cacheLookup |-> Collector("counterVec", <<"result", "layer", "partner_id">>),
  requests |-> PerPartner("counterVec"),
  apiSuccess |-> PerPartner("counterVec"),
  apiError |-> Collector("counterVec", <<"reason", "status_code", "partner_id">>),
  enriched |-> PerPartner("counterVec"),
  notEnriched |-> Collector("counterVec", <<"reason", "partner_id">>),
  apiLatency |-> PerPartner("histogramVec"),
  backgroundActive |-> Gauge,
  backgroundCapacity |-> Gauge,
  impressionReported |-> PerPartner("counterVec"),
  impressionError |-> PerPartner("counterVec"),
  impressionRejected |-> Collector("counterVec", <<"reason", "partner_id">>),
  impressionLatency |-> PerPartner("histogramVec"),
  reportingActive |-> Gauge,
  reportingCapacity |-> Gauge,
  l2GetLatency |-> Collector("histogram", <<>>),
  l2PutLatency |-> Collector("histogram", <<>>),
  l2Requests |-> Collector("counterVec", <<"op", "result">>)]

Made(by, type, same, exposed) == [by |-> by, type |-> type, same |-> same, exposed |-> exposed]
NoCollector == Made("nobody", "none", TRUE, FALSE)
NilMetrics == [f \in Fields |-> NoCollector]

\* A nil registerer is the default one.
RegistryOf(r) == IF r = "nil" THEN "default" ELSE r

Init ==
  /\ \E reg \in [Builds -> Registerers] :
       build = [b \in Builds |-> [registerer |-> reg[b], next |-> 1, metrics |-> NilMetrics]]
  /\ \E others \in Foreign :
       registry = [r \in {RegistryOf(x) : x \in Registerers} |->
         [f \in Fields |-> IF r = "default" /\ f = others.field
                           THEN Made("foreign", others.type, others.same, TRUE)
                           ELSE NoCollector]]
  /\ samples = <<>>

-----------------------------------------------------------------------------
\* Registerer.Register: the descriptor is new, is there already with the same
\* labels and help, or contradicts the one that is there.
Registered(have) == have # NoCollector

\* The type assertions: a Summary has the methods of a Histogram.
Asserts(want, have) == have = want \/ (want = "histogram" /\ have = "summary")

\* Mutant: the collector that was made is kept although another is registered.
MutRegister(have, new) ==
  IF ~Registered(have) THEN new
  ELSE IF ~have.same \/ ~Asserts(new.type, have.type) THEN NoCollector
  ELSE new

\* Mutant: a collector that is registered already is an error.
MutRegisterOnce(have, new) == IF Registered(have) THEN NoCollector ELSE new

\* register and the four functions around it: the collector to use, or none.
Register(have, new) ==
  IF ~Registered(have) THEN new
  ELSE IF ~have.same \/ ~Asserts(new.type, have.type) THEN NoCollector
  ELSE have

\* One registration of New; an error ends it and leaves the earlier ones.
New(b) ==
  LET i == build[b].next
      f == Order[i]
      r == RegistryOf(build[b].registerer)
      have == registry[r][f]
      made == Made("New", Collectors[f].type, TRUE, ~Registered(have))
      got == Register(have, made)
  IN  /\ i \in 1..Len(Order)
      /\ registry' = IF Registered(have) THEN registry
                     ELSE [registry EXCEPT ![r][f] = made]
      /\ build' = [build EXCEPT ![b] =
           IF got = NoCollector THEN [@ EXCEPT !.next = 0, !.metrics = NilMetrics]
           ELSE [@ EXCEPT !.next = i + 1, !.metrics[f] = got]]
      /\ UNCHANGED samples

Built(b) == build[b].next = Len(Order) + 1
Failed(b) == build[b].next = 0

-----------------------------------------------------------------------------
Method(field, arguments, effect) == [field |-> field, arguments |-> arguments, effect |-> effect]
Inc(field, arguments) == Method(field, arguments, "inc")
Observe(field, arguments) == Method(field, arguments, "observe")

Methods == {
  Inc("requests", <<"partnerID">>),
  Inc("enriched", <<"partnerID">>),
  Inc("notEnriched", <<"reason", "partnerID">>),
  Observe("apiLatency", <<"partnerID">>),
  Inc("apiSuccess", <<"partnerID">>),
  Inc("apiError", <<"kind", "statusCode", "partnerID">>),
  Inc("cacheLookup", <<"result", "layer", "partnerID">>),
  Method("backgroundCapacity", <<>>, "set"),
  Inc("backgroundActive", <<>>), Method("backgroundActive", <<>>, "dec"),
  Inc("impressionReported", <<"partnerID">>),
  Inc("impressionError", <<"partnerID">>),
  Inc("impressionRejected", <<"reason", "partnerID">>),
  Observe("impressionLatency", <<"partnerID">>),
  Method("reportingCapacity", <<>>, "set"),
  Inc("reportingActive", <<>>), Method("reportingActive", <<>>, "dec"),
  Inc("l2Requests", <<"operation", "result">>),
  Observe("l2GetLatency", <<>>),
  Observe("l2PutLatency", <<>>)}

\* WithLabelValues gives the values to the labels in their order.
Count(b) == \E m \in Methods :
  LET labels == Collectors[m.field].labels IN
  /\ Built(b) /\ Len(samples) < MaxEvents
  /\ samples' = Append(samples,
       [build |-> b, method |-> m, exposed |-> build[b].metrics[m.field].exposed,
        labels |-> {<<labels[i], m.arguments[i]>> : i \in 1..Len(labels)}])
  /\ UNCHANGED <<registry, build>>

Next == \E b \in Builds : New(b) \/ Count(b)

Spec == Init /\ [][Next]_vars

-----------------------------------------------------------------------------
\* Properties.

\* What each label means: the arguments of methods that it may carry.
Carries == [partner_id |-> {"partnerID"}, reason |-> {"reason", "kind"},
            status_code |-> {"statusCode"}, result |-> {"result"}, layer |-> {"layer"},
            op |-> {"operation"}]

\* Whatever a component counts is what its registry exposes, in every
\* interleaving of components that build their metrics on it: the collector
\* counted into is the registered one, every argument is under the label that is
\* meant for it, and none is dropped.
EventsExposed == \A i \in 1..Len(samples) :
  LET e == samples[i]
      m == e.method
  IN  /\ e.exposed
      /\ \A l \in e.labels : l[2] \in Carries[l[1]]
      /\ {l[2] : l \in e.labels} = {m.arguments[j] : j \in 1..Len(m.arguments)}

\* New fails only for a foreign collector that contradicts one of its own:
\* never because another component, or a New that failed half-way, registered
\* the same collectors before or registers them at the same time.
NewFailsOnlyForForeign == \A b \in Builds : Failed(b) =>
  \E f \in Fields :
    LET have == registry[RegistryOf(build[b].registerer)][f]
    IN  have.by = "foreign" /\ ~(have.same /\ Asserts(Collectors[f].type, have.type))
=============================================================================
