# A TLA+ verification of identity-go

identity-go is a Go library that a Prebid Server host embeds to resolve the
identities of an auction at IntentIQ's S2S API, to cache what was resolved, and
to report impressions. This directory models the parts of it that keep state or
run concurrently, and the functions that make keys, requests and reports of an
auction. It checks them with TLC and proves, with TLAPS, the safety properties of all of
them. Paths below are relative to `src/`.

## The system

| Component | State | Operations | What makes it correct |
|---|---|---|---|
| Impression reporter (`reporting/`) | limiter channel, `closing`, `drainOnce`, `drained`, the context of running reports, in-flight gauge and counters | `TryReport`, one goroutine per accepted report, `Shutdown` | permits never leak, no report starts once Shutdown has begun, nil from Shutdown means nothing runs, `TryReport` never blocks, every call is counted as it ended |
| Enricher (`enrichment/resolver.go`) | limiter, `closing`, `drained`, the completion channel of hybrid calls, gauge and counters | `Enrich` (sync, async, hybrid), one background goroutine per detached call, `Shutdown` | as the reporter, and: a caller is told what S2S said or that it stopped waiting, and detached calls return however long S2S takes |
| Identity cache (`cache/`) | L1 (freecache) per process, L2 shared by processes | `Get` with promotion and alias backfill, `PutResolved`, `PutNegative`, `PutInProgress` | TTL ceilings by key type hold for every copy, markers stay in L2, a marker never hides an answer |
| Cache keys, URLs (`enrichment/cache_keys.go`, `params.go`, `ua_hints.go`, `reporting/builder.go`) | none; the auction they read is the host's and changes | `extractCacheKeys`, `buildS2SRequest`, `buildReportURL` | complete, de-duplicated, by priority, limit applied last; the keys, the request and the report speak of the same identity; privacy signals survive |
| HTTP clients (`iiqapi/`) | one call under a deadline | `Resolve`, `ReportImpression`, `ErrorLabels` | only a whole 2xx response is an answer, every error has its label |
| Store adapters (`integrations/aerospike`, `redis`, `valkey`, `cmd/benchmark/filestore.go`) | the record of a key | `Get`, `Put` with a TTL conversion each | nothing is served too long, lost too early, or torn |
| Prometheus metrics (`integrations/prometheus/`) | a registry shared with others | `New`, 20 counting methods | what is counted is exposed, under the right labels; `New` can be repeated |
| Prebid module (`example/prebid-module/`) | listener, store, enricher, reporter, per-auction context, the shared configuration | `Builder`, two hooks, account overlays, `Shutdown` | nothing leaks from a failed build, the store outlives background work, overlays do not affect each other |
| Benchmark server, basic example (`cmd/benchmark`, `example/basic`) | none of their own | receive an auction, enrich it, report (basic only) | as hosts of the above |

The host calls `Enrich` from the auction-request hook and `TryReport` from the
auction-response hook, each on the goroutine of the auction. Both start
goroutines that outlive the call, bounded by a channel used as a semaphore.
`Shutdown` of either sets an atomic flag and then *drains*: it acquires every
permit for good. Enricher and cache meet in the `enrichment.Cache` interface,
cache and store in `cache.Store`. What is hard: the flag is read three times
around one channel operation; the order of deferred calls; result and timer of a
hybrid call becoming ready together; goroutines of two processes between the
layers of one `Get`; expiry while copies are being made; and a `Shutdown` that
composes two drains with the closing of a store both may still use.
`PROJECT.json` lists these hazards line by line, with the properties aimed at
them.

## Modules

```
AdmissionPool          what a bounded, closable, draining pool promises
  ^ implemented by
BoundedAdmission       limiter channel and Shutdown protocol (shared)
  |-- Reporter         reporting/reporter.go      <- ReporterProofs
  |-- Enricher         enrichment/resolver.go     <- EnricherProofs
  |                    (with ExecutionPlan)
PrebidModule           example/prebid-module,     <- ModuleProofs
                       over two AdmissionPools
AccountConfig          config.go of the module    <- AccountProofs
                       (with ExecutionPlan)
IdentityCache          cache/  (with TTLPolicy)   <- CacheProofs
CacheKeys <- S2SRequest <- ReportURL <- AuctionData
                       what is made of one        <- AuctionProofs
                       auction, in three hosts
Durations <- S2SClient <- StoreAdapters <- AnswerLifetime
                       from an HTTP reply to      <- LifetimeProofs
                       what a later Get serves (with TTLPolicy)
PrometheusMetrics      integrations/prometheus    <- MetricsProofs
MC*                    instances for TLC
```

**BoundedAdmission.** `permits` is `len(limiter)`, `taken` how many of them Drain
has acquired, `closing` the atomic flag, `drain` the goroutine that `drainOnce`
starts and the channel it closes, `shut[s]` the program counter of one caller of
`Shutdown`. One step is one channel operation, one store or one `select`. A nil
limiter is capacity 0.

**Reporter.** A *slot* is one call of `TryReport` and the goroutine it starts;
`pc[r]` says between which two atomic operations it stands. The three loads of
`closing` are `EnterTryReport`, `ClassifyFull` and `Admit`/`Withdraw`. The
deferred calls of `run` are the steps `ReportingFinished`, `ReleasePermit`,
`RecordPanic`, in the order in which Go runs them. `ApiReturns` lets the API,
the metrics and the logger succeed, fail or panic, and `RecordPanic` lets the counter
of failures panic again, which `recordPanic` swallows. `counts` are the counters that
the slot's call incremented. Slots are reused, so behaviours are unbounded.

**Enricher.** Slots again, with the call (`pc`) and its background goroutine
(`task`) apart, because the goroutine outlives a call that stops waiting.
`Inputs` ranges over requests with and without endpoint, auction, keys and
enabled cache, and over timeouts and waits on each side of every comparison in
`normalizeWaitTimeout` and `executionPlanFor` (module ExecutionPlan). The cache is
what a `Get` may find per identity; every operation on it may fail, and entries
disappear at any time. `TimerFires` may precede or follow `TaskSend` at will, and
`WaitExpires` is the second, non-blocking receive.

**IdentityCache.** Workers are goroutines of nodes. `Get` is one step per key and
layer, followed by `Promote` and, per alias, the look into L1 (`SkipAlias`,
`CheckAlias`) and one write of each layer; `Put*` one write of one layer per step. The clock advances between any two steps. Reads and
writes of L2 fail at will, both layers drop entries at will (the layers' own
expiry, eviction), freecache refuses an entry at will. An entry carries a
history field `due`, the deadline of the API's answer it stems from, put off by
the time that backfills took on its way. EIDs and metadata of entries are left out.

**CacheKeys, S2SRequest, ReportURL, AuctionData.** The first three are operators
over auctions whose identifiers, addresses and pages are model values, with a
blank text told apart from an empty one, as the code does in some places and not
in others. A user agent is the set of patterns it matches. A request or a report is
the sequence of its parameters or fields; the constant ones, quoting and URL encoding are
left out. `AuctionData` is one auction in the Prebid module, the basic example or the
benchmark server: `Enrich` computes keys and request together on the caller's
goroutine, `Send` may come after the auction has changed (`AppendEIDs`,
`HostStrips`), and `Report` comes last. `EIDValues` and `Rank` are the references
for the keys.

**Durations, S2SClient, StoreAdapters, AnswerLifetime.** `Durations` is
`time.Duration` below a limit (`DurationLimit`, 2^63 in Go), with multiplication that wraps and division that
truncates. A call of `S2SClient` may miss its deadline at any point up to
`Do`, get a status, fail in the middle of its body, or read one of seven kinds of body
that `decodeResponse` tells apart. `StoreAdapters` keeps the one record
of a key: `ExpirationSeconds` is Aerospike's conversion, at the width of the
protocol's field (`ExpirationLimit`, 2^32); what the servers make of an expiration is external. The
file store is a step per system call, over the file of the key (`record`) and the
staging file of each writer (`staged`), whose buffer is written in two parts, so that
errors, crashes and other goroutines find it half written. `AnswerLifetime` composes them: a call's
answer goes through `Response.TTL`, the policy, the entry and the adapter into
the record, and a lookup reads and decodes it later. The process may crash and
restart between any two steps. The clock moves to any of a set of times (`Clock`), since
only the comparisons with ends of lives tell times apart. An entry carries two history fields, the TTL it
was put with and the time (`due`) until which the reply and the ceiling allow it
to be served, computed without overflow.

**PrometheusMetrics.** `New` is one step per registration, so that two
components interleave; a failed registration ends it and leaves the earlier ones.
Of a collector the model keeps who made it, its type, whether its
descriptor equals the one `New` makes, and whether it is the registered one.
`Count` is every method of `Metrics`, with its arguments put under labels by
position.

**AccountConfig.** `resolve` copies the module configuration, decodes the
account's JSON over the copy and validates. The copy shares the `WaitTimeout`
pointer with the original, hence one cell that decoding writes in place.

**PrebidModule.** Builder step by step with each step failing, both hooks, and
`Module.Shutdown`. `serveMetrics` leaves a bound listener to a goroutine: one that is closed
before `Serve` runs is `abandoned` and closed by `Serve` itself. A call of `Enrich`
(`EnterEnrich`) is counted by no pool until it is admitted (`EnrichDetached`). Enricher and reporter are instances of `AdmissionPool`, the
specification they are shown to implement; the fairness assumed of them here is
`PoolFairness`, which `ImplementsPoolLive` checks of each.

## Runs

| Run | Instance | Shows |
|---|---|---|
| `reporter` | 2 overlapping calls, 1 permit, 2 Shutdown callers | permits, gauge, counters, drain and cancellation (the inductive `ReporterInv`); refinement of the pool, with its fairness; `TryReport` does not block; Shutdown returns |
| `enricher_safety` | 2 overlapping calls, 1 permit, 1 identity, all modes and replies | permits, gauge and drain (`EnricherInv`); answers and cache agree with S2S; events; a result at the boundary is delivered; refinement |
| `enricher_liveness` | as above, replies with IDs and errors | detached calls return although S2S hangs; permits come back and a closed pool drains (refinement with fairness) |
| `cache_races` | a reader and a writer, 2 keys of different types, 2 clock values | the inductive `CacheInv`, ceilings, deadlines, markers, no hidden answer |
| `auction_data` | three families of auctions: all pairs of eids with 0 to 2 UIDs and limits 0 to 3; all devices and places; all users and regulations; three hosts | key list; what is asked is what is cached; privacy signals; the report matches the request |
| `answer_lifetime` | one goroutine calls the APIs while another looks up; 6 pairs of store and key type; the file store with two writers | answers are not served beyond their life, whatever overflows; records live as long as entries; no torn entry; no failure taken for an answer |
| `metrics_shared` | 2 components, same or different registries, foreign collectors of each kind | events reach the registry under their labels; `New` fails only for foreign contradictions |
| `account_config` | 2 concurrent invocations, module with a cache and no `wait_timeout` | overlays are isolated and runnable |
| `module_composed` | 2 auctions, capacities 1, 2 Shutdown calls | build, hooks and shutdown compose; Shutdown ends |
| `enricher_in_progress_doc`, `enricher_enriched_doc`, `account_wait_leak` | | the findings below |

*Bounds.* One permit with two calls is the least at which the
limiter is full while somebody waits for it and Drain competes with holders; a
second Shutdown caller is the least at which the once and the two contexts
matter. The proofs cover every other size. Two keys with different
ceilings are the least with an alias in each direction, and every operation is
repeatable, so aliases of aliases occur with one tick. The run has one node, whose two goroutines
share both layers; a second node, which shares L2 only, takes TLC beyond five minutes,
and what is proved holds for any number of nodes. `MaxTime` caps the clocks,
which would grow for ever. In `answer_lifetime` integers are scaled down:
a Duration is below 64, a millisecond 2 nanoseconds, a second 2 milliseconds, an
Aerospike expiration below 5; the proofs hold for the real limits and units. For
Aerospike `cttl`s of 3, 5, 7 and 9 ms give an ordinary expiration and each of the three
that it reads in a way of its own (2^32 - 2, 2^32 - 1, and 0 after the wrap), under
ceilings on both sides of them; as Durations, 32 wraps to a negative one and 65 and -63
to a short one, and the third-party ceiling wraps too. The clock stops at times between
and at the ends of lives, the last of which is the end of the longest life an answer put at
the start may have: without the comparison in `decode`,
`ServedWithinLife` fails for each of the four stores. `MaxEvents` is 2: events do not influence each other, and all
methods occur. Symmetry is used where only safety is checked.

*Abstractions that matter.* `os.CreateTemp` is taken never to draw the name of
another writer's staging file. Two collectors under one name are equal if their descriptors are.
`IdentityCache` leaves out EIDs and metadata of entries.

*Fairness.* The specifications of `reporter` and `enricher_liveness` assume only that the
goroutine which called `TryReport` or `Enrich` is scheduled: `TryReportReturns` and
`DetachedReturns` must not need more. The others carry their assumption
(`Fairness =>`): ready goroutines run (Go's scheduler), timers fire, and API
calls return, because the code runs each under `context.WithTimeout`. Nothing is assumed
about calls arriving, Shutdown being called, or contexts expiring. `module_composed`
assumes of each pool what `ImplementsPoolLive` shows of it.

`CHECK_DEADLOCK FALSE` is set for `auction_data`, which ends with the auction,
`module_composed`, where a failed build or a finished shutdown ends
the life of the module, and `metrics_shared`, which ends when both components
have failed or counted their events.

## Proofs

Every module of proofs has one inductive invariant, of which the properties are
consequences. None of the properties is inductive alone; what had to be added
is said below. The theorems hold for every value of the constants that the named
assumptions admit.

**ReporterProofs**: for every finite set of overlapping calls, every set of
Shutdown callers and every capacity in `Nat` (`RequestsAssumption`,
`CapacityAssumption`), the safety properties of the reporter and that it
implements the safety part of `AdmissionPool`. `ReporterInv` conjoins the type
invariant and `ShutdownOrder` (draining implies closing, drained implies that Drain has
every permit, nil implies drained) with three facts: permits count the slots that hold one
plus `taken`; the gauge counts the slots between `ReportingStarted` and
`ReportingFinished`; and the counters of a slot fit its stage (`SettledSoFar`).
The proof goes action by action. An action moves one slot between stages, so the
lemmas on sets of slots say how their cardinality changes when a slot enters or leaves
a stage. From it: when `taken` equals the capacity, the accounting
leaves no permit to a report, which is `DrainedQuiescent` and the
`PoolDrained` step of the refinement; a slot that finds the limiter full while
the flag is unset knows that Drain has not begun (`CapacityRejectIsGenuine`);
an admission leaves room by the accounting before it (`PoolAdmit`).

**EnricherProofs**: the same for the enricher, for any finite set of
callers, any identities (at least one), timeouts and waits
(`EnricherAssumption`). Permits,
gauge and Shutdown are not enough here. `EnricherInv` adds how a call and its goroutine stand to
each other (`InOrder`: nothing is resolved before the goroutine starts; as long as
a caller waits, the channel holds what the goroutine has sent), which events
have been counted at each stage (`CountedSoFar`), and that replies, entries and
answers of an identity come from what S2S said of it (`Sourced`). `Sourced` is needed for
`AnswersFromUpstream` because a reply is stored after it was received, possibly after
its caller left; `CountedSoFar` turns `TalliedAsAnswered`, about finished calls,
into a statement about every step of a call.

**ModuleProofs**: for any finite sets of auctions and bids, any Shutdown callers and
capacities (`ModuleAssumption`), and for all pools that behave as `AdmissionPool`. A first `ModuleInv`, which held in the run,
was not inductive: it admitted an auction in a module that was not built.
Its parts now give the order of Builder (`BuilderOrder`), of the hooks
(`HookOrder`) and of Shutdown (`ShutdownOrder`: a call is past a drain only when that
pool has drained), and `JobsHaveStore`: a closed store belongs to a failed build or
to a drained enricher, which has no jobs left. `NilMeansClosed` and
`FailedBuildLeaksNothing` follow.

**CacheProofs**: for any sets of nodes, goroutines and keys, any key lists and
any TTL settings (`CacheAssumption`, `PolicyAssumption`; ceilings may be any
integers, since `Config.TTLPolicy` converts them unchecked). That the layers are in
order (`LayersOK`) is not inductive: what a `Get` found may be written long after it was
read. `CacheInv` adds what each goroutine carries (`WorkerOK`): the entry found (`hit`)
is resolved and still within its deadline, the remaining time of `backfill` (`left`)
covers it, the encoded entry (`buf`) fits the key it is on its way to, and
loop indices stay in the key list. Time only passes, so an entry that fits
now fits later (`FitsLater`); the minima in
`EffectiveTTL`, `NegativeTTLFor` and backfill make what is written fit its key
(`PolicyBounds`, `AliasFits`, `PutFits`); and each write touches one key of one layer.
`ResolvedWins` is about a whole call. `ScanOK` says at each of its steps that no key passed by
the second loop is one that has had an answer ever since: the loop leaves a key behind
only if its entry is not a resolved one at that moment, or could not be read, and a key
that has dropped out of `steady` does not come back (`SecondLoop`, `Tracked`).

**LifetimeProofs**: for every `DurationLimit`, millisecond and second
(`DurationAssumption`), every expiration limit of at least 4 (`StoreAssumption`: zero
and the two largest are special), every configuration and `cttl`, whether or not it
overflows (`LifetimeAssumption`, `ClientAssumption`, by which status codes have
three digits), and any goroutines. The limits are parameters and not powers of two, about
which the provers know nothing. `LifetimeInv` says of a call how far it has got (`CallOrder`);
of an entry that its `ExpiresAt` comes before it is due or is over already (`InTime`),
and while it is on its way to a store, that it is not after the TTL counted from
now (`Fresh`), which survives the clock; of an operation on files and of the record that
the store's expiry covers the entry (`Covered`); and of a staging file, what its
writer has put there so far. That no other writer has a hand in it (`StagingFile` is
injective) is what `EntriesWhole` rests on: the file that is renamed is
then the whole buffer of one `Put`. The arithmetic is in lemmas:
a product that wraps never gets larger, and one that wraps to nothing is replaced by a TTL that is
still below the true `cttl` (`WrapFacts`, `TTLFacts`, `TTLWithinLife`); `Milliseconds`
rounds down and the clock does too, so `ExpiresAt` is within the TTL (`EntryFacts`);
Aerospike's seconds are rounded up and stay below the special values
(`SecondsFacts`, `UntilFacts`). `ServedWithinLife` then follows at `Decode`: an
entry that is not over is in time, and `ExpiresAt` is beyond the current millisecond.

**MetricsProofs**: any components, registries and foreign collectors. `MetricsInv`
says that a registry holds under each name nothing, the collector of some `New`, or a
foreign one; that a `New` has filled in only registered collectors; and that
one which failed met a contradicting foreign collector that is still there. That every method puts its
arguments under the labels meant for them is proved method by method (`MethodsWellLabelled`).

**AccountProofs**: `OverlayIsolated` and `ResolvedHasPlan` do not hold of every
configuration (see the findings). They are proved, for any number of concurrent
invocations, of those in which no account can write a number through the
module's `WaitTimeout` (`WaitKept`) and, for the second, none enables the cache
of a module without one (`CacheKept`). `AccountInv` says that the module's
configuration is what Builder was given and what each invocation works with at each step.
`OverlayAssumption` gives the fields their types.

**AuctionProofs**: the five properties of `AuctionData`, for any eids, identifiers,
devices, places, regulations, bids and hosts and any limit. `TextAssumption` says that the
sources the code treats each in its own way differ and that an identifier in upper case
is still there, `DataAssumption` gives the fields their types.

* The invariant, `AuctionInv`, is short: from Enrich on, keys, job, what was asked and the
  context of the report are all made of one auction (`MadeOf`), the one that Enrich saw,
  and the current auction is that one until the host changes it. The properties about the
  request and the report are not inductive without it, since the request may leave, and
  the report is made, after the change. TLC cannot evaluate it, as it quantifies over all
  auctions.
* What remains are facts about operators. Their loops run over lists of any length, and
  the library's induction theorems have operator parameters. So induction is done on
  *sets* of numbers, from the least number outside one (`LeastNat`, `InductionUpTo`);
  `LoopRuns` then says once what a loop over `1..n` does, and `FlattenSeq`, the loop of
  `deduplicateAndCapKeys` and that of `rdata` are shown to be such loops.
* The loop invariant of `deduplicateAndCapKeys` is `Kept`: the result so far is at strictly increasing
  places among the candidates, each the first of its value, and every value passed is
  in the result unless the limit has been reached (`KeptOn`, `DedupKept`). The length that
  `KeysComplete` states is counted along the map from places to values, which is injective
  on the result and onto the distinct values (`KeptCount`).
* Third-party keys lead the candidates (`Leads`), hence an identity that occurs under several
  types is kept under its best; the parts of the candidates are ranked one after
  the other (`RankedUpTo`).
* A request and a report are concatenations of parts with disjoint names (`Named`, `NamedOn`),
  so that a value under a name comes from one part. No call of `orderedMap.put` that
  `buildReportURL` makes meets a key that is there already (`ReportIsFields`).

`KeysInOrder` and `AskedIsCached` have one hypothesis, `DomainSources`: no source is, in lower
case, `pubcid` or `maid`. The code does not check it: an eid of such a source gets keys in
the namespace of another priority, so that a key's value no longer tells where it comes
from. Sources are domain names in OpenRTB. The run's instance satisfies the hypothesis,
and the other three theorems do without.

Only model-checked are liveness and the fairness part of the refinements, which are
beyond this prover.

## Findings

* **An account's `wait_timeout` leaks** (`account_wait_leak`). `Config.resolve`
  decodes the overlay through a pointer shared with the module configuration.
  The value stays for all accounts, even when the overlay is then refused, and
  hooks write and read it concurrently without synchronisation.
* **`enriched_total` counts resolutions that enrich nothing** (`enricher_enriched_doc`).
  A detached call whose caller stopped waiting is in `not_enriched_total` as
  `wait_expired`, and when its resolution ends with IDs also in `enriched_total`, whose
  help text speaks of eids added to the auction. `TalliedAsAnswered` states what the code
  counts, `EnrichedMeansAdded` what the help text says.
* **`in_progress` after a failure** (`enricher_in_progress_doc`): the marker of a
  failed resolution stays for its TTL, and is answered although nobody resolves.

Smaller observations have no run of their own.

* Backfill reads the remaining time once and the clock again per alias, so that
  an alias outlives its source by the time in between; `AliasWithinDeadline`
  states that exact bound.
* `Module.Shutdown` returns before closing listener and store when a drain
  expires; a later call can still close them (`NilMeansClosed`, `ShutdownEnds`).
* `cache_lookup_total` has a layer also for misses caused by negative entries
  and markers, contrary to its help text.
* An overlay that enables the cache of a module built without one passes `validate`, and
  every `Enrich` of that account is refused by `executionPlanFor`. `ResolvedHasPlan` is
  checked and proved for the other overlays (`CacheKept`).
* `buildS2SRequest` reads `us_privacy` and the GDPR flag in `regs` and in its extension, but
  `gpp` and `gpp_sid` only in `regs`, and `regs.coppa` not at all.
  `SignalsForwarded` is about the places it reads.
* `recordPanic` runs after `Release`: the error count of a panicked report can come after
  a `Shutdown` that returned nil.
* The lenient stage of `decodeResponse` makes "no IDs", cached negatively, also of
  object data whose eids are malformed; its comment speaks of data that is no object.
* A blank `device.ip` hides the IPv6 address from reports, while cache keys and
  S2S requests treat it as absent; the basic example also takes a blank domain
  or bundle for a reference. `ReportMatchesRequest` is stated accordingly.
* An eid whose source is `maid` or `pubcid` in any case would share the namespace of the
  device's MAID or of the shared IDs (see `DomainSources` above).
* A ceiling or `cttl` that overflows, or an Aerospike TTL of 2^32 - 2 seconds or
  more, can leave records that their store never expires. They are not served
  (`ServedWithinLife`), because `decode` compares `ExpiresAt`.
* `fileStore.Get` can remove a file that `Put` has just renamed into place, which
  costs a hit; a crash leaves staging files behind.
* On a shared registry the capacity gauges show the capacity of the component
  built last, while the active gauges sum over all. A foreign Summary satisfies
  the type assertion of `registerHistogram`.

## Not modelled

Logging and the validation of single configuration fields have no state that a
property is about. Of the benchmark server its flags, the choice of the wait by query
and its JSON responses are left out (a `wait_ms` that overflows becomes a negative
wait, which `executionPlanFor` refuses); of the basic example, its
sequential wiring. Panics of the host's gauge methods are excluded: they would
leak a permit, and the Prometheus gauges cannot panic. A host that unregisters
collectors is excluded too. Synchronous `Enrich` calls, and detached ones until they
have their permit, are not counted by the limiter, so that Shutdown does not wait for them
and the store may be closed under their lookup; nothing in the code says it would. `ModuleInv`
is about the background jobs. That `PutInProgress` and backfill may overwrite an entry another
goroutine has just put is part of `IdentityCache`, and no property forbids it, because the
store has no conditional write.

## Plan

All modules above are written, and every safety property that a run checks is proved, except those
the code violates (the findings). Left, and out of this prover's reach, are
`TryReportReturns`, `DetachedReturns`, `ShutdownReturns`, `ShutdownEnds` and the fairness
part of the refinements (`ImplementsPoolLive`). If the code changes, the first places to look at are the findings: once the
overlay no longer shares the `WaitTimeout` pointer, `WaitKept` can go from
AccountProofs.
