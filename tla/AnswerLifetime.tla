--------------------------- MODULE AnswerLifetime --------------------------
(***************************************************************************)
(* What becomes of an API reply in a shared store: its cttl is converted   *)
(* to a Duration, bounded by the TTL policy, written into an entry by      *)
(* cache/entry.go, handed to a store by the adapter, and read back.  One   *)
(* key, whose type and store are chosen at the start; several goroutines   *)
(* resolve and look up, the process crashes and restarts.                  *)
(***************************************************************************)
EXTENDS StoreAdapters

CONSTANTS
  Config,   \* cache.Config: TTLs and ceilings in seconds, unchecked
  Stores,   \* the adapters and types of key explored
  Calls     \* what each goroutine does at a store: call an API, look the key up

ASSUME LifetimeAssumption ==
  Config \in [ttl : Int, firstParty : Int, thirdParty : Int, device : Int, negative : Int]

VARIABLE keyType

vars == <<call, storeVars, keyType>>

\* Config.TTLPolicy.
Policy == INSTANCE TTLPolicy WITH
  DefaultTTL <- OfSeconds(Config.ttl),
  FirstPartyCeiling <- OfSeconds(Config.firstParty),
  ThirdPartyCeiling <- OfSeconds(Config.thirdParty),
  DeviceCeiling <- OfSeconds(Config.device),
  NegativeTTL <- OfSeconds(Config.negative)

Init ==
  /\ call = [g \in Goroutines |-> NoCall]
  /\ op = [g \in Goroutines |-> NoOp]
  /\ now = 0 /\ record = NoRecord /\ staged = [g \in Goroutines |-> NoRecord]
  /\ \E s \in Stores : adapter = s[1] /\ keyType = s[2]

Idle(g) == call[g].at = "idle" /\ op[g].at = "idle"

StartResolve(g) == \E api \in Calls[adapter][g] \cap {"s2s", "report"} :
  Idle(g) /\ StartCall(g, api) /\ UNCHANGED <<storeVars, keyType>>

Client(g) == ClientStep(g) /\ UNCHANGED <<storeVars, keyType>>

\* History: the longest that the configuration and the API let an answer live.
\* A cttl that is not positive is none.
LongestLife(answer, cttl) ==
  LET bound == IF answer = "hit" THEN Policy!CeilingFor(keyType) ELSE Policy!NegativeBound
  IN  IF cttl = NoCttl THEN bound
      ELSE IF cttl <= 0 THEN bound ELSE Policy!Least(cttl * Millisecond, bound)

\* entryCodec.resolved and negative.
EntryFor(answer, cttl) ==
  LET ttl == IF answer = "hit" THEN Policy!EffectiveTTL(keyType, TTL(cttl))
             ELSE Policy!NegativeTTLFor(TTL(cttl))
  IN  [exp |-> now \div Millisecond + Milliseconds(ttl), ttl |-> ttl,
       due |-> now + LongestLife(answer, cttl)]

\* storeResult: identifiers and their absence are cached, an empty body is not.
StoreAnswer(g) ==
  /\ call[g].at = "answered" /\ call[g].answer \in {"hit", "negative"}
  /\ call' = [call EXCEPT ![g] = NoCall]
  /\ op' = [op EXCEPT ![g] =
       [NoOp EXCEPT !.at = "put", !.entry = EntryFor(call[g].answer, call[g].cttl)]]
  /\ UNCHANGED <<now, adapter, record, staged, keyType>>

EndCall(g) ==
  /\ call[g].at = "failed" \/ (call[g].at = "answered" /\ call[g].answer \in {"", "unresolved"})
  /\ call' = [call EXCEPT ![g] = NoCall]
  /\ UNCHANGED <<storeVars, keyType>>

Lookup(g) ==
  /\ "get" \in Calls[adapter][g] /\ Idle(g)
  /\ op' = [op EXCEPT ![g].at = "get"]
  /\ UNCHANGED <<call, now, adapter, record, staged, keyType>>

Store(g) == StoreStep(g) /\ UNCHANGED <<call, keyType>>

\* Mutant: the store's own expiry is relied on.
MutDecode(g) ==
  /\ OpGoes(g, "decode", "served")
  /\ UNCHANGED <<call, now, adapter, record, staged, keyType>>

\* entryCodec.decode, some time after the read.
Decode(g) ==
  /\ op[g].at = "decode"
  /\ IF op[g].entry.exp > now \div Millisecond THEN OpGoes(g, "decode", "served") ELSE OpReturns(g)
  /\ UNCHANGED <<call, now, adapter, record, staged, keyType>>

GetReturns(g) ==
  /\ op[g].at = "served"
  /\ OpReturns(g) /\ UNCHANGED <<call, now, adapter, record, staged, keyType>>

Tick == \E t \in Clock[adapter] :
  /\ t \in (now + 1)..MaxTime /\ now' = t
  /\ UNCHANGED <<call, adapter, record, staged, op, keyType>>

\* The process dies and is started again; the store keeps what it has.  Staging
\* files that were not renamed stay behind, but no one opens them again.
Crash ==
  /\ \E g \in Goroutines : ~Idle(g)
  /\ call' = [g \in Goroutines |-> NoCall]
  /\ op' = [g \in Goroutines |-> NoOp]
  /\ staged' = [g \in Goroutines |-> NoRecord]
  /\ UNCHANGED <<now, adapter, record, keyType>>

Next ==
  \/ \E g \in Goroutines :
       \/ StartResolve(g) \/ Client(g) \/ StoreAnswer(g) \/ EndCall(g)
       \/ Lookup(g) \/ Store(g) \/ Decode(g) \/ GetReturns(g)
  \/ Tick \/ Crash

Spec == Init /\ [][Next]_vars

-----------------------------------------------------------------------------
\* Properties.

\* No answer is served after the time its API reply and the ceiling of its key
\* allow, whatever Response.TTL, Config.TTLPolicy and the adapters make of a TTL
\* at the limits of their integers, although some of the records that result
\* never expire in their store, and however late they are decoded.
ServedWithinLife ==
  [][\A g \in Goroutines :
       op'[g].at = "served" /\ op[g].at # "served" => now < op'[g].entry.due]_vars

\* TTLs for which every adapter's conversion is exact or rounds up: all that a
\* ceiling below 136 years leaves.
Representable(ttl) ==
  /\ ttl <= (ExpirationLimit - 3) * Second
  /\ ttl + MaxTime < DurationLimit

\* A store never gives up a record before the ExpiresAt of the entry in it:
\* Aerospike's whole seconds, the milliseconds of Redis and Valkey and the
\* file's own expiry all round the right way, although the TTL counts from the
\* Put and ExpiresAt from an earlier reading of the clock.
StoreOutlivesEntry ==
  record.entry # NoEntry /\ Representable(record.entry.ttl) =>
    record.until = Forever \/ record.until >= record.entry.exp * Millisecond

\* The file of a key holds the expiry and the value of one Put, both of them or
\* nothing, whichever goroutines write it together and wherever a failed write
\* or a crash stops one; so no Get gives part of an entry to decode ("Concurrent
\* writes are committed atomically").
EntriesWhole ==
  adapter = "file" =>
    /\ record # NoRecord => record.entry # NoEntry /\ record.until = record.meant
    /\ \A g \in Goroutines : op[g].at \in {"decode", "served"} => op[g].entry # NoEntry

\* Only a 2xx response whose body was read to its end becomes an answer, to be
\* cached or reported as unresolved; every other end of a call is an error, with
\* a status label exactly if a response was received, and a timeout only if the
\* deadline had passed (Resolve, ReportImpression, ErrorLabels).
FailuresStayFailures == \A g \in Goroutines :
  LET c == call[g] IN
  /\ c.at = "answered" => Is2xx(c.status) /\ (c.api = "s2s" => c.whole)
  /\ c.at = "failed" =>
       /\ c.status # 0 <=> c.responded
       /\ c.kind = "timeout" => c.expired
       /\ c.kind \in {"request", "timeout", "transport", "status", "body_read", "parse"}
=============================================================================
