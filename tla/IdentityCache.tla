--------------------------- MODULE IdentityCache ---------------------------
(***************************************************************************)
(* cache/cache.go, entry.go and memory.go: the two-layer identity cache.   *)
(* Every node has a local layer L1; all nodes share the store L2.  Workers *)
(* are goroutines that call Get, PutResolved, PutNegative or PutInProgress *)
(* on the cache of their node; a step is one read or write of one layer,   *)
(* so that operations of several workers interleave between them.          *)
(*                                                                         *)
(* An entry is its kind (EIDs and metadata are left out), its ExpiresAt    *)
(* and, as history, due: the time until which the API's TTL lets the       *)
(* answer it stems from be used, put off by the time that the backfills    *)
(* took which it passed through.  Layers drop entries at any time (their   *)
(* own TTL, eviction); a read that finds an expired entry decodes to not   *)
(* found.  L2 calls may fail.  One clock serves all nodes.                 *)
(***************************************************************************)
EXTENDS TTLPolicy, Sequences

CONSTANTS
  Nodes,         \* processes with a cache of their own
  Workers,       \* goroutines
  NodeOf,        \* the node of each worker
  Calls,         \* the operations each worker may call
  Keys,          \* key values
  KeyType,       \* the type of each key
  KeyLists,      \* the key lists of requests, by priority
  CacheTTLs,     \* TTLs in S2S responses, 0 for none
  MarkerTTL,     \* the request timeout, which is the TTL of its marker
  MaxTime        \* bound of the clock

ASSUME CacheAssumption ==
  /\ NodeOf \in [Workers -> Nodes]
  /\ Calls \in [Workers -> SUBSET {"get", "hit", "negative", "marker"}]
  /\ KeyType \in [Keys -> KeyTypes]
  /\ KeyLists \subseteq Seq(Keys) \ {<<>>}
  /\ CacheTTLs \subseteq Nat /\ MarkerTTL \in Nat /\ MaxTime \in Nat

VARIABLES
  now,     \* UnixMilli of the clock
  l1,      \* for each node and key, its L1 entry
  l2,      \* for each key, its L2 entry
  pc,      \* program counter of each worker
  ks,      \* keys of its call
  idx,     \* index of its loop over them
  put,     \* kind of the entries its Put call writes, and the API's TTL
  hit,     \* the entry its Get found, and at which index
  hitIdx,
  marked,  \* its Get met an in-progress marker in L2
  left,    \* remainingMilliseconds of its backfill
  buf,     \* the encoded entry it is about to write to L2
  steady   \* history: keys with a resolved entry in L2 ever since its Get began

loopVars == <<ks, idx, put>>
getVars == <<hit, hitIdx, marked, left>>
vars == <<now, l1, l2, pc, loopVars, getVars, buf, steady>>

Kinds == {"hit", "negative", "marker"}
Entry(kind, exp, due) == [kind |-> kind, exp |-> exp, due |-> due]
NoEntry == Entry("none", 0, 0)
NoPut == [kind |-> "hit", ttl |-> 0]
EntryType == [kind : Kinds \cup {"none"}, exp : Int, due : Int]

\* decode: empty and expired entries are not found.
Found(e) == e.kind # "none" /\ e.exp > now
Resolved(e) == Found(e) /\ e.kind # "marker"

LookupStates == {"getL1", "getL2"}
PCs == {"idle", "promote", "backfill", "aliasing", "aliasL1", "aliasL2", "putL1", "putL2",
        "markL2"} \cup LookupStates

Key(w) == ks[w][idx[w]]
LastKey(w) == idx[w] = Len(ks[w])
Local(w) == l1[NodeOf[w]]

TypeOK ==
  /\ now \in 0..MaxTime
  /\ l1 \in [Nodes -> [Keys -> EntryType]]
  /\ l2 \in [Keys -> EntryType]
  /\ pc \in [Workers -> PCs]
  /\ ks \in [Workers -> KeyLists \cup {<<>>}]
  /\ idx \in [Workers -> Nat] /\ hitIdx \in [Workers -> Nat]
  /\ put \in [Workers -> [kind : Kinds, ttl : CacheTTLs \cup {0}]]
  /\ hit \in [Workers -> EntryType] /\ buf \in [Workers -> EntryType]
  /\ marked \in [Workers -> BOOLEAN]
  /\ left \in [Workers -> Int]
  /\ steady \in [Workers -> SUBSET Keys]

Init ==
  /\ now = 0
  /\ l1 = [n \in Nodes |-> [k \in Keys |-> NoEntry]]
  /\ l2 = [k \in Keys |-> NoEntry]
  /\ pc = [w \in Workers |-> "idle"]
  /\ ks = [w \in Workers |-> <<>>]
  /\ idx = [w \in Workers |-> 0] /\ hitIdx = [w \in Workers |-> 0]
  /\ put = [w \in Workers |-> NoPut]
  /\ hit = [w \in Workers |-> NoEntry] /\ buf = [w \in Workers |-> NoEntry]
  /\ marked = [w \in Workers |-> FALSE]
  /\ left = [w \in Workers |-> 0]
  /\ steady = [w \in Workers |-> {}]

-----------------------------------------------------------------------------
Goto(w, from, to) == pc[w] = from /\ pc' = [pc EXCEPT ![w] = to]

SetIdx(w, i) == idx' = [idx EXCEPT ![w] = i]

Start(w, to) == \E keys \in KeyLists :
  /\ Goto(w, "idle", to)
  /\ ks' = [ks EXCEPT ![w] = keys]
  /\ SetIdx(w, 1)

\* The call returns and its locals are gone.
Return(w) ==
  /\ pc' = [pc EXCEPT ![w] = "idle"]
  /\ ks' = [ks EXCEPT ![w] = <<>>]
  /\ SetIdx(w, 0)
  /\ put' = [put EXCEPT ![w] = NoPut]
  /\ hit' = [hit EXCEPT ![w] = NoEntry]
  /\ hitIdx' = [hitIdx EXCEPT ![w] = 0]
  /\ marked' = [marked EXCEPT ![w] = FALSE]
  /\ left' = [left EXCEPT ![w] = 0]

\* The loop over the keys goes on at pc next, or the call returns.
Continue(w, next) ==
  \/ LastKey(w) /\ Return(w)
  \/ ~LastKey(w) /\ pc' = [pc EXCEPT ![w] = next] /\ SetIdx(w, idx[w] + 1)
       /\ UNCHANGED <<ks, put, getVars>>

\* cache.local.set: freecache may refuse an entry.
SetLocal(w, e) ==
  \/ UNCHANGED l1
  \/ l1' = [l1 EXCEPT ![NodeOf[w]] = [@ EXCEPT ![Key(w)] = e]]

\* writeBoth: the entry goes to L1 and is encoded for the store ...
WriteLocal(w, e) == buf' = [buf EXCEPT ![w] = e] /\ SetLocal(w, e)

\* ... whose Put succeeds or fails.
WriteStore(w) ==
  /\ UNCHANGED l2 \/ l2' = [l2 EXCEPT ![Key(w)] = buf[w]]
  /\ buf' = [buf EXCEPT ![w] = NoEntry]

-----------------------------------------------------------------------------
\* Get.

StartGet(w) ==
  /\ "get" \in Calls[w]
  /\ Start(w, "getL1")
  /\ UNCHANGED <<now, l1, l2, put, getVars, buf>>

FoundAt(w, e) == hit' = [hit EXCEPT ![w] = e] /\ hitIdx' = [hitIdx EXCEPT ![w] = idx[w]]

\* Mutant: the second loop goes on from the end of the first.
MutGetLocal(w) ==
  /\ pc[w] = "getL1" /\ ~Resolved(Local(w)[Key(w)])
  /\ SetIdx(w, idx[w] + 1)
  /\ pc' = [pc EXCEPT ![w] = IF LastKey(w) THEN "getL2" ELSE "getL1"]
  /\ UNCHANGED <<now, l1, l2, ks, put, getVars, buf>>

\* One key of the first loop; a marker in L1 is passed over.
GetLocal(w) ==
  /\ pc[w] = "getL1"
  /\ \/ /\ Resolved(Local(w)[Key(w)])
        /\ Goto(w, "getL1", "backfill")
        /\ FoundAt(w, Local(w)[Key(w)])
        /\ UNCHANGED idx
     \/ /\ ~Resolved(Local(w)[Key(w)])
        /\ SetIdx(w, IF LastKey(w) THEN 1 ELSE idx[w] + 1)
        /\ pc' = [pc EXCEPT ![w] = IF LastKey(w) THEN "getL2" ELSE "getL1"]
        /\ UNCHANGED <<hit, hitIdx>>
  /\ UNCHANGED <<now, l1, l2, ks, put, marked, left, buf>>

\* Mutant: the first marker ends the loop.
MutGetStoreMarker(w) ==
  /\ pc[w] = "getL2"
  /\ Found(l2[Key(w)]) /\ l2[Key(w)].kind = "marker"
  /\ Return(w)
  /\ UNCHANGED <<now, l1, l2, buf>>

\* One key of the second loop: a marker is remembered and the loop goes on;
\* at its end the answer is in progress.
GetStoreMarker(w) ==
  /\ pc[w] = "getL2"
  /\ Found(l2[Key(w)]) /\ l2[Key(w)].kind = "marker"
  /\ \/ LastKey(w) /\ Return(w)
     \/ /\ ~LastKey(w) /\ SetIdx(w, idx[w] + 1)
        /\ marked' = [marked EXCEPT ![w] = TRUE]
        /\ UNCHANGED <<pc, ks, put, hit, hitIdx, left>>
  /\ UNCHANGED <<now, l1, l2, buf>>

\* Nothing there, or a read error, which is taken for a miss; after the last
\* key the answer is in progress if some key was marked, else a miss.
GetStoreMiss(w) ==
  /\ pc[w] = "getL2"
  /\ ~Found(l2[Key(w)])
  /\ Continue(w, "getL2")
  /\ UNCHANGED <<now, l1, l2, buf>>

GetStoreError(w) ==
  /\ pc[w] = "getL2"
  /\ Continue(w, "getL2")
  /\ UNCHANGED <<now, l1, l2, buf>>

GetStoreHit(w) ==
  /\ Goto(w, "getL2", "promote")
  /\ Resolved(l2[Key(w)])
  /\ FoundAt(w, l2[Key(w)])
  /\ UNCHANGED <<now, l1, l2, loopVars, marked, left, buf>>

\* promote: the entry itself goes to L1, unless it expired meanwhile.
Promote(w) ==
  /\ Goto(w, "promote", "backfill")
  /\ IF hit[w].exp > now THEN SetLocal(w, hit[w]) ELSE UNCHANGED l1
  /\ UNCHANGED <<now, l2, loopVars, getVars, buf>>

\* backfill reads the remaining time once ...
StartBackfill(w) ==
  /\ pc[w] = "backfill"
  /\ \/ hit[w].exp <= now /\ Return(w)
     \/ /\ hit[w].exp > now
        /\ Goto(w, "backfill", "aliasing")
        /\ left' = [left EXCEPT ![w] = hit[w].exp - now]
        /\ SetIdx(w, 1)
        /\ UNCHANGED <<ks, put, hit, hitIdx, marked>>
  /\ UNCHANGED <<now, l1, l2, buf>>

\* ... passes over the key that was found and those that L1 has ...
SkipAlias(w) ==
  /\ pc[w] = "aliasing"
  /\ idx[w] = hitIdx[w] \/ Found(Local(w)[Key(w)])
  /\ Continue(w, "aliasing")
  /\ UNCHANGED <<now, l1, l2, buf>>

\* ... finds no entry under another one, which may be there when it writes ...
CheckAlias(w) ==
  /\ idx[w] # hitIdx[w] /\ ~Found(Local(w)[Key(w)])
  /\ Goto(w, "aliasing", "aliasL1")
  /\ UNCHANGED <<now, l1, l2, loopVars, getVars, buf>>

\* History: how long the backfill has been running.
Elapsed(w) == now - (hit[w].exp - left[w])

\* Mutant: the alias keeps the remaining time whatever its key's ceiling.
MutAliasOf(w) == Entry(hit[w].kind, now + left[w], hit[w].due + Elapsed(w))

\* Mutant: the alias starts a life of its own.
MutAliasRenewed(w) ==
  Entry(hit[w].kind, now + CeilingFor(KeyType[Key(w)]), hit[w].due + Elapsed(w))

\* ... and gives that key an alias, counted from the clock of its own iteration.
AliasOf(w) ==
  Entry(hit[w].kind, now + Least(left[w], CeilingFor(KeyType[Key(w)])),
        hit[w].due + Elapsed(w))

WriteAlias(w) ==
  /\ Goto(w, "aliasL1", "aliasL2")
  /\ WriteLocal(w, AliasOf(w))
  /\ UNCHANGED <<now, l2, loopVars, getVars>>

WriteAliasL2(w) ==
  /\ pc[w] = "aliasL2"
  /\ WriteStore(w)
  /\ Continue(w, "aliasing")
  /\ UNCHANGED <<now, l1>>

-----------------------------------------------------------------------------
\* PutResolved and PutNegative: writeBoth for every key.

StartPut(w) ==
  /\ Start(w, "putL1")
  /\ \E kind \in Calls[w] \cap {"hit", "negative"}, ttl \in CacheTTLs :
       put' = [put EXCEPT ![w] = [kind |-> kind, ttl |-> ttl]]
  /\ UNCHANGED <<now, l1, l2, getVars, buf>>

\* codec.resolved and codec.negative.
PutEntry(w) ==
  IF put[w].kind = "hit"
  THEN Entry("hit", now + EffectiveTTL(KeyType[Key(w)], put[w].ttl), now + BaseTTL(put[w].ttl))
  ELSE Entry("negative", now + NegativeTTLFor(put[w].ttl), now + NegativeTTLFor(put[w].ttl))

PutLocal(w) ==
  /\ Goto(w, "putL1", "putL2")
  /\ WriteLocal(w, PutEntry(w))
  /\ UNCHANGED <<now, l2, loopVars, getVars>>

PutStore(w) ==
  /\ pc[w] = "putL2"
  /\ WriteStore(w)
  /\ Continue(w, "putL1")
  /\ UNCHANGED <<now, l1>>

-----------------------------------------------------------------------------
\* PutInProgress: L2 only, every key even when one fails.

StartMark(w) ==
  /\ "marker" \in Calls[w]
  /\ Start(w, "markL2")
  /\ UNCHANGED <<now, l1, l2, put, getVars, buf>>

Marker == Entry("marker", now + MarkerTTL, now + MarkerTTL)

\* Mutant: markers are written to both layers.
MutMarkStore(w) ==
  /\ pc[w] = "markL2"
  /\ SetLocal(w, Marker)
  /\ UNCHANGED l2 \/ l2' = [l2 EXCEPT ![Key(w)] = Marker]
  /\ Continue(w, "markL2")
  /\ UNCHANGED <<now, buf>>

MarkStore(w) ==
  /\ pc[w] = "markL2"
  /\ UNCHANGED l2 \/ l2' = [l2 EXCEPT ![Key(w)] = Marker]
  /\ Continue(w, "markL2")
  /\ UNCHANGED <<now, l1, buf>>

-----------------------------------------------------------------------------
\* freecache and the store drop entries: their own TTL, eviction, a flush.
DropLocal == \E n \in Nodes, k \in Keys :
  /\ l1[n][k] # NoEntry
  /\ l1' = [l1 EXCEPT ![n] = [@ EXCEPT ![k] = NoEntry]]
  /\ UNCHANGED <<now, l2, pc, loopVars, getVars, buf>>

DropStore == \E k \in Keys :
  /\ l2[k] # NoEntry
  /\ l2' = [l2 EXCEPT ![k] = NoEntry]
  /\ UNCHANGED <<now, l1, pc, loopVars, getVars, buf>>

Tick ==
  /\ now < MaxTime
  /\ now' = now + 1
  /\ UNCHANGED <<l1, l2, pc, loopVars, getVars, buf>>

Step(w) ==
  \/ StartGet(w) \/ GetLocal(w) \/ GetStoreMarker(w) \/ GetStoreMiss(w)
  \/ GetStoreHit(w) \/ Promote(w)
  \/ StartBackfill(w) \/ SkipAlias(w) \/ CheckAlias(w) \/ WriteAlias(w) \/ WriteAliasL2(w)
  \/ StartPut(w) \/ PutLocal(w) \/ PutStore(w)
  \/ StartMark(w) \/ MarkStore(w)

\* The history variable: the keys of a Get in its lookup loops whose L2 entry
\* has been a resolved one since the Get began, but for those whose read failed.
TrackSteady(unread) == steady' = [w \in Workers |->
  IF pc'[w] \notin LookupStates THEN {}
  ELSE {k \in (IF pc[w] = "idle" THEN Keys ELSE steady[w]) :
          /\ l2'[k].kind \in {"hit", "negative"} /\ l2'[k].exp > now'
          /\ <<w, k>> \notin unread}]

Next ==
  \/ ((\E w \in Workers : Step(w)) \/ DropLocal \/ DropStore \/ Tick) /\ TrackSteady({})
  \/ \E w \in Workers : GetStoreError(w) /\ TrackSteady({<<w, Key(w)>>})

Spec == Init /\ [][Next]_vars

-----------------------------------------------------------------------------
\* Properties.

\* In-progress markers are L2-only: neither promote nor backfill nor a Put
\* ever brings one into the memory of a node.
MarkersStayInL2 == \A n \in Nodes, k \in Keys : l1[n][k].kind # "marker"

CeilingOf(k, kind) ==
  IF kind = "hit" THEN CeilingFor(KeyType[k])
  ELSE IF kind = "negative" THEN NegativeBound
  ELSE MarkerTTL

WithinCeiling(k, e) == e.kind # "none" => e.exp <= now + CeilingOf(k, e.kind)

\* At any time an answer with ids under a key of some type has at most that
\* type's ceiling to live, a negative one the configured negative TTL and a
\* marker the request's timeout, in both layers, whether the entry was put,
\* promoted or copied from that of another key.
CeilingRespected ==
  /\ \A n \in Nodes, k \in Keys : WithinCeiling(k, l1[n][k])
  /\ \A k \in Keys : WithinCeiling(k, l2[k])

\* A Get that answers miss or in progress had no key with a resolved entry in
\* L2 from its beginning to its end, but for keys whose read failed (the last
\* one's, in the step that returns): a marker under one key never hides the
\* answer under another.
ResolvedWins ==
  [][\A w \in Workers :
       pc[w] = "getL2" /\ pc'[w] = "idle" =>
         \A i \in 1..Len(ks[w]) : i # idx[w] => ks[w][i] \notin steady[w]]_vars

\* However many aliases an answer passes through, between keys of whatever
\* types, none expires later than the API's TTL allowed, but for the time the
\* backfills took in between (backfill reads the remaining time before its
\* loop and the clock in it).
AliasWithinDeadline ==
  LET InTime(e) == e.exp <= e.due IN
  /\ \A n \in Nodes, k \in Keys : InTime(l1[n][k])
  /\ \A k \in Keys : InTime(l2[k])

-----------------------------------------------------------------------------
\* The inductive invariant.

\* Entry e may stand under key k at time t.
Fits(k, e, t) ==
  /\ e \in EntryType
  /\ e.exp <= e.due
  /\ e.kind # "none" => e.exp <= t + CeilingOf(k, e.kind)

AliasStates == {"aliasing", "aliasL1", "aliasL2"}
HitStates == {"promote", "backfill"} \cup AliasStates

\* The entry a Get found is resolved, and what it may still live is bounded
\* whatever the key it is about to be copied to.
HitOK(w) ==
  /\ hit[w].kind \in {"hit", "negative"}
  /\ hit[w].exp <= hit[w].due
  /\ hit[w].kind = "negative" => hit[w].exp <= now + NegativeBound

\* What worker w holds between two steps: its index is one of its keys', and
\* what it is about to write fits the key it will write it under.
WorkerOK(w) ==
  /\ pc[w] # "idle" => ks[w] \in KeyLists /\ idx[w] \in 1..Len(ks[w])
  /\ pc[w] \in {"putL2", "aliasL2"} => Fits(Key(w), buf[w], now)
  /\ pc[w] = "promote" => Fits(Key(w), hit[w], now)
  /\ pc[w] \in HitStates => HitOK(w)
  /\ pc[w] \in AliasStates =>
       /\ hit[w].exp <= now + left[w]
       /\ hit[w].kind = "negative" => left[w] <= NegativeBound

LayersOK ==
  /\ \A n \in Nodes, k \in Keys : Fits(k, l1[n][k], now) /\ l1[n][k].kind # "marker"
  /\ \A k \in Keys : Fits(k, l2[k], now)

\* The layers are in order because every entry in flight between them is: the
\* one a Get promotes and copies, the remaining time backfill counts with, and
\* the encoded entry that is on its way to the store.
CacheInv == TypeOK /\ LayersOK /\ \A w \in Workers : WorkerOK(w)
=============================================================================
