---------------------------- MODULE CacheProofs ----------------------------
(***************************************************************************)
(* Proofs that the identity cache keeps its ceilings and deadlines and its *)
(* markers out of L1, for any nodes, workers, keys, key lists, TTLs and    *)
(* ceilings.                                                               *)
(***************************************************************************)
EXTENDS IdentityCache, TLAPS

-----------------------------------------------------------------------------
\* The TTL policy.

\* Ceilings are numbers, and no TTL of the policy exceeds its own.
LEMMA PolicyBounds ==
  ASSUME NEW type \in KeyTypes, NEW ttl \in Nat
  PROVE  /\ CeilingFor(type) \in Int /\ NegativeBound \in Int
         /\ BaseTTL(ttl) \in Int /\ EffectiveTTL(type, ttl) \in Int
         /\ EffectiveTTL(type, ttl) <= BaseTTL(ttl)
         /\ EffectiveTTL(type, ttl) <= CeilingFor(type)
         /\ NegativeTTLFor(ttl) \in Int /\ NegativeTTLFor(ttl) <= NegativeBound
<1>1. CeilingFor(type) \in Int
  BY PolicyAssumption DEF CeilingFor, KeyTypes
<1>2. NegativeBound \in Int /\ BaseTTL(ttl) \in Int
  BY PolicyAssumption DEF NegativeBound, BaseTTL
<1>3. /\ EffectiveTTL(type, ttl) \in Int
      /\ EffectiveTTL(type, ttl) <= BaseTTL(ttl)
      /\ EffectiveTTL(type, ttl) <= CeilingFor(type)
  BY <1>1, <1>2 DEF EffectiveTTL, Least
<1>4. NegativeTTLFor(ttl) \in Int /\ NegativeTTLFor(ttl) <= NegativeBound
  BY PolicyAssumption DEF NegativeTTLFor, NegativeBound, Least
<1> QED  BY <1>1, <1>2, <1>3, <1>4

\* The ceiling of an entry is a number.
LEMMA CeilingType ==
  ASSUME NEW k \in Keys, NEW kind \in Kinds
  PROVE  CeilingOf(k, kind) \in Int
<1>1. CeilingFor(KeyType[k]) \in Int /\ NegativeBound \in Int
  BY PolicyBounds, CacheAssumption
<1>2. MarkerTTL \in Int  BY CacheAssumption
<1> QED  BY <1>1, <1>2 DEF CeilingOf, Kinds

\* An entry that fits a key goes on to fit it as time passes.
LEMMA FitsLater ==
  ASSUME NEW k \in Keys, NEW e, NEW t \in Int, NEW u \in Int, t <= u, Fits(k, e, t)
  PROVE  Fits(k, e, u)
<1>1. CASE e.kind = "none"  BY <1>1 DEF Fits
<1>2. CASE e.kind # "none"
  <2>1. e.kind \in Kinds /\ e.exp \in Int  BY <1>2 DEF Fits, EntryType
  <2>2. CeilingOf(k, e.kind) \in Int  BY <2>1, CeilingType
  <2> QED  BY <1>2, <2>1, <2>2 DEF Fits
<1> QED  BY <1>1, <1>2

\* The absence of an entry fits every key.
LEMMA FitsNone ==
  ASSUME NEW k, NEW t
  PROVE  Fits(k, NoEntry, t) /\ NoEntry.kind = "none" /\ NoEntry \in EntryType
BY DEF Fits, NoEntry, Entry, EntryType

-----------------------------------------------------------------------------
\* Types, in the parts that steps leave alone or change together.

LoopTypes ==
  /\ pc \in [Workers -> PCs]
  /\ ks \in [Workers -> KeyLists \cup {<<>>}]
  /\ idx \in [Workers -> Nat] /\ hitIdx \in [Workers -> Nat]
  /\ put \in [Workers -> [kind : Kinds, ttl : CacheTTLs \cup {0}]]
  /\ hit \in [Workers -> EntryType]
  /\ marked \in [Workers -> BOOLEAN]
  /\ left \in [Workers -> Int]

LayerTypes ==
  /\ now \in 0..MaxTime
  /\ l1 \in [Nodes -> [Keys -> EntryType]]
  /\ l2 \in [Keys -> EntryType]
  /\ buf \in [Workers -> EntryType]

SteadyType == steady \in [Workers -> SUBSET Keys]

\* They are the type invariant.
LEMMA TypeParts == TypeOK <=> LoopTypes /\ LayerTypes /\ SteadyType
BY DEF TypeOK, LoopTypes, LayerTypes, SteadyType

\* What the steps of the cache preserve, the history variable left out.
Core == LoopTypes /\ LayerTypes /\ LayersOK /\ \A w \in Workers : WorkerOK(w)

\* A step leaves the loop of worker x alone.
SameLoop(x) ==
  /\ pc'[x] = pc[x] /\ ks'[x] = ks[x] /\ idx'[x] = idx[x]
  /\ hit'[x] = hit[x] /\ left'[x] = left[x]

\* A worker that a step leaves alone stays in order while time passes.
LEMMA Undisturbed ==
  ASSUME LoopTypes, now \in Int, now' \in Int, now <= now',
         NEW x \in Workers, WorkerOK(x), SameLoop(x), buf'[x] = buf[x]
  PROVE  WorkerOK(x)'
<1>1. pc[x] # "idle" => Key(x) \in Keys
  BY CacheAssumption DEF WorkerOK, Key
<1>2. Key(x)' = Key(x)  BY DEF Key, SameLoop
<1>3. pc[x] \in {"putL2", "aliasL2"} => Fits(Key(x)', buf'[x], now')
  BY <1>1, <1>2, FitsLater DEF WorkerOK
<1>4. pc[x] = "promote" => Fits(Key(x)', hit'[x], now')
  BY <1>1, <1>2, FitsLater DEF WorkerOK, SameLoop
<1>5. NegativeBound \in Int  BY PolicyAssumption DEF NegativeBound
<1>6. hit[x].exp \in Int /\ left[x] \in Int  BY DEF LoopTypes, EntryType
<1>7. pc[x] \in HitStates => HitOK(x)'
  BY <1>5, <1>6 DEF WorkerOK, HitOK, SameLoop
<1> QED  BY <1>3, <1>4, <1>5, <1>6, <1>7 DEF WorkerOK, SameLoop

-----------------------------------------------------------------------------
\* The parts that actions are made of.

\* A call that returns leaves an idle worker and disturbs no other.
LEMMA ReturnLoop ==
  ASSUME LoopTypes, NEW w \in Workers, Return(w)
  PROVE  /\ LoopTypes' /\ pc'[w] = "idle"
         /\ \A x \in Workers : x # w => SameLoop(x)
<1>1. pc' \in [Workers -> PCs] /\ pc'[w] = "idle"
  BY DEF LoopTypes, Return, PCs
<1>2. ks' \in [Workers -> KeyLists \cup {<<>>}] /\ idx' \in [Workers -> Nat]
  BY DEF LoopTypes, Return, SetIdx
<1>3. hitIdx' \in [Workers -> Nat] /\ left' \in [Workers -> Int]
  BY DEF LoopTypes, Return
<1>4. NoPut \in [kind : Kinds, ttl : CacheTTLs \cup {0}]  BY DEF NoPut, Kinds
<1>5. put' \in [Workers -> [kind : Kinds, ttl : CacheTTLs \cup {0}]]
  BY <1>4 DEF LoopTypes, Return
<1>6. hit' \in [Workers -> EntryType]  BY FitsNone DEF LoopTypes, Return
<1>7. marked' \in [Workers -> BOOLEAN]
  <2>1. marked \in [Workers -> BOOLEAN] /\ marked' = [marked EXCEPT ![w] = FALSE]
    BY DEF LoopTypes, Return
  <2> QED  BY <2>1, Zenon
<1>8. ASSUME NEW x \in Workers, x # w PROVE SameLoop(x)
  BY <1>8 DEF LoopTypes, Return, SetIdx, SameLoop
<1> QED  BY <1>1, <1>2, <1>3, <1>5, <1>6, <1>7, <1>8 DEF LoopTypes

\* The end of an iteration: the call returns, or goes on with its next key.
LEMMA ContinueLoop ==
  ASSUME LoopTypes, NEW w \in Workers, WorkerOK(w), pc[w] # "idle",
         NEW next \in PCs, Continue(w, next)
  PROVE  /\ LoopTypes'
         /\ \A x \in Workers : x # w => SameLoop(x)
         /\ pc'[w] # "idle" =>
              /\ pc'[w] = next /\ ks'[w] = ks[w] /\ idx'[w] \in 1..Len(ks[w])
              /\ hit'[w] = hit[w] /\ left'[w] = left[w]
<1>1. CASE Return(w)  BY <1>1, ReturnLoop
<1>2. CASE /\ ~LastKey(w) /\ pc' = [pc EXCEPT ![w] = next] /\ SetIdx(w, idx[w] + 1)
           /\ UNCHANGED <<ks, put, getVars>>
  <2>1. ks[w] \in Seq(Keys) /\ idx[w] \in 1..Len(ks[w])
    BY CacheAssumption DEF WorkerOK
  <2>2. idx[w] + 1 \in 1..Len(ks[w])  BY <1>2, <2>1 DEF LastKey
  <2>3. idx' \in [Workers -> Nat] /\ idx'[w] = idx[w] + 1
    BY <1>2, <2>1 DEF LoopTypes, SetIdx
  <2>4. pc' \in [Workers -> PCs] /\ pc'[w] = next  BY <1>2 DEF LoopTypes
  <2>5. LoopTypes'  BY <1>2, <2>3, <2>4 DEF LoopTypes, getVars
  <2>6. ASSUME NEW x \in Workers, x # w PROVE SameLoop(x)
    BY <1>2, <2>6 DEF LoopTypes, SetIdx, SameLoop, getVars
  <2> QED  BY <1>2, <2>2, <2>3, <2>4, <2>5, <2>6 DEF getVars
<1> QED  BY <1>1, <1>2 DEF Continue

\* An entry that fits the worker's key may go to L1, unless it is a marker.
LEMMA SetLocalLayers ==
  ASSUME LayerTypes, LayersOK, NEW w \in Workers, Key(w) \in Keys,
         NEW e, Fits(Key(w), e, now), e.kind # "marker",
         SetLocal(w, e), UNCHANGED <<now, l2>>
  PROVE  l1' \in [Nodes -> [Keys -> EntryType]] /\ LayersOK'
<1>1. NodeOf[w] \in Nodes  BY CacheAssumption
<1>2. e \in EntryType  BY DEF Fits
<1>3. CASE UNCHANGED l1  BY <1>3 DEF LayerTypes, LayersOK
<1>4. CASE l1' = [l1 EXCEPT ![NodeOf[w]] = [@ EXCEPT ![Key(w)] = e]]
  <2>1. l1' \in [Nodes -> [Keys -> EntryType]]  BY <1>1, <1>2, <1>4 DEF LayerTypes
  <2>2. ASSUME NEW n \in Nodes, NEW k \in Keys
        PROVE  (l1'[n][k] = e /\ k = Key(w)) \/ l1'[n][k] = l1[n][k]
    BY <1>1, <1>4 DEF LayerTypes
  <2>3. ASSUME NEW n \in Nodes, NEW k \in Keys
        PROVE  Fits(k, l1'[n][k], now') /\ l1'[n][k].kind # "marker"
    BY <2>2 DEF LayersOK
  <2> QED  BY <2>1, <2>3 DEF LayersOK
<1> QED  BY <1>3, <1>4 DEF SetLocal

\* An entry that fits a key may go to the store under it, or get lost.
LEMMA PutLayers ==
  ASSUME LayerTypes, LayersOK, NEW k \in Keys, NEW e, Fits(k, e, now),
         UNCHANGED l2 \/ l2' = [l2 EXCEPT ![k] = e], UNCHANGED <<now, l1>>
  PROVE  l2' \in [Keys -> EntryType] /\ LayersOK'
<1>1. e \in EntryType  BY DEF Fits
<1>2. l2' \in [Keys -> EntryType]  BY <1>1 DEF LayerTypes
<1>3. ASSUME NEW j \in Keys PROVE (l2'[j] = e /\ j = k) \/ l2'[j] = l2[j]
  BY DEF LayerTypes
<1>4. ASSUME NEW j \in Keys PROVE Fits(j, l2'[j], now')
  BY <1>3 DEF LayersOK
<1> QED  BY <1>2, <1>4 DEF LayersOK

\* A step of one worker that keeps the layers in order and the worker itself
\* keeps everything in order.
LEMMA OneWorker ==
  ASSUME Core, NEW w \in Workers, LoopTypes', LayerTypes', LayersOK', now' = now,
         \A x \in Workers : x # w => SameLoop(x) /\ buf'[x] = buf[x], WorkerOK(w)'
  PROVE  Core'
<1>1. now \in Int /\ now' \in Int /\ now <= now'  BY CacheAssumption DEF Core, LayerTypes
<1>2. ASSUME NEW x \in Workers PROVE WorkerOK(x)'
  <2>1. CASE x = w  BY <2>1
  <2>2. CASE x # w  BY <1>1, <2>2, Undisturbed DEF Core
  <2> QED  BY <2>1, <2>2
<1> QED  BY <1>2 DEF Core

\* An idle worker is in order.
LEMMA IdleOK ==
  ASSUME NEW w \in Workers, pc[w] = "idle"
  PROVE  WorkerOK(w)
BY DEF WorkerOK, HitStates, AliasStates

\* What WorkerOK says of the key of a worker with a call.
LEMMA KeyOK ==
  ASSUME NEW w \in Workers, WorkerOK(w), pc[w] # "idle"
  PROVE  ks[w] \in KeyLists /\ ks[w] \in Seq(Keys) /\ Key(w) \in Keys
           /\ KeyType[Key(w)] \in KeyTypes
BY CacheAssumption DEF WorkerOK, Key

\* A step that ends the call of a worker.
LEMMA Returning ==
  ASSUME Core, NEW w \in Workers, Return(w), LayerTypes', LayersOK', now' = now,
         \A x \in Workers : x # w => buf'[x] = buf[x]
  PROVE  Core'
<1>1. LoopTypes' /\ pc'[w] = "idle" /\ \A x \in Workers : x # w => SameLoop(x)
  BY ReturnLoop DEF Core
<1>2. WorkerOK(w)'  BY <1>1 DEF WorkerOK, HitStates, AliasStates
<1> QED  BY <1>1, <1>2, OneWorker

\* A step that ends an iteration of a worker's loop.
LEMMA Continuing ==
  ASSUME Core, NEW w \in Workers, pc[w] # "idle",
         NEW next \in {"getL2", "putL1", "markL2", "aliasing"}, Continue(w, next),
         next = "aliasing" => pc[w] \in AliasStates,
         LayerTypes', LayersOK', now' = now,
         \A x \in Workers : x # w => buf'[x] = buf[x]
  PROVE  Core'
<1>1. WorkerOK(w) /\ LoopTypes  BY DEF Core
<1>2. next \in PCs  BY DEF PCs, LookupStates
<1>3. /\ LoopTypes'
      /\ \A x \in Workers : x # w => SameLoop(x)
      /\ pc'[w] # "idle" =>
           /\ pc'[w] = next /\ ks'[w] = ks[w] /\ idx'[w] \in 1..Len(ks[w])
           /\ hit'[w] = hit[w] /\ left'[w] = left[w]
  BY <1>1, <1>2, ContinueLoop
<1>4. WorkerOK(w)'
  <2>1. CASE pc'[w] = "idle"  BY <2>1 DEF WorkerOK, HitStates, AliasStates
  <2>2. CASE pc'[w] # "idle" /\ next # "aliasing"
    BY <1>1, <1>3, <2>2 DEF WorkerOK, HitStates, AliasStates
  <2>3. CASE pc'[w] # "idle" /\ next = "aliasing"
    BY <1>1, <1>3, <2>3 DEF WorkerOK, HitStates, AliasStates, HitOK
  <2> QED  BY <2>1, <2>2, <2>3
<1> QED  BY <1>3, <1>4, OneWorker

-----------------------------------------------------------------------------
\* The actions, one by one.

\* A call starts at its first key.
LEMMA StartLoop ==
  ASSUME Core, NEW w \in Workers, NEW to \in {"getL1", "putL1", "markL2"}, Start(w, to),
         put' \in [Workers -> [kind : Kinds, ttl : CacheTTLs \cup {0}]],
         UNCHANGED <<now, l1, l2, getVars, buf>>
  PROVE  Core'
<1>1. PICK keys \in KeyLists :
        /\ pc' = [pc EXCEPT ![w] = to]
        /\ ks' = [ks EXCEPT ![w] = keys]
        /\ idx' = [idx EXCEPT ![w] = 1]
  BY DEF Start, Goto, SetIdx
<1>2. to \in PCs  BY DEF PCs, LookupStates
<1>3. LoopTypes'  BY <1>1, <1>2 DEF Core, LoopTypes, getVars
<1>4. LayerTypes' /\ LayersOK' /\ now' = now  BY DEF Core, LayerTypes, LayersOK
<1>5. ASSUME NEW x \in Workers, x # w PROVE SameLoop(x) /\ buf'[x] = buf[x]
  BY <1>1, <1>5 DEF Core, LoopTypes, SameLoop, getVars
<1>6. pc'[w] = to /\ ks'[w] = keys /\ idx'[w] = 1  BY <1>1 DEF Core, LoopTypes
<1>7. keys \in Seq(Keys) /\ keys # <<>>  BY CacheAssumption
<1>8. 1 \in 1..Len(keys)  BY <1>7
<1>9. WorkerOK(w)'  BY <1>6, <1>8 DEF WorkerOK, HitStates, AliasStates
<1> QED  BY <1>3, <1>4, <1>5, <1>9, OneWorker

\* Get, PutInProgress, PutResolved and PutNegative start.
LEMMA StartsCore ==
  ASSUME Core, NEW w \in Workers, StartGet(w) \/ StartMark(w) \/ StartPut(w)
  PROVE  Core'
<1>1. CASE StartGet(w)  BY <1>1, StartLoop DEF StartGet, Core, LoopTypes
<1>2. CASE StartMark(w)  BY <1>2, StartLoop DEF StartMark, Core, LoopTypes
<1>3. CASE StartPut(w)
  <2>1. put' \in [Workers -> [kind : Kinds, ttl : CacheTTLs \cup {0}]]
    BY <1>3 DEF StartPut, Core, LoopTypes, Kinds
  <2> QED  BY <1>3, <2>1, StartLoop DEF StartPut
<1> QED  BY <1>1, <1>2, <1>3

\* What is found in a layer under the worker's key is resolved and in order.
LEMMA FoundOK ==
  ASSUME Core, NEW w \in Workers, pc[w] # "idle", NEW e,
         e = l2[Key(w)] \/ e = Local(w)[Key(w)], Resolved(e)
  PROVE  /\ e \in EntryType /\ Fits(Key(w), e, now) /\ e.kind \in {"hit", "negative"}
         /\ e.exp <= e.due
         /\ e.kind = "negative" => e.exp <= now + NegativeBound
<1>1. Key(w) \in Keys /\ NodeOf[w] \in Nodes  BY KeyOK, CacheAssumption DEF Core
<1>2. Fits(Key(w), e, now)  BY <1>1 DEF Core, LayersOK, Local
<1>3. e \in EntryType  BY <1>2 DEF Fits
<1>4. e.kind \in {"hit", "negative"}
  BY <1>3 DEF Resolved, Found, EntryType, Kinds
<1> QED  BY <1>2, <1>3, <1>4 DEF Fits, CeilingOf

\* One key of the first loop of Get.
LEMMA GetLocalCore ==
  ASSUME Core, NEW w \in Workers, GetLocal(w)
  PROVE  Core'
<1>1. LayerTypes' /\ LayersOK' /\ now' = now  BY DEF GetLocal, Core, LayerTypes, LayersOK
<1>2. pc[w] = "getL1" /\ WorkerOK(w) /\ ks[w] \in KeyLists /\ idx[w] \in 1..Len(ks[w])
      /\ Len(ks[w]) \in Nat
  <2>1. pc[w] = "getL1" /\ WorkerOK(w)  BY DEF GetLocal, Core
  <2>2. ks[w] \in KeyLists /\ idx[w] \in 1..Len(ks[w])  BY <2>1 DEF WorkerOK
  <2> QED  BY <2>1, <2>2, CacheAssumption
<1>3. CASE /\ Resolved(Local(w)[Key(w)])
           /\ Goto(w, "getL1", "backfill")
           /\ FoundAt(w, Local(w)[Key(w)])
           /\ UNCHANGED idx
  <2> DEFINE e == Local(w)[Key(w)]
  <2>1. /\ e \in EntryType /\ e.kind \in {"hit", "negative"} /\ e.exp <= e.due
        /\ e.kind = "negative" => e.exp <= now + NegativeBound
    BY <1>2, <1>3, FoundOK
  <2> HIDE DEF e
  <2>2. /\ pc' = [pc EXCEPT ![w] = "backfill"] /\ hit' = [hit EXCEPT ![w] = e]
        /\ hitIdx' = [hitIdx EXCEPT ![w] = idx[w]]
        /\ UNCHANGED <<idx, ks, put, marked, left, buf>>
    BY <1>3 DEF GetLocal, Goto, FoundAt, e
  <2>3. LoopTypes'  BY <2>1, <2>2 DEF Core, LoopTypes, PCs
  <2>4. ASSUME NEW x \in Workers, x # w PROVE SameLoop(x) /\ buf'[x] = buf[x]
    BY <2>2, <2>4 DEF Core, LoopTypes, SameLoop
  <2>5. pc'[w] = "backfill" /\ hit'[w] = e  BY <2>2 DEF Core, LoopTypes
  <2>6. WorkerOK(w)'
    BY <1>1, <1>2, <2>1, <2>2, <2>5 DEF WorkerOK, HitStates, AliasStates, HitOK
  <2> QED  BY <1>1, <2>3, <2>4, <2>6, OneWorker
<1>4. CASE /\ ~Resolved(Local(w)[Key(w)])
           /\ SetIdx(w, IF LastKey(w) THEN 1 ELSE idx[w] + 1)
           /\ pc' = [pc EXCEPT ![w] = IF LastKey(w) THEN "getL2" ELSE "getL1"]
           /\ UNCHANGED <<hit, hitIdx>>
  <2> DEFINE i == IF LastKey(w) THEN 1 ELSE idx[w] + 1
             p == IF LastKey(w) THEN "getL2" ELSE "getL1"
  <2>1. i \in 1..Len(ks[w]) /\ i \in Nat  BY <1>2 DEF LastKey
  <2>2. p \in {"getL1", "getL2"}  OBVIOUS
  <2> HIDE DEF i, p
  <2>3. /\ pc' = [pc EXCEPT ![w] = p] /\ idx' = [idx EXCEPT ![w] = i]
        /\ UNCHANGED <<hit, hitIdx, ks, put, marked, left, buf>>
    BY <1>4 DEF GetLocal, SetIdx, i, p
  <2>4. LoopTypes'  BY <2>1, <2>2, <2>3 DEF Core, LoopTypes, PCs, LookupStates
  <2>5. ASSUME NEW x \in Workers, x # w PROVE SameLoop(x) /\ buf'[x] = buf[x]
    BY <2>3, <2>5 DEF Core, LoopTypes, SameLoop
  <2>6. pc'[w] = p /\ idx'[w] = i  BY <2>3 DEF Core, LoopTypes
  <2>7. WorkerOK(w)'
    BY <1>2, <2>1, <2>2, <2>3, <2>6 DEF WorkerOK, HitStates, AliasStates
  <2> QED  BY <1>1, <2>4, <2>5, <2>7, OneWorker
<1> QED  BY <1>3, <1>4 DEF GetLocal

\* One key of the second loop that Get does not find resolved.
LEMMA GetStoreCore ==
  ASSUME Core, NEW w \in Workers, GetStoreMarker(w) \/ GetStoreMiss(w) \/ GetStoreError(w)
  PROVE  Core'
<1>1. pc[w] = "getL2" /\ UNCHANGED <<now, l1, l2, buf>>
  BY DEF GetStoreMarker, GetStoreMiss, GetStoreError
<1>2. LayerTypes' /\ LayersOK' /\ now' = now  BY <1>1 DEF Core, LayerTypes, LayersOK
<1>3. CASE Continue(w, "getL2")  BY <1>1, <1>2, <1>3, Continuing
<1>4. CASE Return(w)  BY <1>1, <1>2, <1>4, Returning
<1>5. CASE /\ ~LastKey(w) /\ SetIdx(w, idx[w] + 1)
           /\ marked' = [marked EXCEPT ![w] = TRUE]
           /\ UNCHANGED <<pc, ks, put, hit, hitIdx, left>>
  <2>1. WorkerOK(w) /\ ks[w] \in KeyLists /\ idx[w] \in 1..Len(ks[w])
    BY <1>1 DEF Core, WorkerOK
  <2>2. Len(ks[w]) \in Nat  BY <2>1, CacheAssumption
  <2>3. idx[w] + 1 \in 1..Len(ks[w])  BY <1>5, <2>1, <2>2 DEF LastKey
  <2>4. idx' \in [Workers -> Nat] /\ idx'[w] = idx[w] + 1
    BY <1>5, <2>3 DEF Core, LoopTypes, SetIdx
  <2>5. marked' \in [Workers -> BOOLEAN]
    <3>1. marked \in [Workers -> BOOLEAN]  BY DEF Core, LoopTypes
    <3> QED  BY <1>5, <3>1, Zenon
  <2>6. LoopTypes'  BY <1>5, <2>4, <2>5 DEF Core, LoopTypes
  <2>7. ASSUME NEW x \in Workers, x # w PROVE SameLoop(x) /\ buf'[x] = buf[x]
    BY <1>1, <1>5, <2>7 DEF Core, LoopTypes, SameLoop, SetIdx
  <2>8. WorkerOK(w)'  BY <1>1, <1>5, <2>1, <2>3, <2>4 DEF WorkerOK, HitStates, AliasStates
  <2> QED  BY <1>2, <2>6, <2>7, <2>8, OneWorker
<1> QED  BY <1>3, <1>4, <1>5 DEF GetStoreMarker, GetStoreMiss, GetStoreError

\* Get finds a resolved entry in the store.
LEMMA GetStoreHitCore ==
  ASSUME Core, NEW w \in Workers, GetStoreHit(w)
  PROVE  Core'
<1> DEFINE e == l2[Key(w)]
<1>1. pc[w] = "getL2" /\ Resolved(e)  BY DEF GetStoreHit, Goto
<1>2. /\ e \in EntryType /\ Fits(Key(w), e, now) /\ e.kind \in {"hit", "negative"}
      /\ e.exp <= e.due
      /\ e.kind = "negative" => e.exp <= now + NegativeBound
  BY <1>1, FoundOK
<1> HIDE DEF e
<1>3. /\ pc' = [pc EXCEPT ![w] = "promote"] /\ hit' = [hit EXCEPT ![w] = e]
      /\ hitIdx' = [hitIdx EXCEPT ![w] = idx[w]]
      /\ UNCHANGED <<now, l1, l2, idx, ks, put, marked, left, buf>>
  BY DEF GetStoreHit, Goto, FoundAt, loopVars, e
<1>4. LayerTypes' /\ LayersOK' /\ now' = now  BY <1>3 DEF Core, LayerTypes, LayersOK
<1>5. LoopTypes'  BY <1>2, <1>3 DEF Core, LoopTypes, PCs
<1>6. ASSUME NEW x \in Workers, x # w PROVE SameLoop(x) /\ buf'[x] = buf[x]
  BY <1>3, <1>6 DEF Core, LoopTypes, SameLoop
<1>7. pc'[w] = "promote" /\ hit'[w] = e  BY <1>3 DEF Core, LoopTypes
<1>8. WorkerOK(w)'
  BY <1>1, <1>2, <1>3, <1>7 DEF Core, WorkerOK, HitStates, AliasStates, HitOK, Key
<1> QED  BY <1>4, <1>5, <1>6, <1>8, OneWorker

\* promote brings the entry that was found into L1 under the same key.
LEMMA PromoteCore ==
  ASSUME Core, NEW w \in Workers, Promote(w)
  PROVE  Core'
<1>1. /\ pc[w] = "promote" /\ pc' = [pc EXCEPT ![w] = "backfill"]
      /\ UNCHANGED <<now, l2, idx, ks, put, hit, hitIdx, marked, left, buf>>
  BY DEF Promote, Goto, loopVars, getVars
<1>2. WorkerOK(w)  BY DEF Core
<1>3. Key(w) \in Keys /\ Fits(Key(w), hit[w], now) /\ HitOK(w)
  BY <1>1, <1>2, KeyOK DEF WorkerOK, HitStates, AliasStates
<1>4. l1' \in [Nodes -> [Keys -> EntryType]] /\ LayersOK'
  <2>1. CASE SetLocal(w, hit[w])
    BY <1>1, <1>3, <2>1, SetLocalLayers DEF Core, HitOK
  <2>2. CASE UNCHANGED l1  BY <1>1, <2>2 DEF Core, LayerTypes, LayersOK
  <2> QED  BY <2>1, <2>2 DEF Promote
<1>5. LayerTypes'  BY <1>1, <1>4 DEF Core, LayerTypes
<1>6. LoopTypes'  BY <1>1 DEF Core, LoopTypes, PCs
<1>7. ASSUME NEW x \in Workers, x # w PROVE SameLoop(x) /\ buf'[x] = buf[x]
  BY <1>1, <1>7 DEF Core, LoopTypes, SameLoop
<1>8. pc'[w] = "backfill"  BY <1>1 DEF Core, LoopTypes
<1>9. WorkerOK(w)'  BY <1>1, <1>2, <1>3, <1>8 DEF WorkerOK, HitStates, AliasStates, HitOK
<1> QED  BY <1>1, <1>4, <1>5, <1>6, <1>7, <1>9, OneWorker

\* backfill begins: the remaining time is bounded as the entry's expiry is.
LEMMA StartBackfillCore ==
  ASSUME Core, NEW w \in Workers, StartBackfill(w)
  PROVE  Core'
<1>1. pc[w] = "backfill" /\ UNCHANGED <<now, l1, l2, buf>>  BY DEF StartBackfill
<1>2. LayerTypes' /\ LayersOK' /\ now' = now  BY <1>1 DEF Core, LayerTypes, LayersOK
<1>3. CASE Return(w)  BY <1>1, <1>2, <1>3, Returning
<1>4. CASE /\ hit[w].exp > now
           /\ Goto(w, "backfill", "aliasing")
           /\ left' = [left EXCEPT ![w] = hit[w].exp - now]
           /\ SetIdx(w, 1)
           /\ UNCHANGED <<ks, put, hit, hitIdx, marked>>
  <2>1. WorkerOK(w) /\ HitOK(w) /\ ks[w] \in KeyLists /\ ks[w] \in Seq(Keys)
        /\ idx[w] \in 1..Len(ks[w])
    BY <1>1, KeyOK DEF Core, WorkerOK, HitStates, AliasStates
  <2>2. hit[w].exp \in Int /\ now \in Int /\ NegativeBound \in Int
    BY CacheAssumption, PolicyAssumption
    DEF Core, LoopTypes, LayerTypes, EntryType, NegativeBound
  <2>3. /\ pc' = [pc EXCEPT ![w] = "aliasing"] /\ idx' = [idx EXCEPT ![w] = 1]
    BY <1>4 DEF Goto, SetIdx
  <2>4. LoopTypes'
    BY <1>4, <2>2, <2>3 DEF Core, LoopTypes, PCs
  <2>5. ASSUME NEW x \in Workers, x # w PROVE SameLoop(x) /\ buf'[x] = buf[x]
    BY <1>1, <1>4, <2>3, <2>5 DEF Core, LoopTypes, SameLoop
  <2>6. pc'[w] = "aliasing" /\ idx'[w] = 1 /\ left'[w] = hit[w].exp - now
    BY <1>4, <2>3 DEF Core, LoopTypes
  <2>7. 1 \in 1..Len(ks[w])  BY <2>1
  <2>8. WorkerOK(w)'
    BY <1>1, <1>4, <2>1, <2>2, <2>6, <2>7 DEF WorkerOK, HitStates, AliasStates, HitOK
  <2> QED  BY <1>2, <2>4, <2>5, <2>8, OneWorker
<1> QED  BY <1>3, <1>4 DEF StartBackfill

\* backfill passes over a key.
LEMMA SkipAliasCore ==
  ASSUME Core, NEW w \in Workers, SkipAlias(w)
  PROVE  Core'
<1>1. pc[w] = "aliasing" /\ UNCHANGED <<now, l1, l2, buf>> /\ Continue(w, "aliasing")
  BY DEF SkipAlias
<1>2. LayerTypes' /\ LayersOK' /\ now' = now  BY <1>1 DEF Core, LayerTypes, LayersOK
<1> QED  BY <1>1, <1>2, Continuing DEF AliasStates

\* backfill finds no entry under a key.
LEMMA CheckAliasCore ==
  ASSUME Core, NEW w \in Workers, CheckAlias(w)
  PROVE  Core'
<1>1. /\ pc[w] = "aliasing" /\ pc' = [pc EXCEPT ![w] = "aliasL1"]
      /\ UNCHANGED <<now, l1, l2, ks, idx, put, hit, hitIdx, marked, left, buf>>
  BY DEF CheckAlias, Goto, loopVars, getVars
<1>2. LayerTypes' /\ LayersOK' /\ now' = now  BY <1>1 DEF Core, LayerTypes, LayersOK
<1>3. LoopTypes'  BY <1>1 DEF Core, LoopTypes, PCs
<1>4. ASSUME NEW x \in Workers, x # w PROVE SameLoop(x) /\ buf'[x] = buf[x]
  BY <1>1, <1>4 DEF Core, LoopTypes, SameLoop
<1>5. pc'[w] = "aliasL1" /\ WorkerOK(w)  BY <1>1 DEF Core, LoopTypes
<1>6. WorkerOK(w)'  BY <1>1, <1>5 DEF WorkerOK, HitStates, AliasStates, HitOK, Key
<1> QED  BY <1>2, <1>3, <1>4, <1>6, OneWorker

\* The alias fits the key it is for: its ceiling caps it, and it lives no longer
\* than the entry it copies but for the time since backfill began.
LEMMA AliasFits ==
  ASSUME Core, NEW w \in Workers, pc[w] = "aliasL1"
  PROVE  Fits(Key(w), AliasOf(w), now) /\ AliasOf(w).kind # "marker"
<1>1. WorkerOK(w) /\ HitOK(w) /\ Key(w) \in Keys /\ KeyType[Key(w)] \in KeyTypes
  BY KeyOK DEF Core, WorkerOK, HitStates, AliasStates
<1>2. /\ hit[w].exp \in Int /\ hit[w].due \in Int /\ left[w] \in Int /\ now \in Int
      /\ hit[w].exp <= now + left[w]
      /\ hit[w].kind = "negative" => left[w] <= NegativeBound
  BY <1>1, CacheAssumption DEF Core, LoopTypes, LayerTypes, EntryType, WorkerOK, AliasStates
<1> DEFINE c == CeilingFor(KeyType[Key(w)])
           d == Least(left[w], c)
<1>3. c \in Int /\ NegativeBound \in Int  BY <1>1, PolicyBounds
<1>4. d \in Int /\ d <= left[w] /\ d <= c  BY <1>2, <1>3 DEF Least
<1>5. AliasOf(w) = [kind |-> hit[w].kind, exp |-> now + d, due |-> hit[w].due + Elapsed(w)]
  BY DEF AliasOf, Entry
<1> HIDE DEF d
<1>6. Elapsed(w) = now - (hit[w].exp - left[w])  BY DEF Elapsed
<1>7. now + d <= hit[w].due + Elapsed(w) /\ hit[w].due + Elapsed(w) \in Int
  BY <1>1, <1>2, <1>4, <1>6 DEF HitOK
<1>8. hit[w].kind \in {"hit", "negative"}  BY <1>1 DEF HitOK
<1>9. now + d <= now + CeilingOf(Key(w), hit[w].kind)
  BY <1>2, <1>3, <1>4, <1>8 DEF CeilingOf
<1>10. AliasOf(w) \in EntryType
  BY <1>2, <1>4, <1>5, <1>7, <1>8 DEF EntryType, Kinds
<1> QED  BY <1>5, <1>7, <1>8, <1>9, <1>10 DEF Fits

\* writeBoth, its first half: an entry that fits goes to L1 and into the buffer.
LEMMA WriteLocalCore ==
  ASSUME Core, NEW w \in Workers, pc[w] # "idle",
         NEW e, Fits(Key(w), e, now), e.kind # "marker",
         NEW to \in {"putL2", "aliasL2"}, pc' = [pc EXCEPT ![w] = to],
         to = "aliasL2" => pc[w] = "aliasL1",
         WriteLocal(w, e), UNCHANGED <<now, l2, loopVars, getVars>>
  PROVE  Core'
<1>1. /\ buf' = [buf EXCEPT ![w] = e] /\ SetLocal(w, e)
      /\ UNCHANGED <<now, l2, ks, idx, put, hit, hitIdx, marked, left>>
  BY DEF WriteLocal, loopVars, getVars
<1>2. WorkerOK(w) /\ Key(w) \in Keys  BY KeyOK DEF Core
<1>3. l1' \in [Nodes -> [Keys -> EntryType]] /\ LayersOK'
  BY <1>1, <1>2, SetLocalLayers DEF Core
<1>4. e \in EntryType  BY DEF Fits
<1>5. LayerTypes'  BY <1>1, <1>3, <1>4 DEF Core, LayerTypes
<1>6. LoopTypes'  BY <1>1 DEF Core, LoopTypes, PCs
<1>7. ASSUME NEW x \in Workers, x # w PROVE SameLoop(x) /\ buf'[x] = buf[x]
  BY <1>1, <1>7 DEF Core, LoopTypes, LayerTypes, SameLoop
<1>8. pc'[w] = to /\ buf'[w] = e  BY <1>1 DEF Core, LoopTypes, LayerTypes
<1>9. WorkerOK(w)'
  BY <1>1, <1>2, <1>8 DEF WorkerOK, HitStates, AliasStates, HitOK, Key
<1> QED  BY <1>1, <1>3, <1>5, <1>6, <1>7, <1>9, OneWorker

\* writeBoth, its second half: the buffer goes to the store, or gets lost.
LEMMA WriteStoreCore ==
  ASSUME Core, NEW w \in Workers, pc[w] \in {"putL2", "aliasL2"}, WriteStore(w),
         Continue(w, IF pc[w] = "putL2" THEN "putL1" ELSE "aliasing"), UNCHANGED <<now, l1>>
  PROVE  Core'
<1>1. WorkerOK(w) /\ Key(w) \in Keys /\ Fits(Key(w), buf[w], now)
  BY KeyOK DEF Core, WorkerOK
<1>2. /\ UNCHANGED l2 \/ l2' = [l2 EXCEPT ![Key(w)] = buf[w]]
      /\ buf' = [buf EXCEPT ![w] = NoEntry]
  BY DEF WriteStore
<1>3. l2' \in [Keys -> EntryType] /\ LayersOK'
  BY <1>1, <1>2, PutLayers DEF Core
<1>4. LayerTypes'  BY <1>2, <1>3, FitsNone DEF Core, LayerTypes
<1>5. ASSUME NEW x \in Workers, x # w PROVE buf'[x] = buf[x]
  BY <1>2, <1>5 DEF Core, LayerTypes
<1>6. CASE pc[w] = "putL2"
  BY <1>3, <1>4, <1>5, <1>6, Continuing
<1>7. CASE pc[w] = "aliasL2"
  BY <1>3, <1>4, <1>5, <1>7, Continuing DEF AliasStates
<1> QED  BY <1>6, <1>7

\* The writes of an alias.
LEMMA AliasCore ==
  ASSUME Core, NEW w \in Workers, WriteAlias(w) \/ WriteAliasL2(w)
  PROVE  Core'
<1>1. CASE WriteAlias(w)
  <2>1. pc[w] = "aliasL1" /\ pc' = [pc EXCEPT ![w] = "aliasL2"]
    BY <1>1 DEF WriteAlias, Goto
  <2>2. Fits(Key(w), AliasOf(w), now) /\ AliasOf(w).kind # "marker"  BY <2>1, AliasFits
  <2>3. WriteLocal(w, AliasOf(w)) /\ UNCHANGED <<now, l2, loopVars, getVars>>
    BY <1>1 DEF WriteAlias
  <2> QED  BY <2>1, <2>2, <2>3, WriteLocalCore
<1>2. CASE WriteAliasL2(w)
  BY <1>2, WriteStoreCore DEF WriteAliasL2
<1> QED  BY <1>1, <1>2

\* What PutResolved and PutNegative write fits its key.
LEMMA PutFits ==
  ASSUME Core, NEW w \in Workers, pc[w] # "idle"
  PROVE  Fits(Key(w), PutEntry(w), now) /\ PutEntry(w).kind # "marker"
<1>1. Key(w) \in Keys /\ KeyType[Key(w)] \in KeyTypes  BY KeyOK DEF Core
<1> DEFINE type == KeyType[Key(w)]
           ttl == put[w].ttl
<1>2. ttl \in Nat /\ now \in Int
  <2>1. put[w] \in [kind : Kinds, ttl : CacheTTLs \cup {0}]  BY DEF Core, LoopTypes
  <2>2. put[w].ttl \in CacheTTLs \cup {0}  BY <2>1
  <2>3. ttl \in Nat
    <3>1. \A t \in CacheTTLs : t \in Nat  BY CacheAssumption
    <3>2. CASE put[w].ttl \in CacheTTLs  BY <3>1, <3>2
    <3>3. CASE put[w].ttl = 0  BY <3>3
    <3> QED  BY <2>2, <3>2, <3>3
  <2>4. now \in Int  BY CacheAssumption DEF Core, LayerTypes
  <2> QED  BY <2>3, <2>4
<1>3. /\ CeilingFor(type) \in Int /\ NegativeBound \in Int
      /\ BaseTTL(ttl) \in Int /\ EffectiveTTL(type, ttl) \in Int
      /\ EffectiveTTL(type, ttl) <= BaseTTL(ttl)
      /\ EffectiveTTL(type, ttl) <= CeilingFor(type)
      /\ NegativeTTLFor(ttl) \in Int /\ NegativeTTLFor(ttl) <= NegativeBound
  BY <1>1, <1>2, PolicyBounds
<1>4. CASE put[w].kind = "hit"
  <2>1. PutEntry(w) = [kind |-> "hit", exp |-> now + EffectiveTTL(type, ttl),
                       due |-> now + BaseTTL(ttl)]
    BY <1>4 DEF PutEntry, Entry
  <2>2. CeilingOf(Key(w), "hit") = CeilingFor(type)  BY DEF CeilingOf
  <2> HIDE DEF type, ttl
  <2> QED  BY <1>2, <1>3, <2>1, <2>2 DEF Fits, EntryType, Kinds
<1>5. CASE put[w].kind # "hit"
  <2>1. PutEntry(w) = [kind |-> "negative", exp |-> now + NegativeTTLFor(ttl),
                       due |-> now + NegativeTTLFor(ttl)]
    BY <1>5 DEF PutEntry, Entry
  <2>2. CeilingOf(Key(w), "negative") = NegativeBound  BY DEF CeilingOf
  <2> HIDE DEF type, ttl
  <2> QED  BY <1>2, <1>3, <2>1, <2>2 DEF Fits, EntryType, Kinds
<1> QED  BY <1>4, <1>5

\* The writes of PutResolved and PutNegative.
LEMMA PutCore ==
  ASSUME Core, NEW w \in Workers, PutLocal(w) \/ PutStore(w)
  PROVE  Core'
<1>1. CASE PutLocal(w)
  <2>1. pc[w] = "putL1" /\ pc' = [pc EXCEPT ![w] = "putL2"]
    BY <1>1 DEF PutLocal, Goto
  <2>2. Fits(Key(w), PutEntry(w), now) /\ PutEntry(w).kind # "marker"  BY <2>1, PutFits
  <2>3. WriteLocal(w, PutEntry(w)) /\ UNCHANGED <<now, l2, loopVars, getVars>>
    BY <1>1 DEF PutLocal
  <2> QED  BY <2>1, <2>2, <2>3, WriteLocalCore
<1>2. CASE PutStore(w)
  BY <1>2, WriteStoreCore DEF PutStore
<1> QED  BY <1>1, <1>2

\* The writes of PutInProgress.
LEMMA MarkCore ==
  ASSUME Core, NEW w \in Workers, MarkStore(w)
  PROVE  Core'
<1>1. /\ pc[w] = "markL2" /\ Continue(w, "markL2") /\ UNCHANGED <<now, l1, buf>>
      /\ UNCHANGED l2 \/ l2' = [l2 EXCEPT ![Key(w)] = Marker]
  BY DEF MarkStore
<1>2. Key(w) \in Keys  BY <1>1, KeyOK DEF Core
<1>3. now + MarkerTTL \in Int  BY CacheAssumption DEF Core, LayerTypes
<1>4. Fits(Key(w), Marker, now)
  BY <1>3 DEF Fits, Marker, Entry, EntryType, Kinds, CeilingOf
<1>5. l2' \in [Keys -> EntryType] /\ LayersOK'
  BY <1>1, <1>2, <1>4, PutLayers DEF Core
<1>6. LayerTypes'  BY <1>1, <1>5 DEF Core, LayerTypes
<1> QED  BY <1>1, <1>5, <1>6, Continuing

\* Entries disappear and time passes.
LEMMA WorldCore ==
  ASSUME Core, DropLocal \/ DropStore \/ Tick
  PROVE  Core'
<1>1. UNCHANGED <<pc, ks, idx, put, hit, hitIdx, marked, left, buf>>
  BY DEF DropLocal, DropStore, Tick, loopVars, getVars
<1>2. LoopTypes'  BY <1>1 DEF Core, LoopTypes
<1>3. now \in Int /\ now' \in Int /\ now <= now'
  BY CacheAssumption DEF Core, LayerTypes, DropLocal, DropStore, Tick
<1>4. \A x \in Workers : WorkerOK(x)'
  BY <1>1, <1>3, Undisturbed DEF Core, SameLoop
<1>5. LayerTypes' /\ LayersOK'
  <2>1. CASE DropLocal
    <3>1. PICK n \in Nodes, k \in Keys :
            l1' = [l1 EXCEPT ![n] = [@ EXCEPT ![k] = NoEntry]] /\ UNCHANGED <<now, l2>>
      BY <2>1 DEF DropLocal
    <3>2. LayerTypes'  BY <1>1, <3>1, FitsNone DEF Core, LayerTypes
    <3>3. ASSUME NEW m \in Nodes, NEW j \in Keys
          PROVE  l1'[m][j] = NoEntry \/ l1'[m][j] = l1[m][j]
      BY <3>1 DEF Core, LayerTypes
    <3>4. ASSUME NEW m \in Nodes, NEW j \in Keys
          PROVE  Fits(j, l1'[m][j], now') /\ l1'[m][j].kind # "marker"
      BY <3>1, <3>3, FitsNone DEF Core, LayersOK
    <3> QED  BY <3>1, <3>2, <3>4 DEF Core, LayersOK
  <2>2. CASE DropStore
    <3>1. PICK k \in Keys : l2' = [l2 EXCEPT ![k] = NoEntry] /\ UNCHANGED <<now, l1>>
      BY <2>2 DEF DropStore
    <3>2. l2' \in [Keys -> EntryType] /\ LayersOK'
      BY <3>1, FitsNone, PutLayers DEF Core
    <3> QED  BY <1>1, <3>1, <3>2 DEF Core, LayerTypes
  <2>3. CASE Tick
    <3>1. now' \in 0..MaxTime /\ UNCHANGED <<l1, l2>>
      BY <2>3, CacheAssumption DEF Core, LayerTypes, Tick
    <3>2. LayerTypes'  BY <1>1, <3>1 DEF Core, LayerTypes
    <3>3. LayersOK'  BY <1>3, <3>1, FitsLater DEF Core, LayersOK
    <3> QED  BY <3>2, <3>3
  <2> QED  BY <2>1, <2>2, <2>3
<1> QED  BY <1>2, <1>4, <1>5 DEF Core

-----------------------------------------------------------------------------
\* The invariant.

\* A cache that New has just built is in order.
LEMMA InitCacheInv == Init => CacheInv
<1> SUFFICES ASSUME Init PROVE CacheInv
  OBVIOUS
<1>1. NoPut \in [kind : Kinds, ttl : CacheTTLs \cup {0}]  BY DEF NoPut, Kinds
<1>2. marked \in [Workers -> BOOLEAN]  BY Zenon DEF Init
<1>3. LoopTypes  BY <1>1, <1>2, FitsNone DEF Init, LoopTypes, PCs
<1>4. LayerTypes
  <2>1. NoEntry \in EntryType  BY FitsNone
  <2>2. now \in 0..MaxTime  BY CacheAssumption DEF Init
  <2>3. l1 \in [Nodes -> [Keys -> EntryType]]  BY <2>1 DEF Init
  <2>4. l2 \in [Keys -> EntryType] /\ buf \in [Workers -> EntryType]  BY <2>1 DEF Init
  <2> QED  BY <2>2, <2>3, <2>4 DEF LayerTypes
<1>5. SteadyType  BY DEF Init, SteadyType
<1>6. LayersOK  BY FitsNone DEF Init, LayersOK
<1>7. \A w \in Workers : WorkerOK(w)  BY DEF Init, WorkerOK, HitStates, AliasStates
<1> QED  BY <1>3, <1>4, <1>5, <1>6, <1>7, TypeParts DEF CacheInv

\* Every step of a worker keeps the cache in order.
LEMMA StepCore ==
  ASSUME Core, NEW w \in Workers, Step(w) \/ GetStoreError(w)
  PROVE  Core'
BY StartsCore, GetLocalCore, GetStoreCore, GetStoreHitCore, PromoteCore, StartBackfillCore,
   SkipAliasCore, CheckAliasCore, AliasCore, PutCore, MarkCore DEF Step

\* Every step preserves the invariant.
LEMMA NextCacheInv == CacheInv /\ [Next]_vars => CacheInv'
<1> SUFFICES ASSUME CacheInv, [Next]_vars PROVE CacheInv'
  OBVIOUS
<1>1. Core /\ SteadyType  BY TypeParts DEF CacheInv, Core
<1>2. CASE UNCHANGED vars
  <2>1. Core'
    BY <1>1, <1>2 DEF Core, LoopTypes, LayerTypes, LayersOK, WorkerOK, HitOK, Key, vars, loopVars, getVars
  <2>2. SteadyType'  BY <1>1, <1>2 DEF SteadyType, vars
  <2>3. TypeOK'  BY <2>1, <2>2, TypeParts, PTL DEF Core
  <2> QED  BY <2>1, <2>3 DEF CacheInv, Core
<1>3. CASE Next
  <2>1. Core'  BY <1>1, <1>3, StepCore, WorldCore DEF Next
  <2>2. SteadyType'
    <3>1. PICK unread : TrackSteady(unread)  BY <1>3 DEF Next
    <3> QED  BY <1>1, <3>1 DEF TrackSteady, SteadyType
  <2>3. TypeOK'  BY <2>1, <2>2, TypeParts, PTL DEF Core
  <2> QED  BY <2>1, <2>3 DEF CacheInv, Core
<1> QED  BY <1>2, <1>3

\* Theorem: entries in the layers and in flight between them are in order in
\* every reachable state of the cache, however Gets, Puts, failures, drops and
\* the clock interleave (CacheInv).
THEOREM CacheInvCorrect == Spec => []CacheInv
BY InitCacheInv, NextCacheInv, PTL DEF Spec

\* Theorem: the types of the cache's state are kept.
THEOREM CacheTypes == Spec => []TypeOK
<1>1. CacheInv => TypeOK  BY DEF CacheInv
<1> QED  BY <1>1, CacheInvCorrect, PTL

\* Theorem: neither promote nor backfill nor a Put brings a marker into L1.
THEOREM MarkersInL2 == Spec => []MarkersStayInL2
<1>1. CacheInv => MarkersStayInL2  BY DEF CacheInv, LayersOK, MarkersStayInL2
<1> QED  BY <1>1, CacheInvCorrect, PTL

\* Theorem: no entry in either layer outlives the ceiling of its key's type.
THEOREM CeilingsKept == Spec => []CeilingRespected
<1>1. CacheInv => CeilingRespected
  BY DEF CacheInv, LayersOK, CeilingRespected, WithinCeiling, Fits
<1> QED  BY <1>1, CacheInvCorrect, PTL

\* Theorem: no entry expires after the deadline of the answer it stems from,
\* put off by the backfills in between.
THEOREM DeadlinesKept == Spec => []AliasWithinDeadline
<1>1. CacheInv => AliasWithinDeadline
  BY DEF CacheInv, LayersOK, AliasWithinDeadline, Fits
<1> QED  BY <1>1, CacheInvCorrect, PTL

-----------------------------------------------------------------------------
\* What a Get has looked at.

\* Keys tracked as steady have a resolved entry in L2, and no key that the second
\* loop of a Get has passed is one.
ScanOK(w) ==
  /\ \A k \in steady[w] : Resolved(l2[k])
  /\ pc[w] = "getL2" => \A i \in 1..Len(ks[w]) : i < idx[w] => ks[w][i] \notin steady[w]

ScanInv == CacheInv /\ \A w \in Workers : ScanOK(w)

\* A step of one worker leaves the loops of the others alone.
LEMMA OthersLoop ==
  ASSUME Core, NEW w \in Workers, Step(w) \/ GetStoreError(w), NEW x \in Workers, x # w
  PROVE  pc'[x] = pc[x] /\ ks'[x] = ks[x] /\ idx'[x] = idx[x]
<1>1. /\ pc \in [Workers -> PCs] /\ ks \in [Workers -> KeyLists \cup {<<>>}]
      /\ idx \in [Workers -> Nat]
  BY DEF Core, LoopTypes
<1>2. ASSUME Return(w) PROVE pc'[x] = pc[x] /\ ks'[x] = ks[x] /\ idx'[x] = idx[x]
  BY <1>1, <1>2 DEF Return, SetIdx
<1>3. ASSUME NEW next, Continue(w, next)
      PROVE  pc'[x] = pc[x] /\ ks'[x] = ks[x] /\ idx'[x] = idx[x]
  BY <1>1, <1>2, <1>3 DEF Continue, SetIdx
<1>4. CASE StartGet(w) \/ StartPut(w) \/ StartMark(w)
  BY <1>1, <1>4 DEF StartGet, StartPut, StartMark, Start, Goto, SetIdx
<1>5. CASE GetLocal(w)  BY <1>1, <1>5 DEF GetLocal, Goto, SetIdx
<1>6. CASE GetStoreMarker(w)  BY <1>1, <1>2, <1>6 DEF GetStoreMarker, SetIdx
<1>7. CASE GetStoreMiss(w) \/ GetStoreError(w) \/ SkipAlias(w) \/ WriteAliasL2(w)
           \/ PutStore(w) \/ MarkStore(w)
  BY <1>3, <1>7 DEF GetStoreMiss, GetStoreError, SkipAlias, WriteAliasL2, PutStore, MarkStore
<1>8. CASE GetStoreHit(w) \/ Promote(w) \/ CheckAlias(w) \/ WriteAlias(w) \/ PutLocal(w)
  BY <1>1, <1>8 DEF GetStoreHit, Promote, CheckAlias, WriteAlias, PutLocal, Goto, loopVars
<1>9. CASE StartBackfill(w)  BY <1>1, <1>2, <1>9 DEF StartBackfill, Goto, SetIdx
<1> QED  BY <1>4, <1>5, <1>6, <1>7, <1>8, <1>9 DEF Step

\* How a worker comes to a key of the second loop, and leaves that loop: it has
\* not found a resolved entry under the key before, or could not read it, and
\* returns after the last one only.
LEMMA SecondLoop ==
  ASSUME Core, NEW w \in Workers, Step(w) \/ GetStoreError(w)
  PROVE  /\ pc'[w] = "getL2" =>
              \/ idx'[w] = 1
              \/ /\ pc[w] = "getL2" /\ ks'[w] = ks[w] /\ idx'[w] = idx[w] + 1
                 /\ Step(w) => ~Resolved(l2[Key(w)])
         /\ pc[w] = "getL2" /\ pc'[w] = "idle" => LastKey(w)
<1> DEFINE goal ==
      /\ pc'[w] = "getL2" =>
           \/ idx'[w] = 1
           \/ /\ pc[w] = "getL2" /\ ks'[w] = ks[w] /\ idx'[w] = idx[w] + 1
              /\ Step(w) => ~Resolved(l2[Key(w)])
      /\ pc[w] = "getL2" /\ pc'[w] = "idle" => LastKey(w)
<1>1. /\ pc \in [Workers -> PCs] /\ ks \in [Workers -> KeyLists \cup {<<>>}]
      /\ idx \in [Workers -> Nat]
  BY DEF Core, LoopTypes
<1>2. ASSUME Return(w) PROVE pc'[w] = "idle"
  BY <1>1, <1>2 DEF Return
<1>3. ASSUME NEW next, Continue(w, next)
      PROVE  \/ pc'[w] = "idle" /\ LastKey(w)
             \/ pc'[w] = next /\ ks'[w] = ks[w] /\ idx'[w] = idx[w] + 1
  BY <1>1, <1>2, <1>3 DEF Continue, SetIdx
<1>4. CASE StartGet(w) \/ StartPut(w) \/ StartMark(w)
  <2>1. pc[w] = "idle" /\ pc'[w] \in {"getL1", "putL1", "markL2"}
    BY <1>1, <1>4 DEF StartGet, StartPut, StartMark, Start, Goto
  <2> QED  BY <2>1
<1>5. CASE GetLocal(w)
  <2>1. pc[w] = "getL1" /\ (pc'[w] = "getL2" => idx'[w] = 1)
    BY <1>1, <1>5 DEF GetLocal, Goto, SetIdx
  <2> QED  BY <2>1
<1>6. CASE GetStoreMarker(w)
  <2>1. pc[w] = "getL2" /\ ~Resolved(l2[Key(w)])  BY <1>6 DEF GetStoreMarker, Resolved
  <2>2. \/ pc'[w] = "idle" /\ LastKey(w)
        \/ pc'[w] = pc[w] /\ ks'[w] = ks[w] /\ idx'[w] = idx[w] + 1
    BY <1>1, <1>2, <1>6 DEF GetStoreMarker, SetIdx
  <2> QED  BY <2>1, <2>2
<1>7. CASE GetStoreMiss(w)
  <2>1. pc[w] = "getL2" /\ ~Resolved(l2[Key(w)])  BY <1>7 DEF GetStoreMiss, Resolved
  <2> QED  BY <1>3, <1>7, <2>1 DEF GetStoreMiss
<1>8. CASE GetStoreError(w) /\ ~Step(w)  BY <1>3, <1>8 DEF GetStoreError
<1>9. CASE SkipAlias(w) \/ WriteAliasL2(w) \/ PutStore(w) \/ MarkStore(w)
  <2>1. pc[w] # "getL2"  BY <1>9 DEF SkipAlias, WriteAliasL2, PutStore, MarkStore
  <2>2. pc'[w] # "getL2"  BY <1>3, <1>9 DEF SkipAlias, WriteAliasL2, PutStore, MarkStore
  <2> QED  BY <2>1, <2>2
<1>10. CASE GetStoreHit(w) \/ Promote(w) \/ CheckAlias(w) \/ WriteAlias(w) \/ PutLocal(w)
  <2>1. pc'[w] \in {"promote", "backfill", "aliasL1", "aliasL2", "putL2"}
    BY <1>1, <1>10 DEF GetStoreHit, Promote, CheckAlias, WriteAlias, PutLocal, Goto
  <2> QED  BY <2>1
<1>11. CASE StartBackfill(w)
  <2>1. pc[w] = "backfill" /\ pc'[w] \in {"idle", "aliasing"}
    BY <1>1, <1>2, <1>11 DEF StartBackfill, Goto
  <2> QED  BY <2>1
<1> QED  BY <1>4, <1>5, <1>6, <1>7, <1>8, <1>9, <1>10, <1>11 DEF Step

\* What the history variable says after a step.
LEMMA Tracked ==
  ASSUME SteadyType, LayerTypes', NEW unread, TrackSteady(unread), NEW w \in Workers
  PROVE  /\ \A k \in steady'[w] : Resolved(l2[k])'
         /\ pc[w] # "idle" => steady'[w] \subseteq steady[w]
         /\ \A k : <<w, k>> \in unread => k \notin steady'[w]
<1>1. steady'[w] =
        IF pc'[w] \notin LookupStates THEN {}
        ELSE {k \in (IF pc[w] = "idle" THEN Keys ELSE steady[w]) :
                /\ l2'[k].kind \in {"hit", "negative"} /\ l2'[k].exp > now'
                /\ <<w, k>> \notin unread}
  BY DEF TrackSteady
<1>2. \A k \in steady'[w] : Resolved(l2[k])'  BY <1>1 DEF Resolved, Found
<1> QED  BY <1>1, <1>2

\* Every step preserves what is known of the lookups.
LEMMA ScanNext == ScanInv /\ [Next]_vars => ScanInv'
<1> SUFFICES ASSUME ScanInv, [Next]_vars PROVE ScanInv'  OBVIOUS
<1>1. CacheInv'  BY NextCacheInv DEF ScanInv
<1>2. Core /\ SteadyType  BY TypeParts DEF ScanInv, CacheInv, Core
<1>3. LayerTypes'  BY <1>1 DEF CacheInv, TypeOK, LayerTypes
<1>4. ASSUME NEW x \in Workers PROVE ScanOK(x)'
  <2>1. ScanOK(x)  BY DEF ScanInv
  <2>2. CASE UNCHANGED vars
    BY <2>1, <2>2 DEF ScanOK, Resolved, Found, vars, loopVars
  <2>3. ASSUME NEW unread, TrackSteady(unread),
               pc'[x] = pc[x] /\ ks'[x] = ks[x] /\ idx'[x] = idx[x]
        PROVE  ScanOK(x)'
    BY <1>2, <1>3, <2>1, <2>3, Tracked DEF ScanOK
  <2>4. ASSUME NEW unread, TrackSteady(unread),
               Step(x) \/ (GetStoreError(x) /\ <<x, Key(x)>> \in unread)
        PROVE  ScanOK(x)'
    <3>1. \A k \in steady'[x] : Resolved(l2[k])'  BY <1>2, <1>3, <2>4, Tracked
    <3>2. ASSUME pc'[x] = "getL2", NEW i \in 1..Len(ks'[x]), i < idx'[x]
          PROVE  ks'[x][i] \notin steady'[x]
      <4>1. CASE idx'[x] = 1  BY <3>2, <4>1
      <4>2. CASE idx'[x] # 1
        <5>1. /\ pc[x] = "getL2" /\ ks'[x] = ks[x] /\ idx'[x] = idx[x] + 1
              /\ Step(x) => ~Resolved(l2[Key(x)])
          BY <1>2, <2>4, <3>2, <4>2, SecondLoop
        <5>2. steady'[x] \subseteq steady[x]  BY <1>2, <1>3, <2>4, <5>1, Tracked
        <5>3. idx[x] \in Nat  BY <1>2 DEF Core, LoopTypes
        <5>4. CASE i < idx[x]  BY <2>1, <5>1, <5>2, <5>4 DEF ScanOK
        <5>5. CASE i = idx[x]
          <6>1. ks'[x][i] = Key(x)  BY <5>1, <5>5 DEF Key
          <6>2. CASE <<x, Key(x)>> \in unread  BY <1>2, <1>3, <2>4, <6>1, <6>2, Tracked
          <6>3. CASE Step(x)  BY <2>1, <5>1, <5>2, <6>1, <6>3 DEF ScanOK
          <6> QED  BY <2>4, <6>2, <6>3
        <5>6. i \in Int /\ i < idx[x] + 1  BY <3>2, <5>1
        <5> QED  BY <5>3, <5>4, <5>5, <5>6
      <4> QED  BY <4>1, <4>2
    <3> QED  BY <3>1, <3>2 DEF ScanOK
  <2>5. CASE (DropLocal \/ DropStore \/ Tick) /\ TrackSteady({})
    BY <2>3, <2>5 DEF DropLocal, DropStore, Tick, loopVars
  <2>6. ASSUME NEW w \in Workers, Step(w), TrackSteady({}) PROVE ScanOK(x)'
    <3>1. CASE x = w  BY <2>4, <2>6, <3>1
    <3>2. CASE x # w  BY <1>2, <2>3, <2>6, <3>2, OthersLoop
    <3> QED  BY <3>1, <3>2
  <2>7. ASSUME NEW w \in Workers, GetStoreError(w), TrackSteady({<<w, Key(w)>>})
        PROVE  ScanOK(x)'
    <3>1. CASE x = w  BY <2>4, <2>7, <3>1
    <3>2. CASE x # w  BY <1>2, <2>3, <2>7, <3>2, OthersLoop
    <3> QED  BY <3>1, <3>2
  <2> QED  BY <2>2, <2>5, <2>6, <2>7 DEF Next
<1> QED  BY <1>1, <1>4 DEF ScanInv

\* Theorem: a Get that finds nothing, or only markers, has met no key with an
\* answer: the marker of one key hides no resolved entry of another, however
\* Puts, expiry and drops interleave with its two loops.
THEOREM ResolvedEntriesWin == Spec => ResolvedWins
<1>1. Init => ScanInv
  <2> SUFFICES ASSUME Init PROVE ScanInv  OBVIOUS
  <2>1. \A w \in Workers : ScanOK(w)  BY DEF Init, ScanOK
  <2> QED  BY <2>1, InitCacheInv DEF ScanInv
<1>2. ScanInv /\ [Next]_vars => ScanInv'  BY ScanNext
<1>3. ScanInv /\ [Next]_vars =>
        [\A w \in Workers :
           pc[w] = "getL2" /\ pc'[w] = "idle" =>
             \A i \in 1..Len(ks[w]) : i # idx[w] => ks[w][i] \notin steady[w]]_vars
  <2> SUFFICES ASSUME ScanInv, [Next]_vars, NEW w \in Workers, pc[w] = "getL2", pc'[w] = "idle",
                      NEW i \in 1..Len(ks[w]), i # idx[w]
               PROVE  ks[w][i] \notin steady[w]
    OBVIOUS
  <2>1. Core /\ ScanOK(w)  BY TypeParts DEF ScanInv, CacheInv, Core
  <2>2. Step(w) \/ GetStoreError(w)
    <3>1. pc' # pc  OBVIOUS
    <3>2. PICK x \in Workers : Step(x) \/ GetStoreError(x)
      BY <3>1 DEF Next, vars, DropLocal, DropStore, Tick
    <3> QED  BY <2>1, <3>2, OthersLoop
  <2>3. idx[w] = Len(ks[w])  BY <2>1, <2>2, SecondLoop DEF LastKey
  <2>4. WorkerOK(w)  BY <2>1 DEF Core
  <2>5. ks[w] \in Seq(Keys)  BY <2>4, KeyOK
  <2>6. i < idx[w]  BY <2>3, <2>5
  <2> QED  BY <2>1, <2>6 DEF ScanOK
<1> QED  BY <1>1, <1>2, <1>3, PTL DEF Spec, ResolvedWins
=============================================================================
