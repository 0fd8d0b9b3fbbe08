--------------------------- MODULE LifetimeProofs ---------------------------
(***************************************************************************)
(* Proofs about the life of an answer, for every width of a Duration and   *)
(* of an expiration, every unit, configuration and cttl, any goroutines    *)
(* and any clock.                                                          *)
(***************************************************************************)
EXTENDS AnswerLifetime, TLAPS

-----------------------------------------------------------------------------
\* The inductive invariant.

CallStates == {"idle", "request", "do", "classify", "read", "answered", "failed"}
ErrorKinds == {"request", "timeout", "transport", "status", "body_read", "parse"}
OpStates == {"idle", "put", "write", "value", "rename", "get", "remove", "decode", "served"}
CallRecord == [at : CallStates, api : {"s2s", "report"}, expired : BOOLEAN, responded : BOOLEAN,
               whole : BOOLEAN, kind : ErrorKinds \cup {""}, status : Int,
               answer : {"", "unresolved", "hit", "negative"}, cttl : Cttls \cup {NoCttl}]
EntryRecord == [exp : Int, ttl : Int, due : Int]
OpRecord == [at : OpStates, entry : EntryRecord, until : Int]
FileRecord == [entry : EntryRecord, until : Int, meant : Int]

CallTypeOK == call \in [Goroutines -> CallRecord]
StoreTypeOK ==
  /\ now \in 0..MaxTime
  /\ op \in [Goroutines -> OpRecord]
  /\ record \in FileRecord /\ staged \in [Goroutines -> FileRecord]

\* How far a call has got: no status before a response, and a 2xx one after it.
CallOrder(c) ==
  /\ c.at \in {"request", "do", "classify"} => c.status = 0 /\ ~c.responded
  /\ c.at = "read" => Is2xx(c.status) /\ c.responded
  /\ c.at = "answered" => Is2xx(c.status) /\ (c.api = "s2s" => c.whole)
  /\ c.at = "failed" =>
       /\ c.status # 0 <=> c.responded
       /\ c.kind = "timeout" => c.expired
       /\ c.kind \in ErrorKinds

\* An entry expires before it is due, or has expired already.
InTime(e) == e.exp * Millisecond <= e.due \/ e.exp <= now \div Millisecond

\* The ExpiresAt of an entry to be put is not after its TTL, counted from now.
Fresh(e) == e.exp <= now \div Millisecond + Milliseconds(e.ttl)

Covered(e, until) ==
  Representable(e.ttl) => until = Forever \/ until >= e.exp * Millisecond

OpOrder(o) ==
  /\ InTime(o.entry)
  /\ o.at = "put" => Fresh(o.entry)
  /\ o.at \in {"write", "value", "rename"} => Covered(o.entry, o.until) /\ o.entry # NoEntry
  /\ adapter = "file" /\ o.at \in {"decode", "served"} => o.entry # NoEntry

\* How much of its file a Put has written: at the rename, all.
StagedFor(o, f) ==
  /\ o.at \in {"value", "rename"} => f.until = o.until
  /\ o.at = "rename" => f.entry = o.entry /\ f.meant = o.until

WholeFile(f) == f = NoRecord \/ (f.entry # NoEntry /\ f.until = f.meant)

RecordOrder ==
  /\ InTime(record.entry)
  /\ record.entry # NoEntry => Covered(record.entry, record.until)
  /\ adapter = "file" => WholeFile(record)

LifetimeInv ==
  /\ CallTypeOK /\ StoreTypeOK
  /\ \A g \in Goroutines : CallOrder(call[g]) /\ OpOrder(op[g]) /\ StagedFor(op[g], staged[g])
  /\ RecordOrder

-----------------------------------------------------------------------------
\* Arithmetic on Durations.

\* What wrapping around does: the result is a Duration, a value that is one
\* already is kept, and a positive value never becomes a larger one.
LEMMA WrapFacts ==
  ASSUME NEW n \in Int
  PROVE  /\ Wrap(n) \in Int /\ Wrap(n) < DurationLimit
         /\ 0 <= n /\ n < DurationLimit => Wrap(n) = n
         /\ n > 0 => Wrap(n) <= n
<1>1. DurationLimit \in Nat \ {0}  BY DurationAssumption
<1>2. Wrap(n) \in Int /\ Wrap(n) < DurationLimit  BY <1>1 DEF Wrap
<1>3. 0 <= n /\ n < DurationLimit => Wrap(n) = n  BY <1>1 DEF Wrap
<1>4. n > 0 => Wrap(n) <= n  BY <1>1 DEF Wrap
<1> QED  BY <1>2, <1>3, <1>4

\* Duration.Milliseconds rounds towards zero.
LEMMA MillisecondsFacts ==
  ASSUME NEW d \in Int
  PROVE  /\ Milliseconds(d) \in Int
         /\ d >= 0 => Milliseconds(d) >= 0 /\ Milliseconds(d) * Millisecond <= d
         /\ d <= 0 => Milliseconds(d) <= 0
<1>1. Millisecond \in Nat \ {0}  BY DurationAssumption
<1>2. Milliseconds(d) \in Int  BY <1>1 DEF Milliseconds, Quotient
<1>3. d >= 0 => Milliseconds(d) >= 0 /\ Milliseconds(d) * Millisecond <= d
  BY <1>1 DEF Milliseconds, Quotient
<1>4. d <= 0 => Milliseconds(d) <= 0  BY <1>1 DEF Milliseconds, Quotient
<1> QED  BY <1>2, <1>3, <1>4

\* The clock in milliseconds: rounded down, and never backwards.
LEMMA ClockFacts ==
  ASSUME NEW t \in Nat
  PROVE  /\ t \div Millisecond \in Nat
         /\ (t \div Millisecond) * Millisecond <= t
         /\ t < (t \div Millisecond) * Millisecond + Millisecond
         /\ \A u \in Nat : t <= u => t \div Millisecond <= u \div Millisecond
<1>1. Millisecond \in Nat \ {0}  BY DurationAssumption
<1>2. ASSUME NEW u \in Nat, t <= u PROVE t \div Millisecond <= u \div Millisecond
  BY <1>1, <1>2
<1> QED  BY <1>1, <1>2

\* Conversions of the configuration are Durations.
LEMMA PolicyTypes ==
  /\ OfSeconds(Config.ttl) \in Int /\ OfSeconds(Config.ttl) < DurationLimit
  /\ OfSeconds(Config.negative) \in Int /\ OfSeconds(Config.negative) < DurationLimit
  /\ OfSeconds(Config.firstParty) \in Int /\ OfSeconds(Config.thirdParty) \in Int
  /\ OfSeconds(Config.device) \in Int
<1>1. /\ Config.ttl \in Int /\ Config.negative \in Int /\ Config.firstParty \in Int
      /\ Config.thirdParty \in Int /\ Config.device \in Int
  BY LifetimeAssumption
<1>2. Second \in Int  BY DurationAssumption DEF Second
<1>3. \A n \in Int : OfSeconds(n) \in Int /\ OfSeconds(n) < DurationLimit
  BY <1>2, WrapFacts DEF OfSeconds
<1> QED  BY <1>1, <1>3

\* The TTL of a response is never more than the cttl it had, and the TTL that
\* replaces one which wrapped to nothing is less than that cttl.
LEMMA TTLFacts ==
  ASSUME NEW cttl \in Cttls \cup {NoCttl}
  PROVE  /\ TTL(cttl) \in Int
         /\ cttl # NoCttl => cttl \in Int /\ cttl * Millisecond \in Int
         /\ cttl # NoCttl /\ cttl > 0 =>
              /\ TTL(cttl) <= cttl * Millisecond
              /\ TTL(cttl) <= 0 => DurationLimit <= cttl * Millisecond
<1>1. Millisecond \in Nat \ {0} /\ DurationLimit \in Nat \ {0}  BY DurationAssumption
<1>2. CASE cttl = NoCttl  BY <1>2 DEF TTL
<1>3. CASE cttl # NoCttl
  <2>1. cttl \in Int  BY <1>3, ClientAssumption
  <2>2. cttl * Millisecond \in Int  BY <1>1, <2>1
  <2>3. TTL(cttl) = Wrap(cttl * Millisecond)  BY <1>3 DEF TTL, OfMillis
  <2>4. ASSUME cttl > 0
        PROVE  /\ TTL(cttl) <= cttl * Millisecond
               /\ TTL(cttl) <= 0 => DurationLimit <= cttl * Millisecond
    <3>1. cttl * Millisecond > 0  BY <1>1, <2>1, <2>4
    <3> QED  BY <1>1, <2>2, <2>3, <3>1, WrapFacts
  <2> QED  BY <1>3, <2>1, <2>2, <2>3, <2>4, WrapFacts
<1> QED  BY <1>2, <1>3

\* The TTL an entry is given ...
TTLOf(answer, cttl) ==
  IF answer = "hit" THEN Policy!EffectiveTTL(keyType, TTL(cttl)) ELSE Policy!NegativeTTLFor(TTL(cttl))

\* ... is not more than the configuration and the API allow.
LEMMA TTLWithinLife ==
  ASSUME NEW answer, NEW cttl \in Cttls \cup {NoCttl}
  PROVE  /\ TTLOf(answer, cttl) \in Int /\ LongestLife(answer, cttl) \in Int
         /\ TTLOf(answer, cttl) <= LongestLife(answer, cttl)
<1> DEFINE bound == IF answer = "hit" THEN Policy!CeilingFor(keyType) ELSE Policy!NegativeBound
           ttl == TTLOf(answer, cttl)
<1>0. DurationLimit \in Int  BY DurationAssumption
<1>1. bound \in Int  BY PolicyTypes DEF Policy!CeilingFor, Policy!NegativeBound
<1>2. /\ ttl \in Int /\ ttl <= bound
      /\ TTL(cttl) > 0 => ttl <= TTL(cttl)
      /\ TTL(cttl) <= 0 => ttl < DurationLimit
  <2>0. TTL(cttl) \in Int  BY TTLFacts
  <2>1. CASE answer = "hit"
    <3>1. Policy!CeilingFor(keyType) \in Int  BY PolicyTypes DEF Policy!CeilingFor
    <3> QED
      BY <1>0, <2>0, <2>1, <3>1, PolicyTypes DEF TTLOf, Policy!EffectiveTTL, Policy!BaseTTL, Policy!Least
  <2>2. CASE answer # "hit"
    BY <1>0, <2>0, <2>2, PolicyTypes
    DEF TTLOf, Policy!NegativeTTLFor, Policy!NegativeBound, Policy!Least
  <2> QED  BY <2>1, <2>2
<1> HIDE DEF bound, ttl
<1>3. LongestLife(answer, cttl) =
        IF cttl = NoCttl THEN bound
        ELSE IF cttl <= 0 THEN bound ELSE Policy!Least(cttl * Millisecond, bound)
  BY DEF LongestLife, bound
<1>4. CASE cttl = NoCttl \/ cttl <= 0
  BY <1>1, <1>2, <1>3, <1>4 DEF ttl
<1>5. CASE cttl # NoCttl /\ cttl > 0
  <2>1. cttl \in Int /\ cttl * Millisecond \in Int  BY <1>5, TTLFacts
  <2>2. /\ TTL(cttl) \in Int /\ TTL(cttl) <= cttl * Millisecond
        /\ TTL(cttl) <= 0 => DurationLimit <= cttl * Millisecond
    BY <1>5, TTLFacts
  <2>3. ttl <= cttl * Millisecond  BY <1>0, <1>2, <2>1, <2>2
  <2>4. LongestLife(answer, cttl) = Policy!Least(cttl * Millisecond, bound)  BY <1>3, <1>5, <2>1
  <2> QED  BY <1>1, <1>2, <2>1, <2>3, <2>4 DEF Policy!Least, ttl
<1> QED
  <2>1. cttl # NoCttl => cttl \in Int  BY TTLFacts
  <2> QED  BY <1>4, <1>5, <2>1

\* An entry that is made now is in time, and its ExpiresAt is within its TTL.
LEMMA EntryFacts ==
  ASSUME now \in Nat, NEW answer, NEW cttl \in Cttls \cup {NoCttl}
  PROVE  /\ EntryFor(answer, cttl) \in EntryRecord
         /\ InTime(EntryFor(answer, cttl)) /\ Fresh(EntryFor(answer, cttl))
<1> DEFINE ttl == TTLOf(answer, cttl)
           ms == now \div Millisecond
           e == EntryFor(answer, cttl)
<1>1. /\ e.exp = ms + Milliseconds(ttl) /\ e.ttl = ttl /\ e.due = now + LongestLife(answer, cttl)
      /\ e = [exp |-> ms + Milliseconds(ttl), ttl |-> ttl, due |-> now + LongestLife(answer, cttl)]
  BY DEF EntryFor, TTLOf
<1>2. ttl \in Int  BY TTLWithinLife
<1>3. LongestLife(answer, cttl) \in Int  BY TTLWithinLife
<1>4. ttl <= LongestLife(answer, cttl)  BY TTLWithinLife
<1>5. Millisecond \in Nat \ {0}  BY DurationAssumption
<1>6. ms \in Nat  BY ClockFacts
<1>7. ms * Millisecond <= now  BY ClockFacts
<1> HIDE DEF ttl, ms, e
<1>8. Milliseconds(ttl) \in Int  BY <1>2, MillisecondsFacts
<1>9. e \in EntryRecord  BY <1>1, <1>2, <1>3, <1>6, <1>8 DEF EntryRecord
<1>10. Fresh(e)
  <2>1. e.exp = ms + Milliseconds(e.ttl)  BY <1>1
  <2>2. e.exp \in Int  BY <1>1, <1>6, <1>8
  <2> QED  BY <2>1, <2>2 DEF Fresh, ms
<1>11. CASE ttl > 0
  <2>1. Milliseconds(ttl) * Millisecond <= ttl  BY <1>2, <1>11, MillisecondsFacts
  <2>2. Milliseconds(ttl) * Millisecond \in Int /\ ms * Millisecond \in Int
    BY <1>5, <1>6, <1>8
  <2>3. e.exp * Millisecond = ms * Millisecond + Milliseconds(ttl) * Millisecond
    BY <1>1, <1>5, <1>6, <1>8
  <2>4. e.exp * Millisecond <= now + ttl  BY <1>2, <1>7, <2>1, <2>2, <2>3
  <2>5. e.exp * Millisecond \in Int  BY <2>2, <2>3
  <2>6. e.exp * Millisecond <= e.due  BY <1>1, <1>2, <1>3, <1>4, <2>4, <2>5
  <2> QED  BY <1>9, <1>10, <2>6 DEF InTime, e
<1>12. CASE ttl <= 0
  <2>1. Milliseconds(ttl) <= 0  BY <1>2, <1>12, MillisecondsFacts
  <2>2. e.exp <= ms  BY <1>1, <1>6, <1>8, <2>1
  <2> QED  BY <1>9, <1>10, <2>2 DEF InTime, ms, e
<1> QED  BY <1>2, <1>11, <1>12

-----------------------------------------------------------------------------
\* The stores.

\* The whole seconds of a positive TTL, rounded up: at most those of its bound.
LEMMA SecondsFacts ==
  ASSUME NEW ttl \in Int, NEW S \in Nat \ {0}, NEW k \in Int, ttl > 0, ttl <= k * S
  PROVE  LET seconds == ttl \div S + (IF ttl % S # 0 THEN 1 ELSE 0) IN
         /\ seconds \in Int /\ 1 <= seconds /\ seconds <= k
         /\ ttl <= seconds * S
<1> DEFINE q == ttl \div S
           r == ttl % S
<1>1. q \in Int /\ q >= 0 /\ r \in Int /\ 0 <= r /\ r < S /\ ttl = q * S + r
  OBVIOUS
<1> HIDE DEF q, r
<1>2. CASE r = 0
  <2>1. ttl = q * S  BY <1>1, <1>2
  <2>2. q >= 1  BY <1>1, <2>1
  <2>3. q <= k  BY <1>1, <2>1
  <2> QED  BY <1>1, <1>2, <2>1, <2>2, <2>3 DEF q, r
<1>3. CASE r # 0
  <2>1. q * S < ttl  BY <1>1, <1>3
  <2>2. q < k  BY <1>1, <2>1
  <2>3. ttl <= (q + 1) * S  BY <1>1
  <2> QED  BY <1>1, <1>3, <2>2, <2>3 DEF q, r
<1> QED  BY <1>2, <1>3

\* The ExpiresAt of an entry that is put now.
LEMMA FreshFacts ==
  ASSUME now \in Nat, NEW e \in EntryRecord, Fresh(e)
  PROVE  /\ e.exp * Millisecond \in Int
         /\ Milliseconds(e.ttl) * Millisecond \in Int
         /\ e.exp * Millisecond <= now + Milliseconds(e.ttl) * Millisecond
         /\ e.ttl > 0 => e.exp * Millisecond <= now + e.ttl
         /\ e.ttl <= 0 => e.exp * Millisecond <= now
<1> DEFINE ms == now \div Millisecond
           m == Milliseconds(e.ttl)
<1>1. Millisecond \in Nat \ {0}  BY DurationAssumption
<1>2. e.exp \in Int /\ e.ttl \in Int  BY DEF EntryRecord
<1>3. ms \in Nat  BY ClockFacts
<1>4. ms * Millisecond <= now  BY ClockFacts
<1>5. m \in Int  BY <1>2, MillisecondsFacts
<1>6. e.exp <= ms + m  BY DEF Fresh
<1>7. e.ttl >= 0 => m * Millisecond <= e.ttl  BY <1>2, MillisecondsFacts
<1>8. e.ttl <= 0 => m <= 0  BY <1>2, MillisecondsFacts
<1> HIDE DEF ms, m
<1>9. /\ e.exp * Millisecond \in Int /\ m * Millisecond \in Int /\ ms * Millisecond \in Int
  BY <1>1, <1>2, <1>3, <1>5
<1>10. e.exp * Millisecond <= ms * Millisecond + m * Millisecond
  <2>1. e.exp * Millisecond <= (ms + m) * Millisecond  BY <1>1, <1>2, <1>3, <1>5, <1>6
  <2>2. (ms + m) * Millisecond = ms * Millisecond + m * Millisecond  BY <1>1, <1>3, <1>5
  <2> QED  BY <2>1, <2>2
<1>11. e.exp * Millisecond <= now + m * Millisecond  BY <1>4, <1>9, <1>10
<1>12. m <= 0 => m * Millisecond <= 0  BY <1>1, <1>5
<1>13. e.ttl > 0 => e.exp * Millisecond <= now + e.ttl  BY <1>2, <1>7, <1>9, <1>11
<1>14. e.ttl <= 0 => e.exp * Millisecond <= now  BY <1>2, <1>8, <1>9, <1>11, <1>12
<1> QED  BY <1>9, <1>11, <1>13, <1>14 DEF m

\* Whatever the adapter makes of a TTL that it can represent, the record lives
\* at least as long as its entry.
LEMMA UntilFacts ==
  ASSUME StoreTypeOK, NEW e \in EntryRecord, Fresh(e), NEW until \in UntilOf(e.ttl)
  PROVE  until \in Int /\ Covered(e, until)
<1>1. now \in Nat /\ MaxTime \in Nat  BY StoreAssumption DEF StoreTypeOK
<1>2. Forever \in Int  BY <1>1 DEF Forever
<1>3. e.ttl \in Int  BY DEF EntryRecord
<1>4. Millisecond \in Nat \ {0}  BY DurationAssumption
<1>5. Second \in Nat \ {0}  BY DurationAssumption DEF Second
<1>6. Milliseconds(e.ttl) \in Int  BY <1>3, MillisecondsFacts
<1>7. e.exp * Millisecond \in Int  BY <1>1, FreshFacts
<1>8. Milliseconds(e.ttl) * Millisecond \in Int  BY <1>1, FreshFacts
<1>9. e.exp * Millisecond <= now + Milliseconds(e.ttl) * Millisecond  BY <1>1, FreshFacts
<1>10. ExpirationLimit \in Nat /\ ExpirationLimit >= 4  BY StoreAssumption
<1>11. CASE adapter = "aerospike"
  <2> DEFINE n == ExpirationSeconds(e.ttl)
  <2>1. until \in AerospikeUntil(e.ttl)  BY <1>11 DEF UntilOf
  <2>2. n \in Int
    BY <1>3, <1>5, <1>10 DEF ExpirationSeconds, Quotient
  <2>3. record.until \in Int  BY DEF StoreTypeOK, FileRecord
  <2>4. \/ until \in {Forever, record.until, now}
        \/ until = now + n * Second
    BY <2>1 DEF AerospikeUntil
  <2>5. until \in Int
    <3>1. n * Second \in Int  BY <1>5, <2>2
    <3> HIDE DEF n
    <3> QED  BY <1>1, <1>2, <2>3, <2>4, <3>1
  <2>6. ASSUME Representable(e.ttl) PROVE until = Forever \/ until >= e.exp * Millisecond
    <3>1. e.ttl <= (ExpirationLimit - 3) * Second  BY <2>6 DEF Representable
    <3>2. CASE e.ttl > 0
      <4> DEFINE seconds == e.ttl \div Second + (IF e.ttl % Second # 0 THEN 1 ELSE 0)
      <4>1. ExpirationLimit - 3 \in Int  BY <1>10
      <4>2. seconds \in Int  BY <1>3, <1>5, <3>1, <3>2, <4>1, SecondsFacts
      <4>3. 1 <= seconds  BY <1>3, <1>5, <3>1, <3>2, <4>1, SecondsFacts
      <4>4. seconds <= ExpirationLimit - 3  BY <1>3, <1>5, <3>1, <3>2, <4>1, SecondsFacts
      <4>5. e.ttl <= seconds * Second  BY <1>3, <1>5, <3>1, <3>2, <4>1, SecondsFacts
      <4>6. n = (IF seconds < 1 THEN 1 ELSE seconds) % ExpirationLimit
        BY <1>3, <3>2 DEF ExpirationSeconds, Quotient
      <4> HIDE DEF seconds
      <4>7. n = seconds  BY <1>10, <4>2, <4>3, <4>4, <4>6
      <4> HIDE DEF n
      <4>8. n # 0 /\ n # ExpirationLimit - 1 /\ n # ExpirationLimit - 2
        BY <1>10, <4>2, <4>3, <4>4, <4>7
      <4>9. until = now + n * Second  BY <2>1, <4>8 DEF AerospikeUntil, n
      <4>10. n * Second \in Int  BY <1>5, <2>2
      <4>11. e.exp * Millisecond <= now + e.ttl  BY <1>1, <3>2, FreshFacts
      <4>12. e.ttl <= n * Second  BY <4>5, <4>7
      <4> QED  BY <1>1, <1>3, <1>7, <4>9, <4>10, <4>11, <4>12
    <3>3. CASE e.ttl <= 0
      <4> DEFINE seconds == Quotient(e.ttl, Second) + (IF e.ttl % Second # 0 THEN 1 ELSE 0)
      <4>1. Quotient(e.ttl, Second) \in Int /\ Quotient(e.ttl, Second) <= 0
        BY <1>3, <1>5, <3>3 DEF Quotient
      <4>2. seconds \in Int /\ seconds <= 1  BY <4>1
      <4>3. n = (IF seconds < 1 THEN 1 ELSE seconds) % ExpirationLimit
        BY DEF ExpirationSeconds
      <4> HIDE DEF seconds
      <4>4. n = 1  BY <1>10, <4>2, <4>3
      <4> HIDE DEF n
      <4>5. n # 0 /\ n # ExpirationLimit - 1 /\ n # ExpirationLimit - 2  BY <1>10, <4>4
      <4>6. until = now + n * Second  BY <2>1, <4>5 DEF AerospikeUntil, n
      <4>7. until = now + Second  BY <1>5, <4>4, <4>6
      <4>8. e.exp * Millisecond <= now  BY <1>1, <3>3, FreshFacts
      <4> QED  BY <1>1, <1>5, <1>7, <4>7, <4>8
    <3> QED  BY <1>3, <3>2, <3>3
  <2> QED  BY <2>5, <2>6 DEF Covered
<1>12. CASE adapter # "aerospike"
  <2> DEFINE m == Milliseconds(e.ttl)
  <2>0. Millisecond * m = m * Millisecond  BY <1>4, <1>6
  <2>1. \/ until = Forever
        \/ until = now + Millisecond * m
        \/ e.ttl > 0 /\ m = 0 /\ until = now + Millisecond * 1
    BY <1>3, <1>12 DEF UntilOf, RedisUntil, ValkeyUntil
  <2> HIDE DEF m
  <2>2. CASE until = Forever  BY <1>2, <2>2 DEF Covered
  <2>3. CASE until = now + Millisecond * m
    <3>1. until = now + m * Millisecond  BY <2>0, <2>3
    <3> QED  BY <1>1, <1>7, <1>8, <1>9, <3>1 DEF Covered, m
  <2>4. CASE m = 0 /\ until = now + Millisecond * 1
    <3>1. until = now + Millisecond  BY <1>4, <2>4
    <3>2. m * Millisecond = 0  BY <1>4, <2>4
    <3>3. e.exp * Millisecond <= now  BY <1>1, <1>7, <1>9, <3>2 DEF m
    <3> QED  BY <1>1, <1>4, <1>7, <3>1, <3>3 DEF Covered
  <2> QED  BY <2>1, <2>2, <2>3, <2>4
<1> QED  BY <1>11, <1>12

\* The expiry that the file store writes covers its entry too.
LEMMA FileUntil ==
  ASSUME StoreTypeOK, NEW e \in EntryRecord, Fresh(e), e.ttl > 0
  PROVE  Wrap(now + e.ttl) \in Int /\ Covered(e, Wrap(now + e.ttl))
<1>1. now \in Nat /\ MaxTime \in Nat /\ now <= MaxTime  BY StoreAssumption DEF StoreTypeOK
<1>2. e.ttl \in Int  BY DEF EntryRecord
<1>3. now + e.ttl \in Int  BY <1>1, <1>2
<1>4. DurationLimit \in Nat  BY DurationAssumption
<1>5. ASSUME Representable(e.ttl) PROVE Wrap(now + e.ttl) >= e.exp * Millisecond
  <2>1. 0 <= now + e.ttl /\ now + e.ttl < DurationLimit
    BY <1>1, <1>2, <1>4, <1>5 DEF Representable
  <2>2. Wrap(now + e.ttl) = now + e.ttl  BY <1>3, <2>1, WrapFacts
  <2>3. e.exp * Millisecond \in Int  BY <1>1, FreshFacts
  <2>4. e.exp * Millisecond <= now + e.ttl  BY <1>1, FreshFacts
  <2> QED  BY <1>3, <2>2, <2>3, <2>4
<1> QED  BY <1>3, <1>5, WrapFacts DEF Covered

-----------------------------------------------------------------------------
\* The steps of the clients.

CallsInOrder == \A g \in Goroutines : CallOrder(call[g])

\* A step that gives one goroutine's call an orderly value.
LEMMA SetCall ==
  ASSUME CallTypeOK, CallsInOrder, NEW g \in Goroutines, NEW c \in CallRecord, CallOrder(c),
         call' = [call EXCEPT ![g] = c]
  PROVE  CallTypeOK' /\ CallsInOrder'
<1>1. call \in [Goroutines -> CallRecord]  BY DEF CallTypeOK
<1>2. CallTypeOK'  BY <1>1 DEF CallTypeOK
<1>3. ASSUME NEW h \in Goroutines PROVE CallOrder(call'[h])
  <2>1. CASE h = g
    <3>1. call'[h] = c  BY <1>1, <2>1
    <3> QED  BY <3>1
  <2>2. CASE h # g
    <3>1. call'[h] = call[h]  BY <1>1, <2>2
    <3> QED  BY <3>1 DEF CallsInOrder
  <2> QED  BY <2>1, <2>2
<1> QED  BY <1>2, <1>3 DEF CallsInOrder, CallOrder

\* A call that has not begun.
LEMMA NoCallFacts == NoCall \in CallRecord /\ CallOrder(NoCall)
BY DEF NoCall, CallRecord, CallOrder, CallStates

\* The steps of a call keep it in order.
LEMMA CallSteps ==
  ASSUME CallTypeOK, CallsInOrder, NEW g \in Goroutines,
         ClientStep(g) \/ (\E api \in {"s2s", "report"} : StartCall(g, api))
  PROVE  CallTypeOK' /\ CallsInOrder'
<1> DEFINE c == call[g]
<1>1. c \in CallRecord /\ CallOrder(c)  BY DEF CallTypeOK, CallsInOrder
<1> HIDE DEF c
<1>A. ASSUME NEW d \in CallRecord, CallOrder(d), call' = [call EXCEPT ![g] = d]
      PROVE  CallTypeOK' /\ CallsInOrder'
  BY <1>A, SetCall
<1>2. ASSUME NEW api \in {"s2s", "report"}, StartCall(g, api) PROVE CallTypeOK' /\ CallsInOrder'
  <2> DEFINE d == [NoCall EXCEPT !.at = "request", !.api = api]
  <2>1. d \in CallRecord  BY NoCallFacts DEF CallRecord, CallStates
  <2>2. CallOrder(d)
    <3>1. d.at = "request" /\ d.status = NoCall.status /\ d.responded = NoCall.responded
      BY NoCallFacts DEF CallRecord
    <3>2. NoCall.status = 0 /\ NoCall.responded = FALSE  BY DEF NoCall
    <3> HIDE DEF d
    <3> QED  BY <3>1, <3>2 DEF CallOrder
  <2>3. call' = [call EXCEPT ![g] = d]  BY <1>2 DEF StartCall
  <2> HIDE DEF d
  <2> QED  BY <1>A, <2>1, <2>2, <2>3
<1>3. ASSUME NEW from, NEW to, <<from, to>> \in {<<"request", "do">>, <<"do", "classify">>},
             Goes(g, from, to)
      PROVE  CallTypeOK' /\ CallsInOrder'
  <2> DEFINE d == [c EXCEPT !.at = to]
  <2>1. d \in CallRecord  BY <1>1, <1>3 DEF CallRecord, CallStates
  <2>2. CallOrder(d)  BY <1>1, <1>3 DEF CallRecord, CallOrder, Goes, c
  <2>3. call' = [call EXCEPT ![g] = d]  BY <1>3 DEF Goes, c
  <2> HIDE DEF d
  <2> QED  BY <1>A, <2>1, <2>2, <2>3
<1>4. ASSUME NEW from \in {"request", "classify", "read"}, NEW kind \in ErrorKinds,
             NEW status \in Int, Fails(g, from, kind, status),
             IF from = "read" THEN status = c.status ELSE status = 0,
             kind = "timeout" => c.expired
      PROVE  CallTypeOK' /\ CallsInOrder'
  <2> DEFINE d == [c EXCEPT !.at = "failed", !.kind = kind, !.status = status]
  <2>1. d \in CallRecord  BY <1>1 DEF CallRecord, CallStates
  <2>2. CallOrder(d)
    <3>1. c.at = from  BY <1>4 DEF Fails, c
    <3>2. /\ d.at = "failed" /\ d.kind = kind /\ d.status = status
          /\ d.responded = c.responded /\ d.expired = c.expired
      BY <1>1 DEF CallRecord
    <3>3. status # 0 <=> c.responded
      <4>1. CASE from = "read"
        <5>1. Is2xx(status) /\ c.responded  BY <1>1, <1>4, <3>1, <4>1 DEF CallOrder
        <5> QED  BY <5>1 DEF Is2xx
      <4>2. CASE from # "read"
        <5>1. status = 0 /\ ~c.responded  BY <1>1, <1>4, <3>1, <4>2 DEF CallOrder
        <5> QED  BY <5>1
      <4> QED  BY <4>1, <4>2
    <3> HIDE DEF d
    <3> QED  BY <1>4, <3>2, <3>3 DEF CallOrder
  <2>3. call' = [call EXCEPT ![g] = d]  BY <1>4 DEF Fails, c
  <2> HIDE DEF d
  <2> QED  BY <1>A, <2>1, <2>2, <2>3
<1>5. CASE NewRequest(g)  BY <1>3, <1>5 DEF NewRequest
<1>6. CASE DoFails(g)  BY <1>3, <1>6 DEF DoFails
<1>7. CASE NewRequestFails(g)  BY <1>4, <1>7 DEF NewRequestFails, ErrorKinds
<1>8. CASE ClassifyError(g)
  <2>1. CASE c.expired  BY <1>4, <1>8, <2>1 DEF ClassifyError, ErrorKinds, c
  <2>2. CASE ~c.expired  BY <1>4, <1>8, <2>2 DEF ClassifyError, ErrorKinds, c
  <2> QED  BY <2>1, <2>2
<1>9. CASE ReadFails(g)
  <2>1. c.status \in Int  BY <1>1 DEF CallRecord
  <2> QED  BY <1>4, <1>9, <2>1 DEF ReadFails, ErrorKinds, c
<1>10. CASE DeadlinePasses(g)
  <2> DEFINE d == [c EXCEPT !.expired = TRUE]
  <2>1. d \in CallRecord  BY <1>1 DEF CallRecord
  <2>2. CallOrder(d)  BY <1>1, <1>10 DEF CallRecord, CallOrder, DeadlinePasses, c
  <2>3. call' = [call EXCEPT ![g] = d]  BY <1>10 DEF DeadlinePasses, c
  <2> HIDE DEF d
  <2> QED  BY <1>A, <2>1, <2>2, <2>3
<1>11. CASE DoResponds(g)
  <2>1. PICK status \in Statuses : DoResponds(g)!(status)  BY <1>11 DEF DoResponds
  <2>2. status \in Int /\ status # 0  BY ClientAssumption
  <2>3. CASE ~Is2xx(status)
    <3> DEFINE d == [c EXCEPT !.at = "failed", !.kind = "status", !.status = status,
                              !.responded = TRUE]
    <3>1. d \in CallRecord  BY <1>1, <2>2 DEF CallRecord, CallStates, ErrorKinds
    <3>2. CallOrder(d)  BY <1>1, <2>2 DEF CallRecord, CallOrder, ErrorKinds
    <3>3. call' = [call EXCEPT ![g] = d]  BY <2>1, <2>3 DEF c
    <3> HIDE DEF d
    <3> QED  BY <1>A, <3>1, <3>2, <3>3
  <2>4. CASE Is2xx(status)
    <3> DEFINE d == [c EXCEPT !.at = IF c.api = "report" THEN "answered" ELSE "read",
                              !.status = status, !.responded = TRUE, !.expired = FALSE]
    <3>1. d \in CallRecord  BY <1>1, <2>2 DEF CallRecord, CallStates
    <3>2. CallOrder(d)  BY <1>1, <2>2, <2>4 DEF CallRecord, CallOrder
    <3>3. call' = [call EXCEPT ![g] = d]  BY <2>1, <2>4 DEF c
    <3> HIDE DEF d
    <3> QED  BY <1>A, <3>1, <3>2, <3>3
  <2> QED  BY <2>3, <2>4
<1>12. CASE ReadBody(g)
  <2>1. PICK kind \in BodyKinds, cttl \in Cttls \cup {NoCttl} : ReadBody(g)!(kind, cttl)
    BY <1>12 DEF ReadBody
  <2>2. c.at = "read"  BY <2>1 DEF c
  <2>3. CASE Decodes(kind)
    <3> DEFINE d == [c EXCEPT !.at = "answered", !.whole = TRUE, !.answer = AnswerIn(kind),
                              !.cttl = IF kind = "blank" THEN NoCttl ELSE cttl]
    <3>1. d \in CallRecord  BY <1>1 DEF CallRecord, CallStates, AnswerIn
    <3>2. CallOrder(d)  BY <1>1, <2>2 DEF CallRecord, CallOrder
    <3>3. call' = [call EXCEPT ![g] = d]  BY <2>1, <2>3 DEF c
    <3> HIDE DEF d
    <3> QED  BY <1>A, <3>1, <3>2, <3>3
  <2>4. CASE ~Decodes(kind)
    <3> DEFINE d == [c EXCEPT !.at = "failed", !.kind = "parse"]
    <3>1. d \in CallRecord  BY <1>1 DEF CallRecord, CallStates, ErrorKinds
    <3>2. CallOrder(d)
      <4>1. d.at = "failed" /\ d.kind = "parse" /\ d.status = c.status /\ d.responded = c.responded
        BY <1>1 DEF CallRecord
      <4>2. c.status \in Int  BY <1>1 DEF CallRecord
      <4>3. Is2xx(c.status) /\ c.responded  BY <1>1, <2>2 DEF CallOrder
      <4>4. c.status # 0  BY <4>2, <4>3 DEF Is2xx
      <4> HIDE DEF d
      <4> QED  BY <4>1, <4>3, <4>4 DEF CallOrder, ErrorKinds
    <3>3. call' = [call EXCEPT ![g] = d]  BY <2>1, <2>4 DEF c
    <3> HIDE DEF d
    <3> QED  BY <1>A, <3>1, <3>2, <3>3
  <2> QED  BY <2>3, <2>4
<1> QED
  BY <1>2, <1>5, <1>6, <1>7, <1>8, <1>9, <1>10, <1>11, <1>12 DEF ClientStep

-----------------------------------------------------------------------------
\* The steps of the stores.

OpsInOrder == \A g \in Goroutines : OpOrder(op[g]) /\ StagedFor(op[g], staged[g])
StoreInv == StoreTypeOK /\ OpsInOrder /\ RecordOrder

\* No operation, and no entry, which has expired since the beginning of time.
LEMMA NoOpFacts ==
  ASSUME now \in Nat
  PROVE  /\ NoEntry \in EntryRecord /\ InTime(NoEntry)
         /\ NoOp \in OpRecord /\ OpOrder(NoOp) /\ (\A f : StagedFor(NoOp, f))
         /\ NoRecord \in FileRecord
<1>1. NoEntry \in EntryRecord  BY DEF NoEntry, EntryRecord
<1>2. Millisecond \in Nat  BY DurationAssumption
<1>3. InTime(NoEntry)  BY <1>2 DEF InTime, NoEntry
<1>4. NoOp \in OpRecord  BY <1>1 DEF NoOp, OpRecord, OpStates
<1>5. OpOrder(NoOp) /\ (\A f : StagedFor(NoOp, f))
  <2>1. NoOp.at = "idle" /\ NoOp.entry = NoEntry  BY DEF NoOp
  <2> QED  BY <1>3, <2>1 DEF OpOrder, StagedFor
<1>6. NoRecord \in FileRecord  BY <1>1 DEF NoRecord, FileRecord
<1> QED  BY <1>1, <1>3, <1>4, <1>5, <1>6

\* A step that gives one goroutine an orderly operation and a staging file that
\* fits it, at an unchanged clock.
LEMMA SetOp ==
  ASSUME StoreInv, NEW g \in Goroutines, NEW o \in OpRecord, OpOrder(o),
         NEW f \in FileRecord, StagedFor(o, f),
         op' = [op EXCEPT ![g] = o], staged' = [staged EXCEPT ![g] = f],
         now' = now, adapter' = adapter
  PROVE  /\ op' \in [Goroutines -> OpRecord] /\ staged' \in [Goroutines -> FileRecord]
         /\ OpsInOrder'
<1>1. op \in [Goroutines -> OpRecord] /\ staged \in [Goroutines -> FileRecord]
  BY DEF StoreInv, StoreTypeOK
<1>2. op' \in [Goroutines -> OpRecord] /\ staged' \in [Goroutines -> FileRecord]  BY <1>1
<1>3. ASSUME NEW h \in Goroutines PROVE OpOrder(op'[h]) /\ StagedFor(op'[h], staged'[h])
  <2>1. CASE h = g
    <3>1. op'[h] = o /\ staged'[h] = f  BY <1>1, <2>1
    <3> QED  BY <3>1
  <2>2. CASE h # g
    <3>1. op'[h] = op[h] /\ staged'[h] = staged[h]  BY <1>1, <2>2
    <3> QED  BY <3>1 DEF StoreInv, OpsInOrder
  <2> QED  BY <2>1, <2>2
<1> QED  BY <1>2, <1>3 DEF OpsInOrder, OpOrder, StagedFor, InTime, Fresh

\* A step of one goroutine that leaves the clock and the record alone.
LEMMA StagingStep ==
  ASSUME StoreInv, NEW g \in Goroutines, NEW o \in OpRecord, OpOrder(o),
         NEW f \in FileRecord, StagedFor(o, f),
         op' = [op EXCEPT ![g] = o], staged' = [staged EXCEPT ![g] = f],
         now' = now, adapter' = adapter, record' = record
  PROVE  StoreInv'
<1>1. op' \in [Goroutines -> OpRecord] /\ staged' \in [Goroutines -> FileRecord] /\ OpsInOrder'
  BY SetOp
<1>2. StoreTypeOK'  BY <1>1 DEF StoreInv, StoreTypeOK
<1>3. RecordOrder'  BY DEF StoreInv, RecordOrder, InTime
<1> QED  BY <1>1, <1>2, <1>3 DEF StoreInv

\* A step that leaves the staging files alone too.
LEMMA OpStep ==
  ASSUME StoreInv, NEW g \in Goroutines, NEW o \in OpRecord, OpOrder(o),
         o.at \notin {"value", "rename"}, op' = [op EXCEPT ![g] = o],
         UNCHANGED <<now, adapter, record, staged>>
  PROVE  StoreInv'
<1>1. staged \in [Goroutines -> FileRecord]  BY DEF StoreInv, StoreTypeOK
<1>2. staged[g] \in FileRecord /\ staged' = [staged EXCEPT ![g] = staged[g]]  BY <1>1
<1>3. StagedFor(o, staged[g])  BY DEF StagedFor
<1> QED  BY <1>2, <1>3, StagingStep

\* An operation that returns.
LEMMA ReturnStep ==
  ASSUME StoreInv, NEW g \in Goroutines, OpReturns(g), UNCHANGED <<now, adapter, record>>,
         staged' = staged \/ staged' = [staged EXCEPT ![g] = NoRecord]
  PROVE  StoreInv'
<1>1. now \in Nat  BY StoreAssumption DEF StoreInv, StoreTypeOK
<1>2. NoOp \in OpRecord /\ OpOrder(NoOp) /\ NoRecord \in FileRecord /\ (\A f : StagedFor(NoOp, f))
  BY <1>1, NoOpFacts
<1>3. NoOp.at = "idle"  BY DEF NoOp
<1>4. CASE staged' = staged  BY <1>2, <1>3, <1>4, OpStep DEF OpReturns
<1>5. CASE staged' = [staged EXCEPT ![g] = NoRecord]  BY <1>2, <1>5, StagingStep DEF OpReturns
<1> QED  BY <1>4, <1>5

\* An operation that returns having changed the record.
LEMMA RecordStep ==
  ASSUME StoreInv, NEW g \in Goroutines, OpReturns(g), UNCHANGED <<now, adapter>>,
         staged' = staged \/ staged' = [staged EXCEPT ![g] = NoRecord],
         record' \in FileRecord, InTime(record'.entry),
         record'.entry # NoEntry => Covered(record'.entry, record'.until),
         adapter = "file" => WholeFile(record')
  PROVE  StoreInv'
<1>1. now \in Nat  BY StoreAssumption DEF StoreInv, StoreTypeOK
<1>2. NoOp \in OpRecord /\ OpOrder(NoOp) /\ NoRecord \in FileRecord /\ (\A f : StagedFor(NoOp, f))
  BY <1>1, NoOpFacts
<1>3. PICK f \in FileRecord : staged' = [staged EXCEPT ![g] = f]
  <2>1. staged \in [Goroutines -> FileRecord]  BY DEF StoreInv, StoreTypeOK
  <2>2. staged[g] \in FileRecord /\ staged = [staged EXCEPT ![g] = staged[g]]  BY <2>1
  <2> QED  BY <1>2, <2>2
<1>4. op' \in [Goroutines -> OpRecord] /\ staged' \in [Goroutines -> FileRecord] /\ OpsInOrder'
  BY <1>2, <1>3, SetOp DEF OpReturns
<1>5. StoreTypeOK'  BY <1>4 DEF StoreInv, StoreTypeOK
<1>6. RecordOrder'  BY DEF RecordOrder, InTime, Covered, WholeFile
<1> QED  BY <1>4, <1>5, <1>6 DEF StoreInv

\* What is known of the operation and of the record at a step.
LEMMA StoreFacts ==
  ASSUME StoreInv, NEW g \in Goroutines
  PROVE  /\ now \in Nat
         /\ op[g] \in OpRecord /\ op[g].entry \in EntryRecord /\ op[g].until \in Int
         /\ OpOrder(op[g])
         /\ record.entry \in EntryRecord /\ InTime(record.entry)
         /\ staged[g] \in FileRecord /\ StagedFor(op[g], staged[g])
<1>1. op[g] \in OpRecord /\ staged[g] \in FileRecord  BY DEF StoreInv, StoreTypeOK
<1>2. op[g].entry \in EntryRecord /\ op[g].until \in Int  BY <1>1 DEF OpRecord
<1>3. record.entry \in EntryRecord  BY DEF StoreInv, StoreTypeOK, FileRecord
<1>4. now \in Nat  BY StoreAssumption DEF StoreInv, StoreTypeOK
<1> QED  BY <1>1, <1>2, <1>3, <1>4 DEF StoreInv, OpsInOrder, RecordOrder

\* Every step of an adapter keeps record, staging files and operations in order.
LEMMA StoreSteps ==
  ASSUME StoreInv, NEW g \in Goroutines, StoreStep(g)
  PROVE  StoreInv'
<1> DEFINE o == op[g]
           file == staged[g]
<1>1. o \in OpRecord /\ OpOrder(o)  BY StoreFacts
<1>2. o.entry \in EntryRecord  BY StoreFacts
<1>3. o.until \in Int  BY StoreFacts
<1>4. InTime(o.entry)  BY <1>1 DEF OpOrder
<1>5. record.entry \in EntryRecord /\ InTime(record.entry)  BY StoreFacts
<1>F. file \in FileRecord /\ StagedFor(o, file)  BY StoreFacts
<1>N. now \in Nat /\ NoRecord \in FileRecord /\ NoEntry \in EntryRecord /\ InTime(NoEntry)
  BY StoreFacts, NoOpFacts
<1> HIDE DEF o, file
<1>6. CASE RemotePut(g)
  <2>1. PICK until \in UntilOf(op[g].entry.ttl) : RemotePut(g)!(until)  BY <1>6 DEF RemotePut
  <2>2. Fresh(o.entry)  BY <1>1, <2>1 DEF OpOrder, o
  <2>3. until \in UntilOf(o.entry.ttl) /\ StoreTypeOK  BY <2>1 DEF o, StoreInv
  <2>4. until \in Int /\ Covered(o.entry, until)  BY <1>2, <2>2, <2>3, UntilFacts
  <2>5. record' = [entry |-> o.entry, until |-> until, meant |-> until]  BY <2>1 DEF o
  <2>6. record' \in FileRecord /\ record'.entry = o.entry /\ record'.until = until
    BY <1>2, <2>4, <2>5 DEF FileRecord
  <2> QED  BY <1>4, <2>1, <2>4, <2>6, RecordStep
<1>7. CASE PutFails(g)  BY <1>7, ReturnStep DEF PutFails, StagingFile
<1>8. CASE GetMisses(g)  BY <1>8, ReturnStep DEF GetMisses
<1>9. ASSUME op' = [op EXCEPT ![g] = [@ EXCEPT !.at = "decode", !.entry = record.entry]],
             record # NoRecord, UNCHANGED <<now, adapter, record, staged>>
      PROVE  StoreInv'
  <2> DEFINE n == [o EXCEPT !.at = "decode", !.entry = record.entry]
  <2>1. n \in OpRecord  BY <1>1, <1>5 DEF OpRecord, OpStates
  <2>2. n.at = "decode" /\ n.entry = record.entry  BY <1>1 DEF OpRecord
  <2>3. op' = [op EXCEPT ![g] = n]  BY <1>9 DEF o
  <2>4. adapter = "file" => record.entry # NoEntry  BY <1>9 DEF StoreInv, RecordOrder, WholeFile
  <2> HIDE DEF n
  <2>5. OpOrder(n)  BY <1>5, <2>2, <2>4 DEF OpOrder
  <2> QED  BY <1>9, <2>1, <2>2, <2>3, <2>5, OpStep
<1>10. CASE RemoteGet(g)  BY <1>9, <1>10 DEF RemoteGet
<1>11. CASE FilePut(g)
  <2>1. CASE o.entry.ttl <= 0  BY <1>11, <2>1, ReturnStep DEF FilePut, o
  <2>2. CASE ~(o.entry.ttl <= 0)
    <3> DEFINE until == Wrap(now + o.entry.ttl)
               n == [o EXCEPT !.at = "write", !.until = until]
    <3>1. o.at = "put"  BY <1>11 DEF FilePut, o
    <3>2. Fresh(o.entry)  BY <1>1, <3>1 DEF OpOrder
    <3>3. o.entry.ttl \in Int  BY <1>2 DEF EntryRecord
    <3>4. o.entry.ttl > 0  BY <2>2, <3>3
    <3>5. until \in Int /\ Covered(o.entry, until)  BY <1>2, <3>2, <3>4, FileUntil DEF StoreInv
    <3>6. op' = [op EXCEPT ![g] = n] /\ staged' = [staged EXCEPT ![g] = NoRecord]
      BY <1>11, <2>2 DEF FilePut, StagingFile, o
    <3>7. now' = now /\ adapter' = adapter /\ record' = record  BY <1>11 DEF FilePut
    <3>8. o.entry # NoEntry  BY <3>3, <3>4 DEF NoEntry
    <3> HIDE DEF until
    <3>9. n \in OpRecord  BY <1>1, <3>5 DEF OpRecord, OpStates
    <3>10. n.at = "write" /\ n.entry = o.entry /\ n.until = until  BY <1>1 DEF OpRecord
    <3> HIDE DEF n
    <3>11. OpOrder(n)  BY <1>4, <3>5, <3>8, <3>10 DEF OpOrder
    <3>12. StagedFor(n, NoRecord)  BY <3>10 DEF StagedFor
    <3> QED  BY <1>N, <3>6, <3>7, <3>9, <3>11, <3>12, StagingStep
  <2> QED  BY <2>1, <2>2
<1>12. CASE WritePrefix(g)
  <2> DEFINE n == [o EXCEPT !.at = "value"]
             f == [file EXCEPT !.until = o.until]
  <2>1. o.at = "write" /\ op' = [op EXCEPT ![g] = n] /\ staged' = [staged EXCEPT ![g] = f]
    BY <1>12 DEF WritePrefix, OpGoes, StagingFile, o, file
  <2>2. now' = now /\ adapter' = adapter /\ record' = record  BY <1>12 DEF WritePrefix
  <2>3. n \in OpRecord  BY <1>1 DEF OpRecord, OpStates
  <2>4. n.at = "value" /\ n.entry = o.entry /\ n.until = o.until  BY <1>1 DEF OpRecord
  <2>5. f \in FileRecord /\ f.until = o.until  BY <1>3, <1>F DEF FileRecord
  <2> HIDE DEF n, f
  <2>6. OpOrder(n)  BY <1>1, <2>1, <2>4 DEF OpOrder
  <2>7. StagedFor(n, f)  BY <2>4, <2>5 DEF StagedFor
  <2> QED  BY <2>1, <2>2, <2>3, <2>5, <2>6, <2>7, StagingStep
<1>13. CASE WriteValue(g)
  <2> DEFINE n == [o EXCEPT !.at = "rename"]
             f == [file EXCEPT !.entry = o.entry, !.meant = o.until]
  <2>1. o.at = "value" /\ op' = [op EXCEPT ![g] = n] /\ staged' = [staged EXCEPT ![g] = f]
    BY <1>13 DEF WriteValue, OpGoes, StagingFile, o, file
  <2>2. now' = now /\ adapter' = adapter /\ record' = record  BY <1>13 DEF WriteValue
  <2>3. n \in OpRecord  BY <1>1 DEF OpRecord, OpStates
  <2>4. n.at = "rename" /\ n.entry = o.entry /\ n.until = o.until  BY <1>1 DEF OpRecord
  <2>5. f \in FileRecord /\ f.until = file.until /\ f.entry = o.entry /\ f.meant = o.until
    BY <1>2, <1>3, <1>F DEF FileRecord
  <2>6. file.until = o.until  BY <1>F, <2>1 DEF StagedFor
  <2> HIDE DEF n, f
  <2>7. OpOrder(n)  BY <1>1, <2>1, <2>4 DEF OpOrder
  <2>8. StagedFor(n, f)  BY <2>4, <2>5, <2>6 DEF StagedFor
  <2> QED  BY <2>1, <2>2, <2>3, <2>5, <2>7, <2>8, StagingStep
<1>14. CASE FileRename(g)
  <2>1. o.at = "rename" /\ record' = file /\ staged' = [staged EXCEPT ![g] = NoRecord]
    BY <1>14 DEF FileRename, StagingFile, o, file
  <2>2. Covered(o.entry, o.until) /\ o.entry # NoEntry  BY <1>1, <2>1 DEF OpOrder
  <2>3. file.entry = o.entry /\ file.until = o.until /\ file.meant = o.until
    BY <1>F, <2>1 DEF StagedFor
  <2>4. WholeFile(file)  BY <2>2, <2>3 DEF WholeFile
  <2> QED  BY <1>4, <1>14, <1>F, <2>1, <2>2, <2>3, <2>4, RecordStep DEF FileRename
<1>15. CASE FileRead(g)
  <2>1. CASE now > record.until
    <3> DEFINE n == [o EXCEPT !.at = "remove"]
    <3>1. op' = [op EXCEPT ![g] = n]  BY <1>15, <2>1 DEF FileRead, o
    <3>2. n \in OpRecord  BY <1>1 DEF OpRecord, OpStates
    <3>3. n.at = "remove" /\ n.entry = o.entry  BY <1>1 DEF OpRecord
    <3> HIDE DEF n
    <3>4. OpOrder(n)  BY <1>4, <3>3 DEF OpOrder
    <3> QED  BY <1>15, <3>1, <3>2, <3>3, <3>4, OpStep DEF FileRead
  <2>2. CASE ~(now > record.until)  BY <1>9, <1>15, <2>2 DEF FileRead
  <2> QED  BY <2>1, <2>2
<1>16. CASE FileRemove(g)
  <2>1. record' = NoRecord /\ record'.entry = NoEntry  BY <1>16 DEF FileRemove, NoRecord
  <2>2. WholeFile(NoRecord)  BY DEF WholeFile
  <2> QED  BY <1>16, <1>N, <2>1, <2>2, RecordStep DEF FileRemove
<1> QED
  BY <1>6, <1>7, <1>8, <1>10, <1>11, <1>12, <1>13, <1>14, <1>15, <1>16 DEF StoreStep

-----------------------------------------------------------------------------
\* The invariant of the whole, and what follows from it.

\* The invariant in the parts that steps leave alone or change together.
LEMMA LifetimeParts == LifetimeInv <=> CallTypeOK /\ CallsInOrder /\ StoreInv
BY DEF LifetimeInv, CallsInOrder, StoreInv, OpsInOrder

\* A process that starts with an empty store is in order.
LEMMA LifetimeInit == Init => LifetimeInv
<1> SUFFICES ASSUME Init PROVE LifetimeInv  OBVIOUS
<1>1. CallTypeOK /\ CallsInOrder  BY NoCallFacts DEF Init, CallTypeOK, CallsInOrder
<1>2. now \in Nat /\ now \in 0..MaxTime  BY StoreAssumption DEF Init
<1>3. /\ InTime(NoEntry) /\ NoOp \in OpRecord /\ OpOrder(NoOp) /\ NoRecord \in FileRecord
      /\ \A f : StagedFor(NoOp, f)
  BY <1>2, NoOpFacts
<1>4. op \in [Goroutines -> OpRecord] /\ staged \in [Goroutines -> FileRecord] /\ OpsInOrder
  BY <1>3 DEF Init, OpsInOrder
<1>5. record = NoRecord /\ record.entry = NoEntry  BY DEF Init, NoRecord
<1>6. StoreInv
  BY <1>2, <1>3, <1>4, <1>5 DEF StoreInv, StoreTypeOK, RecordOrder, WholeFile
<1> QED  BY <1>1, <1>6, LifetimeParts

\* Time passes: what was in time still is, and what was fresh still is.
LEMMA TickKeeps ==
  ASSUME StoreInv, Tick
  PROVE  StoreInv'
<1> DEFINE ms == now \div Millisecond
           later == now' \div Millisecond
<1>1. now \in Nat /\ MaxTime \in Nat  BY StoreAssumption DEF StoreInv, StoreTypeOK
<1>2. /\ now' \in (now + 1)..MaxTime
      /\ op' = op /\ record' = record /\ staged' = staged /\ adapter' = adapter
  BY DEF Tick
<1>3. now' \in 0..MaxTime /\ now' \in Nat /\ now <= now'  BY <1>1, <1>2
<1>4. ms \in Int /\ ms <= later  BY <1>1, <1>3, ClockFacts
<1>5. later \in Int  BY <1>3, ClockFacts
<1>6. ms = now \div Millisecond /\ later = now' \div Millisecond  OBVIOUS
<1> HIDE DEF ms, later
<1>7. ASSUME NEW e \in EntryRecord, InTime(e)
      PROVE  e.exp * Millisecond <= e.due \/ e.exp <= now' \div Millisecond
  <2>1. e.exp \in Int  BY DEF EntryRecord
  <2>2. e.exp * Millisecond <= e.due \/ e.exp <= ms  BY <1>6, <1>7 DEF InTime
  <2>3. e.exp <= ms => e.exp <= later  BY <1>4, <1>5, <2>1
  <2> QED  BY <1>6, <2>2, <2>3
<1>8. ASSUME NEW e \in EntryRecord, Fresh(e)
      PROVE  e.exp <= now' \div Millisecond + Milliseconds(e.ttl)
  <2>1. e.exp \in Int /\ e.ttl \in Int  BY DEF EntryRecord
  <2>2. Milliseconds(e.ttl) \in Int  BY <2>1, MillisecondsFacts
  <2>3. e.exp <= ms + Milliseconds(e.ttl)  BY <1>6, <1>8 DEF Fresh
  <2>4. e.exp <= later + Milliseconds(e.ttl)  BY <1>4, <1>5, <2>1, <2>2, <2>3
  <2> QED  BY <1>6, <2>4
<1>9. StoreTypeOK'  BY <1>2, <1>3 DEF StoreInv, StoreTypeOK
<1>10. ASSUME NEW g \in Goroutines PROVE OpOrder(op[g])' /\ StagedFor(op[g], staged[g])'
  <2>1. op[g].entry \in EntryRecord /\ OpOrder(op[g]) /\ StagedFor(op[g], staged[g])
    BY StoreFacts
  <2>2. op'[g] = op[g] /\ staged'[g] = staged[g]  BY <1>2
  <2>3. OpOrder(op[g])'  BY <1>2, <1>7, <1>8, <2>1, <2>2 DEF OpOrder, InTime, Fresh
  <2> QED  BY <2>1, <2>2, <2>3 DEF StagedFor
<1>11. RecordOrder'
  <2>1. record.entry \in EntryRecord /\ RecordOrder  BY DEF StoreInv, StoreTypeOK, FileRecord
  <2> QED  BY <1>2, <1>7, <2>1 DEF RecordOrder, InTime
<1> QED  BY <1>9, <1>10, <1>11 DEF StoreInv, OpsInOrder

\* Every step preserves the invariant.
LEMMA LifetimeNext == LifetimeInv /\ [Next]_vars => LifetimeInv'
<1> SUFFICES ASSUME LifetimeInv, [Next]_vars PROVE LifetimeInv'  OBVIOUS
<1>1. CallTypeOK /\ CallsInOrder /\ StoreInv  BY LifetimeParts
<1>A. ASSUME CallTypeOK', CallsInOrder', StoreInv' PROVE LifetimeInv'
  BY <1>A DEF LifetimeInv, CallsInOrder, StoreInv, OpsInOrder
<1>B. ASSUME UNCHANGED storeVars PROVE StoreInv'
  BY <1>1, <1>B
  DEF storeVars, StoreInv, StoreTypeOK, OpsInOrder, OpOrder, StagedFor, RecordOrder, InTime, Fresh
<1>C. ASSUME UNCHANGED call PROVE CallTypeOK' /\ CallsInOrder'
  BY <1>1, <1>C DEF CallTypeOK, CallsInOrder
<1>D. ASSUME NEW g \in Goroutines, call' = [call EXCEPT ![g] = NoCall]
      PROVE  CallTypeOK' /\ CallsInOrder'
  BY <1>1, <1>D, NoCallFacts, SetCall
<1>2. CASE UNCHANGED vars  BY <1>2, <1>A, <1>B, <1>C DEF vars
<1>3. CASE Tick
  <2>1. StoreInv'  BY <1>1, <1>3, TickKeeps
  <2> QED  BY <1>3, <1>A, <1>C, <2>1 DEF Tick
<1>4. CASE Crash
  <2>1. call' = [g \in Goroutines |-> NoCall] /\ op' = [g \in Goroutines |-> NoOp]
        /\ staged' = [g \in Goroutines |-> NoRecord]
        /\ now' = now /\ record' = record /\ adapter' = adapter
    BY <1>4 DEF Crash
  <2>2. CallTypeOK' /\ CallsInOrder'
    BY <2>1, NoCallFacts DEF CallTypeOK, CallsInOrder
  <2>3. now \in Nat  BY <1>1, StoreAssumption DEF StoreInv, StoreTypeOK
  <2>4. /\ NoOp \in OpRecord /\ OpOrder(NoOp) /\ NoRecord \in FileRecord
        /\ \A f : StagedFor(NoOp, f)
    BY <2>3, NoOpFacts
  <2>5. /\ op' \in [Goroutines -> OpRecord] /\ staged' \in [Goroutines -> FileRecord]
        /\ \A g \in Goroutines : OpOrder(op'[g]) /\ StagedFor(op'[g], staged'[g])
    BY <2>1, <2>4
  <2>6. StoreTypeOK'  BY <1>1, <2>1, <2>5 DEF StoreInv, StoreTypeOK
  <2>7. OpsInOrder'  BY <2>1, <2>5 DEF OpsInOrder, OpOrder, StagedFor, InTime, Fresh
  <2>8. RecordOrder'  BY <1>1, <2>1 DEF StoreInv, RecordOrder, InTime
  <2> QED  BY <1>A, <2>2, <2>6, <2>7, <2>8 DEF StoreInv
<1>5. ASSUME NEW g \in Goroutines,
             \/ StartResolve(g) \/ Client(g) \/ StoreAnswer(g) \/ EndCall(g)
             \/ Lookup(g) \/ Store(g) \/ Decode(g) \/ GetReturns(g)
      PROVE  LifetimeInv'
  <2> DEFINE o == op[g]
  <2>1. now \in Nat /\ o \in OpRecord /\ OpOrder(o)  BY <1>1, StoreFacts
  <2> HIDE DEF o
  <2>2. CASE StartResolve(g)
    BY <1>1, <1>A, <1>B, <2>2, CallSteps DEF StartResolve
  <2>3. CASE Client(g)  BY <1>1, <1>A, <1>B, <2>3, CallSteps DEF Client
  <2>4. CASE StoreAnswer(g)
    <3> DEFINE e == EntryFor(call[g].answer, call[g].cttl)
               n == [NoOp EXCEPT !.at = "put", !.entry = e]
    <3>1. call[g] \in CallRecord  BY <1>1 DEF CallTypeOK
    <3>2. call[g].cttl \in Cttls \cup {NoCttl}  BY <3>1 DEF CallRecord
    <3>3. e \in EntryRecord /\ InTime(e) /\ Fresh(e)  BY <2>1, <3>2, EntryFacts
    <3>4. op' = [op EXCEPT ![g] = n] /\ UNCHANGED <<now, adapter, record, staged>>
      BY <2>4 DEF StoreAnswer
    <3> HIDE DEF e
    <3>5. NoOp \in OpRecord  BY <2>1, NoOpFacts
    <3>6. n \in OpRecord  BY <3>3, <3>5 DEF OpRecord, OpStates
    <3>7. n.at = "put" /\ n.entry = e  BY <3>5 DEF OpRecord
    <3> HIDE DEF n
    <3>8. OpOrder(n)  BY <3>3, <3>7 DEF OpOrder
    <3>9. StoreInv'  BY <1>1, <3>4, <3>6, <3>7, <3>8, OpStep
    <3> QED  BY <1>A, <1>D, <2>4, <3>9 DEF StoreAnswer
  <2>5. CASE EndCall(g)  BY <1>A, <1>B, <1>D, <2>5 DEF EndCall
  <2>6. CASE Lookup(g)
    <3> DEFINE n == [o EXCEPT !.at = "get"]
    <3>1. n \in OpRecord  BY <2>1 DEF OpRecord, OpStates
    <3>2. n.at = "get" /\ n.entry = o.entry  BY <2>1 DEF OpRecord
    <3>3. op' = [op EXCEPT ![g] = n] /\ UNCHANGED <<now, adapter, record, staged>>
      BY <2>6 DEF Lookup, o
    <3> HIDE DEF n
    <3>4. OpOrder(n)  BY <2>1, <3>2 DEF OpOrder
    <3>5. StoreInv'  BY <1>1, <3>1, <3>2, <3>3, <3>4, OpStep
    <3> QED  BY <1>A, <1>C, <2>6, <3>5 DEF Lookup
  <2>7. CASE Store(g)
    <3>1. StoreInv'  BY <1>1, <2>7, StoreSteps DEF Store
    <3> QED  BY <1>A, <1>C, <2>7, <3>1 DEF Store
  <2>8. CASE Decode(g)
    <3>1. CASE op[g].entry.exp > now \div Millisecond
      <4> DEFINE n == [o EXCEPT !.at = "served"]
      <4>1. o.at = "decode"  BY <2>8 DEF Decode, o
      <4>2. n \in OpRecord  BY <2>1 DEF OpRecord, OpStates
      <4>3. n.at = "served" /\ n.entry = o.entry  BY <2>1 DEF OpRecord
      <4>4. op' = [op EXCEPT ![g] = n] /\ UNCHANGED <<now, adapter, record, staged>>
        BY <2>8, <3>1 DEF Decode, OpGoes, o
      <4> HIDE DEF n
      <4>5. OpOrder(n)  BY <2>1, <4>1, <4>3 DEF OpOrder
      <4>6. StoreInv'  BY <1>1, <4>2, <4>3, <4>4, <4>5, OpStep
      <4> QED  BY <1>A, <1>C, <2>8, <4>6 DEF Decode
    <3>2. CASE ~(op[g].entry.exp > now \div Millisecond)
      <4>1. StoreInv'  BY <1>1, <2>8, <3>2, ReturnStep DEF Decode
      <4> QED  BY <1>A, <1>C, <2>8, <4>1 DEF Decode
    <3> QED  BY <3>1, <3>2
  <2>9. CASE GetReturns(g)
    <3>1. StoreInv'  BY <1>1, <2>9, ReturnStep DEF GetReturns
    <3> QED  BY <1>A, <1>C, <2>9, <3>1 DEF GetReturns
  <2> QED  BY <1>5, <2>2, <2>3, <2>4, <2>5, <2>6, <2>7, <2>8, <2>9
<1> QED  BY <1>2, <1>3, <1>4, <1>5 DEF Next

\* In every reachable state the calls, the operations of the stores and the
\* record are as LifetimeInv says: what decodeResponse, entryCodec and the
\* adapters hand to each other fits together at the limits of every integer.
THEOREM LifetimeInvariant == Spec => []LifetimeInv
<1>1. Init => LifetimeInv  BY LifetimeInit
<1>2. LifetimeInv /\ [Next]_vars => LifetimeInv'  BY LifetimeNext
<1> QED  BY <1>1, <1>2, PTL DEF Spec

\* No adapter's conversion of a TTL that it can represent lets a record expire
\* before the entry in it.
THEOREM StoreOutlivesItsEntry == Spec => []StoreOutlivesEntry
<1>1. LifetimeInv => StoreOutlivesEntry
  BY DEF LifetimeInv, RecordOrder, Covered, StoreOutlivesEntry
<1> QED  BY <1>1, LifetimeInvariant, PTL

\* However many Puts are under way, wherever their writes stop and whenever the
\* process dies, the file of a key is all of one Put's, and so is what a Get reads:
\* a staging file is written by one Put alone, and renamed when it is complete.
THEOREM RecordsAreWhole == Spec => []EntriesWhole
<1>1. LifetimeInv => EntriesWhole
  BY DEF LifetimeInv, RecordOrder, WholeFile, OpOrder, EntriesWhole
<1> QED  BY <1>1, LifetimeInvariant, PTL

\* A call of a client that did not get a 2xx response and all of its body ends in
\* an error with the labels that say why.
THEOREM FailuresAreErrors == Spec => []FailuresStayFailures
<1>1. LifetimeInv => FailuresStayFailures
  BY DEF LifetimeInv, CallOrder, ErrorKinds, FailuresStayFailures
<1> QED  BY <1>1, LifetimeInvariant, PTL

\* What Decode lets through is served before the time that the API and the
\* configuration allow its answer is over.
THEOREM AnswersServedInTime == Spec => ServedWithinLife
<1>1. LifetimeInv /\ [Next]_vars =>
        [\A g \in Goroutines :
           op'[g].at = "served" /\ op[g].at # "served" => now < op'[g].entry.due]_vars
  <2> SUFFICES ASSUME LifetimeInv, [Next]_vars, NEW g \in Goroutines,
                      op'[g].at = "served", op[g].at # "served"
               PROVE  now < op'[g].entry.due
    OBVIOUS
  <2>1. StoreInv  BY LifetimeParts
  <2>2. op \in [Goroutines -> OpRecord]  BY <2>1 DEF StoreInv, StoreTypeOK
  <2>3. Decode(g) /\ op[g].entry.exp > now \div Millisecond /\ op'[g].entry = op[g].entry
    <3>1. op' # op  OBVIOUS
    <3>2. ASSUME NEW h \in Goroutines, NEW n, n.at # "served", op' = [op EXCEPT ![h] = n]
          PROVE  FALSE
      BY <2>2, <3>2
    <3>3. ASSUME NEW h \in Goroutines, OpReturns(h) PROVE FALSE
      BY <3>2, <3>3 DEF OpReturns, NoOp
    <3>4. ASSUME NEW h \in Goroutines, NEW at, at # "served", op' = [op EXCEPT ![h].at = at]
          PROVE  FALSE
      <4>1. op[h] \in OpRecord  BY <2>2
      <4>2. [op[h] EXCEPT !.at = at].at = at  BY <4>1 DEF OpRecord
      <4> QED  BY <3>2, <3>4, <4>2
    <3>5. ASSUME NEW h \in Goroutines, NEW at, at # "served", NEW e,
                 op' = [op EXCEPT ![h] = [@ EXCEPT !.at = at, !.entry = e]]
          PROVE  FALSE
      <4>1. op[h] \in OpRecord  BY <2>2
      <4>2. [op[h] EXCEPT !.at = at, !.entry = e].at = at  BY <4>1 DEF OpRecord
      <4> QED  BY <3>2, <3>5, <4>2
    <3>6. ~UNCHANGED vars /\ ~Tick  BY <3>1 DEF vars, storeVars, Tick
    <3>7. ~Crash
      <4>1. Crash => op'[g] = NoOp  BY DEF Crash
      <4> QED  BY <4>1 DEF NoOp
    <3>8. PICK h \in Goroutines : StoreAnswer(h) \/ Lookup(h) \/ Store(h) \/ Decode(h) \/ GetReturns(h)
      BY <3>1, <3>6, <3>7 DEF Next, StartResolve, Client, EndCall, storeVars
    <3>9. ~StoreAnswer(h)
      <4> DEFINE e == EntryFor(call[h].answer, call[h].cttl)
      <4>1. now \in Nat  BY <2>1, StoreAssumption DEF StoreInv, StoreTypeOK
      <4>2. NoOp \in OpRecord  BY <4>1, NoOpFacts
      <4> HIDE DEF e
      <4>3. [NoOp EXCEPT !.at = "put", !.entry = e].at = "put"  BY <4>2 DEF OpRecord
      <4> QED  BY <3>2, <4>3 DEF StoreAnswer, e
    <3>10. ~Lookup(h) /\ ~GetReturns(h)  BY <3>3, <3>4 DEF Lookup, GetReturns
    <3>11. ~Store(h)
      <4>1. ~RemotePut(h) /\ ~PutFails(h) /\ ~GetMisses(h) /\ ~FileRename(h) /\ ~FileRemove(h)
        BY <3>3 DEF RemotePut, PutFails, GetMisses, FileRename, FileRemove
      <4>2. ~RemoteGet(h)  BY <3>5 DEF RemoteGet
      <4>3. ~WritePrefix(h) /\ ~WriteValue(h)  BY <3>4 DEF WritePrefix, WriteValue, OpGoes
      <4>4. ~FileRead(h)
        <5>1. CASE now > record.until
          <6>1. FileRead(h) => op' = [op EXCEPT ![h].at = "remove"]  BY <5>1 DEF FileRead
          <6> QED  BY <3>4, <6>1
        <5>2. CASE ~(now > record.until)
          <6>1. FileRead(h) =>
                  op' = [op EXCEPT ![h] = [@ EXCEPT !.at = "decode", !.entry = record.entry]]
            BY <5>2 DEF FileRead
          <6> QED  BY <3>5, <6>1
        <5> QED  BY <5>1, <5>2
      <4>5. ~FilePut(h)
        <5> DEFINE until == Wrap(now + op[h].entry.ttl)
        <5>1. FilePut(h) => \/ OpReturns(h)
                            \/ op' = [op EXCEPT ![h] = [@ EXCEPT !.at = "write", !.until = until]]
          BY DEF FilePut
        <5>2. op[h] \in OpRecord  BY <2>2
        <5> HIDE DEF until
        <5>3. [op[h] EXCEPT !.at = "write", !.until = until].at = "write"  BY <5>2 DEF OpRecord
        <5> QED  BY <3>2, <3>3, <5>1, <5>3
      <4> QED  BY <4>1, <4>2, <4>3, <4>4, <4>5 DEF Store, StoreStep
    <3>12. Decode(h)  BY <3>8, <3>9, <3>10, <3>11
    <3>13. op[h].entry.exp > now \div Millisecond /\ op' = [op EXCEPT ![h].at = "served"]
      BY <3>3, <3>12 DEF Decode, OpGoes
    <3>14. h = g  BY <2>2, <3>13
    <3>15. op'[g].entry = op[g].entry
      <4>1. op[g] \in OpRecord  BY <2>2
      <4>2. [op[g] EXCEPT !.at = "served"].entry = op[g].entry  BY <4>1 DEF OpRecord
      <4> QED  BY <2>2, <3>13, <3>14, <4>2
    <3> QED  BY <3>12, <3>13, <3>14, <3>15
  <2>4. now \in Nat /\ op[g].entry \in EntryRecord /\ OpOrder(op[g])  BY <2>1, StoreFacts
  <2> DEFINE e == op[g].entry
             ms == now \div Millisecond
  <2>5. e.exp \in Int  BY <2>4 DEF EntryRecord
  <2>6. e.due \in Int  BY <2>4 DEF EntryRecord
  <2>7. Millisecond \in Nat \ {0}  BY DurationAssumption
  <2>8. ms \in Nat  BY <2>4, ClockFacts
  <2>9. now < ms * Millisecond + Millisecond  BY <2>4, ClockFacts
  <2>10. InTime(e)  BY <2>4 DEF OpOrder
  <2>11. e.exp > ms /\ (e.exp * Millisecond <= e.due \/ e.exp <= ms)  BY <2>3, <2>10 DEF InTime
  <2> HIDE DEF e, ms
  <2>12. e.exp * Millisecond <= e.due  BY <2>5, <2>8, <2>11
  <2>13. (ms + 1) * Millisecond <= e.exp * Millisecond  BY <2>5, <2>7, <2>8, <2>11
  <2>14. (ms + 1) * Millisecond = ms * Millisecond + Millisecond  BY <2>7, <2>8
  <2>15. e.exp * Millisecond \in Int /\ ms * Millisecond \in Int  BY <2>5, <2>7, <2>8
  <2>16. now < e.due  BY <2>4, <2>6, <2>7, <2>9, <2>12, <2>13, <2>14, <2>15
  <2> QED  BY <2>3, <2>16 DEF e
<1> QED  BY <1>1, LifetimeInvariant, PTL DEF Spec, ServedWithinLife
=============================================================================
