--------------------------- MODULE AuctionProofs ---------------------------
(***************************************************************************)
(* Proofs about the data of an auction, for any eids, identifiers, devices *)
(* and regulations, any limit of keys and any host.  The lists are built   *)
(* by loops, so the lemmas about them go by induction: on a set of numbers *)
(* that has the first and with each also the next.                         *)
(***************************************************************************)
EXTENDS AuctionData, TLAPS, WellFoundedInduction, FiniteSetTheorems

-----------------------------------------------------------------------------
\* Loops.

\* A set of natural numbers that is not empty has a least one.
LEMMA LeastNat ==
  ASSUME NEW T, T \subseteq Nat, T # {}
  PROVE  \E n \in T : \A m \in T : n <= m
<1>1. PICK n \in T : \A m \in T : ~ (<<m, n>> \in OpToRel(<, Nat))
  BY NatLessThanWellFounded, WFMin
<1>2. \A m \in T : <<m, n>> \in OpToRel(<, Nat) <=> m < n
  BY DEF OpToRel
<1>3. ASSUME NEW m \in T PROVE n <= m
  <2>1. m \in Nat /\ n \in Nat /\ ~(m < n)  BY <1>1, <1>2
  <2> QED  BY <2>1
<1> QED  BY <1>3

\* Induction from m up to n, with a set in place of a predicate.
LEMMA InductionUpTo ==
  ASSUME NEW m \in Nat, NEW n \in Nat, m <= n, NEW S, m \in S,
         \A i \in m..n : i > m /\ i - 1 \in S => i \in S
  PROVE  m..n \subseteq S
<1> SUFFICES ASSUME (m..n) \ S # {} PROVE FALSE
  OBVIOUS
<1> DEFINE T == (m..n) \ S
<1>1. T \subseteq Nat /\ T # {}  OBVIOUS
<1>2. PICK k \in T : \A j \in T : k <= j
  <2> HIDE DEF T
  <2> QED  BY <1>1, LeastNat
<1>3. k > m /\ k - 1 \in m..n /\ ~(k <= k - 1)
  BY <1>2
<1> QED  BY <1>2, <1>3

\* f are the values of a loop from m to n that starts with base and whose turn
\* i makes of a value x the value step[i][x].
IsRun(f, m, n, base, step) ==
  /\ f[m] = base
  /\ \A i \in (m + 1)..n : f[i] = step[i][f[i - 1]]

\* A loop whose turns take values of S to values of S has a run of any length.
LEMMA LoopRuns ==
  ASSUME NEW S, NEW base \in S, NEW step \in [Nat -> [S -> S]],
         NEW m \in Nat, NEW n \in Nat, m <= n
  PROVE  \E f \in [m..n -> S] : IsRun(f, m, n, base, step)
<1> DEFINE Runs(k) == \E f \in [m..k -> S] : IsRun(f, m, k, base, step)
           T == {k \in m..n : Runs(k)}
<1>1. Runs(m)
  <2> DEFINE f == [i \in m..m |-> base]
  <2>1. f \in [m..m -> S] /\ IsRun(f, m, m, base, step)  BY DEF IsRun
  <2> QED  BY <2>1
<1>2. ASSUME NEW k \in m..n, k > m, Runs(k - 1) PROVE Runs(k)
  <2>1. PICK f \in [m..(k - 1) -> S] : IsRun(f, m, k - 1, base, step)
    BY <1>2
  <2> DEFINE g == [i \in m..k |-> IF i < k THEN f[i] ELSE step[k][f[k - 1]]]
  <2>2. step[k][f[k - 1]] \in S  BY <1>2
  <2>3. g \in [m..k -> S]  BY <1>2, <2>2
  <2>4. g[m] = base  BY <1>2, <2>1 DEF IsRun
  <2>5. ASSUME NEW i \in (m + 1)..k PROVE g[i] = step[i][g[i - 1]]
    <3>1. CASE i < k
      <4>1. g[i] = f[i] /\ g[i - 1] = f[i - 1]  BY <3>1
      <4>2. f[i] = step[i][f[i - 1]]  BY <2>1, <3>1 DEF IsRun
      <4> QED  BY <4>1, <4>2
    <3>2. CASE i = k
      <4>1. g[k] = step[k][f[k - 1]] /\ g[k - 1] = f[k - 1]  BY <1>2
      <4> QED  BY <3>2, <4>1
    <3> QED  BY <3>1, <3>2
  <2> HIDE DEF g
  <2> QED  BY <2>3, <2>4, <2>5 DEF IsRun
<1> HIDE DEF Runs
<1>3. m..n \subseteq T
  <2>1. m \in T  BY <1>1
  <2>2. \A i \in m..n : i > m /\ i - 1 \in T => i \in T  BY <1>2
  <2> HIDE DEF T
  <2> QED  BY <2>1, <2>2, InductionUpTo
<1> QED  BY <1>3 DEF Runs

-----------------------------------------------------------------------------
\* Lists.

\* A function on 1..n is a list.
LEMMA FunctionIsList ==
  ASSUME NEW S, NEW n \in Nat, NEW f \in [1..n -> S]
  PROVE  f \in Seq(S) /\ Len(f) = n /\ ToSet(f) = {f[i] : i \in 1..n}
BY DEF ToSet

\* A list has the elements at its places.
LEMMA ToSetIs ==
  ASSUME NEW S, NEW s \in Seq(S)
  PROVE  ToSet(s) = {s[i] : i \in 1..Len(s)} /\ Len(s) \in Nat /\ ToSet(s) \subseteq S
BY DEF ToSet

\* A list over a set is one over every larger set.
LEMMA WiderList ==
  ASSUME NEW S, NEW T, S \subseteq T, NEW s \in Seq(S)
  PROVE  s \in Seq(T)
<1>1. s \in [1..Len(s) -> T] /\ Len(s) \in Nat  OBVIOUS
<1> QED  BY <1>1, FunctionIsList

\* A concatenation has the elements of both lists.
LEMMA ConcatToSet ==
  ASSUME NEW S, NEW s \in Seq(S), NEW t \in Seq(S)
  PROVE  ToSet(s \o t) = ToSet(s) \cup ToSet(t)
<1>1. ASSUME NEW x \in ToSet(s \o t) PROVE x \in ToSet(s) \cup ToSet(t)
  <2>1. PICK i \in 1..(Len(s) + Len(t)) : x = (s \o t)[i]  BY DEF ToSet
  <2>2. CASE i <= Len(s)  BY <2>1, <2>2 DEF ToSet
  <2>3. CASE i > Len(s)
    <3>1. i - Len(s) \in 1..Len(t) /\ x = t[i - Len(s)]  BY <2>1, <2>3
    <3> QED  BY <3>1 DEF ToSet
  <2> QED  BY <2>1, <2>2, <2>3
<1>2. ASSUME NEW i \in 1..Len(s) PROVE s[i] \in ToSet(s \o t)
  BY DEF ToSet
<1>3. ASSUME NEW i \in 1..Len(t) PROVE t[i] \in ToSet(s \o t)
  <2>1. Len(s) + i \in 1..Len(s \o t) /\ (s \o t)[Len(s) + i] = t[i]  OBVIOUS
  <2> QED  BY <2>1 DEF ToSet
<1>4. ToSet(s) = {s[i] : i \in 1..Len(s)} /\ ToSet(t) = {t[i] : i \in 1..Len(t)}
  BY DEF ToSet
<1>5. ToSet(s) \cup ToSet(t) \subseteq ToSet(s \o t)  BY <1>2, <1>3, <1>4
<1> QED  BY <1>1, <1>5

\* and starts as the first of them, when that is not empty.
LEMMA ConcatFirst ==
  ASSUME NEW S, NEW s \in Seq(S), NEW t \in Seq(S), s # <<>>
  PROVE  s \o t # <<>> /\ (s \o t)[1] = s[1]
<1>1. Len(s) \in Nat /\ Len(s) >= 1 /\ Len(t) \in Nat  OBVIOUS
<1>2. Len(s \o t) = Len(s) + Len(t) /\ (s \o t)[1] = s[1]  BY <1>1
<1>3. Len(s \o t) # 0  BY <1>1, <1>2
<1> QED  BY <1>2, <1>3

-----------------------------------------------------------------------------
\* FlattenSeq.

\* The values of the loop that appends the lists of ss one by one.
Appends(f, ss) ==
  /\ f[1] = ss[1]
  /\ \A i \in 2..Len(ss) : f[i] = f[i - 1] \o ss[i]

\* FlattenSeq is that loop, and it goes through lists only.
LEMMA FlattenRun ==
  ASSUME NEW S, NEW ss \in Seq(Seq(S)), Len(ss) >= 1
  PROVE  \E f \in [1..Len(ss) -> Seq(S)] : Appends(f, ss) /\ FlattenSeq(ss) = f[Len(ss)]
<1> DEFINE n == Len(ss)
           V == Seq(S)
           F(f) == [i \in 1..n |-> IF i = 1 THEN ss[i] ELSE f[i - 1] \o ss[i]]
           u == CHOOSE f : f = F(f)
           step == [i \in Nat |-> [x \in V |-> IF i \in 1..n THEN x \o ss[i] ELSE x]]
<1>1. n \in Nat /\ 1 <= n /\ n # 0 /\ \A i \in 1..n : ss[i] \in V  OBVIOUS
<1>2. \A i \in 1..n : \A x \in V : x \o ss[i] \in V  OBVIOUS
<1>3. FlattenSeq(ss) = u[n]  BY <1>1 DEF FlattenSeq
<1> HIDE DEF n, V
<1>4. step \in [Nat -> [V -> V]]  BY <1>1, <1>2
<1>5. PICK f \in [1..n -> V] : IsRun(f, 1, n, ss[1], step)
  <2> HIDE DEF step
  <2>1. ss[1] \in V  BY <1>1
  <2> QED  BY <1>1, <1>4, <2>1, LoopRuns
<1>6. f = F(f)
  <2>1. ASSUME NEW i \in 2..n PROVE f[i] = f[i - 1] \o ss[i]
    <3>1. f[i] = step[i][f[i - 1]]
      <4> HIDE DEF step
      <4> QED  BY <1>1, <1>5 DEF IsRun
    <3>2. f[i - 1] \in V /\ i \in Nat /\ i \in 1..n  BY <1>1
    <3> QED  BY <3>1, <3>2
  <2>2. f[1] = ss[1]  BY <1>5 DEF IsRun
  <2> HIDE DEF step
  <2>3. ASSUME NEW i \in 1..n PROVE f[i] = IF i = 1 THEN ss[i] ELSE f[i - 1] \o ss[i]
    <3>1. i = 1 \/ i \in 2..n  BY <1>1
    <3> QED  BY <2>1, <2>2, <3>1
  <2> QED  BY <2>3
<1> HIDE DEF step
<1>7. u = F(u)  BY <1>6
<1> HIDE DEF u
<1>8. u[1] = ss[1]  BY <1>1, <1>7
<1>9. ASSUME NEW i \in 2..n PROVE u[i] = u[i - 1] \o ss[i]
  <2>1. i \in 1..n /\ i # 1  BY <1>1
  <2> QED  BY <2>1, <1>7
<1>10. u \in [1..n -> V]
  <2> DEFINE T == {i \in 1..n : u[i] \in V}
  <2>1. 1 \in T  BY <1>1, <1>8
  <2>2. ASSUME NEW i \in 1..n, i > 1, i - 1 \in T PROVE i \in T
    <3>1. u[i - 1] \in V /\ i \in 2..n  BY <1>1, <2>2
    <3> QED  BY <1>2, <1>9, <3>1
  <2>3. 1..n \subseteq T
    <3> HIDE DEF T
    <3> QED  BY <1>1, <2>1, <2>2, InductionUpTo
  <2> QED  BY <2>3, <1>7
<1> QED  BY <1>3, <1>8, <1>9, <1>10 DEF n, V, Appends

\* What it makes of lists is a list, and has just their elements.
LEMMA FlattenElements ==
  ASSUME NEW S, NEW ss \in Seq(Seq(S))
  PROVE  /\ FlattenSeq(ss) \in Seq(S)
         /\ ToSet(FlattenSeq(ss)) = UNION {ToSet(ss[i]) : i \in 1..Len(ss)}
<1>1. CASE Len(ss) = 0
  <2>1. ss = <<>> /\ FlattenSeq(ss) = <<>>  BY <1>1 DEF FlattenSeq
  <2>2. ToSet(<<>>) = {} /\ {ToSet(ss[i]) : i \in 1..Len(ss)} = {}  BY <1>1 DEF ToSet
  <2>3. UNION {ToSet(ss[i]) : i \in 1..Len(ss)} = {}  BY <2>2
  <2>4. <<>> \in Seq(S)  OBVIOUS
  <2> QED  BY <2>1, <2>2, <2>3, <2>4
<1>2. CASE Len(ss) >= 1
  <2>1. PICK f \in [1..Len(ss) -> Seq(S)] : Appends(f, ss) /\ FlattenSeq(ss) = f[Len(ss)]
    BY <1>2, FlattenRun
  <2> DEFINE n == Len(ss)
             Upto(i) == UNION {ToSet(ss[j]) : j \in 1..i}
             T == {i \in 1..n : ToSet(f[i]) = Upto(i)}
  <2>2. n \in Nat /\ 1 <= n /\ \A i \in 1..n : ss[i] \in Seq(S) /\ f[i] \in Seq(S)  BY <1>2
  <2>3. 1 \in T
    <3>1. f[1] = ss[1]  BY <2>1 DEF Appends
    <3>2. Upto(1) = ToSet(ss[1])  OBVIOUS
    <3> HIDE DEF Upto
    <3> QED  BY <2>2, <3>1, <3>2
  <2>4. ASSUME NEW i \in 1..n, i > 1, i - 1 \in T PROVE i \in T
    <3>1. i \in 2..n /\ i - 1 \in 1..n  BY <2>2, <2>4
    <3>2. f[i] = f[i - 1] \o ss[i]  BY <2>1, <3>1 DEF Appends
    <3>3. ToSet(f[i]) = ToSet(f[i - 1]) \cup ToSet(ss[i])
      <4>1. f[i - 1] \in Seq(S) /\ ss[i] \in Seq(S)  BY <2>2, <3>1
      <4> QED  BY <4>1, <3>2, ConcatToSet
    <3>4. Upto(i) = Upto(i - 1) \cup ToSet(ss[i])
      <4>1. 1..i = 1..(i - 1) \cup {i}  BY <3>1
      <4> QED  BY <4>1
    <3> QED  BY <2>4, <3>3, <3>4
  <2> HIDE DEF n, Upto
  <2>5. 1..n \subseteq T
    <3> HIDE DEF T
    <3> QED  BY <2>2, <2>3, <2>4, InductionUpTo
  <2>6. n \in T /\ f[n] \in Seq(S)  BY <2>2, <2>5
  <2>7. ToSet(f[n]) = Upto(n)  BY <2>6
  <2> QED  BY <2>1, <2>6, <2>7 DEF n, Upto
<1> QED
  <2>1. Len(ss) \in Nat  OBVIOUS
  <2> QED  BY <1>1, <1>2, <2>1

\* Its first element is the first of the first list that is not empty.
LEMMA FlattenFirst ==
  ASSUME NEW S, NEW ss \in Seq(Seq(S)), FlattenSeq(ss) # <<>>
  PROVE  \E i \in 1..Len(ss) : /\ ss[i] # <<>> /\ FlattenSeq(ss)[1] = ss[i][1]
                               /\ \A j \in 1..(i - 1) : ss[j] = <<>>
<1>1. Len(ss) >= 1
  <2>1. Len(ss) # 0  BY DEF FlattenSeq
  <2> QED  BY <2>1
<1>2. PICK f \in [1..Len(ss) -> Seq(S)] : Appends(f, ss) /\ FlattenSeq(ss) = f[Len(ss)]
  BY <1>1, FlattenRun
<1> DEFINE n == Len(ss)
           First(k) == \E i \in 1..k : /\ ss[i] # <<>> /\ f[k][1] = ss[i][1]
                                       /\ \A j \in 1..(i - 1) : ss[j] = <<>>
           T == {k \in 1..n : IF f[k] = <<>> THEN \A j \in 1..k : ss[j] = <<>> ELSE First(k)}
<1>3. n \in Nat /\ 1 <= n /\ \A i \in 1..n : ss[i] \in Seq(S) /\ f[i] \in Seq(S)
  <2>1. n \in Nat /\ 1 <= n  BY <1>1
  <2>2. \A i \in 1..n : ss[i] \in Seq(S)  OBVIOUS
  <2> HIDE DEF n
  <2> QED  BY <2>1, <2>2 DEF n
<1> HIDE DEF n
<1>4. 1 \in T
  <2>1. f[1] = ss[1]  BY <1>2 DEF Appends
  <2>2. CASE f[1] = <<>>
    <3>1. \A j \in 1..1 : j = 1  OBVIOUS
    <3>2. \A j \in 1..1 : ss[j] = <<>>  BY <2>1, <2>2, <3>1, Zenon
    <3>3. 1 \in 1..n  BY <1>3
    <3> QED  BY <2>2, <3>2, <3>3, Zenon
  <2>3. CASE f[1] # <<>>
    <3>1. First(1)  BY <2>1, <2>3
    <3> HIDE DEF First
    <3> QED  BY <1>3, <2>3, <3>1
  <2> QED  BY <2>2, <2>3
<1>5. ASSUME NEW k \in 1..n, k > 1, k - 1 \in T PROVE k \in T
  <2>1. k \in 2..n /\ k - 1 \in 1..n  BY <1>3, <1>5
  <2>2. f[k] = f[k - 1] \o ss[k]  BY <1>2, <2>1 DEF Appends, n
  <2>3. f[k - 1] \in Seq(S) /\ ss[k] \in Seq(S)  BY <1>3, <2>1
  <2>4. CASE f[k - 1] = <<>>
    <3>1. f[k] = ss[k]  BY <2>2, <2>3, <2>4
    <3>2. \A j \in 1..(k - 1) : ss[j] = <<>>  BY <1>5, <2>4
    <3>3. CASE ss[k] = <<>>
      <4>1. 1..k = 1..(k - 1) \cup {k}  BY <2>1, <1>3
      <4>2. \A j \in 1..k : ss[j] = <<>>  BY <3>2, <3>3, <4>1
      <4> QED  BY <3>1, <3>3, <4>2
    <3>4. CASE ss[k] # <<>>
      <4>1. First(k)  BY <3>1, <3>2, <3>4, <2>1
      <4> QED  BY <3>1, <3>4, <4>1
    <3> QED  BY <3>3, <3>4
  <2>5. CASE f[k - 1] # <<>>
    <3>1. f[k] # <<>> /\ f[k][1] = f[k - 1][1]
      <4>1. f[k - 1] \o ss[k] # <<>> /\ (f[k - 1] \o ss[k])[1] = f[k - 1][1]
        BY <2>3, <2>5, ConcatFirst, Zenon
      <4> QED  BY <2>2, <4>1
    <3>2. First(k - 1)  BY <1>5, <2>5
    <3>3. First(k)  BY <3>1, <3>2, <2>1
    <3> QED  BY <3>1, <3>3
  <2> QED  BY <2>4, <2>5
<1>6. 1..n \subseteq T
  <2> HIDE DEF T
  <2> QED  BY <1>3, <1>4, <1>5, InductionUpTo
<1>7. n \in T
  <2> HIDE DEF T
  <2> QED  BY <1>3, <1>6
<1>8. First(n)
  <2> HIDE DEF First
  <2> QED  BY <1>2, <1>7 DEF n
<1> QED  BY <1>2, <1>8 DEF n

-----------------------------------------------------------------------------
\* The keys of an auction.

\* The list of ids of an eid has those that are not blank.
LEMMA IDsFacts ==
  ASSUME NEW e \in EIDs
  PROVE  /\ IDs(e) \in Seq(Texts)
         /\ \A id : id \in ToSet(IDs(e)) <=> id \in ToSet(e.uids) /\ NotBlank(id)
<1> DEFINE ss == [i \in 1..Len(e.uids) |-> Present(e.uids[i])]
<1>1. e.uids \in Seq(Texts) /\ Len(e.uids) \in Nat  BY DEF EIDs
<1>2. ASSUME NEW i \in 1..Len(e.uids)
      PROVE  /\ ss[i] \in Seq(Texts)
             /\ ToSet(ss[i]) = IF NotBlank(e.uids[i]) THEN {e.uids[i]} ELSE {}
  <2>1. e.uids[i] \in Texts  BY <1>1
  <2> QED  BY <2>1 DEF Present, ToSet
<1>3. ss \in Seq(Seq(Texts)) /\ Len(ss) = Len(e.uids)
  <2>1. ss \in [1..Len(e.uids) -> Seq(Texts)]  BY <1>2
  <2> HIDE DEF ss
  <2> QED  BY <1>1, <2>1, FunctionIsList
<1>4. IDs(e) = FlattenSeq(ss)  BY DEF IDs
<1> HIDE DEF ss
<1>5. /\ IDs(e) \in Seq(Texts)
      /\ ToSet(IDs(e)) = UNION {ToSet(ss[i]) : i \in 1..Len(e.uids)}
  BY <1>3, <1>4, FlattenElements
<1>6. ToSet(e.uids) = {e.uids[i] : i \in 1..Len(e.uids)}  BY <1>1, ToSetIs
<1>7. ASSUME NEW id PROVE id \in ToSet(IDs(e)) <=> id \in ToSet(e.uids) /\ NotBlank(id)
  <2>1. id \in ToSet(IDs(e)) <=> \E i \in 1..Len(e.uids) : id \in ToSet(ss[i])
    BY <1>5, Zenon
  <2>2. \A i \in 1..Len(e.uids) : id \in ToSet(ss[i]) <=> id = e.uids[i] /\ NotBlank(id)
    BY <1>2
  <2> QED  BY <1>6, <2>1, <2>2
<1> QED  BY <1>5, <1>7

\* The keys of an eid are its ids under a namespace, in their order.
LEMMA EIDKeysFacts ==
  ASSUME NEW e \in EIDs, NEW ns, NEW type
  PROVE  /\ EIDKeys(e, ns, type) \in Seq({Key(ns, id, type) : id \in Texts})
         /\ Len(EIDKeys(e, ns, type)) = Len(IDs(e))
         /\ \A i \in 1..Len(IDs(e)) : EIDKeys(e, ns, type)[i] = Key(ns, IDs(e)[i], type)
         /\ ToSet(EIDKeys(e, ns, type)) = {Key(ns, id, type) : id \in ToSet(IDs(e))}
<1>1. IDs(e) \in Seq(Texts) /\ Len(IDs(e)) \in Nat  BY IDsFacts
<1>2. ToSet(IDs(e)) = {IDs(e)[i] : i \in 1..Len(IDs(e))}  BY <1>1 DEF ToSet
<1> DEFINE n == Len(IDs(e))
           K(i) == Key(ns, IDs(e)[i], type)
           ks == [i \in 1..n |-> K(i)]
<1>3. EIDKeys(e, ns, type) = ks  BY DEF EIDKeys
<1>4. \A i \in 1..n : K(i) \in {Key(ns, id, type) : id \in Texts}  BY <1>1
<1> HIDE DEF K
<1>5. ks \in Seq({Key(ns, id, type) : id \in Texts}) /\ Len(ks) = n  BY <1>1, <1>4
<1>6. ToSet(ks) = {K(i) : i \in 1..n}  BY DEF ToSet
<1> QED  BY <1>2, <1>3, <1>5, <1>6 DEF K

\* A key is one of an eid with such a source.
FromEIDs(k, eids, ns, type, sources) ==
  \E i \in 1..Len(eids) : \E id \in ToSet(IDs(eids[i])) :
    eids[i].source \in sources /\ k = Key(ns, id, type)

\* appendMatchingEIDKeys appends the keys of the eids of its sources.
LEMMA MatchingFacts ==
  ASSUME NEW eids \in Seq(EIDs), NEW ns, NEW type, NEW sources
  PROVE  /\ MatchingEIDKeys(eids, ns, type, sources) \in Seq({Key(ns, id, type) : id \in Texts})
         /\ \A k : k \in ToSet(MatchingEIDKeys(eids, ns, type, sources)) <=>
              FromEIDs(k, eids, ns, type, sources)
<1> DEFINE n == Len(eids)
           S == {Key(ns, id, type) : id \in Texts}
           ss == [i \in 1..n |->
                    IF eids[i].source \in sources THEN EIDKeys(eids[i], ns, type) ELSE <<>>]
<1>1. n \in Nat /\ \A i \in 1..n : eids[i] \in EIDs  OBVIOUS
<1>2. MatchingEIDKeys(eids, ns, type, sources) = FlattenSeq(ss)  BY DEF MatchingEIDKeys
<1>3. ASSUME NEW i \in 1..n
      PROVE  /\ ss[i] \in Seq(S)
             /\ \A k : k \in ToSet(ss[i]) <=>
                  \E id \in ToSet(IDs(eids[i])) : eids[i].source \in sources /\ k = Key(ns, id, type)
  <2>1. CASE eids[i].source \in sources
    <3>1. ss[i] = EIDKeys(eids[i], ns, type)  BY <2>1
    <3>2. /\ EIDKeys(eids[i], ns, type) \in Seq(S)
          /\ ToSet(EIDKeys(eids[i], ns, type)) = {Key(ns, id, type) : id \in ToSet(IDs(eids[i]))}
      BY <1>1, EIDKeysFacts
    <3> QED  BY <2>1, <3>1, <3>2
  <2>2. CASE eids[i].source \notin sources
    <3>1. ss[i] = <<>>  BY <2>2
    <3> QED  BY <2>2, <3>1 DEF ToSet
  <2> QED  BY <2>1, <2>2
<1> HIDE DEF n, S
<1>4. ss \in Seq(Seq(S)) /\ Len(ss) = n
  <2>1. ss \in [1..n -> Seq(S)]  BY <1>3
  <2> HIDE DEF ss
  <2> QED  BY <1>1, <2>1, FunctionIsList
<1> HIDE DEF ss
<1>5. /\ FlattenSeq(ss) \in Seq(S)
      /\ ToSet(FlattenSeq(ss)) = UNION {ToSet(ss[i]) : i \in 1..n}
  BY <1>4, FlattenElements
<1>6. \A k : k \in ToSet(FlattenSeq(ss)) <=> \E i \in 1..n : k \in ToSet(ss[i])
  BY <1>5, Zenon
<1> DEFINE In(k, i) == \E id \in ToSet(IDs(eids[i])) :
             eids[i].source \in sources /\ k = Key(ns, id, type)
<1>7. \A i \in 1..n : \A k : k \in ToSet(ss[i]) <=> In(k, i)  BY <1>3
<1>8. \A k : k \in ToSet(FlattenSeq(ss)) <=> \E i \in 1..n : In(k, i)
  <2> HIDE DEF In
  <2> QED  BY <1>6, <1>7
<1> QED  BY <1>2, <1>5, <1>8 DEF n, S, FromEIDs

\* They all have the one namespace and type.
LEMMA MatchingShape ==
  ASSUME NEW eids \in Seq(EIDs), NEW ns, NEW type, NEW sources
  PROVE  \A k \in ToSet(MatchingEIDKeys(eids, ns, type, sources)) : \E id : k = Key(ns, id, type)
<1> DEFINE S == {Key(ns, id, type) : id \in Texts}
           s == MatchingEIDKeys(eids, ns, type, sources)
<1>1. s \in Seq(S)  BY MatchingFacts
<1>2. ToSet(s) \subseteq S
  <2> HIDE DEF S, s
  <2> QED  BY <1>1, ToSetIs
<1> QED  BY <1>2

\* The keys that appendOtherEIDKeys can make.
OtherKeySet == {Key(Lower[source], id, "firstParty") : source \in DOMAIN Lower, id \in Texts}

\* appendOtherEIDKeys appends those of the others that have a source.
LEMMA OtherFacts ==
  ASSUME NEW eids \in Seq(EIDs)
  PROVE  /\ OtherEIDKeys(eids) \in Seq(OtherKeySet)
         /\ \A k : k \in ToSet(OtherEIDKeys(eids)) <=>
              \E i \in 1..Len(eids) : \E id \in ToSet(IDs(eids[i])) :
                /\ eids[i].source \notin {Empty, IIQ} \cup Shared
                /\ k = Key(Lower[eids[i].source], id, "firstParty")
<1> DEFINE n == Len(eids)
           own == {Empty, IIQ} \cup Shared
           ss == [i \in 1..n |->
                    IF eids[i].source \in own THEN <<>>
                    ELSE EIDKeys(eids[i], Lower[eids[i].source], "firstParty")]
<1>1. n \in Nat /\ \A i \in 1..n : eids[i] \in EIDs  OBVIOUS
<1>2. OtherEIDKeys(eids) = FlattenSeq(ss)  BY DEF OtherEIDKeys
<1>3. ASSUME NEW i \in 1..n
      PROVE  /\ ss[i] \in Seq(OtherKeySet)
             /\ \A k : k \in ToSet(ss[i]) <=>
                  \E id \in ToSet(IDs(eids[i])) :
                    eids[i].source \notin own /\ k = Key(Lower[eids[i].source], id, "firstParty")
  <2>1. CASE eids[i].source \notin own
    <3> DEFINE ns == Lower[eids[i].source]
               S == {Key(ns, id, "firstParty") : id \in Texts}
    <3>1. ss[i] = EIDKeys(eids[i], ns, "firstParty")  BY <2>1
    <3>2. /\ EIDKeys(eids[i], ns, "firstParty") \in Seq(S)
          /\ ToSet(EIDKeys(eids[i], ns, "firstParty"))
               = {Key(ns, id, "firstParty") : id \in ToSet(IDs(eids[i]))}
      BY <1>1, EIDKeysFacts
    <3>3. eids[i].source \in DOMAIN Lower  BY <1>1, <2>1 DEF EIDs
    <3>4. S \subseteq OtherKeySet  BY <3>3 DEF OtherKeySet
    <3>5. ss[i] \in Seq(OtherKeySet)
      <4> HIDE DEF S
      <4> QED  BY <3>1, <3>2, <3>4, WiderList
    <3> QED  BY <2>1, <3>1, <3>2, <3>5
  <2>2. CASE eids[i].source \in own
    <3>1. ss[i] = <<>>  BY <2>2
    <3> QED  BY <2>2, <3>1 DEF ToSet
  <2> QED  BY <2>1, <2>2
<1> HIDE DEF n
<1>4. ss \in Seq(Seq(OtherKeySet)) /\ Len(ss) = n
  <2>1. ss \in [1..n -> Seq(OtherKeySet)]  BY <1>3
  <2> HIDE DEF ss
  <2> QED  BY <1>1, <2>1, FunctionIsList
<1> HIDE DEF ss, own
<1>5. /\ FlattenSeq(ss) \in Seq(OtherKeySet)
      /\ ToSet(FlattenSeq(ss)) = UNION {ToSet(ss[i]) : i \in 1..n}
  BY <1>4, FlattenElements
<1>6. \A k : k \in ToSet(FlattenSeq(ss)) <=> \E i \in 1..n : k \in ToSet(ss[i])
  BY <1>5, Zenon
<1> DEFINE In(k, i) == \E id \in ToSet(IDs(eids[i])) :
             eids[i].source \notin own /\ k = Key(Lower[eids[i].source], id, "firstParty")
<1>7. \A i \in 1..n : \A k : k \in ToSet(ss[i]) <=> In(k, i)  BY <1>3
<1>8. \A k : k \in ToSet(FlattenSeq(ss)) <=> \E i \in 1..n : In(k, i)
  <2> HIDE DEF In
  <2> QED  BY <1>6, <1>7
<1> QED  BY <1>2, <1>5, <1>8 DEF n, own

\* The keys of a device: at most one for its MAID and at most one for itself.
LEMMA DeviceKeysFacts ==
  ASSUME NEW d
  PROVE  /\ MAIDKey(d) \in Seq(ToSet(MAIDKey(d))) /\ DeviceKey(d) \in Seq(ToSet(DeviceKey(d)))
         /\ \A k \in ToSet(MAIDKey(d)) : \E id : k = Key("maid", id, "firstParty")
         /\ \A k \in ToSet(DeviceKey(d)) : \E fields : k = Key("dev", fields, "device")
<1>1. ASSUME NEW k PROVE <<k>> \in Seq(ToSet(<<k>>)) /\ ToSet(<<k>>) = {k}
  BY DEF ToSet
<1>2. <<>> \in Seq(ToSet(<<>>)) /\ ToSet(<<>>) = {}  BY DEF ToSet
<1>3. MAIDKey(d) = <<>> \/ \E id : MAIDKey(d) = <<Key("maid", id, "firstParty")>>
  BY Zenon DEF MAIDKey
<1>4. DeviceKey(d) = <<>> \/ \E fields : DeviceKey(d) = <<Key("dev", fields, "device")>>
  BY Zenon DEF DeviceKey
<1>5. /\ MAIDKey(d) \in Seq(ToSet(MAIDKey(d)))
      /\ \A k \in ToSet(MAIDKey(d)) : \E id : k = Key("maid", id, "firstParty")
  <2>1. CASE MAIDKey(d) = <<>>  BY <1>2, <2>1
  <2>2. CASE \E id : MAIDKey(d) = <<Key("maid", id, "firstParty")>>
    <3>1. PICK id : MAIDKey(d) = <<Key("maid", id, "firstParty")>>  BY <2>2
    <3> QED  BY <1>1, <3>1
  <2> QED  BY <1>3, <2>1, <2>2
<1>6. /\ DeviceKey(d) \in Seq(ToSet(DeviceKey(d)))
      /\ \A k \in ToSet(DeviceKey(d)) : \E fields : k = Key("dev", fields, "device")
  <2>1. CASE DeviceKey(d) = <<>>  BY <1>2, <2>1
  <2>2. CASE \E fields : DeviceKey(d) = <<Key("dev", fields, "device")>>
    <3>1. PICK fields : DeviceKey(d) = <<Key("dev", fields, "device")>>  BY <2>2
    <3> QED  BY <1>1, <3>1
  <2> QED  BY <1>4, <2>1, <2>2
<1> QED  BY <1>5, <1>6

\* The five lists that extractCacheKeys puts one after the other.
ThirdPartyKeys(a) == MatchingEIDKeys(a.user.eids, "iiq", "thirdParty", {IIQ})
SharedKeys(a) == MatchingEIDKeys(a.user.eids, "pubcid", "firstParty", Shared)

KeySet(a) ==
  {Key("iiq", id, "thirdParty") : id \in Texts} \cup {Key("pubcid", id, "firstParty") : id \in Texts}
    \cup OtherKeySet \cup ToSet(MAIDKey(a.device)) \cup ToSet(DeviceKey(a.device))

\* Each is a list of keys.
LEMMA PartsAreLists ==
  ASSUME NEW a, a.user \in Users
  PROVE  /\ ThirdPartyKeys(a) \in Seq(KeySet(a)) /\ SharedKeys(a) \in Seq(KeySet(a))
         /\ MAIDKey(a.device) \in Seq(KeySet(a)) /\ OtherEIDKeys(a.user.eids) \in Seq(KeySet(a))
         /\ DeviceKey(a.device) \in Seq(KeySet(a))
<1>1. a.user.eids \in Seq(EIDs)  BY DEF Users
<1> DEFINE S1 == {Key("iiq", id, "thirdParty") : id \in Texts}
           S2 == {Key("pubcid", id, "firstParty") : id \in Texts}
           S3 == ToSet(MAIDKey(a.device))
           S5 == ToSet(DeviceKey(a.device))
<1>2. /\ S1 \subseteq KeySet(a) /\ S2 \subseteq KeySet(a) /\ S3 \subseteq KeySet(a)
      /\ OtherKeySet \subseteq KeySet(a) /\ S5 \subseteq KeySet(a)
  <2> HIDE DEF S1, S2, S3, S5
  <2> QED  BY DEF KeySet, S1, S2, S3, S5
<1>3. ThirdPartyKeys(a) \in Seq(S1) /\ SharedKeys(a) \in Seq(S2)
  BY <1>1, MatchingFacts DEF ThirdPartyKeys, SharedKeys
<1>4. MAIDKey(a.device) \in Seq(S3) /\ DeviceKey(a.device) \in Seq(S5)  BY DeviceKeysFacts
<1>5. OtherEIDKeys(a.user.eids) \in Seq(OtherKeySet)  BY <1>1, OtherFacts
<1> HIDE DEF S1, S2, S3, S5
<1> QED  BY <1>2, <1>3, <1>4, <1>5, WiderList

\* The candidates have the keys of all five.
LEMMA CandidatesFacts ==
  ASSUME NEW a, a.user \in Users
  PROVE  /\ Candidates(a) \in Seq(KeySet(a))
         /\ ToSet(Candidates(a)) =
              ToSet(ThirdPartyKeys(a)) \cup ToSet(SharedKeys(a)) \cup ToSet(MAIDKey(a.device))
                \cup ToSet(OtherEIDKeys(a.user.eids)) \cup ToSet(DeviceKey(a.device))
<1> DEFINE K == KeySet(a)
           s1 == ThirdPartyKeys(a)
           s2 == SharedKeys(a)
           s3 == MAIDKey(a.device)
           s4 == OtherEIDKeys(a.user.eids)
           s5 == DeviceKey(a.device)
           t2 == s1 \o s2
           t3 == t2 \o s3
           t4 == t3 \o s4
           t5 == t4 \o s5
<1>1. s1 \in Seq(K) /\ s2 \in Seq(K) /\ s3 \in Seq(K) /\ s4 \in Seq(K) /\ s5 \in Seq(K)
  BY PartsAreLists
<1>2. Candidates(a) = t5
  BY DEF Candidates, ThirdPartyKeys, SharedKeys
<1> HIDE DEF K, s1, s2, s3, s4, s5
<1>3. t2 \in Seq(K) /\ ToSet(t2) = ToSet(s1) \cup ToSet(s2)  BY <1>1, ConcatToSet
<1> HIDE DEF t2
<1>4. t3 \in Seq(K) /\ ToSet(t3) = ToSet(t2) \cup ToSet(s3)  BY <1>1, <1>3, ConcatToSet
<1> HIDE DEF t3
<1>5. t4 \in Seq(K) /\ ToSet(t4) = ToSet(t3) \cup ToSet(s4)  BY <1>1, <1>4, ConcatToSet
<1> HIDE DEF t4
<1>6. t5 \in Seq(K) /\ ToSet(t5) = ToSet(t4) \cup ToSet(s5)  BY <1>1, <1>5, ConcatToSet
<1> HIDE DEF t5
<1>7. ToSet(t5) = ToSet(s1) \cup ToSet(s2) \cup ToSet(s3) \cup ToSet(s4) \cup ToSet(s5)
  BY <1>3, <1>4, <1>5, <1>6
<1> QED  BY <1>2, <1>6, <1>7 DEF K, s1, s2, s3, s4, s5

\* t starts with s, and what comes then is none of the third party's.
Leads(s, t) ==
  /\ Len(s) <= Len(t) /\ \A p \in 1..Len(s) : t[p] = s[p]
  /\ \A p \in (Len(s) + 1)..Len(t) : t[p].type # "thirdParty"

\* Appending other keys keeps that.
LEMMA LeadsOn ==
  ASSUME NEW K, NEW s \in Seq(K), NEW t \in Seq(K), NEW x \in Seq(K), Leads(s, t),
         \A k \in ToSet(x) : k.type # "thirdParty"
  PROVE  t \o x \in Seq(K) /\ Leads(s, t \o x)
<1>1. Len(s) \in Nat /\ Len(t) \in Nat /\ Len(x) \in Nat /\ Len(t \o x) = Len(t) + Len(x)
  OBVIOUS
<1>2. \A p \in 1..Len(t) : (t \o x)[p] = t[p]  BY <1>1
<1>3. ASSUME NEW p \in (Len(t) + 1)..Len(t \o x) PROVE (t \o x)[p].type # "thirdParty"
  <2>1. p - Len(t) \in 1..Len(x) /\ (t \o x)[p] = x[p - Len(t)]  BY <1>1
  <2>2. x[p - Len(t)] \in ToSet(x)  BY <2>1, ToSetIs
  <2> QED  BY <2>1, <2>2
<1> QED  BY <1>1, <1>2, <1>3 DEF Leads

\* The keys of the third party lead the candidates.
LEMMA ThirdPartyLeads ==
  ASSUME NEW a, a.user \in Users
  PROVE  Leads(ThirdPartyKeys(a), Candidates(a))
<1> DEFINE K == KeySet(a)
           s1 == ThirdPartyKeys(a)
           s2 == SharedKeys(a)
           s3 == MAIDKey(a.device)
           s4 == OtherEIDKeys(a.user.eids)
           s5 == DeviceKey(a.device)
           t2 == s1 \o s2
           t3 == t2 \o s3
           t4 == t3 \o s4
           t5 == t4 \o s5
           Others(s) == \A k \in ToSet(s) : k.type # "thirdParty"
<1>1. s1 \in Seq(K) /\ s2 \in Seq(K) /\ s3 \in Seq(K) /\ s4 \in Seq(K) /\ s5 \in Seq(K)
  BY PartsAreLists
<1>2. Candidates(a) = t5
  BY DEF Candidates, ThirdPartyKeys, SharedKeys
<1>3. Others(s2) /\ Others(s3) /\ Others(s4) /\ Others(s5)
  <2>1. a.user.eids \in Seq(EIDs)  BY DEF Users
  <2>2. Others(s2)
    <3>1. \A k \in ToSet(s2) : \E id : k = Key("pubcid", id, "firstParty")
      BY <2>1, MatchingShape DEF SharedKeys
    <3> QED  BY <3>1 DEF Key
  <2>3. Others(s3) /\ Others(s5)  BY DeviceKeysFacts DEF Key
  <2>4. Others(s4)  BY <2>1, OtherFacts DEF Key
  <2> QED  BY <2>2, <2>3, <2>4
<1> HIDE DEF K, s1, s2, s3, s4, s5
<1>4. Leads(s1, s1)  BY <1>1 DEF Leads
<1>5. t2 \in Seq(K) /\ Leads(s1, t2)  BY <1>1, <1>3, <1>4, LeadsOn
<1> HIDE DEF t2
<1>6. t3 \in Seq(K) /\ Leads(s1, t3)  BY <1>1, <1>3, <1>5, LeadsOn
<1> HIDE DEF t3
<1>7. t4 \in Seq(K) /\ Leads(s1, t4)  BY <1>1, <1>3, <1>6, LeadsOn
<1> HIDE DEF t4
<1>8. Leads(s1, t5)  BY <1>1, <1>3, <1>7, LeadsOn
<1> QED  BY <1>2, <1>8 DEF s1

\* A list in the order of the ranks, none above r.
RankedUpTo(s, r) ==
  /\ \A p \in 1..Len(s) : Rank(s[p]) <= r
  /\ \A p, q \in 1..Len(s) : p < q => Rank(s[p]) <= Rank(s[q])

\* Appending keys of the next rank keeps it in order.
LEMMA RankedOn ==
  ASSUME NEW K, NEW s \in Seq(K), NEW x \in Seq(K), NEW r \in 0..4, RankedUpTo(s, r),
         \A k \in ToSet(x) : Rank(k) = r + 1
  PROVE  s \o x \in Seq(K) /\ RankedUpTo(s \o x, r + 1)
<1>1. Len(s) \in Nat /\ Len(x) \in Nat /\ Len(s \o x) = Len(s) + Len(x)
  OBVIOUS
<1>2. \A p \in 1..Len(s) : (s \o x)[p] = s[p]  BY <1>1
<1>3. ASSUME NEW p \in (Len(s) + 1)..Len(s \o x) PROVE Rank((s \o x)[p]) = r + 1
  <2>1. p - Len(s) \in 1..Len(x) /\ (s \o x)[p] = x[p - Len(s)]  BY <1>1
  <2>2. x[p - Len(s)] \in ToSet(x)  BY <2>1, ToSetIs
  <2> QED  BY <2>1, <2>2
<1>4. \A k : Rank(k) \in Nat  BY DEF Rank
<1>5. ASSUME NEW p \in 1..Len(s \o x) PROVE Rank((s \o x)[p]) <= r + 1
  <2>1. CASE p \in 1..Len(s)
    <3>1. Rank((s \o x)[p]) <= r  BY <1>2, <2>1 DEF RankedUpTo
    <3> QED  BY <1>4, <3>1
  <2>2. CASE p \in (Len(s) + 1)..Len(s \o x)  BY <1>3, <2>2
  <2> QED  BY <1>1, <2>1, <2>2
<1>6. ASSUME NEW p \in 1..Len(s \o x), NEW q \in 1..Len(s \o x), p < q
      PROVE  Rank((s \o x)[p]) <= Rank((s \o x)[q])
  <2>1. CASE q \in 1..Len(s)
    <3>1. p \in 1..Len(s)  BY <1>1, <1>6, <2>1
    <3> QED  BY <1>2, <1>6, <2>1, <3>1 DEF RankedUpTo
  <2>2. CASE q \in (Len(s) + 1)..Len(s \o x)
    <3>1. Rank((s \o x)[q]) = r + 1  BY <1>3, <2>2
    <3> QED  BY <1>5, <3>1
  <2> QED  BY <1>1, <2>1, <2>2
<1> HIDE DEF Rank
<1> QED  BY <1>5, <1>6 DEF RankedUpTo

\* No source has the name that the code gives to the keys of shared IDs or of
\* MAIDs, as is so when sources are domain names; the code does not check it.
DomainSources == \A source \in DOMAIN Lower : Lower[source] \notin {"pubcid", "maid"}

\* The candidates are in the order of the priorities.
LEMMA CandidatesRanked ==
  ASSUME DomainSources, NEW a, a.user \in Users
  PROVE  RankedUpTo(Candidates(a), 5)
<1> DEFINE K == KeySet(a)
           s1 == ThirdPartyKeys(a)
           s2 == SharedKeys(a)
           s3 == MAIDKey(a.device)
           s4 == OtherEIDKeys(a.user.eids)
           s5 == DeviceKey(a.device)
           t2 == s1 \o s2
           t3 == t2 \o s3
           t4 == t3 \o s4
           t5 == t4 \o s5
           AllAt(s, r) == \A k \in ToSet(s) : Rank(k) = r
<1>1. s1 \in Seq(K) /\ s2 \in Seq(K) /\ s3 \in Seq(K) /\ s4 \in Seq(K) /\ s5 \in Seq(K)
  BY PartsAreLists
<1>2. Candidates(a) = t5
  BY DEF Candidates, ThirdPartyKeys, SharedKeys
<1>3. AllAt(s1, 1) /\ AllAt(s2, 2) /\ AllAt(s3, 3) /\ AllAt(s4, 4) /\ AllAt(s5, 5)
  <2>1. a.user.eids \in Seq(EIDs)  BY DEF Users
  <2>2. AllAt(s1, 1) /\ AllAt(s2, 2)
    <3>1. \A k \in ToSet(s1) : \E id : k = Key("iiq", id, "thirdParty")
      BY <2>1, MatchingShape DEF ThirdPartyKeys
    <3>2. \A k \in ToSet(s2) : \E id : k = Key("pubcid", id, "firstParty")
      BY <2>1, MatchingShape DEF SharedKeys
    <3> QED  BY <3>1, <3>2 DEF Key, Rank
  <2>3. AllAt(s3, 3) /\ AllAt(s5, 5)  BY DeviceKeysFacts DEF Key, Rank
  <2>4. ASSUME NEW k \in ToSet(s4) PROVE Rank(k) = 4
    <3>1. ToSet(s4) \subseteq OtherKeySet  BY <2>1, OtherFacts, ToSetIs
    <3>2. PICK source \in DOMAIN Lower, id \in Texts : k = Key(Lower[source], id, "firstParty")
      BY <3>1 DEF OtherKeySet
    <3>3. Lower[source] # "pubcid" /\ Lower[source] # "maid"  BY DEF DomainSources
    <3> QED  BY <3>2, <3>3 DEF Key, Rank
  <2> QED  BY <2>2, <2>3, <2>4
<1> HIDE DEF K, s1, s2, s3, s4, s5
<1>4. RankedUpTo(s1, 1)
  <2>1. \A p \in 1..Len(s1) : s1[p] \in ToSet(s1)  BY <1>1, ToSetIs
  <2>2. \A p \in 1..Len(s1) : Rank(s1[p]) = 1  BY <1>3, <2>1
  <2> QED  BY <2>2 DEF RankedUpTo
<1>5. t2 \in Seq(K) /\ RankedUpTo(t2, 2)
  <2>1. t2 \in Seq(K) /\ RankedUpTo(t2, 1 + 1)  BY <1>1, <1>3, <1>4, RankedOn
  <2> QED  BY <2>1
<1> HIDE DEF t2
<1>6. t3 \in Seq(K) /\ RankedUpTo(t3, 3)
  <2>1. t3 \in Seq(K) /\ RankedUpTo(t3, 2 + 1)  BY <1>1, <1>3, <1>5, RankedOn
  <2> QED  BY <2>1
<1> HIDE DEF t3
<1>7. t4 \in Seq(K) /\ RankedUpTo(t4, 4)
  <2>1. t4 \in Seq(K) /\ RankedUpTo(t4, 3 + 1)  BY <1>1, <1>3, <1>6, RankedOn
  <2> QED  BY <2>1
<1> HIDE DEF t4
<1>8. RankedUpTo(t5, 5)
  <2>1. RankedUpTo(t5, 4 + 1)  BY <1>1, <1>3, <1>7, RankedOn
  <2> QED  BY <2>1
<1> QED  BY <1>2, <1>8

-----------------------------------------------------------------------------
\* deduplicateAndCapKeys.

\* A result has a value; a result is full.
Has(r, v) == \E j \in 1..Len(r) : r[j].value = v
Full(r, max) == max > 0 /\ Len(r) >= max

\* One turn of the loop.
DedupTurn(r, k, max) == IF Full(r, max) \/ Has(r, k.value) THEN r ELSE Append(r, k)

\* Dedup is that loop, and it goes through lists of keys only.
LEMMA DedupRun ==
  ASSUME NEW K, NEW ks \in Seq(K), NEW max
  PROVE  \E f \in [0..Len(ks) -> Seq(K)] :
           /\ f[0] = <<>> /\ \A i \in 1..Len(ks) : f[i] = DedupTurn(f[i - 1], ks[i], max)
           /\ Dedup(ks, max) = f[Len(ks)]
<1> DEFINE n == Len(ks)
           V == Seq(K)
           F(f) == [i \in 0..n |-> IF i = 0 THEN <<>> ELSE DedupTurn(f[i - 1], ks[i], max)]
           u == CHOOSE f : f = F(f)
           step == [i \in Nat |-> [x \in V |-> IF i \in 1..n THEN DedupTurn(x, ks[i], max) ELSE x]]
<1>1. n \in Nat /\ 0 <= n /\ <<>> \in V  OBVIOUS
<1>2. \A i \in 1..n : \A x \in V : DedupTurn(x, ks[i], max) \in V  BY DEF DedupTurn
<1>3. Dedup(ks, max) = u[n]  BY DEF Dedup, DedupTurn, Full, Has
<1> HIDE DEF n, V
<1>4. step \in [Nat -> [V -> V]]  BY <1>1, <1>2
<1>5. PICK f \in [0..n -> V] : IsRun(f, 0, n, <<>>, step)
  <2> HIDE DEF step
  <2> QED  BY <1>1, <1>4, LoopRuns
<1>6. f = F(f)
  <2>1. ASSUME NEW i \in 1..n PROVE f[i] = DedupTurn(f[i - 1], ks[i], max)
    <3>1. f[i] = step[i][f[i - 1]]
      <4> HIDE DEF step
      <4> QED  BY <1>1, <1>5 DEF IsRun
    <3>2. f[i - 1] \in V /\ i \in Nat  BY <1>1
    <3> QED  BY <3>1, <3>2
  <2>2. f[0] = <<>>  BY <1>5 DEF IsRun
  <2> HIDE DEF step
  <2>3. ASSUME NEW i \in 0..n
        PROVE  f[i] = IF i = 0 THEN <<>> ELSE DedupTurn(f[i - 1], ks[i], max)
    <3>1. i = 0 \/ i \in 1..n  BY <1>1
    <3> QED  BY <2>1, <2>2, <3>1
  <2> QED  BY <2>3
<1> HIDE DEF step
<1>7. u = F(u)  BY <1>6
<1> HIDE DEF u
<1>8. u[0] = <<>>  BY <1>1, <1>7
<1>9. ASSUME NEW i \in 1..n PROVE u[i] = DedupTurn(u[i - 1], ks[i], max)
  <2>1. i \in 0..n /\ i # 0  BY <1>1
  <2> QED  BY <2>1, <1>7
<1>10. u \in [0..n -> V]
  <2> DEFINE T == {i \in 0..n : u[i] \in V}
  <2>1. 0 \in T  BY <1>1, <1>8
  <2>2. ASSUME NEW i \in 0..n, i > 0, i - 1 \in T PROVE i \in T
    <3>1. u[i - 1] \in V /\ i \in 1..n  BY <1>1, <2>2
    <3> QED  BY <1>2, <1>9, <3>1
  <2>3. 0..n \subseteq T
    <3> HIDE DEF T
    <3> QED  BY <1>1, <2>1, <2>2, InductionUpTo
  <2> QED  BY <2>3, <1>7
<1> QED  BY <1>3, <1>8, <1>9, <1>10 DEF n, V

\* pos are the places, among the first i candidates, where the values of a
\* result occur first: in the order of the result, and with no value left out
\* before the last.
Places(pos, r, ks, i) ==
  /\ pos \in [1..Len(r) -> 1..i]
  /\ \A x, y \in 1..Len(r) : x < y => pos[x] < pos[y]
  /\ \A x \in 1..Len(r) : ks[pos[x]] = r[x]
  /\ \A x \in 1..Len(r) : \A q \in 1..(pos[x] - 1) : ks[q].value # r[x].value
  /\ \A x \in 1..Len(r) : \A q \in 1..pos[x] : Has(r, ks[q].value)

\* What the loop keeps: the result has those places, it is not above the limit,
\* and values are left out only when it is at the limit.
Kept(r, ks, i, max) ==
  /\ \E pos : Places(pos, r, ks, i)
  /\ max > 0 => Len(r) <= max
  /\ (\A q \in 1..i : Has(r, ks[q].value)) \/ (max > 0 /\ Len(r) = max)

\* One turn of the loop keeps it.
LEMMA KeptOn ==
  ASSUME NEW K, NEW ks \in Seq(K), NEW max \in Int, NEW r \in Seq(K), NEW i \in 1..Len(ks),
         Kept(r, ks, i - 1, max)
  PROVE  Kept(DedupTurn(r, ks[i], max), ks, i, max)
<1>1. Len(r) \in Nat /\ i \in Nat /\ i >= 1 /\ ks[i] \in K  OBVIOUS
<1>2. PICK pos : Places(pos, r, ks, i - 1)  BY DEF Kept
<1>3. Places(pos, r, ks, i)
  <2>1. pos \in [1..Len(r) -> 1..i]  BY <1>1, <1>2 DEF Places
  <2> QED  BY <1>2, <2>1 DEF Places
<1>4. CASE Full(r, max)
  <2>1. DedupTurn(r, ks[i], max) = r  BY <1>4 DEF DedupTurn
  <2>2. max > 0 /\ Len(r) = max  BY <1>1, <1>4 DEF Full, Kept
  <2> QED  BY <1>3, <2>1, <2>2 DEF Kept
<1>5. CASE ~Full(r, max) /\ Has(r, ks[i].value)
  <2>1. DedupTurn(r, ks[i], max) = r  BY <1>5 DEF DedupTurn
  <2>2. \A q \in 1..(i - 1) : Has(r, ks[q].value)  BY <1>1, <1>5 DEF Full, Kept
  <2>3. \A q \in 1..i : Has(r, ks[q].value)
    <3>1. 1..i = 1..(i - 1) \cup {i}  BY <1>1
    <3> QED  BY <1>5, <2>2, <3>1
  <2> QED  BY <1>3, <2>1, <2>3 DEF Kept
<1>6. CASE ~Full(r, max) /\ ~Has(r, ks[i].value)
  <2> DEFINE n == Len(r)
             t == Append(r, ks[i])
             new == [x \in 1..(n + 1) |-> IF x <= n THEN pos[x] ELSE i]
  <2>1. DedupTurn(r, ks[i], max) = t  BY <1>6 DEF DedupTurn
  <2>2. Len(t) = n + 1 /\ t[n + 1] = ks[i] /\ \A x \in 1..n : t[x] = r[x]  BY <1>1
  <2>3. \A q \in 1..(i - 1) : Has(r, ks[q].value)  BY <1>1, <1>6 DEF Full, Kept
  <2> HIDE DEF t
  <2>4. \A v : Has(r, v) => Has(t, v)  BY <1>1, <2>2 DEF Has
  <2>5. \A q \in 1..i : Has(t, ks[q].value)
    <3>1. 1..i = 1..(i - 1) \cup {i}  BY <1>1
    <3>2. Has(t, ks[i].value)  BY <1>1, <2>2 DEF Has
    <3> QED  BY <2>3, <2>4, <3>1, <3>2
  <2>6. /\ pos \in [1..n -> 1..(i - 1)]
        /\ \A x, y \in 1..n : x < y => pos[x] < pos[y]
        /\ \A x \in 1..n : ks[pos[x]] = r[x]
        /\ \A x \in 1..n : \A q \in 1..(pos[x] - 1) : ks[q].value # r[x].value
    BY <1>2 DEF Places
  <2> HIDE DEF n
  <2>7. n \in Nat  BY <1>1 DEF n
  <2>8. /\ new \in [1..(n + 1) -> 1..i] /\ new[n + 1] = i
        /\ \A x \in 1..n : new[x] = pos[x] /\ pos[x] \in 1..(i - 1)
    BY <1>1, <2>6, <2>7
  <2> HIDE DEF new
  <2>9. \A x \in 1..(n + 1) : x \in 1..n \/ x = n + 1  BY <2>7
  <2>10. ASSUME NEW x \in 1..(n + 1), NEW y \in 1..(n + 1), x < y PROVE new[x] < new[y]
    <3>1. x \in 1..n  BY <2>7, <2>10
    <3>2. CASE y \in 1..n  BY <2>6, <2>8, <2>10, <3>1, <3>2
    <3>3. CASE y = n + 1
      <4>1. new[y] = i /\ new[x] \in 1..(i - 1)  BY <2>8, <3>1, <3>3
      <4> QED  BY <1>1, <4>1
    <3> QED  BY <2>9, <3>2, <3>3
  <2>11. ASSUME NEW x \in 1..(n + 1)
         PROVE  /\ ks[new[x]] = t[x]
                /\ \A q \in 1..(new[x] - 1) : ks[q].value # t[x].value
                /\ \A q \in 1..new[x] : Has(t, ks[q].value)
    <3>1. CASE x \in 1..n
      <4>1. new[x] = pos[x] /\ t[x] = r[x] /\ pos[x] \in 1..(i - 1)  BY <2>2, <2>8, <3>1 DEF n
      <4>2. \A q \in 1..pos[x] : q \in 1..i  BY <1>1, <4>1
      <4> QED  BY <2>5, <2>6, <3>1, <4>1, <4>2
    <3>2. CASE x = n + 1
      <4>1. new[x] = i /\ t[x] = ks[i]  BY <2>2, <2>8, <3>2 DEF n
      <4>2. ASSUME NEW q \in 1..(i - 1) PROVE ks[q].value # ks[i].value
        BY <1>6, <2>3
      <4> QED  BY <2>5, <4>1, <4>2
    <3> QED  BY <2>9, <3>1, <3>2
  <2>12. Places(new, t, ks, i)
    BY <2>2, <2>8, <2>10, <2>11 DEF Places, n
  <2>13. max > 0 => Len(t) <= max
    BY <1>1, <1>6, <2>2 DEF Full, n
  <2> QED  BY <2>1, <2>5, <2>12, <2>13 DEF Kept
<1> QED  BY <1>4, <1>5, <1>6

\* The result of the loop has what each of its turns keeps.
LEMMA DedupKept ==
  ASSUME NEW K, NEW ks \in Seq(K), NEW max \in Int
  PROVE  Dedup(ks, max) \in Seq(K) /\ Kept(Dedup(ks, max), ks, Len(ks), max)
<1>1. PICK f \in [0..Len(ks) -> Seq(K)] :
        /\ f[0] = <<>> /\ \A i \in 1..Len(ks) : f[i] = DedupTurn(f[i - 1], ks[i], max)
        /\ Dedup(ks, max) = f[Len(ks)]
  BY DedupRun
<1> DEFINE n == Len(ks)
           T == {i \in 0..n : Kept(f[i], ks, i, max)}
<1>2. n \in Nat /\ 0 <= n  OBVIOUS
<1>3. 0 \in T
  <2> DEFINE pos == [x \in 1..0 |-> 0]
  <2>1. Len(<<>>) = 0 /\ \A x \in 1..0 : FALSE  OBVIOUS
  <2>2. pos \in [1..Len(<<>>) -> 1..0]  BY <2>1
  <2> HIDE DEF pos
  <2>3. Places(pos, <<>>, ks, 0)  BY <2>1, <2>2 DEF Places
  <2>4. max > 0 => Len(<<>>) <= max  BY <2>1
  <2>5. \A q \in 1..0 : Has(<<>>, ks[q].value)  BY <2>1
  <2>6. Kept(<<>>, ks, 0, max)  BY <2>3, <2>4, <2>5 DEF Kept
  <2> QED  BY <1>1, <1>2, <2>6
<1>4. ASSUME NEW i \in 0..n, i > 0, i - 1 \in T PROVE i \in T
  <2>1. i \in 1..n /\ f[i - 1] \in Seq(K) /\ Kept(f[i - 1], ks, i - 1, max)  BY <1>2, <1>4
  <2>2. Kept(DedupTurn(f[i - 1], ks[i], max), ks, i, max)  BY <2>1, KeptOn
  <2> QED  BY <1>1, <2>1, <2>2
<1>5. 0..n \subseteq T
  <2> HIDE DEF T, n
  <2> QED  BY <1>2, <1>3, <1>4, InductionUpTo
<1>6. n \in T /\ f[n] \in Seq(K)  BY <1>2, <1>5
<1> QED  BY <1>1, <1>6

\* The first place of a value is the one that the result stands for.
LEMMA FirstPlace ==
  ASSUME NEW ks, NEW n \in Nat, NEW r, NEW pos, Places(pos, r, ks, n), NEW x \in 1..Len(r)
  PROVE  /\ pos[x] \in 1..n /\ ks[pos[x]] = r[x]
         /\ Min({p \in 1..n : ks[p].value = r[x].value}) = pos[x]
<1> DEFINE S == {p \in 1..n : ks[p].value = r[x].value}
<1>1. pos[x] \in 1..n /\ ks[pos[x]] = r[x] /\ \A q \in 1..(pos[x] - 1) : ks[q].value # r[x].value
  BY DEF Places
<1>2. pos[x] \in S  BY <1>1
<1>3. ASSUME NEW y \in S PROVE pos[x] <= y
  <2>1. y \in 1..n /\ y \notin 1..(pos[x] - 1)  BY <1>1
  <2> QED  BY <1>1, <2>1
<1>4. \A y \in S : y \in Int /\ pos[x] \in Int  BY <1>1
<1> HIDE DEF S
<1>5. Min(S) \in S /\ \A y \in S : Min(S) <= y  BY <1>2, <1>3 DEF Min
<1>6. Min(S) <= pos[x] /\ pos[x] <= Min(S)  BY <1>2, <1>3, <1>5
<1>7. Min(S) = pos[x]  BY <1>2, <1>4, <1>5, <1>6
<1> QED  BY <1>1, <1>7 DEF S

\* What KeysInOrder says of the keys r made of an auction a.
InOrder(a, r) ==
  LET offered == Candidates(a)
      first == [i \in 1..Len(r) |->
                  Min({p \in 1..Len(offered) : offered[p].value = r[i].value})]
  IN  /\ \A i \in 1..Len(r) : offered[first[i]] = r[i]
      /\ \A i, j \in 1..Len(r) :
           i < j => first[i] < first[j] /\ Rank(r[i]) <= Rank(r[j])
      /\ r # <<>> => \A p \in 1..first[Len(r)] :
           \E i \in 1..Len(r) : r[i].value = offered[p].value

\* It holds of the keys that extractCacheKeys makes.
LEMMA ExtractedInOrder ==
  ASSUME DomainSources, NEW a, a.user \in Users, NEW max \in Int
  PROVE  InOrder(a, ExtractCacheKeys(a, max))
<1> DEFINE ks == Candidates(a)
           r == ExtractCacheKeys(a, max)
           n == Len(ks)
           first == [i \in 1..Len(r) |-> Min({p \in 1..n : ks[p].value = r[i].value})]
<1>1. ks \in Seq(KeySet(a)) /\ RankedUpTo(ks, 5)  BY CandidatesFacts, CandidatesRanked
<1>2. r = Dedup(ks, max)  BY DEF ExtractCacheKeys
<1> HIDE DEF ks, r
<1>3. r \in Seq(KeySet(a)) /\ Kept(r, ks, n, max)  BY <1>1, <1>2, DedupKept
<1>4. n \in Nat /\ Len(r) \in Nat  BY <1>1, <1>3
<1>5. PICK pos : Places(pos, r, ks, n)  BY <1>3 DEF Kept
<1> HIDE DEF n
<1>6. ASSUME NEW i \in 1..Len(r)
      PROVE  pos[i] \in 1..n /\ ks[pos[i]] = r[i] /\ first[i] = pos[i]
  BY <1>4, <1>5, FirstPlace
<1> HIDE DEF first
<1>7. \A i \in 1..Len(r) : ks[first[i]] = r[i]  BY <1>6
<1>8. ASSUME NEW i \in 1..Len(r), NEW j \in 1..Len(r), i < j
      PROVE  first[i] < first[j] /\ Rank(r[i]) <= Rank(r[j])
  <2>1. pos[i] < pos[j]  BY <1>5, <1>8 DEF Places
  <2>2. Rank(ks[pos[i]]) <= Rank(ks[pos[j]])  BY <1>1, <1>6, <2>1 DEF RankedUpTo, n
  <2> QED  BY <1>6, <2>1, <2>2
<1>9. ASSUME r # <<>>, NEW p \in 1..first[Len(r)]
      PROVE  \E i \in 1..Len(r) : r[i].value = ks[p].value
  <2>1. Len(r) \in 1..Len(r)  BY <1>3, <1>9
  <2>2. first[Len(r)] = pos[Len(r)]  BY <1>6, <2>1
  <2>3. Has(r, ks[p].value)  BY <1>5, <1>9, <2>1, <2>2 DEF Places
  <2> QED  BY <2>3 DEF Has
<1>10. InOrder(a, r) <=>
         /\ \A i \in 1..Len(r) : ks[first[i]] = r[i]
         /\ \A i, j \in 1..Len(r) : i < j => first[i] < first[j] /\ Rank(r[i]) <= Rank(r[j])
         /\ r # <<>> => \A p \in 1..first[Len(r)] : \E i \in 1..Len(r) : r[i].value = ks[p].value
  BY DEF InOrder, first, n, ks
<1>11. InOrder(a, r)  BY <1>7, <1>8, <1>9, <1>10
<1> QED  BY <1>11 DEF r

\* The namespace that a source's ids have.
NamespaceOf(source) ==
  IF source = IIQ THEN "iiq" ELSE IF source \in Shared THEN "pubcid" ELSE Lower[source]

\* The values of an eid list, by place and id.
LEMMA EIDValuesFacts ==
  ASSUME NEW eids \in Seq(EIDs), NEW v
  PROVE  v \in EIDValues(eids) <=>
           \E i \in 1..Len(eids) : \E id \in ToSet(IDs(eids[i])) :
             eids[i].source # Empty /\ v = <<NamespaceOf(eids[i].source), id>>
<1> DEFINE Vals(e) == {<<NamespaceOf(e.source), id>> : id \in {u \in ToSet(e.uids) : NotBlank(u)}}
           Sourced == {x \in ToSet(eids) : x.source # Empty}
<1>1. v \in EIDValues(eids) <=>
        \E e \in ToSet(eids) : /\ e.source # Empty
                               /\ \E id \in ToSet(e.uids) : /\ NotBlank(id)
                                                            /\ v = <<NamespaceOf(e.source), id>>
  <2>1. EIDValues(eids) = UNION {Vals(e) : e \in Sourced}
    BY DEF EIDValues, NamespaceOf
  <2>2. \A e : v \in Vals(e) <=>
          \E id \in ToSet(e.uids) : NotBlank(id) /\ v = <<NamespaceOf(e.source), id>>
    OBVIOUS
  <2>3. v \in EIDValues(eids) <=> \E e \in Sourced : v \in Vals(e)
    <3> HIDE DEF Vals, Sourced
    <3> QED  BY <2>1, Zenon
  <2> HIDE DEF Vals
  <2> QED  BY <2>2, <2>3
<1>2. ToSet(eids) = {eids[i] : i \in 1..Len(eids)} /\ ToSet(eids) \subseteq EIDs  BY ToSetIs
<1>3. \A e \in EIDs : \A id : id \in ToSet(IDs(e)) <=> id \in ToSet(e.uids) /\ NotBlank(id)
  BY IDsFacts
<1> QED  BY <1>1, <1>2, <1>3

\* The candidates' values are those of the eids and the keys of the device.
LEMMA CandidateValues ==
  ASSUME NEW a, a.user \in Users
  PROVE  {k.value : k \in ToSet(Candidates(a))} =
           EIDValues(a.user.eids)
             \cup {k.value : k \in ToSet(MAIDKey(a.device) \o DeviceKey(a.device))}
<1> DEFINE eids == a.user.eids
           own == {Empty, IIQ} \cup Shared
           At(i, id) == i \in 1..Len(eids) /\ id \in ToSet(IDs(eids[i]))
           source(i) == eids[i].source
           V == {k.value : k \in ToSet(Candidates(a))}
           D == ToSet(MAIDKey(a.device) \o DeviceKey(a.device))
<1>1. eids \in Seq(EIDs)  BY DEF Users
<1>2. D = ToSet(MAIDKey(a.device)) \cup ToSet(DeviceKey(a.device))
  BY PartsAreLists, ConcatToSet
<1>3. ToSet(Candidates(a)) =
        ToSet(ThirdPartyKeys(a)) \cup ToSet(SharedKeys(a)) \cup ToSet(OtherEIDKeys(eids)) \cup D
  <2> HIDE DEF D
  <2> QED  BY <1>2, CandidatesFacts
<1>4. \A k : k \in ToSet(ThirdPartyKeys(a)) <=>
        \E i, id : At(i, id) /\ source(i) \in {IIQ} /\ k = Key("iiq", id, "thirdParty")
  <2>1. \A k : k \in ToSet(ThirdPartyKeys(a)) <=> FromEIDs(k, eids, "iiq", "thirdParty", {IIQ})
    BY <1>1, MatchingFacts DEF ThirdPartyKeys
  <2> HIDE DEF eids
  <2> QED  BY <2>1, Zenon DEF FromEIDs
<1>5. \A k : k \in ToSet(SharedKeys(a)) <=>
        \E i, id : At(i, id) /\ source(i) \in Shared /\ k = Key("pubcid", id, "firstParty")
  <2>1. \A k : k \in ToSet(SharedKeys(a)) <=> FromEIDs(k, eids, "pubcid", "firstParty", Shared)
    BY <1>1, MatchingFacts DEF SharedKeys
  <2> HIDE DEF eids
  <2> QED  BY <2>1, Zenon DEF FromEIDs
<1>6. \A k : k \in ToSet(OtherEIDKeys(eids)) <=>
        \E i, id : At(i, id) /\ source(i) \notin own /\ k = Key(Lower[source(i)], id, "firstParty")
  BY <1>1, OtherFacts
<1>7. \A v : v \in EIDValues(eids) <=>
        \E i, id : At(i, id) /\ source(i) # Empty /\ v = <<NamespaceOf(source(i)), id>>
  BY <1>1, EIDValuesFacts
<1>8. \A ns, id, type : Key(ns, id, type).value = <<ns, id>>  BY DEF Key
<1>9. /\ NamespaceOf(IIQ) = "iiq" /\ IIQ # Empty
      /\ \A s \in Shared : NamespaceOf(s) = "pubcid" /\ s # Empty
      /\ \A s : s \notin own => NamespaceOf(s) = Lower[s] /\ s # Empty
      /\ \A s : s # Empty => s = IIQ \/ s \in Shared \/ s \notin own
  BY TextAssumption DEF NamespaceOf
<1> HIDE DEF D, At, source, own, eids
<1>10. ASSUME NEW k \in ToSet(Candidates(a)) PROVE k.value \in EIDValues(eids) \/ k \in D
  <2>1. CASE k \in ToSet(ThirdPartyKeys(a))
    <3>1. PICK i, id : At(i, id) /\ source(i) \in {IIQ} /\ k = Key("iiq", id, "thirdParty")
      BY <1>4, <2>1
    <3>2. source(i) = IIQ /\ k.value = <<"iiq", id>>  BY <1>8, <3>1
    <3> QED  BY <1>7, <1>9, <3>1, <3>2
  <2>2. CASE k \in ToSet(SharedKeys(a))
    <3>1. PICK i, id : At(i, id) /\ source(i) \in Shared /\ k = Key("pubcid", id, "firstParty")
      BY <1>5, <2>2
    <3>2. k.value = <<"pubcid", id>>  BY <1>8, <3>1
    <3> QED  BY <1>7, <1>9, <3>1, <3>2
  <2>3. CASE k \in ToSet(OtherEIDKeys(eids))
    <3>1. PICK i, id : /\ At(i, id) /\ source(i) \notin own
                       /\ k = Key(Lower[source(i)], id, "firstParty")
      BY <1>6, <2>3
    <3>2. k.value = <<Lower[source(i)], id>>  BY <1>8, <3>1
    <3> QED  BY <1>7, <1>9, <3>1, <3>2
  <2> QED  BY <1>3, <2>1, <2>2, <2>3
<1>11. ASSUME NEW v \in EIDValues(eids) PROVE v \in V
  <2>1. PICK i, id : At(i, id) /\ source(i) # Empty /\ v = <<NamespaceOf(source(i)), id>>
    BY <1>7
  <2>2. CASE source(i) = IIQ
    <3>1. Key("iiq", id, "thirdParty") \in ToSet(Candidates(a))  BY <1>3, <1>4, <2>1, <2>2
    <3>2. v = Key("iiq", id, "thirdParty").value  BY <1>8, <1>9, <2>1, <2>2
    <3> QED  BY <3>1, <3>2
  <2>3. CASE source(i) \in Shared
    <3>1. Key("pubcid", id, "firstParty") \in ToSet(Candidates(a))  BY <1>3, <1>5, <2>1, <2>3
    <3>2. v = Key("pubcid", id, "firstParty").value  BY <1>8, <1>9, <2>1, <2>3
    <3> QED  BY <3>1, <3>2
  <2>4. CASE source(i) \notin own
    <3>1. Key(Lower[source(i)], id, "firstParty") \in ToSet(Candidates(a))
      BY <1>3, <1>6, <2>1, <2>4
    <3>2. v = Key(Lower[source(i)], id, "firstParty").value  BY <1>8, <1>9, <2>1, <2>4
    <3> QED  BY <3>1, <3>2
  <2> QED  BY <1>9, <2>1, <2>2, <2>3, <2>4
<1>12. \A k \in D : k.value \in V  BY <1>3
<1> QED  BY <1>10, <1>11, <1>12 DEF D, eids

\* What the loop keeps has each value once, and as many as the limit allows.
LEMMA KeptCount ==
  ASSUME NEW K, NEW ks \in Seq(K), NEW r \in Seq(K), NEW max \in Int, Kept(r, ks, Len(ks), max),
         NEW vals, vals = {k.value : k \in ToSet(ks)}
  PROVE  /\ IsInjective([i \in 1..Len(r) |-> r[i].value])
         /\ Len(r) = IF max > 0 /\ max < Cardinality(vals) THEN max ELSE Cardinality(vals)
<1> DEFINE n == Len(ks)
           m == Len(r)
           f == [i \in 1..m |-> r[i].value]
           g == [p \in 1..n |-> ks[p].value]
<1>1. n \in Nat /\ m \in Nat  OBVIOUS
<1>2. PICK pos : Places(pos, r, ks, n)  BY DEF Kept
<1>3. /\ pos \in [1..m -> 1..n] /\ \A x, y \in 1..m : x < y => pos[x] < pos[y]
      /\ \A x \in 1..m : ks[pos[x]] = r[x]
      /\ \A x \in 1..m : \A q \in 1..(pos[x] - 1) : ks[q].value # r[x].value
  BY <1>2 DEF Places
<1>4. vals = {ks[p].value : p \in 1..n}  BY ToSetIs
<1> HIDE DEF n
<1>5. g \in Surjection(1..n, vals)  BY <1>4 DEF Surjection
<1>6. IsFiniteSet(vals)
  <2>1. IsFiniteSet(1..n)  BY <1>1, FS_Interval
  <2> HIDE DEF g
  <2> QED  BY <1>5, <2>1, FS_Surjection
<1>7. Cardinality(vals) \in Nat  BY <1>6, FS_CardinalityType
<1> HIDE DEF m
<1>8. ASSUME NEW x \in 1..m, NEW y \in 1..m, x < y PROVE f[x] # f[y]
  <2>1. pos[x] \in 1..n /\ pos[y] \in 1..n /\ pos[x] < pos[y]  BY <1>3, <1>8
  <2>2. pos[x] \in 1..(pos[y] - 1)  BY <1>1, <2>1
  <2>3. ks[pos[x]].value # r[y].value /\ ks[pos[x]] = r[x]  BY <1>3, <2>2
  <2> QED  BY <2>3
<1>9. \A x, y \in 1..m : f[x] = f[y] => x = y
  <2> HIDE DEF f
  <2>1. ASSUME NEW x \in 1..m, NEW y \in 1..m, f[x] = f[y] PROVE x = y
    <3>1. ~(x < y) /\ ~(y < x)  BY <1>8, <2>1
    <3> QED  BY <1>1, <3>1
  <2> QED  BY <2>1
<1>10. IsInjective(f)  BY <1>9 DEF IsInjective
<1>11. f \in Injection(1..m, vals)
  <2>1. \A x \in 1..m : f[x] \in vals
    <3>1. ASSUME NEW x \in 1..m PROVE r[x].value \in vals  BY <1>3, <1>4
    <3> QED  BY <3>1
  <2>2. f \in [1..m -> vals]  BY <2>1
  <2> HIDE DEF f
  <2> QED  BY <1>10, <2>2 DEF Injection
<1>12. Cardinality(1..m) = m  BY <1>1, FS_Interval
<1>13. m <= Cardinality(vals) /\ (f \in Surjection(1..m, vals) => m = Cardinality(vals))
  <2> HIDE DEF f
  <2> QED  BY <1>6, <1>11, <1>12, FS_Injection
<1>14. m = IF max > 0 /\ max < Cardinality(vals) THEN max ELSE Cardinality(vals)
  <2>1. CASE \A q \in 1..n : Has(r, ks[q].value)
    <3>1. \A v \in vals : \E x \in 1..m : f[x] = v  BY <1>4, <2>1 DEF Has, m
    <3>2. f \in [1..m -> vals]  BY <1>11 DEF Injection
    <3>3. f \in Surjection(1..m, vals)
      <4> HIDE DEF f
      <4> QED  BY <3>1, <3>2 DEF Surjection
    <3>4. max > 0 => m <= max  BY DEF Kept, m
    <3> HIDE DEF f
    <3> QED  BY <1>1, <1>7, <1>13, <3>3, <3>4
  <2>2. CASE max > 0 /\ m = max
    <3> HIDE DEF f
    <3> QED  BY <1>1, <1>7, <1>13, <2>2
  <2> QED  BY <2>1, <2>2 DEF Kept, n, m
<1> QED  BY <1>10, <1>14 DEF m

\* The identifiers that an auction has from IntentIQ, blank ones included.
OfIIQ(a) == UNION {ToSet(e.uids) : e \in {x \in ToSet(a.user.eids) : x.source = IIQ}}

\* A key with one of these is the third party's, whichever sources have it too.
LEMMA KeptThirdParty ==
  ASSUME NEW a, a.user \in Users, NEW r \in Seq(KeySet(a)), NEW max,
         Kept(r, Candidates(a), Len(Candidates(a)), max),
         NEW x \in 1..Len(r), r[x].value[1] = "iiq", r[x].value[2] \in OfIIQ(a)
  PROVE  r[x].type = "thirdParty"
<1> DEFINE eids == a.user.eids
           ks == Candidates(a)
           n == Len(ks)
           s1 == ThirdPartyKeys(a)
           K == KeySet(a)
<1>1. eids \in Seq(EIDs)  BY DEF Users
<1>2. ks \in Seq(K) /\ s1 \in Seq(K) /\ Leads(s1, ks)
  BY CandidatesFacts, PartsAreLists, ThirdPartyLeads
<1>3. \A k : k \in ToSet(s1) <=> FromEIDs(k, eids, "iiq", "thirdParty", {IIQ})
  BY <1>1, MatchingFacts DEF ThirdPartyKeys
<1>4. PICK pos : Places(pos, r, ks, n)  BY DEF Kept
<1>5. ToSet(ks) = ToSet(s1) \cup ToSet(SharedKeys(a)) \cup ToSet(MAIDKey(a.device))
                    \cup ToSet(OtherEIDKeys(eids)) \cup ToSet(DeviceKey(a.device))
  BY CandidatesFacts
<1>6. \A k \in ToSet(s1) : k.type = "thirdParty"
  <2>1. \A k \in ToSet(s1) : \E id : k = Key("iiq", id, "thirdParty")
    BY <1>1, MatchingShape DEF ThirdPartyKeys
  <2> QED  BY <2>1 DEF Key
<1> HIDE DEF ks, s1, K
<1>7. n \in Nat /\ Len(s1) \in Nat /\ Len(r) \in Nat  BY <1>2
<1>8. pos[x] \in 1..n /\ ks[pos[x]] = r[x] /\ \A q \in 1..(pos[x] - 1) : ks[q].value # r[x].value
  BY <1>4 DEF Places
<1>9. r[x] \in ToSet(ks)  BY <1>2, <1>8, ToSetIs
<1> DEFINE id == r[x].value[2]
           key == Key("iiq", id, "thirdParty")
<1>10. CASE r[x] \in ToSet(OtherEIDKeys(eids))
  <2>1. PICK i \in 1..Len(eids) : \E u \in ToSet(IDs(eids[i])) :
          r[x] = Key(Lower[eids[i].source], u, "firstParty")
    <3>1. \A k : k \in ToSet(OtherEIDKeys(eids)) <=>
            \E i \in 1..Len(eids) : \E u \in ToSet(IDs(eids[i])) :
              /\ eids[i].source \notin {Empty, IIQ} \cup Shared
              /\ k = Key(Lower[eids[i].source], u, "firstParty")
      BY <1>1, OtherFacts
    <3> HIDE DEF eids
    <3> QED  BY <1>10, <3>1, Zenon
  <2>2. PICK u \in ToSet(IDs(eids[i])) : r[x] = Key(Lower[eids[i].source], u, "firstParty")
    BY <2>1
  <2>3. r[x].value = <<Lower[eids[i].source], u>>  BY <2>2 DEF Key
  <2>4. id = u /\ r[x].value = <<"iiq", id>>  BY <2>3
  <2>5. eids[i] \in EIDs  BY <1>1
  <2>6. NotBlank(id)
    <3>1. u \in ToSet(IDs(eids[i]))  BY <2>2
    <3> QED  BY <2>4, <2>5, <3>1, IDsFacts
  <2>7. PICK e \in ToSet(eids) : e.source = IIQ /\ id \in ToSet(e.uids)
    BY DEF OfIIQ
  <2>8. PICK j \in 1..Len(eids) : e = eids[j]  BY <1>1, <2>7, ToSetIs
  <2>9. id \in ToSet(IDs(eids[j]))
    <3>1. eids[j] \in EIDs  BY <1>1
    <3> QED  BY <2>6, <2>7, <2>8, <3>1, IDsFacts
  <2> HIDE DEF id
  <2>10. FromEIDs(key, eids, "iiq", "thirdParty", {IIQ})  BY <2>7, <2>8, <2>9 DEF FromEIDs
  <2>11. key \in ToSet(s1) /\ key.value = r[x].value  BY <1>3, <2>4, <2>10 DEF Key
  <2> HIDE DEF key
  <2>12. PICK p \in 1..Len(s1) : s1[p] = key  BY <1>2, <2>11, ToSetIs
  <2>13. p \in 1..n /\ ks[p] = key  BY <1>2, <1>7, <2>12 DEF Leads
  <2>14. pos[x] <= p
    <3>1. p \notin 1..(pos[x] - 1)  BY <1>8, <2>11, <2>13
    <3> QED  BY <1>7, <1>8, <3>1
  <2>15. pos[x] \in 1..Len(s1)  BY <1>7, <1>8, <2>14
  <2>16. r[x] = s1[pos[x]]  BY <1>2, <1>8, <2>15 DEF Leads
  <2>17. r[x] \in ToSet(s1)  BY <1>2, <2>15, <2>16, ToSetIs
  <2> QED  BY <1>6, <2>17
<1>11. CASE r[x] \in ToSet(s1)  BY <1>6, <1>11
<1>12. CASE r[x] \in ToSet(SharedKeys(a))
  <2>1. \E u : r[x] = Key("pubcid", u, "firstParty")
    BY <1>1, <1>12, MatchingShape DEF SharedKeys
  <2> QED  BY <2>1 DEF Key
<1>13. CASE r[x] \in ToSet(MAIDKey(a.device)) \/ r[x] \in ToSet(DeviceKey(a.device))
  <2>1. (\E u : r[x] = Key("maid", u, "firstParty")) \/ (\E u : r[x] = Key("dev", u, "device"))
    BY <1>13, DeviceKeysFacts
  <2>2. ASSUME NEW u PROVE r[x] # Key("maid", u, "firstParty") /\ r[x] # Key("dev", u, "device")
    BY DEF Key
  <2> QED  BY <2>1, <2>2
<1> QED  BY <1>5, <1>9, <1>10, <1>11, <1>12, <1>13

\* What KeysComplete says of the keys r made of an auction a.
Complete(a, r, max) ==
  LET offered == ToSet(Candidates(a))
      distinct == Cardinality({k.value : k \in offered})
      ofIIQ == UNION {ToSet(e.uids) : e \in {x \in ToSet(a.user.eids) : x.source = IIQ}}
  IN  /\ IsInjective([i \in 1..Len(r) |-> r[i].value])
      /\ {k.value : k \in offered} =
           EIDValues(a.user.eids)
             \cup {k.value : k \in ToSet(MAIDKey(a.device) \o DeviceKey(a.device))}
      /\ \A k \in ToSet(r) :
           k.value[1] = "iiq" /\ k.value[2] \in ofIIQ => k.type = "thirdParty"
      /\ Len(r) = IF max > 0 /\ max < distinct THEN max ELSE distinct

\* It holds of the keys that extractCacheKeys makes.
LEMMA ExtractedComplete ==
  ASSUME NEW a, a.user \in Users, NEW max \in Int
  PROVE  Complete(a, ExtractCacheKeys(a, max), max)
<1> DEFINE ks == Candidates(a)
           r == ExtractCacheKeys(a, max)
           K == KeySet(a)
           vals == {k.value : k \in ToSet(ks)}
<1>1. ks \in Seq(K)  BY CandidatesFacts
<1>2. r \in Seq(K) /\ Kept(r, ks, Len(ks), max)
  <2>1. r = Dedup(ks, max)  BY DEF ExtractCacheKeys
  <2> HIDE DEF ks, r, K
  <2> QED  BY <1>1, <2>1, DedupKept
<1>3. /\ IsInjective([i \in 1..Len(r) |-> r[i].value])
      /\ Len(r) = IF max > 0 /\ max < Cardinality(vals) THEN max ELSE Cardinality(vals)
  <2> HIDE DEF ks, r, K
  <2> QED  BY <1>1, <1>2, KeptCount
<1>4. vals = EIDValues(a.user.eids)
               \cup {k.value : k \in ToSet(MAIDKey(a.device) \o DeviceKey(a.device))}
  BY CandidateValues
<1>5. ASSUME NEW k \in ToSet(r), k.value[1] = "iiq", k.value[2] \in OfIIQ(a)
      PROVE  k.type = "thirdParty"
  <2> HIDE DEF r
  <2>1. PICK x \in 1..Len(r) : k = r[x]  BY <1>2, ToSetIs
  <2> QED  BY <1>2, <1>5, <2>1, KeptThirdParty
<1> HIDE DEF r
<1>6. Complete(a, r, max)  BY <1>3, <1>4, <1>5 DEF Complete, OfIIQ
<1> QED  BY <1>6 DEF r

-----------------------------------------------------------------------------
\* The S2S request.

\* s is a list of parameters, of which no name occurs twice and all are in names.
Named(s, names) ==
  /\ s \in Seq(ToSet(s)) /\ NamedOnce(s)
  /\ \A p \in ToSet(s) : p[1] \in names

\* Another list with other names can be appended.
LEMMA NamedOn ==
  ASSUME NEW s, NEW N, Named(s, N), NEW t, NEW M, Named(t, M),
         NEW NM, N \cap M = {}, N \cup M = NM
  PROVE  /\ Named(s \o t, NM)
         /\ \A nm : Under(s \o t, nm) = Under(s, nm) \cup Under(t, nm)
<1> DEFINE S == ToSet(s) \cup ToSet(t)
           m == Len(s)
           n == Len(t)
<1>1. s \in Seq(S) /\ t \in Seq(S)
  <2>1. ToSet(s) \subseteq S /\ ToSet(t) \subseteq S  OBVIOUS
  <2>2. s \in Seq(ToSet(s)) /\ t \in Seq(ToSet(t))  BY DEF Named
  <2> HIDE DEF S
  <2> QED  BY <2>1, <2>2, WiderList
<1>2. ToSet(s \o t) = S
  <2> HIDE DEF S
  <2> QED  BY <1>1, ConcatToSet DEF S
<1>3. s \o t \in Seq(S) /\ Len(s \o t) = m + n /\ m \in Nat /\ n \in Nat
  <2> HIDE DEF S
  <2> QED  BY <1>1
<1>4. \A i \in 1..m : (s \o t)[i] = s[i] /\ s[i] \in ToSet(s)
  <2> HIDE DEF S
  <2> QED  BY <1>1, ToSetIs
<1>5. ASSUME NEW i \in (m + 1)..(m + n)
      PROVE  (s \o t)[i] = t[i - m] /\ i - m \in 1..n /\ t[i - m] \in ToSet(t)
  <2> HIDE DEF S
  <2>1. i - m \in 1..n  BY <1>3
  <2>2. (s \o t)[i] = t[i - m]  BY <1>1, <1>3, <2>1
  <2> QED  BY <1>1, <2>1, <2>2, ToSetIs
<1>6. \A p \in ToSet(s) : p[1] \in N  BY DEF Named
<1>7. \A p \in ToSet(t) : p[1] \in M  BY DEF Named
<1>8. /\ \A i, j \in 1..m : s[i][1] = s[j][1] => i = j
      /\ \A i, j \in 1..n : t[i][1] = t[j][1] => i = j
  BY DEF Named, NamedOnce, IsInjective
<1> HIDE DEF S, m, n
<1>9. ASSUME NEW i \in 1..(m + n), NEW j \in 1..(m + n), (s \o t)[i][1] = (s \o t)[j][1]
      PROVE  i = j
  <2>1. \A x \in 1..(m + n) : x \in 1..m \/ x \in (m + 1)..(m + n)  BY <1>3
  <2>2. CASE i \in 1..m /\ j \in 1..m
    <3>1. s[i][1] = s[j][1]  BY <1>4, <1>9, <2>2
    <3> QED  BY <1>8, <2>2, <3>1
  <2>3. CASE i \in (m + 1)..(m + n) /\ j \in (m + 1)..(m + n)
    <3>1. t[i - m][1] = t[j - m][1] /\ i - m \in 1..n /\ j - m \in 1..n  BY <1>5, <1>9, <2>3
    <3>2. i - m = j - m  BY <1>8, <3>1
    <3> QED  BY <1>3, <2>3, <3>2
  <2>4. CASE i \in 1..m /\ j \in (m + 1)..(m + n)
    <3>1. (s \o t)[i][1] \in N /\ (s \o t)[j][1] \in M  BY <1>4, <1>5, <1>6, <1>7, <2>4
    <3> QED  BY <1>9, <3>1
  <2>5. CASE j \in 1..m /\ i \in (m + 1)..(m + n)
    <3>1. (s \o t)[j][1] \in N /\ (s \o t)[i][1] \in M  BY <1>4, <1>5, <1>6, <1>7, <2>5
    <3> QED  BY <1>9, <3>1
  <2> QED  BY <2>1, <2>2, <2>3, <2>4, <2>5
<1>10. NamedOnce(s \o t)  BY <1>3, <1>9 DEF NamedOnce, IsInjective
<1>11. \A p \in ToSet(s \o t) : p[1] \in NM  BY <1>2, <1>6, <1>7 DEF S
<1>12. \A nm : Under(s \o t, nm) = Under(s, nm) \cup Under(t, nm)
  BY <1>2 DEF Under, S
<1> QED  BY <1>2, <1>3, <1>10, <1>11, <1>12 DEF Named

\* The empty list.
LEMMA NamedNone ==
  ASSUME NEW names
  PROVE  Named(<<>>, names) /\ \A nm : Under(<<>>, nm) = {}
<1>1. ToSet(<<>>) = {} /\ Len(<<>>) = 0 /\ \A i \in 1..0 : FALSE  BY DEF ToSet
<1>2. NamedOnce(<<>>)  BY <1>1 DEF NamedOnce, IsInjective
<1>3. <<>> \in Seq(ToSet(<<>>))  BY <1>1
<1>4. \A nm : Under(<<>>, nm) = {}  BY <1>1 DEF Under
<1>5. \A p \in ToSet(<<>>) : p[1] \in names  BY <1>1
<1> QED  BY <1>2, <1>3, <1>4, <1>5 DEF Named

\* The list of one parameter.
LEMMA NamedOne ==
  ASSUME NEW name, NEW v
  PROVE  /\ Named(<<<<name, v>>>>, {name})
         /\ \A nm : Under(<<<<name, v>>>>, nm) = IF nm = name THEN {v} ELSE {}
<1>1. ToSet(<<<<name, v>>>>) = {<<name, v>>}  BY DEF ToSet
<1>2. Len(<<<<name, v>>>>) = 1 /\ \A i, j \in 1..1 : i = j  OBVIOUS
<1>3. NamedOnce(<<<<name, v>>>>)  BY <1>2 DEF NamedOnce, IsInjective
<1>4. <<<<name, v>>>> \in Seq(ToSet(<<<<name, v>>>>))  BY <1>1
<1>5. \A nm : Under(<<<<name, v>>>>, nm) = IF nm = name THEN {v} ELSE {}  BY <1>1 DEF Under
<1>6. \A p \in ToSet(<<<<name, v>>>>) : p[1] \in {name}  BY <1>1
<1> QED  BY <1>3, <1>4, <1>5, <1>6 DEF Named

\* appendParameter.
LEMMA ParamFacts ==
  ASSUME NEW name, NEW v
  PROVE  /\ Named(Param(name, v), {name})
         /\ \A nm : Under(Param(name, v), nm) = IF nm = name /\ NotBlank(v) THEN {v} ELSE {}
<1>1. CASE NotBlank(v)
  <2>1. Param(name, v) = <<<<name, v>>>>  BY <1>1 DEF Param
  <2> DEFINE one == <<<<name, v>>>>
  <2>2. Named(one, {name}) /\ \A nm : Under(one, nm) = IF nm = name THEN {v} ELSE {}
    BY NamedOne
  <2> HIDE DEF one
  <2>3. Param(name, v) = one  BY <2>1 DEF one
  <2> QED  BY <1>1, <2>2, <2>3
<1>2. CASE ~NotBlank(v)
  <2>1. Param(name, v) = <<>>  BY <1>2 DEF Param
  <2> DEFINE none == <<>>
  <2>2. Named(none, {name}) /\ \A nm : Under(none, nm) = {}  BY NamedNone
  <2> HIDE DEF none
  <2>3. Param(name, v) = none  BY <2>1 DEF none
  <2> QED  BY <1>2, <2>2, <2>3
<1> QED  BY <1>1, <1>2

\* The same for a number.
LEMMA NumberParamFacts ==
  ASSUME NEW name, NEW v
  PROVE  /\ Named(NumberParam(name, v), {name})
         /\ \A nm : Under(NumberParam(name, v), nm) = IF nm = name /\ v # Absent THEN {v} ELSE {}
<1>1. CASE v # Absent
  <2>1. NumberParam(name, v) = <<<<name, v>>>>  BY <1>1 DEF NumberParam
  <2> DEFINE one == <<<<name, v>>>>
  <2>2. Named(one, {name}) /\ \A nm : Under(one, nm) = IF nm = name THEN {v} ELSE {}
    BY NamedOne
  <2> HIDE DEF one
  <2>3. NumberParam(name, v) = one  BY <2>1 DEF one
  <2> QED  BY <1>1, <2>2, <2>3
<1>2. CASE v = Absent
  <2>1. NumberParam(name, v) = <<>>  BY <1>2 DEF NumberParam
  <2> DEFINE none == <<>>
  <2>2. Named(none, {name}) /\ \A nm : Under(none, nm) = {}  BY NamedNone
  <2> HIDE DEF none
  <2>3. NumberParam(name, v) = none  BY <2>1 DEF none
  <2> QED  BY <1>2, <2>2, <2>3
<1> QED  BY <1>1, <1>2

\* A name that a list does not have has no values there.
LEMMA UnderNone ==
  ASSUME NEW s, NEW names, Named(s, names), NEW nm, nm \notin names
  PROVE  Under(s, nm) = {}
BY DEF Named, Under

\* What a parameter is sent with.
Value(text) == IF NotBlank(text) THEN {text} ELSE {}

\* The identifier that a device is asked about: none, or its IFA.
PCID(d) ==
  IF NotBlank(d.ifa) /\ ~d.lmt THEN Value(IF d.tv THEN Upper[d.ifa] ELSE d.ifa) ELSE {}

\* appendDeviceID sends that, and nothing else when there is none.
LEMMA DeviceIDFacts ==
  ASSUME NEW d, d.lmt \in BOOLEAN, d.tv \in BOOLEAN
  PROVE  /\ Named(DeviceID(d), {"pcid", "idtype"})
         /\ Under(DeviceID(d), "pcid") = PCID(d)
         /\ d.lmt => Under(DeviceID(d), "idtype") = {}
<1>1. CASE ~NotBlank(d.ifa) \/ d.lmt
  <2> DEFINE none == <<>>
  <2>1. Named(none, {"pcid", "idtype"}) /\ \A nm : Under(none, nm) = {}  BY NamedNone
  <2>2. DeviceID(d) = none  BY <1>1, Zenon DEF DeviceID
  <2>3. PCID(d) = {}  BY <1>1, Zenon DEF PCID
  <2> HIDE DEF none
  <2> QED  BY <2>1, <2>2, <2>3
<1>2. CASE NotBlank(d.ifa) /\ ~d.lmt
  <2> DEFINE id == IF d.tv THEN Upper[d.ifa] ELSE d.ifa
             type == IF d.tv THEN "8" ELSE "4"
             s == Param("pcid", id)
             t == Param("idtype", type)
             N == {"pcid"}
             M == {"idtype"}
             NM == {"pcid", "idtype"}
  <2>1. DeviceID(d) = s \o t
    <3>1. CASE d.tv = TRUE
      <4>1. id = Upper[d.ifa] /\ type = "8"  BY <3>1
      <4>2. DeviceID(d) = Param("pcid", Upper[d.ifa]) \o Param("idtype", "8")
        BY <1>2, <3>1, Zenon DEF DeviceID
      <4> QED  BY <4>1, <4>2
    <3>2. CASE d.tv = FALSE
      <4>1. id = d.ifa /\ type = "4"  BY <3>2
      <4>2. DeviceID(d) = Param("pcid", d.ifa) \o Param("idtype", "4")
        BY <1>2, <3>2, Zenon DEF DeviceID
      <4> QED  BY <4>1, <4>2
    <3> QED  BY <3>1, <3>2
  <2>2. PCID(d) = Value(id)  BY <1>2, Zenon DEF PCID
  <2> HIDE DEF id, type
  <2>3. /\ Named(s, N) /\ Named(t, M)
        /\ \A nm : Under(s, nm) = IF nm = "pcid" /\ NotBlank(id) THEN {id} ELSE {}
        /\ \A nm : Under(t, nm) = IF nm = "idtype" /\ NotBlank(type) THEN {type} ELSE {}
    BY ParamFacts
  <2>4. N \cap M = {} /\ N \cup M = NM  OBVIOUS
  <2> HIDE DEF s, t, N, M, NM
  <2>5. Named(s \o t, NM) /\ \A nm : Under(s \o t, nm) = Under(s, nm) \cup Under(t, nm)
    BY <2>3, <2>4, NamedOn
  <2>6. Under(s \o t, "pcid") = Value(id)  BY <2>3, <2>5 DEF Value
  <2> QED  BY <1>2, <2>1, <2>2, <2>5, <2>6 DEF NM
<1> QED  BY <1>1, <1>2

\* What the device contributes to a request.
DeviceNames == {"ip", "ipv6", "uas", "uh", "pcid", "idtype"}

\* It is sent under the names it should be.
LEMMA DeviceParamsFacts ==
  ASSUME NEW d, d # NoDevice => d.lmt \in BOOLEAN /\ d.tv \in BOOLEAN
  PROVE  /\ Named(DeviceParams(d), DeviceNames)
         /\ d = NoDevice => \A nm : Under(DeviceParams(d), nm) = {}
         /\ d # NoDevice => /\ Under(DeviceParams(d), "ip") = Value(d.ip)
                            /\ Under(DeviceParams(d), "ipv6") = Value(d.ipv6)
                            /\ Under(DeviceParams(d), "uas") = Value(d.ua)
                            /\ Under(DeviceParams(d), "pcid") = PCID(d)
                            /\ d.lmt => Under(DeviceParams(d), "idtype") = {}
<1>1. CASE d = NoDevice
  <2> DEFINE none == <<>>
  <2>1. Named(none, DeviceNames) /\ \A nm : Under(none, nm) = {}  BY NamedNone
  <2>2. DeviceParams(d) = none  BY <1>1 DEF DeviceParams
  <2> HIDE DEF none
  <2> QED  BY <1>1, <2>1, <2>2
<1>2. CASE d # NoDevice
  <2> DEFINE hints == UAHints(d.sua)
             s1 == Param("ip", d.ip)
             s2 == Param("ipv6", d.ipv6)
             s3 == Param("uas", d.ua)
             s4 == Param("uh", hints)
             s5 == DeviceID(d)
             t2 == s1 \o s2
             t3 == t2 \o s3
             t4 == t3 \o s4
             t5 == t4 \o s5
             A1 == {"ip"}
             A2 == {"ipv6"}
             A3 == {"uas"}
             A4 == {"uh"}
             A5 == {"pcid", "idtype"}
             N2 == {"ip", "ipv6"}
             N3 == {"ip", "ipv6", "uas"}
             N4 == {"ip", "ipv6", "uas", "uh"}
  <2>1. DeviceParams(d) = t5  BY <1>2 DEF DeviceParams
  <2> HIDE DEF hints
  <2>2. /\ Named(s1, A1) /\ Named(s2, A2) /\ Named(s3, A3) /\ Named(s4, A4)
        /\ Under(s1, "ip") = Value(d.ip) /\ Under(s2, "ipv6") = Value(d.ipv6)
        /\ Under(s3, "uas") = Value(d.ua)
    BY ParamFacts DEF Value
  <2>3. /\ Named(s5, A5) /\ Under(s5, "pcid") = PCID(d)
        /\ d.lmt => Under(s5, "idtype") = {}
    BY <1>2, DeviceIDFacts
  <2> HIDE DEF s1, s2, s3, s4, s5
  <2>4. /\ A1 \cap A2 = {} /\ A1 \cup A2 = N2
        /\ N2 \cap A3 = {} /\ N2 \cup A3 = N3
        /\ N3 \cap A4 = {} /\ N3 \cup A4 = N4
        /\ N4 \cap A5 = {} /\ N4 \cup A5 = DeviceNames
    BY DEF DeviceNames
  <2>5. /\ Under(s2, "ip") = {} /\ Under(s3, "ip") = {} /\ Under(s4, "ip") = {} /\ Under(s5, "ip") = {}
        /\ Under(s1, "ipv6") = {} /\ Under(s3, "ipv6") = {} /\ Under(s4, "ipv6") = {}
        /\ Under(s5, "ipv6") = {}
        /\ Under(s1, "uas") = {} /\ Under(s2, "uas") = {} /\ Under(s4, "uas") = {}
        /\ Under(s5, "uas") = {}
        /\ Under(s1, "pcid") = {} /\ Under(s2, "pcid") = {} /\ Under(s3, "pcid") = {}
        /\ Under(s4, "pcid") = {}
        /\ Under(s1, "idtype") = {} /\ Under(s2, "idtype") = {} /\ Under(s3, "idtype") = {}
        /\ Under(s4, "idtype") = {}
    BY <2>2, <2>3, UnderNone
  <2> HIDE DEF A1, A2, A3, A4, A5, N2, N3, N4
  <2>6. Named(t2, N2) /\ \A nm : Under(t2, nm) = Under(s1, nm) \cup Under(s2, nm)
    BY <2>2, <2>4, NamedOn
  <2> HIDE DEF t2
  <2>7. Named(t3, N3) /\ \A nm : Under(t3, nm) = Under(t2, nm) \cup Under(s3, nm)
    BY <2>2, <2>4, <2>6, NamedOn
  <2> HIDE DEF t3
  <2>8. Named(t4, N4) /\ \A nm : Under(t4, nm) = Under(t3, nm) \cup Under(s4, nm)
    <3>1. Named(t3, N3) /\ Named(s4, A4) /\ N3 \cap A4 = {} /\ N3 \cup A4 = N4
      BY <2>2, <2>4, <2>7
    <3> QED  BY <3>1, NamedOn
  <2> HIDE DEF t4
  <2>9. Named(t5, DeviceNames) /\ \A nm : Under(t5, nm) = Under(t4, nm) \cup Under(s5, nm)
    BY <2>3, <2>4, <2>8, NamedOn
  <2> HIDE DEF t5
  <2>10. \A nm : Under(t5, nm) = Under(s1, nm) \cup Under(s2, nm) \cup Under(s3, nm)
                                   \cup Under(s4, nm) \cup Under(s5, nm)
    BY <2>6, <2>7, <2>8, <2>9
  <2>11. Under(t5, "ip") = Value(d.ip) /\ Under(t5, "ipv6") = Value(d.ipv6)
    BY <2>2, <2>5, <2>10
  <2>12. Under(t5, "uas") = Value(d.ua) /\ Under(t5, "pcid") = PCID(d)
    BY <2>2, <2>3, <2>5, <2>10
  <2>13. d.lmt => Under(t5, "idtype") = {}
    BY <2>3, <2>5, <2>10
  <2> QED  BY <1>2, <2>1, <2>9, <2>11, <2>12, <2>13
<1> QED  BY <1>1, <1>2

\* What the regulations contribute to a request.
PrivacyNames == {"gdpr", "us_privacy", "gpp", "gpp_sid"}

\* A signal is sent when regs has it or, for two of them, its extension.
LEMMA PrivacyParamsFacts ==
  ASSUME NEW r
  PROVE  /\ Named(PrivacyParams(r), PrivacyNames)
         /\ r # NoRegs =>
              /\ Under(PrivacyParams(r), "gdpr") # {} <=>
                   r.gdpr # Absent \/ (r.ext # NoExt /\ r.ext.gdpr # Absent)
              /\ Under(PrivacyParams(r), "us_privacy") # {} <=>
                   NotBlank(r.usPrivacy) \/ (r.ext # NoExt /\ NotBlank(r.ext.usPrivacy))
              /\ Under(PrivacyParams(r), "gpp") # {} <=> NotBlank(r.gpp)
              /\ Under(PrivacyParams(r), "gpp_sid") # {} <=> r.gppSID # <<>>
<1>1. CASE r = NoRegs
  <2> DEFINE none == <<>>
  <2>1. Named(none, PrivacyNames)  BY NamedNone
  <2>2. PrivacyParams(r) = none  BY <1>1 DEF PrivacyParams
  <2> HIDE DEF none
  <2> QED  BY <1>1, <2>1, <2>2
<1>2. CASE r # NoRegs
  <2> DEFINE gdpr == IF r.gdpr = Absent /\ r.ext # NoExt THEN r.ext.gdpr ELSE r.gdpr
             usp == IF ~NotBlank(r.usPrivacy) /\ r.ext # NoExt THEN r.ext.usPrivacy ELSE r.usPrivacy
             s1 == NumberParam("gdpr", gdpr)
             s2 == Param("us_privacy", usp)
             s3 == Param("gpp", r.gpp)
             s4 == IF r.gppSID = <<>> THEN <<>> ELSE <<<<"gpp_sid", r.gppSID>>>>
             t2 == s1 \o s2
             t3 == t2 \o s3
             t4 == t3 \o s4
             A1 == {"gdpr"}
             A2 == {"us_privacy"}
             A3 == {"gpp"}
             A4 == {"gpp_sid"}
             N2 == {"gdpr", "us_privacy"}
             N3 == {"gdpr", "us_privacy", "gpp"}
             N4 == PrivacyNames
  <2>1. PrivacyParams(r) = t4  BY <1>2 DEF PrivacyParams
  <2>2. /\ gdpr # Absent <=> r.gdpr # Absent \/ (r.ext # NoExt /\ r.ext.gdpr # Absent)
        /\ NotBlank(usp) <=>
             NotBlank(r.usPrivacy) \/ (r.ext # NoExt /\ NotBlank(r.ext.usPrivacy))
    OBVIOUS
  <2> HIDE DEF gdpr, usp
  <2>3. /\ Named(s1, A1)
        /\ Under(s1, "gdpr") # {} <=> gdpr # Absent
    BY NumberParamFacts
  <2>4. /\ Named(s2, A2) /\ Named(s3, A3)
        /\ Under(s2, "us_privacy") # {} <=> NotBlank(usp)
        /\ Under(s3, "gpp") # {} <=> NotBlank(r.gpp)
    BY ParamFacts
  <2>5. Named(s4, A4) /\ (Under(s4, "gpp_sid") # {} <=> r.gppSID # <<>>)
    <3> DEFINE none == <<>>
               one == <<<<"gpp_sid", r.gppSID>>>>
    <3>1. Named(none, A4) /\ \A nm : Under(none, nm) = {}  BY NamedNone
    <3>2. Named(one, A4) /\ Under(one, "gpp_sid") = {r.gppSID}  BY NamedOne
    <3>3. s4 = IF r.gppSID = <<>> THEN none ELSE one  OBVIOUS
    <3> HIDE DEF none, one, s4
    <3>4. CASE r.gppSID = <<>>  BY <3>1, <3>3, <3>4
    <3>5. CASE r.gppSID # <<>>  BY <3>2, <3>3, <3>5
    <3> QED  BY <3>4, <3>5
  <2> HIDE DEF s1, s2, s3, s4
  <2>6. /\ A1 \cap A2 = {} /\ A1 \cup A2 = N2 /\ N2 \cap A3 = {} /\ N2 \cup A3 = N3
        /\ N3 \cap A4 = {} /\ N3 \cup A4 = N4
    BY DEF PrivacyNames
  <2>7. /\ Under(s2, "gdpr") = {} /\ Under(s3, "gdpr") = {} /\ Under(s4, "gdpr") = {}
        /\ Under(s1, "us_privacy") = {} /\ Under(s3, "us_privacy") = {}
        /\ Under(s4, "us_privacy") = {}
        /\ Under(s1, "gpp") = {} /\ Under(s2, "gpp") = {} /\ Under(s4, "gpp") = {}
        /\ Under(s1, "gpp_sid") = {} /\ Under(s2, "gpp_sid") = {} /\ Under(s3, "gpp_sid") = {}
    BY <2>3, <2>4, <2>5, UnderNone
  <2> HIDE DEF A1, A2, A3, A4, N2, N3, N4
  <2>8. Named(t2, N2) /\ \A nm : Under(t2, nm) = Under(s1, nm) \cup Under(s2, nm)
    <3>1. Named(s1, A1) /\ Named(s2, A2) /\ A1 \cap A2 = {} /\ A1 \cup A2 = N2
      BY <2>3, <2>4, <2>6
    <3> QED  BY <3>1, NamedOn
  <2> HIDE DEF t2
  <2>9. Named(t3, N3) /\ \A nm : Under(t3, nm) = Under(t2, nm) \cup Under(s3, nm)
    <3>1. Named(t2, N2) /\ Named(s3, A3) /\ N2 \cap A3 = {} /\ N2 \cup A3 = N3
      BY <2>4, <2>6, <2>8
    <3> QED  BY <3>1, NamedOn
  <2> HIDE DEF t3
  <2>10. Named(t4, N4) /\ \A nm : Under(t4, nm) = Under(t3, nm) \cup Under(s4, nm)
    <3>1. Named(t3, N3) /\ Named(s4, A4) /\ N3 \cap A4 = {} /\ N3 \cup A4 = N4
      BY <2>5, <2>6, <2>9
    <3> QED  BY <3>1, NamedOn
  <2> HIDE DEF t4
  <2>11. \A nm : Under(t4, nm) = Under(s1, nm) \cup Under(s2, nm) \cup Under(s3, nm) \cup Under(s4, nm)
    BY <2>8, <2>9, <2>10
  <2>12. Under(t4, "gdpr") = Under(s1, "gdpr") /\ Under(t4, "us_privacy") = Under(s2, "us_privacy")
    BY <2>7, <2>11
  <2>13. Under(t4, "gpp") = Under(s3, "gpp") /\ Under(t4, "gpp_sid") = Under(s4, "gpp_sid")
    BY <2>7, <2>11
  <2>14. Under(t4, "gdpr") # {} <=> r.gdpr # Absent \/ (r.ext # NoExt /\ r.ext.gdpr # Absent)
    BY <2>2, <2>3, <2>12
  <2>15. Under(t4, "us_privacy") # {} <=>
           NotBlank(r.usPrivacy) \/ (r.ext # NoExt /\ NotBlank(r.ext.usPrivacy))
    BY <2>2, <2>4, <2>12
  <2>16. Under(t4, "gpp") # {} <=> NotBlank(r.gpp)  BY <2>4, <2>13
  <2>17. Under(t4, "gpp_sid") # {} <=> r.gppSID # <<>>  BY <2>5, <2>13
  <2> QED  BY <2>1, <2>10, <2>14, <2>15, <2>16, <2>17 DEF N4
<1> QED  BY <1>1, <1>2

\* A request has what its four parts have.
LEMMA RequestFacts ==
  ASSUME NEW a, a.device # NoDevice => a.device.lmt \in BOOLEAN /\ a.device.tv \in BOOLEAN
  PROVE  LET q == BuildS2SRequest(a) IN
         /\ NamedOnce(q)
         /\ Under(q, "ref") = Value(ResolveRef(a))
         /\ Under(q, "iiquid") = Value(ResolveIIQUID(a.user.eids))
         /\ \A nm \in DeviceNames : Under(q, nm) = Under(DeviceParams(a.device), nm)
         /\ \A nm \in PrivacyNames : Under(q, nm) = Under(PrivacyParams(a.regs), nm)
<1> DEFINE ref == ResolveRef(a)
           uid == ResolveIIQUID(a.user.eids)
           s1 == DeviceParams(a.device)
           s2 == Param("ref", ref)
           s3 == Param("iiquid", uid)
           s4 == PrivacyParams(a.regs)
           t2 == s1 \o s2
           t3 == t2 \o s3
           t4 == t3 \o s4
           A2 == {"ref"}
           A3 == {"iiquid"}
           N2 == DeviceNames \cup A2
           N3 == N2 \cup A3
           N4 == N3 \cup PrivacyNames
<1>1. BuildS2SRequest(a) = t4  BY DEF BuildS2SRequest
<1>2. Named(s1, DeviceNames)  BY DeviceParamsFacts
<1> HIDE DEF ref, uid
<1>3. /\ Named(s2, A2) /\ Named(s3, A3)
      /\ Under(s2, "ref") = Value(ref) /\ Under(s3, "iiquid") = Value(uid)
  BY ParamFacts DEF Value
<1>4. Named(s4, PrivacyNames)  BY PrivacyParamsFacts
<1> HIDE DEF s1, s2, s3, s4
<1>5. DeviceNames \cap A2 = {} /\ N2 \cap A3 = {} /\ N3 \cap PrivacyNames = {}
  BY DEF DeviceNames, PrivacyNames
<1>6. /\ Under(s1, "ref") = {} /\ Under(s1, "iiquid") = {}
      /\ \A nm \in PrivacyNames : Under(s1, nm) = {}
  BY <1>2, UnderNone DEF DeviceNames, PrivacyNames
<1>7. /\ Under(s2, "iiquid") = {} /\ Under(s3, "ref") = {}
      /\ \A nm \in DeviceNames \cup PrivacyNames : Under(s2, nm) = {} /\ Under(s3, nm) = {}
  BY <1>3, UnderNone DEF DeviceNames, PrivacyNames
<1>8. /\ Under(s4, "ref") = {} /\ Under(s4, "iiquid") = {}
      /\ \A nm \in DeviceNames : Under(s4, nm) = {}
  BY <1>4, UnderNone DEF DeviceNames, PrivacyNames
<1> HIDE DEF A2, A3
<1>9. Named(t2, N2) /\ \A nm : Under(t2, nm) = Under(s1, nm) \cup Under(s2, nm)
  <2> HIDE DEF N2
  <2>1. Named(s2, A2) /\ DeviceNames \cap A2 = {} /\ DeviceNames \cup A2 = N2  BY <1>3, <1>5 DEF N2
  <2> QED  BY <1>2, <2>1, NamedOn
<1> HIDE DEF t2
<1>10. Named(t3, N3) /\ \A nm : Under(t3, nm) = Under(t2, nm) \cup Under(s3, nm)
  <2> HIDE DEF N2, N3
  <2>1. Named(t2, N2) /\ Named(s3, A3) /\ N2 \cap A3 = {} /\ N2 \cup A3 = N3
    BY <1>3, <1>5, <1>9 DEF N3
  <2> QED  BY <2>1, NamedOn
<1> HIDE DEF t3
<1>11. Named(t4, N4) /\ \A nm : Under(t4, nm) = Under(t3, nm) \cup Under(s4, nm)
  <2> HIDE DEF N3, N4
  <2>1. Named(t3, N3) /\ N3 \cap PrivacyNames = {} /\ N3 \cup PrivacyNames = N4
    BY <1>5, <1>10 DEF N4
  <2> QED  BY <1>4, <2>1, NamedOn
<1> HIDE DEF t4
<1>12. \A nm : Under(t4, nm) = Under(s1, nm) \cup Under(s2, nm) \cup Under(s3, nm) \cup Under(s4, nm)
  BY <1>9, <1>10, <1>11
<1>13. Under(t4, "ref") = Value(ref) /\ Under(t4, "iiquid") = Value(uid)
  BY <1>3, <1>6, <1>7, <1>8, <1>12
<1>14. \A nm \in DeviceNames : Under(t4, nm) = Under(s1, nm)  BY <1>7, <1>8, <1>12
<1>15. \A nm \in PrivacyNames : Under(t4, nm) = Under(s4, nm)  BY <1>6, <1>7, <1>12
<1>16. NamedOnce(t4)  BY <1>11 DEF Named
<1> QED  BY <1>1, <1>13, <1>14, <1>15, <1>16 DEF ref, uid, s1, s4

-----------------------------------------------------------------------------
\* What is asked and what is cached.

\* The first key of the third party, if it has one, has the iiquid.
LEMMA IIQUIDFacts ==
  ASSUME NEW a, a.user \in Users
  PROVE  IF ThirdPartyKeys(a) = <<>> THEN Value(ResolveIIQUID(a.user.eids)) = {}
         ELSE /\ Value(ResolveIIQUID(a.user.eids)) = {ResolveIIQUID(a.user.eids)}
              /\ ThirdPartyKeys(a)[1] = Key("iiq", ResolveIIQUID(a.user.eids), "thirdParty")
<1> DEFINE eids == a.user.eids
           n == Len(eids)
           S == {Key("iiq", id, "thirdParty") : id \in Texts}
           ss == [i \in 1..n |-> IF eids[i].source = IIQ THEN IDs(eids[i]) ELSE <<>>]
           tt == [i \in 1..n |-> IF eids[i].source \in {IIQ}
                                 THEN EIDKeys(eids[i], "iiq", "thirdParty") ELSE <<>>]
           ids == FlattenSeq(ss)
           s1 == FlattenSeq(tt)
           uid == ResolveIIQUID(eids)
<1>1. eids \in Seq(EIDs) /\ n \in Nat  BY DEF Users
<1>2. \A i \in 1..n : eids[i] \in EIDs  BY <1>1
<1>3. ThirdPartyKeys(a) = s1  BY DEF ThirdPartyKeys, MatchingEIDKeys
<1>4. uid = IF ids = <<>> THEN Empty ELSE Head(ids)  BY DEF ResolveIIQUID
<1> HIDE DEF n, eids
<1>5. ASSUME NEW i \in 1..n
      PROVE  /\ ss[i] \in Seq(Texts) /\ tt[i] \in Seq(S)
             /\ ss[i] = <<>> <=> tt[i] = <<>>
             /\ ss[i] # <<>> => /\ tt[i][1] = Key("iiq", ss[i][1], "thirdParty")
                                /\ NotBlank(ss[i][1])
  <2> DEFINE s == IDs(eids[i])
             t == EIDKeys(eids[i], "iiq", "thirdParty")
  <2>1. eids[i] \in EIDs  BY <1>2
  <2>2. /\ s \in Seq(Texts)
        /\ \A id \in ToSet(s) : NotBlank(id)
    BY <2>1, IDsFacts
  <2>3. t \in Seq(S) /\ Len(t) = Len(s) /\ \A j \in 1..Len(s) : t[j] = Key("iiq", s[j], "thirdParty")
    BY <2>1, EIDKeysFacts
  <2>4. CASE eids[i].source = IIQ
    <3>1. ss[i] = s /\ tt[i] = t  BY <2>4
    <3> HIDE DEF s, t, S, ss, tt
    <3>2. Len(s) \in Nat /\ (s = <<>> <=> Len(s) = 0) /\ (t = <<>> <=> Len(t) = 0)
      BY <2>2, <2>3
    <3>3. s # <<>> => 1 \in 1..Len(s) /\ s[1] \in ToSet(s)
      BY <2>2, <3>2, ToSetIs
    <3> QED  BY <2>2, <2>3, <3>1, <3>2, <3>3
  <2>5. CASE eids[i].source # IIQ
    <3>1. ss[i] = <<>> /\ tt[i] = <<>>  BY <2>5
    <3> HIDE DEF S, ss, tt
    <3> QED  BY <3>1
  <2> QED  BY <2>4, <2>5
<1> HIDE DEF S
<1>6. ss \in Seq(Seq(Texts)) /\ Len(ss) = n /\ tt \in Seq(Seq(S)) /\ Len(tt) = n
  <2>1. ss \in [1..n -> Seq(Texts)] /\ tt \in [1..n -> Seq(S)]  BY <1>5
  <2> HIDE DEF ss, tt
  <2> QED  BY <1>1, <2>1, FunctionIsList
<1> HIDE DEF ss, tt
<1>7. ids \in Seq(Texts) /\ s1 \in Seq(S)  BY <1>6, FlattenElements
<1>8. ids # <<>> => \E i \in 1..n : /\ ss[i] # <<>> /\ ids[1] = ss[i][1]
                                    /\ \A j \in 1..(i - 1) : ss[j] = <<>>
  BY <1>6, FlattenFirst
<1>9. s1 # <<>> => \E i \in 1..n : /\ tt[i] # <<>> /\ s1[1] = tt[i][1]
                                   /\ \A j \in 1..(i - 1) : tt[j] = <<>>
  BY <1>6, FlattenFirst
<1>10. ToSet(ids) = UNION {ToSet(ss[i]) : i \in 1..n} /\ ToSet(s1) = UNION {ToSet(tt[i]) : i \in 1..n}
  BY <1>6, FlattenElements
<1> HIDE DEF ids, s1, uid
<1>11. ASSUME NEW i \in 1..n, ss[i] # <<>> PROVE ids # <<>> /\ s1 # <<>>
  <2> DEFINE s == ss[i]
             t == tt[i]
  <2>1. s # <<>> /\ t # <<>> /\ s \in Seq(Texts) /\ t \in Seq(S)  BY <1>5, <1>11
  <2>2. ToSet(s) \subseteq ToSet(ids) /\ ToSet(t) \subseteq ToSet(s1)  BY <1>10
  <2> HIDE DEF s, t
  <2>3. 1 \in 1..Len(s) /\ 1 \in 1..Len(t)  BY <2>1
  <2>4. s[1] \in ToSet(s) /\ t[1] \in ToSet(t)  BY <2>1, <2>3, ToSetIs
  <2>5. ToSet(<<>>) = {}  BY DEF ToSet
  <2> QED  BY <2>2, <2>4, <2>5
<1>12. CASE s1 = <<>>
  <2>1. ids = <<>>  BY <1>8, <1>11, <1>12
  <2>2. uid = Empty  BY <1>4, <2>1
  <2>3. Value(uid) = {}  BY <2>2 DEF Value, NotBlank
  <2> QED  BY <1>3, <1>12, <2>3 DEF uid, eids
<1>13. CASE s1 # <<>>
  <2>1. PICK j \in 1..n : tt[j] # <<>> /\ s1[1] = tt[j][1] /\ \A x \in 1..(j - 1) : tt[x] = <<>>
    BY <1>9, <1>13
  <2>2. ids # <<>>  BY <1>5, <1>11, <2>1
  <2>3. PICK i \in 1..n : ss[i] # <<>> /\ ids[1] = ss[i][1] /\ \A x \in 1..(i - 1) : ss[x] = <<>>
    BY <1>8, <2>2
  <2>4. i = j
    <3>1. tt[i] # <<>> /\ ss[j] # <<>>  BY <1>5, <2>1, <2>3
    <3>2. i \notin 1..(j - 1) /\ j \notin 1..(i - 1)  BY <2>1, <2>3, <3>1
    <3> QED  BY <1>1, <3>2
  <2>5. tt[i][1] = Key("iiq", ss[i][1], "thirdParty") /\ NotBlank(ss[i][1])  BY <1>5, <2>3
  <2>6. uid = ids[1]  BY <1>4, <1>7, <2>2
  <2>7. s1[1] = Key("iiq", uid, "thirdParty") /\ NotBlank(uid)  BY <2>1, <2>3, <2>4, <2>5, <2>6
  <2>8. Value(uid) = {uid}  BY <2>7 DEF Value
  <2> QED  BY <1>3, <1>13, <2>7, <2>8 DEF uid, eids
<1> QED  BY <1>12, <1>13

\* The first candidate is the first key.
LEMMA FirstKey ==
  ASSUME NEW K, NEW ks \in Seq(K), NEW r \in Seq(K), NEW max \in Int, Kept(r, ks, Len(ks), max)
  PROVE  /\ r = <<>> <=> ks = <<>>
         /\ r # <<>> => r[1] = ks[1]
<1>1. Len(ks) \in Nat /\ Len(r) \in Nat  OBVIOUS
<1>2. PICK pos : Places(pos, r, ks, Len(ks))  BY DEF Kept
<1>3. CASE r = <<>>
  <2>1. Len(r) = 0 /\ \A j \in 1..Len(r) : FALSE  BY <1>3
  <2>2. \A q \in 1..Len(ks) : Has(r, ks[q].value)  BY <2>1 DEF Kept
  <2>3. \A v : ~Has(r, v)  BY <2>1 DEF Has
  <2>4. 1 \notin 1..Len(ks)  BY <2>2, <2>3
  <2>5. Len(ks) = 0  BY <1>1, <2>4
  <2>6. ks = <<>>  BY <2>5
  <2> QED  BY <1>3, <2>6
<1>4. CASE r # <<>>
  <2>1. 1 \in 1..Len(r)  BY <1>1, <1>4
  <2>2. pos[1] \in 1..Len(ks) /\ ks[pos[1]] = r[1] /\ \A q \in 1..pos[1] : Has(r, ks[q].value)
    BY <1>2, <2>1 DEF Places
  <2>3. 1 \in 1..pos[1] /\ 1 \in 1..Len(ks)  BY <1>1, <2>2
  <2>4. PICK y \in 1..Len(r) : r[y].value = ks[1].value  BY <2>2, <2>3 DEF Has
  <2>5. pos[y] \in 1..Len(ks) /\ \A q \in 1..(pos[y] - 1) : ks[q].value # r[y].value
    BY <1>2 DEF Places
  <2>6. pos[y] = 1
    <3>1. 1 \notin 1..(pos[y] - 1)  BY <2>4, <2>5
    <3> QED  BY <1>1, <2>5, <3>1
  <2>7. pos[1] = 1
    <3>1. CASE y = 1  BY <2>6, <3>1
    <3>2. CASE 1 < y
      <4>1. pos[1] < pos[y]  BY <1>2, <2>1, <3>2 DEF Places
      <4> QED  BY <1>1, <2>2, <2>6, <4>1
    <3> QED  BY <1>1, <3>1, <3>2
  <2>8. ks # <<>>  BY <2>3
  <2> QED  BY <1>4, <2>2, <2>7, <2>8
<1> QED  BY <1>3, <1>4

\* What the fields of a device are.
IsDevice(d) ==
  d # NoDevice => /\ d.lmt \in BOOLEAN /\ d.tv \in BOOLEAN
                  /\ NotBlank(d.ifa) => d.ifa \in DOMAIN Upper

\* The identifier that the MAID key of a device has.
MAIDs(d) == IF d = NoDevice THEN {} ELSE PCID(d)

\* appendMAIDKey makes a key of the identifier that appendDeviceID sends.
LEMMA MAIDFacts ==
  ASSUME NEW d, IsDevice(d)
  PROVE  /\ ToSet(MAIDKey(d)) = {Key("maid", id, "firstParty") : id \in MAIDs(d)}
         /\ \A id \in MAIDs(d) : MAIDs(d) = {id}
<1>1. \A k : ToSet(<<k>>) = {k}  BY DEF ToSet
<1>2. ToSet(<<>>) = {}  BY DEF ToSet
<1>3. CASE d = NoDevice
  <2>1. MAIDKey(d) = <<>> /\ MAIDs(d) = {}  BY <1>3, Zenon DEF MAIDKey, MAIDs
  <2> QED  BY <1>2, <2>1
<1>4. CASE d # NoDevice /\ (~NotBlank(d.ifa) \/ d.lmt)
  <2>1. MAIDKey(d) = <<>> /\ MAIDs(d) = {}  BY <1>4, Zenon DEF MAIDKey, MAIDs, PCID
  <2> QED  BY <1>2, <2>1
<1>5. CASE d # NoDevice /\ NotBlank(d.ifa) /\ ~d.lmt
  <2> DEFINE id == IF d.tv THEN Upper[d.ifa] ELSE d.ifa
             k == Key("maid", id, "firstParty")
  <2>1. MAIDKey(d) = <<k>>  BY <1>5, Zenon DEF MAIDKey
  <2>2. MAIDs(d) = Value(id)  BY <1>5, Zenon DEF MAIDs, PCID
  <2>3. NotBlank(id)
    <3>1. d.ifa \in DOMAIN Upper  BY <1>5, Zenon DEF IsDevice
    <3>2. NotBlank(Upper[d.ifa])  BY <3>1, TextAssumption
    <3>3. id = Upper[d.ifa] \/ id = d.ifa  BY Zenon
    <3> QED  BY <1>5, <3>2, <3>3
  <2>4. MAIDs(d) = {id}  BY <2>2, <2>3 DEF Value
  <2> HIDE DEF id
  <2> QED  BY <1>1, <2>1, <2>4
<1> QED  BY <1>3, <1>4, <1>5

\* A candidate in the namespace of MAIDs is the MAID key.
LEMMA MAIDCandidates ==
  ASSUME DomainSources, NEW a, a.user \in Users, NEW k \in ToSet(Candidates(a)),
         k.value[1] = "maid"
  PROVE  k \in ToSet(MAIDKey(a.device))
<1>1. a.user.eids \in Seq(EIDs)  BY DEF Users
<1>2. k \notin ToSet(ThirdPartyKeys(a))
  <2>1. \A x \in ToSet(ThirdPartyKeys(a)) : \E id : x = Key("iiq", id, "thirdParty")
    BY <1>1, MatchingShape DEF ThirdPartyKeys
  <2> QED  BY <2>1 DEF Key
<1>3. k \notin ToSet(SharedKeys(a))
  <2>1. \A x \in ToSet(SharedKeys(a)) : \E id : x = Key("pubcid", id, "firstParty")
    BY <1>1, MatchingShape DEF SharedKeys
  <2> QED  BY <2>1 DEF Key
<1>4. k \notin ToSet(OtherEIDKeys(a.user.eids))
  <2>1. ToSet(OtherEIDKeys(a.user.eids)) \subseteq OtherKeySet  BY <1>1, OtherFacts, ToSetIs
  <2>2. ASSUME NEW source \in DOMAIN Lower, NEW id \in Texts,
               k = Key(Lower[source], id, "firstParty")
        PROVE  FALSE
    <3>1. Lower[source] # "maid"  BY DEF DomainSources
    <3>2. k.value[1] = Lower[source]  BY <2>2 DEF Key
    <3> QED  BY <3>1, <3>2
  <2> QED  BY <2>1, <2>2 DEF OtherKeySet
<1>5. k \notin ToSet(DeviceKey(a.device))
  <2>1. \A x \in ToSet(DeviceKey(a.device)) : \E id : x = Key("dev", id, "device")
    BY DeviceKeysFacts
  <2>2. \A id : k # Key("dev", id, "device")  BY DEF Key
  <2> QED  BY <2>1, <2>2
<1> QED  BY <1>2, <1>3, <1>4, <1>5, CandidatesFacts

\* What AskedIsCached says of keys r and of parameters that were asked with.
Cached(r, params, max) ==
  LET iiquid == Under(params, "iiquid")
      pcid == Under(params, "pcid")
      maids == {k \in ToSet(r) : k.value[1] = "maid"}
  IN  /\ iiquid # {} <=> r # <<>> /\ r[1].type = "thirdParty"
      /\ iiquid # {} => iiquid = {r[1].value[2]}
      /\ \A k \in maids : pcid = {k.value[2]}
      /\ max <= 0 /\ pcid # {} => maids # {}

\* It holds of what extractCacheKeys and buildS2SRequest make of an auction.
LEMMA ExtractedCached ==
  ASSUME DomainSources, NEW a, a.user \in Users, IsDevice(a.device), NEW max \in Int
  PROVE  Cached(ExtractCacheKeys(a, max), BuildS2SRequest(a), max)
<1> DEFINE K == KeySet(a)
           d == a.device
           ks == Candidates(a)
           r == ExtractCacheKeys(a, max)
           s1 == ThirdPartyKeys(a)
           uid == ResolveIIQUID(a.user.eids)
           q == BuildS2SRequest(a)
           iiquid == Under(q, "iiquid")
           pcid == Under(q, "pcid")
           maids == {k \in ToSet(r) : k.value[1] = "maid"}
<1>1. ks \in Seq(K) /\ s1 \in Seq(K) /\ Leads(s1, ks)
  BY CandidatesFacts, PartsAreLists, ThirdPartyLeads
<1>2. r \in Seq(K) /\ Kept(r, ks, Len(ks), max)
  <2>1. r = Dedup(ks, max)  BY DEF ExtractCacheKeys
  <2> HIDE DEF ks, r, K
  <2> QED  BY <1>1, <2>1, DedupKept
<1>3. IF s1 = <<>> THEN Value(uid) = {}
      ELSE Value(uid) = {uid} /\ s1[1] = Key("iiq", uid, "thirdParty")
  BY IIQUIDFacts
<1>4. iiquid = Value(uid) /\ pcid = Under(DeviceParams(d), "pcid")
  <2>1. d # NoDevice => d.lmt \in BOOLEAN /\ d.tv \in BOOLEAN  BY DEF IsDevice
  <2> QED  BY <2>1, RequestFacts DEF DeviceNames
<1>5. pcid = MAIDs(d)
  <2>1. d # NoDevice => d.lmt \in BOOLEAN /\ d.tv \in BOOLEAN  BY DEF IsDevice
  <2> HIDE DEF d
  <2> QED  BY <1>4, <2>1, DeviceParamsFacts DEF MAIDs
<1>6. /\ \A k \in ToSet(ks) : k.value[1] = "maid" => k \in ToSet(MAIDKey(d))
      /\ ToSet(MAIDKey(d)) \subseteq ToSet(ks)
  BY MAIDCandidates, CandidatesFacts
<1>7. /\ ToSet(MAIDKey(d)) = {Key("maid", id, "firstParty") : id \in MAIDs(d)}
      /\ \A id \in MAIDs(d) : MAIDs(d) = {id}
  <2>1. IsDevice(d)  OBVIOUS
  <2> HIDE DEF d
  <2> QED  BY <2>1, MAIDFacts
<1> HIDE DEF K, d, ks, r, s1, uid, iiquid, pcid
<1>8. Len(s1) \in Nat /\ Len(ks) \in Nat /\ Len(r) \in Nat  BY <1>1, <1>2
<1>9. (r = <<>> <=> ks = <<>>) /\ (r # <<>> => r[1] = ks[1])  BY <1>1, <1>2, FirstKey
<1>10. /\ iiquid # {} <=> r # <<>> /\ r[1].type = "thirdParty"
       /\ iiquid # {} => iiquid = {r[1].value[2]}
  <2>1. CASE s1 = <<>>
    <3>1. iiquid = {}  BY <1>3, <1>4, <2>1
    <3>2. r # <<>> => r[1].type # "thirdParty"
      <4>1. Len(s1) = 0  BY <2>1
      <4>2. ks # <<>> => 1 \in (Len(s1) + 1)..Len(ks)  BY <1>1, <1>8, <4>1
      <4> QED  BY <1>1, <1>9, <4>2 DEF Leads
    <3> QED  BY <3>1, <3>2
  <2>2. CASE s1 # <<>>
    <3>1. 1 \in 1..Len(s1)  BY <1>1, <1>8, <2>2
    <3>2. ks[1] = s1[1] /\ ks # <<>>
      <4>1. Len(s1) <= Len(ks) /\ ks[1] = s1[1]  BY <1>1, <3>1 DEF Leads
      <4>2. Len(ks) # 0  BY <1>8, <3>1, <4>1
      <4> QED  BY <4>1, <4>2
    <3>3. r # <<>> /\ r[1] = Key("iiq", uid, "thirdParty")  BY <1>3, <1>9, <2>2, <3>2
    <3>4. iiquid = {uid}  BY <1>3, <1>4, <2>2
    <3>5. r[1].type = "thirdParty" /\ r[1].value[2] = uid  BY <3>3 DEF Key
    <3> QED  BY <3>3, <3>4, <3>5
  <2> QED  BY <2>1, <2>2
<1>11. ASSUME NEW k \in maids PROVE pcid = {k.value[2]}
  <2>1. k \in ToSet(r) /\ k.value[1] = "maid"  OBVIOUS
  <2>2. PICK x \in 1..Len(r) : k = r[x]  BY <1>2, <2>1, ToSetIs
  <2>3. \E p \in 1..Len(ks) : ks[p] = r[x]  BY <1>2 DEF Kept, Places
  <2>4. k \in ToSet(ks)  BY <1>1, <2>2, <2>3, ToSetIs
  <2>5. k \in ToSet(MAIDKey(d))  BY <1>6, <2>1, <2>4
  <2>6. PICK id \in MAIDs(d) : k = Key("maid", id, "firstParty")  BY <1>7, <2>5
  <2>7. k.value[2] = id  BY <2>6 DEF Key
  <2> QED  BY <1>5, <1>7, <2>6, <2>7
<1>12. ASSUME max <= 0, pcid # {} PROVE maids # {}
  <2>1. PICK id : id \in MAIDs(d)  BY <1>5, <1>12
  <2> DEFINE k == Key("maid", id, "firstParty")
  <2>2. k \in ToSet(ks) /\ k.value = <<"maid", id>>  BY <1>6, <1>7, <2>1 DEF Key
  <2> HIDE DEF k
  <2>3. PICK p \in 1..Len(ks) : ks[p] = k  BY <1>1, <2>2, ToSetIs
  <2>4. Has(r, ks[p].value)  BY <1>2, <1>12 DEF Kept
  <2>5. PICK x \in 1..Len(r) : r[x].value = <<"maid", id>>  BY <2>2, <2>3, <2>4 DEF Has
  <2>6. r[x] \in ToSet(r) /\ r[x].value[1] = "maid"  BY <1>2, <2>5, ToSetIs
  <2> QED  BY <2>6
<1>13. Cached(r, q, max)
  <2> HIDE DEF maids
  <2> QED  BY <1>10, <1>11, <1>12 DEF Cached, iiquid, pcid, maids
<1> QED  BY <1>13 DEF r

-----------------------------------------------------------------------------
\* Privacy signals.

\* What SignalsForwarded says of a job made of an auction a.
Forwarded(a, params, consent) ==
  LET r == a.regs
      ext == IF r = NoRegs THEN NoExt ELSE r.ext
      Carries(name, own, other) ==
        r # NoRegs => (own \/ (ext # NoExt /\ other) <=> Under(params, name) # {})
  IN  /\ Carries("gdpr", r.gdpr # Absent, ext.gdpr # Absent)
      /\ Carries("us_privacy", NotBlank(r.usPrivacy), NotBlank(ext.usPrivacy))
      /\ Carries("gpp", NotBlank(r.gpp), FALSE)
      /\ Carries("gpp_sid", r.gppSID # <<>>, FALSE)
      /\ NotBlank(a.user.consent) \/ NotBlank(a.user.extConsent) => NotBlank(consent)
      /\ NamedOnce(params)
      /\ a.device # NoDevice =>
           (a.device.lmt => Under(params, "pcid") \cup Under(params, "idtype") = {})

\* It holds of what buildS2SRequest and resolveConsent make of it.
LEMMA RequestForwards ==
  ASSUME NEW a, IsDevice(a.device)
  PROVE  Forwarded(a, BuildS2SRequest(a), ResolveConsent(a.user))
<1> DEFINE r == a.regs
           d == a.device
           q == BuildS2SRequest(a)
           P == PrivacyParams(r)
           D == DeviceParams(d)
<1>1. d # NoDevice => d.lmt \in BOOLEAN /\ d.tv \in BOOLEAN  BY DEF IsDevice
<1>2. /\ NamedOnce(q)
      /\ \A nm \in DeviceNames : Under(q, nm) = Under(D, nm)
      /\ \A nm \in PrivacyNames : Under(q, nm) = Under(P, nm)
  BY <1>1, RequestFacts
<1>3. /\ Under(q, "gdpr") = Under(P, "gdpr") /\ Under(q, "us_privacy") = Under(P, "us_privacy")
      /\ Under(q, "gpp") = Under(P, "gpp") /\ Under(q, "gpp_sid") = Under(P, "gpp_sid")
  BY <1>2 DEF PrivacyNames
<1>4. Under(q, "pcid") = Under(D, "pcid") /\ Under(q, "idtype") = Under(D, "idtype")
  BY <1>2 DEF DeviceNames
<1>5. r # NoRegs =>
        /\ Under(P, "gdpr") # {} <=> r.gdpr # Absent \/ (r.ext # NoExt /\ r.ext.gdpr # Absent)
        /\ Under(P, "us_privacy") # {} <=>
             NotBlank(r.usPrivacy) \/ (r.ext # NoExt /\ NotBlank(r.ext.usPrivacy))
        /\ Under(P, "gpp") # {} <=> NotBlank(r.gpp)
        /\ Under(P, "gpp_sid") # {} <=> r.gppSID # <<>>
  <2> HIDE DEF r
  <2> QED  BY PrivacyParamsFacts
<1>6. ASSUME d # NoDevice, d.lmt PROVE Under(D, "pcid") \cup Under(D, "idtype") = {}
  <2>1. Under(D, "pcid") = PCID(d) /\ Under(D, "idtype") = {}
    <3> HIDE DEF d
    <3> QED  BY <1>1, <1>6, DeviceParamsFacts
  <2>2. PCID(d) = {}  BY <1>6, Zenon DEF PCID
  <2> QED  BY <2>1, <2>2
<1>7. NotBlank(a.user.consent) \/ NotBlank(a.user.extConsent) => NotBlank(ResolveConsent(a.user))
  BY DEF ResolveConsent
<1> HIDE DEF q, P, D
<1>8. d # NoDevice => (d.lmt => Under(q, "pcid") \cup Under(q, "idtype") = {})
  BY <1>4, <1>6
<1>9. r # NoRegs =>
        /\ r.gdpr # Absent \/ (r.ext # NoExt /\ r.ext.gdpr # Absent) <=> Under(q, "gdpr") # {}
        /\ NotBlank(r.usPrivacy) \/ (r.ext # NoExt /\ NotBlank(r.ext.usPrivacy)) <=>
             Under(q, "us_privacy") # {}
        /\ NotBlank(r.gpp) <=> Under(q, "gpp") # {}
        /\ r.gppSID # <<>> <=> Under(q, "gpp_sid") # {}
  BY <1>3, <1>5
<1>10. Forwarded(a, q, ResolveConsent(a.user))
  BY <1>2, <1>7, <1>8, <1>9 DEF Forwarded
<1> QED  BY <1>10 DEF q

-----------------------------------------------------------------------------
\* The report.

\* Two lists are the same when they have the same elements at the same places.
LEMMA SameList ==
  ASSUME NEW S, NEW s \in Seq(S), NEW t \in Seq(S), Len(s) = Len(t),
         \A i \in 1..Len(s) : s[i] = t[i]
  PROVE  s = t
OBVIOUS

\* No call of put finds the key of another, so all fields stay as they are.
LEMMA ReportIsFields ==
  ASSUME NEW r, NEW F, ReportFields(r) \in Seq(F), NamedOnce(ReportFields(r))
  PROVE  BuildReportURL(r) = ReportFields(r)
<1> DEFINE fields == ReportFields(r)
           n == Len(fields)
           pref(i) == [j \in 1..i |-> fields[j]]
           FF(f) == [i \in 0..n |-> IF i = 0 THEN <<>> ELSE PutField(f[i - 1], fields[i])]
           u == CHOOSE f : f = FF(f)
           P == [i \in 0..n |-> pref(i)]
<1>1. fields \in Seq(F) /\ n \in Nat  OBVIOUS
<1>2. BuildReportURL(r) = u[n]  BY DEF BuildReportURL
<1>3. \A i, j \in 1..n : fields[i][1] = fields[j][1] => i = j  BY DEF NamedOnce, IsInjective
<1> HIDE DEF fields, n
<1>4. ASSUME NEW i \in 0..n PROVE pref(i) \in Seq(F) /\ Len(pref(i)) = i
  <2>1. i \in Nat /\ \A j \in 1..i : fields[j] \in F  BY <1>1 DEF n
  <2>2. pref(i) \in [1..i -> F]  BY <2>1
  <2> HIDE DEF pref
  <2> QED  BY <2>1, <2>2, FunctionIsList
<1>5. ASSUME NEW i \in 1..n PROVE pref(i) = PutField(pref(i - 1), fields[i])
  <2> DEFINE p == pref(i - 1)
             s == pref(i)
  <2>1. i - 1 \in 0..n /\ i \in 0..n /\ i \in Nat /\ fields[i] \in F  BY <1>1 DEF n
  <2>2. p \in Seq(F) /\ Len(p) = i - 1 /\ s \in Seq(F) /\ Len(s) = i
    <3> HIDE DEF pref
    <3> QED  BY <1>4, <2>1
  <2>3. (\A j \in 1..(i - 1) : p[j] = fields[j]) /\ (\A j \in 1..i : s[j] = fields[j])
    OBVIOUS
  <2> HIDE DEF p, s
  <2>4. ~\E j \in 1..Len(p) : p[j][1] = fields[i][1]
    <3>1. ASSUME NEW j \in 1..(i - 1), p[j][1] = fields[i][1] PROVE FALSE
      <4>1. j \in 1..n /\ j # i  BY <1>1
      <4> QED  BY <1>3, <2>3, <3>1, <4>1
    <3> QED  BY <2>2, <3>1
  <2>5. PutField(p, fields[i]) = Append(p, fields[i])  BY <2>4 DEF PutField
  <2> DEFINE t == Append(p, fields[i])
  <2>6. t \in Seq(F) /\ Len(t) = i /\ t[i] = fields[i] /\ \A j \in 1..(i - 1) : t[j] = p[j]
    BY <2>1, <2>2
  <2> HIDE DEF t
  <2>7. \A j \in 1..i : j \in 1..(i - 1) \/ j = i  BY <2>1
  <2>8. \A j \in 1..i : s[j] = t[j]  BY <2>3, <2>6, <2>7
  <2>9. s = t  BY <2>2, <2>6, <2>8, SameList
  <2> QED  BY <2>5, <2>9 DEF s, p, t
<1>6. pref(0) = <<>>
  <2>1. 0 \in 0..n  BY <1>1
  <2>2. Len(pref(0)) = 0 /\ pref(0) \in Seq(F)
    <3> HIDE DEF pref
    <3> QED  BY <1>4, <2>1
  <2> HIDE DEF pref
  <2> QED  BY <2>2
<1> HIDE DEF pref
<1>7. P = FF(P)
  <2>1. ASSUME NEW i \in 0..n
        PROVE  P[i] = IF i = 0 THEN <<>> ELSE PutField(P[i - 1], fields[i])
    <3>1. CASE i = 0  BY <1>6, <3>1
    <3>2. CASE i \in 1..n
      <4>1. i # 0 /\ P[i] = pref(i) /\ P[i - 1] = pref(i - 1)  BY <1>1, <3>2
      <4> QED  BY <1>5, <3>2, <4>1
    <3> QED  BY <1>1, <3>1, <3>2
  <2>2. P = [i \in 0..n |-> P[i]]  OBVIOUS
  <2> HIDE DEF P
  <2> QED  BY <2>1, <2>2
<1> HIDE DEF P
<1>8. u = FF(u)  BY <1>7
<1> HIDE DEF u
<1> DEFINE T == {i \in 0..n : u[i] = pref(i)}
<1>9. 0..n \subseteq T
  <2>1. 0 \in T  BY <1>1, <1>6, <1>8
  <2>2. ASSUME NEW i \in 0..n, i > 0, i - 1 \in T PROVE i \in T
    <3>1. i \in 1..n /\ u[i - 1] = pref(i - 1)  BY <1>1, <2>2
    <3>2. u[i] = PutField(u[i - 1], fields[i])  BY <1>8, <2>2
    <3> QED  BY <1>5, <3>1, <3>2
  <2> HIDE DEF T
  <2>3. 0 \in Nat /\ 0 <= n  BY <1>1
  <2> QED  BY <1>1, <2>1, <2>2, <2>3, InductionUpTo
<1>10. u[n] = pref(n) /\ n \in 0..n  BY <1>1, <1>9
<1>11. pref(n) = fields
  <2>1. pref(n) \in Seq(F) /\ Len(pref(n)) = n  BY <1>4, <1>10
  <2>2. \A j \in 1..n : pref(n)[j] = fields[j]  BY DEF pref
  <2> QED  BY <1>1, <2>1, <2>2, SameList DEF n
<1> QED  BY <1>2, <1>10, <1>11 DEF fields

\* The places of a concatenation.
LEMMA ConcatPlaces ==
  ASSUME NEW S, NEW s \in Seq(S), NEW t \in Seq(S)
  PROVE  /\ s \o t \in Seq(S) /\ Len(s \o t) = Len(s) + Len(t)
         /\ \A i \in 1..Len(s) : (s \o t)[i] = s[i]
         /\ \A j \in 1..Len(t) : (s \o t)[Len(s) + j] = t[j]
OBVIOUS

\* A list of two is two lists of one.
LEMMA ListOfTwo ==
  ASSUME NEW x, NEW y
  PROVE  <<x>> \o <<y>> = <<x, y>>
<1> DEFINE S == {x, y}
           p == <<x>>
           q == <<y>>
           s == p \o q
           t == <<x, y>>
<1>1. p \in Seq(S) /\ q \in Seq(S) /\ Len(p) = 1 /\ Len(q) = 1 /\ p[1] = x /\ q[1] = y  OBVIOUS
<1>2. t \in Seq(S) /\ Len(t) = 2 /\ t[1] = x /\ t[2] = y  OBVIOUS
<1> HIDE DEF p, q, t, S
<1>3. s \in Seq(S) /\ Len(s) = 2 /\ s[1] = p[1] /\ s[2] = q[1]
  <2>1. /\ s \in Seq(S) /\ Len(s) = Len(p) + Len(q)
        /\ \A i \in 1..Len(p) : s[i] = p[i]
        /\ \A j \in 1..Len(q) : s[Len(p) + j] = q[j]
    BY <1>1, ConcatPlaces
  <2> HIDE DEF s
  <2>2. Len(p) + Len(q) = 2 /\ 1 \in 1..Len(p) /\ 1 \in 1..Len(q) /\ Len(p) + 1 = 2  BY <1>1
  <2> QED  BY <2>1, <2>2
<1> HIDE DEF s
<1>4. \A i \in 1..2 : i = 1 \/ i = 2  OBVIOUS
<1>5. s = t  BY <1>1, <1>2, <1>3, <1>4, SameList
<1> QED  BY <1>5 DEF s, t, p, q

\* appendOriginalBid adds at most its two fields.
LEMMA OriginalBidFacts ==
  ASSUME NEW ext
  PROVE  Named(OriginalBid(ext), {"originalCpm", "originalCurrency"})
<1> DEFINE N == {"originalCpm"}
           M == {"originalCurrency"}
           NM == {"originalCpm", "originalCurrency"}
           none == <<>>
           s == NumberParam("originalCpm", ext.cpm)
           t == Param("originalCurrency", ext.cur)
<1>1. OriginalBid(ext) = none \/ OriginalBid(ext) = s \o t  BY DEF OriginalBid
<1>2. Named(none, NM)  BY NamedNone
<1>3. Named(s, N) /\ Named(t, M)  BY NumberParamFacts, ParamFacts
<1>4. N \cap M = {} /\ N \cup M = NM  OBVIOUS
<1> HIDE DEF N, M, NM, none, s, t
<1>5. Named(s \o t, NM)  BY <1>3, <1>4, NamedOn
<1>6. Named(OriginalBid(ext), NM)  BY <1>1, <1>2, <1>5
<1> QED  BY <1>6 DEF NM

\* A report has each field once, and page, address and user agent when they are
\* not blank.
LEMMA ReportFacts ==
  ASSUME NEW r
  PROVE  /\ NamedOnce(BuildReportURL(r))
         /\ Under(BuildReportURL(r), "vrref") = Value(r.context.reference)
         /\ Under(BuildReportURL(r), "ip") = Value(r.context.ip)
         /\ Under(BuildReportURL(r), "ua") = Value(r.context.ua)
<1> DEFINE cur == IF r.currency = Empty THEN "USD" ELSE r.currency
           a1 == <<<<"cpm", r.bid.price>>>>
           b1 == <<<<"currency", cur>>>>
           L1 == {"cpm"}
           M1 == {"currency"}
           N1 == {"cpm", "currency"}
           t1 == a1 \o b1
           s2 == OriginalBid(r.bid.ext)
           t2 == t1 \o s2
           A2 == {"originalCpm", "originalCurrency"}
           N2 == N1 \cup A2
           s3 == Param("vrref", r.context.reference)
           t3 == t2 \o s3
           A3 == {"vrref"}
           N3 == N2 \cup A3
           s4 == Param("prebidAuctionId", r.context.id)
           t4 == t3 \o s4
           A4 == {"prebidAuctionId"}
           N4 == N3 \cup A4
           s5 == Param("partnerAuctionId", r.context.id)
           t5 == t4 \o s5
           A5 == {"partnerAuctionId"}
           N5 == N4 \cup A5
           s6 == Param("abTestUuid", r.abTestUuid)
           t6 == t5 \o s6
           A6 == {"abTestUuid"}
           N6 == N5 \cup A6
           s7 == NumberParam("terminationCause", r.cause)
           t7 == t6 \o s7
           A7 == {"terminationCause"}
           N7 == N6 \cup A7
           s8 == Param("ip", r.context.ip)
           t8 == t7 \o s8
           A8 == {"ip"}
           N8 == N7 \cup A8
           s9 == Param("ua", r.context.ua)
           t9 == t8 \o s9
           A9 == {"ua"}
           N9 == N8 \cup A9
<1>1. ReportFields(r) = t9
  <2>1. t1 = <<<<"cpm", r.bid.price>>, <<"currency", cur>>>>
    <3> HIDE DEF cur
    <3> QED  BY ListOfTwo
  <2> HIDE DEF t1
  <2> QED  BY <2>1 DEF ReportFields
<1> HIDE DEF cur
<1>2. /\ Named(a1, L1) /\ Named(b1, M1)
      /\ \A nm : Under(a1, nm) = IF nm = "cpm" THEN {r.bid.price} ELSE {}
      /\ \A nm : Under(b1, nm) = IF nm = "currency" THEN {cur} ELSE {}
  BY NamedOne
<1>3. Named(s2, A2)  BY OriginalBidFacts
<1>4. /\ Named(s3, A3) /\ Named(s4, A4) /\ Named(s5, A5) /\ Named(s6, A6)
      /\ Named(s8, A8) /\ Named(s9, A9)
      /\ Under(s3, "vrref") = Value(r.context.reference)
      /\ Under(s8, "ip") = Value(r.context.ip) /\ Under(s9, "ua") = Value(r.context.ua)
  BY ParamFacts DEF Value
<1>5. Named(s7, A7)  BY NumberParamFacts
<1>6. /\ L1 \cap M1 = {} /\ L1 \cup M1 = N1
      /\ N1 \cap A2 = {}
      /\ N2 \cap A3 = {}
      /\ N3 \cap A4 = {}
      /\ N4 \cap A5 = {}
      /\ N5 \cap A6 = {}
      /\ N6 \cap A7 = {}
      /\ N7 \cap A8 = {}
      /\ N8 \cap A9 = {}
  OBVIOUS
<1> HIDE DEF a1, b1, s2, s3, s4, s5, s6, s7, s8, s9
<1>7. /\ Under(a1, "vrref") = {} /\ Under(b1, "vrref") = {} /\ Under(s2, "vrref") = {}
      /\ Under(s4, "vrref") = {} /\ Under(s5, "vrref") = {} /\ Under(s6, "vrref") = {}
      /\ Under(s7, "vrref") = {} /\ Under(s8, "vrref") = {} /\ Under(s9, "vrref") = {}
  BY <1>2, <1>3, <1>4, <1>5, UnderNone
<1>8. /\ Under(a1, "ip") = {} /\ Under(b1, "ip") = {} /\ Under(s2, "ip") = {}
      /\ Under(s3, "ip") = {} /\ Under(s4, "ip") = {} /\ Under(s5, "ip") = {}
      /\ Under(s6, "ip") = {} /\ Under(s7, "ip") = {} /\ Under(s9, "ip") = {}
  BY <1>2, <1>3, <1>4, <1>5, UnderNone
<1>9. /\ Under(a1, "ua") = {} /\ Under(b1, "ua") = {} /\ Under(s2, "ua") = {}
      /\ Under(s3, "ua") = {} /\ Under(s4, "ua") = {} /\ Under(s5, "ua") = {}
      /\ Under(s6, "ua") = {} /\ Under(s7, "ua") = {} /\ Under(s8, "ua") = {}
  BY <1>2, <1>3, <1>4, <1>5, UnderNone
<1> HIDE DEF L1, M1, A2, A3, A4, A5, A6, A7, A8, A9, N1, N2, N3, N4, N5, N6, N7, N8, N9
<1>10. Named(t1, N1) /\ \A nm : Under(t1, nm) = Under(a1, nm) \cup Under(b1, nm)
  <2>1. Named(a1, L1) /\ Named(b1, M1) /\ L1 \cap M1 = {} /\ L1 \cup M1 = N1  BY <1>2, <1>6
  <2> QED  BY <2>1, NamedOn
<1> HIDE DEF t1
<1>11. Named(t2, N2) /\ \A nm : Under(t2, nm) = Under(t1, nm) \cup Under(s2, nm)
  <2>1. Named(t1, N1) /\ Named(s2, A2) /\ N1 \cap A2 = {} /\ N1 \cup A2 = N2
    BY <1>3, <1>6, <1>10 DEF N2
  <2> QED  BY <2>1, NamedOn
<1> HIDE DEF t2
<1>12. Named(t3, N3) /\ \A nm : Under(t3, nm) = Under(t2, nm) \cup Under(s3, nm)
  <2>1. Named(t2, N2) /\ Named(s3, A3) /\ N2 \cap A3 = {} /\ N2 \cup A3 = N3
    BY <1>4, <1>6, <1>11 DEF N3
  <2> QED  BY <2>1, NamedOn
<1> HIDE DEF t3
<1>13. Named(t4, N4) /\ \A nm : Under(t4, nm) = Under(t3, nm) \cup Under(s4, nm)
  <2>1. Named(t3, N3) /\ Named(s4, A4) /\ N3 \cap A4 = {} /\ N3 \cup A4 = N4
    BY <1>4, <1>6, <1>12 DEF N4
  <2> QED  BY <2>1, NamedOn
<1> HIDE DEF t4
<1>14. Named(t5, N5) /\ \A nm : Under(t5, nm) = Under(t4, nm) \cup Under(s5, nm)
  <2>1. Named(t4, N4) /\ Named(s5, A5) /\ N4 \cap A5 = {} /\ N4 \cup A5 = N5
    BY <1>4, <1>6, <1>13 DEF N5
  <2> QED  BY <2>1, NamedOn
<1> HIDE DEF t5
<1>15. Named(t6, N6) /\ \A nm : Under(t6, nm) = Under(t5, nm) \cup Under(s6, nm)
  <2>1. Named(t5, N5) /\ Named(s6, A6) /\ N5 \cap A6 = {} /\ N5 \cup A6 = N6
    BY <1>4, <1>6, <1>14 DEF N6
  <2> QED  BY <2>1, NamedOn
<1> HIDE DEF t6
<1>16. Named(t7, N7) /\ \A nm : Under(t7, nm) = Under(t6, nm) \cup Under(s7, nm)
  <2>1. Named(t6, N6) /\ Named(s7, A7) /\ N6 \cap A7 = {} /\ N6 \cup A7 = N7
    BY <1>5, <1>6, <1>15 DEF N7
  <2> QED  BY <2>1, NamedOn
<1> HIDE DEF t7
<1>17. Named(t8, N8) /\ \A nm : Under(t8, nm) = Under(t7, nm) \cup Under(s8, nm)
  <2>1. Named(t7, N7) /\ Named(s8, A8) /\ N7 \cap A8 = {} /\ N7 \cup A8 = N8
    BY <1>4, <1>6, <1>16 DEF N8
  <2> QED  BY <2>1, NamedOn
<1> HIDE DEF t8
<1>18. Named(t9, N9) /\ \A nm : Under(t9, nm) = Under(t8, nm) \cup Under(s9, nm)
  <2>1. Named(t8, N8) /\ Named(s9, A9) /\ N8 \cap A9 = {} /\ N8 \cup A9 = N9
    BY <1>4, <1>6, <1>17 DEF N9
  <2> QED  BY <2>1, NamedOn
<1> HIDE DEF t9
<1>19. \A nm : Under(t5, nm) = Under(a1, nm) \cup Under(b1, nm) \cup Under(s2, nm)
                                \cup Under(s3, nm) \cup Under(s4, nm) \cup Under(s5, nm)
  BY <1>10, <1>11, <1>12, <1>13, <1>14
<1>20. \A nm : Under(t9, nm) = Under(t5, nm) \cup Under(s6, nm) \cup Under(s7, nm)
                                \cup Under(s8, nm) \cup Under(s9, nm)
  BY <1>15, <1>16, <1>17, <1>18
<1>21. Under(t9, "vrref") = Value(r.context.reference)  BY <1>4, <1>7, <1>19, <1>20
<1>22. Under(t9, "ip") = Value(r.context.ip)  BY <1>4, <1>8, <1>19, <1>20
<1>23. Under(t9, "ua") = Value(r.context.ua)  BY <1>4, <1>9, <1>19, <1>20
<1>24. BuildReportURL(r) = t9
  <2>1. t9 \in Seq(ToSet(t9)) /\ NamedOnce(t9)  BY <1>18 DEF Named
  <2> QED  BY <1>1, <2>1, ReportIsFields
<1>25. NamedOnce(t9)  BY <1>18 DEF Named
<1> QED  BY <1>21, <1>22, <1>23, <1>24, <1>25

\* What ReportMatchesRequest says of parameters and of a report of a host.
Agrees(params, rdata, h) ==
  LET Asked(name) == Under(params, name)
      ip == Under(rdata, "ip")
  IN  /\ NamedOnce(rdata)
      /\ Under(rdata, "vrref") \in {{}, Asked("ref")}
      /\ Under(rdata, "ua") = Asked("uas")
      /\ ip # {} => ip = (IF Asked("ip") # {} THEN Asked("ip") ELSE Asked("ipv6"))
      /\ Asked("ip") # {} => ip # {}
      /\ h = "module" => Under(rdata, "vrref") = Asked("ref")

\* What a host takes from an auction for its report.
ContextOf(a, h) == IF h = "module" THEN NewAuctionContext(a) ELSE BasicContext(a)

\* The report and the request made of one auction agree.
LEMMA ReportAgrees ==
  ASSUME NEW a, IsDevice(a.device), NEW h, NEW r, r.context = ContextOf(a, h)
  PROVE  Agrees(BuildS2SRequest(a), BuildReportURL(r), h)
<1> DEFINE d == a.device
           q == BuildS2SRequest(a)
           c == ContextOf(a, h)
           rep == BuildReportURL(r)
           D == DeviceParams(d)
<1>1. d # NoDevice => d.lmt \in BOOLEAN /\ d.tv \in BOOLEAN  BY DEF IsDevice
<1>2. /\ Under(q, "ref") = Value(ResolveRef(a))
      /\ \A nm \in DeviceNames : Under(q, nm) = Under(D, nm)
  BY <1>1, RequestFacts
<1>3. /\ Under(q, "ip") = Under(D, "ip") /\ Under(q, "ipv6") = Under(D, "ipv6")
      /\ Under(q, "uas") = Under(D, "uas")
  BY <1>2 DEF DeviceNames
<1>4. /\ d = NoDevice => /\ Under(D, "ip") = {} /\ Under(D, "ipv6") = {} /\ Under(D, "uas") = {}
      /\ d # NoDevice => /\ Under(D, "ip") = Value(d.ip) /\ Under(D, "ipv6") = Value(d.ipv6)
                         /\ Under(D, "uas") = Value(d.ua)
  <2> HIDE DEF d
  <2> QED  BY <1>1, DeviceParamsFacts
<1>5. /\ NamedOnce(rep) /\ Under(rep, "vrref") = Value(c.reference)
      /\ Under(rep, "ip") = Value(c.ip) /\ Under(rep, "ua") = Value(c.ua)
  BY ReportFacts
<1>6. /\ c.ip = IF d = NoDevice THEN Empty ELSE AddressOf(d)
      /\ c.ua = IF d = NoDevice THEN Empty ELSE d.ua
  BY DEF ContextOf, NewAuctionContext, BasicContext, Context
<1>7. h = "module" => c.reference = ResolveRef(a)
  BY DEF ContextOf, NewAuctionContext, Context, ResolveRef, FirstNotBlank
<1>8. h # "module" => c.reference = AuctionReference(a)
  BY DEF ContextOf, BasicContext, Context
<1>9. Value(AuctionReference(a)) \in {{}, Value(ResolveRef(a))}
  BY DEF AuctionReference, ResolveRef, Value, NotBlank
<1>10. Value(Empty) = {}  BY DEF Value, NotBlank
<1> HIDE DEF d, q, c, rep, D
<1>11. Under(rep, "vrref") \in {{}, Under(q, "ref")}
  <2>1. CASE h = "module"  BY <1>2, <1>5, <1>7, <2>1
  <2>2. CASE h # "module"  BY <1>2, <1>5, <1>8, <1>9, <2>2
  <2> QED  BY <2>1, <2>2
<1>12. h = "module" => Under(rep, "vrref") = Under(q, "ref")  BY <1>2, <1>5, <1>7
<1>13. Under(rep, "ua") = Under(q, "uas")  BY <1>3, <1>4, <1>5, <1>6, <1>10
<1>14. CASE d = NoDevice
  <2>1. Under(rep, "ip") = {} /\ Under(q, "ip") = {}  BY <1>3, <1>4, <1>5, <1>6, <1>10, <1>14
  <2> QED  BY <1>5, <1>11, <1>12, <1>13, <2>1 DEF Agrees, q, rep
<1>15. CASE d # NoDevice
  <2>1. /\ Under(rep, "ip") = Value(AddressOf(d)) /\ Under(q, "ip") = Value(d.ip)
        /\ Under(q, "ipv6") = Value(d.ipv6)
    BY <1>3, <1>4, <1>5, <1>6, <1>15
  <2>2. /\ Value(AddressOf(d)) # {} =>
             Value(AddressOf(d)) = (IF Value(d.ip) # {} THEN Value(d.ip) ELSE Value(d.ipv6))
        /\ Value(d.ip) # {} => Value(AddressOf(d)) # {}
    BY DEF AddressOf, Value, NotBlank
  <2> QED  BY <1>5, <1>11, <1>12, <1>13, <2>1, <2>2 DEF Agrees, q, rep
<1> QED  BY <1>14, <1>15

-----------------------------------------------------------------------------
\* The auction on its way.

Devices == UNION {c.devices : c \in Cases}

\* Auctions of all cases.
Auctions ==
  [id : {ID}, user : Users, device : Devices, site : UNION {c.sites : c \in Cases},
   app : UNION {c.apps : c \in Cases}, regs : UNION {c.regs : c \in Cases}]

\* Keys, job, request and report are all made of one auction a: the one that
\* Enrich saw, which is no longer the variable's value once the host changes it.
MadeOf(a) ==
  /\ keys = ExtractCacheKeys(a, maxKeys)
  /\ job = [params |-> BuildS2SRequest(a), consent |-> ResolveConsent(a.user)]
  /\ sent => asked = job
  /\ stage = "enriched" => auction = a
  /\ stage # "reported" => ReportContext = ContextOf(a, host)
  /\ stage = "reported" => \E r : r.context = ContextOf(a, host) /\ report = BuildReportURL(r)

\* The inductive invariant.
AuctionInv ==
  /\ maxKeys \in Int
  /\ stage \in {"new", "received", "enriched"} => auction \in Auctions
  /\ stage \in {"new", "received"} => ~sent
  /\ stage = "received" => ReportContext = ContextOf(auction, host)
  /\ stage \notin {"new", "received"} => \E a \in Auctions : MadeOf(a)

\* A device of an auction has the fields that devices have.
LEMMA AuctionDevice ==
  ASSUME NEW a \in Auctions
  PROVE  IsDevice(a.device) /\ a.user \in Users
<1>1. a.device \in Devices /\ a.user \in Users  BY DEF Auctions
<1>2. PICK c \in Cases : a.device \in c.devices  BY <1>1 DEF Devices
<1>3. \A d \in c.devices \ {NoDevice} :
        /\ d.lmt \in BOOLEAN /\ d.tv \in BOOLEAN
        /\ NotBlank(d.ifa) => d.ifa \in DOMAIN Upper
  BY DataAssumption, Zenon
<1>4. IsDevice(a.device)  BY <1>2, <1>3, Zenon DEF IsDevice
<1> QED  BY <1>1, <1>4

\* Init.
LEMMA InitInv == Init => AuctionInv
<1> SUFFICES ASSUME Init PROVE AuctionInv
  OBVIOUS
<1>1. PICK c \in Cases :
        /\ auction \in [id : {ID}, user : c.users, device : c.devices,
                        site : c.sites, app : c.apps, regs : c.regs]
        /\ host \in c.hosts /\ maxKeys \in c.limits
  BY DEF Init
<1>2. stage = "new" /\ sent = FALSE  BY DEF Init
<1>3. c.users \subseteq Users /\ c.limits \subseteq Int  BY DataAssumption
<1>4. /\ c.devices \subseteq Devices /\ c.sites \subseteq UNION {x.sites : x \in Cases}
      /\ c.apps \subseteq UNION {x.apps : x \in Cases} /\ c.regs \subseteq UNION {x.regs : x \in Cases}
  BY DEF Devices
<1>5. auction \in Auctions  BY <1>1, <1>3, <1>4 DEF Auctions
<1> QED  BY <1>1, <1>2, <1>3, <1>5 DEF AuctionInv

\* Every step keeps it.
LEMMA StepInv == AuctionInv /\ [Next]_vars => AuctionInv'
<1> SUFFICES ASSUME AuctionInv, [Next]_vars PROVE AuctionInv'
  OBVIOUS
<1>1. maxKeys \in Int  BY DEF AuctionInv
<1>2. CASE Receive
  <2>1. /\ stage = "new" /\ stage' = "received" /\ host' = host /\ maxKeys' = maxKeys /\ sent' = sent
        /\ auction' = IF host = "benchmark"
                      THEN [auction EXCEPT !.user = LiftExtEIDs(auction.user)] ELSE auction
        /\ context' = IF host = "module" THEN NewAuctionContext(auction) ELSE NoContext
    BY <1>2 DEF Receive
  <2>2. auction \in Auctions /\ ~sent  BY <2>1 DEF AuctionInv
  <2>3. LiftExtEIDs(auction.user) \in Users
    <3>1. auction.user \in Users  BY <2>2 DEF Auctions
    <3> HIDE DEF Users
    <3>2. [auction.user EXCEPT !.eids = auction.user.extEids] \in Users  BY <3>1 DEF Users
    <3> QED  BY <3>1, <3>2 DEF LiftExtEIDs
  <2>4. auction' \in Auctions
    <3>1. [auction EXCEPT !.user = LiftExtEIDs(auction.user)] \in Auctions
      BY <2>2, <2>3 DEF Auctions
    <3> QED  BY <2>1, <2>2, <3>1
  <2>5. (ReportContext = ContextOf(auction, host))'
    <3>1. CASE host = "module"
      <4>1. auction' = auction /\ context' = NewAuctionContext(auction)  BY <2>1, <3>1
      <4> QED  BY <2>1, <3>1, <4>1 DEF ReportContext, ContextOf
    <3>2. CASE host # "module"  BY <2>1, <3>2 DEF ReportContext, ContextOf
    <3> QED  BY <3>1, <3>2
  <2> QED  BY <1>1, <2>1, <2>2, <2>4, <2>5 DEF AuctionInv
<1>3. CASE Enrich
  <2>1. /\ stage = "received" /\ stage' = "enriched" /\ maxKeys' = maxKeys /\ host' = host
        /\ auction' = auction /\ sent' = sent /\ context' = context
        /\ keys' = ExtractCacheKeys(auction, maxKeys)
        /\ job' = [params |-> BuildS2SRequest(auction), consent |-> ResolveConsent(auction.user)]
    BY <1>3 DEF Enrich
  <2>2. auction \in Auctions /\ ~sent /\ ReportContext = ContextOf(auction, host)  BY <2>1 DEF AuctionInv
  <2>3. ReportContext' = ContextOf(auction, host')  BY <2>1, <2>2 DEF ReportContext
  <2>4. MadeOf(auction)'
    BY <2>1, <2>2, <2>3 DEF MadeOf
  <2> QED  BY <1>1, <2>1, <2>2, <2>4 DEF AuctionInv
<1>4. CASE Send
  <2>1. /\ stage \notin {"new", "received"} /\ stage' = stage /\ maxKeys' = maxKeys /\ host' = host
        /\ auction' = auction /\ context' = context /\ report' = report
        /\ keys' = keys /\ job' = job /\ asked' = job
    BY <1>4 DEF Send
  <2>2. PICK a \in Auctions : MadeOf(a)  BY <2>1 DEF AuctionInv
  <2>3. ReportContext' = ReportContext  BY <2>1 DEF ReportContext
  <2>4. MadeOf(a)'  BY <2>1, <2>2, <2>3 DEF MadeOf
  <2> QED  BY <1>1, <2>1, <2>4 DEF AuctionInv
<1>5. CASE AppendEIDs
  <2>1. /\ stage = "enriched" /\ stage' = "changed" /\ maxKeys' = maxKeys /\ host' = host
        /\ context' = context /\ keys' = keys /\ job' = job /\ asked' = asked /\ sent' = sent
    BY <1>5 DEF AppendEIDs
  <2>2. PICK eids \in Resolved : auction' = [auction EXCEPT !.user.eids = @ \o eids]
    BY <1>5 DEF AppendEIDs
  <2>3. PICK a \in Auctions : MadeOf(a)  BY <2>1 DEF AuctionInv
  <2>4. auction \in Auctions  BY <2>1 DEF AuctionInv
  <2>5. /\ auction'.id = auction.id /\ auction'.device = auction.device
        /\ auction'.site = auction.site /\ auction'.app = auction.app
    BY <2>2, <2>4 DEF Auctions
  <2>6. BasicContext(auction') = BasicContext(auction)
    BY <2>5 DEF BasicContext, AuctionReference
  <2>7. ReportContext' = ReportContext  BY <2>1, <2>6 DEF ReportContext
  <2>8. MadeOf(a)'  BY <2>1, <2>3, <2>7 DEF MadeOf
  <2> QED  BY <1>1, <2>1, <2>8 DEF AuctionInv
<1>6. CASE HostStrips
  <2>1. /\ host = "module" /\ stage = "enriched" /\ stage' = "changed" /\ maxKeys' = maxKeys
        /\ host' = host /\ context' = context /\ keys' = keys /\ job' = job /\ asked' = asked
        /\ sent' = sent
    BY <1>6 DEF HostStrips
  <2>2. PICK a \in Auctions : MadeOf(a)  BY <2>1 DEF AuctionInv
  <2>3. ReportContext' = ReportContext  BY <2>1 DEF ReportContext
  <2>4. MadeOf(a)'  BY <2>1, <2>2, <2>3 DEF MadeOf
  <2> QED  BY <1>1, <2>1, <2>4 DEF AuctionInv
<1>7. CASE Report
  <2>1. /\ stage \in {"enriched", "changed"} /\ stage' = "reported" /\ maxKeys' = maxKeys
        /\ host' = host /\ keys' = keys /\ job' = job /\ asked' = asked /\ sent' = sent
    BY <1>7 DEF Report
  <2>2. PICK b \in Bids :
          report' = BuildReportURL([bid |-> b, currency |-> b.currency, context |-> ReportContext,
                                    abTestUuid |-> b.abTestUuid, cause |-> b.cause])
    BY <1>7 DEF Report
  <2>3. PICK a \in Auctions : MadeOf(a)  BY <2>1 DEF AuctionInv
  <2> DEFINE r == [bid |-> b, currency |-> b.currency, context |-> ReportContext,
                   abTestUuid |-> b.abTestUuid, cause |-> b.cause]
  <2>4. r.context = ContextOf(a, host)  BY <2>1, <2>3 DEF MadeOf
  <2> HIDE DEF r
  <2>5. \E x : x.context = ContextOf(a, host) /\ report' = BuildReportURL(x)
    BY <2>2, <2>4 DEF r
  <2>6. MadeOf(a)'  BY <2>1, <2>3, <2>5 DEF MadeOf
  <2> QED  BY <1>1, <2>1, <2>6 DEF AuctionInv
<1>8. CASE UNCHANGED vars
  <2>1. /\ stage' = stage /\ maxKeys' = maxKeys /\ host' = host /\ auction' = auction
        /\ context' = context /\ report' = report /\ keys' = keys /\ job' = job /\ asked' = asked
        /\ sent' = sent
    BY <1>8 DEF vars
  <2>2. ReportContext' = ReportContext  BY <2>1 DEF ReportContext
  <2>3. ASSUME NEW a \in Auctions, MadeOf(a) PROVE MadeOf(a)'  BY <2>1, <2>2, <2>3 DEF MadeOf
  <2>4. stage \notin {"new", "received"} => \E a \in Auctions : MadeOf(a)'  BY <2>3 DEF AuctionInv
  <2> QED  BY <1>1, <2>1, <2>2, <2>4 DEF AuctionInv
<1> QED  BY <1>2, <1>3, <1>4, <1>5, <1>6, <1>7, <1>8 DEF Next

\* The invariant holds in all states.
THEOREM AuctionInvariant == Spec => []AuctionInv
BY InitInv, StepInv, PTL DEF Spec

-----------------------------------------------------------------------------
\* The keys of an enriched auction stand for its identities: each value once and
\* under its best type, none invented or lost, as many as the limit allows
\* (extractCacheKeys, deduplicateAndCapKeys).
THEOREM KeysAreComplete == Spec => []KeysComplete
<1>1. ASSUME AuctionInv, stage = "enriched" PROVE KeysComplete
  <2>1. PICK a \in Auctions : MadeOf(a)  BY <1>1 DEF AuctionInv
  <2>2. auction = a /\ keys = ExtractCacheKeys(auction, maxKeys)  BY <1>1, <2>1 DEF MadeOf
  <2>3. auction.user \in Users /\ maxKeys \in Int  BY <1>1, <2>2, AuctionDevice DEF AuctionInv
  <2>4. Complete(auction, keys, maxKeys)  BY <2>2, <2>3, ExtractedComplete
  <2> QED  BY <2>4 DEF Complete, KeysComplete
<1>2. AuctionInv => KeysComplete
  <2>1. stage # "enriched" => KeysComplete  BY DEF KeysComplete
  <2> QED  BY <1>1, <2>1
<1> QED  BY <1>2, AuctionInvariant, PTL

\* The keys are first occurrences in the order of priority, with no candidate
\* value left out before the last, when sources are domain names
\* (deduplicateAndCapKeys).
THEOREM KeysAreInOrder ==
  ASSUME DomainSources
  PROVE  Spec => []KeysInOrder
<1>1. ASSUME AuctionInv, stage = "enriched" PROVE KeysInOrder
  <2>1. PICK a \in Auctions : MadeOf(a)  BY <1>1 DEF AuctionInv
  <2>2. auction = a /\ keys = ExtractCacheKeys(auction, maxKeys)  BY <1>1, <2>1 DEF MadeOf
  <2>3. auction.user \in Users /\ maxKeys \in Int  BY <1>1, <2>2, AuctionDevice DEF AuctionInv
  <2>4. InOrder(auction, keys)  BY <2>2, <2>3, ExtractedInOrder
  <2> QED  BY <2>4 DEF InOrder, KeysInOrder
<1>2. AuctionInv => KeysInOrder
  <2>1. stage # "enriched" => KeysInOrder  BY DEF KeysInOrder
  <2> QED  BY <1>1, <2>1
<1> QED  BY <1>2, AuctionInvariant, PTL

\* The iiquid and the device ID that S2S is asked about are those of the first
\* key and of the MAID key, whenever the request leaves, when sources are domain
\* names (newResolutionJob).
THEOREM AskedIdentityIsCached ==
  ASSUME DomainSources
  PROVE  Spec => []AskedIsCached
<1>1. ASSUME AuctionInv, sent PROVE AskedIsCached
  <2>1. PICK a \in Auctions : MadeOf(a)  BY <1>1 DEF AuctionInv
  <2>2. keys = ExtractCacheKeys(a, maxKeys) /\ asked = job  BY <1>1, <2>1 DEF MadeOf
  <2>3. asked.params = BuildS2SRequest(a)  BY <2>1, <2>2 DEF MadeOf
  <2>4. a.user \in Users /\ IsDevice(a.device) /\ maxKeys \in Int
    BY <1>1, <2>1, AuctionDevice DEF AuctionInv
  <2>5. Cached(keys, asked.params, maxKeys)  BY <2>2, <2>3, <2>4, ExtractedCached
  <2> QED  BY <2>5 DEF Cached, AskedIsCached
<1>2. AuctionInv => AskedIsCached
  <2>1. ~sent => AskedIsCached  BY DEF AskedIsCached
  <2> QED  BY <1>1, <2>1
<1> QED  BY <1>2, AuctionInvariant, PTL

\* The gdpr, us_privacy, gpp, gpp_sid and consent of an auction are in its request
\* exactly if the auction has them where the code looks, each once, and the
\* device ID of a device that limits ad tracking is not (buildS2SRequest).
THEOREM SignalsAreForwarded == Spec => []SignalsForwarded
<1>1. ASSUME AuctionInv, stage = "enriched" PROVE SignalsForwarded
  <2>1. PICK a \in Auctions : MadeOf(a)  BY <1>1 DEF AuctionInv
  <2>2. auction = a  BY <1>1, <2>1 DEF MadeOf
  <2>3. job.params = BuildS2SRequest(auction) /\ job.consent = ResolveConsent(auction.user)
    BY <2>1, <2>2 DEF MadeOf
  <2>4. IsDevice(auction.device)  BY <2>1, <2>2, AuctionDevice
  <2>5. Forwarded(auction, job.params, job.consent)  BY <2>3, <2>4, RequestForwards
  <2> QED  BY <2>5 DEF Forwarded, SignalsForwarded
<1>2. AuctionInv => SignalsForwarded
  <2>1. stage # "enriched" => SignalsForwarded  BY DEF SignalsForwarded
  <2> QED  BY <1>1, <2>1
<1> QED  BY <1>2, AuctionInvariant, PTL

\* A report has the page, address and user agent that S2S was asked with, or
\* none, whatever became of the auction in between (newAuctionContext and the
\* basic example's auctionReference, buildReportURL).
THEOREM ReportsMatchRequests == Spec => []ReportMatchesRequest
<1>1. ASSUME AuctionInv, stage = "reported", sent PROVE ReportMatchesRequest
  <2>1. PICK a \in Auctions : MadeOf(a)  BY <1>1 DEF AuctionInv
  <2>2. asked.params = BuildS2SRequest(a)  BY <1>1, <2>1 DEF MadeOf
  <2>3. PICK r : r.context = ContextOf(a, host) /\ report = BuildReportURL(r)
    BY <1>1, <2>1 DEF MadeOf
  <2>4. IsDevice(a.device)  BY <2>1, AuctionDevice
  <2>5. Agrees(asked.params, report, host)  BY <2>2, <2>3, <2>4, ReportAgrees
  <2> QED  BY <2>5 DEF Agrees, ReportMatchesRequest
<1>2. AuctionInv => ReportMatchesRequest
  <2>1. ~(stage = "reported" /\ sent) => ReportMatchesRequest  BY DEF ReportMatchesRequest
  <2> QED  BY <1>1, <2>1
<1> QED  BY <1>2, AuctionInvariant, PTL
=============================================================================
