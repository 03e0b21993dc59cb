---------------------------- MODULE AuthorityProofs ----------------------------
(***************************************************************************)
(* AuthorityHistory and AuthorityLedger for every set of mandates and      *)
(* keys, and every number of requests, attempts and faults: mandates end   *)
(* each other as they should, delegated authority is derived, the ledger   *)
(* is never incomplete, a challenge serves one proof, and the concurrent   *)
(* requests implement the history.                                         *)
(***************************************************************************)
EXTENDS AuthorityHistory, AuthorityLedger, FiniteSetTheorems, TLAPS

-----------------------------------------------------------------------------
(* Numbers. *)

\* How many of S come before r.
RankIn(S, at, r) == Cardinality({s \in S : at[s] < at[r]})

LEMMA RanksOf ==
    ASSUME NEW S, IsFiniteSet(S), NEW at \in [S -> Nat],
           \A r, s \in S : at[r] = at[s] => r = s
    PROVE  /\ Cardinality(S) \in Nat
           /\ \A r \in S : RankIn(S, at, r) \in 0 .. Cardinality(S) - 1
           /\ \A r, s \in S : at[s] < at[r] <=> RankIn(S, at, s) < RankIn(S, at, r)
           /\ \A i \in 1..Cardinality(S) : \E r \in S : RankIn(S, at, r) = i - 1
  <1> DEFINE lower(r) == {s \in S : at[s] < at[r]}
             rank == [r \in S |-> RankIn(S, at, r) + 1]
  <1>1. Cardinality(S) \in Nat
    BY FS_CardinalityType
  <1>2. ASSUME NEW r \in S
        PROVE  /\ IsFiniteSet(lower(r)) /\ RankIn(S, at, r) = Cardinality(lower(r))
               /\ RankIn(S, at, r) \in 0 .. Cardinality(S) - 1
    <2>1. lower(r) \in SUBSET S /\ r \notin lower(r)
      OBVIOUS
    <2>2. IsFiniteSet(lower(r)) /\ Cardinality(lower(r)) <= Cardinality(S)
          /\ Cardinality(lower(r)) # Cardinality(S)
      BY <2>1, FS_Subset
    <2>3. Cardinality(lower(r)) \in Nat
      BY <2>2, FS_CardinalityType
    <2> QED
      BY <1>1, <2>2, <2>3 DEF RankIn
  <1> HIDE DEF lower
  <1>10. \A r \in S : RankIn(S, at, r) \in 0 .. Cardinality(S) - 1
    BY <1>2
  <1>11. \A r \in S : RankIn(S, at, r) \in Int
    BY <1>1, <1>10
  <1>3. ASSUME NEW r \in S, NEW s \in S, at[s] < at[r]
        PROVE  RankIn(S, at, s) < RankIn(S, at, r)
    <2>1. lower(s) \in SUBSET lower(r) /\ s \in lower(r) /\ s \notin lower(s)
      BY <1>3 DEF lower
    <2>2. Cardinality(lower(s)) <= Cardinality(lower(r))
          /\ Cardinality(lower(s)) # Cardinality(lower(r))
      BY <1>2, <2>1, FS_Subset
    <2>3. RankIn(S, at, s) = Cardinality(lower(s)) /\ RankIn(S, at, r) = Cardinality(lower(r))
      BY <1>2
    <2> QED
      BY <1>11, <2>2, <2>3
  <1>4. \A r, s \in S : at[s] < at[r] <=> RankIn(S, at, s) < RankIn(S, at, r)
    <2> SUFFICES ASSUME NEW r \in S, NEW s \in S
                 PROVE  at[s] < at[r] <=> RankIn(S, at, s) < RankIn(S, at, r)
      OBVIOUS
    <2>1. RankIn(S, at, s) \in Int /\ RankIn(S, at, r) \in Int
      BY <1>11
    <2>2. at[s] < at[r] \/ at[r] < at[s] \/ r = s
      OBVIOUS
    <2> QED
      BY <1>3, <2>1, <2>2
  <1>5. rank \in Surjection(S, 1..Cardinality(S))
    <2>1. IsFiniteSet(1..Cardinality(S)) /\ Cardinality(1..Cardinality(S)) = Cardinality(S)
      BY <1>1, FS_Interval
    <2>2. ASSUME NEW r \in S, NEW s \in S, rank[r] = rank[s]
          PROVE  r = s
      <3>1. RankIn(S, at, s) \in Int /\ RankIn(S, at, r) \in Int
        BY <1>11
      <3>2. ~(at[r] < at[s]) /\ ~(at[s] < at[r])
        BY <1>4, <2>2, <3>1
      <3> QED
        BY <3>2
    <2>3. rank \in Injection(S, 1..Cardinality(S))
      <3>1. rank \in [S -> 1..Cardinality(S)]
        BY <1>1, <1>10
      <3> HIDE DEF rank
      <3> QED
        BY <2>2, <3>1 DEF Injection, IsInjective
    <2> HIDE DEF rank
    <2> QED
      BY <2>1, <2>3, FS_Injection
  <1>6. ASSUME NEW i \in 1..Cardinality(S) PROVE \E r \in S : RankIn(S, at, r) = i - 1
    <2>1. PICK r \in S : RankIn(S, at, r) + 1 = i
      BY <1>5 DEF Surjection
    <2> QED
      BY <1>11, <2>1
  <1> QED
    BY <1>1, <1>10, <1>4, <1>6

\* Every set of numbers has a least one: what the proofs by induction below rest on.
LEMMA LeastNat ==
    ASSUME NEW T \in SUBSET Nat, T # {}
    PROVE  \E n \in T : \A m \in T : n <= m
  <1>1. PICK t \in T : TRUE
    OBVIOUS
  <1> DEFINE S == T \cap 0..t
             at == [s \in S |-> s]
  <1>2. IsFiniteSet(S) /\ t \in S
    <2>1. IsFiniteSet(0..t)
      BY FS_Interval
    <2> QED
      BY <2>1, FS_Subset
  <1>3. at \in [S -> Nat] /\ \A r, s \in S : at[r] = at[s] => r = s
    OBVIOUS
  <1>4. Cardinality(S) \in Nat /\ Cardinality(S) # 0
    BY <1>2, FS_CardinalityType, FS_EmptySet
  <1>5. PICK n \in S : RankIn(S, at, n) = 0
    <2> HIDE DEF S, at
    <2>1. \A i \in 1..Cardinality(S) : \E r \in S : RankIn(S, at, r) = i - 1
      BY <1>2, <1>3, RanksOf
    <2>2. 1 \in 1..Cardinality(S)
      BY <1>4
    <2> QED
      BY <2>1, <2>2
  <1>6. {s \in S : at[s] < at[n]} = {}
    <2>1. IsFiniteSet({s \in S : at[s] < at[n]})
      BY <1>2, FS_Subset
    <2> QED
      BY <1>5, <2>1, FS_EmptySet DEF RankIn
  <1>7. ASSUME NEW s \in S PROVE n <= s
    <2>1. ~(at[s] < at[n])
      BY <1>6
    <2> QED
      BY <2>1
  <1> QED
    BY <1>7

\* The greatest element of a nonempty set of numbers below another.
LEMMA GreatestIs ==
    ASSUME NEW k \in Nat, NEW s \in SUBSET (1..k), s # {}
    PROVE  Max(s) \in s /\ (k \in s => Max(s) = k)
  <1>0. PICK y0 \in s : TRUE
    OBVIOUS
  <1> DEFINE T == {i \in Nat : \E y \in s : i = k - y}
  <1>1. T \in SUBSET Nat /\ \A y \in s : k - y \in T
    OBVIOUS
  <1>2. PICK i \in T : \A j \in T : i <= j
    <2> HIDE DEF T
    <2> QED
      BY <1>0, <1>1, LeastNat
  <1>3. \E x \in s : \A y \in s : x >= y
    <2>1. PICK x \in s : i = k - x
      BY <1>2
    <2>2. ASSUME NEW y \in s PROVE x >= y
      <3>1. i <= k - y
        BY <1>1, <1>2
      <3> QED
        BY <2>1, <3>1
    <2> QED
      BY <2>1, <2>2
  <1>4. Max(s) \in s /\ \A y \in s : Max(s) >= y
    BY <1>3 DEF Max
  <1>5. Max(s) \in 1..k
    BY <1>4
  <1> QED
    BY <1>4, <1>5

LEMMA UpTo ==
    ASSUME NEW k \in Nat, k # 0
    PROVE  1..k # {} /\ Max(1..k) = k /\ (1..k) \ {k} = 1 .. k - 1
  <1> DEFINE u == 1..k
  <1>1. u \in SUBSET (1..k) /\ u # {} /\ k \in u /\ u \ {k} = 1 .. k - 1
    OBVIOUS
  <1> HIDE DEF u
  <1>2. Max(u) = k
    BY <1>1, GreatestIs
  <1> QED
    BY <1>1, <1>2 DEF u

-----------------------------------------------------------------------------
(* Which mandates of a list are active. *)

\* Mandates by the time of issue.
LEMMA ContentIs ==
    /\ \A m \in Mandate : Content[m].issuedAt \in Nat /\ Content[m].scopes \subseteq Scope
    /\ \A m, n \in Mandate : Content[m].issuedAt = Content[n].issuedAt => m = n
  BY MandateAssumption DEF MandateAssumption

\* Sorted lists every mandate of the set, in the order of issue.
LEMMA SortedIs ==
    ASSUME NEW S \in SUBSET Mandate, IsFiniteSet(S)
    PROVE  /\ Cardinality(S) \in Nat
           /\ DOMAIN Sorted(S) = 1..Cardinality(S)
           /\ \A i \in 1..Cardinality(S) : Sorted(S)[i] \in S
           /\ \A i, j \in 1..Cardinality(S) :
                i < j <=> Content[Sorted(S)[i]].issuedAt < Content[Sorted(S)[j]].issuedAt
           /\ \A m \in S : \E i \in 1..Cardinality(S) : m = Sorted(S)[i]
  <1> DEFINE at == [m \in S |-> Content[m].issuedAt]
             n == Cardinality(S)
             place(m) == RankIn(S, at, m)
  <1>1. at \in [S -> Nat] /\ \A r, s \in S : at[r] = at[s] => r = s
    BY ContentIs
  <1>2. \A m \in S : at[m] = Content[m].issuedAt
    OBVIOUS
  <1>3. \A m \in S : Cardinality({k \in S : IssuedBefore(k, m)}) = place(m)
    <2> SUFFICES ASSUME NEW m \in S
                 PROVE  {k \in S : IssuedBefore(k, m)} = {k \in S : at[k] < at[m]}
      BY DEF RankIn
    <2> QED
      BY DEF IssuedBefore
  <1> HIDE DEF at
  <1>4. /\ n \in Nat
        /\ \A r \in S : place(r) \in 0 .. n - 1
        /\ \A r, s \in S : at[s] < at[r] <=> place(s) < place(r)
        /\ \A i \in 1..n : \E r \in S : place(r) = i - 1
    BY <1>1, RanksOf
  <1> HIDE DEF n, place
  <1>5. /\ DOMAIN Sorted(S) = 1..n
        /\ \A i \in 1..n :
             Sorted(S)[i] = CHOOSE m \in S : Cardinality({k \in S : IssuedBefore(k, m)}) = i - 1
    BY DEF Sorted, n
  <1>6. ASSUME NEW i \in 1..n PROVE Sorted(S)[i] \in S /\ place(Sorted(S)[i]) = i - 1
    <2>1. \E m \in S : Cardinality({k \in S : IssuedBefore(k, m)}) = i - 1
      BY <1>3, <1>4
    <2>2. /\ Sorted(S)[i] \in S
          /\ Cardinality({k \in S : IssuedBefore(k, Sorted(S)[i])}) = i - 1
      BY <1>5, <2>1
    <2> QED
      BY <1>3, <2>2
  <1>7. ASSUME NEW i \in 1..n, NEW j \in 1..n
        PROVE  i < j <=> at[Sorted(S)[i]] < at[Sorted(S)[j]]
    BY <1>4, <1>6
  <1>8. ASSUME NEW m \in S PROVE \E i \in 1..n : m = Sorted(S)[i]
    <2>1. place(m) + 1 \in 1..n /\ (place(m) + 1) - 1 = place(m)
      BY <1>4
    <2> DEFINE s == Sorted(S)[place(m) + 1]
    <2>2. s \in S /\ place(s) = place(m)
      BY <1>6, <2>1
    <2>3. place(m) \in Int /\ at[s] \in Nat /\ at[m] \in Nat
      BY <1>1, <1>4, <2>2
    <2>4. ~(at[s] < at[m]) /\ ~(at[m] < at[s])
      BY <1>4, <2>2, <2>3
    <2>5. s = m
      BY <1>1, <2>2, <2>3, <2>4
    <2> QED
      BY <2>1, <2>5
  <1> QED
    BY <1>2, <1>4, <1>5, <1>6, <1>7, <1>8 DEF n

\* What one turn of the loop of deriveActiveMandatesWithAnchors leaves valid.
EndBy(valid, m, anchors) ==
    IF m \in valid /\ OwnerClass(m, anchors) THEN {t \in valid : ~MayEnd(m, t)} ELSE valid

BaseOf(S, anchors) == {m \in S : BaseValid(m, anchors)}

\* The fold of ActiveUnder: f of the places whose turn was taken.
TurnsEq(f, S, anchors, places) ==
    f = [s \in SUBSET places |->
           IF s = {} THEN BaseOf(S, anchors)
           ELSE EndBy(f[s \ {Max(s)}], Sorted(S)[Max(s)], anchors)]

Turns(S, anchors) == CHOOSE f : TurnsEq(f, S, anchors, DOMAIN Sorted(S))

LEMMA ActiveIsFold ==
    ASSUME NEW S, NEW anchors
    PROVE  ActiveUnder(S, anchors) = Turns(S, anchors)[DOMAIN Sorted(S)]
  BY Zenon DEF ActiveUnder, FoldLeft, MapThenFoldSet, Turns, TurnsEq, EndBy, BaseOf

\* The fold exists.
LEMMA TurnsExist ==
    ASSUME NEW S, NEW anchors, NEW n \in Nat
    PROVE  \E f : TurnsEq(f, S, anchors, 1..n)
  <1> DEFINE T == {k \in Nat : ~ \E f : TurnsEq(f, S, anchors, 1..k)}
  <1>1. SUFFICES T = {}
    OBVIOUS
  <1>2. SUFFICES ASSUME T # {} PROVE FALSE
    OBVIOUS
  <1>3. PICK k \in T : \A i \in T : k <= i
    <2>1. T \in SUBSET Nat
      OBVIOUS
    <2> HIDE DEF T
    <2> QED
      BY <1>2, <2>1, LeastNat
  <1>4. CASE k = 0
    <2> DEFINE f == [s \in SUBSET (1..0) |-> BaseOf(S, anchors)]
    <2>1. TurnsEq(f, S, anchors, 1..0)
      <3>1. \A s \in SUBSET (1..0) : s = {}
        OBVIOUS
      <3> QED
        BY <3>1 DEF TurnsEq
    <2> QED
      BY <1>4, <2>1
  <1>5. CASE k # 0
    <2>1. k - 1 \in Nat /\ k - 1 \notin T /\ k \in Nat
      BY <1>3, <1>5
    <2>2. PICK f : TurnsEq(f, S, anchors, 1 .. k - 1)
      BY <2>1
    <2> DEFINE g == [s \in SUBSET (1..k) |->
                       IF k \in s THEN EndBy(f[s \ {k}], Sorted(S)[k], anchors) ELSE f[s]]
               next(s) == IF s = {} THEN BaseOf(S, anchors)
                          ELSE EndBy(g[s \ {Max(s)}], Sorted(S)[Max(s)], anchors)
    <2>3. ASSUME NEW s \in SUBSET (1..k) PROVE g[s] = next(s)
      <3>1. CASE k \in s
        <4>1. Max(s) = k
          BY <2>1, <3>1, GreatestIs
        <4>2. g[s \ {k}] = f[s \ {k}] /\ s \ {k} \in SUBSET (1..k)
          OBVIOUS
        <4> HIDE DEF g
        <4>3. g[s] = EndBy(f[s \ {k}], Sorted(S)[k], anchors)
          BY <3>1 DEF g
        <4> QED
          BY <3>1, <4>1, <4>2, <4>3
      <3>2. CASE s = {}
        <4>1. f[{}] = BaseOf(S, anchors)
          <5>1. {} \in SUBSET (1 .. k - 1)
            OBVIOUS
          <5> QED
            BY <2>2, <5>1 DEF TurnsEq
        <4> QED
          BY <3>2, <4>1
      <3>3. CASE k \notin s /\ s # {}
        <4>1. s \in SUBSET (1 .. k - 1)
          BY <2>1, <3>3
        <4>2. Max(s) \in s
          BY <2>1, <3>3, GreatestIs
        <4>3. f[s] = EndBy(f[s \ {Max(s)}], Sorted(S)[Max(s)], anchors)
          BY <2>2, <3>3, <4>1 DEF TurnsEq
        <4>4. g[s] = f[s] /\ g[s \ {Max(s)}] = f[s \ {Max(s)}]
          BY <3>3
        <4> HIDE DEF g
        <4> QED
          BY <3>3, <4>3, <4>4
      <3> QED
        BY <3>1, <3>2, <3>3
    <2>4. g = [s \in SUBSET (1..k) |-> g[s]]
      OBVIOUS
    <2> HIDE DEF g
    <2>5. TurnsEq(g, S, anchors, 1..k)
      BY <2>3, <2>4 DEF TurnsEq
    <2> QED
      BY <2>5
  <1> QED
    BY <1>4, <1>5

\* The turns are taken one after the other, in the order of issue.
LEMMA TurnsAre ==
    ASSUME NEW S \in SUBSET Mandate, IsFiniteSet(S), NEW anchors
    PROVE  LET f == Turns(S, anchors)
           IN  /\ f[1..0] = BaseOf(S, anchors)
               /\ \A k \in 1..Cardinality(S) :
                    f[1..k] = EndBy(f[1 .. k - 1], Sorted(S)[k], anchors)
               /\ ActiveUnder(S, anchors) = f[1..Cardinality(S)]
  <1> DEFINE n == Cardinality(S)
             f == Turns(S, anchors)
  <1>1. n \in Nat /\ DOMAIN Sorted(S) = 1..n
    BY SortedIs
  <1> HIDE DEF n
  <1>2. TurnsEq(f, S, anchors, 1..n)
    BY <1>1, TurnsExist DEF Turns
  <1>3. f[1..0] = BaseOf(S, anchors)
    <2>1. 1..0 \in SUBSET (1..n) /\ 1..0 = {}
      OBVIOUS
    <2> HIDE DEF f
    <2> QED
      BY <1>2, <2>1 DEF TurnsEq
  <1>4. ASSUME NEW k \in 1..n
        PROVE  f[1..k] = EndBy(f[1 .. k - 1], Sorted(S)[k], anchors)
    <2>1. 1..k \in SUBSET (1..n) /\ k \in Nat /\ k # 0
      BY <1>1
    <2> HIDE DEF f
    <2>3. 1..k # {} /\ Max(1..k) = k /\ (1..k) \ {k} = 1 .. k - 1
      BY <2>1, UpTo
    <2>4. f[1..k] = EndBy(f[(1..k) \ {Max(1..k)}], Sorted(S)[Max(1..k)], anchors)
      BY <1>2, <2>1, <2>3 DEF TurnsEq
    <2> QED
      BY <2>3, <2>4
  <1>5. ActiveUnder(S, anchors) = f[1..n]
    BY <1>1, ActiveIsFold
  <1> QED
    BY <1>3, <1>4, <1>5 DEF n


\* Mandates a set of others leaves alone.
Spared(E, S, anchors) == {t \in BaseOf(S, anchors) : \A e \in E : ~MayEnd(e, t)}

\* The places of those that take their turn.
Taken(S, anchors) ==
    {j \in 1..Cardinality(S) :
       Sorted(S)[j] \in Turns(S, anchors)[1 .. j - 1] /\ OwnerClass(Sorted(S)[j], anchors)}

\* After each turn, what is valid is what those that took their turn left alone.
LEMMA ValidAfter ==
    ASSUME NEW S \in SUBSET Mandate, IsFiniteSet(S), NEW anchors,
           NEW k0 \in 0..Cardinality(S)
    PROVE  Turns(S, anchors)[1..k0] =
             Spared({Sorted(S)[j] : j \in Taken(S, anchors) \cap 1..k0}, S, anchors)
  <1> DEFINE n == Cardinality(S)
             f == Turns(S, anchors)
             took == Taken(S, anchors)
             E(k) == {Sorted(S)[j] : j \in took \cap 1..k}
             T == {k \in Nat : k <= n /\ f[1..k] # Spared(E(k), S, anchors)}
  <1>1. /\ n \in Nat
        /\ f[1..0] = BaseOf(S, anchors)
        /\ \A k \in 1..n : f[1..k] = EndBy(f[1 .. k - 1], Sorted(S)[k], anchors)
        /\ \A k \in 1..n : Sorted(S)[k] \in S
    BY SortedIs, TurnsAre
  <1>2. SUFFICES ASSUME T # {} PROVE FALSE
    <2>1. k0 \in Nat /\ k0 <= n
      BY <1>1
    <2>2. k0 \notin T => f[1..k0] = Spared(E(k0), S, anchors)
      BY <2>1
    <2> HIDE DEF T
    <2> QED
      BY <2>2
  <1>3. PICK k \in T : \A i \in T : k <= i
    <2>1. T \in SUBSET Nat
      OBVIOUS
    <2> HIDE DEF T
    <2> QED
      BY <1>2, <2>1, LeastNat
  <1>4. CASE k = 0
    <2>1. E(0) = {}
      OBVIOUS
    <2> QED
      BY <1>1, <1>3, <1>4, <2>1 DEF Spared
  <1>5. CASE k # 0
    <2>1. k \in 1..n /\ k - 1 \in Nat /\ k - 1 <= n /\ k - 1 \notin T
      BY <1>1, <1>3, <1>5
    <2>2. f[1 .. k - 1] = Spared(E(k - 1), S, anchors)
      BY <2>1
    <2>3. E(k) = IF k \in took THEN E(k - 1) \cup {Sorted(S)[k]} ELSE E(k - 1)
      BY <1>1, <2>1
    <2> HIDE DEF E
    <2>4. f[1..k] = EndBy(f[1 .. k - 1], Sorted(S)[k], anchors)
      BY <1>1, <2>1
    <2>5. k \in took <=> Sorted(S)[k] \in f[1 .. k - 1] /\ OwnerClass(Sorted(S)[k], anchors)
      BY <2>1 DEF Taken
    <2>6. f[1..k] = Spared(E(k), S, anchors)
      <3>1. CASE k \in took
        BY <2>2, <2>3, <2>4, <2>5, <3>1 DEF EndBy, Spared
      <3>2. CASE k \notin took
        BY <2>2, <2>3, <2>4, <2>5, <3>2 DEF EndBy, Spared
      <3> QED
        BY <3>1, <3>2
    <2> QED
      BY <1>3, <2>6 DEF E
  <1> QED
    BY <1>4, <1>5


\* The mandates that take their turn are those of the definition, and what they leave
\* alone is active.
LEMMA ActiveIsSpared ==
    ASSUME NEW S \in SUBSET Mandate, IsFiniteSet(S), NEW anchors
    PROVE  \E E \in SUBSET S :
             TakesTurn(E, S, anchors) /\ ActiveUnder(S, anchors) = Spared(E, S, anchors)
  <1> DEFINE n == Cardinality(S)
             f == Turns(S, anchors)
             took == Taken(S, anchors)
             E == {Sorted(S)[j] : j \in took}
  <1>1. /\ n \in Nat
        /\ \A i \in 1..n : Sorted(S)[i] \in S
        /\ \A i, j \in 1..n :
             i < j <=> Content[Sorted(S)[i]].issuedAt < Content[Sorted(S)[j]].issuedAt
        /\ \A m \in S : \E i \in 1..n : m = Sorted(S)[i]
        /\ ActiveUnder(S, anchors) = f[1..n]
    BY SortedIs, TurnsAre
  <1>2. ASSUME NEW k \in 0..n
        PROVE  f[1..k] = Spared({Sorted(S)[j] : j \in took \cap 1..k}, S, anchors)
    BY ValidAfter
  <1>7. \A k \in 1..n :
          k \in took <=> Sorted(S)[k] \in f[1 .. k - 1] /\ OwnerClass(Sorted(S)[k], anchors)
    BY DEF Taken
  <1>8. took \subseteq 1..n
    BY DEF Taken
  <1> HIDE DEF f, took
  <1>3. \A i, j \in 1..n : Sorted(S)[i] = Sorted(S)[j] => i = j
    <2> SUFFICES ASSUME NEW i \in 1..n, NEW j \in 1..n, Sorted(S)[i] = Sorted(S)[j]
                 PROVE  i = j
      OBVIOUS
    <2>1. Content[Sorted(S)[i]].issuedAt \in Nat
      BY <1>1, ContentIs
    <2>2. ~(i < j) /\ ~(j < i)
      BY <1>1, <2>1
    <2> QED
      BY <1>1, <2>2
  <1>4. E \in SUBSET S
    BY <1>1, <1>8
  <1>5. ActiveUnder(S, anchors) = Spared(E, S, anchors)
    <2>1. took \cap 1..n = took
      BY <1>8
    <2>2. n \in Nat /\ ActiveUnder(S, anchors) = f[1..n]
      BY <1>1
    <2> HIDE DEF n
    <2>3. n \in 0..n
      BY <2>2
    <2> QED
      BY <1>2, <2>1, <2>2, <2>3
  <1>6. TakesTurn(E, S, anchors)
    <2> DEFINE F == {m \in S : /\ BaseValid(m, anchors)
                               /\ OwnerClass(m, anchors)
                               /\ \A e \in E : Content[e].issuedAt < Content[m].issuedAt
                                                 => ~MayEnd(e, m)}
    <2>1. ASSUME NEW k \in 1..n PROVE k \in took <=> Sorted(S)[k] \in F
      <3>1. k - 1 \in 0..n /\ k \in Nat
        BY <1>1
      <3>2. f[1 .. k - 1] = Spared({Sorted(S)[j] : j \in took \cap 1 .. k - 1}, S, anchors)
        BY <1>2, <3>1
      <3>3. \A j \in took : j \in 1 .. k - 1 <=>
              Content[Sorted(S)[j]].issuedAt < Content[Sorted(S)[k]].issuedAt
        BY <1>1, <1>8, <3>1
      <3>4. Sorted(S)[k] \in S
        BY <1>1
      <3>5. k \in took <=> Sorted(S)[k] \in f[1 .. k - 1] /\ OwnerClass(Sorted(S)[k], anchors)
        BY <1>7
      <3>6. Sorted(S)[k] \in F <=>
              /\ BaseValid(Sorted(S)[k], anchors)
              /\ OwnerClass(Sorted(S)[k], anchors)
              /\ \A j \in took \cap 1 .. k - 1 : ~MayEnd(Sorted(S)[j], Sorted(S)[k])
        BY <3>3, <3>4
      <3> HIDE DEF F
      <3> QED
        BY <3>2, <3>4, <3>5, <3>6 DEF Spared, BaseOf
    <2>2. \A k \in 1..n : Sorted(S)[k] \in E <=> k \in took
      BY <1>3, <1>8
    <2>3. E \subseteq S /\ F \subseteq S
      BY <1>4
    <2>4. E = F
      <3> HIDE DEF E, F
      <3>1. ASSUME NEW m \in S PROVE m \in E <=> m \in F
        <4>1. PICK k \in 1..n : m = Sorted(S)[k]
          BY <1>1
        <4> QED
          BY <2>1, <2>2, <4>1
      <3> QED
        BY <2>3, <3>1
    <2> QED
      BY <2>4 DEF TakesTurn
  <1> QED
    BY <1>4, <1>5, <1>6

\* The owner-class mandates of a set, base valid or not anything else.
Owners(S, anchors) == {m \in S : BaseValid(m, anchors) /\ OwnerClass(m, anchors)}

\* More mandates keep each turn as it was, if the owners among the old ones are the
\* same and none of the new ones ends a mandate issued after itself.
LEMMA TurnsKept ==
    ASSUME NEW S \in SUBSET Mandate, NEW U \in SUBSET Mandate, S \subseteq U,
           NEW a, NEW b, Owners(U, b) \cap S = Owners(S, a),
           \A m \in U \ S : \A t \in Content[m].ends \cap S :
               Content[t].issuedAt < Content[m].issuedAt,
           NEW E, TakesTurn(E, S, a), NEW F, TakesTurn(F, U, b)
    PROVE  F \cap S = E
  <1> DEFINE T == {i \in Nat : \E m \in S : i = Content[m].issuedAt /\ ~(m \in E <=> m \in F)}
  <1>1. E \subseteq S /\ F \subseteq U
    BY DEF TakesTurn
  <1>2. SUFFICES ASSUME T # {} PROVE FALSE
    <2>1. T = {} => \A m \in S : m \in E <=> m \in F
      BY ContentIs
    <2> HIDE DEF T
    <2> QED
      BY <1>1, <2>1
  <1>3. PICK i \in T : \A j \in T : i <= j
    <2>1. T \in SUBSET Nat
      OBVIOUS
    <2> HIDE DEF T
    <2> QED
      BY <1>2, <2>1, LeastNat
  <1>4. PICK m \in S : i = Content[m].issuedAt /\ ~(m \in E <=> m \in F)
    BY <1>3
  <1>5. ASSUME NEW e \in S, Content[e].issuedAt < Content[m].issuedAt
        PROVE  e \in E <=> e \in F
    <2>1. Content[e].issuedAt \in Nat /\ Content[m].issuedAt \in Nat
      BY ContentIs
    <2>2. Content[e].issuedAt \notin T
      BY <1>3, <1>4, <1>5, <2>1
    <2> QED
      BY <2>1, <2>2
  <1>6. m \in E <=> /\ m \in Owners(S, a)
                    /\ \A e \in E : Content[e].issuedAt < Content[m].issuedAt => ~MayEnd(e, m)
    BY DEF TakesTurn, Owners
  <1>7. m \in F <=> /\ m \in Owners(U, b)
                    /\ \A e \in F : Content[e].issuedAt < Content[m].issuedAt => ~MayEnd(e, m)
    BY DEF TakesTurn, Owners
  <1>8. ASSUME NEW e \in U \ S PROVE Content[e].issuedAt < Content[m].issuedAt => ~MayEnd(e, m)
    <2>1. Content[e].issuedAt \in Nat /\ Content[m].issuedAt \in Nat
      BY ContentIs
    <2> QED
      BY <2>1 DEF MayEnd
  <1> HIDE DEF T
  <1> QED
    BY <1>1, <1>4, <1>5, <1>6, <1>7, <1>8

\* So there is one set of mandates that take their turn.
LEMMA OneTurn ==
    ASSUME NEW S \in SUBSET Mandate, NEW a, NEW b, Owners(S, a) = Owners(S, b),
           NEW E, TakesTurn(E, S, a), NEW F, TakesTurn(F, S, b)
    PROVE  E = F
  <1>1. F \subseteq S /\ Owners(S, b) \cap S = Owners(S, a) /\ S \ S = {}
    BY DEF TakesTurn, Owners
  <1>2. F \cap S = E
    BY <1>1, TurnsKept
  <1> QED
    BY <1>1, <1>2


\* The mandates of a list are finitely many.
LEMMA ListedAre ==
    ASSUME NEW l \in Seq(Mandate)
    PROVE  /\ Range(l) \in SUBSET Mandate
           /\ \A n : Current(l, n) \in SUBSET Mandate /\ IsFiniteSet(Current(l, n))
  <1>1. l \in Surjection(1..Len(l), Range(l))
    BY DEF Range, Surjection
  <1>2. IsFiniteSet(1..Len(l))
    BY FS_Interval
  <1>3. Range(l) \in SUBSET Mandate /\ IsFiniteSet(Range(l))
    BY <1>1, <1>2, FS_Surjection DEF Range
  <1> QED
    BY <1>3, FS_Subset DEF Current

\* The places where a list delegates a key, and the first of them.
DelegatedAt(l, n, k) ==
    {i \in DOMAIN l :
       /\ l[i] \in ActiveUnder(Current(l, n), RootAnchors(RootKey))
       /\ "delegate" \in Content[l[i]].scopes
       /\ \E g \in Content[l[i]].delegates : g.key = k}

FirstAt(l, n, k) == CHOOSE i \in DelegatedAt(l, n, k) : \A j \in DelegatedAt(l, n, k) : i <= j

\* The claim by which the first delegation of a key in a list grants it.
ClaimAt(l, n, k) == CHOOSE g \in Content[l[FirstAt(l, n, k)]].delegates : g.key = k

\* An anchor that is not a root comes from the first delegation of its key.
LEMMA AnchorsAre ==
    ASSUME NEW l, NEW n, NEW a
    PROVE  a \in EffectiveAnchors(l, RootKey, n) <=>
             \/ a \in RootAnchors(RootKey)
             \/ \E k \in Key \ RootKey :
                  /\ DelegatedAt(l, n, k) # {}
                  /\ a = [key |-> k, owner |-> FALSE,
                          from |-> DelegatedFrom(l[FirstAt(l, n, k)]), scopes |-> ClaimAt(l, n, k).scopes]
  <1> DEFINE Of(k) == [key |-> k, owner |-> FALSE, from |-> DelegatedFrom(l[FirstAt(l, n, k)]),
                       scopes |-> ClaimAt(l, n, k).scopes]
  <1>1. EffectiveAnchors(l, RootKey, n) =
          RootAnchors(RootKey) \cup {Of(k) : k \in {k \in Key \ RootKey : DelegatedAt(l, n, k) # {}}}
    BY Zenon DEF EffectiveAnchors, DelegatedAt, FirstAt, ClaimAt
  <1> HIDE DEF Of
  <1>2. a \in EffectiveAnchors(l, RootKey, n) <=>
          \/ a \in RootAnchors(RootKey)
          \/ \E k \in Key \ RootKey : DelegatedAt(l, n, k) # {} /\ a = Of(k)
    BY <1>1
  <1> QED
    BY <1>2 DEF Of

\* Only the root keys are owners, whatever has been delegated, and they may sign
\* everything.
LEMMA OwnersAre ==
    ASSUME NEW l \in Seq(Mandate), NEW n, NEW m \in Mandate
    PROVE  (/\ BaseValid(m, EffectiveAnchors(l, RootKey, n))
            /\ OwnerClass(m, EffectiveAnchors(l, RootKey, n)))
             <=> Content[m].signer \in RootKey
  <1>1. ASSUME NEW a \in EffectiveAnchors(l, RootKey, n)
        PROVE  IF a.key \in RootKey THEN a \in RootAnchors(RootKey) ELSE ~a.owner
    <2>1. CASE a \in RootAnchors(RootKey)
      BY <2>1 DEF RootAnchors
    <2>2. CASE a \notin RootAnchors(RootKey)
      <3>1. PICK k \in Key \ RootKey :
              a = [key |-> k, owner |-> FALSE, from |-> DelegatedFrom(l[FirstAt(l, n, k)]),
                   scopes |-> ClaimAt(l, n, k).scopes]
        BY <2>2, AnchorsAre
      <3>2. a.key = k /\ a.owner = FALSE
        BY <3>1
      <3> QED
        BY <3>2
    <2> QED
      BY <2>1, <2>2
  <1>2. RootAnchors(RootKey) \subseteq EffectiveAnchors(l, RootKey, n)
    BY AnchorsAre
  <1>3. \A a \in RootAnchors(RootKey) : a.owner = TRUE /\ a.from = 0 /\ a.scopes = Scope
    BY DEF RootAnchors
  <1>4. ASSUME Content[m].signer \in RootKey
        PROVE  [key |-> Content[m].signer, owner |-> TRUE, from |-> 0, scopes |-> Scope]
                 \in EffectiveAnchors(l, RootKey, n)
    BY <1>2, <1>4 DEF RootAnchors
  <1>5. ASSUME Content[m].signer \in RootKey
        PROVE  /\ BaseValid(m, EffectiveAnchors(l, RootKey, n))
               /\ OwnerClass(m, EffectiveAnchors(l, RootKey, n))
    BY <1>4, <1>5, ContentIs DEF BaseValid, OwnerClass
  <1>6. ASSUME OwnerClass(m, EffectiveAnchors(l, RootKey, n))
        PROVE  Content[m].signer \in RootKey
    BY <1>1, <1>6 DEF OwnerClass
  <1> QED
    BY <1>5, <1>6

\* The same holds before anything is delegated.
LEMMA RootOwnersAre ==
    ASSUME NEW m \in Mandate
    PROVE  /\ OwnerClass(m, RootAnchors(RootKey)) <=> Content[m].signer \in RootKey
           /\ BaseValid(m, RootAnchors(RootKey)) <=> Content[m].signer \in RootKey
  <1>1. \A a \in RootAnchors(RootKey) :
          a.key \in RootKey /\ a.owner = TRUE /\ a.from = 0 /\ a.scopes = Scope
    BY DEF RootAnchors
  <1>2. ASSUME Content[m].signer \in RootKey
        PROVE  [key |-> Content[m].signer, owner |-> TRUE, from |-> 0, scopes |-> Scope]
                 \in RootAnchors(RootKey)
    BY <1>2 DEF RootAnchors
  <1>3. ASSUME Content[m].signer \in RootKey
        PROVE  BaseValid(m, RootAnchors(RootKey)) /\ OwnerClass(m, RootAnchors(RootKey))
    BY <1>2, <1>3, ContentIs DEF BaseValid, OwnerClass
  <1> QED
    BY <1>1, <1>3 DEF BaseValid, OwnerClass

\* A key that is not a root is trusted for what an active delegation says, from its
\* issue.
LEMMA DelegatedAre ==
    ASSUME NEW l \in Seq(Mandate), NEW n, NEW a \in EffectiveAnchors(l, RootKey, n), a.key \notin RootKey
    PROVE  \E d \in ActiveUnder(Current(l, n), RootAnchors(RootKey)) :
             /\ "delegate" \in Content[d].scopes
             /\ a.from = Content[d].issuedAt
             /\ \E g \in Content[d].delegates : g.key = a.key /\ a.scopes = g.scopes
  <1>1. a \notin RootAnchors(RootKey)
    BY DEF RootAnchors
  <1>2. PICK k \in Key \ RootKey :
          /\ DelegatedAt(l, n, k) # {}
          /\ a = [key |-> k, owner |-> FALSE, from |-> DelegatedFrom(l[FirstAt(l, n, k)]),
                  scopes |-> ClaimAt(l, n, k).scopes]
    BY <1>1, AnchorsAre
  <1>3. FirstAt(l, n, k) \in DelegatedAt(l, n, k)
    <2>1. DelegatedAt(l, n, k) \in SUBSET Nat
      BY DEF DelegatedAt
    <2> QED
      BY <1>2, <2>1, LeastNat DEF FirstAt
  <1>4. /\ l[FirstAt(l, n, k)] \in ActiveUnder(Current(l, n), RootAnchors(RootKey))
        /\ "delegate" \in Content[l[FirstAt(l, n, k)]].scopes
        /\ \E g \in Content[l[FirstAt(l, n, k)]].delegates : g.key = k
    BY <1>3 DEF DelegatedAt
  <1>5. /\ a.from = Content[l[FirstAt(l, n, k)]].issuedAt
        /\ \E g \in Content[l[FirstAt(l, n, k)]].delegates : g.key = a.key /\ a.scopes = g.scopes
    <2>1. ClaimAt(l, n, k) \in Content[l[FirstAt(l, n, k)]].delegates /\ ClaimAt(l, n, k).key = k
      BY <1>4 DEF ClaimAt
    <2> QED
      BY <1>2, <2>1 DEF DelegatedFrom
  <1> QED
    BY <1>4, <1>5

\* Who takes a turn does so before and after delegation, and leaves alone who is active.
LEMMA TurnOf ==
    ASSUME NEW l \in Seq(Mandate), NEW n
    PROVE  \E E \in SUBSET Current(l, n) :
             /\ TakesTurn(E, Current(l, n), EffectiveAnchors(l, RootKey, n))
             /\ Active(l, RootKey, n) = Spared(E, Current(l, n), EffectiveAnchors(l, RootKey, n))
             /\ ActiveUnder(Current(l, n), RootAnchors(RootKey)) =
                  Spared(E, Current(l, n), RootAnchors(RootKey))
  <1> DEFINE S == Current(l, n)
             a == EffectiveAnchors(l, RootKey, n)
             r == RootAnchors(RootKey)
  <1>1. S \in SUBSET Mandate /\ IsFiniteSet(S)
    BY ListedAre
  <1>2. Owners(S, a) = Owners(S, r)
    BY <1>1, OwnersAre, RootOwnersAre DEF Owners
  <1>3. Active(l, RootKey, n) = ActiveUnder(S, a)
    BY DEF Active
  <1> HIDE DEF S, a, r
  <1>4. PICK E \in SUBSET S : TakesTurn(E, S, a) /\ ActiveUnder(S, a) = Spared(E, S, a)
    BY <1>1, ActiveIsSpared
  <1>5. PICK F \in SUBSET S : TakesTurn(F, S, r) /\ ActiveUnder(S, r) = Spared(F, S, r)
    BY <1>1, ActiveIsSpared
  <1>6. E = F
    BY <1>1, <1>2, <1>4, <1>5, OneTurn
  <1> QED
    BY <1>3, <1>4, <1>5, <1>6 DEF S, a, r

\* The loops of deriveActiveMandates compute what their definition says.
LEMMA LoopsAreRight ==
    ASSUME NEW l \in Seq(Mandate), NEW n
    PROVE  /\ \E E \in SUBSET Current(l, n) : TakesTurn(E, Current(l, n), EffectiveAnchors(l, RootKey, n))
           /\ Active(l, RootKey, n) = ActiveByDefinition(Current(l, n), EffectiveAnchors(l, RootKey, n))
  <1> DEFINE S == Current(l, n)
             a == EffectiveAnchors(l, RootKey, n)
  <1>1. S \in SUBSET Mandate
    BY ListedAre
  <1> HIDE DEF S, a
  <1>2. PICK E \in SUBSET S : TakesTurn(E, S, a) /\ Active(l, RootKey, n) = Spared(E, S, a)
    BY TurnOf DEF S, a
  <1>3. \A F \in SUBSET S : TakesTurn(F, S, a) => F = E
    BY <1>1, <1>2, OneTurn
  <1>4. (CHOOSE F \in SUBSET S : TakesTurn(F, S, a)) = E
    BY <1>2, <1>3
  <1> QED
    BY <1>2, <1>4 DEF ActiveByDefinition, Spared, BaseOf, S, a

\* An active mandate of a delegated key stands on an active delegation by a root.
LEMMA DerivedFrom ==
    ASSUME NEW l \in Seq(Mandate), NEW n, NEW m \in Active(l, RootKey, n), Content[m].signer \notin RootKey
    PROVE  \E d \in Active(l, RootKey, n) :
             /\ Content[d].issuedAt < Content[m].issuedAt
             /\ Content[d].signer \in RootKey
             /\ "delegate" \in Content[d].scopes
             /\ \E g \in Content[d].delegates :
                  g.key = Content[m].signer /\ Content[m].scopes \subseteq g.scopes
  <1>1. PICK E \in SUBSET Current(l, n) :
          /\ Active(l, RootKey, n) = Spared(E, Current(l, n), EffectiveAnchors(l, RootKey, n))
          /\ ActiveUnder(Current(l, n), RootAnchors(RootKey)) =
               Spared(E, Current(l, n), RootAnchors(RootKey))
    BY TurnOf
  <1>2. m \in Mandate /\ BaseValid(m, EffectiveAnchors(l, RootKey, n))
    BY <1>1, ListedAre DEF Spared, BaseOf
  <1>3. PICK a \in EffectiveAnchors(l, RootKey, n) :
          /\ a.key = Content[m].signer
          /\ Content[m].issuedAt >= a.from
          /\ Content[m].scopes \subseteq a.scopes
    BY <1>2 DEF BaseValid
  <1>4. PICK d \in ActiveUnder(Current(l, n), RootAnchors(RootKey)) :
          /\ "delegate" \in Content[d].scopes
          /\ a.from = Content[d].issuedAt
          /\ \E g \in Content[d].delegates : g.key = a.key /\ a.scopes = g.scopes
    BY <1>3, DelegatedAre
  <1>5. d \in Mandate /\ d \in Current(l, n) /\ Content[d].signer \in RootKey
    <2>1. d \in Current(l, n) /\ BaseValid(d, RootAnchors(RootKey))
      BY <1>1 DEF Spared, BaseOf
    <2> QED
      BY <2>1, ListedAre, RootOwnersAre
  <1>6. d \in Active(l, RootKey, n)
    <2>1. BaseValid(d, EffectiveAnchors(l, RootKey, n))
      BY <1>5, OwnersAre
    <2> QED
      BY <1>1, <1>5, <2>1 DEF Spared, BaseOf
  <1>7. Content[d].issuedAt < Content[m].issuedAt
    <2>1. d # m
      BY <1>5
    <2> QED
      BY <1>2, <1>3, <1>4, <1>5, <2>1, ContentIs
  <1> QED
    BY <1>3, <1>4, <1>5, <1>6, <1>7

\* Without the mandates that end nothing, the others take the turns they took.
LEMMA TurnsWithin ==
    ASSUME NEW S \in SUBSET Mandate, NEW U, NEW a, NEW E, TakesTurn(E, S, a),
           \A m \in S \ U : Content[m].ends = {}
    PROVE  TakesTurn(E \cap U, S \cap U, a)
  <1>1. \A e \in E \ U : \A m : ~MayEnd(e, m)
    BY DEF TakesTurn, MayEnd
  <1> QED
    BY <1>1 DEF TakesTurn

\* A longer list takes, at a later time, every turn of the shorter, if no new mandate
\* ends one issued after itself and none that ends others has expired.
LEMMA EndedStays ==
    ASSUME NEW l \in Seq(Mandate), NEW n, NEW k \in Seq(Mandate), NEW o,
           Range(l) \subseteq Range(k),
           \A m \in Current(k, o) \ Current(l, n) : \A t \in Content[m].ends \cap Current(l, n) :
               Content[t].issuedAt < Content[m].issuedAt,
           \A m \in Current(l, n) : ~InForce(m, o) => Content[m].ends = {}
    PROVE  ({t \in Current(l, n) : BaseValid(t, EffectiveAnchors(l, RootKey, n))}
              \ Active(l, RootKey, n)) \cap Active(k, RootKey, o) = {}
  <1> DEFINE S == Current(l, n)
             U == Current(k, o)
             a == EffectiveAnchors(l, RootKey, n)
             b == EffectiveAnchors(k, RootKey, o)
  <1>1. S \in SUBSET Mandate /\ U \in SUBSET Mandate
    BY ListedAre
  <1>2. Owners(U, b) \cap (S \cap U) = Owners(S \cap U, a)
    BY <1>1, OwnersAre DEF Owners
  <1>3. /\ \A m \in U \ (S \cap U) : \A t \in Content[m].ends \cap (S \cap U) :
             Content[t].issuedAt < Content[m].issuedAt
        /\ \A m \in S \ U : Content[m].ends = {}
    BY DEF Current
  <1> HIDE DEF S, U, a, b
  <1>4. PICK E \in SUBSET S : TakesTurn(E, S, a) /\ Active(l, RootKey, n) = Spared(E, S, a)
    BY TurnOf DEF S, a
  <1>5. PICK F \in SUBSET U : TakesTurn(F, U, b) /\ Active(k, RootKey, o) = Spared(F, U, b)
    BY TurnOf DEF U, b
  <1>6. TakesTurn(E \cap U, S \cap U, a)
    BY <1>1, <1>3, <1>4, TurnsWithin
  <1>7. F \cap (S \cap U) = E \cap U
    <2>1. S \cap U \in SUBSET Mandate /\ S \cap U \subseteq U
      BY <1>1
    <2> QED
      BY <1>1, <1>2, <1>3, <1>5, <1>6, <2>1, TurnsKept
  <1>8. \A t \in S : BaseValid(t, a) /\ t \notin Active(l, RootKey, n)
                       => t \notin Active(k, RootKey, o)
    <2> SUFFICES ASSUME NEW t \in S, BaseValid(t, a), t \notin Active(l, RootKey, n)
                 PROVE  t \notin Active(k, RootKey, o)
      OBVIOUS
    <2>1. PICK e \in E : MayEnd(e, t)
      BY <1>4 DEF Spared, BaseOf
    <2>2. e \in F
      BY <1>3, <1>4, <1>7, <2>1 DEF MayEnd
    <2> QED
      BY <1>5, <2>1, <2>2 DEF Spared
  <1> QED
    BY <1>8 DEF S, a

-----------------------------------------------------------------------------
(* The history of a ledger. *)

\* A mandate applied anywhere in the list leaves the others in it.
LEMMA InsertKeeps ==
    ASSUME NEW l \in Seq(Mandate), NEW m \in Mandate, NEW i \in 1 .. Len(l) + 1
    PROVE  /\ InsertAt(l, i, m) \in Seq(Mandate)
           /\ Range(l) \subseteq Range(InsertAt(l, i, m))
  <1> DEFINE k == InsertAt(l, i, m)
             n == Len(l)
             h == i - 1
  <1>1. n = Len(l) /\ n \in Nat /\ h \in 0..n /\ h + 1 = i
    OBVIOUS
  <1> HIDE DEF n, h
  <1>2. InsertAt(l, h + 1, m) =
          [j \in 1 .. n + 1 |-> IF j <= h THEN l[j] ELSE IF j = h + 1 THEN m ELSE l[j - 1]]
    <2>1. ASSUME NEW x \in Nat, Len(l) = x, NEW y \in 0..x
          PROVE  InsertAt(l, y + 1, m) =
                   [j \in 1 .. x + 1 |-> IF j <= y THEN l[j] ELSE IF j = y + 1 THEN m ELSE l[j - 1]]
      BY <2>1 DEF InsertAt
    <2> QED
      BY <1>1, <2>1
  <1>3. k = [j \in 1 .. n + 1 |-> IF j <= h THEN l[j] ELSE IF j = i THEN m ELSE l[j - 1]]
    BY <1>1, <1>2
  <1> HIDE DEF k
  <1>4. k \in Seq(Mandate) /\ DOMAIN k = 1 .. n + 1
    <2>1. ASSUME NEW j \in 1 .. n + 1
          PROVE  (IF j <= h THEN l[j] ELSE IF j = i THEN m ELSE l[j - 1]) \in Mandate
      <3>1. CASE j <= h
        BY <1>1, <3>1
      <3>2. CASE j > h /\ j # i
        <4>1. j - 1 \in 1..n
          BY <1>1, <3>2
        <4> QED
          BY <1>1, <3>2, <4>1
      <3> QED
        BY <1>1, <3>1, <3>2
    <2>2. k \in [1 .. n + 1 -> Mandate]
      BY <1>3, <2>1
    <2> QED
      BY <1>1, <2>2
  <1>5. ASSUME NEW j \in 1..n PROVE \E g \in 1 .. n + 1 : k[g] = l[j]
    <2>1. CASE j <= h
      BY <1>1, <1>3, <2>1
    <2>2. CASE j > h
      <3>1. j + 1 \in 1 .. n + 1 /\ k[j + 1] = l[j]
        BY <1>1, <1>3, <2>2
      <3> QED
        BY <3>1
    <2> QED
      BY <1>1, <2>1, <2>2
  <1>6. Range(l) \subseteq Range(k)
    <2>1. Range(l) = {l[j] : j \in 1..n} /\ Range(k) = {k[g] : g \in 1 .. n + 1}
      BY <1>1, <1>4 DEF Range
    <2> QED
      BY <1>5, <2>1
  <1> QED
    BY <1>4, <1>6 DEF k

LEMMA HistoryStep ==
    ASSUME list \in Seq(Mandate), [HistoryNext]_historyVars
    PROVE  list' \in Seq(Mandate) /\ Range(list) \subseteq Range(list')
  <1>1. ASSUME NEW m \in Mandate, NEW config, NEW i \in 1 .. Len(list) + 1, Apply(m, config, i)
        PROVE  list' \in Seq(Mandate) /\ Range(list) \subseteq Range(list')
    BY <1>1, InsertKeeps DEF Apply
  <1>2. CASE TimePasses \/ UNCHANGED historyVars
    BY <1>2 DEF TimePasses, historyVars
  <1> QED
    BY <1>1, <1>2 DEF HistoryNext

LEMMA HistoryTyped == HistorySpec => [](list \in Seq(Mandate))
  <1>1. HistoryInit => list \in Seq(Mandate)
    BY DEF HistoryInit
  <1>2. list \in Seq(Mandate) /\ [HistoryNext]_historyVars
          => (list \in Seq(Mandate))'
    BY HistoryStep
  <1> QED
    BY <1>1, <1>2, PTL DEF HistorySpec

THEOREM ResolvedAsDefined == HistorySpec => []ActiveIsUnrevoked
  <1>1. list \in Seq(Mandate) => ActiveIsUnrevoked
    BY LoopsAreRight DEF ActiveIsUnrevoked, Present, Anchors
  <1> QED
    BY <1>1, HistoryTyped, PTL

THEOREM DerivedAuthority == HistorySpec => []AuthorityIsDerived
  <1>1. list \in Seq(Mandate) => AuthorityIsDerived
    BY DerivedFrom DEF AuthorityIsDerived
  <1> QED
    BY <1>1, HistoryTyped, PTL

THEOREM RevocationLasts == HistorySpec => RevokedStaysRevoked
  <1> DEFINE Lasts ==
        ReachesBack \/ EnderExpires \/ Ended \cap Active(list', RootKey, now') = {}
  <1>1. list \in Seq(Mandate) /\ [HistoryNext]_historyVars
          => [Lasts]_historyVars
    <2> SUFFICES ASSUME list \in Seq(Mandate), [HistoryNext]_historyVars,
                        ~ReachesBack, ~EnderExpires
                 PROVE  Ended \cap Active(list', RootKey, now') = {}
      OBVIOUS
    <2>1. list' \in Seq(Mandate) /\ Range(list) \subseteq Range(list')
      BY HistoryStep
    <2>2. \A m \in Current(list, now) : ~InForce(m, now') => Content[m].ends = {}
      BY DEF EnderExpires, Present
    <2>3. \A m \in Current(list', now') \ Current(list, now) :
            \A t \in Content[m].ends \cap Current(list, now) :
              Content[t].issuedAt < Content[m].issuedAt
      <3>1. Current(list, now) \in SUBSET Mandate /\ Current(list', now') \in SUBSET Mandate
        BY <2>1, ListedAre
      <3> QED
        BY <3>1, ContentIs DEF ReachesBack, Present
    <2> QED
      BY <2>1, <2>2, <2>3, EndedStays DEF Ended, Present, Anchors
  <1> QED
    BY <1>1, HistoryTyped, PTL DEF HistorySpec, RevokedStaysRevoked

-----------------------------------------------------------------------------
(* The inductive invariant. *)

Committing == {"claim", "load", "keyring", "commit"}

Applying == Committing \cup {"event", "discovery", "revise", "mark", "catch"}

\* A stamp is of one request, and that request makes at most one mandate asset or one
\* challenge with it.
StampInv ==
    /\ \A r, s \in mandates : r.at = s.at => r = s
    /\ \A r \in mandates : r.at \in 1..calls
    /\ \A c, d \in challenges : c.at = d.at => c = d
    /\ \A c \in challenges : c.at <= calls
    /\ \A p \in Process : pc[p] # "idle" => call[p].at \in 1..calls
    /\ \A p, q \in Process :
         pc[p] # "idle" /\ pc[q] # "idle" /\ call[p].at = call[q].at => p = q
    /\ \A p \in Process : pc[p] \in Committing => \A r \in mandates : r.at # call[p].at
    /\ \A p \in Process :
         pc[p] \in {"challenges", "issue"} => \A c \in challenges : c.at # call[p].at

\* Both heads count the mandates, and the ledger head names them.
HeadInv ==
    /\ LedgerComplete
    /\ ledgerHead.version = Cardinality(mandates)
    /\ keyring.version = Cardinality(mandates)

\* A request that still sees the version it read knows the mandates and the keys
\* as they are.
LoadedInv(p) ==
    /\ pc[p] \in Applying => call[p].mandate \in Mandate
    /\ pc[p] \in {"claim", "load"} => call[p].attempt < MaxTries
    /\ pc[p] \in {"keyring", "commit"} =>
         /\ call[p].ledgerVersion <= ledgerHead.version
         /\ call[p].ledgerVersion = ledgerHead.version => call[p].list = Listed
    /\ pc[p] = "commit" =>
         /\ History!Verified(call[p].mandate, call[p].list, call[p].config, call[p].at)
         /\ call[p].keyringVersion <= keyring.version
         /\ call[p].keyringVersion = keyring.version =>
              KeyringLoads(Range(call[p].list), call[p].config)

\* A proof was evaluated for consumed challenges only.
AttemptInv ==
    /\ \A x \in attempts : \E c \in challenges : c.at = x[1] /\ c.consumed
    /\ OneAttempt

\* There is a latest revision.
LatestInv ==
    \E r \in revisions : \A s \in revisions :
        r.seq > s.seq \/ (r.seq = s.seq /\ r.at >= s.at)

IInv ==
    /\ TypeOK
    /\ StampInv /\ HeadInv /\ AttemptInv /\ LatestInv
    /\ \A p \in Process : LoadedInv(p)

-----------------------------------------------------------------------------
(* The order in which mandates are listed. *)

Below(S, r) == {s \in S : s.at < r.at}

Rank(S, r) == Cardinality(Below(S, r))

Nth(S, i) == CHOOSE r \in S : Rank(S, r) = i - 1

Distinct(S) ==
    /\ S \subseteq MandateAsset /\ IsFiniteSet(S)
    /\ \A r, s \in S : r.at = s.at => r = s

LEMMA StampIsNat == MaxCalls \in Nat /\ Stamp \subseteq Nat
  BY LedgerAssumption DEF LedgerAssumption, Stamp

LEMMA AtIsNat ==
    /\ \A r \in MandateAsset : r.at \in Nat /\ r.id \in Mandate
    /\ \A S : Distinct(S) => S \subseteq MandateAsset /\ \A r \in S : r.at \in Nat
  BY StampIsNat DEF MandateAsset, Distinct

\* The later of two assets has the higher rank.
LEMMA RankGrows ==
    ASSUME NEW S, Distinct(S), NEW s \in S, NEW r \in MandateAsset, s.at < r.at
    PROVE  Rank(S, s) < Rank(S, r)
  <1>1. Below(S, s) \in SUBSET Below(S, r)
    BY AtIsNat DEF Below
  <1>2. s \in Below(S, r) /\ s \notin Below(S, s)
    BY AtIsNat DEF Below
  <1>3. IsFiniteSet(Below(S, r))
    BY FS_Subset DEF Below, Distinct
  <1>4. /\ Cardinality(Below(S, s)) <= Cardinality(Below(S, r))
        /\ Cardinality(Below(S, s)) # Cardinality(Below(S, r))
    BY <1>1, <1>2, <1>3, FS_Subset
  <1>5. Cardinality(Below(S, s)) \in Nat /\ Cardinality(Below(S, r)) \in Nat
    BY <1>1, <1>3, FS_Subset, FS_CardinalityType
  <1> QED
    BY <1>4, <1>5 DEF Rank

\* So the ranks are the numbers below the size of the set, each of one asset.
LEMMA Ranks ==
    ASSUME NEW S, Distinct(S)
    PROVE  /\ Cardinality(S) \in Nat
           /\ \A r \in S : Rank(S, r) \in 0 .. Cardinality(S) - 1
           /\ \A r, s \in S : Rank(S, r) = Rank(S, s) => r = s
           /\ \A i \in 1..Cardinality(S) : \E r \in S : Rank(S, r) = i - 1
  <1> DEFINE at == [r \in S |-> r.at]
  <1>1. at \in [S -> Nat] /\ \A r, s \in S : at[r] = at[s] => r = s
    BY AtIsNat DEF Distinct
  <1>2. \A r \in S : RankIn(S, at, r) = Rank(S, r)
    BY DEF RankIn, Rank, Below
  <1> HIDE DEF at
  <1>3. /\ Cardinality(S) \in Nat
        /\ \A r \in S : RankIn(S, at, r) \in 0 .. Cardinality(S) - 1
        /\ \A r, s \in S : at[s] < at[r] <=> RankIn(S, at, s) < RankIn(S, at, r)
        /\ \A i \in 1..Cardinality(S) : \E r \in S : RankIn(S, at, r) = i - 1
    BY <1>1, RanksOf DEF Distinct
  <1>4. ASSUME NEW r \in S, NEW s \in S, Rank(S, r) = Rank(S, s)
        PROVE  r = s
    <2>1. ~(at[r] < at[s]) /\ ~(at[s] < at[r])
      BY <1>2, <1>3, <1>4
    <2> QED
      BY <1>1, <2>1
  <1> QED
    BY <1>2, <1>3, <1>4

\* The i-th asset listed is the one of that rank.
LEMMA NthIs ==
    ASSUME NEW S, Distinct(S)
    PROVE  /\ \A i \in 1..Cardinality(S) : Nth(S, i) \in S /\ Rank(S, Nth(S, i)) = i - 1
           /\ \A r \in S : Nth(S, Rank(S, r) + 1) = r
           /\ ListOf(S) = [i \in 1..Cardinality(S) |-> Nth(S, i).id]
  <1>1. ASSUME NEW i \in 1..Cardinality(S)
        PROVE  Nth(S, i) \in S /\ Rank(S, Nth(S, i)) = i - 1
    BY Ranks DEF Nth
  <1>2. ASSUME NEW r \in S PROVE Nth(S, Rank(S, r) + 1) = r
    <2>1. Rank(S, r) + 1 \in 1..Cardinality(S) /\ (Rank(S, r) + 1) - 1 = Rank(S, r)
      BY Ranks
    <2> QED
      BY <1>1, <2>1, Ranks
  <1>3. ListOf(S) = [i \in 1..Cardinality(S) |-> Nth(S, i).id]
    BY DEF ListOf, Nth, Rank, Below
  <1> QED
    BY <1>1, <1>2, <1>3

\* The list has every mandate of the set and no other.
LEMMA ListIs ==
    ASSUME NEW S, Distinct(S)
    PROVE  /\ ListOf(S) \in Seq(Mandate)
           /\ Len(ListOf(S)) = Cardinality(S)
           /\ Range(ListOf(S)) = {r.id : r \in S}
  <1>1. Cardinality(S) \in Nat
    BY Ranks
  <1>2. \A i \in 1..Cardinality(S) : Nth(S, i) \in S /\ Nth(S, i).id \in Mandate
    BY NthIs DEF Distinct, MandateAsset
  <1>3. ListOf(S) = [i \in 1..Cardinality(S) |-> Nth(S, i).id]
    BY NthIs
  <1>4. ListOf(S) \in Seq(Mandate) /\ Len(ListOf(S)) = Cardinality(S)
    BY <1>1, <1>2, <1>3
  <1>5. ASSUME NEW r \in S PROVE r.id \in Range(ListOf(S))
    <2>1. Rank(S, r) + 1 \in 1..Cardinality(S)
      BY Ranks
    <2>2. ListOf(S)[Rank(S, r) + 1] = r.id
      BY <1>3, <2>1, NthIs
    <2> QED
      BY <1>3, <2>1, <2>2 DEF Range
  <1>6. Range(ListOf(S)) \subseteq {r.id : r \in S}
    BY <1>2, <1>3 DEF Range
  <1> QED
    BY <1>4, <1>5, <1>6

\* An asset more is one insertion in the list.
LEMMA ListInsert ==
    ASSUME NEW S, Distinct(S), NEW r \in MandateAsset, \A s \in S : s.at # r.at
    PROVE  \E i \in 1 .. Len(ListOf(S)) + 1 :
               ListOf(S \cup {r}) = History!InsertAt(ListOf(S), i, r.id)
  <1> DEFINE T == S \cup {r}
             n == Cardinality(S)
             k == Rank(S, r)
  <1>1. Distinct(T) /\ Cardinality(T) = n + 1 /\ n \in Nat
    <2>1. r \notin S
      OBVIOUS
    <2>2. IsFiniteSet(T) /\ Cardinality(T) = n + 1
      BY <2>1, FS_AddElement DEF Distinct
    <2> QED
      BY <2>2, Ranks DEF Distinct
  <1>2. k \in 0..n
    <2>1. Below(S, r) \in SUBSET S
      BY DEF Below
    <2>2. IsFiniteSet(Below(S, r)) /\ Cardinality(Below(S, r)) <= n
      BY <2>1, FS_Subset DEF Distinct
    <2> QED
      BY <1>1, <2>2, FS_CardinalityType DEF Rank
  <1>3. /\ \A s \in S : s.at < r.at => Below(T, s) = Below(S, s)
        /\ \A s \in S : r.at < s.at => Below(T, s) = Below(S, s) \cup {r}
        /\ Below(T, r) = Below(S, r)
    BY AtIsNat DEF Below
  <1>4. Nth(T, k + 1) = r
    <2>1. Rank(T, r) = k
      BY <1>3 DEF Rank
    <2> HIDE DEF k
    <2> QED
      BY <1>1, <2>1, NthIs
  <1>5. ASSUME NEW j \in 1..n, j <= k
        PROVE  Nth(T, j) = Nth(S, j)
    <2> DEFINE s == Nth(S, j)
    <2>1. s \in S /\ Rank(S, s) = j - 1
      BY NthIs
    <2> HIDE DEF s
    <2>2. s.at < r.at
      <3>1. SUFFICES ASSUME r.at < s.at PROVE FALSE
        BY <2>1, AtIsNat
      <3>2. Below(S, r) \in SUBSET Below(S, s)
        BY <2>1, <3>1, AtIsNat DEF Below
      <3>3. IsFiniteSet(Below(S, s))
        BY FS_Subset DEF Below, Distinct
      <3>4. k <= Rank(S, s)
        BY <3>2, <3>3, FS_Subset DEF Rank
      <3> QED
        BY <1>2, <1>5, <2>1, <3>4
    <2>3. Rank(T, s) = j - 1
      BY <1>3, <2>1, <2>2 DEF Rank
    <2>4. Rank(T, s) + 1 = j /\ s \in T
      BY <2>1, <2>3
    <2>5. Nth(T, Rank(T, s) + 1) = s
      BY <1>1, <2>4, NthIs
    <2> QED
      BY <2>4, <2>5 DEF s
  <1>6. ASSUME NEW j \in 1..n, k < j
        PROVE  Nth(T, j + 1) = Nth(S, j)
    <2> DEFINE s == Nth(S, j)
    <2>1. s \in S /\ Rank(S, s) = j - 1
      BY NthIs
    <2> HIDE DEF s
    <2>2. r.at < s.at
      <3>1. SUFFICES ASSUME s.at < r.at PROVE FALSE
        BY <2>1, AtIsNat
      <3>2. Rank(S, s) < k
        BY <2>1, <3>1, RankGrows
      <3> QED
        BY <1>2, <1>6, <2>1, <3>2
    <2>3. Rank(T, s) = j
      <3>1. IsFiniteSet(Below(S, s)) /\ r \notin Below(S, s)
        BY FS_Subset DEF Below, Distinct
      <3>2. Cardinality(Below(S, s) \cup {r}) = Cardinality(Below(S, s)) + 1
        BY <3>1, FS_AddElement
      <3>3. Below(T, s) = Below(S, s) \cup {r}
        BY <1>3, <2>1, <2>2
      <3>4. j \in Nat
        BY <1>1
      <3>5. Cardinality(Below(S, s)) = j - 1 /\ Rank(T, s) = Cardinality(Below(T, s))
        BY <2>1 DEF Rank
      <3> HIDE DEF T
      <3> QED
        BY <3>2, <3>3, <3>4, <3>5
    <2>4. Nth(T, Rank(T, s) + 1) = s
      BY <1>1, <2>1, NthIs
    <2> QED
      BY <2>3, <2>4 DEF s
  <1>7. /\ ListOf(S) = [i \in 1..n |-> Nth(S, i).id]
        /\ ListOf(T) = [i \in 1 .. n + 1 |-> Nth(T, i).id]
    <2> HIDE DEF T, n
    <2>1. ListOf(T) = [i \in 1..Cardinality(T) |-> Nth(T, i).id]
      BY <1>1, NthIs
    <2> QED
      BY <1>1, <2>1, NthIs DEF n
  <1>8. ListOf(S) \in Seq(Mandate) /\ Len(ListOf(S)) = n /\ r.id \in Mandate
    BY ListIs DEF MandateAsset
  <1> HIDE DEF k, n, T
  <1>9. ListOf(T) = History!InsertAt(ListOf(S), k + 1, r.id)
    <2>1. ASSUME NEW s \in Seq(Mandate), NEW m \in Mandate, Len(s) = n
          PROVE  History!InsertAt(s, k + 1, m) =
                   [i \in 1 .. n + 1 |-> IF i <= k THEN s[i] ELSE IF i = k + 1 THEN m ELSE s[i - 1]]
      BY <1>1, <1>2, <2>1 DEF History!InsertAt
    <2>2. ASSUME NEW i \in 1 .. n + 1
          PROVE  Nth(T, i).id = IF i <= k THEN ListOf(S)[i]
                                ELSE IF i = k + 1 THEN r.id ELSE ListOf(S)[i - 1]
      <3>1. CASE i <= k
        BY <1>1, <1>2, <1>5, <1>7, <3>1
      <3>2. CASE i = k + 1
        BY <1>1, <1>2, <1>4, <3>2
      <3>3. CASE i > k + 1
        <4>1. i - 1 \in 1..n /\ k < i - 1 /\ (i - 1) + 1 = i
          BY <1>1, <1>2, <3>3
        <4> QED
          BY <1>1, <1>2, <1>6, <1>7, <3>3, <4>1
      <3> QED
        BY <1>1, <1>2, <3>1, <3>2, <3>3
    <2>3. History!InsertAt(ListOf(S), k + 1, r.id) =
            [i \in 1 .. n + 1 |-> IF i <= k THEN ListOf(S)[i]
                                   ELSE IF i = k + 1 THEN r.id ELSE ListOf(S)[i - 1]]
      BY <1>8, <2>1
    <2> QED
      BY <1>7, <2>2, <2>3
  <1> QED
    BY <1>1, <1>2, <1>8, <1>9 DEF T

-----------------------------------------------------------------------------
(* What a step does to the locals of requests. *)

Others(p) == \A q \in Process \ {p} : pc'[q] = pc[q] /\ call'[q] = call[q]

Moves(p) == Step(p) \/ Throw(p) \/ LoseReply(p) \/ Crash(p)

Commits(p) == pc[p] = "commit" /\ Unchanged(p) /\ SaveAtomically(p)

\* A step of a request touches no other one's locals.
LEMMA OthersKept ==
    ASSUME TypeOK, NEW p \in Process, Moves(p)
    PROVE  Others(p)
  <1>0. pc \in [Process -> Stage] /\ call \in [Process -> Call]
    BY DEF TypeOK
  <1> USE <1>0 DEF Others, Goto, Set, Leave, Settle, stored, assets, history
  <1>1. CASE BeginApply(p)
    BY <1>1 DEF BeginApply
  <1>2. CASE ClaimMandate(p) \/ LoadLedger(p) \/ LoadKeyring(p) \/ Commit(p)
    BY <1>2 DEF ClaimMandate, LoadLedger, LoadKeyring, Commit
  <1>3. CASE AppendEvent(p) \/ ReadDiscovery(p) \/ SaveRevision(p) \/ MarkApplied(p) \/ Catch(p)
    BY <1>3 DEF AppendEvent, ReadDiscovery, SaveRevision, MarkApplied, Catch
  <1>4. CASE BeginPrepare(p) \/ ReadChallenges(p) \/ IssueChallenge(p)
    BY <1>4 DEF BeginPrepare, ReadChallenges, IssueChallenge
  <1>5. CASE BeginVerify(p) \/ LookUpChallenge(p) \/ ConsumeChallenge(p)
    BY <1>5 DEF BeginVerify, LookUpChallenge, ConsumeChallenge
  <1>6. CASE Throw(p) \/ LoseReply(p) \/ Crash(p)
    BY <1>6 DEF Throw, LoseReply, Crash
  <1> QED
    BY <1>1, <1>2, <1>3, <1>4, <1>5, <1>6 DEF Moves, Step

\* A new request takes the next stamp, the others keep theirs; who commits does not
\* commit again.
StampMoves(p) ==
    /\ \/ UNCHANGED calls
       \/ calls < MaxCalls /\ calls' = calls + 1 /\ UNCHANGED <<mandates, keyring>>
    /\ pc'[p] # "idle" =>
         \/ /\ pc[p] # "idle" /\ call'[p].at = call[p].at
            /\ pc'[p] \in Committing => pc[p] \in Committing
            /\ pc'[p] \in {"challenges", "issue"} => pc[p] \in {"challenges", "issue"}
         \/ pc[p] = "idle" /\ call'[p].at = calls' /\ calls' = calls + 1
    /\ \/ UNCHANGED <<mandates, ledgerHead, keyring>>
       \/ Commits(p) /\ pc'[p] \in {"event", "catch"}
    /\ \/ UNCHANGED <<challenges, attempts>>
       \/ IssueChallenge(p) /\ UNCHANGED attempts
       \/ ConsumeChallenge(p)

LEMMA StampSteps ==
    ASSUME TypeOK, NEW p \in Process, Moves(p)
    PROVE  StampMoves(p)
  <1>0. /\ pc \in [Process -> Stage] /\ call \in [Process -> Call]
        /\ calls \in Nat
    BY StampIsNat DEF TypeOK
  <1> USE <1>0 DEF StampMoves, Committing, Goto, Set, Leave, Settle, stored, assets, history, Call,
                   NoCall, Begin
  <1>1. CASE BeginApply(p)
    BY <1>1 DEF BeginApply
  <1>2. CASE ClaimMandate(p) \/ LoadLedger(p) \/ LoadKeyring(p)
    <2>1. CASE ClaimMandate(p)
      BY <2>1 DEF ClaimMandate
    <2>2. CASE LoadLedger(p)
      <3>1. /\ pc[p] = "load" /\ pc'[p] \in {"keyring", "catch"}
            /\ UNCHANGED <<mandates, ledgerHead, keyring, challenges, attempts, calls>>
        BY <2>2 DEF LoadLedger
      <3> DEFINE loaded == [call[p] EXCEPT !.list = Listed, !.attempt = @ + 1,
                                           !.ledgerVersion = ledgerHead.version]
      <3>2. call[p] \in Call
        BY <1>0
      <3>3. loaded.at = call[p].at
        BY <3>2
      <3>4. call' = call \/ call' = [call EXCEPT ![p] = loaded]
        BY <2>2 DEF LoadLedger
      <3> HIDE DEF loaded
      <3>5. call'[p].at = call[p].at
        BY <3>3, <3>4
      <3> QED
        BY <3>1, <3>5
    <2>3. CASE LoadKeyring(p)
      BY <2>3 DEF LoadKeyring
    <2> QED
      BY <1>2, <2>1, <2>2, <2>3
  <1>3. CASE Commit(p) \/ LoseReply(p)
    BY <1>3 DEF Commit, LoseReply, Commits
  <1>4. CASE AppendEvent(p) \/ ReadDiscovery(p) \/ SaveRevision(p) \/ MarkApplied(p) \/ Catch(p)
    BY <1>4 DEF AppendEvent, ReadDiscovery, SaveRevision, MarkApplied, Catch
  <1>5. CASE BeginPrepare(p) \/ ReadChallenges(p) \/ IssueChallenge(p)
    BY <1>5 DEF BeginPrepare, ReadChallenges, IssueChallenge
  <1>6. CASE BeginVerify(p) \/ LookUpChallenge(p)
    BY <1>6 DEF BeginVerify, LookUpChallenge
  <1>7. CASE ConsumeChallenge(p)
    <2>1. pc'[p] = "idle" /\ calls' = calls /\ UNCHANGED <<mandates, ledgerHead, keyring>>
      BY <1>7 DEF ConsumeChallenge
    <2> QED
      BY <1>7, <2>1
  <1>8. CASE Throw(p) \/ Crash(p)
    BY <1>8 DEF Throw, Crash, InTry
  <1> QED
    BY <1>1, <1>2, <1>3, <1>4, <1>5, <1>6, <1>7, <1>8 DEF Moves, Step

-----------------------------------------------------------------------------
(* Each part of the invariant is kept. *)

\* The mandates of the ledger are listed in the order of their stamps.
LEMMA LedgerIs ==
    ASSUME TypeOK, StampInv
    PROVE  /\ Distinct(mandates) /\ Cardinality(mandates) <= calls
           /\ Listed \in Seq(Mandate) /\ Range(Listed) = Applied
  <1> DEFINE at == [r \in mandates |-> r.at]
  <1>1. calls \in Nat /\ IsFiniteSet(1..calls) /\ Cardinality(1..calls) = calls
    BY StampIsNat, FS_Interval DEF TypeOK
  <1>2. at \in Injection(mandates, 1..calls)
    BY DEF StampInv, Injection, IsInjective
  <1>3. IsFiniteSet(mandates) /\ Cardinality(mandates) <= calls
    <2> HIDE DEF at
    <2> QED
      BY <1>1, <1>2, FS_Injection
  <1>4. Distinct(mandates)
    BY <1>3 DEF Distinct, StampInv, TypeOK
  <1> QED
    BY <1>3, <1>4, ListIs DEF Listed, Applied

\* A commit adds one mandate, verified against exactly those there were.
LEMMA CommitAdds ==
    ASSUME IInv, NEW p \in Process, Commits(p)
    PROVE  /\ call[p].list = Listed
           /\ mandates' = mandates \cup {[id |-> call[p].mandate, at |-> call[p].at]}
           /\ [id |-> call[p].mandate, at |-> call[p].at] \in MandateAsset
           /\ \A r \in mandates : r.at # call[p].at
           /\ Applied' = Applied \cup {call[p].mandate}
           /\ Cardinality(mandates') = Cardinality(mandates) + 1
           /\ ledgerHead' = [covers |-> Applied', version |-> ledgerHead.version + 1]
           /\ keyring' = [keys |-> call[p].config, version |-> keyring.version + 1]
  <1>1. /\ ledgerHead.version = call[p].ledgerVersion
        /\ call[p].list = Listed /\ call[p].mandate \in Mandate
        /\ \A r \in mandates : r.at # call[p].at
    BY DEF IInv, LoadedInv, Commits, Unchanged, Applying, Committing, StampInv
  <1>2. [id |-> call[p].mandate, at |-> call[p].at] \in MandateAsset
    BY <1>1 DEF IInv, TypeOK, Call, MandateAsset
  <1>3. mandates' = mandates \cup {[id |-> call[p].mandate, at |-> call[p].at]}
    BY DEF Commits, SaveAtomically
  <1>4. Applied' = Applied \cup {call[p].mandate}
    <2> DEFINE added == [id |-> call[p].mandate, at |-> call[p].at]
    <2>1. mandates' = mandates \cup {added} /\ added.id = call[p].mandate
      BY <1>3
    <2> HIDE DEF added
    <2> QED
      BY <2>1 DEF Applied
  <1>5. Cardinality(mandates') = Cardinality(mandates) + 1
    <2>1. [id |-> call[p].mandate, at |-> call[p].at] \notin mandates
      BY <1>1
    <2>2. IsFiniteSet(mandates)
      BY LedgerIs DEF IInv, Distinct
    <2> QED
      BY <1>3, <2>1, <2>2, FS_AddElement
  <1>6. Range(call[p].list) \cup {call[p].mandate} = Applied'
    BY <1>1, <1>4, LedgerIs DEF IInv
  <1> QED
    BY <1>1, <1>2, <1>3, <1>4, <1>5, <1>6 DEF Commits, SaveAtomically

LEMMA StampsKept ==
    ASSUME IInv, NEW p \in Process, Moves(p)
    PROVE  StampInv'
  <1>0. /\ StampMoves(p) /\ Others(p) /\ calls \in Nat /\ calls' \in Nat /\ calls <= calls'
    BY OthersKept, StampSteps, StampIsNat DEF IInv, TypeOK, StampMoves
  <1>1. /\ \A q \in Process : pc'[q] # "idle" => call'[q].at \in 1..calls'
        /\ \A q, r \in Process :
             pc'[q] # "idle" /\ pc'[r] # "idle" /\ call'[q].at = call'[r].at => q = r
    BY <1>0 DEF IInv, StampInv, StampMoves, Others
  <1>2. /\ \A r, s \in mandates' : r.at = s.at => r = s
        /\ \A r \in mandates' : r.at \in 1..calls'
        /\ \A q \in Process : pc'[q] \in Committing => \A r \in mandates' : r.at # call'[q].at
    <2>1. CASE UNCHANGED mandates
      BY <1>0, <2>1 DEF IInv, StampInv, StampMoves, Others, Committing
    <2>2. CASE Commits(p) /\ pc'[p] \in {"event", "catch"}
      <3>1. mandates' = mandates \cup {[id |-> call[p].mandate, at |-> call[p].at]}
            /\ \A r \in mandates : r.at # call[p].at
        BY <2>2, CommitAdds
      <3>2. pc[p] = "commit" /\ call[p].at \in 1..calls
        BY <2>2 DEF Commits, IInv, StampInv
      <3>3. \A q \in Process \ {p} : pc[q] # "idle" => call[q].at # call[p].at
        BY <3>2 DEF IInv, StampInv
      <3> QED
        BY <1>0, <2>2, <3>1, <3>2, <3>3 DEF IInv, StampInv, Others, Committing
    <2> QED
      BY <1>0, <2>1, <2>2 DEF StampMoves
  <1>3. /\ \A c, d \in challenges' : c.at = d.at => c = d
        /\ \A c \in challenges' : c.at <= calls'
        /\ \A q \in Process :
             pc'[q] \in {"challenges", "issue"} => \A c \in challenges' : c.at # call'[q].at
    <2>0. \A c \in challenges : c.at \in Nat
      BY StampIsNat DEF IInv, TypeOK, Challenge
    <2>1. CASE UNCHANGED challenges
      BY <1>0, <2>0, <2>1 DEF IInv, StampInv, StampMoves, Others
    <2>2. CASE IssueChallenge(p)
      <3>1. /\ challenges' = challenges \cup {[at |-> call[p].at, live |-> TRUE, consumed |-> FALSE]}
            /\ pc[p] = "issue" /\ pc'[p] = "idle" /\ calls' = calls
        BY <2>2 DEF IssueChallenge, Leave, Goto, history, IInv, TypeOK
      <3>2. call[p].at \in 1..calls /\ \A c \in challenges : c.at # call[p].at
        BY <3>1 DEF IInv, StampInv
      <3>3. \A q \in Process \ {p} : pc[q] # "idle" => call[q].at # call[p].at
        BY <3>1 DEF IInv, StampInv
      <3> DEFINE new == [at |-> call[p].at, live |-> TRUE, consumed |-> FALSE]
      <3>4. challenges' = challenges \cup {new} /\ new.at = call[p].at
        BY <3>1
      <3> HIDE DEF new
      <3>5. /\ \A c, d \in challenges' : c.at = d.at => c = d
            /\ \A c \in challenges' : c.at <= calls'
        BY <1>0, <3>1, <3>2, <3>4 DEF IInv, StampInv
      <3>6. ASSUME NEW q \in Process, pc'[q] \in {"challenges", "issue"}, NEW c \in challenges'
            PROVE  c.at # call'[q].at
        <4>1. q # p /\ pc[q] = pc'[q] /\ call'[q] = call[q]
          BY <1>0, <3>1, <3>6 DEF Others
        <4>2. call[q].at # call[p].at
          BY <3>3, <3>6, <4>1
        <4> QED
          BY <3>4, <3>6, <4>1, <4>2 DEF IInv, StampInv
      <3> QED
        BY <3>5, <3>6
    <2>3. CASE ConsumeChallenge(p)
      <3>1. pc'[p] = "idle" /\ calls' = calls
        BY <2>3 DEF ConsumeChallenge, Leave, Goto, history, IInv, TypeOK
      <3>2. CASE UNCHANGED challenges
        BY <2>1, <3>2
      <3>3. CASE \E c \in challenges :
                   challenges' = (challenges \ {c}) \cup {[c EXCEPT !.consumed = TRUE]}
        <4>1. PICK c \in challenges :
                  challenges' = (challenges \ {c}) \cup {[c EXCEPT !.consumed = TRUE]}
          BY <3>3
        <4>2. [c EXCEPT !.consumed = TRUE].at = c.at
          BY DEF IInv, TypeOK, Challenge
        <4>3. \A d \in challenges' : \E e \in challenges : d.at = e.at
          BY <4>1, <4>2
        <4>4. \A d, e \in challenges' : d.at = e.at => d = e
          <5> DEFINE used == [c EXCEPT !.consumed = TRUE]
          <5>1. challenges' = (challenges \ {c}) \cup {used} /\ used.at = c.at
            BY <4>1, <4>2
          <5> HIDE DEF used
          <5> QED
            BY <4>1, <5>1 DEF IInv, StampInv
        <4>5. ASSUME NEW q \in Process, pc'[q] \in {"challenges", "issue"}, NEW d \in challenges'
              PROVE  d.at # call'[q].at
          <5>1. q # p /\ pc[q] = pc'[q] /\ call'[q] = call[q]
            BY <1>0, <3>1, <4>5 DEF Others
          <5> QED
            BY <4>3, <4>5, <5>1 DEF IInv, StampInv
        <4> QED
          BY <3>1, <4>3, <4>4, <4>5 DEF IInv, StampInv
      <3> QED
        BY <2>3, <3>2, <3>3 DEF ConsumeChallenge
    <2> QED
      BY <1>0, <2>1, <2>2, <2>3 DEF StampMoves
  <1> QED
    BY <1>1, <1>2, <1>3 DEF StampInv

\* Heads and mandates only change together.
LEMMA HeadsKept ==
    ASSUME IInv, NEW p \in Process, Moves(p)
    PROVE  /\ HeadInv'
           /\ ledgerHead.version <= ledgerHead'.version /\ keyring.version <= keyring'.version
           /\ ledgerHead.version = ledgerHead'.version =>
                UNCHANGED <<mandates, ledgerHead, keyring>>
           /\ keyring.version = keyring'.version =>
                UNCHANGED <<mandates, ledgerHead, keyring>>
  <1>1. Cardinality(mandates) \in Nat
    BY LedgerIs, FS_CardinalityType DEF IInv, Distinct
  <1>2. CASE UNCHANGED <<mandates, ledgerHead, keyring>>
    <2>1. Applied' = Applied
      BY <1>2 DEF Applied
    <2> QED
      BY <1>1, <1>2, <2>1 DEF IInv, HeadInv, LedgerComplete
  <1>3. CASE Commits(p)
    <2>1. /\ ledgerHead'.covers = Applied' /\ ledgerHead'.version = ledgerHead.version + 1
          /\ keyring'.version = keyring.version + 1
          /\ Cardinality(mandates') = Cardinality(mandates) + 1
      <3>1. /\ ledgerHead' = [covers |-> Applied', version |-> ledgerHead.version + 1]
            /\ keyring' = [keys |-> call[p].config, version |-> keyring.version + 1]
            /\ Cardinality(mandates') = Cardinality(mandates) + 1
        BY <1>3, CommitAdds
      <3> QED
        BY <3>1
    <2>2. ledgerHead.version = Cardinality(mandates) /\ keyring.version = Cardinality(mandates)
      BY DEF IInv, HeadInv
    <2> QED
      BY <1>1, <2>1, <2>2 DEF HeadInv, LedgerComplete
  <1> QED
    BY <1>2, <1>3, StampSteps DEF IInv, StampMoves

LEMMA AttemptsKept ==
    ASSUME IInv, NEW p \in Process, Moves(p)
    PROVE  AttemptInv'
  <1>1. CASE UNCHANGED <<challenges, attempts>>
    BY <1>1 DEF IInv, AttemptInv, OneAttempt
  <1>2. CASE IssueChallenge(p) /\ UNCHANGED attempts
    BY <1>2 DEF IInv, AttemptInv, OneAttempt, IssueChallenge
  <1>3. CASE ConsumeChallenge(p)
    <2>1. PICK c \in challenges :
              IF VersionUnchanged(c)
              THEN /\ challenges' = (challenges \ {c}) \cup {[c EXCEPT !.consumed = TRUE]}
                   /\ attempts' = attempts \cup {<<c.at, call[p].at>>}
              ELSE UNCHANGED <<challenges, attempts>>
      BY <1>3 DEF ConsumeChallenge
    <2>2. CASE ~VersionUnchanged(c)
      BY <1>1, <2>1, <2>2
    <2>3. CASE VersionUnchanged(c)
      <3> DEFINE used == [c EXCEPT !.consumed = TRUE]
      <3>1. used.at = c.at /\ used.consumed /\ ~c.consumed
        BY <2>3 DEF IInv, TypeOK, Challenge, VersionUnchanged
      <3>2. challenges' = (challenges \ {c}) \cup {used}
            /\ attempts' = attempts \cup {<<c.at, call[p].at>>}
        BY <2>1, <2>3
      <3> HIDE DEF used
      <3>3. \A x \in attempts : x[1] # c.at
        BY <3>1 DEF IInv, AttemptInv, StampInv
      <3>4. ASSUME NEW x \in attempts'
            PROVE  \E d \in challenges' : d.at = x[1] /\ d.consumed
        <4>1. CASE x \in attempts
          <5>1. PICK d \in challenges : d.at = x[1] /\ d.consumed
            BY <4>1 DEF IInv, AttemptInv
          <5> QED
            BY <3>1, <3>2, <5>1
        <4>2. CASE x = <<c.at, call[p].at>>
          BY <3>1, <3>2, <4>2
        <4> QED
          BY <3>2, <4>1, <4>2
      <3>5. OneAttempt'
        BY <3>2, <3>3 DEF IInv, AttemptInv, OneAttempt
      <3> QED
        BY <3>4, <3>5 DEF AttemptInv
    <2> QED
      BY <2>2, <2>3
  <1> QED
    BY <1>1, <1>2, <1>3, StampSteps DEF IInv, StampMoves

\* A new revision is the latest or the one before still is.
LEMMA LatestKept ==
    ASSUME IInv, NEW p \in Process, Moves(p)
    PROVE  LatestInv'
  <1>1. CASE UNCHANGED revisions
    BY <1>1 DEF IInv, LatestInv
  <1>2. CASE SaveRevision(p)
    <2> DEFINE new == [seq |-> call[p].prior.seq + 1, at |-> call[p].at,
                       resolved |-> call[p].prior.resolved \cup
                          (StillOpen(call[p].mandate, call[p].prior) \X {call[p].mandate})]
    <2>1. /\ revisions' = revisions \cup {new}
          /\ new.seq \in Nat /\ new.at \in Nat
      <3>1. call[p] \in Call
        BY DEF IInv, TypeOK
      <3>2. call[p].prior.seq \in Nat /\ call[p].at \in Nat
        BY <3>1, StampIsNat DEF Call, Revision
      <3>3. revisions' = revisions \cup {new}
        BY <1>2 DEF SaveRevision
      <3> QED
        BY <3>2, <3>3
    <2>2. \A r \in revisions : r.seq \in Nat /\ r.at \in Nat
      BY StampIsNat DEF IInv, TypeOK, Revision
    <2> HIDE DEF new
    <2> QED
      BY <2>1, <2>2 DEF IInv, LatestInv
  <1>3. CASE ~SaveRevision(p)
    <2>1. UNCHANGED revisions
      BY <1>3 DEF Moves, Step, BeginApply, ClaimMandate, LoadLedger, LoadKeyring, Commit,
        AppendEvent, ReadDiscovery, MarkApplied, Catch, BeginPrepare, ReadChallenges,
        IssueChallenge, BeginVerify, LookUpChallenge, ConsumeChallenge, Throw, LoseReply,
        Crash, stored, assets
    <2> QED
      BY <1>1, <2>1
  <1> QED
    BY <1>2, <1>3

\* What a request has loaded stays true as long as the versions stand.
LEMMA LoadedStays ==
    ASSUME IInv, NEW p \in Process, Moves(p), NEW q \in Process \ {p}
    PROVE  LoadedInv(q)'
  <1>1. pc'[q] = pc[q] /\ call'[q] = call[q] /\ LoadedInv(q)
    BY OthersKept DEF IInv, Others
  <1>2. /\ ledgerHead.version \in Nat /\ ledgerHead'.version \in Nat
        /\ keyring.version \in Nat /\ keyring'.version \in Nat
        /\ call[q].ledgerVersion \in Nat /\ call[q].keyringVersion \in Nat
    <2>1. Cardinality(mandates) \in Nat
      BY LedgerIs, FS_CardinalityType DEF IInv, Distinct
    <2>2. call[q] \in Call
      BY DEF IInv, TypeOK
    <2>3. /\ ledgerHead'.version \in {ledgerHead.version, ledgerHead.version + 1}
          /\ keyring'.version \in {keyring.version, keyring.version + 1}
      BY StampSteps DEF IInv, StampMoves, Commits, SaveAtomically
    <2> QED
      BY <2>1, <2>2, <2>3 DEF IInv, HeadInv, Call
  <1>3. pc[q] \in {"keyring", "commit"} =>
          /\ call[q].ledgerVersion <= ledgerHead'.version
          /\ call[q].ledgerVersion = ledgerHead'.version => call[q].list = Listed'
    BY <1>1, <1>2, HeadsKept DEF LoadedInv, Listed
  <1>4. pc[q] = "commit" =>
          /\ call[q].keyringVersion <= keyring'.version
          /\ call[q].keyringVersion = keyring'.version =>
               KeyringLoads(Range(call[q].list), call[q].config)'
    <2>1. SUFFICES ASSUME pc[q] = "commit"
                   PROVE  /\ call[q].keyringVersion <= keyring'.version
                          /\ call[q].keyringVersion = keyring'.version =>
                               KeyringLoads(Range(call[q].list), call[q].config)'
      OBVIOUS
    <2>2. call[q].keyringVersion <= keyring.version /\ keyring.version <= keyring'.version
      BY <1>1, <2>1, HeadsKept DEF LoadedInv
    <2>3. CASE call[q].keyringVersion = keyring'.version
      <3>1. call[q].keyringVersion = keyring.version /\ keyring' = keyring
        BY <1>2, <2>2, <2>3, HeadsKept
      <3> QED
        BY <1>1, <1>2, <2>1, <2>2, <3>1 DEF LoadedInv, KeyringLoads
    <2> QED
      BY <1>2, <2>2, <2>3
  <1> QED
    BY <1>1, <1>3, <1>4 DEF LoadedInv

LEMMA LoadedHere ==
    ASSUME IInv, NEW p \in Process, Moves(p)
    PROVE  LoadedInv(p)'
  <1>0. /\ pc \in [Process -> Stage] /\ call \in [Process -> Call] /\ LoadedInv(p)
        /\ call[p] \in Call
    BY DEF IInv, TypeOK
  <1> USE <1>0 DEF Goto, Set, Leave, Settle, Applying, Committing
  <1>1. CASE BeginApply(p)
    BY <1>1, LedgerAssumption DEF BeginApply, LoadedInv, NoCall, LedgerAssumption
  <1>2. CASE ClaimMandate(p)
    BY <1>2 DEF ClaimMandate, LoadedInv
  <1>3. CASE LoadLedger(p)
    <2>1. CASE LedgerComplete
      <3>1. /\ call'[p] = [call[p] EXCEPT !.list = Listed, !.attempt = @ + 1,
                                          !.ledgerVersion = ledgerHead.version]
            /\ pc'[p] = "keyring" /\ pc[p] = "load"
            /\ ledgerHead' = ledgerHead /\ mandates' = mandates
        BY <1>3, <2>1 DEF LoadLedger, stored, assets
      <3>2. /\ call'[p].list = Listed /\ call'[p].ledgerVersion = ledgerHead.version
            /\ call'[p].mandate = call[p].mandate
        BY <3>1 DEF Call
      <3>3. Listed' = Listed
        BY <3>1 DEF Listed
      <3>4. ledgerHead.version \in Nat
        BY LedgerIs, FS_CardinalityType DEF IInv, Distinct, HeadInv
      <3> QED
        BY <3>1, <3>2, <3>3, <3>4 DEF LoadedInv
    <2>2. CASE ~LedgerComplete
      BY <1>3, <2>2 DEF LoadLedger, LoadedInv
    <2> QED
      BY <2>1, <2>2
  <1>4. CASE LoadKeyring(p)
    <2>1. CASE pc'[p] = "commit"
      <3>1. /\ call'[p] = [call[p] EXCEPT !.keyringVersion = keyring.version]
            /\ pc[p] = "keyring"
            /\ UNCHANGED <<ledgerHead, mandates, keyring>>
            /\ KeyringLoads(Range(call[p].list), call[p].config)
            /\ History!Verified(call[p].mandate, call[p].list, call[p].config, call[p].at)
        BY <1>4, <2>1 DEF LoadKeyring, stored, assets
      <3>2. /\ call'[p].list = call[p].list /\ call'[p].ledgerVersion = call[p].ledgerVersion
            /\ call'[p].mandate = call[p].mandate /\ call'[p].config = call[p].config
            /\ call'[p].keyringVersion = keyring.version /\ call'[p].at = call[p].at
        BY <3>1 DEF Call
      <3>3. Listed' = Listed
        BY <3>1 DEF Listed
      <3>4. keyring.version \in Nat
        BY LedgerIs, FS_CardinalityType DEF IInv, Distinct, HeadInv
      <3>5. KeyringLoads(Range(call[p].list), call[p].config)'
        BY <3>1, <3>2 DEF KeyringLoads
      <3> QED
        BY <2>1, <3>1, <3>2, <3>3, <3>4, <3>5 DEF LoadedInv
    <2>2. CASE pc'[p] # "commit"
      BY <1>4, <2>2 DEF LoadKeyring, LoadedInv
    <2> QED
      BY <2>1, <2>2
  <1>5. CASE Commit(p)
    <2>1. CASE Unchanged(p)
      <3>1. /\ pc[p] = "commit" /\ pc'[p] = "event"
            /\ call'[p].mandate = call[p].mandate
        BY <1>5, <2>1 DEF Commit, Call
      <3> QED
        BY <3>1 DEF LoadedInv, Applying
    <2>2. CASE ~Unchanged(p)
      <3>1. CASE TriesLeft(p)
        BY <1>5, <2>2, <3>1, LedgerAssumption DEF Commit, LoadedInv, TriesLeft, Call, LedgerAssumption
      <3>2. CASE ~TriesLeft(p)
        BY <1>5, <2>2, <3>2 DEF Commit, LoadedInv, Call
      <3> QED
        BY <3>1, <3>2
    <2> QED
      BY <2>1, <2>2
  <1>6. CASE AppendEvent(p) \/ ReadDiscovery(p) \/ SaveRevision(p) \/ MarkApplied(p) \/ Catch(p)
    <2>1. CASE AppendEvent(p) \/ MarkApplied(p) \/ Catch(p)
      BY <2>1 DEF AppendEvent, MarkApplied, Catch, LoadedInv, Call
    <2>2. CASE ReadDiscovery(p)
      BY <2>2 DEF ReadDiscovery, LoadedInv, Call
    <2>3. CASE SaveRevision(p)
      BY <2>3 DEF SaveRevision, LoadedInv, Call
    <2> QED
      BY <1>6, <2>1, <2>2, <2>3
  <1>7. CASE BeginPrepare(p) \/ ReadChallenges(p) \/ IssueChallenge(p)
    BY <1>7 DEF BeginPrepare, ReadChallenges, IssueChallenge, LoadedInv
  <1>8. CASE BeginVerify(p) \/ LookUpChallenge(p) \/ ConsumeChallenge(p)
    BY <1>8 DEF BeginVerify, LookUpChallenge, ConsumeChallenge, LoadedInv
  <1>9. CASE Throw(p) \/ LoseReply(p) \/ Crash(p)
    BY <1>9 DEF Throw, LoseReply, Crash, LoadedInv, InTry
  <1> QED
    BY <1>1, <1>2, <1>3, <1>4, <1>5, <1>6, <1>7, <1>8, <1>9 DEF Moves, Step

\* Types.
LEMMA TypeKept ==
    ASSUME IInv, NEW p \in Process, Moves(p)
    PROVE  TypeOK'
  <1>0. /\ pc \in [Process -> Stage] /\ call \in [Process -> Call] /\ LoadedInv(p)
        /\ call[p] \in Call /\ TypeOK /\ calls \in Stamp /\ calls' \in Nat
    BY StampSteps, StampIsNat DEF IInv, TypeOK, StampMoves
  <1>1. mandates' \subseteq MandateAsset
    BY CommitAdds, StampSteps DEF IInv, TypeOK, StampMoves
  <1>2. calls' \in Stamp
    <2>1. calls' = calls \/ (calls' = calls + 1 /\ calls < MaxCalls)
      BY DEF Moves, Step, BeginApply, ClaimMandate, LoadLedger, LoadKeyring, Commit,
        AppendEvent, ReadDiscovery, SaveRevision, MarkApplied, Catch, BeginPrepare,
        ReadChallenges, IssueChallenge, BeginVerify, LookUpChallenge, ConsumeChallenge, Throw,
        LoseReply, Crash, Begin
    <2> QED
      BY <1>0, <2>1, StampIsNat DEF Stamp
  <1>3. /\ ledgerHead' \in [covers: SUBSET Mandate, version: 0..MaxCalls]
        /\ keyring' \in [keys: SUBSET RootKey, version: 0..MaxCalls]
    <2>1. CASE UNCHANGED <<mandates, ledgerHead, keyring>>
      BY <1>0, <2>1 DEF TypeOK
    <2>2. CASE Commits(p)
      <3>1. /\ ledgerHead' = [covers |-> Applied', version |-> ledgerHead.version + 1]
            /\ keyring' = [keys |-> call[p].config, version |-> keyring.version + 1]
            /\ Cardinality(mandates') = Cardinality(mandates) + 1
        BY <2>2, CommitAdds
      <3>2. /\ Cardinality(mandates') <= calls' /\ Cardinality(mandates) \in Nat
            /\ Applied' \subseteq Mandate
        <4>1. StampInv' /\ calls' \in Nat /\ IsFiniteSet(mandates)
          BY <1>0, StampsKept, LedgerIs DEF IInv, Distinct
        <4>3. Applied' \subseteq Mandate
          BY <1>1 DEF Applied, MandateAsset
        <4>4. Cardinality(mandates') <= calls'
          <5> DEFINE at == [r \in mandates' |-> r.at]
          <5>1. at \in Injection(mandates', 1..calls')
            BY <4>1 DEF StampInv, Injection, IsInjective
          <5>2. IsFiniteSet(1..calls') /\ Cardinality(1..calls') = calls'
            BY <4>1, FS_Interval
          <5> HIDE DEF at
          <5> QED
            BY <5>1, <5>2, FS_Injection
        <4> QED
          BY <4>1, <4>3, <4>4, FS_CardinalityType
      <3>3. ledgerHead.version + 1 \in 0..MaxCalls /\ keyring.version + 1 \in 0..MaxCalls
        BY <1>2, <3>1, <3>2, StampIsNat DEF IInv, HeadInv, Stamp
      <3>4. call[p].config \subseteq RootKey
        BY <1>0 DEF Call
      <3> QED
        BY <3>1, <3>2, <3>3, <3>4
    <2> QED
      BY <2>1, <2>2, StampSteps DEF IInv, StampMoves
  <1>4. /\ journal' \in [Mandate -> {"none", "intent", "applied", "failed", "unknown"}]
        /\ events' \subseteq Mandate /\ unauthorised' \subseteq Mandate
        /\ faults' \in 0..MaxFaults
    <2>1. faults' = faults \/ (faults' = faults + 1 /\ faults < MaxFaults)
      BY DEF Moves, Step, BeginApply, ClaimMandate, LoadLedger, LoadKeyring, Commit,
        AppendEvent, ReadDiscovery, SaveRevision, MarkApplied, Catch, BeginPrepare,
        ReadChallenges, IssueChallenge, BeginVerify, LookUpChallenge, ConsumeChallenge, Throw,
        LoseReply, Crash, Fault
    <2>2. faults' \in 0..MaxFaults
      BY <1>0, <2>1, LedgerAssumption DEF TypeOK, LedgerAssumption
    <2>3. \/ UNCHANGED <<journal, events, unauthorised>>
          \/ ClaimMandate(p) \/ AppendEvent(p) \/ SaveRevision(p) \/ MarkApplied(p) \/ Catch(p)
      BY DEF Moves, Step, BeginApply, LoadLedger, LoadKeyring, Commit,
        ReadDiscovery, BeginPrepare,
        ReadChallenges, IssueChallenge, BeginVerify, LookUpChallenge, ConsumeChallenge, Throw,
        LoseReply, Crash, stored, assets, history
    <2>4. pc[p] \in Applying => call[p].mandate \in Mandate
      BY <1>0 DEF LoadedInv
    <2>5. CASE UNCHANGED <<journal, events, unauthorised>>
      BY <1>0, <2>2, <2>5 DEF TypeOK
    <2>6. CASE ClaimMandate(p) \/ MarkApplied(p) \/ Catch(p)
      BY <1>0, <2>2, <2>4, <2>6
         DEF TypeOK, Applying, Committing, ClaimMandate, MarkApplied, Catch, history
    <2>7. CASE AppendEvent(p) \/ SaveRevision(p)
      BY <1>0, <2>2, <2>4, <2>7 DEF TypeOK, Applying, Committing, AppendEvent, SaveRevision, history
    <2> QED
      BY <2>3, <2>5, <2>6, <2>7
  <1>5. revisions' \subseteq Revision
    <2>1. CASE UNCHANGED revisions
      BY <1>0, <2>1 DEF TypeOK
    <2>2. CASE SaveRevision(p)
      <3>1. /\ call[p].prior \in Revision /\ call[p].at \in Stamp /\ call[p].mandate \in Mandate
        BY <1>0, <2>2 DEF Call, SaveRevision, LoadedInv, Applying, Committing
      <3>2. StillOpen(call[p].mandate, call[p].prior) \subseteq Question
        BY <3>1, LedgerAssumption DEF StillOpen, LedgerAssumption
      <3>3. [seq |-> call[p].prior.seq + 1, at |-> call[p].at,
             resolved |-> call[p].prior.resolved \cup
               (StillOpen(call[p].mandate, call[p].prior) \X {call[p].mandate})] \in Revision
        BY <3>1, <3>2 DEF Revision
      <3> QED
        BY <1>0, <2>2, <3>3 DEF SaveRevision, TypeOK
    <2>3. CASE ~SaveRevision(p)
      <3>1. UNCHANGED revisions
        BY <2>3 DEF Moves, Step, BeginApply, ClaimMandate, LoadLedger, LoadKeyring, Commit,
          AppendEvent, ReadDiscovery, MarkApplied, Catch, BeginPrepare, ReadChallenges,
          IssueChallenge, BeginVerify, LookUpChallenge, ConsumeChallenge, Throw, LoseReply,
          Crash, stored, assets
      <3> QED
        BY <2>1, <3>1
    <2> QED
      BY <2>2, <2>3
  <1>6. challenges' \subseteq Challenge /\ attempts' \subseteq Stamp \X Stamp
    <2>1. call[p].at \in Stamp
      BY <1>0 DEF Call
    <2>2. CASE UNCHANGED <<challenges, attempts>>
      BY <1>0, <2>2 DEF TypeOK
    <2>3. CASE IssueChallenge(p)
      <3>1. [at |-> call[p].at, live |-> TRUE, consumed |-> FALSE] \in Challenge
        BY <2>1 DEF Challenge
      <3> QED
        BY <1>0, <2>3, <3>1 DEF TypeOK, IssueChallenge, history
    <2>4. CASE ConsumeChallenge(p)
      <3>1. \A c \in challenges : c.at \in Stamp /\ [c EXCEPT !.consumed = TRUE] \in Challenge
        BY <1>0 DEF TypeOK, Challenge
      <3>2. \E c \in challenges :
              \/ /\ challenges' = (challenges \ {c}) \cup {[c EXCEPT !.consumed = TRUE]}
                 /\ attempts' = attempts \cup {<<c.at, call[p].at>>}
              \/ UNCHANGED <<challenges, attempts>>
        BY <2>4 DEF ConsumeChallenge
      <3>3. challenges \subseteq Challenge /\ attempts \subseteq Stamp \X Stamp
        BY <1>0 DEF TypeOK
      <3>4. PICK c \in challenges :
              \/ /\ challenges' = (challenges \ {c}) \cup {[c EXCEPT !.consumed = TRUE]}
                 /\ attempts' = attempts \cup {<<c.at, call[p].at>>}
              \/ UNCHANGED <<challenges, attempts>>
        BY <3>2
      <3>5. <<c.at, call[p].at>> \in Stamp \X Stamp
        BY <2>1, <3>1
      <3> QED
        BY <3>1, <3>3, <3>4, <3>5
    <2> QED
      BY <2>2, <2>3, <2>4, StampSteps DEF IInv, StampMoves
  <1>7. pc' \in [Process -> Stage]
    BY <1>0 DEF Stage, Moves, Step, BeginApply, ClaimMandate, LoadLedger, LoadKeyring, Commit,
        AppendEvent, ReadDiscovery, SaveRevision, MarkApplied, Catch, BeginPrepare,
        ReadChallenges, IssueChallenge, BeginVerify, LookUpChallenge, ConsumeChallenge, Throw,
        LoseReply, Crash, Goto, Leave, Settle, stored, assets, history
  <1>8. call' \in [Process -> Call]
    <2> USE <1>0 DEF Set, Leave, Settle
    <2>2. NoCall \in Call
      BY LedgerAssumption DEF NoCall, Call, LedgerAssumption, FirstRevision, Revision, Stamp
    <2>3. CASE BeginApply(p)
      <3>1. ASSUME NEW m \in Mandate, NEW config \in SUBSET RootKey, NEW at \in Stamp,
                   NEW repeated \in BOOLEAN
            PROVE  [NoCall EXCEPT !.mandate = m, !.config = config, !.at = at,
                                  !.repeated = repeated] \in Call
        BY <2>2 DEF Call
      <3>2. PICK m \in Mandate, config \in SUBSET RootKey :
                Set(p, [NoCall EXCEPT !.mandate = m, !.config = config, !.at = calls',
                                      !.repeated = m \in Applied])
        BY <2>3 DEF BeginApply
      <3>3. (m \in Applied) \in BOOLEAN
        OBVIOUS
      <3> HIDE DEF Set
      <3>4. [NoCall EXCEPT !.mandate = m, !.config = config, !.at = calls',
                           !.repeated = m \in Applied] \in Call
        BY <1>2, <3>1, <3>3
      <3> QED
        BY <3>2, <3>4 DEF Set
    <2>4. CASE ClaimMandate(p) \/ AppendEvent(p) \/ MarkApplied(p) \/ Catch(p)
      BY <2>2, <2>4 DEF ClaimMandate, AppendEvent, MarkApplied, Catch
    <2>5. CASE Commit(p)
      <3>1. [call[p] EXCEPT !.persisted = TRUE] \in Call
        BY DEF Call
      <3> QED
        BY <2>5, <3>1 DEF Commit
    <2>6. CASE LoadLedger(p)
      <3>1. Listed \in Seq(Mandate) /\ ledgerHead.version \in Nat
        BY LedgerIs, FS_CardinalityType DEF IInv, Distinct, HeadInv
      <3>2. pc[p] = "load" => call[p].attempt + 1 \in 0..MaxTries
        BY LedgerAssumption DEF LoadedInv, Call, LedgerAssumption
      <3>3. pc[p] = "load" => [call[p] EXCEPT !.list = Listed, !.attempt = @ + 1,
                                              !.ledgerVersion = ledgerHead.version] \in Call
        BY <3>1, <3>2 DEF Call
      <3> QED
        BY <2>6, <3>3 DEF LoadLedger
    <2>7. CASE LoadKeyring(p)
      <3>1. keyring.version \in Nat
        BY LedgerIs, FS_CardinalityType DEF IInv, Distinct, HeadInv
      <3>2. [call[p] EXCEPT !.keyringVersion = keyring.version] \in Call
        BY <3>1 DEF Call
      <3> QED
        BY <2>7, <3>2 DEF LoadKeyring
    <2>8. CASE ReadDiscovery(p)
      <3>1. Latest \in Revision
        BY DEF IInv, LatestInv, Latest, TypeOK
      <3>2. [call[p] EXCEPT !.prior = Latest] \in Call
        BY <3>1 DEF Call
      <3> QED
        BY <2>2, <2>8, <3>2 DEF ReadDiscovery
    <2>9. CASE SaveRevision(p)
      BY <2>2, <2>9 DEF SaveRevision
    <2>10. CASE BeginPrepare(p) \/ BeginVerify(p)
      <3>1. [NoCall EXCEPT !.at = calls'] \in Call
        BY <1>2, <2>2 DEF Call
      <3> QED
        BY <2>10, <3>1 DEF BeginPrepare, BeginVerify
    <2>11. CASE ReadChallenges(p) \/ IssueChallenge(p) \/ ConsumeChallenge(p)
      BY <2>2, <2>11 DEF ReadChallenges, IssueChallenge, ConsumeChallenge
    <2>12. CASE LookUpChallenge(p)
      <3>1. \A c \in challenges : [call[p] EXCEPT !.challenge = c.at] \in Call
        BY DEF Call, TypeOK, Challenge
      <3> QED
        BY <2>2, <2>12, <3>1 DEF LookUpChallenge
    <2>13. CASE Throw(p) \/ LoseReply(p) \/ Crash(p)
      BY <2>2, <2>13 DEF Throw, LoseReply, Crash
    <2> QED
      BY <2>3, <2>4, <2>5, <2>6, <2>7, <2>8, <2>9, <2>10, <2>11, <2>12, <2>13 DEF Moves, Step
  <1> QED
    BY <1>1, <1>2, <1>3, <1>4, <1>5, <1>6, <1>7, <1>8 DEF TypeOK

\* A challenge that expires keeps its stamp and whether it was consumed.
LEMMA ExpiryKeeps ==
    ASSUME IInv, ExpireChallenge
    PROVE  IInv'
  <1>1. PICK c \in challenges : challenges' = (challenges \ {c}) \cup {[c EXCEPT !.live = FALSE]}
    BY DEF ExpireChallenge
  <1>2. UNCHANGED <<mandates, ledgerHead, keyring, revisions, journal, events, pc, call,
                    calls, faults, attempts, unauthorised>>
    BY DEF ExpireChallenge, history
  <1> DEFINE expired == [c EXCEPT !.live = FALSE]
  <1>3. expired \in Challenge /\ expired.at = c.at /\ expired.consumed = c.consumed
    BY DEF IInv, TypeOK, Challenge
  <1>4. challenges' = (challenges \ {c}) \cup {expired}
    BY <1>1
  <1> HIDE DEF expired
  <1>5. TypeOK'
    BY <1>2, <1>3, <1>4 DEF IInv, TypeOK
  <1>6. StampInv'
    BY <1>1, <1>2, <1>3, <1>4 DEF IInv, StampInv
  <1>7. AttemptInv'
    BY <1>2, <1>3, <1>4 DEF IInv, AttemptInv, OneAttempt
  <1>8. HeadInv' /\ LatestInv' /\ \A p \in Process : LoadedInv(p)'
    BY <1>2 DEF IInv, HeadInv, LatestInv, LoadedInv, LedgerComplete, Applied, Listed, KeyringLoads
  <1> QED
    BY <1>5, <1>6, <1>7, <1>8 DEF IInv

LEMMA InitInv == Init => IInv
  <1> SUFFICES ASSUME Init PROVE IInv
    OBVIOUS
  <1>1. TypeOK
    BY LedgerAssumption DEF Init, TypeOK, NoCall, Call, LedgerAssumption, FirstRevision, Revision, Stamp, Stage
  <1>2. StampInv /\ AttemptInv
    BY DEF Init, StampInv, AttemptInv, OneAttempt, Committing
  <1>3. HeadInv
    BY FS_EmptySet DEF Init, HeadInv, LedgerComplete, Applied
  <1>4. LatestInv /\ \A p \in Process : LoadedInv(p)
    BY DEF Init, LatestInv, FirstRevision, LoadedInv, Applying, Committing
  <1> QED
    BY <1>1, <1>2, <1>3, <1>4 DEF IInv

LEMMA Invariance == Spec => []IInv
  <1>1. IInv /\ [Next]_vars => IInv'
    <2> SUFFICES ASSUME IInv, [Next]_vars PROVE IInv'
      OBVIOUS
    <2>1. CASE \E p \in Process : Moves(p)
      BY <2>1, TypeKept, StampsKept, HeadsKept, AttemptsKept, LatestKept, LoadedStays, LoadedHere
         DEF IInv
    <2>2. CASE ExpireChallenge
      BY <2>2, ExpiryKeeps
    <2>3. CASE UNCHANGED vars
      BY <2>3 DEF vars, stored, assets, history, IInv, TypeOK, StampInv, HeadInv, AttemptInv,
                  OneAttempt, LatestInv, LoadedInv, LedgerComplete, Applied, Listed,
                  KeyringLoads
    <2> QED
      BY <2>1, <2>2, <2>3 DEF Next, Moves
  <1> QED
    BY <1>1, InitInv, PTL DEF Spec

-----------------------------------------------------------------------------
(* The theorems. *)

\* Every reachable state of the ledger, its heads, the requests and the challenges
\* is well typed, and the versions of the heads stay within the requests.
THEOREM TypeCorrect == Spec => []TypeOK
  <1>1. IInv => TypeOK
    BY DEF IInv
  <1> QED
    BY <1>1, Invariance, PTL

\* The ledger head of companyAuthorityMandateApply covers exactly the mandates
\* applied, whatever requests overlap, retry, throw, lose their reply or die.
THEOREM LedgerWhole == Spec => []LedgerNeverIncomplete
  <1>1. IInv => LedgerNeverIncomplete
    BY DEF IInv, HeadInv, LedgerNeverIncomplete
  <1> QED
    BY <1>1, Invariance, PTL

\* A root enrollment challenge is retired before a proof is evaluated for it, so no
\* challenge serves two proofs.
THEOREM ChallengeServesOnce == Spec => []OneAttempt
  <1>1. IInv => OneAttempt
    BY DEF IInv, AttemptInv
  <1> QED
    BY <1>1, Invariance, PTL

\* The requests, whose verification and commit are separate calls of the store,
\* implement the history in which a mandate is verified against exactly those it
\* joins and no root key is dropped.
THEOREM Refinement == Spec => LedgerHistory
  <1>1. Init => History!HistoryInit
    <2> SUFFICES ASSUME Init PROVE History!HistoryInit
      OBVIOUS
    <2>1. Listed \in Seq(Mandate) /\ Len(Listed) = 0
      BY InitInv, LedgerIs, ListIs, FS_EmptySet DEF IInv, Init, Listed
    <2>2. Listed = <<>>
      BY <2>1
    <2> QED
      BY <2>2 DEF Init, History!HistoryInit
  <1>2. IInv /\ [Next]_vars => [History!HistoryNext]_(History!historyVars)
    <2> SUFFICES ASSUME IInv, [Next]_vars
                 PROVE  History!HistoryNext \/ UNCHANGED <<Listed, keyring.keys, calls>>
      BY DEF History!historyVars
    <2>1. CASE UNCHANGED <<mandates, keyring, calls>>
      BY <2>1 DEF Listed
    <2>2. CASE calls < MaxCalls /\ calls' = calls + 1 /\ UNCHANGED <<mandates, keyring>>
      BY <2>2 DEF Listed, History!HistoryNext, History!TimePasses
    <2>3. ASSUME NEW p \in Process, Commits(p), UNCHANGED calls
          PROVE  History!HistoryNext
      <3> DEFINE m == call[p].mandate
                 added == [id |-> m, at |-> call[p].at]
      <3>1. /\ call[p].list = Listed /\ mandates' = mandates \cup {added}
            /\ added \in MandateAsset /\ \A r \in mandates : r.at # added.at
            /\ keyring'.keys = call[p].config
        BY <2>3, CommitAdds
      <3>2. /\ m \in Mandate /\ call[p].config \in SUBSET RootKey /\ m \notin Applied
            /\ History!Verified(m, Listed, call[p].config, call[p].at)
            /\ History!KeyringComplete(Range(Listed), call[p].config, keyring.keys)
        BY <2>3, <3>1 DEF IInv, LoadedInv, Commits, Unchanged, Applying, Committing, TypeOK, Call,
                          KeyringLoads
      <3>3. PICK i \in 1 .. Len(Listed) + 1 : Listed' = History!InsertAt(Listed, i, m)
        <4>1. Distinct(mandates) /\ added.id = m
          BY LedgerIs DEF IInv
        <4> HIDE DEF added
        <4> QED
          BY <3>1, <4>1, ListInsert DEF Listed
      <3>4. Range(Listed) = Applied
        BY LedgerIs DEF IInv
      <3>5. History!Range(Listed) = Range(Listed)
        BY DEF Range, History!Range
      <3>6. call[p].at \in 0..calls
        <4>1. calls \in Nat /\ call[p].at \in 1..calls
          BY <2>3, StampIsNat DEF IInv, TypeOK, StampInv, Commits
        <4> QED
          BY <4>1
      <3>7. History!Admits(call[p].config, m)
        BY <3>2, <3>4, <3>5, <3>6 DEF History!Admits
      <3>8. History!Apply(m, call[p].config, i)
        BY <2>3, <3>1, <3>3 DEF History!Apply
      <3> QED
        BY <3>2, <3>3, <3>7, <3>8 DEF History!HistoryNext
    <2>4. CASE \E p \in Process : Moves(p)
      BY <2>1, <2>2, <2>3, <2>4, StampSteps DEF IInv, StampMoves
    <2>5. CASE ExpireChallenge \/ UNCHANGED vars
      BY <2>1, <2>5 DEF ExpireChallenge, vars, stored, assets
    <2> QED
      BY <2>4, <2>5 DEF Next, Moves
  <1> QED
    BY <1>1, <1>2, Invariance, PTL DEF Spec, LedgerHistory, History!HistorySpec

\* The anchors that the active mandates of a list make.
AnchorsBy(active, l) ==
    LET Delegated(k) ==
            {i \in DOMAIN l :
               /\ l[i] \in active
               /\ "delegate" \in Content[l[i]].scopes
               /\ \E g \in Content[l[i]].delegates : g.key = k}
        First(k) == CHOOSE i \in Delegated(k) : \A j \in Delegated(k) : i <= j
        Claim(k) == CHOOSE g \in Content[l[First(k)]].delegates : g.key = k
    IN  RootAnchors(RootKey) \cup
        {[key |-> k, owner |-> FALSE, from |-> DelegatedFrom(l[First(k)]),
          scopes |-> Claim(k).scopes] : k \in {k \in Key \ RootKey : Delegated(k) # {}}}

\* The functions of the ledger's history are those of AuthorityMandates, too.
LEMMA SameInLedger ==
    /\ \A l : History!Range(l) = Range(l)
    /\ \A m, a : History!BaseValid(m, a) = BaseValid(m, a)
    /\ \A m, n : History!InForce(m, n) = InForce(m, n)
    /\ \A l, n : History!Current(l, n) = Current(l, n)
    /\ \A l, n : History!EffectiveAnchors(l, RootKey, n) = EffectiveAnchors(l, RootKey, n)
    /\ \A l, n : History!Active(l, RootKey, n) = Active(l, RootKey, n)
    /\ \A E, S, a : History!TakesTurn(E, S, a) = TakesTurn(E, S, a)
    /\ \A S, a : History!ActiveByDefinition(S, a) = ActiveByDefinition(S, a)
  <1> USE ZenonT(60) DEF History!BaseValid, BaseValid, History!OwnerClass, OwnerClass,
                    History!MayEnd, MayEnd
  <1>1. /\ \A l : History!Range(l) = Range(l)
        /\ \A m, a : History!BaseValid(m, a) = BaseValid(m, a)
        /\ \A m, n : History!InForce(m, n) = InForce(m, n)
        /\ \A l, n : History!Current(l, n) = Current(l, n)
    BY DEF History!Range, Range, History!InForce, InForce, History!Current, Current
  <1>2. \A S, a : History!ActiveUnder(S, a) = ActiveUnder(S, a)
    BY DEF History!ActiveUnder, ActiveUnder, History!FoldLeft, FoldLeft, History!MapThenFoldSet,
           MapThenFoldSet, History!Sorted, Sorted, History!IssuedBefore, IssuedBefore, History!Max,
           Max, History!Cardinality, Cardinality
  <1>3. ASSUME NEW l, NEW n
        PROVE  History!EffectiveAnchors(l, RootKey, n) = EffectiveAnchors(l, RootKey, n)
    <2>1. History!EffectiveAnchors(l, RootKey, n) =
            AnchorsBy(History!ActiveUnder(History!Current(l, n), History!RootAnchors(RootKey)), l)
      BY DEF History!EffectiveAnchors, AnchorsBy, History!RootAnchors, RootAnchors,
             History!DelegatedFrom, DelegatedFrom
    <2>2. EffectiveAnchors(l, RootKey, n) =
            AnchorsBy(ActiveUnder(Current(l, n), RootAnchors(RootKey)), l)
      BY DEF EffectiveAnchors, AnchorsBy
    <2>3. History!RootAnchors(RootKey) = RootAnchors(RootKey)
      BY DEF History!RootAnchors, RootAnchors
    <2> QED
      BY <1>1, <1>2, <2>1, <2>2, <2>3
  <1>4. \A l, n : History!Active(l, RootKey, n) = Active(l, RootKey, n)
    BY <1>1, <1>2, <1>3 DEF History!Active, Active
  <1>5. \A E, S, a : History!TakesTurn(E, S, a) = TakesTurn(E, S, a)
    BY DEF History!TakesTurn, TakesTurn
  <1>6. \A S, a : History!ActiveByDefinition(S, a) = ActiveByDefinition(S, a)
    BY DEF History!ActiveByDefinition, ActiveByDefinition, History!TakesTurn, TakesTurn
  <1> QED
    BY <1>1, <1>3, <1>4, <1>5, <1>6

\* No mandate is ever taken from the assets.
LEMMA MandatesStay ==
    ASSUME IInv, [Next]_vars
    PROVE  mandates \subseteq mandates'
  <1>1. CASE \E p \in Process : Moves(p)
    BY <1>1, StampSteps DEF IInv, StampMoves, Commits, SaveAtomically
  <1>2. CASE ExpireChallenge \/ UNCHANGED vars
    BY <1>2 DEF ExpireChallenge, vars, stored, assets
  <1> QED
    BY <1>1, <1>2 DEF Next, Moves

\* In the ledger itself, whatever its requests do at once: who is active is as defined,
\* delegated authority is derived, and what was ended stays so.
THEOREM LedgerAuthority ==
    Spec => /\ []History!ActiveIsUnrevoked
            /\ []History!AuthorityIsDerived
            /\ History!RevokedStaysRevoked
  <1> DEFINE Lasts ==
        \/ History!ReachesBack
        \/ History!EnderExpires
        \/ History!Ended \cap History!Active(Listed', RootKey, calls') = {}
  <1>1. IInv => Listed \in Seq(Mandate) /\ Range(Listed) = Applied
    BY LedgerIs DEF IInv
  <1>2. IInv => History!ActiveIsUnrevoked
    BY <1>1, SameInLedger, LoopsAreRight
       DEF History!ActiveIsUnrevoked, History!Present, History!Anchors
  <1>3. IInv => History!AuthorityIsDerived
    BY <1>1, SameInLedger, DerivedFrom DEF History!AuthorityIsDerived
  <1>4. IInv' => (Listed \in Seq(Mandate) /\ Range(Listed) = Applied)'
    BY <1>1, PTL
  <1>5. IInv /\ IInv' /\ [Next]_vars => [Lasts]_(History!historyVars)
    <2> SUFFICES ASSUME IInv, IInv', [Next]_vars, ~History!ReachesBack, ~History!EnderExpires
                 PROVE  History!Ended \cap History!Active(Listed', RootKey, calls') = {}
      OBVIOUS
    <2>1. Range(Listed) \subseteq Range(Listed')
      BY <1>1, <1>4, MandatesStay DEF Applied
    <2>2. \A m \in Current(Listed, calls) : ~InForce(m, calls') => Content[m].ends = {}
      BY SameInLedger DEF History!EnderExpires, History!Present
    <2>3. \A m \in Current(Listed', calls') \ Current(Listed, calls) :
            \A t \in Content[m].ends \cap Current(Listed, calls) :
              Content[t].issuedAt < Content[m].issuedAt
      <3>1. Current(Listed, calls) \in SUBSET Mandate /\ Current(Listed', calls') \in SUBSET Mandate
        BY <1>1, <1>4, ListedAre
      <3>2. History!Present = Current(Listed, calls) /\ History!Present' = Current(Listed', calls')
        BY SameInLedger DEF History!Present
      <3> QED
        BY <3>1, <3>2, ContentIs DEF History!ReachesBack
    <2>4. History!Ended =
            {t \in Current(Listed, calls) : BaseValid(t, EffectiveAnchors(Listed, RootKey, calls))}
              \ Active(Listed, RootKey, calls)
      BY SameInLedger DEF History!Ended, History!Present, History!Anchors
    <2>5. History!Active(Listed', RootKey, calls') = Active(Listed', RootKey, calls')
      BY SameInLedger
    <2> QED
      BY <1>1, <1>4, <2>1, <2>2, <2>3, <2>4, <2>5, EndedStays
  <1> QED
    BY <1>2, <1>3, <1>5, Invariance, PTL DEF Spec, History!RevokedStaysRevoked

==============================================================================
