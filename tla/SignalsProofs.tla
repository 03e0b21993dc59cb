----------------------------- MODULE SignalsProofs -----------------------------
(***************************************************************************)
(* ObservedSignals for every number of processes, worker names, rows,      *)
(* tokens and faults: no row is skipped, lost or counted twice, and the    *)
(* saved position never goes back.                                         *)
(***************************************************************************)
EXTENDS ObservedSignals, SequenceTheorems, FunctionTheorems, FiniteSetTheorems, WellFoundedInduction,
        TLAPS

-----------------------------------------------------------------------------
(* The inductive invariant. *)

\* Tokens in use were issued, and no two cycles run under the same one.
LeaseInv ==
    /\ cursor.token <= lease.token
    /\ \A p \in Process : pc[p] # "idle" => cycle[p].token <= lease.token
    /\ \A p, q \in Process :
         pc[p] # "idle" /\ pc[q] # "idle" /\ cycle[p].token = cycle[q].token => p = q

PolledStage == {"claim", "load", "check", "persist", "propose", "settle", "save"}

\* Nobody has read further than the file goes, and the stored cursor is not past
\* what the holder of the lease is about to save.
PositionInv ==
    /\ cursor.pos <= rows
    /\ \A p \in Process : cycle[p].before <= rows /\ cycle[p].after <= rows
    /\ \A p \in Pollers :
         pc[p] \in PolledStage /\ Holds(p) => cursor.pos <= cycle[p].after

\* Only pollers read the source, and they evaluate only events they have claimed.
StageOf(p) ==
    /\ pc[p] \in {"cursor", "poll", "claim", "settle", "save", "catch"} => p \in Pollers
    /\ p \notin Pollers => cycle[p].fresh = {}
    /\ p \in Pollers /\ pc[p] \in {"load", "check", "persist", "propose"} =>
         cycle[p].fresh # {}
    /\ pc[p] \in {"claim", "settle"} => cycle[p].todo # {}
    /\ pc[p] = "claim" => \A e \in cycle[p].todo : e <= cycle[p].after
    /\ pc[p] = "settle" => cycle[p].todo \subseteq cycle[p].fresh
    /\ pc[p] = "propose" => cycle[p].due # <<>>

Counted == {e \in Row : counted[e] > 0}

\* What is applied, retained or behind the cursor was counted.
CountedInv ==
    /\ NoRowSkipped
    /\ wake.seen \subseteq Counted
    /\ \A k \in Key : journal[k] = "applied" => k[1] \in Counted

\* Up to the end of its page each row is counted or on its way there.
PageInv(p) ==
    LET page == 1..cycle[p].after
    IN  /\ \A e \in Row : e <= cycle[p].before => e \in Counted
        /\ pc[p] = "claim" => page \subseteq Counted \cup cycle[p].todo \cup cycle[p].fresh
        /\ pc[p] = "load" => page \subseteq Counted \cup cycle[p].fresh
        /\ pc[p] \in {"check", "persist"} =>
             page \cup cycle[p].fresh \cup cycle[p].seen \subseteq Counted \cup cycle[p].new
        /\ pc[p] \in {"propose", "settle", "save"} => page \subseteq Counted
        /\ pc[p] \in {"propose", "settle"} => cycle[p].fresh \subseteq Counted

\* A counted event has its replay key retained, or lapsed; it is counted again
\* only after that.
ReplayInv ==
    /\ Counted \subseteq wake.seen \cup lapsed
    /\ CountedOnce

\* An evaluation made of the wake state as it still is keeps all its replay keys
\* that have not aged, counts only events it has none of, and leaves each event
\* pending or due.
EvaluationInv(p) ==
    pc[p] \in {"check", "persist"} =>
        /\ cycle[p].version <= wake.version
        /\ cycle[p].version = wake.version =>
             /\ wake.seen \ cycle[p].aged \subseteq cycle[p].seen
             /\ cycle[p].new \subseteq cycle[p].seen
             /\ cycle[p].new \cap wake.seen \subseteq cycle[p].aged
             /\ Range(wake.pending) \cup cycle[p].new \subseteq
                  Range(cycle[p].pending) \cup Due(p)

IInv ==
    /\ TypeOK
    /\ LeaseInv /\ PositionInv /\ \A p \in Process : StageOf(p)
    /\ CountedInv /\ \A p \in Process : PageInv(p)
    /\ ReplayInv /\ \A p \in Process : EvaluationInv(p)
    /\ NothingLost

-----------------------------------------------------------------------------
(* Rows in order. *)

\* A non-empty set of rows has a first one: the numbers below one are well-founded.
LEMMA FirstIn ==
    ASSUME NEW S \in SUBSET Row, S # {}
    PROVE  First(S) \in S /\ \A e \in S : First(S) <= e
  <1> DEFINE R == OpToRel(<, Nat)
  <1>1. IsWellFoundedOn(R, Nat)
    BY NatLessThanWellFounded
  <1>2. S \subseteq Nat
    BY SignalsAssumption DEF Row, SignalsAssumption
  <1>3. ASSUME NEW x \in S, NEW y \in S, <<y, x>> \notin R
        PROVE  x <= y
    <2>1. x \in Nat /\ y \in Nat
      BY <1>2
    <2>2. ~(y < x)
      BY <1>3, <2>1 DEF OpToRel
    <2> QED
      BY <2>1, <2>2
  <1> HIDE DEF R
  <1>4. PICK x \in S : \A y \in S : <<y, x>> \notin R
    BY <1>1, <1>2, WFMin
  <1>5. \A y \in S : x <= y
    BY <1>3, <1>4
  <1> QED
    BY <1>5 DEF First

\* Sets of rows are finite.
LEMMA RowsFinite ==
    ASSUME NEW S \in SUBSET Row
    PROVE  IsFiniteSet(S) /\ Cardinality(S) \in Nat
  <1>1. IsFiniteSet(Row)
    BY FS_Interval, SignalsAssumption DEF Row, SignalsAssumption
  <1> QED
    BY <1>1, FS_Subset, FS_CardinalityType

\* The rank of a row in a set counts the rows up to it, so no two have the same and
\* each number up to the size of the set is a rank.
LEMMA Ranks ==
    ASSUME NEW S \in SUBSET Row
    PROVE  /\ \A e \in S : RankIn(S, e) \in 1..Cardinality(S)
           /\ \A i \in 1..Cardinality(S) : \E e \in S : RankIn(S, e) = i
           /\ \A d, e \in S : RankIn(S, d) = RankIn(S, e) => d = e
  <1> DEFINE below(e) == {f \in S : f <= e}
             rank == [e \in S |-> RankIn(S, e)]
  <1>1. IsFiniteSet(S) /\ Cardinality(S) \in Nat /\ \A e \in S : e \in Nat
    BY RowsFinite, SignalsAssumption DEF Row, SignalsAssumption
  <1>2. \A e \in S : /\ IsFiniteSet(below(e)) /\ below(e) \in SUBSET S
                     /\ RankIn(S, e) = Cardinality(below(e)) /\ RankIn(S, e) \in Nat
    BY RowsFinite DEF RankIn
  <1>3. ASSUME NEW e \in S PROVE RankIn(S, e) \in 1..Cardinality(S)
    <2>1. RankIn(S, e) <= Cardinality(S)
      <3> HIDE DEF below
      <3> QED
        BY <1>1, <1>2, FS_Subset
    <2>2. e \in below(e)
      BY <1>1
    <2>3. RankIn(S, e) # 0
      BY <1>2, <2>2, FS_EmptySet
    <2>4. RankIn(S, e) \in Nat /\ Cardinality(S) \in Nat
      BY <1>1, <1>2
    <2> QED
      BY <2>1, <2>3, <2>4
  <1>4. ASSUME NEW d \in S, NEW e \in S, RankIn(S, d) = RankIn(S, e)
        PROVE  ~(d < e)
    <2> SUFFICES ASSUME d < e PROVE FALSE
      OBVIOUS
    <2>1. d \in Nat /\ e \in Nat
      BY <1>1
    <2>2. \A f \in S : f \in Nat /\ (f <= d => f <= e)
      BY <1>1, <2>1
    <2>3. below(d) \subseteq below(e)
      BY <2>2
    <2>4. e \in below(e) /\ e \notin below(d)
      BY <2>1
    <2>5. below(d) = below(e)
      <3> HIDE DEF below
      <3> QED
        BY <1>2, <1>4, <2>3, FS_Subset
    <2> QED
      BY <2>4, <2>5
  <1>5. ASSUME NEW d \in S, NEW e \in S, RankIn(S, d) = RankIn(S, e)
        PROVE  d = e
    <2>1. ~(d < e) /\ ~(e < d)
      BY <1>4, <1>5
    <2>2. d \in Nat /\ e \in Nat
      BY <1>1
    <2> QED
      BY <2>1, <2>2
  <1>6. rank \in Injection(S, 1..Cardinality(S))
    BY <1>3, <1>5 DEF Injection, IsInjective
  <1>7. rank \in Surjection(S, 1..Cardinality(S))
    <2>1. IsFiniteSet(1..Cardinality(S)) /\ Cardinality(1..Cardinality(S)) = Cardinality(S)
      BY <1>1, FS_Interval
    <2> HIDE DEF rank
    <2> QED
      BY <1>6, <2>1, FS_Injection
  <1>8. \A i \in 1..Cardinality(S) : \E e \in S : RankIn(S, e) = i
    BY <1>7 DEF Surjection
  <1> QED
    BY <1>3, <1>5, <1>8

\* A set of rows in order is a sequence of exactly those rows.
LEMMA InOrder ==
    ASSUME NEW S \in SUBSET Row
    PROVE  /\ InOrderOf(S) \in Seq(Row)
           /\ DOMAIN InOrderOf(S) = 1..Len(InOrderOf(S))
           /\ Range(InOrderOf(S)) = S
  <1> DEFINE q == InOrderOf(S)
  <1>1. Cardinality(S) \in Nat
    BY RowsFinite
  <1>2. ASSUME NEW i \in 1..Cardinality(S)
        PROVE  q[i] \in S /\ RankIn(S, q[i]) = i
    <2>1. q[i] = CHOOSE e \in S : RankIn(S, e) = i
      BY DEF InOrderOf
    <2> QED
      BY <2>1, Ranks
  <1>3. DOMAIN q = 1..Cardinality(S)
    BY DEF InOrderOf
  <1>4. q \in [1..Cardinality(S) -> Row]
    BY <1>2, <1>3 DEF InOrderOf
  <1> HIDE DEF q
  <1>5. Range(q) \subseteq S
    BY <1>2, <1>3 DEF Range
  <1>6. ASSUME NEW e \in S PROVE e \in Range(q)
    <2>1. RankIn(S, e) \in 1..Cardinality(S)
      BY Ranks
    <2>2. q[RankIn(S, e)] = e
      BY <1>2, <2>1, Ranks
    <2> QED
      BY <1>3, <2>1, <2>2 DEF Range
  <1>7. q \in Seq(Row)
    BY <1>1, <1>4
  <1>8. DOMAIN q = 1..Len(q)
    BY <1>7, LenProperties
  <1> QED
    BY <1>5, <1>6, <1>7, <1>8 DEF q

\* The elements of a concatenation.
LEMMA ConcatRange ==
    ASSUME NEW s \in Seq(Row), NEW t \in Seq(Row)
    PROVE  s \o t \in Seq(Row) /\ Range(s \o t) = Range(s) \cup Range(t)
  BY ConcatProperties, RangeConcatenation

DueOf(due) == UNION {Range(due[i]) : i \in DOMAIN due}

\* An evaluation leaves each pending and each new event pending or due.
LEMMA Evaluated ==
    ASSUME NEW pending \in Seq(Row), NEW new \in SUBSET Row, NEW crossings \in SUBSET new
    PROVE  LET cs  == InOrderOf(crossings)
               due == [i \in DOMAIN cs |-> UpTo(pending, new, crossings, cs[i])]
               rem == Remaining(pending, new, crossings)
           IN  /\ rem \in Seq(Row)
               /\ due \in Seq(Seq(Row))
               /\ Range(pending) \cup new \subseteq Range(rem) \cup DueOf(due)
  <1> DEFINE cs  == InOrderOf(crossings)
             due == [i \in DOMAIN cs |-> UpTo(pending, new, crossings, cs[i])]
             rem == Remaining(pending, new, crossings)
             own(c) == {e \in new : e <= c /\ \A d \in {d \in crossings : d < c} : d < e}
             rest == {e \in new : \A d \in crossings : d < e}
  <1>1. cs \in Seq(Row) /\ DOMAIN cs = 1..Len(cs) /\ Range(cs) = crossings
    BY InOrder
  <1>2. \A e \in new : e \in Nat
    BY SignalsAssumption DEF Row, SignalsAssumption
  <1>3. <<>> \in Seq(Row) /\ Range(<<>>) = {}
    BY EmptySeq DEF Range
  <1>4. /\ rem \in Seq(Row)
        /\ Range(rem) = (IF crossings = {} THEN Range(pending) ELSE {}) \cup rest
    <2>1. InOrderOf(rest) \in Seq(Row) /\ Range(InOrderOf(rest)) = rest
      BY InOrder
    <2> QED
      BY <1>3, <2>1, ConcatRange DEF Remaining
  <1>5. ASSUME NEW c \in crossings
        PROVE  /\ UpTo(pending, new, crossings, c) \in Seq(Row)
               /\ Range(UpTo(pending, new, crossings, c)) =
                    (IF \A d \in crossings : ~(d < c) THEN Range(pending) ELSE {}) \cup own(c)
    <2>1. InOrderOf(own(c)) \in Seq(Row) /\ Range(InOrderOf(own(c))) = own(c)
      BY InOrder
    <2> QED
      BY <1>3, <2>1, ConcatRange DEF UpTo
  <1>6. due \in Seq(Seq(Row))
    <2>1. Len(cs) \in Nat /\ \A i \in 1..Len(cs) : cs[i] \in crossings
      BY <1>1, LenProperties DEF Range
    <2>2. due \in [1..Len(cs) -> Seq(Row)]
      BY <1>1, <1>5, <2>1
    <2> QED
      BY <2>1, <2>2
  <1>7. ASSUME NEW c \in crossings
        PROVE  Range(UpTo(pending, new, crossings, c)) \subseteq DueOf(due)
    <2>1. PICK i \in DOMAIN cs : cs[i] = c
      BY <1>1 DEF Range
    <2>2. i \in DOMAIN due /\ due[i] = UpTo(pending, new, crossings, c)
      BY <2>1
    <2> QED
      BY <2>2 DEF DueOf
  <1>8. Range(pending) \subseteq Range(rem) \cup DueOf(due)
    <2>1. CASE crossings = {}
      BY <1>4, <2>1
    <2>2. CASE crossings # {}
      <3>1. First(crossings) \in crossings /\ \A d \in crossings : First(crossings) <= d
        BY <2>2, FirstIn
      <3>2. \A d \in crossings : ~(d < First(crossings))
        BY <1>2, <3>1
      <3> QED
        BY <1>5, <1>7, <3>1, <3>2
    <2> QED
      BY <2>1, <2>2
  <1>9. ASSUME NEW e \in new PROVE e \in Range(rem) \cup DueOf(due)
    <2> DEFINE after == {d \in crossings : e <= d}
    <2>1. CASE after = {}
      <3>1. \A d \in crossings : d < e
        BY <1>2, <2>1
      <3> QED
        BY <1>4, <3>1
    <2>2. CASE after # {}
      <3>1. First(after) \in after /\ \A d \in after : First(after) <= d
        BY <2>2, FirstIn
      <3>2. ASSUME NEW d \in crossings, d < First(after)
            PROVE  d < e
        <4>1. d \in Nat /\ e \in Nat /\ First(after) \in Nat
          BY <1>2, <3>1
        <4>2. d \notin after
          BY <3>1, <3>2, <4>1
        <4> QED
          BY <4>1, <4>2
      <3>3. e \in own(First(after))
        BY <3>1, <3>2
      <3> QED
        BY <1>5, <1>7, <3>1, <3>3
    <2> QED
      BY <2>1, <2>2
  <1> QED
    BY <1>4, <1>6, <1>8, <1>9

-----------------------------------------------------------------------------
(* Types. *)

Moves(p) == Step(p) \/ Throw(p) \/ Crash(p) \/ Overrun(p)

\* No cycle is a cycle.
LEMMA NoCycleType == NoCycle \in Cycle
  <1>1. 0 \in 0..MaxRows /\ Null \in Position
    BY SignalsAssumption DEF SignalsAssumption, Null, Position
  <1>2. <<>> \in Seq(Row) /\ <<>> \in Seq(Seq(Row))
    BY EmptySeq
  <1> QED
    BY <1>1, <1>2 DEF NoCycle, Cycle

\* Initially nothing is read, stored or running.
LEMMA InitInv == Init => IInv
  <1> SUFFICES ASSUME Init PROVE IInv
    OBVIOUS
  <1>1. MaxRows \in Nat /\ Row \subseteq Nat /\ \A e \in Row : e > 0
    BY SignalsAssumption DEF SignalsAssumption, Row
  <1>2. <<>> \in Seq(Row) /\ Null \in Position
    BY <1>1, EmptySeq DEF Null, Position
  <1>3. TypeOK
    BY <1>1, <1>2, NoCycleType DEF Init, TypeOK, LeaseInit, LeaseRow, WakeState, Stage
  <1>4. /\ \A p \in Process : pc[p] = "idle" /\ cycle[p] = NoCycle
        /\ Counted = {} /\ cursor.pos = Null /\ wake.seen = {}
        /\ \A k \in Key : journal[k] = "none"
        /\ \A p \in Pollers : p \in Process
    BY SignalsAssumption DEF Init, Counted, SignalsAssumption
  <1>5. LeaseInv /\ PositionInv /\ \A p \in Process : StageOf(p)
    BY <1>1, <1>4 DEF Init, LeaseInit, LeaseInv, PositionInv, StageOf, Null, NoCycle, PolledStage
  <1>6. \A e \in Row : ~(e <= Null) /\ ~(counted[e] > 0) /\ ~(counted[e] > 1)
    BY <1>1 DEF Null, Init
  <1>7. CountedInv /\ ReplayInv /\ NothingLost
    BY <1>4, <1>6 DEF CountedInv, NoRowSkipped, ReplayInv, CountedOnce, NothingLost
  <1>8. \A p \in Process : PageInv(p) /\ EvaluationInv(p)
    <2> SUFFICES ASSUME NEW p \in Process PROVE PageInv(p) /\ EvaluationInv(p)
      OBVIOUS
    <2>1. pc[p] = "idle" /\ cycle[p].before = Null
      BY <1>4 DEF NoCycle
    <2> QED
      BY <1>6, <2>1 DEF PageInv, EvaluationInv
  <1> QED
    BY <1>3, <1>5, <1>7, <1>8 DEF IInv

\* A cycle that goes on with well-typed locals is well typed.
LEMMA SetTypes ==
    ASSUME TypeOK, NEW p \in Process, NEW c \in Cycle, Set(p, c)
    PROVE  cycle' \in [Process -> Cycle]
  BY DEF TypeOK, Set

LEMMA GotoTypes ==
    ASSUME TypeOK, NEW p \in Process, NEW s \in Stage, Goto(p, s)
    PROVE  pc' \in [Process -> Stage]
  BY DEF TypeOK, Goto

\* So is one whose try block ended in an error.
LEMMA FailTypes ==
    ASSUME TypeOK, NEW p \in Process, Fail(p)
    PROVE  pc' \in [Process -> Stage] /\ cycle' \in [Process -> Cycle]
  <1>0. cycle[p] \in Cycle
    BY DEF TypeOK
  <1>1. [cycle[p] EXCEPT !.todo = cycle[p].fresh] \in Cycle
    BY <1>0 DEF Cycle
  <1>2. (IF cycle[p].fresh = {} THEN "release" ELSE "catch") \in Stage
    BY DEF Stage
  <1> QED
    BY <1>1, <1>2, SetTypes, GotoTypes DEF Fail

\* So is one that has persisted what it evaluated.
LEMMA PersistedTypes ==
    ASSUME TypeOK, NEW p \in Process, Persisted(p)
    PROVE  pc' \in [Process -> Stage] /\ cycle' \in [Process -> Cycle]
  <1>1. <<>> \in Seq(Seq(Row)) /\ cycle[p] \in Cycle
    BY EmptySeq DEF TypeOK
  <1>2. [cycle[p] EXCEPT !.todo = cycle[p].fresh, !.due = <<>>, !.persisted = TRUE] \in Cycle
    BY <1>1 DEF Cycle
  <1>3. (IF p \in Pollers THEN "settle" ELSE "release") \in Stage
    BY DEF Stage
  <1> QED
    BY <1>2, <1>3, SetTypes, GotoTypes DEF Persisted

\* A cycle evaluates its fresh events on the wake state it loads: all of them but
\* those whose replay key is retained are new, and none is dropped.
Evaluates(p, aged, pending, due) ==
    LET retained == wake.seen \ aged
        new      == cycle[p].fresh \ retained
    IN  /\ Set(p, [cycle[p] EXCEPT !.version = wake.version, !.aged = aged, !.new = new,
                                   !.seen = retained \cup new, !.pending = pending,
                                   !.due = due])
        /\ Range(wake.pending) \cup new \subseteq Range(pending) \cup DueOf(due)

LEMMA Loads ==
    ASSUME TypeOK, NEW p \in Process, LoadWakeState(p)
    PROVE  \E aged \in SUBSET wake.seen, pending \in Seq(Row), due \in Seq(Seq(Row)) :
             Evaluates(p, aged, pending, due)
  <1> DEFINE new(aged) == cycle[p].fresh \ (wake.seen \ aged)
             due(aged, crossings) ==
               [i \in DOMAIN InOrderOf(crossings) |->
                  UpTo(wake.pending, new(aged), crossings, InOrderOf(crossings)[i])]
  <1>1. PICK aged \in SUBSET (wake.seen \cap Lapsing) :
          \E crossings \in SUBSET new(aged) :
            Set(p, [cycle[p] EXCEPT !.version = wake.version, !.aged = aged,
                                    !.new = new(aged),
                                    !.seen = (wake.seen \ aged) \cup new(aged),
                                    !.pending = Remaining(wake.pending, new(aged), crossings),
                                    !.due = due(aged, crossings)])
    BY DEF LoadWakeState
  <1>2. PICK crossings \in SUBSET new(aged) :
            Set(p, [cycle[p] EXCEPT !.version = wake.version, !.aged = aged,
                                    !.new = new(aged),
                                    !.seen = (wake.seen \ aged) \cup new(aged),
                                    !.pending = Remaining(wake.pending, new(aged), crossings),
                                    !.due = due(aged, crossings)])
    BY <1>1
  <1>3. wake.pending \in Seq(Row) /\ new(aged) \in SUBSET Row
    BY DEF TypeOK, WakeState, Cycle
  <1>4. /\ Remaining(wake.pending, new(aged), crossings) \in Seq(Row)
        /\ due(aged, crossings) \in Seq(Seq(Row))
        /\ Range(wake.pending) \cup new(aged) \subseteq
             Range(Remaining(wake.pending, new(aged), crossings)) \cup DueOf(due(aged, crossings))
    <2> HIDE DEF new
    <2> QED
      BY <1>3, Evaluated
  <1>5. Evaluates(p, aged, Remaining(wake.pending, new(aged), crossings), due(aged, crossings))
    <2> HIDE DEF due
    <2> QED
      BY <1>2, <1>4 DEF Evaluates
  <1> HIDE DEF due
  <1> QED
    BY <1>4, <1>5

\* Every step of a process keeps the types.
LEMMA MovesType ==
    ASSUME IInv, NEW p \in Process, Moves(p)
    PROVE  TypeOK'
  <1> USE DEF IInv
  <1>0. cycle[p] \in Cycle /\ MaxRows \in Nat /\ Row \subseteq Nat
    BY SignalsAssumption DEF TypeOK, SignalsAssumption, Row
  <1>1. CASE Claim(p)
    <2>1. lease'.token \in Nat /\ lease' \in LeaseRow
      BY <1>1, LeaseAssumption DEF Claim, ClaimHeartbeatLease, TypeOK, LeaseRow, LeaseAssumption
    <2>2. [NoCycle EXCEPT !.token = lease'.token] \in Cycle
      BY <2>1, NoCycleType DEF Cycle
    <2> QED
      BY <1>1, <2>1, <2>2 DEF Claim, Set, Goto, TypeOK, Stage, stored, history
  <1>2. CASE GetSignalCursor(p)
    BY <1>0, <1>2 DEF GetSignalCursor, Set, Goto, TypeOK, Cycle, Stage, stored, history
  <1>3. CASE Poll(p)
    <2> DEFINE batch == Start(cycle[p].before) + 1 .. rows
    <2>1. batch \subseteq Row /\ rows \in 0..MaxRows
      <3>1. rows \in 0..MaxRows
        BY DEF TypeOK
      <3>2. cycle[p].before \in Position
        BY <1>0 DEF Cycle
      <3> QED
        BY <1>0, <3>1, <3>2 DEF Position, Start, Null, Row
    <2>2. [cycle[p] EXCEPT !.after = rows, !.todo = batch] \in Cycle
      BY <1>0, <2>1 DEF Cycle
    <2>3. cycle' \in [Process -> Cycle] /\ pc' \in [Process -> Stage]
      <3>1. CASE PollThrows(cycle[p].before)
        BY <1>3, <3>1 DEF Poll, Goto, TypeOK, Stage
      <3>2. CASE ~PollThrows(cycle[p].before)
        BY <1>3, <2>2, <3>2 DEF Poll, Set, Goto, TypeOK, Stage
      <3> QED
        BY <3>1, <3>2
    <2> HIDE DEF batch
    <2> QED
      BY <1>3, <2>3 DEF Poll, TypeOK, stored, history
  <1>4. CASE ClaimKey(p)
    <2>1. cycle[p].todo \in SUBSET Row /\ cycle[p].todo # {}
      BY <1>0, <1>4 DEF ClaimKey, StageOf, Cycle
    <2>2. First(cycle[p].todo) \in Row
      BY <2>1, FirstIn
    <2>3. cycle' \in [Process -> Cycle]
      BY <1>0, <1>4, <2>2 DEF ClaimKey, Set, TypeOK, Cycle
    <2>4. pc' \in [Process -> Stage]
      BY <1>4 DEF ClaimKey, AfterClaims, Goto, TypeOK, Stage
    <2>5. journal' \in [Key -> {"none", "intent", "applied", "failed", "unknown"}]
      BY <1>4 DEF ClaimKey, TypeOK
    <2>6. UNCHANGED <<lease, rows, bad, cursor, wake, proposals, faults, counted, lapsed, lost>>
      BY <1>4 DEF ClaimKey, history
    <2> QED
      BY <2>3, <2>4, <2>5, <2>6 DEF TypeOK
  <1>5. CASE LoadWakeState(p)
    <2>1. PICK aged \in SUBSET wake.seen, pending \in Seq(Row), due \in Seq(Seq(Row)) :
                 Evaluates(p, aged, pending, due)
      BY <1>5, Loads
    <2>2. cycle' \in [Process -> Cycle]
      BY <1>0, <2>1 DEF Evaluates, Set, TypeOK, WakeState, Cycle
    <2> QED
      BY <1>5, <2>2 DEF LoadWakeState, Goto, TypeOK, Stage, stored, history
  <1>6. CASE CheckLease(p)
    <2>1. pc' \in [Process -> Stage] /\ cycle' \in [Process -> Cycle]
      BY <1>6, FailTypes DEF CheckLease, Goto, TypeOK, Stage
    <2> QED
      BY <1>6, <2>1 DEF CheckLease, TypeOK, stored, history
  <1>7. CASE SaveWakeState(p)
    <2>1. pc' \in [Process -> Stage] /\ cycle' \in [Process -> Cycle]
      BY <1>7, FailTypes, PersistedTypes DEF SaveWakeState, Goto, TypeOK, Stage
    <2>2. wake' \in WakeState
      <3>1. wake.version \in Nat /\ cycle[p].seen \subseteq Row /\ cycle[p].pending \in Seq(Row)
        BY <1>0 DEF TypeOK, WakeState, Cycle
      <3>2. [version |-> wake.version + 1, seen |-> cycle[p].seen,
             pending |-> cycle[p].pending] \in WakeState
        BY <3>1 DEF WakeState
      <3> QED
        BY <1>7, <3>2 DEF SaveWakeState, TypeOK, Fail
    <2>3. counted' \in [Row -> Nat] /\ lapsed' \subseteq Row
      <3>1. counted \in [Row -> Nat] /\ lapsed \subseteq Row /\ cycle[p].aged \subseteq Row
        BY <1>0 DEF TypeOK, Cycle
      <3>2. \A e \in Row : counted[e] + (IF e \in cycle[p].new THEN 1 ELSE 0) \in Nat
        BY <3>1
      <3> QED
        BY <1>7, <3>1, <3>2 DEF SaveWakeState
    <2> QED
      BY <1>7, <2>1, <2>2, <2>3 DEF SaveWakeState, TypeOK
  <1>8. CASE SaveProposal(p)
    <2>1. cycle[p].due \in Seq(Seq(Row)) /\ cycle[p].due # <<>>
      BY <1>0, <1>8 DEF SaveProposal, StageOf, Cycle
    <2>2. Head(cycle[p].due) \in Seq(Row) /\ Tail(cycle[p].due) \in Seq(Seq(Row))
      BY <2>1, HeadTailProperties
    <2>3. CASE Fail(p)
      <3>1. pc' \in [Process -> Stage] /\ cycle' \in [Process -> Cycle]
        BY <2>3, FailTypes
      <3>2. Due(p) \subseteq Row
        BY <2>1, RangeOfSeq, LenProperties DEF Due
      <3> QED
        BY <1>8, <2>2, <3>1, <3>2 DEF SaveProposal, TypeOK
    <2>4. CASE Persisted(p)
      <3>1. pc' \in [Process -> Stage] /\ cycle' \in [Process -> Cycle]
        BY <2>4, PersistedTypes
      <3>2. Due(p) \subseteq Row
        BY <2>1, RangeOfSeq, LenProperties DEF Due
      <3> QED
        BY <1>8, <2>2, <3>1, <3>2 DEF SaveProposal, TypeOK
    <2>5. CASE Set(p, [cycle[p] EXCEPT !.due = Tail(@)]) /\ UNCHANGED <<pc, lost>>
      <3>1. cycle' \in [Process -> Cycle]
        BY <1>0, <2>2, <2>5 DEF Set, TypeOK, Cycle
      <3> QED
        BY <1>8, <2>2, <2>5, <3>1 DEF SaveProposal, TypeOK, Fail, Goto
    <2> QED
      BY <1>8, <2>3, <2>4, <2>5 DEF SaveProposal
  <1>9. CASE MarkApplied(p)
    <2>1. [cycle[p] EXCEPT !.todo = @ \ {First(@)}] \in Cycle
      BY <1>0 DEF Cycle
    <2>2. cycle' \in [Process -> Cycle]
      BY <1>9, <2>1, SetTypes DEF MarkApplied
    <2>3. pc' \in [Process -> Stage]
      BY <1>9 DEF MarkApplied, Goto, TypeOK, Stage
    <2>4. journal' \in [Key -> {"none", "intent", "applied", "failed", "unknown"}]
      BY <1>9 DEF MarkApplied, TypeOK
    <2>5. UNCHANGED <<lease, rows, bad, cursor, wake, proposals, faults, counted, lapsed, lost>>
      BY <1>9 DEF MarkApplied, history
    <2> QED
      BY <2>2, <2>3, <2>4, <2>5 DEF TypeOK
  <1>10. CASE SaveSignalCursor(p)
    <2>1. pc' \in [Process -> Stage] /\ cycle' \in [Process -> Cycle]
      BY <1>10, FailTypes DEF SaveSignalCursor, Goto, TypeOK, Stage
    <2>2. cursor' \in [pos: Position, token: Nat]
      <3>1. cycle[p].after \in Position /\ cycle[p].token \in Nat
        BY <1>0 DEF Cycle, Position, Null
      <3> QED
        BY <1>10, <3>1 DEF SaveSignalCursor, TypeOK
    <2>3. UNCHANGED <<lease, rows, bad, journal, wake, proposals, faults, counted, lapsed, lost>>
      BY <1>10 DEF SaveSignalCursor, history
    <2> QED
      BY <2>1, <2>2, <2>3 DEF TypeOK
  <1>11. CASE MarkFailed(p)
    <2>1. [cycle[p] EXCEPT !.todo = @ \ {First(@)}] \in Cycle
      BY <1>0 DEF Cycle
    <2>2. cycle' \in [Process -> Cycle]
      BY <1>11, <2>1, SetTypes DEF MarkFailed
    <2>3. pc' \in [Process -> Stage]
      BY <1>11 DEF MarkFailed, Goto, TypeOK, Stage
    <2>4. journal' \in [Key -> {"none", "intent", "applied", "failed", "unknown"}]
      BY <1>11 DEF MarkFailed, TypeOK
    <2>5. UNCHANGED <<lease, rows, bad, cursor, wake, proposals, faults, counted, lapsed, lost>>
      BY <1>11 DEF MarkFailed, history
    <2> QED
      BY <2>2, <2>3, <2>4, <2>5 DEF TypeOK
  <1>12. CASE Release(p)
    BY <1>12, NoCycleType DEF Release, ReleaseHeartbeatLease, Set, Goto, TypeOK, LeaseRow, Stage,
       stored, history
  <1>13. CASE Throw(p)
    <2>1. pc' \in [Process -> Stage] /\ cycle' \in [Process -> Cycle]
      BY <1>13, FailTypes DEF Throw, Goto, TypeOK, Stage
    <2>2. Due(p) \subseteq Row
      BY <1>0, RangeOfSeq, LenProperties DEF Due, Cycle
    <2> QED
      BY <1>13, <2>1, <2>2 DEF Throw, CutOff, TypeOK, stored
  <1>14. CASE Crash(p)
    <2>1. Due(p) \subseteq Row
      BY <1>0, RangeOfSeq, LenProperties DEF Due, Cycle
    <2>2. cycle' \in [Process -> Cycle] /\ pc' \in [Process -> Stage]
      BY <1>14, SetTypes, NoCycleType DEF Crash, Goto, TypeOK, Stage
    <2> QED
      BY <1>14, <2>1, <2>2 DEF Crash, CutOff, TypeOK, stored
  <1>15. CASE Overrun(p)
    <2>1. lease' \in LeaseRow
      BY <1>15 DEF Overrun, ExpireLease, TypeOK, LeaseRow
    <2>2. faults' \in Nat
      BY <1>15 DEF Overrun, TypeOK
    <2>3. UNCHANGED <<rows, bad, cursor, journal, wake, proposals, pc, cycle, counted, lapsed, lost>>
      BY <1>15 DEF Overrun, stored, history
    <2> QED
      BY <2>1, <2>2, <2>3 DEF TypeOK
  <1> QED
    BY <1>1, <1>2, <1>3, <1>4, <1>5, <1>6, <1>7, <1>8, <1>9, <1>10, <1>11, <1>12, <1>13, <1>14, <1>15
       DEF Moves, Step, Proceed

-----------------------------------------------------------------------------
(* What a step can do to processes and to the lease. *)

\* A step of one process is no step of another.
LEMMA Others ==
    ASSUME IInv, NEW p \in Process, Moves(p), NEW q \in Process, q # p
    PROVE  pc'[q] = pc[q] /\ cycle'[q] = cycle[q]
  <1>1. pc \in [Process -> Stage] /\ cycle \in [Process -> Cycle]
    BY DEF IInv, TypeOK
  <1>2. CASE Claim(p) \/ GetSignalCursor(p) \/ Poll(p) \/ ClaimKey(p) \/ LoadWakeState(p)
             \/ CheckLease(p)
    BY <1>1, <1>2 DEF Claim, GetSignalCursor, Poll, ClaimKey, LoadWakeState, CheckLease, Set, Goto, Fail
  <1>3. CASE SaveWakeState(p) \/ SaveProposal(p) \/ MarkApplied(p) \/ SaveSignalCursor(p)
    BY <1>1, <1>3 DEF SaveWakeState, SaveProposal, MarkApplied, SaveSignalCursor, Persisted, Set, Goto, Fail
  <1>4. CASE MarkFailed(p) \/ Release(p) \/ Throw(p) \/ Crash(p) \/ Overrun(p)
    BY <1>1, <1>4 DEF MarkFailed, Release, Throw, Crash, Overrun, Set, Goto, Fail
  <1> QED
    BY <1>2, <1>3, <1>4 DEF Moves, Step, Proceed

\* Where a step leaves its own process.
LEMMA Here ==
    ASSUME IInv, NEW p \in Process, NEW s, NEW c
    PROVE  /\ Goto(p, s) => pc'[p] = s
           /\ Set(p, c) => cycle'[p] = c
  BY DEF IInv, TypeOK, Goto, Set

\* A poll ends its cycle or reads every row after the position.
LEMMA PollHere ==
    ASSUME IInv, NEW p \in Process, Poll(p)
    PROVE  /\ pc[p] = "poll"
           /\ \/ UNCHANGED cycle /\ pc'[p] = "release"
              \/ LET batch == Start(cycle[p].before) + 1 .. rows
                 IN  /\ cycle'[p] = [cycle[p] EXCEPT !.after = rows, !.todo = batch]
                     /\ pc'[p] = IF batch = {} THEN "save" ELSE "claim"
  <1>1. CASE PollThrows(cycle[p].before)
    BY <1>1, Here DEF Poll
  <1>2. CASE ~PollThrows(cycle[p].before)
    BY <1>2, Here DEF Poll
  <1> QED
    BY <1>1, <1>2

\* Where an error leaves it: in the catch, which visits the fresh keys, or past it.
LEMMA FailHere ==
    ASSUME IInv, NEW p \in Process, Fail(p)
    PROVE  /\ pc'[p] = IF cycle[p].fresh = {} THEN "release" ELSE "catch"
           /\ cycle'[p].token = cycle[p].token /\ cycle'[p].before = cycle[p].before
           /\ cycle'[p].after = cycle[p].after /\ cycle'[p].fresh = cycle[p].fresh
  <1>1. cycle[p] \in Cycle
    BY DEF IInv, TypeOK
  <1>2. cycle'[p] = [cycle[p] EXCEPT !.todo = cycle[p].fresh]
    BY Here DEF Fail
  <1> QED
    BY <1>1, <1>2, Here DEF Fail, Cycle

\* Where the persistence of what it evaluated leaves it.
LEMMA PersistedHere ==
    ASSUME IInv, NEW p \in Process, Persisted(p)
    PROVE  /\ pc'[p] = IF p \in Pollers THEN "settle" ELSE "release"
           /\ cycle'[p].token = cycle[p].token /\ cycle'[p].before = cycle[p].before
           /\ cycle'[p].after = cycle[p].after /\ cycle'[p].fresh = cycle[p].fresh
           /\ cycle'[p].todo = cycle[p].fresh
  <1>1. cycle[p] \in Cycle
    BY DEF IInv, TypeOK
  <1>2. cycle'[p] = [cycle[p] EXCEPT !.todo = cycle[p].fresh, !.due = <<>>, !.persisted = TRUE]
    BY Here DEF Persisted
  <1> QED
    BY <1>1, <1>2, Here DEF Persisted, Cycle

\* But for a claim, a step grants nothing and keeps the token of its cycle.
LEMMA Tokens ==
    ASSUME IInv, NEW p \in Process, Moves(p), ~Claim(p)
    PROVE  /\ lease'.token = lease.token /\ lease'.owner = lease.owner
           /\ lease'.live => lease.live
           /\ pc'[p] # "idle" => pc[p] # "idle" /\ cycle'[p].token = cycle[p].token
  <1>1. pc \in [Process -> Stage] /\ cycle \in [Process -> Cycle] /\ lease \in LeaseRow
    BY DEF IInv, TypeOK
  <1>0. cycle[p] \in Cycle
    BY <1>1
  <1>2. CASE GetSignalCursor(p) \/ Poll(p)
    BY <1>0, <1>2, Here DEF GetSignalCursor, Poll, Cycle
  <1>3. CASE ClaimKey(p)
    <2>1. /\ pc[p] = "claim" /\ UNCHANGED lease
          /\ \E todo, fresh : Set(p, [cycle[p] EXCEPT !.todo = todo, !.fresh = fresh])
      BY <1>3 DEF ClaimKey
    <2>2. PICK todo, fresh : Set(p, [cycle[p] EXCEPT !.todo = todo, !.fresh = fresh])
      BY <2>1
    <2>3. cycle'[p] = [cycle[p] EXCEPT !.todo = todo, !.fresh = fresh]
      BY <2>2, Here
    <2> QED
      BY <1>0, <2>1, <2>3 DEF Cycle
  <1>4. CASE LoadWakeState(p)
    <2>1. PICK aged \in SUBSET wake.seen, pending \in Seq(Row), due \in Seq(Seq(Row)) :
                 Evaluates(p, aged, pending, due)
      BY <1>4, Loads DEF IInv
    <2>2. cycle'[p].token = cycle[p].token
      BY <1>0, <2>1, Here DEF Evaluates, Cycle
    <2> QED
      BY <1>4, <2>2 DEF LoadWakeState
  <1>5. CASE CheckLease(p) \/ SaveSignalCursor(p)
    BY <1>0, <1>5, Here DEF CheckLease, SaveSignalCursor, Fail, Cycle
  <1>9. CASE MarkFailed(p) \/ MarkApplied(p)
    <2>1. /\ pc[p] # "idle" /\ UNCHANGED lease
          /\ \E todo : Set(p, [cycle[p] EXCEPT !.todo = todo])
      BY <1>9 DEF MarkFailed, MarkApplied
    <2> QED
      BY <1>0, <2>1, Here DEF Cycle
  <1>8. CASE SaveWakeState(p) \/ SaveProposal(p)
    <2>1. pc[p] # "idle" /\ UNCHANGED lease
      BY <1>8 DEF SaveWakeState, SaveProposal
    <2>2. CASE Fail(p) \/ Persisted(p) \/ UNCHANGED cycle
      BY <2>1, <2>2, FailHere, PersistedHere
    <2>3. CASE Set(p, [cycle[p] EXCEPT !.due = Tail(@)])
      BY <1>0, <2>1, <2>3, Here DEF Cycle
    <2> QED
      BY <1>8, <2>2, <2>3 DEF SaveWakeState, SaveProposal
  <1>6. CASE Release(p) \/ Crash(p)
    BY <1>1, <1>6 DEF Release, ReleaseHeartbeatLease, Crash, Goto, LeaseRow
  <1>7. CASE Throw(p) \/ Overrun(p)
    BY <1>1, <1>0, <1>7 DEF Throw, Overrun, ExpireLease, Holds, Fail, Goto, Set, LeaseRow, Cycle
  <1> QED
    BY <1>2, <1>3, <1>4, <1>5, <1>6, <1>7, <1>8, <1>9 DEF Moves, Step, Proceed

\* The stored cursor moves only by a save of the holder of the lease.
LEMMA CursorSteps ==
    ASSUME IInv, NEW p \in Process, Moves(p)
    PROVE  \/ UNCHANGED cursor
           \/ /\ SaveSignalCursor(p) /\ Holds(p)
              /\ cursor' = [pos |-> cycle[p].after, token |-> cycle[p].token]
              /\ pc'[p] = "release" /\ UNCHANGED lease
  <1>1. CASE SaveSignalCursor(p)
    BY <1>1, Here DEF SaveSignalCursor, MaySaveCursor, Holds
  <1> QED
    BY <1>1 DEF Moves, Step, Proceed, Claim, GetSignalCursor, Poll, ClaimKey, LoadWakeState, CheckLease,
       SaveWakeState, SaveProposal, MarkApplied, MarkFailed, Release, Throw, Crash, Overrun, stored

\* A claim is granted under a new token, so tokens stay unique.
LEMMA LeaseKept ==
    ASSUME IInv, NEW p \in Process, Moves(p)
    PROVE  LeaseInv'
  <1>1. /\ lease.token \in Nat /\ cursor.token \in Nat
        /\ \A q \in Process : cycle[q].token \in Nat
    BY DEF IInv, TypeOK, LeaseRow, Cycle
  <1>2. LeaseInv
    BY DEF IInv
  <1>3. CASE Claim(p)
    <2>1. lease'.token = lease.token + 1 /\ cycle'[p].token = lease'.token /\ UNCHANGED cursor
      BY <1>3, Here DEF Claim, ClaimHeartbeatLease, NoCycle, stored
    <2>2. \A q \in Process : q # p /\ pc'[q] # "idle" =>
            cycle'[q].token = cycle[q].token /\ cycle[q].token <= lease.token
      BY <1>2, Others DEF LeaseInv
    <2>3. \A q \in Process : q # p /\ pc'[q] # "idle" => cycle'[q].token < cycle'[p].token
      BY <1>1, <2>1, <2>2
    <2> QED
      BY <1>1, <1>2, <2>1, <2>2, <2>3, Others DEF LeaseInv
  <1>4. CASE ~Claim(p)
    <2>1. cursor'.token <= lease'.token
      BY <1>1, <1>2, <1>4, CursorSteps, Tokens DEF LeaseInv, Holds
    <2>2. \A q \in Process : pc'[q] # "idle" =>
            pc[q] # "idle" /\ cycle'[q].token = cycle[q].token
      BY <1>4, Others, Tokens
    <2> QED
      BY <1>2, <1>4, <2>1, <2>2, Tokens DEF LeaseInv
  <1> QED
    BY <1>3, <1>4

\* The next row to claim or settle is one of those to do.
LEMMA NextTodo ==
    ASSUME IInv, NEW p \in Process, pc[p] \in {"claim", "settle"}
    PROVE  First(cycle[p].todo) \in cycle[p].todo /\ First(cycle[p].todo) \in Row
  <1>1. cycle[p] \in Cycle /\ StageOf(p)
    BY DEF IInv, TypeOK
  <1>2. cycle[p].todo \in SUBSET Row /\ cycle[p].todo # {}
    BY <1>1 DEF StageOf, Cycle
  <1> QED
    BY <1>2, FirstIn

\* What a claim of a key does to its cycle.
LEMMA ClaimKeyHere ==
    ASSUME IInv, NEW p \in Process, ClaimKey(p)
    PROVE  LET e     == First(cycle[p].todo)
               todo  == cycle[p].todo \ {e}
               fresh == cycle[p].fresh \cup (IF journal[KeyOf(p, e)] = "none" THEN {e} ELSE {})
           IN  /\ cycle'[p] = [cycle[p] EXCEPT !.todo = todo, !.fresh = fresh]
               /\ pc'[p] = IF RequiresReconciliation(KeyOf(p, e)) THEN "release"
                           ELSE IF todo # {} THEN "claim"
                           ELSE IF fresh # {} THEN "load" ELSE "save"
  BY Here DEF ClaimKey, AfterClaims

\* A step of a process leaves it where it may be.
LEMMA StageKept ==
    ASSUME IInv, NEW p \in Process, Moves(p)
    PROVE  StageOf(p)'
  <1>0. cycle[p] \in Cycle /\ StageOf(p) /\ rows \in Nat
    BY SignalsAssumption DEF IInv, TypeOK, SignalsAssumption
  <1>1. CASE Claim(p)
    BY <1>1, Here DEF Claim, StageOf, NoCycle
  <1>2. CASE GetSignalCursor(p)
    BY <1>0, <1>2, Here DEF GetSignalCursor, StageOf, Cycle
  <1>3. CASE Poll(p)
    <2> DEFINE batch == Start(cycle[p].before) + 1 .. rows
    <2>1. CASE UNCHANGED cycle /\ pc'[p] = "release"
      BY <1>0, <1>3, <2>1, PollHere DEF StageOf, Cycle
    <2>2. CASE /\ cycle'[p] = [cycle[p] EXCEPT !.after = rows, !.todo = batch]
               /\ pc'[p] = IF batch = {} THEN "save" ELSE "claim"
      <3>1. \A e \in batch : e <= rows
        BY <1>0
      <3>2. pc[p] = "poll"
        BY <1>3, PollHere
      <3> HIDE DEF batch
      <3> QED
        BY <1>0, <2>2, <3>1, <3>2 DEF StageOf, Cycle
    <2> QED
      BY <1>3, <2>1, <2>2, PollHere
  <1>4. CASE ClaimKey(p)
    <2> DEFINE e == First(cycle[p].todo)
               todo == cycle[p].todo \ {e}
               fresh == cycle[p].fresh \cup (IF journal[KeyOf(p, e)] = "none" THEN {e} ELSE {})
    <2>1. /\ cycle'[p] = [cycle[p] EXCEPT !.todo = todo, !.fresh = fresh]
          /\ pc'[p] = "release" \/ pc'[p] = (IF todo # {} THEN "claim"
                                             ELSE IF fresh # {} THEN "load" ELSE "save")
          /\ pc[p] = "claim"
      BY <1>4, ClaimKeyHere DEF ClaimKey
    <2>2. todo \subseteq cycle[p].todo
      OBVIOUS
    <2> HIDE DEF e, todo, fresh
    <2>3. /\ cycle'[p].todo = todo /\ cycle'[p].fresh = fresh
          /\ cycle'[p].after = cycle[p].after
      BY <1>0, <2>1 DEF Cycle
    <2> QED
      BY <1>0, <2>1, <2>2, <2>3 DEF StageOf
  <1>5. CASE LoadWakeState(p)
    <2>1. PICK aged \in SUBSET wake.seen, pending \in Seq(Row), due \in Seq(Seq(Row)) :
                 Evaluates(p, aged, pending, due)
      BY <1>5, Loads DEF IInv
    <2>2. cycle'[p].fresh = cycle[p].fresh /\ pc'[p] = "check" /\ pc[p] = "load"
      BY <1>0, <1>5, <2>1, Here DEF LoadWakeState, Evaluates, Cycle
    <2> QED
      BY <1>0, <2>2 DEF StageOf
  <1>6. CASE CheckLease(p)
    BY <1>0, <1>6, FailHere, Here DEF CheckLease, StageOf
  <1>7. CASE SaveWakeState(p)
    BY <1>0, <1>7, FailHere, PersistedHere, Here DEF SaveWakeState, StageOf
  <1>8. CASE SaveProposal(p)
    <2>1. CASE Set(p, [cycle[p] EXCEPT !.due = Tail(@)]) /\ UNCHANGED pc /\ Len(cycle[p].due) # 1
      <3>1. cycle[p].due \in Seq(Seq(Row)) /\ cycle[p].due # <<>> /\ pc[p] = "propose"
        BY <1>0, <1>8 DEF SaveProposal, StageOf, Cycle
      <3>2. Tail(cycle[p].due) \in Seq(Seq(Row)) /\ Len(Tail(cycle[p].due)) # 0
        BY <2>1, <3>1, HeadTailProperties, EmptySeq
      <3>3. Tail(cycle[p].due) # <<>>
        BY <3>2, EmptySeq
      <3>4. cycle'[p].due = Tail(cycle[p].due) /\ cycle'[p].fresh = cycle[p].fresh
        BY <1>0, <2>1, Here DEF Cycle
      <3> QED
        BY <1>0, <2>1, <3>1, <3>3, <3>4 DEF StageOf
    <2> QED
      BY <1>0, <1>8, <2>1, FailHere, PersistedHere DEF SaveProposal, StageOf
  <1>9. CASE MarkApplied(p)
    <2> DEFINE e == First(cycle[p].todo)
    <2>1. /\ cycle'[p] = [cycle[p] EXCEPT !.todo = @ \ {e}]
          /\ pc'[p] = (IF cycle[p].todo = {e} THEN "save" ELSE "settle")
          /\ pc[p] = "settle"
      BY <1>9, Here DEF MarkApplied
    <2> HIDE DEF e
    <2>2. cycle'[p].todo = cycle[p].todo \ {e} /\ cycle'[p].fresh = cycle[p].fresh
      BY <1>0, <2>1 DEF Cycle
    <2> QED
      BY <1>0, <2>1, <2>2 DEF StageOf
  <1>10. CASE SaveSignalCursor(p)
    BY <1>0, <1>10, FailHere, Here DEF SaveSignalCursor, StageOf
  <1>11. CASE MarkFailed(p)
    <2>1. /\ cycle'[p].fresh = cycle[p].fresh /\ pc[p] = "catch"
          /\ pc'[p] \in {"release", "catch"}
      BY <1>0, <1>11, Here DEF MarkFailed, Cycle
    <2> QED
      BY <1>0, <2>1 DEF StageOf
  <1>12. CASE Release(p) \/ Crash(p)
    BY <1>12, Here DEF Release, Crash, StageOf, NoCycle
  <1>13. CASE Throw(p)
    BY <1>0, <1>13, FailHere, Here DEF Throw, StageOf
  <1>14. CASE Overrun(p)
    BY <1>0, <1>14 DEF Overrun, StageOf
  <1> QED
    BY <1>1, <1>2, <1>3, <1>4, <1>5, <1>6, <1>7, <1>8, <1>9, <1>10, <1>11, <1>12, <1>13, <1>14
       DEF Moves, Step, Proceed

\* What a step does to the page of its cycle: it reads where the page begins or
\* ends, keeps the page, or drops it.
LEMMA PageSteps ==
    ASSUME IInv, NEW p \in Process, Moves(p)
    PROVE  \/ GetSignalCursor(p) /\ pc'[p] = "poll" /\ cycle'[p].after = cycle[p].after
                                 /\ cycle'[p].before = cursor.pos
           \/ Poll(p) /\ cycle'[p].after = rows /\ cycle'[p].before = cycle[p].before
           \/ /\ cycle'[p].after = cycle[p].after /\ cycle'[p].before = cycle[p].before
              /\ pc'[p] \in PolledStage => pc[p] \in PolledStage
           \/ /\ cycle'[p].after = 0 /\ cycle'[p].before = Null
              /\ pc'[p] \in {"idle", "cursor", "load"}
              /\ p \in Pollers => pc'[p] # "load"
  <1>0. cycle[p] \in Cycle
    BY DEF IInv, TypeOK
  <1>1. CASE Claim(p) \/ Release(p) \/ Crash(p)
    BY <1>1, Here DEF Claim, Release, Crash, NoCycle
  <1>2. CASE GetSignalCursor(p) \/ Poll(p)
    <2>1. CASE GetSignalCursor(p)
      BY <1>0, <2>1, Here DEF GetSignalCursor, Cycle
    <2>2. CASE Poll(p)
      <3>1. CASE UNCHANGED cycle /\ pc'[p] = "release"
        BY <2>2, <3>1 DEF PolledStage
      <3>2. CASE cycle'[p] = [cycle[p] EXCEPT !.after = rows,
                                              !.todo = Start(cycle[p].before) + 1 .. rows]
        BY <1>0, <2>2, <3>2 DEF Cycle
      <3> QED
        BY <2>2, <3>1, <3>2, PollHere
    <2> QED
      BY <1>2, <2>1, <2>2
  <1>4. CASE ClaimKey(p)
    <2>1. cycle'[p].after = cycle[p].after /\ cycle'[p].before = cycle[p].before
      <3>1. PICK todo, fresh : Set(p, [cycle[p] EXCEPT !.todo = todo, !.fresh = fresh])
        BY <1>4 DEF ClaimKey
      <3> QED
        BY <1>0, <3>1, Here DEF Cycle
    <2> QED
      BY <1>4, <2>1 DEF ClaimKey, PolledStage
  <1>5. CASE LoadWakeState(p)
    <2>1. PICK aged \in SUBSET wake.seen, pending \in Seq(Row), due \in Seq(Seq(Row)) :
                 Evaluates(p, aged, pending, due)
      BY <1>5, Loads DEF IInv
    <2>2. cycle'[p].after = cycle[p].after /\ cycle'[p].before = cycle[p].before
      BY <1>0, <2>1, Here DEF Evaluates, Cycle
    <2> QED
      BY <1>5, <2>2 DEF LoadWakeState, PolledStage
  <1>6. CASE CheckLease(p) \/ SaveWakeState(p)
    BY <1>6, FailHere, PersistedHere DEF CheckLease, SaveWakeState, PolledStage
  <1>8. CASE SaveProposal(p)
    <2>1. CASE Set(p, [cycle[p] EXCEPT !.due = Tail(@)])
      <3>1. cycle'[p].after = cycle[p].after /\ cycle'[p].before = cycle[p].before
        BY <1>0, <2>1, Here DEF Cycle
      <3> QED
        BY <1>8, <3>1 DEF SaveProposal, PolledStage
    <2> QED
      BY <1>8, <2>1, FailHere, PersistedHere DEF SaveProposal, PolledStage
  <1>9. CASE MarkApplied(p) \/ MarkFailed(p)
    <2>1. PICK todo : Set(p, [cycle[p] EXCEPT !.todo = todo])
      BY <1>9 DEF MarkApplied, MarkFailed
    <2>2. cycle'[p].after = cycle[p].after /\ cycle'[p].before = cycle[p].before
      BY <1>0, <2>1, Here DEF Cycle
    <2>3. pc[p] = "settle" \/ pc'[p] \in {"release", "catch"}
      BY <1>9, Here DEF MarkApplied, MarkFailed
    <2> QED
      BY <2>2, <2>3 DEF PolledStage
  <1>10. CASE SaveSignalCursor(p) \/ Throw(p) \/ Overrun(p)
    BY <1>10, FailHere, Here DEF SaveSignalCursor, Throw, Overrun, PolledStage
  <1> QED
    BY <1>1, <1>2, <1>4, <1>5, <1>6, <1>8, <1>9, <1>10 DEF Moves, Step, Proceed

\* A cursor read by a cycle under a lease that is still current is the stored one, so
\* what the cycle saves is not behind it.
LEMMA PositionKept ==
    ASSUME IInv, NEW p \in Process, Moves(p)
    PROVE  PositionInv' /\ cursor'.pos >= cursor.pos /\ cursor'.token >= cursor.token
  <1>0. /\ rows \in Nat /\ cursor.pos \in Int /\ cursor.token \in Nat /\ UNCHANGED rows
        /\ \A q \in Process : cycle[q].before \in Int /\ cycle[q].after \in Nat
    <2>1. UNCHANGED rows
      BY DEF Moves, Step, Proceed, Claim, GetSignalCursor, Poll, ClaimKey, LoadWakeState, CheckLease,
         SaveWakeState, SaveProposal, MarkApplied, SaveSignalCursor, MarkFailed, Release, Throw,
         Crash, Overrun
    <2> QED
      BY <2>1, SignalsAssumption DEF IInv, TypeOK, Cycle, Position, Null, SignalsAssumption
  <1>1. LeaseInv /\ PositionInv /\ Pollers \subseteq Process /\ \A q \in Process : StageOf(q)
    BY SignalsAssumption DEF IInv, SignalsAssumption
  <1>2. cursor' # cursor => p \in Pollers /\ pc[p] = "save" /\ cursor.pos <= cycle[p].after
                            /\ cycle[p].token >= cursor.token
    BY <1>1, CursorSteps DEF SaveSignalCursor, StageOf, PositionInv, PolledStage, MaySaveCursor
  <1>3. cursor'.pos >= cursor.pos /\ cursor'.token >= cursor.token /\ cursor'.pos <= rows
    BY <1>0, <1>1, <1>2, CursorSteps DEF PositionInv
  <1>4. \A q \in Process : cycle'[q].before <= rows /\ cycle'[q].after <= rows
    BY <1>0, <1>1, PageSteps, Others DEF PositionInv, Null
  <1>5. ASSUME NEW q \in Pollers, pc'[q] \in PolledStage, Holds(q)'
        PROVE  cursor'.pos <= cycle'[q].after
    <2>1. CASE UNCHANGED cursor
      <3>1. CASE q = p /\ Poll(p)
        <4>1. pc[p] = "poll" /\ ~GetSignalCursor(p)
          BY <3>1 DEF Poll, GetSignalCursor
        <4>2. cycle'[p].after = rows
          BY <1>5, <3>1, <4>1, PageSteps DEF PolledStage
        <4> QED
          BY <1>1, <2>1, <3>1, <4>2 DEF PositionInv
      <3>2. CASE ~(q = p /\ Poll(p))
        <4>1. pc[q] \in PolledStage /\ cycle'[q].after = cycle[q].after
          BY <1>1, <1>5, <3>2, PageSteps, Others DEF PolledStage
        <4>2. Holds(q)
          <5>1. CASE Claim(p)
            <6>1. cycle'[q].token = lease.token + 1
              BY <1>5, <5>1 DEF Claim, ClaimHeartbeatLease, Holds, IsHeartbeatLeaseCurrent, NamesLease
            <6>2. q # p
              BY <4>1, <5>1 DEF Claim, PolledStage
            <6>3. cycle[q].token = lease.token + 1 /\ cycle[q].token <= lease.token
              BY <1>1, <4>1, <6>1, <6>2, Others DEF LeaseInv, PolledStage
            <6>4. lease.token \in Nat
              BY DEF IInv, TypeOK, LeaseRow
            <6> QED
              BY <6>3, <6>4
          <5>2. CASE ~Claim(p)
            <6>1. cycle'[q].token = cycle[q].token
              <7>1. pc'[q] # "idle"
                BY <1>5 DEF PolledStage
              <7>2. q \in Process
                BY <1>1
              <7> QED
                BY <5>2, <7>1, <7>2, Tokens, Others
            <6>2. /\ lease'.token = lease.token /\ lease'.owner = lease.owner
                  /\ lease'.live => lease.live
              BY <5>2, Tokens
            <6> QED
              BY <1>5, <4>1, <6>1, <6>2
                 DEF Holds, IsHeartbeatLeaseCurrent, NamesLease, PolledStage
          <5> QED
            BY <5>1, <5>2
        <4> QED
          BY <1>1, <2>1, <4>1, <4>2 DEF PositionInv
      <3> QED
        BY <3>1, <3>2
    <2>2. CASE ~UNCHANGED cursor
      <3>1. Holds(p) /\ UNCHANGED lease /\ pc'[p] = "release"
        BY <2>2, CursorSteps
      <3>2. q # p
        BY <1>5, <3>1 DEF PolledStage
      <3>3. Holds(q)
        BY <1>1, <1>5, <3>1, <3>2, Others DEF Holds, IsHeartbeatLeaseCurrent, NamesLease
      <3> QED
        BY <1>1, <3>1, <3>2, <3>3 DEF LeaseInv, Holds, IsHeartbeatLeaseCurrent, NamesLease
    <2> QED
      BY <2>1, <2>2
  <1> QED
    BY <1>0, <1>3, <1>4, <1>5 DEF PositionInv

-----------------------------------------------------------------------------
(* What is counted. *)

\* A cycle saved the wake state it evaluated, on the version it evaluated.
SavesWake(p) ==
    /\ pc[p] = "persist" /\ wake.version = cycle[p].version
    /\ wake' = [version |-> wake.version + 1, seen |-> cycle[p].seen,
                pending |-> cycle[p].pending]
    /\ Counted' = Counted \cup cycle[p].new
    /\ \A e \in Row : counted'[e] > 1 => counted[e] > 1 \/ e \in cycle[p].new \cap Counted
    /\ lapsed' = lapsed \cup cycle[p].aged
    /\ (pc'[p] = "propose" /\ cycle' = cycle) \/ Persisted(p)
    /\ pc'[p] = "propose" <=> cycle[p].due # <<>>
    /\ UNCHANGED <<cursor, journal, proposals, lost>>

\* Only that changes what is counted.
LEMMA WakeSteps ==
    ASSUME IInv, NEW p \in Process, Moves(p)
    PROVE  \/ /\ wake' = wake /\ counted' = counted /\ lapsed' = lapsed
              /\ SaveWakeState(p) => Fail(p) /\ UNCHANGED <<cursor, journal, proposals, lost>>
           \/ SaveWakeState(p) /\ SavesWake(p)
  <1>1. CASE SaveWakeState(p)
    <2>1. CASE ~WakeUnchanged(p)
      BY <1>1, <2>1 DEF SaveWakeState
    <2>2. CASE WakeUnchanged(p)
      <3>1. counted \in [Row -> Nat]
        BY DEF IInv, TypeOK
      <3>2. counted' = [e \in Row |-> counted[e] + IF e \in cycle[p].new THEN 1 ELSE 0]
        BY <1>1, <2>2 DEF SaveWakeState
      <3>3. cycle[p].new \subseteq Row
        BY DEF IInv, TypeOK, Cycle
      <3>4. Counted' = Counted \cup cycle[p].new
        BY <3>1, <3>2, <3>3 DEF Counted
      <3>5. \A e \in Row : counted'[e] > 1 =>
              counted[e] > 1 \/ e \in cycle[p].new \cap Counted
        BY <3>1, <3>2 DEF Counted
      <3>6. \/ pc'[p] = "propose" /\ cycle' = cycle /\ cycle[p].due # <<>>
            \/ Persisted(p) /\ pc'[p] # "propose" /\ cycle[p].due = <<>>
        BY <1>1, <2>2, Here, PersistedHere DEF SaveWakeState
      <3> QED
        BY <1>1, <2>2, <3>4, <3>5, <3>6 DEF SaveWakeState, SavesWake, WakeUnchanged
    <2> QED
      BY <2>1, <2>2
  <1>2. CASE ~SaveWakeState(p)
    <2>1. CASE Claim(p) \/ GetSignalCursor(p) \/ Poll(p) \/ LoadWakeState(p) \/ CheckLease(p)
               \/ Release(p) \/ Overrun(p)
      BY <1>2, <2>1 DEF Claim, GetSignalCursor, Poll, LoadWakeState, CheckLease, Release, Overrun,
         stored, history
    <2>2. CASE ClaimKey(p) \/ MarkApplied(p) \/ MarkFailed(p) \/ SaveSignalCursor(p)
      BY <1>2, <2>2 DEF ClaimKey, MarkApplied, MarkFailed, SaveSignalCursor, history
    <2>3. CASE SaveProposal(p) \/ Throw(p) \/ Crash(p)
      BY <1>2, <2>3 DEF SaveProposal, Throw, Crash, stored
    <2> QED
      BY <1>2, <2>1, <2>2, <2>3 DEF Moves, Step, Proceed
  <1> QED
    BY <1>1, <1>2

\* Nothing counted is ever uncounted.
LEMMA CountedGrows ==
    ASSUME IInv, NEW p \in Process, Moves(p)
    PROVE  /\ Counted \subseteq Counted'
           /\ ~SaveWakeState(p) => UNCHANGED Counted
  BY WakeSteps DEF SavesWake, Counted

\* A key is applied only by the process that counted its event.
LEMMA AppliedSteps ==
    ASSUME IInv, NEW p \in Process, Moves(p), NEW k \in Key, journal'[k] = "applied"
    PROVE  journal[k] = "applied" \/ k[1] \in Counted
  <1>1. journal \in [Key -> {"none", "intent", "applied", "failed", "unknown"}]
    BY DEF IInv, TypeOK
  <1>2. CASE MarkApplied(p)
    <2>1. First(cycle[p].todo) \in Counted
      BY <1>2, NextTodo DEF MarkApplied, IInv, StageOf, PageInv
    <2>2. k = KeyOf(p, First(cycle[p].todo)) \/ journal'[k] = journal[k]
      BY <1>1, <1>2 DEF MarkApplied
    <2> QED
      BY <2>1, <2>2 DEF KeyOf
  <1>3. CASE ClaimKey(p)
    <2>1. journal' = [journal EXCEPT ![KeyOf(p, First(cycle[p].todo))] =
                        IF @ = "none" THEN "intent" ELSE @]
      BY <1>3 DEF ClaimKey
    <2> QED
      BY <1>1, <2>1
  <1>4. CASE MarkFailed(p)
    <2>1. journal' = [journal EXCEPT ![KeyOf(p, First(cycle[p].todo))] =
                        IF @ # "intent" THEN @
                        ELSE IF cycle[p].persisted THEN "unknown" ELSE "failed"]
      BY <1>4 DEF MarkFailed
    <2> QED
      BY <1>1, <2>1
  <1>5. CASE ~MarkApplied(p) /\ ~ClaimKey(p) /\ ~MarkFailed(p)
    <2>1. UNCHANGED journal
      BY <1>5 DEF Moves, Step, Proceed, Claim, GetSignalCursor, Poll, LoadWakeState, CheckLease,
         SaveWakeState, SaveProposal, SaveSignalCursor, Release, Throw, Crash, Overrun, stored
    <2> QED
      BY <2>1
  <1> QED
    BY <1>2, <1>3, <1>4, <1>5

\* The cursor passes what the page of a saving cycle has counted.
LEMMA CountedKept ==
    ASSUME IInv, NEW p \in Process, Moves(p)
    PROVE  CountedInv'
  <1>1. CountedInv /\ PageInv(p) /\ counted \in [Row -> Nat]
    BY DEF IInv, TypeOK
  <1>2. Row \subseteq Nat /\ \A e \in Row : e >= 1
    BY SignalsAssumption DEF Row, SignalsAssumption
  <1>3. \A e \in Row : e <= cursor'.pos => e \in Counted
    <2>1. CASE UNCHANGED cursor
      BY <1>1, <2>1 DEF CountedInv, NoRowSkipped, Counted
    <2>2. CASE SaveSignalCursor(p) /\ cursor'.pos = cycle[p].after
      <3>1. 1..cycle[p].after \subseteq Counted /\ cycle[p].after \in Nat
        BY <1>1, <2>2 DEF SaveSignalCursor, PageInv, IInv, TypeOK, Cycle
      <3> QED
        BY <1>2, <2>2, <3>1
    <2> QED
      BY <2>1, <2>2, CursorSteps
  <1>4. NoRowSkipped'
    BY <1>3, CountedGrows DEF NoRowSkipped, Counted
  <1>5. wake'.seen \subseteq Counted'
    <2>1. CASE UNCHANGED wake
      BY <1>1, <2>1, CountedGrows DEF CountedInv
    <2>2. CASE SavesWake(p)
      BY <1>1, <2>2 DEF SavesWake, PageInv
    <2> QED
      BY <2>1, <2>2, WakeSteps
  <1>6. \A k \in Key : journal'[k] = "applied" => k[1] \in Counted'
    BY <1>1, AppliedSteps, CountedGrows DEF CountedInv
  <1> QED
    BY <1>4, <1>5, <1>6 DEF CountedInv

\* A row of a page is counted, being counted, or a duplicate of what was counted.
LEMMA PageKept ==
    ASSUME IInv, NEW p \in Process, Moves(p), NEW q \in Process
    PROVE  PageInv(q)'
  <1>0. /\ cycle[p] \in Cycle /\ PageInv(p) /\ StageOf(p) /\ CountedInv
        /\ counted \in [Row -> Nat] /\ rows \in 0..MaxRows /\ MaxRows \in Nat
    BY SignalsAssumption DEF IInv, TypeOK, SignalsAssumption
  <1>01. Row \subseteq Nat /\ \A e \in Row : e >= 1
    BY SignalsAssumption DEF Row, SignalsAssumption
  <1>1. CASE q # p
    <2>1. pc'[q] = pc[q] /\ cycle'[q] = cycle[q] /\ PageInv(q)
      BY <1>1, Others DEF IInv
    <2> QED
      BY <2>1, CountedGrows DEF PageInv
  <1> SUFFICES ASSUME q = p PROVE PageInv(p)'
    BY <1>1
  <1>2. CASE Claim(p) \/ Release(p) \/ Crash(p)
    <2>1. cycle'[p].before = Null /\ cycle'[p].after = 0 /\ pc'[p] \in {"idle", "cursor", "load"}
      BY <1>2, Here DEF Claim, Release, Crash, NoCycle
    <2>2. 1..0 = {} /\ \A e \in Row : ~(e <= Null)
      BY <1>01 DEF Null
    <2> QED
      BY <2>1, <2>2 DEF PageInv
  <1>3. CASE GetSignalCursor(p)
    <2>1. cycle'[p].before = cursor.pos /\ pc'[p] = "poll"
      BY <1>0, <1>3, Here DEF GetSignalCursor, Cycle
    <2>2. \A e \in Row : e <= cursor.pos => e \in Counted
      BY <1>0 DEF CountedInv, NoRowSkipped, Counted
    <2> QED
      BY <2>1, <2>2, CountedGrows DEF PageInv
  <1>4. CASE Poll(p)
    <2> DEFINE batch == Start(cycle[p].before) + 1 .. rows
    <2>6. CASE UNCHANGED cycle /\ pc'[p] = "release"
      BY <1>0, <1>4, <2>6, CountedGrows DEF PageInv
    <2> SUFFICES ASSUME cycle'[p] = [cycle[p] EXCEPT !.after = rows, !.todo = batch],
                        pc'[p] = (IF batch = {} THEN "save" ELSE "claim")
                 PROVE  PageInv(p)'
      BY <1>4, <2>6, PollHere
    <2>1. cycle'[p] = [cycle[p] EXCEPT !.after = rows, !.todo = batch]
      OBVIOUS
    <2>2. pc'[p] = (IF batch = {} THEN "save" ELSE "claim")
      OBVIOUS
    <2>3. \A e \in 1..rows : e \in Counted \cup batch
      <3> SUFFICES ASSUME NEW e \in 1..rows, e \notin batch PROVE e \in Counted
        OBVIOUS
      <3>1. cycle[p].before \in Position /\ e \in Row /\ e \in Nat
        BY <1>0 DEF Cycle, Row
      <3>2. e <= cycle[p].before
        BY <1>0, <3>1 DEF Start, Null, Position
      <3> QED
        BY <1>0, <3>1, <3>2 DEF PageInv
    <2> HIDE DEF batch
    <2>4. cycle'[p].after = rows /\ cycle'[p].todo = batch /\ cycle'[p].before = cycle[p].before
      BY <1>0, <2>1 DEF Cycle
    <2>5. ~SaveWakeState(p)
      BY <1>4 DEF Poll, SaveWakeState
    <2> QED
      BY <1>0, <2>2, <2>3, <2>4, <2>5, CountedGrows DEF PageInv
  <1>5. CASE ClaimKey(p)
    <2> DEFINE e == First(cycle[p].todo)
               k == KeyOf(p, e)
               todo == cycle[p].todo \ {e}
               fresh == cycle[p].fresh \cup (IF journal[k] = "none" THEN {e} ELSE {})
    <2>1. /\ cycle'[p] = [cycle[p] EXCEPT !.todo = todo, !.fresh = fresh]
          /\ pc'[p] = (IF RequiresReconciliation(k) THEN "release"
                       ELSE IF todo # {} THEN "claim"
                       ELSE IF fresh # {} THEN "load" ELSE "save")
          /\ pc[p] = "claim"
      BY <1>5, ClaimKeyHere DEF ClaimKey
    <2>2. e \in cycle[p].todo /\ e \in Row
      BY <2>1, NextTodo
    <2>3. k \in Key /\ k[1] = e
      <3>1. e <= cycle[p].after /\ cycle[p].after \in 0..MaxRows /\ cycle[p].before \in Position
        BY <1>0, <2>1, <2>2 DEF StageOf, Cycle
      <3>2. cycle[p].after \in Row
        BY <1>0, <1>01, <2>2, <3>1 DEF Row
      <3> QED
        BY <2>2, <3>1, <3>2 DEF KeyOf, Key
    <2>4. ~RequiresReconciliation(k) => e \in Counted \cup fresh
      BY <1>0, <2>3 DEF RequiresReconciliation, CountedInv
    <2>5. cycle[p].todo \subseteq todo \cup {e} /\ cycle[p].fresh \subseteq fresh
      OBVIOUS
    <2>6. UNCHANGED Counted
      <3>1. ~SaveWakeState(p)
        BY <2>1 DEF SaveWakeState
      <3> QED
        BY <3>1, CountedGrows
    <2> HIDE DEF e, k, todo, fresh
    <2>7. /\ cycle'[p].todo = todo /\ cycle'[p].fresh = fresh
          /\ cycle'[p].before = cycle[p].before /\ cycle'[p].after = cycle[p].after
      BY <1>0, <2>1 DEF Cycle
    <2> QED
      BY <1>0, <2>1, <2>4, <2>5, <2>6, <2>7 DEF PageInv
  <1>6. CASE LoadWakeState(p)
    <2>1. PICK aged \in SUBSET wake.seen, pending \in Seq(Row), due \in Seq(Seq(Row)) :
                 Evaluates(p, aged, pending, due)
      BY <1>6, Loads DEF IInv
    <2> DEFINE retained == wake.seen \ aged
               new == cycle[p].fresh \ retained
    <2>6. cycle'[p] = [cycle[p] EXCEPT !.version = wake.version, !.aged = aged, !.new = new,
                                       !.seen = retained \cup new, !.pending = pending, !.due = due]
      BY <2>1, Here DEF Evaluates
    <2> HIDE DEF retained, new
    <2>5. /\ cycle'[p].fresh = cycle[p].fresh /\ cycle'[p].before = cycle[p].before
          /\ cycle'[p].after = cycle[p].after
          /\ cycle'[p].new = new /\ cycle'[p].seen = retained \cup new
      BY <1>0, <2>6 DEF Cycle
    <2>2. /\ cycle'[p].fresh = cycle[p].fresh /\ cycle'[p].before = cycle[p].before
          /\ cycle'[p].after = cycle[p].after
          /\ cycle'[p].new = cycle[p].fresh \ (wake.seen \ aged)
          /\ cycle'[p].seen = (wake.seen \ aged) \cup (cycle[p].fresh \ (wake.seen \ aged))
      BY <2>5 DEF retained, new
    <2>3. pc'[p] = "check" /\ pc[p] = "load"
      BY <1>6, Here DEF LoadWakeState
    <2>4. UNCHANGED Counted
      BY <2>3, CountedGrows DEF SaveWakeState
    <2> QED
      BY <1>0, <2>2, <2>3, <2>4 DEF PageInv, CountedInv
  <1>7. CASE CheckLease(p)
    <2>1. \/ pc'[p] = "persist" /\ UNCHANGED cycle
          \/ Fail(p)
      BY <1>7, Here DEF CheckLease
    <2> QED
      BY <1>0, <1>7, <2>1, FailHere, CountedGrows DEF PageInv, CheckLease
  <1>8. CASE SaveWakeState(p)
    <2>1. CASE SavesWake(p)
      BY <1>0, <2>1, PersistedHere DEF PageInv, SavesWake
    <2>2. CASE ~SavesWake(p)
      <3>1. Fail(p) /\ UNCHANGED counted
        BY <1>8, <2>2, WakeSteps
      <3> QED
        BY <1>0, <3>1, FailHere, CountedGrows DEF PageInv
    <2> QED
      BY <2>1, <2>2
  <1>9. CASE SaveProposal(p)
    <2>1. CASE Set(p, [cycle[p] EXCEPT !.due = Tail(@)]) /\ UNCHANGED pc
      <3>1. /\ cycle'[p].fresh = cycle[p].fresh /\ cycle'[p].before = cycle[p].before
            /\ cycle'[p].after = cycle[p].after
        BY <1>0, <2>1, Here DEF Cycle
      <3> QED
        BY <1>0, <1>9, <2>1, <3>1, CountedGrows DEF SaveProposal, PageInv
    <2> QED
      BY <1>0, <1>9, <2>1, FailHere, PersistedHere, CountedGrows DEF SaveProposal, PageInv
  <1>10. CASE MarkApplied(p) \/ MarkFailed(p)
    <2>1. PICK todo : Set(p, [cycle[p] EXCEPT !.todo = todo])
      BY <1>10 DEF MarkApplied, MarkFailed
    <2>2. /\ cycle'[p].fresh = cycle[p].fresh /\ cycle'[p].before = cycle[p].before
          /\ cycle'[p].after = cycle[p].after
      BY <1>0, <2>1, Here DEF Cycle
    <2>3. \/ pc[p] = "settle" /\ pc'[p] \in {"settle", "save"}
          \/ pc'[p] \in {"release", "catch"}
      BY <1>10, Here DEF MarkApplied, MarkFailed
    <2> QED
      BY <1>0, <2>2, <2>3, CountedGrows DEF PageInv
  <1>11. CASE SaveSignalCursor(p) \/ Throw(p)
    <2>1. /\ cycle'[p].before = cycle[p].before /\ pc'[p] \in {"release", "catch"}
      BY <1>11, FailHere, Here DEF SaveSignalCursor, Throw
    <2> QED
      BY <1>0, <2>1, CountedGrows DEF PageInv
  <1>12. CASE Overrun(p)
    BY <1>0, <1>12, CountedGrows DEF Overrun, PageInv
  <1> QED
    BY <1>2, <1>3, <1>4, <1>5, <1>6, <1>7, <1>8, <1>9, <1>10, <1>11, <1>12 DEF Moves, Step, Proceed

\* What can follow an evaluation: nothing touches it until it is saved.
LEMMA EvaluationSteps ==
    ASSUME IInv, NEW p \in Process, Moves(p), pc'[p] \in {"check", "persist"}
    PROVE  \/ LoadWakeState(p)
           \/ pc[p] \in {"check", "persist"} /\ cycle' = cycle /\ UNCHANGED wake
  <1>1. CASE Claim(p) \/ GetSignalCursor(p) \/ Poll(p) \/ Release(p) \/ Crash(p)
    BY <1>1, Here DEF Claim, GetSignalCursor, Poll, Release, Crash
  <1>2. CASE ClaimKey(p)
    BY <1>2, ClaimKeyHere
  <1>3. CASE CheckLease(p) \/ SaveWakeState(p) \/ SaveSignalCursor(p) \/ Throw(p)
    BY <1>3, FailHere, PersistedHere, Here DEF CheckLease, SaveWakeState, SaveSignalCursor, Throw, stored
  <1>4. CASE SaveProposal(p)
    BY <1>4, FailHere, PersistedHere DEF SaveProposal
  <1>5. CASE MarkApplied(p) \/ MarkFailed(p)
    BY <1>5, Here DEF MarkApplied, MarkFailed
  <1>6. CASE Overrun(p)
    BY <1>6 DEF Overrun, stored
  <1> QED
    BY <1>1, <1>2, <1>3, <1>4, <1>5, <1>6 DEF Moves, Step, Proceed

\* The events of the proposals a process has still to save are due.
LEMMA DueIs == \A p : Due(p) = DueOf(cycle[p].due)
  BY DEF Due, DueOf

\* An evaluation stays one of the wake state, or the wake state moves past it.
LEMMA EvaluationKept ==
    ASSUME IInv, NEW p \in Process, Moves(p), NEW q \in Process
    PROVE  EvaluationInv(q)'
  <1>0. /\ wake.version \in Nat /\ EvaluationInv(q)
        /\ \A r \in Process : cycle[r] \in Cycle /\ cycle[r].version \in Nat
    BY DEF IInv, TypeOK, WakeState, Cycle
  <1> SUFFICES ASSUME pc'[q] \in {"check", "persist"} PROVE EvaluationInv(q)'
    BY DEF EvaluationInv
  <1>1. CASE q = p /\ LoadWakeState(p)
    <2>1. PICK aged \in SUBSET wake.seen, pending \in Seq(Row), due \in Seq(Seq(Row)) :
                 Evaluates(p, aged, pending, due)
      BY <1>1, Loads DEF IInv
    <2> DEFINE new == cycle[p].fresh \ (wake.seen \ aged)
    <2>2. /\ cycle'[p].version = wake.version /\ cycle'[p].aged = aged
          /\ cycle'[p].new = new /\ cycle'[p].seen = (wake.seen \ aged) \cup new
          /\ cycle'[p].pending = pending /\ cycle'[p].due = due
      <3>1. cycle'[p] = [cycle[p] EXCEPT
               !.version = wake.version, !.aged = aged, !.new = new,
               !.seen = (wake.seen \ aged) \cup new, !.pending = pending, !.due = due]
        BY <2>1, Here DEF Evaluates
      <3>2. cycle[p] \in Cycle
        BY <1>0
      <3> HIDE DEF new
      <3> QED
        BY <3>1, <3>2 DEF Cycle
    <2>3. Range(wake.pending) \cup new \subseteq Range(pending) \cup DueOf(due)
      BY <2>1 DEF Evaluates
    <2>4. UNCHANGED wake
      BY <1>1 DEF LoadWakeState, stored
    <2>5. new \cap wake.seen \subseteq aged
      OBVIOUS
    <2>6. Due(p)' = DueOf(due)
      BY <2>2 DEF Due, DueOf
    <2> HIDE DEF new
    <2> QED
      BY <1>0, <1>1, <2>2, <2>3, <2>4, <2>5, <2>6 DEF EvaluationInv
  <1>2. CASE q = p /\ ~LoadWakeState(p)
    <2>1. pc[q] \in {"check", "persist"} /\ cycle' = cycle /\ UNCHANGED wake
      BY <1>2, EvaluationSteps
    <2> QED
      BY <1>0, <2>1 DEF EvaluationInv, Due
  <1>3. CASE q # p
    <2>1. pc'[q] = pc[q] /\ cycle'[q] = cycle[q]
      BY <1>3, Others
    <2>2. Due(q)' = Due(q)
      BY <2>1 DEF Due
    <2>3. CASE wake' = wake
      BY <1>0, <2>1, <2>2, <2>3 DEF EvaluationInv
    <2>4. CASE SavesWake(p)
      <3>1. wake'.version = wake.version + 1
        BY <2>4 DEF SavesWake
      <3>2. cycle'[q].version <= wake'.version /\ cycle'[q].version # wake'.version
        BY <1>0, <2>1, <3>1 DEF EvaluationInv
      <3> QED
        BY <3>2 DEF EvaluationInv
    <2> QED
      BY <2>3, <2>4, WakeSteps
  <1> QED
    BY <1>1, <1>2, <1>3

\* An event counted again had its replay key compacted away before.
LEMMA ReplayKept ==
    ASSUME IInv, NEW p \in Process, Moves(p)
    PROVE  ReplayInv'
  <1>1. ReplayInv /\ EvaluationInv(p)
    BY DEF IInv
  <1>2. CASE wake' = wake /\ counted' = counted /\ lapsed' = lapsed
    BY <1>1, <1>2 DEF ReplayInv, CountedOnce, Counted
  <1>3. CASE SavesWake(p)
    <2>1. /\ wake.seen \ cycle[p].aged \subseteq wake'.seen
          /\ cycle[p].new \subseteq wake'.seen
          /\ cycle[p].new \cap wake.seen \subseteq cycle[p].aged
          /\ Counted' = Counted \cup cycle[p].new /\ lapsed' = lapsed \cup cycle[p].aged
      BY <1>1, <1>3 DEF SavesWake, EvaluationInv
    <2>2. Counted' \subseteq wake'.seen \cup lapsed'
      BY <1>1, <2>1 DEF ReplayInv
    <2>3. \A e \in Row : counted'[e] > 1 => counted[e] > 1 \/ e \in cycle[p].new \cap Counted
      BY <1>3 DEF SavesWake
    <2>4. CountedOnce'
      BY <1>1, <2>1, <2>3 DEF ReplayInv, CountedOnce
    <2> QED
      BY <2>2, <2>4 DEF ReplayInv
  <1> QED
    BY <1>2, <1>3, WakeSteps

-----------------------------------------------------------------------------
(* Where a counted event is. *)

Proposed == UNION {Range(q) : q \in proposals}

\* The first of the due proposals and the rest of them.
LEMMA DueSplits ==
    ASSUME NEW due \in Seq(Seq(Row)), due # <<>>
    PROVE  /\ DueOf(due) = Range(Head(due)) \cup DueOf(Tail(due))
           /\ Len(due) = 1 => DueOf(due) = Range(Head(due))
  <1>1. /\ Len(due) \in Nat /\ DOMAIN due = 1..Len(due) /\ Len(due) # 0
        /\ Head(due) = due[1]
    BY LenProperties, EmptySeq
  <1>2. /\ Tail(due) \in Seq(Seq(Row)) /\ Len(Tail(due)) = Len(due) - 1
        /\ \A i \in 1..Len(Tail(due)) : Tail(due)[i] = due[i + 1]
    BY HeadTailProperties
  <1>3. DOMAIN Tail(due) = 1..(Len(due) - 1)
    BY <1>2, LenProperties
  <1>4. ASSUME NEW e \in DueOf(due) PROVE e \in Range(Head(due)) \cup DueOf(Tail(due))
    <2>1. PICK i \in 1..Len(due) : e \in Range(due[i])
      BY <1>1 DEF DueOf
    <2>2. CASE i = 1
      BY <1>1, <2>1, <2>2
    <2>3. CASE i # 1
      <3>1. i - 1 \in 1..(Len(due) - 1) /\ (i - 1) + 1 = i
        BY <1>1, <2>3
      <3>2. Tail(due)[i - 1] = due[i]
        BY <1>2, <3>1
      <3> QED
        BY <1>3, <2>1, <3>1, <3>2 DEF DueOf
    <2> QED
      BY <2>2, <2>3
  <1>5. Range(Head(due)) \subseteq DueOf(due)
    <2>1. 1 \in DOMAIN due
      BY <1>1
    <2> QED
      BY <1>1, <2>1 DEF DueOf
  <1>6. ASSUME NEW e \in DueOf(Tail(due)) PROVE e \in DueOf(due)
    <2>1. PICK i \in 1..(Len(due) - 1) : e \in Range(Tail(due)[i])
      BY <1>3 DEF DueOf
    <2>2. i + 1 \in 1..Len(due) /\ Tail(due)[i] = due[i + 1]
      BY <1>1, <1>2, <2>1
    <2> QED
      BY <1>1, <2>1, <2>2 DEF DueOf
  <1>7. Len(due) = 1 => DueOf(Tail(due)) = {}
    BY <1>3 DEF DueOf
  <1> QED
    BY <1>4, <1>5, <1>6, <1>7

\* A step of a process that is saving proposals leaves each of their events saved, due
\* or lost.
LEMMA ProposeSteps ==
    ASSUME IInv, NEW p \in Process, Moves(p), pc[p] = "propose", NEW e, e \in Due(p)
    PROVE  e \in lost' \cup Proposed' \/ (pc'[p] = "propose" /\ e \in Due(p)')
  <1>1. CASE SaveProposal(p)
    <2>1. cycle[p] \in Cycle /\ cycle[p].due \in Seq(Seq(Row)) /\ cycle[p].due # <<>>
      BY DEF IInv, TypeOK, Cycle, StageOf
    <2>2. CASE Head(cycle[p].due) \in proposals
      BY <1>1, <2>2 DEF SaveProposal
    <2>3. CASE Head(cycle[p].due) \notin proposals
      <3>1. Range(Head(cycle[p].due)) \subseteq Proposed'
        BY <1>1, <2>3 DEF SaveProposal, Proposed
      <3>2. CASE Len(cycle[p].due) = 1
        BY <2>1, <3>1, <3>2, DueSplits, DueIs
      <3>3. CASE Len(cycle[p].due) # 1
        <4>1. cycle'[p] = [cycle[p] EXCEPT !.due = Tail(@)] /\ pc'[p] = "propose"
          BY <1>1, <2>3, <3>3, Here DEF SaveProposal
        <4>2. cycle'[p].due = Tail(cycle[p].due)
          BY <2>1, <4>1 DEF Cycle
        <4>3. Due(p)' = DueOf(Tail(cycle[p].due))
          BY <4>2 DEF Due, DueOf
        <4> QED
          BY <2>1, <3>1, <4>1, <4>3, DueSplits, DueIs
      <3> QED
        BY <3>2, <3>3
    <2> QED
      BY <2>2, <2>3
  <1>2. CASE Throw(p) \/ Crash(p)
    BY <1>2 DEF Throw, Crash, CutOff
  <1>3. CASE Overrun(p)
    BY <1>3 DEF Overrun, Due
  <1> QED
    BY <1>1, <1>2, <1>3 DEF Moves, Step, Proceed, Claim, GetSignalCursor, Poll, ClaimKey, LoadWakeState,
       CheckLease, SaveWakeState, MarkApplied, SaveSignalCursor, MarkFailed, Release

\* What was proposed or is lost stays so.
LEMMA ProposedGrows ==
    ASSUME IInv, NEW p \in Process, Moves(p)
    PROVE  Proposed \subseteq Proposed' /\ lost \subseteq lost'
  <1>1. CASE SaveProposal(p) \/ Throw(p) \/ Crash(p)
    BY <1>1 DEF SaveProposal, Throw, Crash, Proposed, stored
  <1>2. CASE SaveWakeState(p)
    BY <1>2, WakeSteps DEF SavesWake, Proposed
  <1>3. CASE Claim(p) \/ GetSignalCursor(p) \/ Poll(p) \/ LoadWakeState(p) \/ CheckLease(p)
             \/ Release(p) \/ Overrun(p)
    BY <1>3 DEF Claim, GetSignalCursor, Poll, LoadWakeState, CheckLease, Release, Overrun,
       stored, history, Proposed
  <1>4. CASE ClaimKey(p) \/ MarkApplied(p) \/ MarkFailed(p) \/ SaveSignalCursor(p)
    BY <1>4 DEF ClaimKey, MarkApplied, MarkFailed, SaveSignalCursor, history, Proposed
  <1> QED
    BY <1>1, <1>2, <1>3, <1>4 DEF Moves, Step, Proceed

\* No step takes a counted event out of the wake state without proposing it.
LEMMA NothingLostKept ==
    ASSUME IInv, NEW p \in Process, Moves(p)
    PROVE  NothingLost'
  <1>1. \A e \in Counted :
          \/ e \in Range(wake.pending) \cup Proposed \cup lost
          \/ \E q \in Process : pc[q] = "propose" /\ e \in Due(q)
    BY DEF IInv, NothingLost, Counted, Proposed
  <1>2. ASSUME NEW e, NEW q \in Process, pc[q] = "propose", e \in Due(q)
        PROVE  e \in lost' \cup Proposed' \/ (pc'[q] = "propose" /\ e \in Due(q)')
    <2>1. CASE q = p
      BY <1>2, <2>1, ProposeSteps
    <2>2. CASE q # p
      BY <1>2, <2>2, Others DEF Due
    <2> QED
      BY <2>1, <2>2
  <1>3. ASSUME NEW e, e \in Counted',
               e \notin Counted \/ e \in Range(wake.pending)
        PROVE  e \in Range(wake'.pending) \/ (pc'[p] = "propose" /\ e \in Due(p)')
    <2>1. CASE wake' = wake /\ counted' = counted
      BY <1>3, <2>1 DEF Counted
    <2>2. CASE SavesWake(p)
      <3>1. e \in Range(wake.pending) \cup cycle[p].new
        BY <1>3, <2>2 DEF SavesWake
      <3>2. e \in Range(wake'.pending) \cup Due(p)
        BY <2>2, <3>1 DEF SavesWake, IInv, EvaluationInv
      <3>3. CASE cycle[p].due = <<>>
        <4>1. Due(p) = {}
          BY <3>3 DEF Due
        <4> QED
          BY <3>2, <4>1
      <3>4. CASE cycle[p].due # <<>>
        <4>1. pc'[p] = "propose" /\ cycle' = cycle
          BY <2>2, <3>4, PersistedHere DEF SavesWake
        <4> QED
          BY <3>2, <4>1 DEF Due
      <3> QED
        BY <3>3, <3>4
    <2> QED
      BY <2>1, <2>2, WakeSteps
  <1>4. \A e \in Counted' :
          \/ e \in Range(wake'.pending) \cup Proposed' \cup lost'
          \/ \E q \in Process : pc'[q] = "propose" /\ e \in Due(q)'
    BY <1>1, <1>2, <1>3, ProposedGrows
  <1> QED
    BY <1>4 DEF NothingLost, Counted, Proposed

-----------------------------------------------------------------------------
(* The theorems. *)

\* A step of a process keeps the invariant.
LEMMA MovesKeep ==
    ASSUME IInv, NEW p \in Process, Moves(p)
    PROVE  IInv'
  <1>1. ASSUME NEW q \in Process PROVE StageOf(q)'
    <2>1. CASE q = p
      BY <2>1, StageKept
    <2>2. CASE q # p
      BY <2>2, Others DEF IInv, StageOf
    <2> QED
      BY <2>1, <2>2
  <1> QED
    BY <1>1, MovesType, LeaseKept, PositionKept, CountedKept, PageKept, ReplayKept,
       EvaluationKept, NothingLostKept DEF IInv

\* So do new rows, what happens to the file and the clock.
LEMMA EnvironmentKeeps ==
    ASSUME IInv,
           AddRow \/ (\E e \in 0..MaxRows : Spoil(e)) \/ Mend \/ ExpireAbandoned
             \/ UNCHANGED vars
    PROVE  IInv' /\ UNCHANGED cursor
  <1>1. /\ UNCHANGED <<cursor, journal, wake, proposals, pc, cycle, counted, lapsed, lost>>
        /\ rows' \in 0..MaxRows /\ rows' >= rows
        /\ bad' \subseteq 0..MaxRows /\ faults' \in Nat
        /\ lease' \in LeaseRow /\ lease'.token = lease.token /\ lease'.owner = lease.owner
        /\ lease'.live => lease.live
    <2>1. /\ rows \in 0..MaxRows /\ MaxRows \in Nat /\ lease \in LeaseRow
          /\ bad \subseteq 0..MaxRows /\ faults \in Nat
      BY SignalsAssumption DEF IInv, TypeOK, SignalsAssumption
    <2>2. CASE AddRow
      BY <2>1, <2>2 DEF AddRow, stored, history
    <2>5. CASE \E e \in 0..MaxRows : Spoil(e)
      BY <2>1, <2>5 DEF Spoil, stored, history
    <2>6. CASE Mend
      BY <2>1, <2>6 DEF Mend, stored, history
    <2>3. CASE ExpireAbandoned
      <3>1. /\ UNCHANGED <<rows, bad, cursor, journal, wake, proposals, pc, cycle, counted, lapsed,
                            lost, faults>>
            /\ lease' = [lease EXCEPT !.live = FALSE]
        BY <2>3 DEF ExpireAbandoned, ExpireLease, stored, history
      <3>2. /\ lease' \in LeaseRow /\ lease'.token = lease.token /\ lease'.owner = lease.owner
            /\ lease'.live => lease.live
        BY <2>1, <3>1 DEF LeaseRow
      <3>3. rows' \in 0..MaxRows /\ rows' >= rows /\ bad' \subseteq 0..MaxRows /\ faults' \in Nat
        BY <2>1, <3>1
      <3> QED
        BY <3>1, <3>2, <3>3
    <2>4. CASE UNCHANGED vars
      BY <2>1, <2>4 DEF vars, stored, history
    <2> QED
      BY <2>2, <2>3, <2>4, <2>5, <2>6
  <1>2. TypeOK'
    BY <1>1 DEF IInv, TypeOK
  <1>3. LeaseInv'
    BY <1>1 DEF IInv, LeaseInv
  <1>4. PositionInv'
    <2>1. /\ rows \in Int /\ rows' \in Int /\ cursor.pos \in Int
          /\ \A p \in Process : cycle[p].before \in Int /\ cycle[p].after \in Int
      BY <1>1, SignalsAssumption DEF IInv, TypeOK, Cycle, Position, Null, SignalsAssumption
    <2>2. PositionInv
      BY DEF IInv
    <2>3. cursor.pos <= rows' /\ \A p \in Process : cycle[p].before <= rows' /\ cycle[p].after <= rows'
      BY <1>1, <2>1, <2>2 DEF PositionInv
    <2>4. \A p \in Process : Holds(p)' => Holds(p)
      BY <1>1 DEF Holds, IsHeartbeatLeaseCurrent, NamesLease
    <2> QED
      BY <1>1, <2>2, <2>3, <2>4, SignalsAssumption DEF PositionInv, SignalsAssumption
  <1>5. \A p \in Process : StageOf(p)' /\ PageInv(p)' /\ EvaluationInv(p)'
    BY <1>1 DEF IInv, StageOf, PageInv, EvaluationInv, Counted, Due
  <1>6. CountedInv' /\ ReplayInv' /\ NothingLost'
    BY <1>1 DEF IInv, CountedInv, NoRowSkipped, ReplayInv, CountedOnce, NothingLost, Counted, Due
  <1> QED
    BY <1>1, <1>2, <1>3, <1>4, <1>5, <1>6 DEF IInv

LEMMA Invariance == Spec => []IInv
  <1>1. IInv /\ [Next]_vars => IInv'
    BY MovesKeep, EnvironmentKeeps DEF Next, Moves
  <1> QED
    BY <1>1, InitInv, PTL DEF Spec

\* Every reachable state of the lease, the cursor, the journal, the wake state, the
\* proposals and the cycles is well typed.
THEOREM TypeCorrect == Spec => []TypeOK
  <1>1. IInv => TypeOK
    BY DEF IInv
  <1> QED
    BY <1>1, Invariance, PTL

\* The signal cursor passes no row that has not been counted in the wake state.
THEOREM NothingSkipped == Spec => []NoRowSkipped
  <1>1. IInv => NoRowSkipped
    BY DEF IInv, CountedInv
  <1> QED
    BY <1>1, Invariance, PTL

\* An event is counted a second time only if its replay key had lapsed.
THEOREM CountsOnce == Spec => []CountedOnce
  <1>1. IInv => CountedOnce
    BY DEF IInv, ReplayInv
  <1> QED
    BY <1>1, Invariance, PTL

\* A counted event is pending, proposed, due or of a proposal that was cut off.
THEOREM LosesNothing == Spec => []NothingLost
  <1>1. IInv => NothingLost
    BY DEF IInv
  <1> QED
    BY <1>1, Invariance, PTL

\* The saved position and its token never go back.
THEOREM CursorMonotone == Spec => SignalCursorNeverRegresses
  <1>1. IInv /\ [Next]_vars =>
          [cursor'.pos >= cursor.pos /\ cursor'.token >= cursor.token]_vars
    <2> SUFFICES ASSUME IInv, [Next]_vars
                 PROVE  cursor'.pos >= cursor.pos /\ cursor'.token >= cursor.token
      OBVIOUS
    <2>1. cursor.pos \in Int /\ cursor.token \in Int
      BY SignalsAssumption DEF IInv, TypeOK, Position, Null, SignalsAssumption
    <2>2. CASE UNCHANGED cursor
      BY <2>1, <2>2
    <2> QED
      BY <2>2, PositionKept, EnvironmentKeeps DEF Next, Moves
  <1> QED
    BY <1>1, Invariance, PTL DEF Spec, SignalCursorNeverRegresses

=============================================================================
