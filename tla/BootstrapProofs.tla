---------------------------- MODULE BootstrapProofs ----------------------------
(***************************************************************************)
(* CapabilityPlane under BootstrapExecutor for every number of callers,    *)
(* plans, requirements, attempts and faults: providers act at most once    *)
(* for a key and only with its approval, concurrent requests stay within   *)
(* the envelope, assets belong to settled requests, are not duplicated by  *)
(* executions that do not overlap, and stand behind every completion.      *)
(***************************************************************************)
EXTENDS BootstrapExecutor, FiniteSetTheorems, TLAPS

USE PlaneAssumption DEF PlaneAssumption

-----------------------------------------------------------------------------
(* The inductive invariant of the plane. *)

\* Call c won the claim of its key and has not finished with it.
Holds(c) == call[c].stage \in {"attempt", "provider", "effect", "fail", "settle"}

\* A call that works on a key has one, and settles it with an outcome.
Keyed == \A c \in Caller :
    /\ Holds(c) \/ call[c].stage = "reconcile" => call[c].key \in Key
    /\ call[c].stage = "settle" => call[c].outcome # "none"

\* Nobody acts on a key without its row, and one call at most holds it.
Exclusive ==
    /\ \A k \in Key : journal[k].state = "none" => effects[k] = 0
    /\ \A c \in Caller : Holds(c) => journal[call[c].key].state # "none"
    /\ \A c, d \in Caller :
         Holds(c) /\ Holds(d) /\ call[c].key = call[d].key => c = d

\* A call that may still act has not acted.
Untouched == \A c \in Caller :
    call[c].stage \in {"attempt", "provider"} => effects[call[c].key] = 0

\* The calls whose reservation stands until they are answered.
InFlight == {c \in Caller : call[c].stage \in {"provider", "effect"}}

\* The envelope holds what was spent and not given back, with what is about to be
\* spent, and every reservation that may still be given back.
Balanced ==
    /\ spent + refunded = acted + Amount * Cardinality(Asked)
    /\ Amount * Cardinality(InFlight) <= spent

PlaneInv == PlaneTypeOK /\ Keyed /\ Exclusive /\ Untouched /\ EffectOncePerKey /\ Balanced

\* The sets the model of a call ranges over.
LEMMA CallsFinite ==
    /\ InFlight \in SUBSET Caller /\ Asked \in SUBSET Caller
    /\ \A S \in SUBSET Caller : IsFiniteSet(S) /\ Cardinality(S) \in Nat
  <1>1. \A S \in SUBSET Caller : IsFiniteSet(S)
    BY FS_Subset
  <1> QED
    BY <1>1, FS_CardinalityType DEF InFlight, Asked

\* One call less.
LEMMA OneLess ==
    ASSUME NEW S \in SUBSET Caller, NEW c \in S
    PROVE  \E n \in Nat : Cardinality(S) = n + 1 /\ Cardinality(S \ {c}) = n
  <1>1. Cardinality(S \ {c}) = Cardinality(S) - 1
    BY CallsFinite, FS_RemoveElement
  <1>2. Cardinality(S) # 0
    BY CallsFinite, FS_EmptySet
  <1> QED
    BY <1>1, <1>2, CallsFinite

\* A reservation more or less changes the balance by the amount.
LEMMA Distributes ==
    ASSUME NEW n \in Nat
    PROVE  /\ Amount * (n + 1) = Amount * n + Amount
           /\ Amount * n \in Nat
  OBVIOUS

\* The balance only depends on what is in flight.
LEMMA BalanceKept ==
    ASSUME Balanced, InFlight' = InFlight, Asked' = Asked, UNCHANGED <<spent, acted, refunded>>
    PROVE  Balanced'
  BY DEF Balanced

\* Initially nothing was claimed, reserved or done.
LEMMA PlaneInitInv == PlaneInit => PlaneInv
  <1> SUFFICES ASSUME PlaneInit PROVE PlaneInv
    OBVIOUS
  <1>1. PlaneTypeOK
    BY DEF PlaneInit, PlaneTypeOK, CallRecord, NoCall, CallAt, Stage, Outcome, NoRow, JournalRow, IdempotencyState
  <1>2. InFlight = {} /\ Asked = {}
    BY DEF PlaneInit, InFlight, Asked, NoCall, CallAt
  <1>3. Balanced
    BY <1>2, FS_EmptySet DEF PlaneInit, Balanced
  <1>4. Keyed /\ Exclusive /\ Untouched /\ EffectOncePerKey
    BY DEF PlaneInit, Keyed, Exclusive, Untouched, EffectOncePerKey, Holds, NoCall, CallAt, NoRow
  <1> QED
    BY <1>1, <1>3, <1>4 DEF PlaneInv

-----------------------------------------------------------------------------
(* The steps of the plane. *)

\* The claim makes the caller the only one to hold a new key.
LEMMA ExecuteInv ==
    ASSUME PlaneInv, NEW c \in Caller, NEW k \in Key, Execute(c, k)
    PROVE  PlaneInv'
  <1> USE DEF PlaneInv
  <1>1. /\ journal' = [journal EXCEPT ![k] = ClaimedRow(journal[k], "worker")]
        /\ UNCHANGED <<result, spent, faults, effects, acted, refunded>>
        /\ call[c].stage = "idle"
    BY DEF Execute
  <1>2. /\ journal' \in [Key -> JournalRow]
        /\ journal'[k].state # "none"
        /\ \A l \in Key : l # k => journal'[l] = journal[l]
    BY <1>1 DEF PlaneTypeOK, ClaimedRow, JournalRow, IdempotencyState
  <1>3. PICK new \in CallRecord :
          /\ call' = [call EXCEPT ![c] = new]
          /\ new.key = k
          /\ new.stage \in {"attempt", "returned", "reconcile", "thrown"}
          /\ new.stage = "attempt" => Fresh(k)
    <2>1. journal'[k].token \in Nat /\ result[k] \in Outcome
      BY <1>2 DEF JournalRow, PlaneTypeOK
    <2>2. /\ CallAt("attempt", k, journal'[k].token, 1, "none") \in CallRecord
          /\ CallAt("returned", k, 0, 0, result[k]) \in CallRecord
          /\ CallAt("reconcile", k, 0, 0, "none") \in CallRecord
          /\ CallAt("thrown", k, 0, 0, "none") \in CallRecord
      BY <2>1 DEF CallAt, CallRecord, Stage, Outcome
    <2> QED
      BY <2>2 DEF Execute, Become, CallAt
  <1>4. /\ call' \in [Caller -> CallRecord]
        /\ call'[c] = new
        /\ \A d \in Caller : d # c => call'[d] = call[d]
    BY <1>3 DEF PlaneTypeOK
  <1>5. PlaneTypeOK'
    BY <1>1, <1>2, <1>4 DEF PlaneTypeOK
  <1>6. Keyed'
    BY <1>3, <1>4 DEF Keyed, Holds
  <1>7. \A d \in Caller : Holds(d)' => (d = c /\ Fresh(k)) \/ Holds(d)
    BY <1>3, <1>4 DEF Holds
  <1>8. Exclusive'
    <2>1. \A l \in Key : journal'[l].state = "none" => effects'[l] = 0
      BY <1>1, <1>2 DEF Exclusive
    <2>2. \A d \in Caller : Holds(d)' => journal'[call'[d].key].state # "none"
      BY <1>1, <1>2, <1>3, <1>4, <1>7 DEF Exclusive, Keyed, Holds
    <2>3. \A d \in Caller : Holds(d) => ~Fresh(call[d].key)
      BY DEF Exclusive, Fresh
    <2>4. \A d, e \in Caller :
            Holds(d)' /\ Holds(e)' /\ call'[d].key = call'[e].key => d = e
      BY <1>1, <1>3, <1>4, <1>7, <2>3 DEF Exclusive, Holds
    <2> QED
      BY <2>1, <2>2, <2>4 DEF Exclusive
  <1>9. Untouched'
    BY <1>1, <1>3, <1>4 DEF Untouched, Exclusive, Fresh
  <1>10. EffectOncePerKey' /\ InFlight' = InFlight /\ Asked' = Asked
    BY <1>1, <1>3, <1>4 DEF EffectOncePerKey, InFlight, Asked
  <1> QED
    BY <1>1, <1>5, <1>6, <1>8, <1>9, <1>10, BalanceKept

\* A call that ends holds nothing.
LEMMA ReturnInv ==
    ASSUME PlaneInv, NEW c \in Caller, Return(c)
    PROVE  PlaneInv'
  <1> USE DEF PlaneInv
  <1>1. PlaneTypeOK'
    BY DEF Return, Become, PlaneTypeOK, CallRecord, NoCall, CallAt, Stage, Outcome
  <1>2. Keyed' /\ Exclusive' /\ Untouched' /\ EffectOncePerKey'
    BY DEF Return, Become, Keyed, Exclusive, Untouched, EffectOncePerKey, PlaneTypeOK, NoCall, CallAt, Holds
  <1>3. InFlight' = InFlight /\ Asked' = Asked
    BY DEF Return, Become, InFlight, Asked, PlaneTypeOK, NoCall, CallAt
  <1> QED
    BY <1>1, <1>2, <1>3, BalanceKept DEF Return

\* A crash ends every call and starts a new envelope.
LEMMA CrashInv ==
    ASSUME PlaneInv, PlaneCrash
    PROVE  PlaneInv'
  <1> USE DEF PlaneInv
  <1>1. PlaneTypeOK'
    BY DEF PlaneCrash, PlaneTypeOK, CallRecord, NoCall, CallAt, Stage, Outcome
  <1>2. Keyed' /\ Exclusive' /\ Untouched' /\ EffectOncePerKey'
    BY DEF PlaneCrash, Keyed, Exclusive, Untouched, EffectOncePerKey, NoCall, CallAt, Holds
  <1>3. InFlight' = {} /\ Asked' = {}
    BY DEF PlaneCrash, InFlight, Asked, NoCall, CallAt
  <1>4. Balanced'
    BY <1>3, FS_EmptySet DEF PlaneCrash, Balanced
  <1> QED
    BY <1>1, <1>2, <1>4

\* A call moves on to a stage at which it holds no key it did not hold and may
\* not act where it might not before; rows only leave the state none.
LEMMA QuietInv ==
    ASSUME PlaneInv, NEW c \in Caller, PlaneTypeOK',
           UNCHANGED <<spent, effects, acted, refunded>>,
           \A d \in Caller : d # c => call'[d] = call[d],
           call'[c].key = call[c].key,
           Holds(c)' => Holds(c),
           call'[c].stage # "reconcile",
           call'[c].stage = "settle" => call'[c].outcome # "none",
           call'[c].stage = "attempt" => call[c].stage = "attempt",
           call'[c].stage \notin {"provider", "effect"},
           call[c].stage \notin {"provider", "effect"},
           \A k \in Key : journal[k].state # "none" => journal'[k].state # "none",
           \A k \in Key : journal[k].state = "none" => journal'[k].state = "none"
    PROVE  PlaneInv'
  <1> USE DEF PlaneInv
  <1>1. Keyed'
    BY DEF Keyed, Holds
  <1>2. Exclusive'
    BY DEF Exclusive, Holds, Keyed
  <1>3. Untouched' /\ EffectOncePerKey'
    BY DEF Untouched, EffectOncePerKey
  <1>4. InFlight' = InFlight /\ Asked' = Asked
    BY DEF InFlight, Asked
  <1> QED
    BY <1>1, <1>2, <1>3, <1>4, BalanceKept

\* A stage of a call is replaced within its type.
LEMMA GotoType ==
    ASSUME PlaneTypeOK, NEW c \in Caller, NEW stage \in Stage, Goto(c, stage)
    PROVE  /\ call' \in [Caller -> CallRecord]
           /\ call'[c] = [call[c] EXCEPT !.stage = stage]
           /\ call'[c].stage = stage
           /\ call'[c].key = call[c].key
           /\ \A d \in Caller : d # c => call'[d] = call[d]
  BY DEF PlaneTypeOK, Goto, CallRecord

\* A failed attempt leads to the next one or to the settlement.
LEMMA NextAttemptType ==
    ASSUME PlaneTypeOK, NEW c \in Caller, NextAttempt(c)
    PROVE  /\ call' \in [Caller -> CallRecord]
           /\ call'[c].stage \in {"attempt", "settle"}
           /\ call'[c].stage = "settle" => call'[c].outcome # "none"
           /\ call'[c].key = call[c].key
           /\ \A d \in Caller : d # c => call'[d] = call[d]
  <1>1. call[c] \in CallRecord
    BY DEF PlaneTypeOK
  <1>2. CASE call[c].attempt < Attempts
    <2> DEFINE next == [call[c] EXCEPT !.stage = "attempt", !.attempt = call[c].attempt + 1]
    <2>1. call[c].attempt + 1 \in 0..Attempts
      BY <1>1, <1>2 DEF CallRecord
    <2>2. next \in CallRecord /\ next.stage = "attempt" /\ next.key = call[c].key
      BY <1>1, <2>1 DEF CallRecord, Stage
    <2>3. call' = [call EXCEPT ![c] = next]
      BY <1>2 DEF NextAttempt, Become
    <2> HIDE DEF next
    <2> QED
      BY <2>2, <2>3 DEF PlaneTypeOK
  <1>3. CASE ~(call[c].attempt < Attempts)
    <2> DEFINE next == [call[c] EXCEPT !.stage = "settle", !.outcome = "safe"]
    <2>1. /\ next \in CallRecord /\ next.stage = "settle" /\ next.outcome = "safe"
          /\ next.key = call[c].key
      BY <1>1 DEF CallRecord, Stage, Outcome
    <2>2. call' = [call EXCEPT ![c] = next]
      BY <1>3 DEF NextAttempt, Become
    <2> HIDE DEF next
    <2> QED
      BY <2>1, <2>2 DEF PlaneTypeOK
  <1> QED
    BY <1>2, <1>3

\* Steps of a call that neither reserve nor act.
LEMMA ReconcileInv ==
    ASSUME PlaneInv, NEW c \in Caller, Reconcile(c)
    PROVE  PlaneInv'
  <1> DEFINE k == call[c].key
  <1>1. k \in Key /\ "thrown" \in Stage /\ PlaneTypeOK
    BY DEF PlaneInv, Keyed, Reconcile, Stage
  <1>2. /\ call' \in [Caller -> CallRecord]
        /\ call'[c].stage = "thrown"
        /\ call'[c].key = call[c].key
        /\ \A d \in Caller : d # c => call'[d] = call[d]
    BY <1>1, GotoType DEF Reconcile
  <1>3. /\ journal' \in [Key -> JournalRow]
        /\ result' \in [Key -> Outcome]
        /\ \A l \in Key : journal[l].state = "none" <=> journal'[l].state = "none"
    <2>1. CASE UNCHANGED <<journal, result>>
      BY <2>1, <1>1 DEF PlaneTypeOK
    <2>2. CASE /\ journal[k].state = "intent"
               /\ journal' = [journal EXCEPT ![k] = StaleRow(journal[k], "worker:reconciler")]
               /\ result' = [result EXCEPT ![k] = "none"]
      BY <2>2, <1>1 DEF PlaneTypeOK, StaleRow, JournalRow, IdempotencyState, Outcome
    <2> QED
      BY <2>1, <2>2 DEF Reconcile
  <1>4. PlaneTypeOK'
    BY <1>1, <1>2, <1>3 DEF PlaneTypeOK, Reconcile
  <1> QED
    BY <1>2, <1>3, <1>4, QuietInv DEF Reconcile, Holds

\* A refused call has reserved nothing.
LEMMA RefuseInv ==
    ASSUME PlaneInv, NEW c \in Caller, Refuse(c) \/ PlaneThrow(c)
    PROVE  PlaneInv'
  <1>1. PICK stage \in {"fail", "thrown"} :
          /\ Goto(c, stage)
          /\ stage = "fail" => Refuse(c)
          /\ stage = "thrown" => PlaneThrow(c)
    BY DEF Refuse, PlaneThrow
  <1>2. stage \in Stage /\ PlaneTypeOK
    BY DEF PlaneInv, Stage
  <1>3. /\ call' \in [Caller -> CallRecord]
        /\ call'[c].stage = stage
        /\ call'[c].key = call[c].key
        /\ \A d \in Caller : d # c => call'[d] = call[d]
    BY <1>1, <1>2, GotoType
  <1>4. PlaneTypeOK'
    BY <1>2, <1>3 DEF PlaneTypeOK, Refuse, PlaneThrow
  <1> QED
    BY <1>1, <1>3, <1>4, QuietInv DEF Refuse, PlaneThrow, Holds

\* A provider without adapter is passed over.
LEMMA UnavailableInv ==
    ASSUME PlaneInv, NEW c \in Caller, Unavailable(c)
    PROVE  PlaneInv'
  <1>1. /\ call' \in [Caller -> CallRecord]
        /\ call'[c].stage \in {"attempt", "settle"}
        /\ call'[c].stage = "settle" => call'[c].outcome # "none"
        /\ call'[c].key = call[c].key
        /\ \A d \in Caller : d # c => call'[d] = call[d]
    BY NextAttemptType DEF Unavailable, PlaneInv
  <1>2. PlaneTypeOK'
    BY <1>1 DEF PlaneInv, PlaneTypeOK, Unavailable
  <1> QED
    BY <1>1, <1>2, QuietInv DEF Unavailable, Holds

\* Settlement changes the row and the result of the key only.
LEMMA SettleInv ==
    ASSUME PlaneInv, NEW c \in Caller, Settle(c) \/ FailBeforeEffect(c)
    PROVE  PlaneInv'
  <1> DEFINE k == call[c].key
  <1>1. k \in Key /\ PlaneTypeOK /\ call[c].stage \in {"settle", "fail"}
    BY DEF PlaneInv, Keyed, Holds, Settle, FailBeforeEffect
  <1>2. PICK stage \in {"returned", "thrown"} : Goto(c, stage)
    BY DEF Settle, FailBeforeEffect
  <1>3. /\ call' \in [Caller -> CallRecord]
        /\ call'[c].stage = stage
        /\ call'[c].key = call[c].key
        /\ \A d \in Caller : d # c => call'[d] = call[d]
    BY <1>1, <1>2, GotoType DEF Stage
  <1>4. /\ journal' \in [Key -> JournalRow]
        /\ result' \in [Key -> Outcome]
        /\ \A l \in Key : journal[l].state = "none" <=> journal'[l].state = "none"
    <2>1. CASE UNCHANGED <<journal, result>>
      BY <2>1, <1>1 DEF PlaneTypeOK
    <2>2. CASE \E state \in {"applied", "unknown", "failed"}, outcome \in Outcome :
                 /\ MaySettle(c)
                 /\ journal' = [journal EXCEPT ![k].state = state]
                 /\ result' = [result EXCEPT ![k] = outcome]
      BY <2>2, <1>1 DEF PlaneTypeOK, MaySettle, Owns, JournalRow, IdempotencyState
    <2>3. call[c].stage = "settle" =>
            /\ call[c].outcome \in Outcome
            /\ SettledAs[call[c].outcome] \in {"applied", "unknown", "failed"}
      BY <1>1 DEF PlaneTypeOK, CallRecord, PlaneInv, Keyed, Outcome, SettledAs
    <2>4. "none" \in Outcome
      BY DEF Outcome
    <2> QED
      BY <2>1, <2>2, <2>3, <2>4 DEF Settle, FailBeforeEffect
  <1>5. PlaneTypeOK'
    BY <1>1, <1>3, <1>4 DEF PlaneTypeOK, Settle, FailBeforeEffect
  <1> QED
    BY <1>1, <1>3, <1>4, <1>5, QuietInv DEF Settle, FailBeforeEffect, Holds

\* Reconciliation settles a row that exists.
LEMMA ReconciledInv ==
    ASSUME PlaneInv, NEW k \in Key, Reconciled(k)
    PROVE  PlaneInv'
  <1>1. PlaneTypeOK'
    BY DEF PlaneInv, PlaneTypeOK, Reconciled, JournalRow, IdempotencyState, Outcome
  <1>2. Keyed' /\ Untouched' /\ EffectOncePerKey'
    BY DEF PlaneInv, Keyed, Untouched, EffectOncePerKey, Reconciled, Holds
  <1>3. \A l \in Key : journal[l].state = "none" <=> journal'[l].state = "none"
    BY DEF PlaneInv, PlaneTypeOK, Reconciled, JournalRow
  <1>4. Exclusive'
    BY <1>3 DEF PlaneInv, Exclusive, Keyed, Reconciled, Holds
  <1>5. InFlight' = InFlight /\ Asked' = Asked
    BY DEF Reconciled, InFlight, Asked
  <1> QED
    BY <1>1, <1>2, <1>4, <1>5, BalanceKept DEF PlaneInv, Reconciled

-----------------------------------------------------------------------------
(* The steps that reserve and act. *)

\* The reservation is taken before the provider is called.
LEMMA AttemptInv ==
    ASSUME PlaneInv, NEW c \in Caller, Attempt(c)
    PROVE  PlaneInv'
  <1> USE DEF PlaneInv
  <1>1. /\ call' \in [Caller -> CallRecord]
        /\ call'[c].stage = "provider"
        /\ call'[c].key = call[c].key
        /\ \A d \in Caller : d # c => call'[d] = call[d]
    BY GotoType DEF Attempt, Stage
  <1>2. spent' = spent + Amount /\ spent' \in 0..PeriodCap
    BY DEF Attempt, PlaneTypeOK
  <1>3. PlaneTypeOK'
    BY <1>1, <1>2 DEF PlaneTypeOK, Attempt
  <1>4. Keyed' /\ Exclusive' /\ Untouched' /\ EffectOncePerKey'
    BY <1>1 DEF Keyed, Exclusive, Untouched, EffectOncePerKey, Attempt, Holds
  <1>5. /\ InFlight' = InFlight \cup {c} /\ c \notin InFlight
        /\ Asked' = Asked \cup {c} /\ c \notin Asked
    BY <1>1 DEF InFlight, Asked, Attempt
  <1>6. /\ Cardinality(InFlight') = Cardinality(InFlight) + 1
        /\ Cardinality(Asked') = Cardinality(Asked) + 1
    BY <1>5, CallsFinite, FS_AddElement
  <1>7. Balanced'
    <2> DEFINE reserved == Amount * Cardinality(InFlight)
               asked == Amount * Cardinality(Asked)
    <2>1. /\ Amount * Cardinality(InFlight') = reserved + Amount /\ reserved \in Nat
          /\ Amount * Cardinality(Asked') = asked + Amount /\ asked \in Nat
      BY <1>6, CallsFinite, Distributes
    <2>2. UNCHANGED <<acted, refunded>> /\ acted \in Nat /\ refunded \in Nat /\ spent \in Nat
      BY DEF Attempt, PlaneTypeOK
    <2>3. spent + refunded = acted + asked /\ reserved <= spent
      BY DEF Balanced
    <2>4. Balanced' <=> /\ spent' + refunded' = acted' + (asked + Amount)
                        /\ reserved + Amount <= spent'
      BY <2>1 DEF Balanced
    <2> HIDE DEF reserved, asked
    <2> QED
      BY <1>2, <2>1, <2>2, <2>3, <2>4
  <1> QED
    BY <1>3, <1>4, <1>7

\* The provider acts once: the call held its key and had not acted.
LEMMA EffectInv ==
    ASSUME PlaneInv, NEW c \in Caller, Effect(c)
    PROVE  PlaneInv'
  <1> USE DEF PlaneInv
  <1> DEFINE k == call[c].key
  <1>1. /\ call' \in [Caller -> CallRecord]
        /\ call'[c].stage = "effect"
        /\ call'[c].key = k
        /\ \A d \in Caller : d # c => call'[d] = call[d]
    BY GotoType DEF Effect, Stage
  <1>2. k \in Key /\ effects[k] = 0 /\ journal[k].state # "none" /\ Holds(c)
    BY DEF Effect, Keyed, Untouched, Exclusive, Holds
  <1>3. /\ effects' \in [Key -> Nat]
        /\ effects'[k] = 1
        /\ \A l \in Key : l # k => effects'[l] = effects[l]
    BY <1>2 DEF Effect, PlaneTypeOK
  <1>4. PlaneTypeOK'
    <2>1. acted' \in Nat
      BY DEF PlaneTypeOK, Effect
    <2> QED
      BY <1>1, <1>3, <2>1 DEF PlaneTypeOK, Effect
  <1>5. Keyed' /\ Exclusive'
    BY <1>1, <1>2, <1>3 DEF Keyed, Exclusive, Effect, Holds
  <1>6. \A d \in Caller : d # c /\ Holds(d) => call[d].key # k
    BY <1>2 DEF Exclusive
  <1>7. Untouched'
    BY <1>1, <1>3, <1>6 DEF Untouched, Keyed, Holds
  <1>8. EffectOncePerKey'
    BY <1>3 DEF EffectOncePerKey
  <1>9. Balanced'
    <2>1. /\ InFlight' = InFlight
          /\ Asked' = Asked \ {c} /\ c \in Asked
      BY <1>1 DEF InFlight, Asked, Effect
    <2>2. PICK n \in Nat : Cardinality(Asked) = n + 1 /\ Cardinality(Asked') = n
      BY <2>1, CallsFinite, OneLess
    <2> DEFINE asked == Amount * n
    <2>3. spent + refunded = acted + (asked + Amount) /\ asked \in Nat
      BY <2>2, Distributes DEF Balanced
    <2>4. Balanced' <=> /\ spent' + refunded' = acted' + asked
                        /\ Amount * Cardinality(InFlight) <= spent'
      BY <2>1, <2>2 DEF Balanced
    <2>5. acted' = acted + Amount /\ UNCHANGED <<spent, refunded>>
      BY DEF Effect
    <2>6. /\ spent \in Nat /\ acted \in Nat /\ refunded \in Nat
          /\ Amount * Cardinality(InFlight) <= spent
      BY DEF PlaneTypeOK, Balanced
    <2> HIDE DEF asked
    <2> QED
      BY <2>3, <2>4, <2>5, <2>6
  <1> QED
    BY <1>4, <1>5, <1>7, <1>8, <1>9

\* An answer keeps the reservation or gives it back.
LEMMA AnswerInv ==
    ASSUME PlaneInv, NEW c \in Caller, Answer(c)
    PROVE  PlaneInv'
  <1> USE DEF PlaneInv
  <1>1. PICK outcome \in Outcome :
          /\ \/ call[c].stage = "provider" /\ outcome \in {"free", "safe", "unknown"}
             \/ call[c].stage = "effect" /\ outcome \in {"ok", "unknown"}
          /\ spent' = IF outcome = "ok" THEN spent ELSE spent - Amount
          /\ refunded' = IF call[c].stage = "effect" /\ outcome = "unknown"
                         THEN refunded + Amount ELSE refunded
          /\ IF EndsAttempt(outcome)
             THEN Become(c, [call[c] EXCEPT !.stage = "settle", !.outcome = outcome])
             ELSE NextAttempt(c)
    BY DEF Answer
  <1>2. UNCHANGED <<journal, result, faults, effects, acted>>
    BY DEF Answer
  <1>3. /\ call' \in [Caller -> CallRecord]
        /\ call'[c].stage \in {"attempt", "settle"}
        /\ call'[c].stage = "attempt" => call[c].stage = "provider"
        /\ call'[c].stage = "settle" => call'[c].outcome # "none"
        /\ call'[c].key = call[c].key
        /\ \A d \in Caller : d # c => call'[d] = call[d]
    <2>1. CASE EndsAttempt(outcome)
      <3> DEFINE next == [call[c] EXCEPT !.stage = "settle", !.outcome = outcome]
      <3>0. call[c] \in CallRecord
        BY DEF PlaneTypeOK
      <3>1. /\ next \in CallRecord /\ next.stage = "settle" /\ next.outcome = outcome
            /\ next.key = call[c].key
        BY <3>0 DEF CallRecord, Stage
      <3>2. call' = [call EXCEPT ![c] = next]
        BY <1>1, <2>1 DEF Become
      <3> HIDE DEF next
      <3> QED
        BY <1>1, <3>1, <3>2 DEF PlaneTypeOK
    <2>2. CASE ~EndsAttempt(outcome)
      BY <1>1, <2>2, NextAttemptType DEF EndsAttempt
    <2> QED
      BY <2>1, <2>2
  <1>4. Keyed' /\ Exclusive' /\ Untouched' /\ EffectOncePerKey'
    BY <1>1, <1>2, <1>3 DEF Keyed, Exclusive, Untouched, EffectOncePerKey, Holds
  <1>5. spent \in 0..PeriodCap /\ acted \in Nat /\ refunded \in Nat
    BY DEF PlaneTypeOK
  <1>6. InFlight' = InFlight \ {c} /\ c \in InFlight
    BY <1>1, <1>3 DEF InFlight
  <1>7. PICK n \in Nat : Cardinality(InFlight) = n + 1 /\ Cardinality(InFlight') = n
    BY <1>6, CallsFinite, OneLess
  <1> DEFINE reserved == Amount * n
             asked == Amount * Cardinality(Asked)
  <1>8. /\ reserved \in Nat /\ reserved + Amount <= spent
        /\ asked \in Nat /\ spent + refunded = acted + asked
    BY <1>7, CallsFinite, Distributes DEF Balanced
  <1>10. Balanced' <=> /\ spent' + refunded' = acted' + Amount * Cardinality(Asked')
                       /\ reserved <= spent'
    BY <1>7 DEF Balanced
  <1>11. ASSUME call[c].stage = "provider"
         PROVE  Balanced' /\ spent' \in 0..PeriodCap /\ refunded' \in Nat
    <2>1. Asked' = Asked \ {c} /\ c \in Asked
      BY <1>3, <1>11 DEF Asked
    <2>2. PICK m \in Nat : Cardinality(Asked) = m + 1 /\ Cardinality(Asked') = m
      BY <2>1, CallsFinite, OneLess
    <2> DEFINE left == Amount * m
    <2>3. left \in Nat /\ asked = left + Amount
      BY <2>2, Distributes
    <2>4. Balanced' <=> spent' + refunded' = acted' + left /\ reserved <= spent'
      BY <1>10, <2>2
    <2>5. spent' = spent - Amount /\ refunded' = refunded /\ acted' = acted
      BY <1>1, <1>2, <1>11
    <2> HIDE DEF reserved, asked, left
    <2> QED
      BY <1>5, <1>8, <2>3, <2>4, <2>5
  <1>12. ASSUME call[c].stage = "effect"
         PROVE  Balanced' /\ spent' \in 0..PeriodCap /\ refunded' \in Nat
    <2>1. Asked' = Asked
      BY <1>3, <1>12 DEF Asked
    <2>2. Balanced' <=> spent' + refunded' = acted' + asked /\ reserved <= spent'
      BY <1>10, <2>1
    <2>3. /\ acted' = acted
          /\ \/ spent' = spent /\ refunded' = refunded
             \/ spent' = spent - Amount /\ refunded' = refunded + Amount
      BY <1>1, <1>2, <1>12
    <2> HIDE DEF reserved, asked
    <2> QED
      BY <1>5, <1>8, <2>2, <2>3
  <1> HIDE DEF reserved, asked
  <1>13. Balanced' /\ spent' \in 0..PeriodCap /\ refunded' \in Nat
    BY <1>1, <1>5, <1>8, <1>11, <1>12
  <1>9. PlaneTypeOK'
    BY <1>2, <1>3, <1>13 DEF PlaneTypeOK
  <1> QED
    BY <1>4, <1>9, <1>13

\* What the plane does keeps its invariant.
LEMMA PlaneNextInv == PlaneInv /\ PlaneNext => PlaneInv'
  BY ReconcileInv, RefuseInv, UnavailableInv, AttemptInv, EffectInv, AnswerInv,
     SettleInv, ReconciledInv DEF PlaneNext

\* The envelope covers what may still be spent.
LEMMA Covered == PlaneInv => WithinBudget
  BY DEF PlaneInv, Balanced, PlaneTypeOK, WithinBudget

-----------------------------------------------------------------------------
(* The invariant of the executions. *)

\* The executor's part of TypeOK; asset identifiers count the assets.
ExecutorTypeOK ==
    /\ plans \subseteq [plan: Plan, reuse: [Requirement -> AssetId \cup {NoAsset}]]
    /\ approved \subseteq Key
    /\ assets \subseteq Asset
    /\ IsFiniteSet(assets)
    /\ saved \in [Plan -> State]
    /\ run \in [Caller -> Run]
    /\ overlap \in BOOLEAN

\* An execution, and a state it may start from, stands at a requirement of its
\* plan until everything is completed.
AtRequirement ==
    /\ \A x \in Caller :
         /\ run[x].stage # "idle" => run[x].plan \in Plan
         /\ run[x].stage \notin {"idle", "completed"} => run[x].at \in Requirement
    /\ \A p \in Plan : saved[p].action # "completed" => saved[p].at \in Requirement

ExecutorInv == ExecutorTypeOK /\ AtRequirement

USE BootstrapAssumption DEF BootstrapAssumption

\* Initially there is no plan and no execution.
LEMMA ExecutorInitInv == Init => ExecutorInv
  <1> SUFFICES ASSUME Init PROVE ExecutorInv
    OBVIOUS
  <1>1. NoState \in State /\ NoState.action = "completed"
    BY DEF NoState, StateAt, State, Action
  <1>2. NoRun \in Run /\ NoRun.stage = "idle"
    BY DEF NoRun, Run, Await, NoAsset
  <1>3. ExecutorTypeOK
    BY <1>1, <1>2, FS_EmptySet DEF Init, ExecutorTypeOK
  <1>4. AtRequirement
    BY <1>1, <1>2 DEF Init, AtRequirement
  <1> QED
    BY <1>3, <1>4 DEF ExecutorInv

\* One execution changes its locals, and possibly the state of its plan.
LEMMA RunStep ==
    ASSUME ExecutorInv, NEW x \in Caller, NEW new \in Run,
           run' = [run EXCEPT ![x] = new],
           new.stage # "idle" => new.plan \in Plan,
           new.stage \notin {"idle", "completed"} => new.at \in Requirement,
           UNCHANGED saved
    PROVE  run' \in [Caller -> Run] /\ saved' \in [Plan -> State] /\ AtRequirement'
  BY DEF ExecutorInv, ExecutorTypeOK, AtRequirement

\* An execution that throws.
LEMMA EndStep ==
    ASSUME ExecutorInv, NEW x \in Caller, End(x), UNCHANGED saved
    PROVE  run' \in [Caller -> Run] /\ saved' \in [Plan -> State] /\ AtRequirement'
  <1>1. NoRun \in Run /\ NoRun.stage = "idle"
    BY DEF NoRun, Run, Await, NoAsset
  <1> QED
    BY <1>1, RunStep DEF End

\* An execution that returns its state.
LEMMA ReturnStep ==
    ASSUME ExecutorInv, NEW x \in Caller, NEW action \in Action, ReturnAt(x, action),
           run[x].stage # "idle",
           action # "completed" => run[x].at \in Requirement
    PROVE  run' \in [Caller -> Run] /\ saved' \in [Plan -> State] /\ AtRequirement'
  <1> DEFINE state == StateAt(run[x].at, action, run[x].asset)
  <1>1. NoRun \in Run /\ NoRun.stage = "idle"
    BY DEF NoRun, Run, Await, NoAsset
  <1>2. state \in State /\ state.action = action /\ state.at = run[x].at
    BY DEF ExecutorInv, ExecutorTypeOK, Run, State, StateAt
  <1>3. run[x].plan \in Plan
    BY DEF ExecutorInv, AtRequirement
  <1>4. saved' = [saved EXCEPT ![run[x].plan] = state] /\ run' = [run EXCEPT ![x] = NoRun]
    BY DEF ReturnAt, End
  <1> HIDE DEF state
  <1> QED
    BY <1>1, <1>2, <1>3, <1>4 DEF ExecutorInv, ExecutorTypeOK, AtRequirement

\* An execution that goes on with its requirement.
LEMMA ContinueStep ==
    ASSUME ExecutorInv, NEW x \in Caller, NEW stage \in Await \cup Action,
           run[x].stage \notin {"idle", "completed"},
           UNCHANGED saved,
           \/ Continue(x, stage)
           \/ \E asset \in AssetId : ContinueWith(x, stage, asset)
           \/ \E approvals \in SUBSET Key :
                run' = [run EXCEPT ![x].stage = stage, ![x].approvals = approvals]
    PROVE  run' \in [Caller -> Run] /\ saved' \in [Plan -> State] /\ AtRequirement'
  <1>1. run[x] \in Run /\ run[x].plan \in Plan /\ run[x].at \in Requirement
    BY DEF ExecutorInv, ExecutorTypeOK, AtRequirement
  <1>2. PICK new \in Run : /\ run' = [run EXCEPT ![x] = new]
                           /\ new.plan = run[x].plan /\ new.at = run[x].at
    <2>1. CASE Continue(x, stage)
      <3> DEFINE new == [run[x] EXCEPT !.stage = stage]
      <3>1. new \in Run /\ new.plan = run[x].plan /\ new.at = run[x].at
        BY <1>1 DEF Run
      <3>2. run' = [run EXCEPT ![x] = new]
        BY <2>1 DEF Continue
      <3> QED
        BY <3>1, <3>2
    <2>2. ASSUME NEW asset \in AssetId, ContinueWith(x, stage, asset)
          PROVE  \E new \in Run : /\ run' = [run EXCEPT ![x] = new]
                                  /\ new.plan = run[x].plan /\ new.at = run[x].at
      <3> DEFINE new == [run[x] EXCEPT !.stage = stage, !.asset = asset]
      <3>1. new \in Run /\ new.plan = run[x].plan /\ new.at = run[x].at
        BY <1>1 DEF Run
      <3>2. run' = [run EXCEPT ![x] = new]
        BY <2>2 DEF ContinueWith
      <3> QED
        BY <3>1, <3>2
    <2>3. ASSUME NEW approvals \in SUBSET Key,
                 run' = [run EXCEPT ![x].stage = stage, ![x].approvals = approvals]
          PROVE  \E new \in Run : /\ run' = [run EXCEPT ![x] = new]
                                  /\ new.plan = run[x].plan /\ new.at = run[x].at
      <3> DEFINE new == [run[x] EXCEPT !.stage = stage, !.approvals = approvals]
      <3>1. new \in Run /\ new.plan = run[x].plan /\ new.at = run[x].at
        BY <1>1 DEF Run
      <3>2. run' = [run EXCEPT ![x] = new]
        BY <2>3
      <3> QED
        BY <3>1, <3>2
    <2> QED
      BY <2>1, <2>2, <2>3
  <1> QED
    BY <1>1, <1>2, RunStep

\* An execution that takes the next requirement of its plan.
LEMMA NextStep ==
    ASSUME ExecutorInv, NEW x \in Caller, NextRequirement(x),
           run[x].stage \notin {"idle", "completed"}, UNCHANGED saved
    PROVE  run' \in [Caller -> Run] /\ saved' \in [Plan -> State] /\ AtRequirement'
  <1> DEFINE first == FirstAction(ReuseOf(run[x].plan), run[x].at + 1)
             new == [run[x] EXCEPT !.at = run[x].at + 1, !.asset = NoAsset,
                       !.snapshot = run[x].snapshot \ Snapshot(x), !.stage = first]
  <1>1. run[x] \in Run /\ run[x].plan \in Plan /\ run[x].at \in Requirement
    BY DEF ExecutorInv, ExecutorTypeOK, AtRequirement
  <1>2. /\ first \in Action
        /\ first # "completed" => run[x].at + 1 \in Requirement
    BY <1>1 DEF FirstAction, Action, Requirement
  <1>3. run[x].at + 1 \in 1..Requirements + 1
    BY <1>1 DEF Requirement
  <1>4. run' = [run EXCEPT ![x] = new]
    BY DEF NextRequirement
  <1>5. new \in Run /\ new.stage = first /\ new.plan = run[x].plan /\ new.at = run[x].at + 1
    <2> HIDE DEF first
    <2> QED
      BY <1>1, <1>2, <1>3 DEF Run
  <1> HIDE DEF first, new
  <1> QED
    BY <1>1, <1>2, <1>4, <1>5, RunStep

-----------------------------------------------------------------------------
(* The steps of the executions. *)

\* Plans and approvals are added within their types.
LEMMA PlanInv ==
    ASSUME ExecutorInv,
           \/ \E p \in Plan : MakePlan(p)
           \/ \E p \in Plan, r \in Bounded : Approve(p, r)
    PROVE  ExecutorInv'
  <1>1. ASSUME NEW p \in Plan, MakePlan(p) PROVE ExecutorInv'
    <2>1. PICK reuse \in [Requirement -> AssetId \cup {NoAsset}] :
            /\ plans' = plans \cup {[plan |-> p, reuse |-> reuse]}
            /\ saved' = [saved EXCEPT ![p] = StateAt(1, FirstAction(reuse, 1), NoAsset)]
      BY <1>1 DEF MakePlan
    <2> DEFINE state == StateAt(1, FirstAction(reuse, 1), NoAsset)
    <2>2. state \in State /\ state.at \in Requirement
      BY DEF StateAt, State, FirstAction, Action, Requirement
    <2>3. saved' = [saved EXCEPT ![p] = state]
      BY <2>1
    <2>4. UNCHANGED <<approved, assets, run, overlap>>
      BY <1>1 DEF MakePlan
    <2> HIDE DEF state
    <2>5. ExecutorTypeOK'
      BY <2>1, <2>2, <2>3, <2>4 DEF ExecutorInv, ExecutorTypeOK
    <2>6. AtRequirement'
      BY <2>2, <2>3, <2>4 DEF ExecutorInv, ExecutorTypeOK, AtRequirement
    <2> QED
      BY <2>5, <2>6 DEF ExecutorInv
  <1>2. ASSUME NEW p \in Plan, NEW r \in Bounded, Approve(p, r) PROVE ExecutorInv'
    BY <1>2 DEF Approve, ExecutorInv, ExecutorTypeOK, AtRequirement
  <1> QED
    BY <1>1, <1>2

\* An execution starts from the state of a plan.
LEMMA StartInv ==
    ASSUME ExecutorInv, NEW x \in Caller, NEW p \in Plan, Start(x, p)
    PROVE  ExecutorInv'
  <1> DEFINE new == [stage |-> saved[p].action, plan |-> p, at |-> saved[p].at,
                     asset |-> saved[p].asset, snapshot |-> assets,
                     approvals |-> Receipts(saved[p])]
  <1>1. saved[p] \in State /\ Receipts(saved[p]) \in SUBSET Key
    BY DEF ExecutorInv, ExecutorTypeOK, Receipts
  <1>2. new \in Run
    BY <1>1 DEF ExecutorInv, ExecutorTypeOK, Run, State
  <1>3. run' = [run EXCEPT ![x] = new]
    BY DEF Start
  <1>4. new.stage \notin {"idle", "completed"} => new.at \in Requirement
    BY DEF ExecutorInv, AtRequirement
  <1>5. new.plan \in Plan
    OBVIOUS
  <1> HIDE DEF new
  <1>6. run' \in [Caller -> Run] /\ AtRequirement'
    BY <1>2, <1>3, <1>4, <1>5, RunStep DEF Start
  <1> QED
    BY <1>6 DEF Start, ExecutorInv, ExecutorTypeOK

\* Steps that leave the assets alone.
LEMMA AlongInv ==
    ASSUME ExecutorInv, NEW x \in Caller,
           Reuse(x) \/ RequestApproval(x) \/ Provision(x) \/ TakeResult(x) \/ Finish(x) \/ Throw(x)
    PROVE  ExecutorInv'
  <1>1. UNCHANGED <<plans, approved, assets, overlap>>
    BY DEF Reuse, RequestApproval, Provision, TakeResult, Finish, Throw
  <1>2. run' \in [Caller -> Run] /\ saved' \in [Plan -> State] /\ AtRequirement'
    <2>1. CASE Reuse(x)
      BY <2>1, NextStep DEF Reuse
    <2>2. CASE RequestApproval(x)
      <3>1. CASE ReturnAt(x, "approval")
        <4>1. run[x].at \in Requirement
          BY <2>2 DEF RequestApproval, ExecutorInv, AtRequirement
        <4> QED
          BY <2>2, <3>1, <4>1, ReturnStep DEF RequestApproval, Action
      <3>2. CASE /\ run' = [run EXCEPT ![x].stage = "provision",
                              ![x].approvals = {k \in run[x].approvals : k[2] # run[x].at}]
                 /\ UNCHANGED saved
        <4>1. {k \in run[x].approvals : k[2] # run[x].at} \in SUBSET Key
          BY DEF ExecutorInv, ExecutorTypeOK, Run
        <4> QED
          BY <2>2, <3>2, <4>1, ContinueStep DEF RequestApproval, Action
      <3> QED
        BY <2>2, <3>1, <3>2 DEF RequestApproval
    <2>3. CASE Provision(x)
      <3>1. \A a \in Snapshot(x) : a.id \in AssetId
        BY DEF Snapshot, Asset, ExecutorInv, ExecutorTypeOK, Run
      <3> QED
        BY <2>3, <3>1, ContinueStep DEF Provision, Action, Await
    <2>4. CASE TakeResult(x)
      <3>1. run[x].at \in Requirement
        BY <2>4 DEF TakeResult, ExecutorInv, AtRequirement
      <3> QED
        BY <2>4, <3>1, ContinueStep, ReturnStep, EndStep DEF TakeResult, Action, Await
    <2>5. CASE Finish(x)
      BY <2>5, ReturnStep DEF Finish, Action
    <2>6. CASE Throw(x)
      BY <2>6, EndStep DEF Throw
    <2> QED
      BY <2>1, <2>2, <2>3, <2>4, <2>5, <2>6
  <1> QED
    BY <1>1, <1>2 DEF ExecutorInv, ExecutorTypeOK

\* A new asset takes the next identifier.
LEMMA SaveAssetInv ==
    ASSUME ExecutorInv, NEW x \in Caller, SaveAsset(x)
    PROVE  ExecutorInv'
  <1> DEFINE id == Cardinality(assets) + 1
             asset == [id |-> id, requirement |-> run[x].at, status |-> "planned"]
  <1>1. Cardinality(assets) \in Nat
    BY FS_CardinalityType DEF ExecutorInv, ExecutorTypeOK
  <1>2. id \in AssetId
    BY <1>1 DEF SaveAsset, AssetId
  <1>3. asset \in Asset
    BY <1>2 DEF SaveAsset, ExecutorInv, AtRequirement, Asset
  <1>4. assets' = assets \cup {asset} /\ ContinueWith(x, "verify", id)
    BY DEF SaveAsset
  <1> HIDE DEF id, asset
  <1>5. assets' \subseteq Asset /\ IsFiniteSet(assets')
    BY <1>3, <1>4, FS_AddElement DEF ExecutorInv, ExecutorTypeOK
  <1>6. run' \in [Caller -> Run] /\ saved' \in [Plan -> State] /\ AtRequirement'
    BY <1>2, <1>4, ContinueStep DEF SaveAsset, Action
  <1> QED
    BY <1>5, <1>6 DEF SaveAsset, ExecutorInv, ExecutorTypeOK

\* Activation changes a status.
LEMMA VerifyInv ==
    ASSUME ExecutorInv, NEW x \in Caller, Verify(x)
    PROVE  ExecutorInv'
  <1>1. run[x].stage = "verify" /\ run[x].at \in Requirement
    BY DEF Verify, ExecutorInv, AtRequirement
  <1>2. run' \in [Caller -> Run] /\ saved' \in [Plan -> State] /\ AtRequirement'
    BY <1>1, NextStep, ReturnStep DEF Verify, Action
  <1>3. assets' \subseteq Asset /\ IsFiniteSet(assets')
    <2>1. CASE UNCHANGED assets
      BY <2>1 DEF ExecutorInv, ExecutorTypeOK
    <2>2. CASE assets' = Activated(assets, run[x].asset)
      <3>1. IsFiniteSet(Activated(assets, run[x].asset))
        <4> DEFINE f == [a \in assets |-> IF a.id = run[x].asset
                                          THEN [a EXCEPT !.status = "active"] ELSE a]
        <4>1. f \in Surjection(assets, Activated(assets, run[x].asset))
          BY DEF Surjection, Activated
        <4> QED
          BY <4>1, FS_Surjection DEF ExecutorInv, ExecutorTypeOK
      <3>2. Activated(assets, run[x].asset) \subseteq Asset
        BY DEF Activated, Asset, ExecutorInv, ExecutorTypeOK
      <3> QED
        BY <2>2, <3>1, <3>2
    <2> QED
      BY <2>1, <2>2 DEF Verify
  <1> QED
    BY <1>2, <1>3 DEF Verify, ExecutorInv, ExecutorTypeOK

\* A crash ends the executions.
LEMMA CrashRuns == ExecutorInv /\ Crash => ExecutorInv'
  <1>1. NoRun \in Run /\ NoRun.stage = "idle"
    BY DEF NoRun, Run, Await, NoAsset
  <1> QED
    BY <1>1 DEF Crash, ExecutorInv, ExecutorTypeOK, AtRequirement

-----------------------------------------------------------------------------
(* The theorems. *)

Inv == PlaneInv /\ ExecutorInv

\* The parts hold initially.
LEMMA InitInv == Init => Inv
  BY PlaneInitInv, ExecutorInitInv DEF Init, Inv

\* The executor calls the plane with keys of its plan, and takes the results.
LEMMA PlaneUnderNext == Inv /\ [Next]_vars => PlaneInv'
  <1> SUFFICES ASSUME Inv, [Next]_vars PROVE PlaneInv'
    OBVIOUS
  <1> USE DEF Inv
  <1>1. CASE UNCHANGED planeVars
    BY <1>1 DEF planeVars, PlaneInv, PlaneTypeOK, Keyed, Exclusive, Untouched,
                EffectOncePerKey, Balanced, InFlight, Asked, Holds
  <1>2. ASSUME NEW x \in Caller, Provision(x) PROVE PlaneInv'
    <2>1. KeyOf(x) \in Key
      BY <1>2 DEF Provision, KeyOf, ExecutorInv, AtRequirement
    <2> QED
      BY <1>1, <1>2, <2>1, ExecuteInv DEF Provision
  <1>3. ASSUME NEW x \in Caller, TakeResult(x) PROVE PlaneInv'
    BY <1>3, ReturnInv DEF TakeResult
  <1>4. ASSUME NEW x \in Caller, Throw(x) PROVE PlaneInv'
    <2>1. faults' \in 0..MaxFaults
      BY <1>4 DEF Throw, PlaneInv, PlaneTypeOK
    <2> QED
      BY <1>4, <2>1 DEF Throw, PlaneInv, PlaneTypeOK, Keyed, Exclusive, Untouched,
                        EffectOncePerKey, Balanced, InFlight, Asked, Holds
  <1>5. CASE PlaneNext
    BY <1>5, PlaneNextInv
  <1>6. CASE Crash
    BY <1>6, CrashInv DEF Crash
  <1>7. CASE UNCHANGED vars
    BY <1>1, <1>7 DEF vars
  <1> QED
    BY <1>1, <1>2, <1>3, <1>4, <1>5, <1>6, <1>7
    DEF Next, MakePlan, Approve, Start, Reuse, RequestApproval, SaveAsset, Verify, Finish

\* Every step keeps the invariant of the executor.
LEMMA ExecutorUnderNext == Inv /\ [Next]_vars => ExecutorInv'
  <1> SUFFICES ASSUME Inv, [Next]_vars PROVE ExecutorInv'
    OBVIOUS
  <1> USE DEF Inv
  <1>1. CASE UNCHANGED bootstrapVars
    BY <1>1 DEF bootstrapVars, ExecutorInv, ExecutorTypeOK, AtRequirement
  <1>2. CASE UNCHANGED vars
    BY <1>1, <1>2 DEF vars
  <1> QED
    BY <1>1, <1>2, PlanInv, StartInv, AlongInv, SaveAssetInv, VerifyInv, CrashRuns DEF Next

\* The invariant of the plane under the executor.
LEMMA Invariance == Spec => []Inv
  <1>1. Inv /\ [Next]_vars => Inv'
    BY PlaneUnderNext, ExecutorUnderNext DEF Inv
  <1> QED
    BY <1>1, InitInv, PTL DEF Spec

\* Every reachable state of plans, executions, journal and envelope is well
\* typed; in particular the envelope never leaves its range.
THEOREM TypeCorrect == Spec => []TypeOK
  <1>1. Inv => TypeOK
    BY DEF Inv, PlaneInv, ExecutorInv, ExecutorTypeOK, TypeOK
  <1> QED
    BY <1>1, Invariance, PTL

\* However executions overlap, repeat, fall back, throw and crash, providers act
\* at most once for the request of a plan and requirement.
THEOREM EffectOnce == Spec => []EffectOncePerKey
  <1>1. Inv => EffectOncePerKey
    BY DEF Inv, PlaneInv
  <1> QED
    BY <1>1, Invariance, PTL

\* What providers of a runtime spent, confirmed or not, and are about to spend exceeds
\* the envelope by no more than what uncertain answers gave back.
THEOREM BudgetKept == Spec => []WithinBudget
  <1>1. Inv => WithinBudget
    BY Covered DEF Inv
  <1> QED
    BY <1>1, Invariance, PTL

-----------------------------------------------------------------------------
(* What settles a key, and how executions are linked to their calls.         *)

Settled(k) == journal[k].state \in {"applied", "reconciled"}

\* The row of a key somebody holds is still the holder's to settle, or has been
\* taken over for good.
HeldRows == \A c \in Caller : Holds(c) =>
    journal[call[c].key].state = "intent" \/ journal[call[c].key].owner # "worker"

\* A result that may be replayed as a success belongs to a settled key.
ResultsSettled == \A k \in Key : result[k] \in {"ok", "free"} => Settled(k)

\* A call in the plane is of an execution that waits for it.
Linked == \A x \in Caller :
    IF run[x].stage = "plane"
    THEN call[x].stage # "idle" /\ call[x].key = KeyOf(x)
    ELSE call[x].stage = "idle"

\* A call that returns a success has settled its key.
ReturnsSettled == \A c \in Caller :
    call[c].stage = "returned" /\ call[c].outcome \in {"ok", "free"} => Settled(call[c].key)

SettlementInv == HeldRows /\ ResultsSettled /\ Linked /\ ReturnsSettled

\* The calls of the plane have keys.
LEMMA LinkedKeys ==
    ASSUME Inv, Linked, NEW x \in Caller, call[x].stage # "idle"
    PROVE  call[x].key = KeyOf(x) /\ KeyOf(x) \in Key /\ run[x].stage = "plane"
  BY DEF Linked, Inv, ExecutorInv, AtRequirement, KeyOf

\* A step inside the plane takes one call on, or reconciles a key.
PlaneStep(c) ==
    \/ Reconcile(c) \/ Refuse(c) \/ Unavailable(c) \/ Attempt(c) \/ Effect(c)
    \/ Answer(c) \/ Settle(c) \/ FailBeforeEffect(c) \/ PlaneThrow(c)

\* It neither begins nor ends the call, and touches no other.
LEMMA PlaneStepCall ==
    ASSUME Inv, NEW c \in Caller, PlaneStep(c)
    PROVE  /\ call[c].stage # "idle" /\ call'[c].stage # "idle"
           /\ call'[c].key = call[c].key
           /\ Holds(c)' => Holds(c)
           /\ \A d \in Caller : d # c => call'[d] = call[d]
           /\ call'[c].stage = "returned" => Settle(c) /\ call'[c].outcome = call[c].outcome
  <1> USE DEF Inv, PlaneInv
  <1>1. CASE Unavailable(c)
    BY <1>1, NextAttemptType DEF Unavailable, Holds
  <1>2. CASE Answer(c)
    <2>1. PICK outcome \in Outcome :
            /\ call[c].stage \in {"provider", "effect"}
            /\ IF EndsAttempt(outcome)
               THEN Become(c, [call[c] EXCEPT !.stage = "settle", !.outcome = outcome])
               ELSE NextAttempt(c)
      BY <1>2 DEF Answer
    <2>2. CASE EndsAttempt(outcome)
      <3> DEFINE next == [call[c] EXCEPT !.stage = "settle", !.outcome = outcome]
      <3>1. next.stage = "settle" /\ next.key = call[c].key
        BY DEF PlaneTypeOK, CallRecord
      <3>2. call' = [call EXCEPT ![c] = next]
        BY <2>1, <2>2 DEF Become
      <3> HIDE DEF next
      <3> QED
        BY <2>1, <3>1, <3>2 DEF PlaneTypeOK, Holds
    <2>3. CASE ~EndsAttempt(outcome)
      BY <2>1, <2>3, NextAttemptType DEF Holds
    <2> QED
      BY <2>2, <2>3
  <1>3. ASSUME NEW stage \in Stage \ {"idle"}, Goto(c, stage),
               stage = "returned" => Settle(c),
               stage \in {"fail", "provider", "effect"} => Holds(c),
               stage \in {"thrown", "returned", "fail", "provider", "effect"},
               call[c].stage # "idle"
        PROVE  /\ call'[c].stage # "idle"
               /\ call'[c].key = call[c].key
               /\ Holds(c)' => Holds(c)
               /\ \A d \in Caller : d # c => call'[d] = call[d]
               /\ call'[c].stage = "returned" => Settle(c) /\ call'[c].outcome = call[c].outcome
    <2>1. /\ call'[c] = [call[c] EXCEPT !.stage = stage]
          /\ call'[c].stage = stage
          /\ call'[c].key = call[c].key
          /\ \A d \in Caller : d # c => call'[d] = call[d]
      BY <1>3, GotoType
    <2>2. call'[c].outcome = call[c].outcome
      BY <2>1 DEF PlaneTypeOK, CallRecord
    <2> QED
      BY <1>3, <2>1, <2>2 DEF Holds
  <1>4. CASE Settle(c)
    BY <1>3, <1>4 DEF Settle, Stage
  <1>5. CASE Reconcile(c) \/ Refuse(c) \/ Attempt(c) \/ Effect(c) \/ FailBeforeEffect(c) \/ PlaneThrow(c)
    <2>1. PICK stage \in {"thrown", "fail", "provider", "effect"} :
            Goto(c, stage) /\ (stage \in {"fail", "provider", "effect"} => Holds(c))
      BY <1>5 DEF Reconcile, Refuse, Attempt, Effect, FailBeforeEffect, PlaneThrow, Holds
    <2>2. call[c].stage # "idle"
      BY <1>5 DEF Reconcile, Refuse, Attempt, Effect, FailBeforeEffect, PlaneThrow
    <2> QED
      BY <1>3, <2>1, <2>2 DEF Stage
  <1> QED
    BY <1>1, <1>2, <1>4, <1>5 DEF PlaneStep

\* What it does to the journal: a holder settles its own key, an intent is taken
\* over; what is settled stays so.
LEMMA PlaneStepJournal ==
    ASSUME Inv, SettlementInv, NEW c \in Caller, PlaneStep(c)
    PROVE  /\ \A k \in Key : Settled(k) => Settled(k)'
           /\ HeldRows'
           /\ ResultsSettled'
           /\ call'[c].stage = "returned" /\ call'[c].outcome \in {"ok", "free"} =>
                Settled(call[c].key)'
  <1> DEFINE k == call[c].key
  <1> USE DEF Inv, PlaneInv
  <1>1. k \in Key /\ PlaneTypeOK
    BY PlaneStepCall, LinkedKeys DEF SettlementInv
  <1>2. \A d \in Caller : Holds(d)' => Holds(d) /\ call'[d].key = call[d].key
    BY PlaneStepCall DEF Holds
  <1>3. \A d \in Caller : d # c /\ Holds(d) /\ Holds(c) => call[d].key # k
    BY DEF Exclusive
  <1>4. CASE UNCHANGED <<journal, result>> /\ ~Settle(c)
    BY <1>2, <1>4, PlaneStepCall DEF SettlementInv, HeldRows, ResultsSettled, Settled
  <1>5. CASE Reconcile(c) /\ ~UNCHANGED <<journal, result>>
    <2>1. /\ journal[k].state = "intent"
          /\ journal' = [journal EXCEPT ![k] = StaleRow(journal[k], "worker:reconciler")]
          /\ result' = [result EXCEPT ![k] = "none"]
      BY <1>5 DEF Reconcile
    <2>2. /\ journal'[k].owner = "worker:reconciler" /\ result'[k] = "none"
          /\ \A l \in Key : l # k => journal'[l] = journal[l] /\ result'[l] = result[l]
      BY <2>1, <1>1 DEF StaleRow, PlaneTypeOK
    <2>3. \A l \in Key : Settled(l) => Settled(l)'
      BY <2>1, <2>2 DEF Settled
    <2>4. HeldRows'
      BY <1>2, <2>2 DEF SettlementInv, HeldRows, Keyed
    <2>5. ResultsSettled'
      BY <2>2, <2>3 DEF SettlementInv, ResultsSettled
    <2>6. call'[c].stage # "returned"
      BY <1>5, PlaneStepCall DEF Reconcile, Settle
    <2> QED
      BY <2>3, <2>4, <2>5, <2>6
  <1>6. ASSUME Settle(c) \/ FailBeforeEffect(c), MaySettle(c),
               NEW state \in {"applied", "unknown", "failed"}, NEW outcome \in Outcome,
               journal' = [journal EXCEPT ![k].state = state],
               result' = [result EXCEPT ![k] = outcome],
               outcome \in {"ok", "free"} => state = "applied",
               Settle(c) => outcome = call[c].outcome
        PROVE  /\ \A l \in Key : Settled(l) => Settled(l)'
               /\ HeldRows'
               /\ ResultsSettled'
               /\ call'[c].stage = "returned" /\ call'[c].outcome \in {"ok", "free"} => Settled(k)'
    <2>1. Holds(c) /\ journal[k].state = "intent"
      BY <1>6 DEF Settle, FailBeforeEffect, Holds, MaySettle, Owns, SettlementInv, HeldRows
    <2>2. /\ journal'[k].state = state /\ result'[k] = outcome
          /\ \A l \in Key : l # k => journal'[l] = journal[l] /\ result'[l] = result[l]
      BY <1>1, <1>6 DEF PlaneTypeOK, JournalRow
    <2>3. ~Holds(c)'
      BY <1>1, <1>6, GotoType DEF Settle, FailBeforeEffect, Stage, Holds
    <2>4. HeldRows'
      BY <1>1, <1>2, <1>3, <2>1, <2>2, <2>3 DEF SettlementInv, HeldRows, Keyed
    <2>5. (\A l \in Key : Settled(l) => Settled(l)') /\ ResultsSettled'
      BY <1>6, <2>1, <2>2 DEF SettlementInv, ResultsSettled, Settled
    <2> QED
      BY <1>1, <1>6, <2>2, <2>4, <2>5, PlaneStepCall DEF Settled
  <1>7. CASE Settle(c) /\ MaySettle(c)
    <2>1. /\ call[c].outcome \in Outcome
          /\ SettledAs[call[c].outcome] \in {"applied", "unknown", "failed"}
          /\ call[c].outcome \in {"ok", "free"} => SettledAs[call[c].outcome] = "applied"
      BY <1>1, <1>7 DEF PlaneTypeOK, CallRecord, Keyed, Outcome, SettledAs, Settle
    <2> QED
      BY <1>6, <1>7, <2>1 DEF Settle
  <1>8. CASE FailBeforeEffect(c) /\ MaySettle(c)
    <2>1. "none" \in Outcome /\ ~Settle(c)
      BY <1>8 DEF Outcome, Settle, FailBeforeEffect
    <2> QED
      BY <1>6, <1>8, <2>1 DEF FailBeforeEffect
  <1>9. CASE Settle(c) /\ ~MaySettle(c)
    <2>1. call'[c].stage = "thrown"
      BY <1>1, <1>9, GotoType DEF Settle, Stage
    <2>2. UNCHANGED <<journal, result>>
      BY <1>9 DEF Settle
    <2> QED
      BY <1>2, <2>1, <2>2 DEF SettlementInv, HeldRows, ResultsSettled, Settled
  <1> QED
    BY <1>4, <1>5, <1>7, <1>8, <1>9 DEF PlaneStep, Refuse, Unavailable, Attempt, Effect, Answer,
       FailBeforeEffect, PlaneThrow

\* Reconciliation settles a key.
LEMMA ReconciledJournal ==
    ASSUME Inv, SettlementInv, NEW k \in Key, Reconciled(k)
    PROVE  (\A l \in Key : Settled(l) => Settled(l)') /\ HeldRows' /\ ResultsSettled'
  <1>1. /\ journal'[k].state = "reconciled" /\ journal'[k].owner = journal[k].owner
        /\ result'[k] = "ok" /\ journal[k].state = "unknown"
        /\ \A l \in Key : l # k => journal'[l] = journal[l] /\ result'[l] = result[l]
    BY DEF Reconciled, Inv, PlaneInv, PlaneTypeOK, JournalRow
  <1>2. UNCHANGED call
    BY DEF Reconciled
  <1> QED
    BY <1>1, <1>2 DEF SettlementInv, HeldRows, ResultsSettled, Settled, Holds, Inv, PlaneInv, Keyed

\* What a step of an execution does to the locals of executions.
ExecutorStep(x) ==
    \/ Reuse(x) \/ RequestApproval(x) \/ Provision(x) \/ TakeResult(x) \/ SaveAsset(x)
    \/ Verify(x) \/ Finish(x) \/ Throw(x)

LEMMA RunLocal ==
    ASSUME Inv, NEW x \in Caller, ExecutorStep(x) \/ \E p \in Plan : Start(x, p)
    PROVE  /\ \A y \in Caller : y # x => run'[y] = run[y]
           /\ run'[x].stage = "plane" => Provision(x) /\ Execute(x, KeyOf(x)) /\ Continue(x, "plane")
  <1>1. PICK new : run' = [run EXCEPT ![x] = new]
    BY DEF ExecutorStep, Start, Reuse, RequestApproval, Provision, TakeResult, SaveAsset, Verify,
       Finish, Throw, End, ReturnAt, Continue, ContinueWith, NextRequirement
  <1>2. run \in [Caller -> Run] /\ run[x] \in Run
    BY DEF Inv, ExecutorInv, ExecutorTypeOK
  <1>3. \A y \in Caller : y # x => run'[y] = run[y]
    BY <1>1, <1>2
  <1>4. ASSUME NEW stage, stage # "plane",
               \/ Continue(x, stage)
               \/ \E asset : ContinueWith(x, stage, asset)
               \/ run' = [run EXCEPT ![x].stage = stage,
                            ![x].approvals = {k \in run[x].approvals : k[2] # run[x].at}]
        PROVE  run'[x].stage # "plane"
    BY <1>2, <1>4 DEF Continue, ContinueWith, Run
  <1>5. End(x) => run'[x].stage # "plane"
    BY <1>2 DEF End, NoRun
  <1>6. NextRequirement(x) => run'[x].stage # "plane"
    <2> DEFINE first == FirstAction(ReuseOf(run[x].plan), run[x].at + 1)
    <2>1. first # "plane"
      BY DEF FirstAction
    <2> HIDE DEF first
    <2> QED
      BY <1>2, <2>1 DEF NextRequirement, Run, first
  <1>7. \A p \in Plan : Start(x, p) => run'[x].stage # "plane"
    <2> SUFFICES ASSUME NEW p \in Plan, Start(x, p) PROVE run'[x].stage # "plane"
      OBVIOUS
    <2>1. saved[p].action # "plane"
      BY DEF Inv, ExecutorInv, ExecutorTypeOK, State, Action
    <2> QED
      BY <1>2, <2>1 DEF Start
  <1>8. ExecutorStep(x) /\ run'[x].stage = "plane" =>
          Provision(x) /\ Execute(x, KeyOf(x)) /\ Continue(x, "plane")
    BY <1>4, <1>5, <1>6 DEF ExecutorStep, Reuse, RequestApproval, Provision, TakeResult, SaveAsset,
       Verify, Finish, Throw, ReturnAt
  <1> QED
    BY <1>3, <1>7, <1>8

\* Settlement under the executor: what is settled stays so, and who returns or
\* replays a success has it settled.
LEMMA SettlementNext ==
    ASSUME Inv, SettlementInv, [Next]_vars
    PROVE  SettlementInv' /\ \A k \in Key : Settled(k) => Settled(k)'
  <1>1. ASSUME NEW c \in Caller, PlaneStep(c), UNCHANGED bootstrapVars
        PROVE  SettlementInv' /\ \A k \in Key : Settled(k) => Settled(k)'
    <2>1. call[c].key \in Key
      BY <1>1, PlaneStepCall, LinkedKeys DEF SettlementInv
    <2>2. UNCHANGED run /\ \A x \in Caller : KeyOf(x)' = KeyOf(x)
      BY <1>1 DEF bootstrapVars, KeyOf
    <2>3. Linked'
      BY <1>1, <2>2, PlaneStepCall DEF SettlementInv, Linked
    <2>4. \A d \in Caller : call[d].stage = "returned" => call[d].key \in Key
      BY LinkedKeys DEF SettlementInv
    <2>5. ReturnsSettled'
      BY <1>1, <2>1, <2>4, PlaneStepCall, PlaneStepJournal DEF SettlementInv, ReturnsSettled
    <2> QED
      BY <1>1, <2>3, <2>5, PlaneStepJournal DEF SettlementInv
  <1>2. ASSUME NEW k \in Key, Reconciled(k), UNCHANGED bootstrapVars
        PROVE  SettlementInv' /\ \A l \in Key : Settled(l) => Settled(l)'
    <2>1. UNCHANGED <<run, call>> /\ \A x \in Caller : KeyOf(x)' = KeyOf(x)
      BY <1>2 DEF bootstrapVars, KeyOf, Reconciled
    <2>2. Linked'
      BY <2>1 DEF SettlementInv, Linked
    <2>3. \A d \in Caller : call[d].stage = "returned" => call[d].key \in Key
      BY LinkedKeys DEF SettlementInv
    <2>4. ReturnsSettled'
      BY <1>2, <2>1, <2>3, ReconciledJournal DEF SettlementInv, ReturnsSettled
    <2> QED
      BY <1>2, <2>2, <2>4, ReconciledJournal DEF SettlementInv
  <1>3. ASSUME UNCHANGED <<journal, result, call>>, Linked'
        PROVE  SettlementInv' /\ \A k \in Key : Settled(k) => Settled(k)'
    BY <1>3 DEF SettlementInv, HeldRows, ResultsSettled, ReturnsSettled, Settled, Holds
  <1>4. ASSUME NEW x \in Caller, run[x].stage # "plane",
               \A y \in Caller : y # x => run'[y] = run[y],
               run'[x].stage # "plane", UNCHANGED call
        PROVE  Linked'
    BY <1>4 DEF SettlementInv, Linked, KeyOf
  <1>5. ASSUME NEW x \in Caller, Execute(x, KeyOf(x)), Continue(x, "plane"),
               run[x].stage = "provision"
        PROVE  SettlementInv' /\ \A k \in Key : Settled(k) => Settled(k)'
    <2> DEFINE k == KeyOf(x)
    <2>1. k \in Key /\ run \in [Caller -> Run] /\ run[x] \in Run
      BY <1>5 DEF KeyOf, Inv, ExecutorInv, ExecutorTypeOK, AtRequirement
    <2>2. /\ journal'[k] = ClaimedRow(journal[k], "worker")
          /\ \A l \in Key : l # k => journal'[l] = journal[l]
          /\ UNCHANGED result
      BY <1>5, <2>1 DEF Execute, Inv, PlaneInv, PlaneTypeOK
    <2>3. /\ call'[x].key = k /\ call'[x].stage # "idle"
          /\ Holds(x)' => Fresh(k)
          /\ call'[x].stage = "returned" => call'[x].outcome = result[k] /\ Cached(k)
          /\ \A d \in Caller : d # x => call'[d] = call[d]
      BY <1>5, <2>1 DEF Execute, Become, CallAt, Inv, PlaneInv, PlaneTypeOK, Holds
    <2>4. \A l \in Key : journal[l].state # "none" => journal'[l] = journal[l]
      BY <2>2 DEF ClaimedRow
    <2>5. \A l \in Key : Settled(l) => Settled(l)'
      BY <2>4 DEF Settled
    <2>6. HeldRows'
      <3> SUFFICES ASSUME NEW d \in Caller, Holds(d)'
                   PROVE  journal'[call'[d].key].state = "intent" \/ journal'[call'[d].key].owner # "worker"
        BY DEF HeldRows
      <3>1. CASE d = x
        BY <2>2, <2>3, <3>1 DEF Fresh, ClaimedRow
      <3>2. CASE d # x
        <4>1. Holds(d) /\ call[d].key \in Key /\ journal[call[d].key].state # "none"
          BY <2>3, <3>2 DEF Holds, Inv, PlaneInv, Keyed, Exclusive
        <4> QED
          BY <2>3, <2>4, <3>2, <4>1 DEF SettlementInv, HeldRows
      <3> QED
        BY <3>1, <3>2
    <2>7. ResultsSettled'
      BY <2>2, <2>5 DEF SettlementInv, ResultsSettled
    <2>8. /\ run'[x].stage = "plane" /\ KeyOf(x)' = k
          /\ \A y \in Caller : y # x => run'[y] = run[y]
      BY <1>5, <2>1 DEF Continue, KeyOf, Run
    <2>9. Linked'
      BY <2>3, <2>8 DEF SettlementInv, Linked, KeyOf
    <2>10. ReturnsSettled'
      BY <2>1, <2>3, <2>5, LinkedKeys DEF SettlementInv, ResultsSettled, ReturnsSettled
    <2> QED
      BY <2>5, <2>6, <2>7, <2>9, <2>10 DEF SettlementInv
  <1>6. ASSUME NEW x \in Caller, ExecutorStep(x) \/ \E p \in Plan : Start(x, p), ~TakeResult(x)
        PROVE  SettlementInv' /\ \A k \in Key : Settled(k) => Settled(k)'
    <2>1. CASE run'[x].stage = "plane"
      BY <1>5, <1>6, <2>1, RunLocal DEF Provision
    <2>2. CASE run'[x].stage # "plane"
      <3>1. run[x].stage # "plane"
        BY <1>6 DEF ExecutorStep, Start, Reuse, RequestApproval, Provision, SaveAsset, Verify,
           Finish, Throw
      <3>2. UNCHANGED <<journal, result, call>>
        <4>1. CASE Provision(x)
          <5>1. run[x] \in Run /\ run \in [Caller -> Run]
            BY DEF Inv, ExecutorInv, ExecutorTypeOK
          <5>2. ASSUME Continue(x, "plane") PROVE run'[x].stage = "plane"
            BY <5>1, <5>2 DEF Continue, Run
          <5> QED
            BY <2>2, <4>1, <5>2 DEF Provision, planeVars
        <4>2. CASE ~Provision(x)
          BY <1>6, <4>2 DEF ExecutorStep, Start, Reuse, RequestApproval, SaveAsset, Verify, Finish,
             Throw, planeVars
        <4> QED
          BY <4>1, <4>2
      <3>3. Linked'
        BY <1>4, <1>6, <2>2, <3>1, <3>2, RunLocal
      <3> QED
        BY <1>3, <3>2, <3>3
    <2> QED
      BY <2>1, <2>2
  <1>7. ASSUME NEW x \in Caller, TakeResult(x)
        PROVE  SettlementInv' /\ \A k \in Key : Settled(k) => Settled(k)'
    <2>1. /\ call'[x] = NoCall
          /\ \A d \in Caller : d # x => call'[d] = call[d]
          /\ UNCHANGED <<journal, result>>
      BY <1>7 DEF TakeResult, Return, Become, Inv, PlaneInv, PlaneTypeOK
    <2>2. /\ run'[x].stage # "plane"
          /\ \A y \in Caller : y # x => run'[y] = run[y]
      BY <1>7, RunLocal DEF ExecutorStep, Provision, TakeResult
    <2> QED
      BY <2>1, <2>2 DEF SettlementInv, HeldRows, ResultsSettled, Linked, ReturnsSettled, Settled,
         Holds, KeyOf, NoCall, CallAt
  <1>8. CASE Crash
    BY <1>8 DEF Crash, PlaneCrash, SettlementInv, HeldRows, ResultsSettled, Linked, ReturnsSettled,
       Settled, Holds, KeyOf, NoCall, CallAt, NoRun
  <1>9. CASE UNCHANGED vars \/ (\E p \in Plan : MakePlan(p)) \/ (\E p \in Plan, r \in Bounded : Approve(p, r))
    <2>1. UNCHANGED <<journal, result, call, run>>
      BY <1>9 DEF vars, planeVars, bootstrapVars, MakePlan, Approve
    <2> QED
      BY <1>3, <2>1 DEF SettlementInv, Linked, KeyOf
  <1> QED
    BY <1>1, <1>2, <1>6, <1>7, <1>8, <1>9 DEF Next, PlaneNext, PlaneStep, ExecutorStep

-----------------------------------------------------------------------------
(* Approvals and the assets they lead to. *)

\* The requirement of a key needs no human, or was approved for that plan.
Allowed(k) == k[2] \in Bounded => k \in approved

\* Receipts are approvals, and nobody gets to provision without one.
ApprovalInv ==
    /\ \A x \in Caller : run[x].approvals \subseteq approved
    /\ \A x \in Caller : run[x].stage \in {"provision", "plane"} => Allowed(KeyOf(x))
    /\ \A p \in Plan : saved[p].action = "provision" => Allowed(<<p, saved[p].at>>)
    /\ ApprovedBeforeEffect

\* The step of a requirement whose plan makes it provision at once.
LEMMA FirstAllowed ==
    ASSUME NEW reuse, NEW p, NEW n \in Requirement, FirstAction(reuse, n) = "provision"
    PROVE  Allowed(<<p, n>>)
  BY DEF FirstAction, Allowed

\* A step of an execution keeps its receipts true.
LEMMA ApprovalStep ==
    ASSUME Inv, ApprovalInv, NEW x \in Caller, ExecutorStep(x) \/ \E p \in Plan : Start(x, p)
    PROVE  /\ run'[x].approvals \subseteq approved
           /\ run'[x].stage \in {"provision", "plane"} => Allowed(<<run'[x].plan, run'[x].at>>)
           /\ \A p \in Plan : saved'[p].action = "provision" => Allowed(<<p, saved'[p].at>>)
  <1>1. /\ run \in [Caller -> Run] /\ run[x] \in Run /\ saved \in [Plan -> State]
        /\ run[x].approvals \subseteq approved
    BY DEF Inv, ExecutorInv, ExecutorTypeOK, ApprovalInv
  <1>2. ASSUME End(x) PROVE run'[x].approvals = {} /\ run'[x].stage = "idle"
    BY <1>1, <1>2 DEF End, NoRun
  <1>3. ASSUME NEW action \in Action, ReturnAt(x, action), run[x].stage # "idle",
               action = "provision" => run[x].stage = "plane"
        PROVE  \A p \in Plan : saved'[p].action = "provision" => Allowed(<<p, saved'[p].at>>)
    <2>1. saved' = [saved EXCEPT ![run[x].plan] = StateAt(run[x].at, action, run[x].asset)]
      BY <1>3 DEF ReturnAt
    <2>2. action = "provision" => Allowed(<<run[x].plan, run[x].at>>)
      BY <1>3 DEF ApprovalInv, KeyOf
    <2> QED
      BY <1>1, <2>1, <2>2 DEF ApprovalInv, StateAt
  <1>4. ASSUME NEW stage, Continue(x, stage) \/ \E asset : ContinueWith(x, stage, asset),
               stage = "plane" => run[x].stage = "provision", stage # "provision"
        PROVE  /\ run'[x].approvals \subseteq approved
               /\ run'[x].stage \in {"provision", "plane"} => Allowed(<<run'[x].plan, run'[x].at>>)
    <2>1. /\ run'[x].stage = stage /\ run'[x].plan = run[x].plan /\ run'[x].at = run[x].at
          /\ run'[x].approvals = run[x].approvals
      BY <1>1, <1>4 DEF Continue, ContinueWith, Run
    <2> QED
      BY <1>1, <1>4, <2>1 DEF ApprovalInv, KeyOf
  <1>5. CASE UNCHANGED saved /\ (SaveAsset(x) \/ Provision(x) \/ Throw(x) \/ TakeResult(x))
    <2>1. \A p \in Plan : saved'[p].action = "provision" => Allowed(<<p, saved'[p].at>>)
      BY <1>5 DEF ApprovalInv
    <2>2. CASE SaveAsset(x) \/ Provision(x)
      BY <1>4, <2>1, <2>2 DEF SaveAsset, Provision
    <2>3. CASE Throw(x)
      BY <1>2, <2>1, <2>3 DEF Throw
    <2>4. CASE TakeResult(x)
      BY <1>2, <1>4, <2>1, <2>4 DEF TakeResult, ReturnAt
    <2> QED
      BY <1>5, <2>2, <2>3, <2>4
  <1>6. CASE \E action \in Action : /\ ReturnAt(x, action) /\ run[x].stage # "idle"
                                    /\ action = "provision" => run[x].stage = "plane"
    BY <1>2, <1>3, <1>6 DEF ReturnAt
  <1>7. CASE NextRequirement(x) /\ UNCHANGED saved /\ run[x].stage \notin {"idle", "completed"}
    <2> DEFINE first == FirstAction(ReuseOf(run[x].plan), run[x].at + 1)
    <2>1. /\ run'[x].stage = first /\ run'[x].plan = run[x].plan /\ run'[x].at = run[x].at + 1
          /\ run'[x].approvals = run[x].approvals
      BY <1>1, <1>7 DEF NextRequirement, Run
    <2>2. first # "plane" /\ (first = "provision" => run[x].at + 1 \in Requirement)
      BY <1>1 DEF FirstAction, Run, Requirement
    <2>3. first = "provision" => Allowed(<<run[x].plan, run[x].at + 1>>)
      BY <2>2, FirstAllowed
    <2> HIDE DEF first
    <2> QED
      BY <1>1, <1>7, <2>1, <2>2, <2>3 DEF ApprovalInv
  <1>8. CASE RequestApproval(x) /\ ~ReturnAt(x, "approval")
    <2>1. /\ KeyOf(x) \in run[x].approvals /\ UNCHANGED saved
          /\ run' = [run EXCEPT ![x].stage = "provision",
                       ![x].approvals = {k \in run[x].approvals : k[2] # run[x].at}]
      BY <1>8 DEF RequestApproval, ValidApproval
    <2>2. /\ run'[x].plan = run[x].plan /\ run'[x].at = run[x].at
          /\ run'[x].approvals \subseteq run[x].approvals
      BY <1>1, <2>1 DEF Run
    <2>3. Allowed(KeyOf(x))
      BY <1>1, <2>1 DEF Allowed
    <2> QED
      BY <1>1, <2>1, <2>2, <2>3 DEF ApprovalInv, KeyOf
  <1>9. ASSUME NEW p \in Plan, Start(x, p)
        PROVE  /\ run'[x].approvals \subseteq approved
               /\ run'[x].stage \in {"provision", "plane"} => Allowed(<<run'[x].plan, run'[x].at>>)
               /\ \A q \in Plan : saved'[q].action = "provision" => Allowed(<<q, saved'[q].at>>)
    <2>1. /\ run'[x].stage = saved[p].action /\ run'[x].plan = p /\ run'[x].at = saved[p].at
          /\ run'[x].approvals = Receipts(saved[p])
          /\ UNCHANGED saved
      BY <1>1, <1>9 DEF Start
    <2>2. saved[p].action # "plane" /\ Receipts(saved[p]) \subseteq approved
      BY <1>1 DEF State, Action, Receipts
    <2> QED
      BY <2>1, <2>2 DEF ApprovalInv
  <1>10. CASE TakeResult(x) /\ ~UNCHANGED saved
    BY <1>6, <1>10 DEF TakeResult, Action
  <1>11. CASE Verify(x) \/ Reuse(x) \/ Finish(x)
    BY <1>6, <1>7, <1>11 DEF Verify, Reuse, Finish, Action
  <1>12. CASE RequestApproval(x) /\ ReturnAt(x, "approval")
    BY <1>6, <1>12 DEF RequestApproval, Action
  <1>13. SaveAsset(x) \/ Provision(x) \/ Throw(x) => UNCHANGED saved
    BY DEF SaveAsset, Provision, Throw
  <1> QED
    BY <1>5, <1>8, <1>9, <1>10, <1>11, <1>12, <1>13 DEF ExecutorStep

\* No effect without the approval of its key, whatever step is taken.
LEMMA ApprovalNext ==
    ASSUME Inv, SettlementInv, ApprovalInv, [Next]_vars
    PROVE  ApprovalInv'
  <1>1. approved \subseteq approved' /\ \A k \in Key : effects[k] \in Nat
    BY DEF Inv, PlaneInv, PlaneTypeOK, Next, vars, bootstrapVars, MakePlan, Approve, Start, Reuse,
       RequestApproval, Provision, TakeResult, SaveAsset, Verify, Finish, Throw, Crash
  <1>2. \A k : Allowed(k) => Allowed(k)'
    BY <1>1 DEF Allowed
  <1>3. ApprovedBeforeEffect'
    <2>1. CASE UNCHANGED effects
      BY <1>1, <2>1 DEF ApprovalInv, ApprovedBeforeEffect
    <2>2. ASSUME NEW c \in Caller, Effect(c) PROVE ApprovedBeforeEffect'
      <3>1. call[c].stage # "idle" /\ effects' = [effects EXCEPT ![call[c].key] = effects[call[c].key] + 1]
        BY <2>2 DEF Effect
      <3>2. Allowed(call[c].key)
        BY <3>1, LinkedKeys DEF SettlementInv, ApprovalInv
      <3>3. \A k \in Key : k # call[c].key => effects'[k] = effects[k]
        BY <3>1 DEF Inv, PlaneInv, PlaneTypeOK
      <3> QED
        BY <1>1, <3>2, <3>3 DEF ApprovalInv, ApprovedBeforeEffect, Allowed
    <2>3. UNCHANGED effects \/ \E c \in Caller : Effect(c)
      BY DEF Next, vars, planeVars, MakePlan, Approve, Start, Reuse, RequestApproval, Provision,
         Execute, TakeResult, Return, SaveAsset, Verify, Finish, Throw, Crash, PlaneCrash,
         PlaneNext, Reconcile, Refuse, Unavailable, Attempt, Answer, Settle, FailBeforeEffect,
         PlaneThrow, Reconciled
    <2> QED
      BY <2>1, <2>2, <2>3
  <1>4. CASE UNCHANGED <<run, saved>>
    BY <1>1, <1>2, <1>3, <1>4 DEF ApprovalInv, KeyOf
  <1>5. ASSUME NEW x \in Caller, ExecutorStep(x) \/ \E p \in Plan : Start(x, p)
        PROVE  ApprovalInv'
    BY <1>1, <1>2, <1>3, <1>5, ApprovalStep, RunLocal DEF ApprovalInv, KeyOf
  <1>6. ASSUME NEW p \in Plan, MakePlan(p)
        PROVE  ApprovalInv'
    <2>1. PICK reuse : saved' = [saved EXCEPT ![p] = StateAt(1, FirstAction(reuse, 1), NoAsset)]
      BY <1>6 DEF MakePlan
    <2>2. FirstAction(reuse, 1) = "provision" => Allowed(<<p, 1>>)
      BY FirstAllowed DEF Requirement
    <2>3. \A q \in Plan : saved'[q].action = "provision" => Allowed(<<q, saved'[q].at>>)
      BY <2>1, <2>2 DEF Inv, ExecutorInv, ExecutorTypeOK, ApprovalInv, StateAt
    <2>4. UNCHANGED run
      BY <1>6 DEF MakePlan
    <2> QED
      BY <1>1, <1>2, <1>3, <2>3, <2>4 DEF ApprovalInv, KeyOf
  <1>7. CASE Crash
    BY <1>1, <1>2, <1>3, <1>7 DEF Crash, ApprovalInv, KeyOf, NoRun
  <1> QED
    BY <1>4, <1>5, <1>6, <1>7 DEF Next, ExecutorStep, Approve, vars, bootstrapVars

-----------------------------------------------------------------------------
(* Assets. *)

\* An execution that is about to save an asset has its key settled.
AssetInv ==
    /\ \A x \in Caller : run[x].stage = "save" => Settled(KeyOf(x))
    /\ AssetIsSettled

\* A step of an execution that leads to a save returns from the plane.
LEMMA SaveStep ==
    ASSUME Inv, SettlementInv, AssetInv, [Next]_vars,
           NEW x \in Caller, ExecutorStep(x) \/ \E p \in Plan : Start(x, p),
           run'[x].stage = "save"
    PROVE  Settled(KeyOf(x)) /\ KeyOf(x) \in Key /\ KeyOf(x)' = KeyOf(x)
  <1>1. run \in [Caller -> Run] /\ run[x] \in Run
    BY DEF Inv, ExecutorInv, ExecutorTypeOK
  <1>2. ASSUME NEW stage, stage # "save",
               \/ Continue(x, stage)
               \/ \E asset : ContinueWith(x, stage, asset)
               \/ run' = [run EXCEPT ![x].stage = stage,
                            ![x].approvals = {k \in run[x].approvals : k[2] # run[x].at}]
        PROVE  FALSE
    BY <1>1, <1>2 DEF Continue, ContinueWith, Run
  <1>3. ~End(x)
    BY <1>1 DEF End, NoRun
  <1>4. ~NextRequirement(x)
    <2> DEFINE first == FirstAction(ReuseOf(run[x].plan), run[x].at + 1)
    <2>1. first # "save"
      BY DEF FirstAction
    <2> HIDE DEF first
    <2> QED
      BY <1>1, <2>1 DEF NextRequirement, Run, first
  <1>5. \A p \in Plan : ~Start(x, p)
    <2> SUFFICES ASSUME NEW p \in Plan, Start(x, p) PROVE FALSE
      OBVIOUS
    <2>1. saved[p].action # "save"
      BY DEF Inv, ExecutorInv, ExecutorTypeOK, State, Action
    <2> QED
      BY <1>1, <2>1 DEF Start
  <1>6. /\ TakeResult(x) /\ Continue(x, "save")
        /\ call[x].stage = "returned" /\ call[x].outcome \in {"ok", "free"}
    BY <1>2, <1>3, <1>4, <1>5 DEF ExecutorStep, Reuse, RequestApproval, Provision, TakeResult,
       SaveAsset, Verify, Finish, Throw, ReturnAt
  <1>7. call[x].key = KeyOf(x) /\ KeyOf(x) \in Key
    BY <1>6, LinkedKeys DEF SettlementInv
  <1>8. KeyOf(x)' = KeyOf(x)
    BY <1>1, <1>6 DEF Continue, KeyOf, Run
  <1> QED
    BY <1>6, <1>7, <1>8 DEF SettlementInv, ReturnsSettled

\* What a step does to the assets: one is saved, or one is activated.
LEMMA AssetsStep ==
    ASSUME Inv, [Next]_vars
    PROVE  \/ UNCHANGED assets
           \/ \E x \in Caller : /\ SaveAsset(x)
                                /\ assets' = assets \cup
                                     {[id |-> Cardinality(assets) + 1, requirement |-> run[x].at,
                                       status |-> "planned"]}
           \/ \E x \in Caller : Verify(x) /\ assets' = Activated(assets, run[x].asset)
  BY DEF Next, vars, bootstrapVars, MakePlan, Approve, Start, Reuse, RequestApproval,
     Provision, TakeResult, SaveAsset, Verify, Finish, Throw, Crash

\* Activated assets keep their requirements.
LEMMA ActivatedAssets ==
    ASSUME Inv, NEW id
    PROVE  /\ \A b \in Activated(assets, id) :
                \E a \in assets : b.id = a.id /\ b.requirement = a.requirement
           /\ \A a \in assets : \E b \in Activated(assets, id) :
                /\ b.id = a.id /\ b.requirement = a.requirement
                /\ a.status = "active" \/ a.id = id => b.status = "active"
  <1> DEFINE image(a) == IF a.id = id THEN [a EXCEPT !.status = "active"] ELSE a
  <1>1. \A a \in assets : /\ image(a).id = a.id /\ image(a).requirement = a.requirement
                          /\ a.status = "active" \/ a.id = id => image(a).status = "active"
    BY DEF Inv, ExecutorInv, ExecutorTypeOK, Asset
  <1>2. Activated(assets, id) = {image(a) : a \in assets}
    BY DEF Activated
  <1> HIDE DEF image
  <1> QED
    BY <1>1, <1>2

\* No asset of a request that is not settled, whatever step is taken.
LEMMA AssetNext ==
    ASSUME Inv, SettlementInv, AssetInv, [Next]_vars
    PROVE  AssetInv'
  <1>1. \A k \in Key : Settled(k) => Settled(k)'
    BY SettlementNext
  <1>2. AssetIsSettled'
    <2> DEFINE Done == {k \in Key : Settled(k)'}
               Good == {r \in Requirement : \E p \in Plan : <<p, r>> \in Done}
    <2>1. \A k \in Key : k \in Done <=> Settled(k)'
      OBVIOUS
    <2> HIDE DEF Done
    <2>2. \A p \in Plan, r \in Requirement : <<p, r>> \in Key
      BY BootstrapAssumption DEF BootstrapAssumption
    <2>3. ASSUME NEW a \in assets PROVE a.requirement \in Good
      <3>1. PICK p \in Plan : Settled(<<p, a.requirement>>)
        BY DEF AssetInv, AssetIsSettled, Settled
      <3>2. a.requirement \in Requirement
        BY DEF Inv, ExecutorInv, ExecutorTypeOK, Asset
      <3>3. <<p, a.requirement>> \in Done
        BY <1>1, <2>1, <2>2, <3>1, <3>2
      <3> QED
        BY <3>2, <3>3
    <2>4. ASSUME NEW x \in Caller, SaveAsset(x)
          PROVE  run[x].at \in Good
      <3>1. Settled(KeyOf(x)) /\ KeyOf(x) \in Key /\ run[x].plan \in Plan
            /\ run[x].at \in Requirement
        BY <2>4 DEF SaveAsset, AssetInv, KeyOf, Inv, ExecutorInv, AtRequirement
      <3>2. KeyOf(x) \in Done
        BY <1>1, <2>1, <3>1
      <3> QED
        BY <3>1, <3>2 DEF KeyOf
    <2> HIDE DEF Good
    <2>5. ASSUME UNCHANGED assets PROVE \A b \in assets' : b.requirement \in Good
      BY <2>3, <2>5
    <2>6. ASSUME NEW x \in Caller, SaveAsset(x), NEW i,
                 assets' = assets \cup {[id |-> i, requirement |-> run[x].at, status |-> "planned"]}
          PROVE  \A b \in assets' : b.requirement \in Good
      BY <2>3, <2>4, <2>6
    <2>7. ASSUME NEW x \in Caller, assets' = Activated(assets, run[x].asset)
          PROVE  \A b \in assets' : b.requirement \in Good
      BY <2>3, <2>7, ActivatedAssets
    <2>8. \A b \in assets' : b.requirement \in Good
      BY <2>3, <2>5, <2>6, <2>7, AssetsStep
    <2>9. \A b \in assets' : \E p \in Plan : <<p, b.requirement>> \in Done /\ b.requirement \in Requirement
      BY <2>8 DEF Good
    <2> QED
      BY <2>1, <2>2, <2>9 DEF AssetIsSettled, Settled
  <1>3. ASSUME NEW x \in Caller, run'[x].stage = "save"
        PROVE  Settled(KeyOf(x))'
    <2>1. CASE run'[x] = run[x]
      <3>1. Settled(KeyOf(x)) /\ KeyOf(x)' = KeyOf(x)
        BY <1>3, <2>1 DEF AssetInv, KeyOf
      <3>2. KeyOf(x) \in Key
        BY <1>3, <2>1 DEF Inv, ExecutorInv, AtRequirement, KeyOf
      <3> QED
        BY <1>1, <3>1, <3>2 DEF Settled
    <2>2. CASE run'[x] # run[x]
      <3>1. ~Crash
        BY <1>3 DEF Crash, NoRun
      <3>2. \E y \in Caller : ExecutorStep(y) \/ \E p \in Plan : Start(y, p)
        BY <2>2, <3>1 DEF Next, vars, bootstrapVars, MakePlan, Approve, ExecutorStep
      <3>3. ExecutorStep(x) \/ \E p \in Plan : Start(x, p)
        BY <2>2, <3>2, RunLocal
      <3>4. Settled(KeyOf(x)) /\ KeyOf(x) \in Key /\ KeyOf(x)' = KeyOf(x)
        BY <1>3, <3>3, SaveStep
      <3> QED
        BY <1>1, <3>4 DEF Settled
    <2> QED
      BY <2>1, <2>2
  <1> QED
    BY <1>2, <1>3 DEF AssetInv

-----------------------------------------------------------------------------
(* What is provisioned behind an execution. *)

\* The assets there are, and the requirements with an active one.
Held == {<<a.id, a.requirement>> : a \in assets}
Done == {r \in Requirement : Reusable(r) # {}}

\* Whoever stands at an action of requirement n has the earlier ones done, and
\* has an asset to verify.
Steady(asset, action, n, held, done) ==
    /\ \A r \in Requirement : r < n => r \in done
    /\ action = "verify" => <<asset, n>> \in held

\* So do the locals of an execution, which works on a snapshot of the assets.
SteadyRun(locals, held, done, made) ==
    /\ locals.stage # "idle" => locals.plan \in made
    /\ \A a \in locals.snapshot : <<a.id, a.requirement>> \in held
    /\ Steady(locals.asset, locals.stage, locals.at, held, done)

SteadyState(state, held, done) == Steady(state.asset, state.action, state.at, held, done)

\* Plans reuse active assets; executions and saved states stand where they may.
ProgressInv ==
    /\ \A plan \in plans, r \in Requirement : plan.reuse[r] # NoAsset => r \in Done
    /\ \A x \in Caller : SteadyRun(run[x], Held, Done, Made)
    /\ \A p \in Plan : SteadyState(saved[p], Held, Done)

\* Assets are added or activated, and plans are added.
LEMMA AllGrow ==
    ASSUME Inv, [Next]_vars
    PROVE  Held \subseteq Held' /\ Done \subseteq Done' /\ Made \subseteq Made'
  <1>1. \A a \in assets : \E b \in assets' :
          /\ b.id = a.id /\ b.requirement = a.requirement
          /\ a.status = "active" => b.status = "active"
    BY AssetsStep, ActivatedAssets
  <1>2. Held \subseteq Held' /\ Done \subseteq Done'
    BY <1>1 DEF Held, Done, Reusable
  <1>3. plans \subseteq plans'
    BY DEF Next, vars, bootstrapVars, MakePlan, Approve, Start, Reuse, RequestApproval,
       Provision, TakeResult, SaveAsset, Verify, Finish, Throw, Crash
  <1> QED
    BY <1>2, <1>3 DEF Made

\* What is steady stays so when there are more assets and plans.
LEMMA SteadyGrows ==
    ASSUME NEW held, NEW done, NEW made, NEW held2, NEW done2, NEW made2,
           held \subseteq held2, done \subseteq done2, made \subseteq made2
    PROVE  /\ \A locals : SteadyRun(locals, held, done, made) => SteadyRun(locals, held2, done2, made2)
           /\ \A state : SteadyState(state, held, done) => SteadyState(state, held2, done2)
  BY DEF SteadyRun, SteadyState, Steady

\* A requirement that the plan of an execution reuses is done.
LEMMA ReusedIsDone ==
    ASSUME ProgressInv, NEW p \in Made, NEW r \in Requirement, ReuseOf(p)[r] # NoAsset
    PROVE  r \in Done
  <1>1. \E plan \in plans : plan.plan = p
    BY DEF Made
  <1>2. PICK plan \in plans : ReuseOf(p) = plan.reuse
    BY <1>1 DEF ReuseOf
  <1> QED
    BY <1>2 DEF ProgressInv

\* A step of an execution leaves it, and the state it returns, where they may stand.
LEMMA ProgressStep ==
    ASSUME Inv, ProgressInv, [Next]_vars,
           NEW x \in Caller, ExecutorStep(x) \/ \E p \in Plan : Start(x, p)
    PROVE  /\ SteadyRun(run'[x], Held', Done', Made)
           /\ \A p \in Plan : SteadyState(saved'[p], Held', Done')
  <1>1. /\ run \in [Caller -> Run] /\ run[x] \in Run /\ saved \in [Plan -> State]
        /\ SteadyRun(run[x], Held', Done', Made)
        /\ \A p \in Plan : SteadyState(saved[p], Held', Done')
    BY AllGrow, SteadyGrows DEF Inv, ExecutorInv, ExecutorTypeOK, ProgressInv
  <1>2. \A new : run' = [run EXCEPT ![x] = new] => run'[x] = new
    BY <1>1
  <1>3. End(x) => SteadyRun(run'[x], Held', Done', Made)
    <2>1. SteadyRun(NoRun, Held', Done', Made)
      BY DEF SteadyRun, Steady, NoRun, Requirement
    <2> QED
      BY <1>2, <2>1 DEF End
  <1>4. ASSUME NEW action \in Action, ReturnAt(x, action),
               action = "verify" => run[x].stage = "verify"
        PROVE  /\ SteadyRun(run'[x], Held', Done', Made)
               /\ \A p \in Plan : SteadyState(saved'[p], Held', Done')
    <2> DEFINE state == StateAt(run[x].at, action, run[x].asset)
    <2>1. SteadyState(state, Held', Done')
      BY <1>1, <1>4 DEF SteadyRun, SteadyState, Steady, StateAt
    <2>2. saved' = [saved EXCEPT ![run[x].plan] = state]
      BY <1>4 DEF ReturnAt
    <2> HIDE DEF state
    <2>3. \A p \in Plan : saved'[p] = saved[p] \/ saved'[p] = state
      BY <1>1, <2>2
    <2> QED
      BY <1>1, <1>3, <1>4, <2>1, <2>3 DEF ReturnAt
  <1>5. ASSUME NEW stage \in {"plane", "save"}, Continue(x, stage), run[x].stage # "idle"
        PROVE  SteadyRun(run'[x], Held', Done', Made)
    <2>1. SteadyRun([run[x] EXCEPT !.stage = stage], Held', Done', Made)
      BY <1>1, <1>5 DEF SteadyRun, Steady, Run
    <2>2. run'[x] = [run[x] EXCEPT !.stage = stage]
      BY <1>1, <1>5 DEF Continue
    <2> QED
      BY <2>1, <2>2
  <1>6. ASSUME NEW asset, ContinueWith(x, "verify", asset), run[x].stage # "idle",
               <<asset, run[x].at>> \in Held'
        PROVE  SteadyRun(run'[x], Held', Done', Made)
    <2>1. SteadyRun([run[x] EXCEPT !.stage = "verify", !.asset = asset], Held', Done', Made)
      BY <1>1, <1>6 DEF SteadyRun, Steady, Run
    <2>2. run'[x] = [run[x] EXCEPT !.stage = "verify", !.asset = asset]
      BY <1>1, <1>6 DEF ContinueWith
    <2> QED
      BY <2>1, <2>2
  <1>7. ASSUME NextRequirement(x), run[x].stage \notin {"idle", "completed"},
               run[x].at \in Done'
        PROVE  SteadyRun(run'[x], Held', Done', Made)
    <2> DEFINE first == FirstAction(ReuseOf(run[x].plan), run[x].at + 1)
    <2>1. /\ run'[x].stage = first /\ run'[x].plan = run[x].plan /\ run'[x].at = run[x].at + 1
          /\ run'[x].snapshot \subseteq run[x].snapshot
      BY <1>1, <1>7 DEF NextRequirement, Run
    <2>2. first # "verify"
      BY DEF FirstAction
    <2>3. run[x].at \in Requirement
      BY <1>7 DEF Inv, ExecutorInv, AtRequirement
    <2>4. \A r \in Requirement : r < run[x].at + 1 => r < run[x].at \/ r = run[x].at
      BY <2>3 DEF Requirement
    <2> HIDE DEF first
    <2> QED
      BY <1>1, <1>7, <2>1, <2>2, <2>4 DEF SteadyRun, Steady
  <1>8. ASSUME UNCHANGED saved, SteadyRun(run'[x], Held', Done', Made)
        PROVE  /\ SteadyRun(run'[x], Held', Done', Made)
               /\ \A p \in Plan : SteadyState(saved'[p], Held', Done')
    BY <1>1, <1>8
  <1>9. CASE RequestApproval(x)
    <2>1. CASE ReturnAt(x, "approval")
      BY <1>4, <2>1 DEF Action
    <2>2. CASE ~ReturnAt(x, "approval")
      <3> DEFINE new == [run[x] EXCEPT !.stage = "provision",
                           !.approvals = {k \in run[x].approvals : k[2] # run[x].at}]
      <3>1. UNCHANGED saved /\ run' = [run EXCEPT ![x] = new] /\ run[x].stage # "idle"
        BY <1>9, <2>2 DEF RequestApproval
      <3>2. SteadyRun(new, Held', Done', Made)
        BY <1>1, <3>1 DEF SteadyRun, Steady, Run
      <3> HIDE DEF new
      <3> QED
        BY <1>2, <1>8, <3>1, <3>2
    <2> QED
      BY <2>1, <2>2
  <1>10. CASE Provision(x)
    <2>1. UNCHANGED saved /\ run[x].stage # "idle"
      BY <1>10 DEF Provision
    <2>2. CASE Continue(x, "plane")
      BY <1>5, <1>8, <2>1, <2>2
    <2>3. ASSUME NEW a \in Snapshot(x), ContinueWith(x, "verify", a.id)
          PROVE  SteadyRun(run'[x], Held', Done', Made)
      <3>1. <<a.id, run[x].at>> \in Held'
        BY <1>1 DEF Snapshot, SteadyRun
      <3> QED
        BY <1>6, <2>1, <2>3, <3>1
    <2> QED
      BY <1>8, <1>10, <2>1, <2>2, <2>3 DEF Provision
  <1>11. CASE TakeResult(x)
    <2>1. CASE ReturnAt(x, "provision")
      BY <1>4, <2>1 DEF Action
    <2>2. CASE UNCHANGED saved /\ (Continue(x, "save") \/ End(x))
      BY <1>3, <1>5, <1>8, <1>11, <2>2 DEF TakeResult
    <2> QED
      BY <1>11, <2>1, <2>2 DEF TakeResult
  <1>12. CASE SaveAsset(x)
    <2>1. PICK id : /\ id = Cardinality(assets) + 1
                    /\ ContinueWith(x, "verify", id)
                    /\ [id |-> id, requirement |-> run[x].at, status |-> "planned"] \in assets'
      BY <1>12 DEF SaveAsset
    <2>2. UNCHANGED saved /\ run[x].stage # "idle"
      BY <1>12 DEF SaveAsset
    <2>3. <<id, run[x].at>> \in Held'
      BY <2>1 DEF Held
    <2> QED
      BY <1>6, <1>8, <2>1, <2>2, <2>3
  <1>13. CASE Verify(x) /\ ~ReturnAt(x, "verify")
    <2>1. /\ assets' = Activated(assets, run[x].asset) /\ NextRequirement(x)
          /\ UNCHANGED saved /\ run[x].stage = "verify"
      BY <1>13 DEF Verify
    <2>2. PICK a \in assets : a.id = run[x].asset /\ a.requirement = run[x].at
      BY <2>1 DEF ProgressInv, SteadyRun, Steady, Held
    <2>3. PICK b \in assets' : b.requirement = run[x].at /\ b.status = "active"
      BY <2>1, <2>2, ActivatedAssets
    <2>4. run[x].at \in Requirement
      BY <2>1 DEF Inv, ExecutorInv, AtRequirement
    <2>5. run[x].at \in Done'
      BY <2>3, <2>4 DEF Done, Reusable
    <2> QED
      BY <1>7, <1>8, <2>1, <2>5
  <1>14. CASE Reuse(x)
    <2>1. /\ NextRequirement(x) /\ UNCHANGED saved /\ run[x].stage = "reuse"
          /\ \E a \in run[x].snapshot : a.id = ReuseOf(run[x].plan)[run[x].at]
      BY <1>14 DEF Reuse
    <2>2. run[x].plan \in Made /\ run[x].at \in Requirement
      BY <1>1, <2>1 DEF SteadyRun, Inv, ExecutorInv, AtRequirement
    <2>3. ReuseOf(run[x].plan)[run[x].at] # NoAsset
      BY <1>1, <2>1 DEF Run, Asset, AssetId, NoAsset
    <2>4. run[x].at \in Done'
      BY <2>2, <2>3, ReusedIsDone, AllGrow
    <2> QED
      BY <1>7, <1>8, <2>1, <2>4
  <1>15. ASSUME NEW p \in Plan, Start(x, p)
         PROVE  /\ SteadyRun(run'[x], Held', Done', Made)
                /\ \A q \in Plan : SteadyState(saved'[q], Held', Done')
    <2>1. /\ run'[x].stage = saved[p].action /\ run'[x].plan = p /\ run'[x].at = saved[p].at
          /\ run'[x].asset = saved[p].asset /\ run'[x].snapshot = assets
          /\ UNCHANGED saved /\ p \in Made
      BY <1>1, <1>15 DEF Start
    <2>2. \A a \in assets : <<a.id, a.requirement>> \in Held'
      BY AllGrow DEF Held
    <2> QED
      BY <1>1, <1>8, <2>1, <2>2 DEF SteadyRun, SteadyState
  <1>16. CASE Finish(x) \/ (Verify(x) /\ ReturnAt(x, "verify"))
    BY <1>4, <1>16 DEF Finish, Verify, Action
  <1>17. CASE Throw(x)
    BY <1>3, <1>8, <1>17 DEF Throw
  <1> QED
    BY <1>9, <1>10, <1>11, <1>12, <1>13, <1>14, <1>15, <1>16, <1>17 DEF ExecutorStep

\* Whatever step is taken, executions and states stand where they may.
LEMMA ProgressNext ==
    ASSUME Inv, ProgressInv, [Next]_vars
    PROVE  ProgressInv'
  <1>1. /\ \A x \in Caller : SteadyRun(run[x], Held', Done', Made')
        /\ \A p \in Plan : SteadyState(saved[p], Held', Done')
        /\ Done \subseteq Done'
    BY AllGrow, SteadyGrows DEF ProgressInv
  <1>2. CASE UNCHANGED <<plans, run, saved>>
    BY <1>1, <1>2 DEF ProgressInv
  <1>3. ASSUME NEW x \in Caller, ExecutorStep(x) \/ \E p \in Plan : Start(x, p)
        PROVE  ProgressInv'
    <2>1. UNCHANGED plans /\ Made' = Made
      BY <1>3 DEF ExecutorStep, Start, Reuse, RequestApproval, Provision, TakeResult, SaveAsset,
         Verify, Finish, Throw, Made
    <2>2. \A y \in Caller : SteadyRun(run'[y], Held', Done', Made')
      BY <1>1, <1>3, <2>1, RunLocal, ProgressStep
    <2> QED
      BY <1>1, <1>3, <2>1, <2>2, ProgressStep DEF ProgressInv
  <1>4. ASSUME NEW p \in Plan, MakePlan(p)
        PROVE  ProgressInv'
    <2>1. PICK reuse \in [Requirement -> AssetId \cup {NoAsset}] :
            /\ \A r \in Requirement : Reusable(r) = {} => reuse[r] = NoAsset
            /\ plans' = plans \cup {[plan |-> p, reuse |-> reuse]}
            /\ saved' = [saved EXCEPT ![p] = StateAt(1, FirstAction(reuse, 1), NoAsset)]
      BY <1>4 DEF MakePlan
    <2>2. UNCHANGED run
      BY <1>4 DEF MakePlan
    <2>3. \A plan \in plans', r \in Requirement : plan.reuse[r] # NoAsset => r \in Done'
      <3>1. \A r \in Requirement : reuse[r] # NoAsset => r \in Done
        BY <2>1 DEF Done
      <3> QED
        BY <1>1, <2>1, <3>1 DEF ProgressInv
    <2>4. SteadyState(StateAt(1, FirstAction(reuse, 1), NoAsset), Held', Done')
      <3>1. FirstAction(reuse, 1) # "verify"
        BY DEF FirstAction
      <3> QED
        BY <3>1 DEF SteadyState, Steady, StateAt, Requirement
    <2>5. \A q \in Plan : SteadyState(saved'[q], Held', Done')
      BY <1>1, <2>1, <2>4 DEF Inv, ExecutorInv, ExecutorTypeOK
    <2> QED
      BY <1>1, <2>2, <2>3, <2>5 DEF ProgressInv
  <1>5. CASE Crash
    <2>1. SteadyRun(NoRun, Held', Done', Made')
      BY DEF SteadyRun, Steady, NoRun, Requirement
    <2>2. \A x \in Caller : run'[x] = NoRun
      BY <1>5 DEF Crash
    <2>3. UNCHANGED <<plans, saved>>
      BY <1>5 DEF Crash
    <2> QED
      BY <1>1, <2>1, <2>2, <2>3 DEF ProgressInv
  <1> QED
    BY <1>2, <1>3, <1>4, <1>5 DEF Next, ExecutorStep, Approve, vars, bootstrapVars

-----------------------------------------------------------------------------
(* The safety of executions, from the three together. *)

SafetyInv == SettlementInv /\ ApprovalInv /\ AssetInv /\ ProgressInv

\* Nothing was claimed, approved, saved or started.
LEMMA SafetyInit == Init => SafetyInv
  <1> SUFFICES ASSUME Init PROVE SafetyInv
    OBVIOUS
  <1>1. /\ \A k \in Key : result[k] = "none" /\ effects[k] = 0
        /\ \A c \in Caller : call[c].stage = "idle" /\ run[c] = NoRun
        /\ assets = {} /\ plans = {} /\ \A p \in Plan : saved[p] = NoState
    BY DEF Init, PlaneInit, NoCall, CallAt
  <1>2. SettlementInv
    BY <1>1 DEF SettlementInv, HeldRows, ResultsSettled, Linked, ReturnsSettled, Holds, NoRun
  <1>3. ApprovalInv
    BY <1>1 DEF ApprovalInv, ApprovedBeforeEffect, NoRun, NoState, StateAt
  <1>4. AssetInv
    BY <1>1 DEF AssetInv, AssetIsSettled, NoRun
  <1>5. ProgressInv
    BY <1>1 DEF ProgressInv, SteadyRun, SteadyState, Steady, NoRun, NoState, StateAt, Requirement
  <1> QED
    BY <1>2, <1>3, <1>4, <1>5 DEF SafetyInv

LEMMA SafetyInvariance == Spec => []SafetyInv
  <1>1. Inv /\ SafetyInv /\ [Next]_vars => SafetyInv'
    BY SettlementNext, ApprovalNext, AssetNext, ProgressNext DEF SafetyInv
  <1> QED
    BY <1>1, Invariance, SafetyInit, PTL DEF Spec

\* However executions overlap, pause, throw and crash, no provider acts for a
\* requirement behind a human boundary before that requirement was approved for
\* that very plan.
THEOREM ApprovalsFirst == Spec => []ApprovedBeforeEffect
  <1>1. SafetyInv => ApprovedBeforeEffect
    BY DEF SafetyInv, ApprovalInv
  <1> QED
    BY <1>1, SafetyInvariance, PTL

\* Every asset belongs to a request that the journal has settled as applied: a
\* worker that lost its key to the reconciler saves none.
THEOREM AssetsSettled == Spec => []AssetIsSettled
  <1>1. SafetyInv => AssetIsSettled
    BY DEF SafetyInv, AssetInv
  <1> QED
    BY <1>1, SafetyInvariance, PTL

\* A state that is returned as completed has an active asset behind every
\* requirement, whatever was paused, thrown away or recovered on the way there.
THEOREM CompletionProvisioned == Spec => []CompletedIsProvisioned
  <1>1. Inv /\ SafetyInv => CompletedIsProvisioned
    <2> SUFFICES ASSUME Inv, SafetyInv, NEW p \in Made, saved[p].at > Requirements,
                        NEW r \in Requirement
                 PROVE  Reusable(r) # {}
      BY DEF CompletedIsProvisioned
    <2>1. p \in Plan /\ saved[p].at \in Nat
      BY DEF Inv, ExecutorInv, ExecutorTypeOK, Made, State
    <2>2. r < saved[p].at
      BY <2>1 DEF Requirement
    <2>3. r \in Done
      BY <2>1, <2>2 DEF SafetyInv, ProgressInv, SteadyState, Steady
    <2> QED
      BY <2>3 DEF Done
  <1> QED
    BY <1>1, Invariance, SafetyInvariance, PTL

-----------------------------------------------------------------------------
(* One asset for a requirement, while executions do not overlap. *)

Filled == {a.requirement : a \in assets}

Unique == \A a, b \in assets : a.requirement = b.requirement => a = b

\* The snapshot of an execution is current for the requirements it still looks
\* at, and it asks the plane only for one without an asset.
Current(locals, filled) ==
    /\ \A r \in filled : r > locals.at => \E a \in locals.snapshot : a.requirement = r
    /\ locals.stage # "verify" /\ locals.at \in filled =>
          \E a \in locals.snapshot : a.requirement = locals.at
    /\ locals.stage \in {"plane", "save"} => locals.at \notin filled

DuplicateInv == ~overlap =>
    /\ Unique
    /\ \A x, y \in Caller : run[x].stage # "idle" /\ run[y].stage # "idle" => x = y
    /\ \A x \in Caller : run[x].stage # "idle" => Current(run[x], Filled)

\* An asset that is activated stays the only one.
LEMMA ActivatedUnique ==
    ASSUME Inv, Unique, NEW id, assets' = Activated(assets, id)
    PROVE  Unique' /\ Filled' = Filled
  <1> DEFINE image(a) == IF a.id = id THEN [a EXCEPT !.status = "active"] ELSE a
  <1>1. \A a \in assets : image(a).requirement = a.requirement
    BY DEF Inv, ExecutorInv, ExecutorTypeOK, Asset
  <1>2. assets' = {image(a) : a \in assets}
    BY DEF Activated
  <1> HIDE DEF image
  <1> QED
    BY <1>1, <1>2 DEF Unique, Filled

\* A step of the only execution keeps its snapshot current and the assets unique.
LEMMA DuplicateStep ==
    ASSUME Inv, NEW x \in Caller, run[x].stage # "idle", ExecutorStep(x),
           Unique, Current(run[x], Filled)
    PROVE  /\ Unique'
           /\ run'[x].stage # "idle" => Current(run'[x], Filled')
  <1>1. run \in [Caller -> Run] /\ run[x] \in Run
    BY DEF Inv, ExecutorInv, ExecutorTypeOK
  <1>2. End(x) => run'[x].stage = "idle"
    BY <1>1 DEF End, NoRun
  <1>3. UNCHANGED assets => Unique' /\ Filled' = Filled
    BY DEF Unique, Filled
  <1>4. ASSUME NEW stage, Continue(x, stage), run[x].at \notin Filled
        PROVE  Current(run'[x], Filled)
    <2>1. /\ run'[x].stage = stage /\ run'[x].at = run[x].at
          /\ run'[x].snapshot = run[x].snapshot
      BY <1>1, <1>4 DEF Continue, Run
    <2> QED
      BY <1>4, <2>1 DEF Current
  <1>5. ASSUME NEW asset, ContinueWith(x, "verify", asset), NEW filled,
               \A r \in filled : r \in Filled \/ r = run[x].at
        PROVE  Current(run'[x], filled)
    <2>1. /\ run'[x].stage = "verify" /\ run'[x].at = run[x].at
          /\ run'[x].snapshot = run[x].snapshot
      BY <1>1, <1>5 DEF ContinueWith, Run
    <2>2. run[x].at \in Int
      BY <1>1 DEF Run
    <2> QED
      BY <1>5, <2>1, <2>2 DEF Current
  <1>6. ASSUME NextRequirement(x), run[x].stage # "completed"
        PROVE  Current(run'[x], Filled)
    <2> DEFINE first == FirstAction(ReuseOf(run[x].plan), run[x].at + 1)
    <2>1. /\ run'[x].stage = first /\ run'[x].at = run[x].at + 1
          /\ run'[x].snapshot = run[x].snapshot \ Snapshot(x)
      BY <1>1, <1>6 DEF NextRequirement, Run
    <2>2. first \notin {"plane", "save"}
      BY DEF FirstAction
    <2>3. run[x].at \in Nat /\ Filled \subseteq Nat
      BY <1>1 DEF Run, Requirement, Filled, Inv, ExecutorInv, ExecutorTypeOK, Asset
    <2>4. \A r \in Filled : r > run[x].at =>
            \E a \in run'[x].snapshot : a.requirement = r
      BY <2>1, <2>3 DEF Current, Snapshot
    <2> HIDE DEF first
    <2>5. \A r \in Filled : r > run'[x].at => r > run[x].at
      BY <2>1, <2>3
    <2>6. run'[x].at > run[x].at
      BY <2>1, <2>3
    <2>7. run'[x].stage \notin {"plane", "save"}
      BY <2>1, <2>2
    <2> QED
      BY <2>4, <2>5, <2>6, <2>7 DEF Current
  <1>7. CASE Provision(x)
    <2>1. UNCHANGED assets /\ run[x].stage = "provision"
      BY <1>7 DEF Provision
    <2>2. CASE Snapshot(x) = {} /\ Continue(x, "plane")
      <3>1. run[x].at \notin Filled
        BY <2>1, <2>2 DEF Current, Snapshot
      <3> QED
        BY <1>3, <1>4, <2>1, <2>2, <3>1
    <2>3. CASE \E a \in Snapshot(x) : ContinueWith(x, "verify", a.id)
      BY <1>3, <1>5, <2>1, <2>3
    <2> QED
      BY <1>7, <2>2, <2>3 DEF Provision
  <1>8. CASE RequestApproval(x) /\ ~End(x)
    <2> DEFINE new == [run[x] EXCEPT !.stage = "provision",
                         !.approvals = {k \in run[x].approvals : k[2] # run[x].at}]
    <2>1. UNCHANGED assets /\ run' = [run EXCEPT ![x] = new] /\ run[x].stage = "approval"
      BY <1>8 DEF RequestApproval, ReturnAt
    <2>2. /\ new.stage = "provision" /\ new.at = run[x].at /\ new.snapshot = run[x].snapshot
      BY <1>1 DEF Run
    <2> HIDE DEF new
    <2>3. Current(new, Filled)
      BY <2>1, <2>2 DEF Current
    <2> QED
      BY <1>1, <1>3, <2>1, <2>3
  <1>9. CASE TakeResult(x) /\ ~End(x)
    <2>1. Continue(x, "save") /\ run[x].stage = "plane" /\ UNCHANGED assets
      BY <1>9 DEF TakeResult, ReturnAt
    <2>2. run[x].at \notin Filled
      BY <2>1 DEF Current
    <2> QED
      BY <1>3, <1>4, <2>1, <2>2
  <1>10. CASE SaveAsset(x)
    <2>1. PICK id, new : /\ new.requirement = run[x].at
                         /\ assets' = assets \cup {new}
                         /\ ContinueWith(x, "verify", id)
      <3> DEFINE new == [id |-> Cardinality(assets) + 1, requirement |-> run[x].at,
                         status |-> "planned"]
      <3>1. new.requirement = run[x].at /\ assets' = assets \cup {new}
            /\ ContinueWith(x, "verify", Cardinality(assets) + 1)
        BY <1>10 DEF SaveAsset
      <3> HIDE DEF new
      <3> QED
        BY <3>1
    <2>2. run[x].at \notin Filled
      BY <1>10 DEF SaveAsset, Current
    <2>3. Unique'
      BY <2>1, <2>2 DEF Unique, Filled
    <2>4. \A r \in Filled' : r \in Filled \/ r = run[x].at
      BY <2>1 DEF Filled
    <2> QED
      BY <1>5, <2>1, <2>3, <2>4
  <1>11. CASE Verify(x) /\ ~End(x)
    <2>1. /\ assets' = Activated(assets, run[x].asset) /\ NextRequirement(x)
          /\ run[x].stage = "verify"
      BY <1>11 DEF Verify, ReturnAt
    <2> QED
      BY <1>6, <2>1, ActivatedUnique
  <1>12. CASE Reuse(x)
    BY <1>3, <1>6, <1>12 DEF Reuse
  <1>13. CASE End(x) /\ ~SaveAsset(x)
    <2>1. UNCHANGED assets \/ assets' = Activated(assets, run[x].asset)
      BY <1>13 DEF ExecutorStep, Reuse, RequestApproval, Provision, TakeResult, Verify, Finish, Throw
    <2> QED
      BY <1>2, <1>3, <1>13, <2>1, ActivatedUnique
  <1> QED
    BY <1>7, <1>8, <1>9, <1>10, <1>11, <1>12, <1>13 DEF ExecutorStep, Finish, Throw, ReturnAt

\* Whatever step is taken before two executions overlap.
LEMMA DuplicateNext ==
    ASSUME Inv, DuplicateInv, [Next]_vars
    PROVE  DuplicateInv'
  <1> SUFFICES ASSUME ~overlap'
               PROVE  /\ Unique'
                      /\ \A x, y \in Caller : run'[x].stage # "idle" /\ run'[y].stage # "idle" => x = y
                      /\ \A x \in Caller : run'[x].stage # "idle" => Current(run'[x], Filled')
    BY DEF DuplicateInv
  <1>1. CASE \E x \in Caller, p \in Plan : Start(x, p)
    <2>1. PICK x \in Caller, p \in Plan : Start(x, p)
      BY <1>1
    <2>2. /\ ~overlap /\ \A y \in Caller : run[y].stage = "idle"
          /\ UNCHANGED assets
      BY <2>1 DEF Start
    <2>3. Unique' /\ Filled' = Filled
      BY <2>2 DEF DuplicateInv, Unique, Filled
    <2>4. /\ run'[x].stage = saved[p].action /\ run'[x].snapshot = assets
          /\ \A y \in Caller : y # x => run'[y] = run[y]
      BY <2>1 DEF Start, Inv, ExecutorInv, ExecutorTypeOK
    <2>5. saved[p].action \notin {"plane", "save"}
      BY DEF Inv, ExecutorInv, ExecutorTypeOK, State, Action
    <2>6. Current(run'[x], Filled')
      BY <2>3, <2>4, <2>5 DEF Current, Filled
    <2> QED
      BY <2>2, <2>3, <2>4, <2>6
  <1>2. CASE \E x \in Caller : ExecutorStep(x)
    <2>1. PICK x \in Caller : ExecutorStep(x)
      BY <1>2
    <2>2. UNCHANGED overlap /\ run[x].stage # "idle"
      BY <2>1 DEF ExecutorStep, Reuse, RequestApproval, Provision, TakeResult, SaveAsset, Verify,
         Finish, Throw
    <2>3. /\ Unique /\ Current(run[x], Filled)
          /\ \A y \in Caller : y # x => run[y].stage = "idle"
      BY <2>2 DEF DuplicateInv
    <2>4. /\ Unique'
          /\ run'[x].stage # "idle" => Current(run'[x], Filled')
      BY <2>1, <2>2, <2>3, DuplicateStep
    <2>5. \A y \in Caller : y # x => run'[y].stage = "idle"
      BY <2>1, <2>3, RunLocal
    <2> QED
      BY <2>4, <2>5
  <1>3. CASE Crash
    BY <1>3 DEF Crash, NoRun, DuplicateInv, Unique
  <1>4. CASE UNCHANGED <<assets, run, overlap>>
    <2>1. Filled' = Filled
      BY <1>4 DEF Filled
    <2> QED
      BY <1>4, <2>1 DEF DuplicateInv, Unique
  <1> QED
    BY <1>1, <1>2, <1>3, <1>4 DEF Next, ExecutorStep, MakePlan, Approve, vars, bootstrapVars

\* Executions one after the other, of whatever plans, with exceptions and crashes
\* in between, leave at most one asset for a requirement: each recovers the asset
\* an earlier one left behind instead of asking for another.
THEOREM NoDuplicates == Spec => []NoLogicalDuplicate
  <1>1. Init => DuplicateInv
    BY DEF Init, DuplicateInv, Unique, NoRun
  <1>2. Inv /\ DuplicateInv /\ [Next]_vars => DuplicateInv'
    BY DuplicateNext
  <1>3. DuplicateInv => NoLogicalDuplicate
    BY DEF DuplicateInv, Unique, NoLogicalDuplicate
  <1> QED
    BY <1>1, <1>2, <1>3, Invariance, PTL DEF Spec

=============================================================================
