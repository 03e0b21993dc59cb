---------------------------- MODULE CapabilityPlane ----------------------------
(***************************************************************************)
(* CapabilityPlane.execute with the budget reservation of                  *)
(* executeCapabilityRequest inside it, called concurrently by one runtime  *)
(* whose calls share a budget envelope.  A call claims the journal key of  *)
(* its request, tries the ranked providers while they fail without effect, *)
(* and settles the key with what happened; a repeated call replays what    *)
(* the key holds.                                                          *)
(*                                                                         *)
(* Grants, routing and the static limits of an envelope are refusals that  *)
(* may happen to any attempt.  A key stands for one request: the           *)
(* comparison of request fingerprints never fails.                         *)
(***************************************************************************)
EXTENDS IdempotencyJournal, FiniteSets

CONSTANTS
    Caller,      \* concurrent calls
    Key,         \* journal keys
    NoKey,       \* the key of a call that has not begun
    Attempts,    \* providers a request may try: maxAttempts, or 1 without allowFallback
    Amount,      \* request.amount of every request
    PeriodCap,   \* periodCap of the envelope
    MaxFaults    \* bound of the model: exceptions and crashes

ASSUME PlaneAssumption ==
    /\ NoKey \notin Key
    /\ IsFiniteSet(Caller)
    /\ Attempts \in Nat \ {0}
    /\ Amount \in Nat
    /\ PeriodCap \in Nat
    /\ MaxFaults \in Nat
    /\ JournalOwner = {"worker", "worker:reconciler"}

VARIABLES
    journal,   \* journal row of every key
    result,    \* the result column of every row
    spent,     \* spent of the budget envelope, an object of the runtime
    call,      \* the locals of every call
    faults,    \* faults so far
    effects,   \* history: how often providers acted for a key
    acted,     \* history: what providers spent since the runtime started
    refunded   \* history: of that, what an uncertain answer gave back

planeVars == <<journal, result, spent, call, faults, effects, acted, refunded>>

\* What an attempt ends with: success with and without effect, failure that
\* provably had no effect, anything else.
Outcome == {"none", "ok", "free", "safe", "unknown"}

Stage == {"idle", "reconcile", "attempt", "provider", "effect", "fail", "settle",
          "returned", "thrown"}

CallRecord == [stage: Stage, key: Key \cup {NoKey}, token: Nat,
               attempt: 0..Attempts, outcome: Outcome]

CallAt(stage, key, token, attempt, outcome) ==
    [stage |-> stage, key |-> key, token |-> token, attempt |-> attempt, outcome |-> outcome]

NoCall == CallAt("idle", NoKey, 0, 0, "none")

PlaneTypeOK ==
    /\ journal \in [Key -> JournalRow]
    /\ result \in [Key -> Outcome]
    /\ spent \in 0..PeriodCap
    /\ call \in [Caller -> CallRecord]
    /\ faults \in 0..MaxFaults
    /\ effects \in [Key -> Nat]
    /\ acted \in Nat
    /\ refunded \in Nat

PlaneInit ==
    /\ journal = [k \in Key |-> NoRow]
    /\ result = [k \in Key |-> "none"]
    /\ spent = 0
    /\ call = [c \in Caller |-> NoCall]
    /\ faults = 0
    /\ effects = [k \in Key |-> 0]
    /\ acted = 0
    /\ refunded = 0

Become(c, new) == call' = [call EXCEPT ![c] = new]

Goto(c, stage) == call' = [call EXCEPT ![c].stage = stage]

-----------------------------------------------------------------------------
(* Claim and replay. *)

\* The claim created the row.
Fresh(k) == journal[k].state = "none"

\* A duplicate returns the cached result.
Cached(k) ==
    /\ journal[k].state \in {"applied", "failed", "reconciled"}
    /\ result[k] # "none"

\* claimIdempotency.  A duplicate without an active grant, with a key that
\* requires reconciliation, or that failed before any result, throws.
Execute(c, k) ==
    /\ call[c].stage = "idle"
    /\ journal' = [journal EXCEPT ![k] = ClaimedRow(@, "worker")]
    /\ \/ Fresh(k) /\ Become(c, CallAt("attempt", k, journal'[k].token, 1, "none"))
       \/ ~Fresh(k) /\ Cached(k) /\ Become(c, CallAt("returned", k, 0, 0, result[k]))
       \/ journal[k].state = "intent" /\ Become(c, CallAt("reconcile", k, 0, 0, "none"))
       \/ ~Fresh(k) /\ Become(c, CallAt("thrown", k, 0, 0, "none"))
    /\ UNCHANGED <<result, spent, faults, effects, acted, refunded>>

\* claimStaleIdempotencyForReconciliation: the key escalates, or the intent is
\* young and the call CONTENDED.  It throws in both cases.
Reconcile(c) ==
    /\ call[c].stage = "reconcile"
    /\ LET k == call[c].key
       IN  \/ /\ journal[k].state = "intent"
              /\ journal' = [journal EXCEPT ![k] = StaleRow(@, "worker:reconciler")]
              /\ result' = [result EXCEPT ![k] = "none"]
           \/ UNCHANGED <<journal, result>>
    /\ Goto(c, "thrown")
    /\ UNCHANGED <<spent, faults, effects, acted, refunded>>

-----------------------------------------------------------------------------
(* The provider attempts. *)

\* No eligible provider, no active grant or no budget: failBeforeEffect.
Refuse(c) ==
    /\ call[c].stage = "attempt"
    /\ Goto(c, "fail")
    /\ UNCHANGED <<journal, result, spent, faults, effects, acted, refunded>>

\* The next provider, or the end of the candidates.
NextAttempt(c) ==
    IF call[c].attempt < Attempts
    THEN Become(c, [call[c] EXCEPT !.stage = "attempt", !.attempt = @ + 1])
    ELSE Become(c, [call[c] EXCEPT !.stage = "settle", !.outcome = "safe"])

\* The provider has no adapter, or the adapter no credential contract.
Unavailable(c) ==
    /\ call[c].stage = "attempt"
    /\ NextAttempt(c)
    /\ UNCHANGED <<journal, result, spent, faults, effects, acted, refunded>>

\* Mutant: the envelope is asked but nothing is reserved before the effect.
AttemptUnreserved(c) ==
    /\ call[c].stage = "attempt"
    /\ spent + Amount <= PeriodCap
    /\ Goto(c, "provider")
    /\ UNCHANGED <<journal, result, spent, faults, effects, acted, refunded>>

\* executeCapabilityRequest authorizes, reserves and calls the adapter.
Attempt(c) ==
    /\ call[c].stage = "attempt"
    /\ spent + Amount <= PeriodCap
    /\ spent' = spent + Amount
    /\ Goto(c, "provider")
    /\ UNCHANGED <<journal, result, faults, effects, acted, refunded>>

\* The provider acts.
Effect(c) ==
    /\ call[c].stage = "provider"
    /\ effects' = [effects EXCEPT ![call[c].key] = @ + 1]
    /\ acted' = acted + Amount
    /\ Goto(c, "effect")
    /\ UNCHANGED <<journal, result, spent, faults, refunded>>

\* Mutant: an uncertain effect falls back to the next provider.
EndsAttemptUncertain(outcome) == outcome \in {"ok", "free"}

\* Any outcome but a failure that provably had no effect ends the attempts.
EndsAttempt(outcome) == outcome # "safe"

\* The adapter answers, or its wrapper turns an exception into a result.  Every
\* outcome but a confirmed effect gives the reservation back, that of an effect
\* nobody confirmed too.
Answer(c) ==
    /\ \E outcome \in Outcome :
         /\ \/ call[c].stage = "provider" /\ outcome \in {"free", "safe", "unknown"}
            \/ call[c].stage = "effect" /\ outcome \in {"ok", "unknown"}
         /\ spent' = IF outcome = "ok" THEN spent ELSE spent - Amount
         /\ refunded' = IF call[c].stage = "effect" /\ outcome = "unknown"
                        THEN refunded + Amount ELSE refunded
         /\ IF EndsAttempt(outcome)
            THEN Become(c, [call[c] EXCEPT !.stage = "settle", !.outcome = outcome])
            ELSE NextAttempt(c)
    /\ UNCHANGED <<journal, result, faults, effects, acted>>

-----------------------------------------------------------------------------
(* Settlement. *)

SettledAs == [ok |-> "applied", free |-> "applied", unknown |-> "unknown", safe |-> "failed"]

\* The WHERE clause of markIdempotency.
MaySettle(c) == Owns(journal[call[c].key], "worker", call[c].token)

\* Mutant: the answer of markIdempotency is not looked at.
SettleUnchecked(c) ==
    /\ call[c].stage = "settle"
    /\ Goto(c, "returned")
    /\ UNCHANGED <<journal, result, spent, faults, effects, acted, refunded>>

\* markIdempotency with the result; if the token was lost the call throws.
Settle(c) ==
    /\ call[c].stage = "settle"
    /\ LET k == call[c].key
       IN  \/ /\ MaySettle(c)
              /\ journal' = [journal EXCEPT ![k].state = SettledAs[call[c].outcome]]
              /\ result' = [result EXCEPT ![k] = call[c].outcome]
              /\ Goto(c, "returned")
           \/ /\ ~MaySettle(c)
              /\ Goto(c, "thrown")
              /\ UNCHANGED <<journal, result>>
    /\ UNCHANGED <<spent, faults, effects, acted, refunded>>

\* failBeforeEffect marks the key failed, without a result, and throws.
FailBeforeEffect(c) ==
    /\ call[c].stage = "fail"
    /\ LET k == call[c].key
       IN  IF MaySettle(c)
           THEN /\ journal' = [journal EXCEPT ![k].state = "failed"]
                /\ result' = [result EXCEPT ![k] = "none"]
           ELSE UNCHANGED <<journal, result>>
    /\ Goto(c, "thrown")
    /\ UNCHANGED <<spent, faults, effects, acted, refunded>>

\* A reconciler that observes the effect of an unknown key settles it; the
\* envelope stays as it is.
Reconciled(k) ==
    /\ journal[k].state = "unknown"
    /\ effects[k] > 0
    /\ journal' = [journal EXCEPT ![k].state = "reconciled"]
    /\ result' = [result EXCEPT ![k] = "ok"]
    /\ UNCHANGED <<spent, call, faults, effects, acted, refunded>>

-----------------------------------------------------------------------------
(* Faults. *)

\* A store call throws, before or after it took effect.
PlaneThrow(c) ==
    /\ \/ call[c].stage \in {"reconcile", "fail", "settle", "returned"}
       \/ call[c].stage = "attempt" /\ call[c].attempt = 1
    /\ faults < MaxFaults
    /\ faults' = faults + 1
    /\ Goto(c, "thrown")
    /\ UNCHANGED <<journal, result, spent, effects, acted, refunded>>

\* The runtime dies and a new one starts with a new envelope.
PlaneCrash ==
    /\ faults < MaxFaults
    /\ faults' = faults + 1
    /\ call' = [c \in Caller |-> NoCall]
    /\ spent' = 0
    /\ acted' = 0
    /\ refunded' = 0
    /\ UNCHANGED <<journal, result, effects>>

-----------------------------------------------------------------------------

\* The caller takes the result or the exception.
Return(c) ==
    /\ call[c].stage \in {"returned", "thrown"}
    /\ Become(c, NoCall)
    /\ UNCHANGED <<journal, result, spent, faults, effects, acted, refunded>>

\* What the plane does between Execute and Return.
PlaneNext ==
    \/ \E c \in Caller :
         \/ Reconcile(c)
         \/ Refuse(c)
         \/ Unavailable(c)
         \/ Attempt(c)
         \/ Effect(c)
         \/ Answer(c)
         \/ Settle(c)
         \/ FailBeforeEffect(c)
         \/ PlaneThrow(c)
    \/ \E k \in Key : Reconciled(k)

-----------------------------------------------------------------------------
(* Correctness. *)

\* However often a request is repeated, whatever dies or throws and whichever
\* provider is fallen back to, providers act for it at most once.
EffectOncePerKey == \A k \in Key : effects[k] <= 1

Asked == {c \in Caller : call[c].stage = "provider"}

\* What providers spent, confirmed or not, and what they are about to spend exceeds
\* the envelope by no more than what uncertain answers gave back: an effect nobody
\* confirmed is refunded, and reconciling it later charges nothing.
WithinBudget == acted + Amount * Cardinality(Asked) <= PeriodCap + refunded

==============================================================================
