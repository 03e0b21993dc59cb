---------------------------- MODULE CreativeMission ----------------------------
(***************************************************************************)
(* One creative mission: submitCreativeMission, called by the creative     *)
(* submit operation as often as a client likes, and                        *)
(* processCreativeMissionJob, called by any number of workers.  They share *)
(* the submission key and the mission key of the idempotency journal, the  *)
(* scheduler job and the candidate assets; every store call is one step.   *)
(*                                                                         *)
(* Workers all present the same jobOwner, so only tokens tell them apart.  *)
(* A job's lease is never renewed and may run out at any time, and an      *)
(* intent may be found too old at any time: both are wall-clock waits.     *)
(* What a concept worker, a renderer or an evaluator produces is left out; *)
(* whether each succeeds is not.                                           *)
(***************************************************************************)
EXTENDS IdempotencyJournal, FiniteSets

CONSTANTS
    Submitter,   \* concurrent calls of submitCreativeMission
    Worker,      \* concurrent calls of processCreativeMissionJob
    Mission,     \* contents a client may submit under the one mission id
    Escalated,   \* those with executiveEscalationRequired
    Candidate,   \* concept candidates of the mission
    Required,    \* requiredSuccessfulCandidates
    Nothing,     \* no mission
    MaxFaults    \* bound of the model: crashes, exceptions and lost replies

ASSUME CreativeAssumption ==
    /\ Escalated \subseteq Mission
    /\ Nothing \notin Mission
    /\ IsFiniteSet(Candidate)
    /\ Required \in 1..Cardinality(Candidate)
    /\ JournalOwner = {"submit", "submit:reconciler", "worker", "worker:reconciler"}
    /\ MaxFaults \in Nat

VARIABLES
    submission,  \* journal row of creative:submit:<id> and the mission of its intent
    job,         \* the scheduler job
    journal,     \* journal row of creative:mission:<id>
    assets,      \* candidate assets
    event,       \* creative.mission.decided was appended
    spc,         \* where each submitter is
    call,        \* the mission and the token a submitter works with
    wpc,         \* where each worker is
    run,         \* the locals of each worker
    faults,      \* faults so far
    decided      \* history: job tokens whose result was marked applied

stored == <<submission, job, journal, assets, event>>
vars == <<stored, spc, call, wpc, run, faults, decided>>

MaxAttempts == 3

-----------------------------------------------------------------------------
(* Data. *)

NoJob == [state |-> "none", token |-> 0, live |-> FALSE, attempts |-> 0,
          mission |-> Nothing]

Job == [state: {"none", "pending", "running", "failed", "completed"}, token: 0..MaxAttempts,
        live: BOOLEAN, attempts: 0..MaxAttempts, mission: Mission \cup {Nothing}]

\* An asset has a random id: here, the run that rendered it and its candidate.
Asset == [run: 1..MaxAttempts, candidate: Candidate, visibility: {"internal", "selected"}]

NoCall == [mission |-> Nothing, owner |-> "submit", token |-> 0]

NoRun == [token |-> 0, todo |-> {}, done |-> {}]

TypeOK ==
    /\ submission \in [row: JournalRow, mission: Mission \cup {Nothing}]
    /\ job \in Job
    /\ journal \in JournalRow
    /\ assets \subseteq Asset
    /\ event \in BOOLEAN
    /\ spc \in [Submitter -> {"idle", "reconcile", "get", "enqueue", "mark", "catch"}]
    /\ call \in [Submitter ->
                   [mission: Mission \cup {Nothing}, owner: JournalOwner, token: Nat]]
    /\ wpc \in [Worker -> {"idle", "claim", "replay", "reconcile", "refuse", "render",
                           "decide", "mark", "event", "settle", "catch"}]
    /\ run \in [Worker -> [token: 0..MaxAttempts, todo: SUBSET Candidate,
                           done: SUBSET Candidate]]
    /\ faults \in 0..MaxFaults
    /\ decided \subseteq 1..MaxAttempts

Init ==
    /\ submission = [row |-> NoRow, mission |-> Nothing]
    /\ job = NoJob
    /\ journal = NoRow
    /\ assets = {}
    /\ event = FALSE
    /\ spc = [s \in Submitter |-> "idle"]
    /\ call = [s \in Submitter |-> NoCall]
    /\ wpc = [w \in Worker |-> "idle"]
    /\ run = [w \in Worker |-> NoRun]
    /\ faults = 0
    /\ decided = {}

SubmitterGoto(s, stage) == spc' = [spc EXCEPT ![s] = stage]

WorkerGoto(w, stage) == wpc' = [wpc EXCEPT ![w] = stage]

SubmitterUnchanged == UNCHANGED <<submission, spc, call>>

WorkerUnchanged == UNCHANGED <<journal, assets, event, wpc, run, decided>>

-----------------------------------------------------------------------------
(* submitCreativeMission. *)

\* Mutant: the fingerprint of the earlier submission is not compared.
AnyFingerprint(m) == m \in Mission

\* creativeMissionFingerprint of a duplicate equals that of the intent.
SameFingerprint(m) == submission.mission = m

\* claimIdempotency: the first claimant goes on and a duplicate of the same
\* mission asks to reconcile an intent; any other call returns or throws here
\* and changes nothing.
ClaimSubmission(s) ==
    /\ spc[s] = "idle"
    /\ \E m \in Mission :
         /\ \/ /\ submission.row.state = "none"
               /\ submission' = [row |-> ClaimedRow(submission.row, "submit"), mission |-> m]
               /\ SubmitterGoto(s, "get")
            \/ /\ submission.row.state = "intent"
               /\ SameFingerprint(m)
               /\ SubmitterGoto(s, "reconcile")
               /\ UNCHANGED submission
         /\ call' = [call EXCEPT ![s] = [mission |-> m, owner |-> "submit", token |-> 1]]
    /\ UNCHANGED <<job, faults>> /\ WorkerUnchanged

\* claimStaleIdempotencyForReconciliation: refused, the call is CONTENDED.
ReconcileSubmission(s) ==
    /\ spc[s] = "reconcile"
    /\ \/ /\ submission.row.state = "intent"
          /\ submission' = [submission EXCEPT !.row = StaleRow(@, "submit:reconciler")]
          /\ call' = [call EXCEPT ![s].owner = "submit:reconciler",
                                  ![s].token = submission'.row.token]
          /\ SubmitterGoto(s, "get")
       \/ /\ SubmitterGoto(s, "idle")
          /\ UNCHANGED <<submission, call>>
    /\ UNCHANGED <<job, faults>> /\ WorkerUnchanged

\* getJob: a job of another mission is an identity conflict.
GetJob(s) ==
    /\ spc[s] = "get"
    /\ SubmitterGoto(s, IF job.state = "none" THEN "enqueue"
                        ELSE IF job.mission = call[s].mission THEN "mark" ELSE "catch")
    /\ UNCHANGED <<stored, call, wpc, run, faults, decided>>

\* Mutant: ON CONFLICT DO UPDATE.
UpsertJob(m) == job' = [NoJob EXCEPT !.state = "pending", !.mission = m]

\* enqueueJob: ON CONFLICT DO NOTHING.
EnqueueJob(m) ==
    job' = IF job.state = "none"
           THEN [NoJob EXCEPT !.state = "pending", !.mission = m]
           ELSE job

Enqueue(s) ==
    /\ spc[s] = "enqueue"
    /\ EnqueueJob(call[s].mission)
    /\ SubmitterGoto(s, "mark")
    /\ UNCHANGED <<submission, call, faults>> /\ WorkerUnchanged

MarkSubmission(s, state) ==
    submission' = [submission EXCEPT
                     !.row = MarkedRow(@, call[s].owner, call[s].token, state)]

SettleSubmission(s) ==
    /\ spc[s] = "mark"
    /\ MarkSubmission(s, "applied")
    /\ SubmitterGoto(s, IF Owns(submission.row, call[s].owner, call[s].token)
                        THEN "idle" ELSE "catch")
    /\ UNCHANGED <<job, call, faults>> /\ WorkerUnchanged

CatchSubmission(s) ==
    /\ spc[s] = "catch"
    /\ MarkSubmission(s, "failed")
    /\ SubmitterGoto(s, "idle")
    /\ UNCHANGED <<job, call, faults>> /\ WorkerUnchanged

-----------------------------------------------------------------------------
(* processCreativeMissionJob. *)

\* The WHERE clause of claimJob.
Claimable ==
    /\ job.attempts < MaxAttempts
    /\ \/ job.state \in {"pending", "failed"}
       \/ job.state = "running" /\ ~job.live

\* The availability gate passed and claimJob granted the job.
ClaimJob(w) ==
    /\ wpc[w] = "idle"
    /\ Claimable
    /\ job' = [job EXCEPT !.state = "running", !.live = TRUE, !.token = @ + 1,
                          !.attempts = @ + 1]
    /\ run' = [run EXCEPT ![w] = [NoRun EXCEPT !.token = job'.token]]
    /\ WorkerGoto(w, "claim")
    /\ UNCHANGED <<journal, assets, event, decided, faults>> /\ SubmitterUnchanged

\* Mutant: a mission that ended unknown is run again.
StageAfterRerun(state) ==
    CASE state = "none" -> "render"
      [] state = "applied" -> "replay"
      [] state = "intent" -> "reconcile"
      [] OTHER -> "render"

\* What the record found by claimIdempotency lets the worker do.
StageAfter(state) ==
    CASE state = "none" -> "render"
      [] state = "applied" -> "replay"
      [] state = "intent" -> "reconcile"
      [] OTHER -> "refuse"

ClaimMission(w) ==
    /\ wpc[w] = "claim"
    /\ journal' = ClaimedRow(journal, "worker")
    /\ WorkerGoto(w, StageAfter(journal.state))
    /\ run' = [run EXCEPT ![w].todo = Candidate]
    /\ UNCHANGED <<job, assets, event, decided, faults>> /\ SubmitterUnchanged

\* Mutant: the settlement is matched by worker identifier alone.
MaySettleUnfenced(w) == job.state = "running"

\* The WHERE clause of settleJob.
MaySettle(w) == job.state = "running" /\ job.token = run[w].token

SettleJob(w, state) ==
    job' = IF MaySettle(w) THEN [job EXCEPT !.state = state, !.live = FALSE] ELSE job

\* The cached result settles the job; refused, the call throws.
Replay(w) ==
    /\ wpc[w] = "replay"
    /\ SettleJob(w, "completed")
    /\ WorkerGoto(w, "idle")
    /\ UNCHANGED <<journal, assets, event, run, decided, faults>> /\ SubmitterUnchanged

\* An intent too old becomes unknown; either way the job is then failed.
ReconcileMission(w) ==
    /\ wpc[w] = "reconcile"
    /\ \/ journal' = StaleRow(journal, "worker:reconciler")
       \/ UNCHANGED journal
    /\ WorkerGoto(w, "refuse")
    /\ UNCHANGED <<job, assets, event, run, decided, faults>> /\ SubmitterUnchanged

\* settleJob "failed" before the call throws; also the end of the catch block.
Refuse(w) ==
    /\ wpc[w] = "refuse"
    /\ SettleJob(w, "failed")
    /\ WorkerGoto(w, "idle")
    /\ UNCHANGED <<journal, assets, event, run, decided, faults>> /\ SubmitterUnchanged

\* One candidate of the bounded render pool: rendered and saved as an internal
\* asset, or failed without harm to the others.
Render(w) ==
    /\ wpc[w] = "render"
    /\ \E c \in run[w].todo :
         /\ \/ /\ assets' = assets \cup
                    {[run |-> run[w].token, candidate |-> c, visibility |-> "internal"]}
               /\ run' = [run EXCEPT ![w].todo = @ \ {c}, ![w].done = @ \cup {c}]
            \/ /\ run' = [run EXCEPT ![w].todo = @ \ {c}]
               /\ UNCHANGED assets
         /\ WorkerGoto(w, IF run[w].todo = {c} THEN "decide" ELSE "render")
    /\ UNCHANGED <<job, journal, event, decided, faults>> /\ SubmitterUnchanged

\* Mutant: an escalated mission is adjudicated like any other.
NeedsOnlyEnough(w) == Cardinality(run[w].done) < Required

\* The decision is the executive's and no asset is selected (the caller passes
\* the mission of the job it claims).
Escalates(w) ==
    \/ Cardinality(run[w].done) < Required
    \/ job.mission \in Escalated

\* Adjudication: the winner's asset becomes visible, and only then is the
\* rationale refused if it quotes a candidate's prompt.
Decide(w) ==
    /\ wpc[w] = "decide"
    /\ \/ /\ Escalates(w)
          /\ WorkerGoto(w, "mark")
          /\ UNCHANGED assets
       \/ /\ ~Escalates(w)
          /\ \E c \in run[w].done :
               LET own == [run |-> run[w].token, candidate |-> c, visibility |-> "internal"]
               IN  assets' = (assets \ {own}) \cup {[own EXCEPT !.visibility = "selected"]}
          /\ WorkerGoto(w, "mark") \/ WorkerGoto(w, "catch")
    /\ UNCHANGED <<job, journal, event, run, decided, faults>> /\ SubmitterUnchanged

MarkMission(w) ==
    /\ wpc[w] = "mark"
    /\ journal' = MarkedRow(journal, "worker", 1, "applied")
    /\ IF Owns(journal, "worker", 1)
       THEN WorkerGoto(w, "event") /\ decided' = decided \cup {run[w].token}
       ELSE WorkerGoto(w, "catch") /\ UNCHANGED decided
    /\ UNCHANGED <<job, assets, event, run, faults>> /\ SubmitterUnchanged

\* appendEvent; a second event of this mission has the same key and is ignored.
AppendEvent(w) ==
    /\ wpc[w] = "event"
    /\ event' = TRUE
    /\ WorkerGoto(w, "settle")
    /\ UNCHANGED <<job, journal, assets, run, decided, faults>> /\ SubmitterUnchanged

Settle(w) ==
    /\ wpc[w] = "settle"
    /\ SettleJob(w, "completed")
    /\ WorkerGoto(w, IF MaySettle(w) THEN "idle" ELSE "catch")
    /\ UNCHANGED <<journal, assets, event, run, decided, faults>> /\ SubmitterUnchanged

\* The catch block marks the mission unknown, then fails the job (Refuse).
Catch(w) ==
    /\ wpc[w] = "catch"
    /\ journal' = MarkedRow(journal, "worker", 1, "unknown")
    /\ WorkerGoto(w, "refuse")
    /\ UNCHANGED <<job, assets, event, run, decided, faults>> /\ SubmitterUnchanged

-----------------------------------------------------------------------------
(* Time and faults. *)

ExpireJobLease ==
    /\ job.live
    /\ job' = [job EXCEPT !.live = FALSE]
    /\ UNCHANGED faults /\ SubmitterUnchanged /\ WorkerUnchanged

Fault == faults < MaxFaults /\ faults' = faults + 1

\* A submitter's call throws: inside its try the catch block follows.
SubmitterThrow(s) ==
    /\ spc[s] # "idle"
    /\ Fault
    /\ SubmitterGoto(s, IF spc[s] \in {"get", "enqueue", "mark"} THEN "catch" ELSE "idle")
    /\ UNCHANGED <<stored, call, wpc, run, decided>>

\* A worker's call throws: inside its try the catch block follows.
WorkerThrow(w) ==
    /\ wpc[w] # "idle"
    /\ Fault
    /\ WorkerGoto(w, IF wpc[w] \in {"render", "decide", "mark", "event", "settle"}
                     THEN "catch" ELSE "idle")
    /\ UNCHANGED <<stored, run, spc, call, decided>>

\* A transaction commits and its reply is lost.
SubmitterLosesReply(s) ==
    /\ Fault
    /\ \/ /\ spc[s] = "enqueue"
          /\ EnqueueJob(call[s].mission)
          /\ UNCHANGED submission
       \/ /\ spc[s] = "mark"
          /\ MarkSubmission(s, "applied")
          /\ UNCHANGED job
    /\ SubmitterGoto(s, "catch")
    /\ UNCHANGED call /\ WorkerUnchanged

WorkerLosesReply(w) ==
    /\ Fault
    /\ \/ /\ wpc[w] = "mark"
          /\ journal' = MarkedRow(journal, "worker", 1, "applied")
          /\ decided' = IF Owns(journal, "worker", 1)
                        THEN decided \cup {run[w].token} ELSE decided
          /\ UNCHANGED <<job, event>>
       \/ /\ wpc[w] = "event"
          /\ event' = TRUE
          /\ UNCHANGED <<job, journal, decided>>
       \/ /\ wpc[w] = "settle"
          /\ SettleJob(w, "completed")
          /\ UNCHANGED <<journal, event, decided>>
    /\ WorkerGoto(w, "catch")
    /\ UNCHANGED <<assets, run>> /\ SubmitterUnchanged

\* The process of a submitter or a worker dies.
Crash ==
    /\ Fault
    /\ \/ /\ \E s \in Submitter : spc[s] # "idle" /\ SubmitterGoto(s, "idle")
          /\ UNCHANGED wpc
       \/ /\ \E w \in Worker : wpc[w] # "idle" /\ WorkerGoto(w, "idle")
          /\ UNCHANGED spc
    /\ UNCHANGED <<stored, call, run, decided>>

SubmitterStep(s) ==
    \/ ClaimSubmission(s) \/ ReconcileSubmission(s) \/ GetJob(s) \/ Enqueue(s)
    \/ SettleSubmission(s) \/ CatchSubmission(s)

WorkerStep(w) ==
    \/ ClaimJob(w) \/ ClaimMission(w) \/ Replay(w) \/ ReconcileMission(w) \/ Refuse(w)
    \/ Render(w) \/ Decide(w) \/ MarkMission(w) \/ AppendEvent(w) \/ Settle(w) \/ Catch(w)

Next ==
    \/ \E s \in Submitter : SubmitterStep(s) \/ SubmitterThrow(s) \/ SubmitterLosesReply(s)
    \/ \E w \in Worker : WorkerStep(w) \/ WorkerThrow(w) \/ WorkerLosesReply(w)
    \/ ExpireJobLease
    \/ Crash

Spec == Init /\ [][Next]_vars

-----------------------------------------------------------------------------
(* Correctness. *)

\* However often the job is claimed, failed and claimed again, one run renders:
\* a replay or a reconciliation never generates a second set of candidates
\* (creative-gym: "settles once and replay does not rerender").
RendersOnce == \A a, b \in assets : a.run = b.run

\* A job is completed only for a mission whose result was journaled, by the run
\* itself or by a replay of it, and never after an escalation selected an asset.
CompletedWasDecided ==
    job.state = "completed" =>
        /\ decided # {}
        /\ job.mission \in Escalated => \A a \in assets : a.visibility = "internal"

\* The job carries the mission of the submission that claimed the key: a changed
\* resubmission, a reconciler and a late enqueue never replace it.
JobIsSubmitted == job.state # "none" => job.mission = submission.mission

\* A completed job stays completed and is never claimed again, although the
\* worker that lost its lease, or the reply to its settlement, then fails it.
CompletedIsFinal == [][job.state = "completed" => job' = job]_vars

\* "Un holder viejo no puede hacer settle/release despues de que otro worker
\* obtuvo un token superior": no step of a worker whose job was taken over
\* touches the job.
StaleWorkerPowerless ==
    [][\A w \in Worker :
         wpc[w] # "idle" /\ run[w].token < job.token /\ wpc'[w] # wpc[w]
             => job'.state = job.state /\ job'.token = job.token]_vars

\* "intent -> applied | failed | unknown -> reconciled"
\* (docs/RUNTIME_V12_DURABLE_2026-08-21.md): a mission whose result was applied
\* does not become unknown.
AppliedStays == decided # {} => journal.state = "applied"

==============================================================================
