----------------------------- MODULE CreativeProofs -----------------------------
(***************************************************************************)
(* CreativeMission for every number of submitters, workers, candidates and *)
(* faults and any contents: one run renders, the job is the mission that   *)
(* was submitted, and a completion was decided and is final.               *)
(***************************************************************************)
EXTENDS CreativeMission, FiniteSetTheorems, TLAPS

-----------------------------------------------------------------------------
(* The inductive invariant. *)

\* A live lease is of a running job, and who works on the job was granted it.
JobInv ==
    /\ job.token = job.attempts
    /\ job.live => job.state = "running"
    /\ \A w \in Worker : wpc[w] # "idle" => job.state # "none" /\ run[w].token # 0

\* Everyone past the claim of the submission has the mission that claimed it.
SubmissionInv ==
    /\ \A s \in Submitter : spc[s] # "idle" =>
          submission.row.state # "none" /\ call[s].mission = submission.mission
    /\ job.state # "none" => submission.row.state # "none"
    /\ JobIsSubmitted

Rendering(w) == wpc[w] \in {"render", "decide"}

\* The claim of the mission key lets one run render, ever.
RenderInv ==
    /\ journal.state = "none" => assets = {}
    /\ \A w \in Worker : Rendering(w) =>
          journal.state # "none" /\ \A a \in assets : a.run = run[w].token
    /\ \A v, w \in Worker : Rendering(v) /\ Rendering(w) => v = w
    /\ RendersOnce

\* A result is journaled before anybody settles the job with it, and an asset is
\* selected only for a mission that is not the executive's to decide.
DecisionInv ==
    /\ journal.state = "applied" => decided # {}
    /\ \A w \in Worker : wpc[w] \in {"replay", "event", "settle"} => decided # {}
    /\ job.state = "completed" => decided # {}
    /\ \A a \in assets : a.visibility = "selected" =>
          job.state # "none" /\ job.mission \notin Escalated

IInv == TypeOK /\ JobInv /\ SubmissionInv /\ RenderInv /\ DecisionInv

\* The worker identifiers that own rows.
LEMMA Owners == {"submit", "submit:reconciler", "worker", "worker:reconciler"} = JournalOwner
  BY CreativeAssumption DEF CreativeAssumption

\* Initially nobody has submitted anything.
LEMMA InitInv == Init => IInv
  <1> SUFFICES ASSUME Init PROVE IInv
    OBVIOUS
  <1>1. TypeOK
    <2>1. NoRow \in JournalRow
      BY DEF NoRow, JournalRow, IdempotencyState
    <2>2. NoJob \in Job
      BY DEF NoJob, Job, MaxAttempts
    <2>3. NoCall \in [mission: Mission \cup {Nothing}, owner: JournalOwner, token: Nat]
      BY Owners DEF NoCall
    <2>4. NoRun \in [token: 0..MaxAttempts, todo: SUBSET Candidate, done: SUBSET Candidate]
      BY DEF NoRun, MaxAttempts
    <2>5. 0 \in 0..MaxFaults
      BY CreativeAssumption DEF CreativeAssumption
    <2> QED
      BY <2>1, <2>2, <2>3, <2>4, <2>5 DEF Init, TypeOK
  <1>2. JobInv /\ SubmissionInv /\ RenderInv /\ DecisionInv
    BY DEF Init, JobInv, SubmissionInv, JobIsSubmitted, RenderInv, RendersOnce, Rendering, DecisionInv, NoRow, NoJob
  <1> QED
    BY <1>1, <1>2 DEF IInv

-----------------------------------------------------------------------------
(* Types. *)

\* The methods of the journal keep rows well typed, and never take one away.
LEMMA RowTypes ==
    ASSUME NEW row \in JournalRow, NEW owner \in JournalOwner, NEW token,
           NEW state \in {"applied", "failed", "unknown"}
    PROVE  /\ ClaimedRow(row, owner) \in JournalRow
           /\ ClaimedRow(row, owner).state # "none"
           /\ StaleRow(row, owner) \in JournalRow
           /\ StaleRow(row, owner).state # "applied" \/ row.state = "applied"
           /\ StaleRow(row, owner).state = "none" <=> row.state = "none"
           /\ MarkedRow(row, owner, token, state) \in JournalRow
           /\ MarkedRow(row, owner, token, state).state = "none" <=> row.state = "none"
  BY DEF ClaimedRow, StaleRow, MarkedRow, Owns, JournalRow, IdempotencyState

\* So does the enqueueing of a job.
LEMMA JobTypes ==
    ASSUME NEW m \in Mission \cup {Nothing}
    PROVE  [NoJob EXCEPT !.state = "pending", !.mission = m] \in Job
  <1>1. 0 \in 0..MaxAttempts
    BY DEF MaxAttempts
  <1> QED
    BY <1>1 DEF NoJob, Job

\* A step of a submitter.
Submits(s) == SubmitterStep(s) \/ SubmitterThrow(s) \/ SubmitterLosesReply(s)

\* A step of a worker.
Works(w) == WorkerStep(w) \/ WorkerThrow(w) \/ WorkerLosesReply(w)

\* What a step of a submitter can do to the job: nothing, or enqueue it.
LEMMA SubmitterSteps ==
    ASSUME IInv, NEW s \in Submitter, Submits(s)
    PROVE  /\ UNCHANGED <<journal, assets, event, wpc, run, decided>>
           /\ \/ UNCHANGED job
              \/ spc[s] = "enqueue" /\ EnqueueJob(call[s].mission)
  BY DEF Submits, SubmitterStep, SubmitterThrow, SubmitterLosesReply, ClaimSubmission,
     ReconcileSubmission, GetJob, Enqueue, SettleSubmission, CatchSubmission, WorkerUnchanged,
     stored

LEMMA SubmitterType ==
    ASSUME IInv, NEW s \in Submitter, Submits(s)
    PROVE  TypeOK'
  <1>1. TypeOK
    BY DEF IInv
  <1>2. job' \in Job
    <2>1. job \in Job /\ call[s].mission \in Mission \cup {Nothing}
      BY <1>1 DEF TypeOK
    <2> QED
      BY <2>1, JobTypes, SubmitterSteps DEF EnqueueJob
  <1> DEFINE Stages == {"idle", "reconcile", "get", "enqueue", "mark", "catch"}
             Calls  == [mission: Mission \cup {Nothing}, owner: JournalOwner, token: Nat]
             Typed  == /\ submission'.row \in JournalRow
                       /\ submission'.mission \in Mission \cup {Nothing}
                       /\ submission' = [row |-> submission'.row, mission |-> submission'.mission]
                       /\ spc' \in [Submitter -> Stages]
                       /\ call' \in [Submitter -> Calls]
                       /\ faults' \in 0..MaxFaults
  <1>3. /\ submission.row \in JournalRow /\ submission.mission \in Mission \cup {Nothing}
        /\ submission = [row |-> submission.row, mission |-> submission.mission]
        /\ spc \in [Submitter -> Stages] /\ call \in [Submitter -> Calls] /\ call[s] \in Calls
        /\ faults \in 0..MaxFaults
    BY <1>1 DEF TypeOK
  <1>4. \A stage \in Stages : SubmitterGoto(s, stage) => spc' \in [Submitter -> Stages]
    BY <1>3 DEF SubmitterGoto
  <1>5. ASSUME ClaimSubmission(s) PROVE Typed
    <2>1. PICK m \in Mission :
            /\ \/ /\ submission' = [row |-> ClaimedRow(submission.row, "submit"), mission |-> m]
                  /\ SubmitterGoto(s, "get")
               \/ SubmitterGoto(s, "reconcile") /\ UNCHANGED submission
            /\ call' = [call EXCEPT ![s] = [mission |-> m, owner |-> "submit", token |-> 1]]
      BY <1>5 DEF ClaimSubmission
    <2>2. call' \in [Submitter -> Calls]
      BY <1>3, <2>1, Owners
    <2>3. /\ submission'.row \in JournalRow /\ submission'.mission \in Mission \cup {Nothing}
          /\ submission' = [row |-> submission'.row, mission |-> submission'.mission]
      <3>1. ClaimedRow(submission.row, "submit") \in JournalRow
        BY <1>3, RowTypes, Owners
      <3> QED
        BY <1>3, <2>1, <3>1
    <2>4. spc' \in [Submitter -> Stages] /\ UNCHANGED faults
      BY <1>4, <1>5, <2>1 DEF ClaimSubmission
    <2> QED
      BY <1>3, <2>2, <2>3, <2>4
  <1>6. ASSUME ReconcileSubmission(s) PROVE Typed
    <2>1. \/ /\ submission' = [submission EXCEPT !.row = StaleRow(submission.row, "submit:reconciler")]
             /\ call' = [call EXCEPT ![s].owner = "submit:reconciler",
                                     ![s].token = submission'.row.token]
             /\ SubmitterGoto(s, "get")
          \/ UNCHANGED <<submission, call>> /\ SubmitterGoto(s, "idle")
      BY <1>6 DEF ReconcileSubmission
    <2>2. /\ submission'.row \in JournalRow /\ submission'.mission \in Mission \cup {Nothing}
          /\ submission' = [row |-> submission'.row, mission |-> submission'.mission]
      BY <1>3, <2>1, RowTypes, Owners
    <2>3. call' \in [Submitter -> Calls]
      BY <1>3, <2>1, <2>2, Owners DEF JournalRow
    <2> QED
      BY <1>3, <1>4, <1>6, <2>1, <2>2, <2>3 DEF ReconcileSubmission
  <1>7. ASSUME GetJob(s) \/ SubmitterThrow(s) \/ Enqueue(s) PROVE Typed
    BY <1>3, <1>4, <1>7, CreativeAssumption
      DEF CreativeAssumption, GetJob, SubmitterThrow, Enqueue, Fault, stored
  <1>8. ASSUME SettleSubmission(s) \/ CatchSubmission(s) \/ SubmitterLosesReply(s) PROVE Typed
    <2>1. \/ UNCHANGED submission
          \/ \E state \in {"applied", "failed"} : MarkSubmission(s, state)
      BY <1>8 DEF SettleSubmission, CatchSubmission, SubmitterLosesReply
    <2>2. /\ submission'.row \in JournalRow /\ submission'.mission \in Mission \cup {Nothing}
          /\ submission' = [row |-> submission'.row, mission |-> submission'.mission]
      BY <1>3, <2>1, RowTypes DEF MarkSubmission
    <2> QED
      BY <1>3, <1>4, <1>8, <2>2, CreativeAssumption
        DEF CreativeAssumption, SettleSubmission, CatchSubmission, SubmitterLosesReply, Fault
  <1>9. Typed
    BY <1>5, <1>6, <1>7, <1>8 DEF Submits, SubmitterStep
  <1>10. submission' \in [row: JournalRow, mission: Mission \cup {Nothing}]
    BY <1>9
  <1> QED
    BY <1>1, <1>2, <1>9, <1>10, SubmitterSteps DEF TypeOK

\* What a step of a worker can do to the job: claim it, settle it or nothing.
LEMMA WorkerSteps ==
    ASSUME IInv, NEW w \in Worker, Works(w)
    PROVE  /\ UNCHANGED <<submission, spc, call>>
           /\ \/ UNCHANGED job
              \/ ClaimJob(w)
              \/ wpc[w] \in {"replay", "settle"} /\ SettleJob(w, "completed")
              \/ wpc[w] = "refuse" /\ SettleJob(w, "failed")
           /\ \E stage : WorkerGoto(w, stage)
           /\ \/ UNCHANGED run
              \/ ClaimJob(w) \/ ClaimMission(w) \/ Render(w)
           /\ \/ UNCHANGED assets
              \/ Render(w) \/ Decide(w)
  BY DEF Works, WorkerStep, WorkerThrow, WorkerLosesReply, ClaimJob, ClaimMission, Replay,
     ReconcileMission, Refuse, Render, Decide, MarkMission, AppendEvent, Settle, Catch,
     SubmitterUnchanged, stored

\* And to its own locals.
LEMMA WorkerLocal ==
    ASSUME IInv, NEW w \in Worker, Works(w)
    PROVE  \A v \in Worker : v # w => wpc'[v] = wpc[v] /\ run'[v] = run[v]
  <1>1. TypeOK
    BY DEF IInv
  <1>2. \E stage : wpc' = [wpc EXCEPT ![w] = stage]
    BY WorkerSteps DEF WorkerGoto
  <1>3. \A v \in Worker : v # w => run'[v] = run[v]
    <2>1. run \in [Worker -> [token: 0..MaxAttempts, todo: SUBSET Candidate, done: SUBSET Candidate]]
      BY <1>1 DEF TypeOK
    <2>2. CASE ClaimJob(w) \/ ClaimMission(w)
      BY <2>1, <2>2 DEF ClaimJob, ClaimMission
    <2>3. CASE Render(w)
      BY <2>1, <2>3 DEF Render
    <2> QED
      BY <2>2, <2>3, WorkerSteps
  <1> QED
    BY <1>1, <1>2, <1>3 DEF TypeOK

LEMMA WorkerType ==
    ASSUME IInv, NEW w \in Worker, Works(w)
    PROVE  TypeOK'
  <1> DEFINE Stages == {"idle", "claim", "replay", "reconcile", "refuse", "render",
                        "decide", "mark", "event", "settle", "catch"}
             Locals == [token: 0..MaxAttempts, todo: SUBSET Candidate, done: SUBSET Candidate]
  <1>1. /\ job \in Job /\ journal \in JournalRow /\ assets \subseteq Asset /\ event \in BOOLEAN
        /\ wpc \in [Worker -> Stages] /\ run \in [Worker -> Locals] /\ run[w] \in Locals
        /\ decided \subseteq 1..MaxAttempts
        /\ wpc[w] # "idle" => run[w].token \in 1..MaxAttempts
    BY DEF IInv, TypeOK, JobInv, MaxAttempts
  <1>2. job' \in Job
    <2>1. CASE ClaimJob(w)
      <3>1. job.token = job.attempts /\ job.attempts < MaxAttempts
        BY <2>1 DEF ClaimJob, Claimable, IInv, JobInv
      <3>2. job.token + 1 \in 0..MaxAttempts /\ job.attempts + 1 \in 0..MaxAttempts
        BY <1>1, <3>1 DEF Job, MaxAttempts
      <3>3. job' = [job EXCEPT !.state = "running", !.live = TRUE, !.token = job.token + 1,
                               !.attempts = job.attempts + 1]
        BY <2>1 DEF ClaimJob
      <3> QED
        BY <1>1, <3>2, <3>3 DEF Job
    <2>2. ASSUME NEW state \in {"completed", "failed"}, SettleJob(w, state) PROVE job' \in Job
      BY <1>1, <2>2 DEF SettleJob, Job
    <2> QED
      BY <1>1, <2>1, <2>2, WorkerSteps
  <1>3. wpc' \in [Worker -> Stages]
    <2>1. \A stage \in Stages : WorkerGoto(w, stage) => wpc' \in [Worker -> Stages]
      BY <1>1 DEF WorkerGoto
    <2> QED
      BY <1>1, <2>1 DEF Works, WorkerStep, WorkerThrow, WorkerLosesReply, ClaimJob, ClaimMission,
         StageAfter, Replay, ReconcileMission, Refuse, Render, Decide, MarkMission, AppendEvent,
         Settle, Catch
  <1>4. run' \in [Worker -> Locals]
    <2>1. CASE ClaimJob(w)
      <3>1. /\ run' = [run EXCEPT ![w] = [NoRun EXCEPT !.token = job'.token]]
            /\ job'.token \in 0..MaxAttempts
        BY <1>2, <2>1 DEF ClaimJob, Job
      <3>2. [NoRun EXCEPT !.token = job'.token] \in Locals
        BY <3>1 DEF NoRun
      <3> QED
        BY <1>1, <3>1, <3>2
    <2>2. CASE ClaimMission(w)
      BY <1>1, <2>2 DEF ClaimMission
    <2>3. CASE Render(w)
      <3>1. PICK c \in run[w].todo :
              \/ run' = [run EXCEPT ![w].todo = run[w].todo \ {c}, ![w].done = run[w].done \cup {c}]
              \/ run' = [run EXCEPT ![w].todo = run[w].todo \ {c}]
        BY <2>3 DEF Render
      <3> QED
        BY <1>1, <3>1
    <2> QED
      BY <1>1, <2>1, <2>2, <2>3, WorkerSteps
  <1>5. assets' \subseteq Asset
    <2>1. \A c \in Candidate, visibility \in {"internal", "selected"} :
            wpc[w] # "idle" => [run |-> run[w].token, candidate |-> c, visibility |-> visibility] \in Asset
      BY <1>1 DEF Asset
    <2>2. CASE Render(w)
      <3>1. PICK c \in run[w].todo :
              \/ assets' = assets \cup
                    {[run |-> run[w].token, candidate |-> c, visibility |-> "internal"]}
              \/ UNCHANGED assets
        BY <2>2 DEF Render
      <3>2. c \in Candidate /\ wpc[w] # "idle"
        BY <1>1, <2>2 DEF Render
      <3>3. [run |-> run[w].token, candidate |-> c, visibility |-> "internal"] \in Asset
        BY <2>1, <3>2
      <3>4. assets \subseteq Asset
        BY <1>1
      <3> QED
        BY <3>1, <3>3, <3>4
    <2>3. CASE Decide(w)
      <3> DEFINE own(c)  == [run |-> run[w].token, candidate |-> c, visibility |-> "internal"]
                 next(c) == [own(c) EXCEPT !.visibility = "selected"]
      <3>1. ASSUME NEW c \in run[w].done
            PROVE  next(c) \in Asset
        <4>1. next(c) = [run |-> run[w].token, candidate |-> c, visibility |-> "selected"]
          OBVIOUS
        <4>2. c \in Candidate /\ wpc[w] # "idle"
          BY <1>1, <2>3 DEF Decide
        <4> QED
          BY <2>1, <4>1, <4>2
      <3>2. UNCHANGED assets \/ \E c \in run[w].done : assets' = (assets \ {own(c)}) \cup {next(c)}
        BY <2>3 DEF Decide
      <3>3. assets \subseteq Asset
        BY <1>1
      <3> HIDE DEF own, next
      <3> QED
        BY <3>1, <3>2, <3>3
    <2> QED
      BY <1>1, <2>2, <2>3, WorkerSteps
  <1>6. journal' \in JournalRow /\ event' \in BOOLEAN /\ decided' \subseteq 1..MaxAttempts
    <2>1. \/ journal' \in {journal, ClaimedRow(journal, "worker"), StaleRow(journal, "worker:reconciler")}
          \/ \E state \in {"applied", "unknown"} : journal' = MarkedRow(journal, "worker", 1, state)
      BY DEF Works, WorkerStep, WorkerThrow, WorkerLosesReply, ClaimJob, ClaimMission, Replay,
         ReconcileMission, Refuse, Render, Decide, MarkMission, AppendEvent, Settle, Catch, stored
    <2>2. journal' \in JournalRow
      BY <1>1, <2>1, RowTypes, Owners
    <2>3. event' \in BOOLEAN
      BY <1>1 DEF Works, WorkerStep, WorkerThrow, WorkerLosesReply, ClaimJob, ClaimMission, Replay,
         ReconcileMission, Refuse, Render, Decide, MarkMission, AppendEvent, Settle, Catch, stored
    <2>4. \/ UNCHANGED decided
          \/ wpc[w] = "mark" /\ decided' = decided \cup {run[w].token}
      <3>1. CASE WorkerLosesReply(w)
        BY <3>1 DEF WorkerLosesReply
      <3>2. CASE WorkerStep(w) \/ WorkerThrow(w)
        BY <3>2 DEF WorkerStep, WorkerThrow, ClaimJob, ClaimMission, Replay, ReconcileMission,
           Refuse, Render, Decide, MarkMission, AppendEvent, Settle, Catch
      <3> QED
        BY <3>1, <3>2 DEF Works
    <2> QED
      BY <1>1, <2>2, <2>3, <2>4
  <1>7. faults' \in 0..MaxFaults
    BY CreativeAssumption
      DEF CreativeAssumption, IInv, TypeOK, Works, WorkerStep, WorkerThrow, WorkerLosesReply, Fault,
          ClaimJob, ClaimMission, Replay, ReconcileMission, Refuse, Render, Decide, MarkMission,
          AppendEvent, Settle, Catch
  <1> QED
    BY <1>2, <1>3, <1>4, <1>5, <1>6, <1>7, WorkerSteps DEF IInv, TypeOK

-----------------------------------------------------------------------------
(* Submitters. *)

\* A step of a submitter keeps what the submission claimed.
LEMMA SubmitterKeepsSubmission ==
    ASSUME IInv, NEW s \in Submitter, Submits(s)
    PROVE  SubmissionInv'
  <1>1. /\ TypeOK /\ submission.row \in JournalRow
        /\ spc \in [Submitter -> {"idle", "reconcile", "get", "enqueue", "mark", "catch"}]
        /\ call \in [Submitter -> [mission: Mission \cup {Nothing}, owner: JournalOwner, token: Nat]]
    BY DEF IInv, TypeOK
  <1>2. ASSUME submission.row.state # "none" => submission'.row.state # "none",
               submission.row.state # "none" => submission'.mission = submission.mission,
               spc'[s] # "idle" => submission'.row.state # "none" /\ call'[s].mission = submission'.mission,
               \A t \in Submitter : t # s => spc'[t] = spc[t] /\ call'[t] = call[t],
               UNCHANGED job
        PROVE  SubmissionInv'
    BY <1>2 DEF IInv, SubmissionInv, JobIsSubmitted
  <1>3. \A t \in Submitter : t # s => spc'[t] = spc[t] /\ call'[t] = call[t]
    BY <1>1 DEF Submits, SubmitterStep, SubmitterThrow, SubmitterLosesReply, ClaimSubmission,
       ReconcileSubmission, GetJob, Enqueue, SettleSubmission, CatchSubmission, SubmitterGoto
  <1>4. CASE ClaimSubmission(s)
    <2>1. PICK m \in Mission :
            /\ \/ /\ submission.row.state = "none"
                  /\ submission' = [row |-> ClaimedRow(submission.row, "submit"), mission |-> m]
               \/ /\ submission.row.state = "intent" /\ submission.mission = m
                  /\ UNCHANGED submission
            /\ call' = [call EXCEPT ![s] = [mission |-> m, owner |-> "submit", token |-> 1]]
      BY <1>4 DEF ClaimSubmission, SameFingerprint
    <2>2. call'[s].mission = m
      BY <1>1, <2>1
    <2>3. UNCHANGED job
      BY <1>4 DEF ClaimSubmission
    <2> QED
      BY <1>2, <1>3, <2>1, <2>2, <2>3 DEF ClaimedRow
  <1>5. CASE ReconcileSubmission(s)
    <2>1. /\ submission.row.state = "none" <=> submission'.row.state = "none"
          /\ submission'.mission = submission.mission
      BY <1>1, <1>5 DEF ReconcileSubmission, StaleRow, TypeOK
    <2>2. call'[s].mission = call[s].mission /\ spc[s] # "idle" /\ UNCHANGED job
      BY <1>1, <1>5 DEF ReconcileSubmission
    <2> QED
      BY <1>2, <1>3, <2>1, <2>2 DEF IInv, SubmissionInv
  <1>6. CASE GetJob(s) \/ SubmitterThrow(s)
    BY <1>2, <1>3, <1>6 DEF GetJob, SubmitterThrow, stored, IInv, SubmissionInv
  <1>7. ASSUME \E state \in {"applied", "failed"} : MarkSubmission(s, state),
               spc[s] # "idle", UNCHANGED <<job, call>>
        PROVE  SubmissionInv'
    <2>1. /\ submission.row.state = "none" <=> submission'.row.state = "none"
          /\ submission'.mission = submission.mission
      BY <1>1, <1>7, RowTypes, Owners DEF MarkSubmission, TypeOK
    <2> QED
      BY <1>2, <1>3, <1>7, <2>1 DEF IInv, SubmissionInv
  <1>8. CASE SettleSubmission(s) \/ CatchSubmission(s) \/ (SubmitterLosesReply(s) /\ spc[s] = "mark")
    BY <1>7, <1>8 DEF SettleSubmission, CatchSubmission, SubmitterLosesReply
  <1>9. CASE Enqueue(s) \/ (SubmitterLosesReply(s) /\ spc[s] = "enqueue")
    <2>1. UNCHANGED <<submission, call>> /\ EnqueueJob(call[s].mission) /\ spc[s] # "idle"
      BY <1>9 DEF Enqueue, SubmitterLosesReply
    <2>2. submission.row.state # "none" /\ call[s].mission = submission.mission
      BY <2>1 DEF IInv, SubmissionInv
    <2>3. job'.state # "none" => job'.mission = submission.mission
      BY <2>1, <2>2 DEF EnqueueJob, NoJob, IInv, SubmissionInv, JobIsSubmitted
    <2> QED
      BY <1>3, <2>1, <2>2, <2>3 DEF IInv, SubmissionInv, JobIsSubmitted
  <1> QED
    BY <1>4, <1>5, <1>6, <1>8, <1>9 DEF Submits, SubmitterStep, SubmitterLosesReply

\* And it leaves the work on the job alone.
LEMMA SubmitterKeepsWork ==
    ASSUME IInv, NEW s \in Submitter, Submits(s)
    PROVE  JobInv' /\ RenderInv' /\ DecisionInv'
  <1>1. UNCHANGED <<journal, assets, event, wpc, run, decided>>
    BY SubmitterSteps
  <1>2. \/ UNCHANGED job
        \/ /\ job.state = "none" /\ job'.state = "pending" /\ ~job'.live
           /\ job'.token = 0 /\ job'.attempts = 0
    BY SubmitterSteps DEF EnqueueJob, NoJob
  <1> QED
    BY <1>1, <1>2 DEF IInv, JobInv, RenderInv, RendersOnce, Rendering, DecisionInv

-----------------------------------------------------------------------------
(* Workers. *)

\* What a step of a worker can do to the journal and to what was decided.
LEMMA WorkerJournal ==
    ASSUME IInv, NEW w \in Worker, Works(w)
    PROVE  /\ journal.state # "none" => journal'.state # "none"
           /\ decided \subseteq decided'
           /\ journal'.state = "applied" => journal.state = "applied" \/ decided' # {}
           /\ journal'.state # "none" \/ UNCHANGED assets
  <1>1. /\ journal \in JournalRow /\ wpc \in [Worker -> {"idle", "claim", "replay", "reconcile",
             "refuse", "render", "decide", "mark", "event", "settle", "catch"}]
    BY DEF IInv, TypeOK
  <1>2. \/ UNCHANGED journal
        \/ journal' = ClaimedRow(journal, "worker")
        \/ journal' = StaleRow(journal, "worker:reconciler")
        \/ journal' = MarkedRow(journal, "worker", 1, "unknown")
        \/ /\ journal' = MarkedRow(journal, "worker", 1, "applied")
           /\ Owns(journal, "worker", 1) => decided' # {}
    BY DEF Works, WorkerStep, WorkerThrow, WorkerLosesReply, ClaimJob, ClaimMission, Replay,
       ReconcileMission, Refuse, Render, Decide, MarkMission, AppendEvent, Settle, Catch, stored
  <1>3. journal.state # "none" => journal'.state # "none"
    BY <1>1, <1>2 DEF ClaimedRow, StaleRow, MarkedRow, Owns, JournalRow
  <1>4. decided \subseteq decided'
    BY DEF Works, WorkerStep, WorkerThrow, WorkerLosesReply, ClaimJob, ClaimMission, Replay,
       ReconcileMission, Refuse, Render, Decide, MarkMission, AppendEvent, Settle, Catch
  <1>5. journal'.state = "applied" => journal.state = "applied" \/ decided' # {}
    BY <1>1, <1>2 DEF ClaimedRow, StaleRow, MarkedRow, JournalRow
  <1>6. ~UNCHANGED assets => journal.state # "none"
    BY WorkerSteps DEF IInv, RenderInv, Rendering, Render, Decide
  <1> QED
    BY <1>3, <1>4, <1>5, <1>6

LEMMA WorkerKeepsJob ==
    ASSUME IInv, NEW w \in Worker, Works(w)
    PROVE  JobInv' /\ SubmissionInv'
  <1>1. /\ job \in Job /\ run \in [Worker -> [token: 0..MaxAttempts, todo: SUBSET Candidate, done: SUBSET Candidate]]
        /\ job' \in Job
    BY WorkerType DEF IInv, TypeOK
  <1>2. /\ job'.mission = job.mission
        /\ job'.state = "none" <=> job.state = "none"
        /\ job'.token = job'.attempts
        /\ job'.live => job'.state = "running"
    <2>1. CASE ClaimJob(w)
      BY <1>1, <2>1 DEF ClaimJob, Claimable, IInv, JobInv, Job
    <2>2. ASSUME NEW state \in {"completed", "failed"}, SettleJob(w, state)
          PROVE  /\ job'.mission = job.mission
                 /\ job'.state = "none" <=> job.state = "none"
                 /\ job'.token = job'.attempts
                 /\ job'.live => job'.state = "running"
      BY <1>1, <2>2 DEF SettleJob, MaySettle, IInv, JobInv, Job
    <2> QED
      BY <2>1, <2>2, WorkerSteps DEF IInv, JobInv
  <1>3. SubmissionInv'
    BY <1>2, WorkerSteps DEF IInv, SubmissionInv, JobIsSubmitted
  <1>4. wpc'[w] # "idle" => job'.state # "none" /\ run'[w].token # 0
    <2>1. CASE ClaimJob(w)
      <3>1. job'.token # 0 /\ job'.state = "running" /\ run'[w].token = job'.token
        BY <1>1, <2>1 DEF ClaimJob, Job, NoRun
      <3> QED
        BY <3>1
    <2>2. CASE ~ClaimJob(w)
      <3>1. wpc[w] # "idle"
        BY <2>2 DEF Works, WorkerStep, WorkerThrow, WorkerLosesReply, ClaimMission, Replay,
           ReconcileMission, Refuse, Render, Decide, MarkMission, AppendEvent, Settle, Catch
      <3>2. run'[w].token = run[w].token
        <4>1. CASE ClaimMission(w)
          BY <1>1, <4>1 DEF ClaimMission
        <4>2. CASE Render(w)
          BY <1>1, <4>2 DEF Render
        <4> QED
          BY <2>2, <4>1, <4>2, WorkerSteps
      <3> QED
        BY <1>2, <3>1, <3>2 DEF IInv, JobInv
    <2> QED
      BY <2>1, <2>2
  <1> QED
    BY <1>2, <1>3, <1>4, WorkerLocal DEF IInv, JobInv

\* The claim of the mission key lets one run render and decide.
LEMMA WorkerKeepsRender ==
    ASSUME IInv, NEW w \in Worker, Works(w)
    PROVE  RenderInv'
  <1>1. /\ journal \in JournalRow
        /\ wpc \in [Worker -> {"idle", "claim", "replay", "reconcile", "refuse", "render",
                               "decide", "mark", "event", "settle", "catch"}]
        /\ run \in [Worker -> [token: 0..MaxAttempts, todo: SUBSET Candidate, done: SUBSET Candidate]]
    BY DEF IInv, TypeOK
  <1>2. ASSUME Rendering(w) => journal.state # "none",
               \A v \in Worker : Rendering(w)' /\ v # w => ~Rendering(v),
               Rendering(w)' => journal'.state # "none",
               Rendering(w)' => \A a \in assets' : a.run = run'[w].token,
               \A a \in assets' : a \in assets \/ (Rendering(w) /\ a.run = run[w].token)
        PROVE  RenderInv'
    <2>1. \A v \in Worker : v # w => (Rendering(v)' <=> Rendering(v)) /\ run'[v] = run[v]
      BY WorkerLocal DEF Rendering
    <2>2. journal'.state = "none" => assets' = {}
      BY <1>2, WorkerJournal DEF IInv, RenderInv
    <2>3. RendersOnce'
      BY <1>2 DEF IInv, RenderInv, RendersOnce
    <2>4. \A v, u \in Worker : Rendering(v)' /\ Rendering(u)' => v = u
      BY <1>2, <2>1 DEF IInv, RenderInv
    <2>5. \A v \in Worker : Rendering(v)' =>
            journal'.state # "none" /\ \A a \in assets' : a.run = run'[v].token
      <3> SUFFICES ASSUME NEW v \in Worker, v # w, Rendering(v)'
                   PROVE  journal'.state # "none" /\ \A a \in assets' : a.run = run'[v].token
        BY <1>2
      <3>1. Rendering(v) /\ ~Rendering(w)
        BY <2>1 DEF IInv, RenderInv
      <3> QED
        BY <1>2, <2>1, <3>1, WorkerJournal DEF IInv, RenderInv
    <2> QED
      BY <2>2, <2>3, <2>4, <2>5 DEF RenderInv
  <1>3. CASE ClaimMission(w)
    <2>1. UNCHANGED assets /\ wpc[w] = "claim"
      BY <1>3 DEF ClaimMission
    <2>2. Rendering(w)' => journal.state = "none"
      BY <1>1, <1>3 DEF ClaimMission, WorkerGoto, StageAfter, Rendering
    <2>3. journal'.state # "none"
      BY <1>1, <1>3 DEF ClaimMission, ClaimedRow
    <2> QED
      BY <1>2, <2>1, <2>2, <2>3 DEF IInv, RenderInv, Rendering
  <1>4. CASE Render(w)
    <2>1. /\ \A a \in assets' : a \in assets \/ a.run = run[w].token
          /\ wpc[w] = "render" /\ Rendering(w)
          /\ UNCHANGED journal
      BY <1>4 DEF Render, Rendering
    <2>2. run'[w].token = run[w].token
      BY <1>1, <1>4 DEF Render
    <2> QED
      BY <1>2, <2>1, <2>2 DEF IInv, RenderInv
  <1>5. CASE Decide(w)
    <2>1. \A a \in assets' : a \in assets \/ a.run = run[w].token
      BY <1>5 DEF Decide
    <2>2. /\ Rendering(w) /\ ~Rendering(w)'
      BY <1>1, <1>5 DEF Decide, WorkerGoto, Rendering
    <2> QED
      BY <1>2, <2>1, <2>2 DEF IInv, RenderInv
  <1>6. CASE ~ClaimMission(w) /\ ~Render(w) /\ ~Decide(w)
    <2>1. UNCHANGED assets
      BY <1>6, WorkerSteps
    <2>2. ~Rendering(w)'
      BY <1>1, <1>6 DEF Works, WorkerStep, WorkerThrow, WorkerLosesReply, ClaimJob, Replay,
         ReconcileMission, Refuse, MarkMission, AppendEvent, Settle, Catch, WorkerGoto, Rendering
    <2> QED
      BY <1>2, <2>1, <2>2 DEF IInv, RenderInv
  <1> QED
    BY <1>3, <1>4, <1>5, <1>6

\* A result is journaled before it settles the job.
LEMMA WorkerKeepsDecision ==
    ASSUME IInv, NEW w \in Worker, Works(w)
    PROVE  DecisionInv'
  <1>1. /\ journal \in JournalRow
        /\ wpc \in [Worker -> {"idle", "claim", "replay", "reconcile", "refuse", "render",
                               "decide", "mark", "event", "settle", "catch"}]
        /\ decided \subseteq decided'
    BY WorkerJournal DEF IInv, TypeOK
  <1>2. journal'.state = "applied" => decided' # {}
    BY <1>1, WorkerJournal DEF IInv, DecisionInv
  <1>3. wpc'[w] \in {"replay", "event", "settle"} => decided' # {}
    <2>1. CASE ClaimMission(w)
      <3>1. wpc'[w] = StageAfter(journal.state) /\ UNCHANGED decided
        BY <1>1, <2>1 DEF ClaimMission, WorkerGoto
      <3>2. StageAfter(journal.state) \in {"replay", "event", "settle"} => journal.state = "applied"
        BY DEF StageAfter
      <3> QED
        BY <3>1, <3>2 DEF IInv, DecisionInv
    <2>2. CASE MarkMission(w)
      BY <1>1, <2>2 DEF MarkMission, WorkerGoto
    <2>3. CASE AppendEvent(w)
      BY <1>1, <2>3 DEF AppendEvent, IInv, DecisionInv
    <2>4. CASE ~ClaimMission(w) /\ ~MarkMission(w) /\ ~AppendEvent(w)
      <3>1. wpc'[w] \notin {"replay", "event", "settle"}
        BY <1>1, <2>4 DEF Works, WorkerStep, WorkerThrow, WorkerLosesReply, ClaimJob, Replay,
           ReconcileMission, Refuse, Render, Decide, Settle, Catch, WorkerGoto
      <3> QED
        BY <3>1
    <2> QED
      BY <2>1, <2>2, <2>3, <2>4
  <1>4. /\ job'.mission = job.mission
        /\ job.state # "none" => job'.state # "none"
        /\ job'.state = "completed" => decided' # {}
    <2>1. CASE ClaimJob(w)
      BY <2>1 DEF ClaimJob, Claimable, IInv, TypeOK, Job
    <2>2. ASSUME NEW state \in {"completed", "failed"}, SettleJob(w, state),
                 state = "completed" => decided # {}
          PROVE  /\ job'.mission = job.mission
                 /\ job.state # "none" => job'.state # "none"
                 /\ job'.state = "completed" => decided' # {}
      BY <1>1, <2>2 DEF SettleJob, IInv, TypeOK, Job, DecisionInv
    <2>3. wpc[w] \in {"replay", "settle"} => decided # {}
      BY DEF IInv, DecisionInv
    <2>4. CASE UNCHANGED job
      BY <1>1, <2>4 DEF IInv, DecisionInv
    <2> QED
      BY <2>1, <2>2, <2>3, <2>4, WorkerSteps
  <1>5. \A a \in assets' : a.visibility = "selected" =>
          a \in assets \/ (job.state # "none" /\ job.mission \notin Escalated)
    <2>1. CASE Render(w)
      BY <2>1 DEF Render
    <2>2. CASE Decide(w)
      <3>1. job.state # "none"
        BY <2>2 DEF Decide, IInv, JobInv
      <3> QED
        BY <2>2, <3>1 DEF Decide, Escalates
    <2> QED
      BY <2>1, <2>2, WorkerSteps
  <1>6. \A a \in assets' : a.visibility = "selected" =>
          job'.state # "none" /\ job'.mission \notin Escalated
    BY <1>4, <1>5 DEF IInv, DecisionInv
  <1> QED
    BY <1>1, <1>2, <1>3, <1>4, <1>6, WorkerLocal DEF IInv, DecisionInv

-----------------------------------------------------------------------------
(* The inductive invariant and what follows from it. *)

\* A lease that runs out, a process that dies.
LEMMA FaultsKeep ==
    ASSUME IInv, ExpireJobLease \/ Crash
    PROVE  IInv'
  <1>1. CASE ExpireJobLease
    <2>1. /\ UNCHANGED <<submission, journal, assets, event, spc, call, wpc, run, faults, decided>>
          /\ job' = [job EXCEPT !.live = FALSE]
      BY <1>1 DEF ExpireJobLease, SubmitterUnchanged, WorkerUnchanged
    <2>2. /\ job' \in Job /\ job'.state = job.state /\ job'.token = job.token
          /\ job'.attempts = job.attempts /\ job'.mission = job.mission /\ ~job'.live
      BY <2>1 DEF IInv, TypeOK, Job
    <2> QED
      BY <2>1, <2>2 DEF IInv, TypeOK, JobInv, SubmissionInv, JobIsSubmitted, RenderInv, RendersOnce,
         Rendering, DecisionInv
  <1>2. CASE Crash
    <2>1. /\ UNCHANGED <<submission, job, journal, assets, event, call, run, decided>>
          /\ faults' \in 0..MaxFaults
      BY <1>2, CreativeAssumption DEF CreativeAssumption, Crash, Fault, stored, IInv, TypeOK
    <2>2. /\ UNCHANGED spc \/ \E s \in Submitter : SubmitterGoto(s, "idle")
          /\ UNCHANGED wpc \/ \E w \in Worker : WorkerGoto(w, "idle")
      BY <1>2 DEF Crash
    <2>3. /\ \A s \in Submitter : spc'[s] \in {spc[s], "idle"}
          /\ \A w \in Worker : wpc'[w] \in {wpc[w], "idle"}
      BY <2>2 DEF IInv, TypeOK, SubmitterGoto, WorkerGoto
    <2>4. TypeOK'
      BY <2>1, <2>2 DEF IInv, TypeOK, SubmitterGoto, WorkerGoto
    <2> QED
      BY <2>1, <2>3, <2>4 DEF IInv, JobInv, SubmissionInv, JobIsSubmitted, RenderInv, RendersOnce,
         Rendering, DecisionInv
  <1> QED
    BY <1>1, <1>2

LEMMA Invariance == Spec => []IInv
  <1>1. IInv /\ [Next]_vars => IInv'
    <2> SUFFICES ASSUME IInv, [Next]_vars PROVE IInv'
      OBVIOUS
    <2>1. ASSUME NEW s \in Submitter, Submits(s) PROVE IInv'
      BY <2>1, SubmitterType, SubmitterKeepsSubmission, SubmitterKeepsWork DEF IInv
    <2>2. ASSUME NEW w \in Worker, Works(w) PROVE IInv'
      BY <2>2, WorkerType, WorkerKeepsJob, WorkerKeepsRender, WorkerKeepsDecision DEF IInv
    <2>3. CASE UNCHANGED vars
      BY <2>3 DEF vars, stored, IInv, TypeOK, JobInv, SubmissionInv, JobIsSubmitted, RenderInv,
         RendersOnce, Rendering, DecisionInv
    <2> QED
      BY <2>1, <2>2, <2>3, FaultsKeep DEF Next, Submits, Works
  <1> QED
    BY <1>1, InitInv, PTL DEF Spec

\* Every reachable state of the submission, the job, the journal, the assets and of
\* the calls that work on them is well typed.
THEOREM TypeCorrect == Spec => []TypeOK
  <1>1. IInv => TypeOK
    BY DEF IInv
  <1> QED
    BY <1>1, Invariance, PTL

\* However often the job is claimed, lost, failed and claimed again, all candidate
\* assets are of one run.
THEOREM OneRunRenders == Spec => []RendersOnce
  <1>1. IInv => RendersOnce
    BY DEF IInv, RenderInv
  <1> QED
    BY <1>1, Invariance, PTL

\* The job carries the mission that claimed the submission, whatever else is
\* submitted under its identifier, before, during or after a reconciliation.
THEOREM JobAsSubmitted == Spec => []JobIsSubmitted
  <1>1. IInv => JobIsSubmitted
    BY DEF IInv, SubmissionInv
  <1> QED
    BY <1>1, Invariance, PTL

\* A job is completed only with a result that was journaled, and the job of an
\* escalated mission never with an asset selected.
THEOREM CompletionDecided == Spec => []CompletedWasDecided
  <1>1. IInv => CompletedWasDecided
    <2> SUFFICES ASSUME IInv, job.state = "completed"
                 PROVE  /\ decided # {}
                        /\ job.mission \in Escalated => \A a \in assets : a.visibility = "internal"
      BY DEF CompletedWasDecided
    <2>1. \A a \in assets : a.visibility \in {"internal", "selected"}
      BY DEF IInv, TypeOK, Asset
    <2> QED
      BY <2>1 DEF IInv, DecisionInv
  <1> QED
    BY <1>1, Invariance, PTL

\* No late enqueue, claim, settlement, failure or expiry touches a completed job.
THEOREM CompletionFinal == Spec => CompletedIsFinal
  <1>1. IInv /\ [Next]_vars => [job.state = "completed" => job' = job]_vars
    <2> SUFFICES ASSUME IInv, Next, job.state = "completed" PROVE job' = job
      OBVIOUS
    <2>1. ASSUME NEW s \in Submitter, Submits(s) PROVE job' = job
      BY <2>1, SubmitterSteps DEF EnqueueJob
    <2>2. ASSUME NEW w \in Worker, Works(w) PROVE job' = job
      BY <2>2, WorkerSteps DEF ClaimJob, Claimable, SettleJob, MaySettle
    <2>3. ~ExpireJobLease
      BY DEF ExpireJobLease, IInv, JobInv
    <2> QED
      BY <2>1, <2>2, <2>3 DEF Next, Submits, Works, Crash, stored
  <1> QED
    BY <1>1, Invariance, PTL DEF Spec, CompletedIsFinal

\* A step of a worker whose job another worker has claimed since changes neither
\* the state nor the token of the job.
THEOREM StaleWorker == Spec => StaleWorkerPowerless
  <1>1. IInv /\ [Next]_vars =>
          [\A w \in Worker :
             wpc[w] # "idle" /\ run[w].token < job.token /\ wpc'[w] # wpc[w]
                 => job'.state = job.state /\ job'.token = job.token]_vars
    <2> SUFFICES ASSUME IInv, Next, NEW w \in Worker,
                        wpc[w] # "idle", run[w].token < job.token, wpc'[w] # wpc[w]
                 PROVE  job'.state = job.state /\ job'.token = job.token
      OBVIOUS
    <2>1. ASSUME NEW s \in Submitter, Submits(s) PROVE FALSE
      BY <2>1, SubmitterSteps
    <2>2. ASSUME NEW v \in Worker, Works(v) PROVE job' = job
      <3>1. v = w
        BY <2>2, WorkerLocal
      <3>2. ~MaySettle(w) /\ ~ClaimJob(w)
        BY DEF MaySettle, ClaimJob, IInv, TypeOK, Job
      <3> QED
        BY <2>2, <3>1, <3>2, WorkerSteps DEF SettleJob
    <2>3. CASE ExpireJobLease \/ Crash
      BY <2>3 DEF ExpireJobLease, Crash, stored, IInv, TypeOK, Job
    <2> QED
      BY <2>1, <2>2, <2>3 DEF Next, Submits, Works
  <1> QED
    BY <1>1, Invariance, PTL DEF Spec, StaleWorkerPowerless

=============================================================================
