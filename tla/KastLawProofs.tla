----------------------------- MODULE KastLawProofs -----------------------------
(***************************************************************************)
(* KastLaw for any number of runs, overlays, prefixes and foreign commits: *)
(* type correctness, that only sound variants reach the base branch, that  *)
(* memory tells what happened there, and that runs keep their worktrees.   *)
(*                                                                         *)
(* The invariant speaks of one run at a time.  A step of one run leaves    *)
(* the commits, worktrees and records of every other run alone, so only    *)
(* the run that takes it has to be looked at.                              *)
(***************************************************************************)
EXTENDS KastLaw, TLAPS

USE KastLawAssumption DEF KastLawAssumption

-----------------------------------------------------------------------------
(* The inductive invariant. *)

\* Where a run can be that has put a commit on the base branch.
Late == {"ref", "save", "cleanup", "done"}

Has(r) == \E i \in 1..Len(main) : main[i].by = r

\* What an outcome says of the base branch.
Truthful(r, outcome) ==
    IF outcome = "adopted" THEN Has(r) ELSE r \in blind \/ ~Has(r)

CommitInv(r) ==
    \A i \in 1..Len(main) : main[i].by = r =>
        /\ pc[r] \in Late
        /\ main[i].overlay = run[r].selected
        /\ main[i].overlay \in Overlay
        /\ variant[r][main[i].overlay].kind = "sound"
        /\ \A j \in 1..Len(main) : main[j].by = r => i = j

SelectionInv(r) ==
    /\ pc[r] \in {"adopt", "pick"} => run[r].selected \in Overlay
    /\ pc[r] = "pick" => variant[r][run[r].selected].kind = "sound"

RecordInv(r) ==
    /\ pc[r] = "ref" => Has(r)
    /\ pc[r] = "save" =>
         /\ run[r].outcome \in {"remembered", "founder-required", "rejected", "adopted"}
         /\ Truthful(r, run[r].outcome)
    /\ \A m \in memory : m.run = r =>
         pc[r] \in {"cleanup", "done"} /\ Truthful(r, m.outcome)

WorkspaceInv(r) ==
    \A o \in Overlay :
        LET w == WorkspaceOf(r, o)
        IN /\ Owns(r, o) => worktree[w] = r /\ branch[w] = r
           /\ (worktree[w] = r \/ branch[w] = r) => Owns(r, o) \/ r \in left
           /\ pc[r] = "idle" => ~Owns(r, o)
           /\ (pc[r] = "done" /\ Owns(r, o)) => r \in left

RunInv(r) == CommitInv(r) /\ SelectionInv(r) /\ RecordInv(r) /\ WorkspaceInv(r)

IInv == TypeOK /\ \A r \in Run : RunInv(r)

-----------------------------------------------------------------------------
(* Steps that do not concern a run. *)

\* The commits of q stay and no other is made.
CommitsKept(q) ==
    /\ Len(main) <= Len(main')
    /\ \A i \in 1..Len(main) : main'[i] = main[i]
    /\ \A i \in 1..Len(main') : i \notin 1..Len(main) => main'[i].by # q

\* So do its worktrees and its branches, and no other becomes its own.
WorkspacesKept(q) ==
    \A w \in Workspace :
        /\ worktree'[w] = q <=> worktree[w] = q
        /\ branch'[w] = q <=> branch[w] = q

Untouched(q) ==
    /\ CommitsKept(q)
    /\ WorkspacesKept(q)
    /\ pc'[q] = pc[q] /\ run'[q] = run[q] /\ variant'[q] = variant[q]
    /\ q \in blind' <=> q \in blind
    /\ q \in left' <=> q \in left
    /\ \A m \in memory' : m.run = q => m \in memory

\* A run nobody touches keeps its invariant.
LEMMA UntouchedInv ==
    ASSUME TypeOK, TypeOK', NEW q \in Run, RunInv(q), Untouched(q)
    PROVE  RunInv(q)'
<1>1. /\ main \in Seq(Commit) /\ main' \in Seq(Commit)
      /\ Len(main) \in Nat /\ Len(main') \in Nat
  BY DEF TypeOK
<1>2. \A i \in 1..Len(main') : main'[i].by = q => i \in 1..Len(main) /\ main'[i] = main[i]
  BY DEF Untouched, CommitsKept
<1>3. Has(q)' <=> Has(q)
  <2>1. Has(q)' => Has(q)
    BY <1>2 DEF Has
  <2>2. \A i \in 1..Len(main) : i \in 1..Len(main') /\ main'[i] = main[i]
    BY <1>1 DEF Untouched, CommitsKept
  <2> QED
    BY <2>1, <2>2 DEF Has
<1>4. CommitInv(q)'
  BY <1>2 DEF CommitInv, RunInv, Untouched
<1>5. SelectionInv(q)'
  BY DEF SelectionInv, RunInv, Untouched
<1>6. RecordInv(q)'
  BY <1>3 DEF RecordInv, RunInv, Untouched, Truthful
<1>7. WorkspaceInv(q)'
  <2>1. \A o \in Overlay : WorkspaceOf(q, o) \in Workspace
    BY DEF WorkspaceOf, Workspace
  <2>2. \A o \in Overlay : Owns(q, o)' <=> Owns(q, o)
    BY DEF Owns, Untouched
  <2>3. \A o \in Overlay : WorkspaceOf(q, o)' = WorkspaceOf(q, o)
    BY DEF WorkspaceOf
  <2>4. /\ WorkspaceInv(q) /\ pc'[q] = pc[q]
        /\ q \in left' <=> q \in left
        /\ \A w \in Workspace : /\ worktree'[w] = q <=> worktree[w] = q
                                /\ branch'[w] = q <=> branch[w] = q
    BY DEF RunInv, Untouched, WorkspacesKept
  <2> SUFFICES ASSUME NEW o \in Overlay
               PROVE  LET w == WorkspaceOf(q, o)
                      IN /\ Owns(q, o)' => worktree'[w] = q /\ branch'[w] = q
                         /\ (worktree'[w] = q \/ branch'[w] = q) => Owns(q, o)' \/ q \in left'
                         /\ pc'[q] = "idle" => ~Owns(q, o)'
                         /\ (pc'[q] = "done" /\ Owns(q, o)') => q \in left'
    BY <2>3 DEF WorkspaceInv
  <2> QED
    BY <2>1, <2>2, <2>4 DEF WorkspaceInv
<1> QED
  BY <1>4, <1>5, <1>6, <1>7 DEF RunInv

\* A step of one run that makes no commit.
LEMMA OneRun ==
    ASSUME IInv, TypeOK', NEW r \in Run, main' = main,
           \A q \in Run : q # r =>
              /\ pc'[q] = pc[q] /\ run'[q] = run[q] /\ variant'[q] = variant[q]
              /\ q \in blind' <=> q \in blind
              /\ q \in left' <=> q \in left
              /\ WorkspacesKept(q),
           \A m \in memory' : m.run = r \/ m \in memory,
           RunInv(r)'
    PROVE  IInv'
<1>1. \A q \in Run : q # r => CommitsKept(q)
  BY DEF CommitsKept, IInv, TypeOK
<1>2. \A q \in Run : q # r => Untouched(q)
  BY <1>1 DEF Untouched
<1>3. TypeOK
  BY DEF IInv
<1> QED
  BY <1>2, <1>3, UntouchedInv DEF IInv

-----------------------------------------------------------------------------
(* Initial states. *)

LEMMA InitInv == Init => IInv
<1> SUFFICES ASSUME Init PROVE IInv
  OBVIOUS
<1>1. TypeOK
  <2>1. NoVariant \in Variant
    BY DEF NoVariant, Variant, Kind
  <2>2. variant \in [Run -> [Overlay -> Variant]]
    BY <2>1 DEF Init
  <2>3. run \in [Run -> Locals]
    BY DEF Init, Locals, Outcome
  <2>4. main \in Seq(Commit)
    BY DEF Init
  <2> QED
    BY <2>2, <2>3, <2>4 DEF Init, TypeOK
<1>2. ASSUME NEW r \in Run PROVE RunInv(r)
  <2>1. Len(main) = 0
    BY DEF Init
  <2>2. CommitInv(r) /\ SelectionInv(r)
    BY <2>1 DEF Init, CommitInv, SelectionInv
  <2>3. RecordInv(r)
    BY DEF Init, RecordInv
  <2>4. WorkspaceInv(r)
    <3> SUFFICES ASSUME NEW o \in Overlay
                 PROVE  LET w == WorkspaceOf(r, o)
                        IN ~Owns(r, o) /\ worktree[w] = Nobody /\ branch[w] = Nobody
      BY DEF WorkspaceInv
    <3>1. WorkspaceOf(r, o) \in Workspace
      BY DEF WorkspaceOf, Workspace
    <3> QED
      BY <3>1 DEF Init, NoVariant, Owns
  <2> QED
    BY <2>2, <2>3, <2>4 DEF RunInv
<1> QED
  BY <1>1, <1>2 DEF IInv

-----------------------------------------------------------------------------
(* The run that takes a step. *)

\* Before its adoption a run has neither commits nor records.
LEMMA Early ==
    ASSUME IInv, NEW r \in Run, pc[r] \notin Late, main' = main, memory' = memory
    PROVE  /\ ~Has(r)'
           /\ CommitInv(r)'
           /\ \A m \in memory' : m.run # r
<1>1. RunInv(r)
  BY DEF IInv
<1>2. \A i \in 1..Len(main) : main[i].by # r
  BY <1>1 DEF RunInv, CommitInv
<1>3. \A m \in memory : m.run # r
  BY <1>1 DEF RunInv, RecordInv, Late
<1> QED
  BY <1>2, <1>3 DEF Has, CommitInv

\* A run that keeps its variants and goes on keeps its workspaces.
LEMMA SameWorkspaces ==
    ASSUME IInv, NEW r \in Run, pc'[r] \notin {"done", "idle"},
           UNCHANGED <<worktree, branch, left>>,
           \A o \in Overlay : variant'[r][o].workspace = variant[r][o].workspace
    PROVE  WorkspaceInv(r)'
<1>1. WorkspaceInv(r)
  BY DEF IInv, RunInv
<1>2. \A o \in Overlay : Owns(r, o)' <=> Owns(r, o)
  BY DEF Owns
<1> QED
  BY <1>1, <1>2 DEF WorkspaceInv, WorkspaceOf

\* A run that has made no commit and goes on without one.
LEMMA EarlyStep ==
    ASSUME IInv, TypeOK', NEW r \in Run, pc[r] \notin Late,
           UNCHANGED <<git, memory, history>>,
           \A q \in Run : q # r =>
              pc'[q] = pc[q] /\ run'[q] = run[q] /\ variant'[q] = variant[q],
           pc'[r] \notin {"done", "idle", "ref"},
           pc'[r] = "save" => run'[r].outcome \in {"remembered", "founder-required", "rejected"},
           \A o \in Overlay : variant'[r][o].workspace = variant[r][o].workspace,
           SelectionInv(r)'
    PROVE  IInv'
<1>1. /\ main' = main /\ worktree' = worktree /\ branch' = branch
      /\ blind' = blind /\ left' = left
  BY DEF git, history
<1>3. ~Has(r)' /\ CommitInv(r)' /\ \A m \in memory' : m.run # r
  BY <1>1, Early
<1>4. WorkspaceInv(r)'
  BY <1>1, SameWorkspaces
<1>5. RecordInv(r)'
  BY <1>3 DEF RecordInv, Truthful
<1>6. RunInv(r)'
  BY <1>3, <1>4, <1>5 DEF RunInv
<1>7. \A q \in Run : WorkspacesKept(q)
  BY <1>1 DEF WorkspacesKept
<1> QED
  BY <1>1, <1>6, <1>7, OneRun

LEMMA BeginStep == ASSUME IInv, NEW r \in Run, Begin(r) PROVE IInv'
<1>1. TypeOK
  BY DEF IInv
<1>2. /\ pc[r] = "idle" /\ pc[r] \notin Late
      /\ UNCHANGED <<git, memory, faults, history>>
      /\ faults' >= faults
  BY <1>1 DEF Begin, Late, TypeOK
<1>3. \A o \in Overlay : ~variant[r][o].workspace
  BY <1>2 DEF IInv, RunInv, WorkspaceInv, Owns
<1>4. Len(main) \in Nat
  BY <1>1 DEF TypeOK
<1>5. CASE /\ run' = [run EXCEPT ![r].base = HeadSha, ![r].outcome = "no-op"]
           /\ Goto(r, "cleanup")
           /\ UNCHANGED variant
  <2>1. TypeOK'
    <3>4. run[r] \in Locals /\ HeadSha \in Nat
      BY <1>1, <1>4 DEF TypeOK, HeadSha
    <3>1. [run[r] EXCEPT !.base = HeadSha, !.outcome = "no-op"] \in Locals
      BY <3>4 DEF Locals, Outcome
    <3>2. run' \in [Run -> Locals]
      BY <1>1, <1>5, <3>1 DEF TypeOK
    <3>3. pc' = [pc EXCEPT ![r] = "cleanup"]
      BY <1>5 DEF Goto
    <3> QED
      BY <1>1, <1>2, <1>5, <3>2, <3>3 DEF TypeOK, git, history
  <2>2. /\ \A q \in Run : q # r => pc'[q] = pc[q] /\ run'[q] = run[q]
        /\ pc'[r] = "cleanup"
    BY <1>1, <1>5 DEF TypeOK, Goto
  <2>3. SelectionInv(r)'
    BY <2>2 DEF SelectionInv
  <2> QED
    BY <1>2, <1>5, <2>1, <2>2, <2>3, EarlyStep
<1>6. ASSUME NEW outcome \in {"remembered", "founder-required"},
             run' = [run EXCEPT ![r].base = HeadSha, ![r].outcome = outcome],
             Goto(r, "save"), UNCHANGED variant
      PROVE  IInv'
  <2>1. TypeOK'
    <3>4. run[r] \in Locals /\ HeadSha \in Nat
      BY <1>1, <1>4 DEF TypeOK, HeadSha
    <3>1. [run[r] EXCEPT !.base = HeadSha, !.outcome = outcome] \in Locals
      BY <3>4 DEF Locals, Outcome
    <3>2. run' \in [Run -> Locals]
      BY <1>1, <1>6, <3>1 DEF TypeOK
    <3>3. pc' = [pc EXCEPT ![r] = "save"]
      BY <1>6 DEF Goto
    <3> QED
      BY <1>1, <1>2, <1>6, <3>2, <3>3 DEF TypeOK, git, history
  <2>2. /\ \A q \in Run : q # r => pc'[q] = pc[q] /\ run'[q] = run[q]
        /\ pc'[r] = "save"
        /\ run'[r].outcome = outcome
    BY <1>1, <1>6 DEF TypeOK, Goto, Locals
  <2>3. SelectionInv(r)'
    BY <2>2 DEF SelectionInv
  <2> QED
    BY <1>2, <1>6, <2>1, <2>2, <2>3, EarlyStep
<1>7. CASE /\ run' = [run EXCEPT ![r].base = HeadSha]
           /\ variant' = [variant EXCEPT ![r] =
                            [o \in Overlay |-> [NoVariant EXCEPT !.stage = "todo"]]]
           /\ Goto(r, "propose")
  <2> DEFINE todo == [NoVariant EXCEPT !.stage = "todo"]
  <2>1. todo \in Variant /\ todo.workspace = FALSE
    BY DEF NoVariant, Variant, Kind
  <2> HIDE DEF todo
  <2>2. variant' = [variant EXCEPT ![r] = [o \in Overlay |-> todo]]
    BY <1>7 DEF todo
  <2>3. run' \in [Run -> Locals] /\ variant' \in [Run -> [Overlay -> Variant]]
    <3>1. run' \in [Run -> Locals]
      BY <1>1, <1>4, <1>7 DEF TypeOK, Locals, HeadSha
    <3>2. [o \in Overlay |-> todo] \in [Overlay -> Variant]
      BY <2>1
    <3>3. variant' \in [Run -> [Overlay -> Variant]]
      BY <1>1, <2>2, <3>2 DEF TypeOK
    <3> QED
      BY <3>1, <3>3
  <2>4. pc' \in [Run -> {"idle", "propose", "verify", "adjudicate", "adopt", "pick", "ref",
                        "save", "cleanup", "done"}]
    BY <1>1, <1>7 DEF TypeOK, Goto
  <2>5. TypeOK'
    BY <1>1, <1>2, <2>3, <2>4 DEF TypeOK, git, history
  <2>6. /\ \A q \in Run : q # r =>
              pc'[q] = pc[q] /\ run'[q] = run[q] /\ variant'[q] = variant[q]
        /\ pc'[r] = "propose"
    BY <1>1, <1>7 DEF TypeOK, Goto
  <2>7. \A o \in Overlay : variant'[r][o].workspace = FALSE
    BY <1>1, <2>1, <2>2 DEF TypeOK
  <2>8. SelectionInv(r)'
    BY <2>6 DEF SelectionInv
  <2>9. \A o \in Overlay : variant[r][o].workspace = FALSE
    BY <1>1, <1>3 DEF TypeOK, Variant
  <2> QED
    BY <1>2, <2>5, <2>6, <2>7, <2>8, <2>9, EarlyStep
<1> QED
  BY <1>5, <1>6, <1>7 DEF Begin

\* Mutate and Verify change only a variant before it is adopted.
LEMMA VariantStep ==
    ASSUME IInv, NEW r \in Run, NEW o \in Overlay, NEW v \in Variant,
           pc[r] \in {"propose", "verify"},
           v.workspace = variant[r][o].workspace,
           variant' = [variant EXCEPT ![r] = [@ EXCEPT ![o] = v]],
           UNCHANGED <<git, memory, pc, run, faults, history>>
    PROVE  IInv'
<1>1. TypeOK
  BY DEF IInv
<1>2. variant' \in [Run -> [Overlay -> Variant]]
  BY <1>1 DEF TypeOK
<1>3. TypeOK'
  BY <1>1, <1>2 DEF TypeOK, git, history
<1>4. /\ \A q \in Run : q # r => variant'[q] = variant[q]
      /\ \A p \in Overlay : variant'[r][p].workspace = variant[r][p].workspace
  BY <1>1 DEF TypeOK
<1>5. SelectionInv(r)'
  BY DEF SelectionInv
<1>6. pc[r] \notin Late /\ pc'[r] \notin {"done", "idle", "ref", "save"} /\ faults' >= faults
  BY <1>1 DEF Late, TypeOK
<1> QED
  BY <1>3, <1>4, <1>5, <1>6, EarlyStep

LEMMA MutateStep == ASSUME IInv, NEW r \in Run, NEW o \in Overlay, Mutate(r, o) PROVE IInv'
<1>1. variant \in [Run -> [Overlay -> Variant]] /\ variant[r][o] \in Variant
  BY DEF IInv, TypeOK
<1>2. pc[r] = "propose" /\ UNCHANGED <<git, memory, pc, run, faults, history>>
  BY DEF Mutate
<1>3. ASSUME NEW k \in Kind,
             variant' = [variant EXCEPT ![r][o].stage = "proposed", ![r][o].kind = k]
      PROVE  IInv'
  <2> DEFINE v == [variant[r][o] EXCEPT !.stage = "proposed", !.kind = k]
  <2>1. v \in Variant /\ v.workspace = variant[r][o].workspace
    BY <1>1 DEF Variant
  <2>2. variant' = [variant EXCEPT ![r] = [@ EXCEPT ![o] = v]]
    BY <1>1, <1>3
  <2> HIDE DEF v
  <2> QED
    BY <1>2, <2>1, <2>2, VariantStep
<1>4. CASE variant' = [variant EXCEPT ![r][o].stage = "lost"]
  <2> DEFINE v == [variant[r][o] EXCEPT !.stage = "lost"]
  <2>1. v \in Variant /\ v.workspace = variant[r][o].workspace
    BY <1>1 DEF Variant
  <2>2. variant' = [variant EXCEPT ![r] = [@ EXCEPT ![o] = v]]
    BY <1>1, <1>4
  <2> HIDE DEF v
  <2> QED
    BY <1>2, <2>1, <2>2, VariantStep
<1> QED
  BY <1>3, <1>4 DEF Mutate

LEMMA VerifyStep == ASSUME IInv, NEW r \in Run, NEW o \in Overlay, Verify(r, o) PROVE IInv'
<1>1. variant \in [Run -> [Overlay -> Variant]] /\ variant[r][o] \in Variant
  BY DEF IInv, TypeOK
<1>2. pc[r] = "verify" /\ UNCHANGED <<git, memory, pc, run, faults, history>>
  BY DEF Verify
<1>3. PICK stage \in {"verified", "lost"} : variant' = [variant EXCEPT ![r][o].stage = stage]
  BY DEF Verify
<1> DEFINE v == [variant[r][o] EXCEPT !.stage = stage]
<1>4. v \in Variant /\ v.workspace = variant[r][o].workspace
  BY <1>1 DEF Variant
<1>5. variant' = [variant EXCEPT ![r] = [@ EXCEPT ![o] = v]]
  BY <1>1, <1>3
<1> HIDE DEF v
<1> QED
  BY <1>2, <1>4, <1>5, VariantStep

\* The outcome of a run is one of its locals.
LEMMA OutcomeSet ==
    ASSUME TypeOK, NEW r \in Run, NEW outcome \in Outcome
    PROVE  [run EXCEPT ![r].outcome = outcome] \in [Run -> Locals]
<1>1. run \in [Run -> Locals]
  BY DEF TypeOK
<1>2. [run[r] EXCEPT !.outcome = outcome] \in Locals
  BY <1>1 DEF Locals
<1> QED
  BY <1>1, <1>2

\* A run that ends its proposals, its verifications or its adjudication.
LEMMA ConcludeStep ==
    ASSUME IInv, NEW r \in Run, pc[r] \notin Late, Conclude(r, "rejected"),
           UNCHANGED <<git, memory, variant, history>>,
           faults' \in 0..MaxFaults, faults' >= faults
    PROVE  IInv'
<1>1. TypeOK
  BY DEF IInv
<1>2. TypeOK'
  BY <1>1, OutcomeSet DEF TypeOK, git, history, Conclude, Goto, Outcome
<1>3. /\ \A q \in Run : q # r => pc'[q] = pc[q] /\ run'[q] = run[q]
      /\ pc'[r] = "save" /\ run'[r].outcome = "rejected"
  BY <1>1 DEF TypeOK, Conclude, Goto, Locals
<1>4. SelectionInv(r)'
  BY <1>3 DEF SelectionInv
<1> QED
  BY <1>2, <1>3, <1>4, EarlyStep

LEMMA GotoStep ==
    ASSUME IInv, NEW r \in Run, pc[r] \in {"propose", "verify"},
           NEW stage \in {"verify", "adjudicate"}, Goto(r, stage),
           UNCHANGED <<git, memory, run, variant, faults, history>>
    PROVE  IInv'
<1>1. TypeOK
  BY DEF IInv
<1>2. TypeOK'
  BY <1>1 DEF TypeOK, git, history, Goto
<1>3. /\ \A q \in Run : q # r => pc'[q] = pc[q]
      /\ pc'[r] = stage
  BY <1>1 DEF TypeOK, Goto
<1>4. SelectionInv(r)'
  BY <1>3 DEF SelectionInv
<1>5. pc[r] \notin Late /\ faults' >= faults
  BY <1>1 DEF Late, TypeOK
<1> QED
  BY <1>2, <1>3, <1>4, <1>5, EarlyStep

LEMMA ProposedStep == ASSUME IInv, NEW r \in Run, Proposed(r) \/ Verified(r) PROVE IInv'
<1>1. faults \in 0..MaxFaults /\ pc[r] \in {"propose", "verify"} /\ pc[r] \notin Late
  BY DEF IInv, TypeOK, Proposed, Verified, Late
<1>2. UNCHANGED <<git, memory, variant, faults, history>>
  BY DEF Proposed, Verified
<1>3. \/ Conclude(r, "rejected")
      \/ \E stage \in {"verify", "adjudicate"} : Goto(r, stage) /\ UNCHANGED run
  BY DEF Proposed, Verified
<1>4. faults' \in 0..MaxFaults /\ faults' >= faults
  BY <1>1, <1>2
<1> QED
  BY <1>1, <1>2, <1>3, <1>4, ConcludeStep, GotoStep

\* An outcome is a local of its run.
LEMMA OutcomeTyped ==
    ASSUME TypeOK, NEW r \in Run, NEW outcome \in Outcome
    PROVE  [run EXCEPT ![r].outcome = outcome] \in [Run -> Locals]
<1>1. run \in [Run -> Locals] /\ run[r] \in Locals
  BY DEF TypeOK
<1>2. [run[r] EXCEPT !.outcome = outcome] \in Locals
  BY <1>1 DEF Locals
<1>3. [run EXCEPT ![r].outcome = outcome] = [run EXCEPT ![r] = [run[r] EXCEPT !.outcome = outcome]]
  BY <1>1 DEF Locals
<1> QED
  BY <1>1, <1>2, <1>3

LEMMA AdjudicateStep == ASSUME IInv, NEW r \in Run, Adjudicate(r) PROVE IInv'
<1>1. TypeOK
  BY DEF IInv
<1>2. /\ pc[r] = "adjudicate" /\ pc[r] \notin Late
      /\ UNCHANGED <<git, memory, variant, history>>
  BY DEF Adjudicate, Late
<1>3. CASE Conclude(r, "rejected") /\ UNCHANGED faults
  <2>1. faults' \in 0..MaxFaults /\ faults' >= faults
    BY <1>1, <1>3 DEF TypeOK
  <2> QED
    BY <1>2, <1>3, <2>1, ConcludeStep
<1>4. CASE Fault /\ run' = [run EXCEPT ![r].outcome = "thrown"] /\ Goto(r, "cleanup")
  <2>1. TypeOK'
    <3>1. run' \in [Run -> Locals]
      BY <1>1, <1>4, OutcomeTyped DEF Outcome
    <3>2. faults' \in 0..MaxFaults
      BY <1>1, <1>4 DEF TypeOK, Fault
    <3> QED
      BY <1>1, <1>2, <1>4, <3>1, <3>2 DEF TypeOK, git, history, Goto
  <2>2. /\ \A q \in Run : q # r => pc'[q] = pc[q] /\ run'[q] = run[q]
        /\ pc'[r] = "cleanup"
        /\ faults' >= faults
    BY <1>1, <1>4 DEF TypeOK, Goto, Fault
  <2>3. SelectionInv(r)'
    BY <2>2 DEF SelectionInv
  <2> QED
    BY <1>2, <2>1, <2>2, <2>3, EarlyStep
<1>5. ASSUME NEW o \in Overlay, UNCHANGED faults,
             \/ run' = [run EXCEPT ![r].selected = o] /\ Goto(r, "adopt")
             \/ Conclude(r, "rejected")
      PROVE  IInv'
  <2>1. faults' \in 0..MaxFaults /\ faults' >= faults
    BY <1>1, <1>5 DEF TypeOK
  <2>2. CASE Conclude(r, "rejected")
    BY <1>2, <2>1, <2>2, ConcludeStep
  <2>3. CASE run' = [run EXCEPT ![r].selected = o] /\ Goto(r, "adopt")
    <3>1. TypeOK'
      BY <1>1, <1>2, <2>1, <2>3 DEF TypeOK, git, history, Goto, Locals
    <3>2. /\ \A q \in Run : q # r => pc'[q] = pc[q] /\ run'[q] = run[q]
          /\ pc'[r] = "adopt" /\ run'[r].selected = o
      BY <1>1, <2>3 DEF TypeOK, Goto, Locals
    <3>3. SelectionInv(r)'
      BY <3>2 DEF SelectionInv
    <3> QED
      BY <1>2, <2>1, <3>1, <3>2, <3>3, EarlyStep
  <2> QED
    BY <1>5, <2>2, <2>3
<1> QED
  BY <1>3, <1>4, <1>5 DEF Adjudicate, At

LEMMA CheckBaseStep == ASSUME IInv, NEW r \in Run, CheckBase(r) PROVE IInv'
<1>1. TypeOK
  BY DEF IInv
<1>2. /\ pc[r] = "adopt" /\ pc[r] \notin Late
      /\ UNCHANGED <<git, memory, variant, faults, history>>
      /\ faults' \in 0..MaxFaults /\ faults' >= faults
  BY <1>1 DEF CheckBase, Late, TypeOK
<1>3. CASE Conclude(r, "rejected")
  BY <1>2, <1>3, ConcludeStep
<1>4. CASE /\ MayAdopt(variant[r][run[r].selected].kind)
           /\ Goto(r, "pick")
           /\ UNCHANGED run
  <2>1. TypeOK'
    BY <1>1, <1>2, <1>4 DEF TypeOK, git, history, Goto
  <2>2. /\ \A q \in Run : q # r => pc'[q] = pc[q]
        /\ pc'[r] = "pick"
    BY <1>1, <1>4 DEF TypeOK, Goto
  <2>3. run[r].selected \in Overlay
    BY <1>2 DEF IInv, RunInv, SelectionInv
  <2>4. variant[r][run[r].selected].kind \in Kind
    BY <1>1, <2>3 DEF TypeOK, Variant
  <2>5. variant[r][run[r].selected].kind = "sound"
    BY <1>4, <2>4 DEF MayAdopt, Verification, Kind
  <2>6. SelectionInv(r)'
    BY <1>2, <1>4, <2>3, <2>5 DEF SelectionInv
  <2> QED
    BY <1>2, <1>4, <2>1, <2>2, <2>6, EarlyStep
<1> QED
  BY <1>3, <1>4 DEF CheckBase

\* A commit at the end of the base branch.
LEMMA AppendCommit ==
    ASSUME TypeOK, NEW e \in Commit, main' = Append(main, e)
    PROVE  /\ main' \in Seq(Commit)
           /\ Len(main) \in Nat /\ Len(main') = Len(main) + 1
           /\ \A i \in 1..Len(main) : main'[i] = main[i]
           /\ main'[Len(main')] = e
           /\ 1..Len(main') = 1..Len(main) \cup {Len(main')}
           /\ \A q : e.by # q => CommitsKept(q)
<1>1. main \in Seq(Commit)
  BY DEF TypeOK
<1>2. /\ main' \in Seq(Commit)
      /\ Len(main) \in Nat /\ Len(main') = Len(main) + 1
      /\ \A i \in 1..Len(main) : main'[i] = main[i]
      /\ main'[Len(main')] = e
  BY <1>1
<1>3. 1..Len(main') = 1..Len(main) \cup {Len(main')}
  BY <1>2
<1>4. \A q : e.by # q => CommitsKept(q)
  BY <1>2, <1>3 DEF CommitsKept
<1> QED
  BY <1>2, <1>3, <1>4

LEMMA CherryPickStep == ASSUME IInv, NEW r \in Run, CherryPick(r) PROVE IInv'
<1>1. TypeOK /\ RunInv(r)
  BY DEF IInv
<1>2. /\ pc[r] = "pick" /\ pc[r] \notin Late
      /\ UNCHANGED <<worktree, branch, memory, variant, left>>
      /\ faults' \in 0..MaxFaults /\ faults' >= faults
  BY <1>1 DEF CherryPick, Fault, Late, TypeOK
<1>3. CASE Conclude(r, "rejected") /\ UNCHANGED <<main, blind>>
  BY <1>2, <1>3, ConcludeStep DEF git, history
<1>4. ASSUME main' = Append(main, [by |-> r, overlay |-> run[r].selected]),
             \/ Goto(r, "ref") /\ UNCHANGED <<run, blind>>
             \/ Conclude(r, "rejected") /\ blind' = blind \cup {r}
      PROVE  IInv'
  <2> DEFINE e == [by |-> r, overlay |-> run[r].selected]
  <2>1. /\ run[r].selected \in Overlay
        /\ variant[r][run[r].selected].kind = "sound"
    BY <1>1, <1>2 DEF RunInv, SelectionInv
  <2>2. e \in Commit /\ e.by = r /\ e.overlay = run[r].selected
    BY <2>1 DEF Commit
  <2> HIDE DEF e
  <2>3. /\ main' \in Seq(Commit)
        /\ Len(main) \in Nat /\ Len(main') = Len(main) + 1
        /\ \A i \in 1..Len(main) : main'[i] = main[i]
        /\ main'[Len(main')] = e
        /\ 1..Len(main') = 1..Len(main) \cup {Len(main')}
        /\ \A q : q # r => CommitsKept(q)
    BY <1>1, <1>4, <2>2, AppendCommit DEF e
  <2>4. TypeOK'
    <3>1. CASE Goto(r, "ref") /\ UNCHANGED <<run, blind>>
      BY <1>1, <1>2, <2>3, <3>1 DEF TypeOK, Goto
    <3>2. CASE Conclude(r, "rejected") /\ blind' = blind \cup {r}
      BY <1>1, <1>2, <2>3, <3>2, OutcomeSet DEF TypeOK, Goto, Conclude, Outcome
    <3> QED
      BY <1>4, <3>1, <3>2
  <2>5. /\ \A q \in Run : q # r => pc'[q] = pc[q] /\ run'[q] = run[q]
        /\ \A q \in Run : q # r => (q \in blind' <=> q \in blind)
        /\ run'[r].selected = run[r].selected
        /\ \/ pc'[r] = "ref"
           \/ pc'[r] = "save" /\ run'[r].outcome = "rejected" /\ r \in blind'
    BY <1>1, <1>4 DEF TypeOK, Goto, Conclude, Locals
  <2>6. \A i \in 1..Len(main) : main[i].by # r
    BY <1>1, <1>2 DEF RunInv, CommitInv
  <2>7. \A i \in 1..Len(main') : main'[i].by = r => i = Len(main')
    BY <2>3, <2>6
  <2>8. CommitInv(r)'
    BY <1>2, <2>1, <2>2, <2>3, <2>5, <2>7 DEF CommitInv, Late
  <2>9. Has(r)'
    BY <2>2, <2>3 DEF Has
  <2>10. SelectionInv(r)' /\ RecordInv(r)'
    <3>1. \A m \in memory' : m.run # r
      BY <1>1, <1>2 DEF RecordInv, RunInv
    <3> QED
      BY <2>5, <2>9, <3>1 DEF SelectionInv, RecordInv, Truthful
  <2>11. WorkspaceInv(r)'
    BY <1>2, <2>5, SameWorkspaces
  <2>12. \A q \in Run : q # r => Untouched(q)
    BY <1>2, <2>3, <2>5 DEF Untouched, WorkspacesKept
  <2> QED
    BY <1>1, <2>4, <2>8, <2>10, <2>11, <2>12, UntouchedInv DEF IInv, RunInv
<1> QED
  BY <1>3, <1>4 DEF CherryPick

\* The steps after the pick change neither the base branch nor what was selected.
LEMMA LateCommits ==
    ASSUME IInv, NEW r \in Run, main' = main, variant'[r] = variant[r],
           run'[r].selected = run[r].selected, pc'[r] \in Late
    PROVE  CommitInv(r)' /\ SelectionInv(r)' /\ (Has(r)' <=> Has(r))
<1>1. CommitInv(r)
  BY DEF IInv, RunInv
<1> QED
  BY <1>1 DEF CommitInv, SelectionInv, Has, Late

LEMMA ReadRefStep == ASSUME IInv, NEW r \in Run, ReadRef(r) PROVE IInv'
<1>1. TypeOK /\ RunInv(r)
  BY DEF IInv
<1>2. /\ pc[r] = "ref" /\ pc[r] # "done"
      /\ UNCHANGED <<git, memory, variant, left>>
      /\ faults' \in 0..MaxFaults /\ faults' >= faults
      /\ blind' \subseteq Run
      /\ \A q \in Run : q # r => (q \in blind' <=> q \in blind)
  BY <1>1 DEF ReadRef, Fault, TypeOK
<1>3. PICK outcome \in {"adopted", "rejected"} :
         Conclude(r, outcome) /\ (outcome = "rejected" => r \in blind')
  BY DEF ReadRef
<1>4. TypeOK'
  BY <1>1, <1>2, <1>3, OutcomeSet DEF TypeOK, git, history, Conclude, Goto, Outcome
<1>5. /\ \A q \in Run : q # r => pc'[q] = pc[q] /\ run'[q] = run[q] /\ variant'[q] = variant[q]
      /\ pc'[r] = "save" /\ run'[r].outcome = outcome
      /\ run'[r].selected = run[r].selected
  BY <1>1, <1>2, <1>3 DEF TypeOK, Conclude, Goto, Locals
<1>6. main' = main /\ worktree' = worktree /\ branch' = branch
  BY <1>2 DEF git
<1>7. CommitInv(r)' /\ SelectionInv(r)' /\ (Has(r)' <=> Has(r))
  BY <1>2, <1>5, <1>6, LateCommits DEF Late
<1>8. Has(r) /\ \A m \in memory : m.run # r
  BY <1>1, <1>2 DEF RunInv, RecordInv
<1>9. RecordInv(r)'
  BY <1>2, <1>3, <1>5, <1>7, <1>8 DEF RecordInv, Truthful
<1>10. WorkspaceInv(r)'
  BY <1>2, <1>5, <1>6, SameWorkspaces
<1>11. \A q \in Run : WorkspacesKept(q)
  BY <1>6 DEF WorkspacesKept
<1> QED
  BY <1>2, <1>4, <1>5, <1>6, <1>7, <1>9, <1>10, <1>11, OneRun DEF RunInv

LEMMA SaveStep == ASSUME IInv, NEW r \in Run, Save(r) PROVE IInv'
<1>1. TypeOK /\ RunInv(r)
  BY DEF IInv
<1>2. /\ pc[r] = "save" /\ pc[r] # "done"
      /\ Goto(r, "cleanup")
      /\ UNCHANGED <<git, variant, history>>
      /\ faults' \in 0..MaxFaults /\ faults' >= faults
  BY <1>1 DEF Save, Fault, TypeOK
<1>3. /\ run[r].outcome \in {"remembered", "founder-required", "rejected", "adopted"}
      /\ Truthful(r, run[r].outcome)
      /\ \A m \in memory : m.run # r
  BY <1>1, <1>2 DEF RunInv, RecordInv
<1> DEFINE kept == [run |-> r, outcome |-> run[r].outcome]
<1>4. \/ memory' = memory \cup {kept} /\ run' = run
      \/ run' = [run EXCEPT ![r].outcome = "thrown"] /\ memory' = memory
  BY DEF Save
<1>5. kept \in Memory /\ kept.run = r /\ kept.outcome = run[r].outcome
  BY <1>3 DEF Memory
<1> HIDE DEF kept
<1>6. TypeOK'
  <2>1. memory' \subseteq Memory
    BY <1>1, <1>4, <1>5 DEF TypeOK
  <2>2. run' \in [Run -> Locals]
    <3>1. [run EXCEPT ![r].outcome = "thrown"] \in [Run -> Locals]
      BY <1>1, OutcomeTyped DEF Outcome
    <3> QED
      BY <1>1, <1>4, <3>1 DEF TypeOK
  <2> QED
    BY <1>1, <1>2, <2>1, <2>2 DEF TypeOK, git, history, Goto
<1>7. /\ \A q \in Run : q # r => pc'[q] = pc[q] /\ run'[q] = run[q] /\ variant'[q] = variant[q]
      /\ pc'[r] = "cleanup"
      /\ run'[r].selected = run[r].selected
  BY <1>1, <1>2, <1>4 DEF TypeOK, Goto, Locals
<1>8. main' = main /\ worktree' = worktree /\ branch' = branch /\ blind' = blind /\ left' = left
  BY <1>2 DEF git, history
<1>9. CommitInv(r)' /\ SelectionInv(r)' /\ (Has(r)' <=> Has(r))
  BY <1>2, <1>7, <1>8, LateCommits DEF Late
<1>10. RecordInv(r)'
  <2>1. \A m \in memory' : m.run = r => m = kept
    BY <1>3, <1>4
  <2> QED
    BY <1>3, <1>5, <1>7, <1>8, <1>9, <2>1 DEF RecordInv, Truthful
<1>11. WorkspaceInv(r)'
  BY <1>2, <1>7, <1>8, SameWorkspaces
<1>12. \A q \in Run : WorkspacesKept(q)
  BY <1>8 DEF WorkspacesKept
<1>13. \A m \in memory' : m.run = r \/ m \in memory
  BY <1>4, <1>5
<1> QED
  BY <1>2, <1>6, <1>7, <1>8, <1>9, <1>10, <1>11, <1>12, <1>13, OneRun DEF RunInv

\* A run at its end keeps the truth of its records.
LEMMA LateRecords ==
    ASSUME IInv, NEW r \in Run, Has(r)' <=> Has(r), memory' = memory, blind' = blind,
           pc'[r] \in {"cleanup", "done"}
    PROVE  RecordInv(r)'
<1>1. RecordInv(r)
  BY DEF IInv, RunInv
<1> QED
  BY <1>1 DEF RecordInv, Truthful

LEMMA ReturnStep == ASSUME IInv, NEW r \in Run, Return(r) PROVE IInv'
<1>1. TypeOK /\ RunInv(r)
  BY DEF IInv
<1>2. /\ pc[r] = "cleanup"
      /\ UNCHANGED <<git, memory, run, variant, faults, history>>
      /\ \A o \in Overlay : ~Owns(r, o)
  BY <1>1 DEF Return
<1>3. TypeOK'
  BY <1>1, <1>2 DEF TypeOK, git, history, Return, Goto
<1>4. /\ \A q \in Run : q # r => pc'[q] = pc[q]
      /\ pc'[r] = "done"
  BY <1>1 DEF TypeOK, Return, Goto
<1>5. /\ main' = main /\ worktree' = worktree /\ branch' = branch
      /\ blind' = blind /\ left' = left
  BY <1>2 DEF git, history
<1>6. CommitInv(r)' /\ SelectionInv(r)' /\ (Has(r)' <=> Has(r))
  BY <1>2, <1>4, <1>5, LateCommits DEF Late
<1>7. RecordInv(r)'
  BY <1>2, <1>4, <1>5, <1>6, LateRecords
<1>8. WorkspaceInv(r)'
  <2>1. \A o \in Overlay : ~Owns(r, o)' /\ WorkspaceOf(r, o)' = WorkspaceOf(r, o)
    BY <1>2 DEF Owns, WorkspaceOf
  <2> QED
    BY <1>1, <1>2, <1>4, <1>5, <2>1 DEF RunInv, WorkspaceInv
<1>9. \A q \in Run : WorkspacesKept(q)
  BY <1>5 DEF WorkspacesKept
<1> QED
  BY <1>2, <1>3, <1>4, <1>5, <1>6, <1>7, <1>8, <1>9, OneRun DEF RunInv

LEMMA CrashStep == ASSUME IInv, NEW r \in Run, Crash(r) PROVE IInv'
<1>1. TypeOK /\ RunInv(r)
  BY DEF IInv
<1>2. /\ UNCHANGED <<git, memory, variant, blind>>
      /\ faults' \in 0..MaxFaults
      /\ left' = left \cup {r}
  BY <1>1 DEF Crash, Fault, TypeOK
<1>3. TypeOK'
  BY <1>1, <1>2, OutcomeSet DEF TypeOK, git, Crash, Goto, Outcome
<1>4. /\ \A q \in Run : q # r => pc'[q] = pc[q] /\ run'[q] = run[q]
      /\ pc'[r] = "done" /\ run'[r].selected = run[r].selected
  BY <1>1 DEF TypeOK, Crash, Goto, Locals
<1>5. main' = main /\ worktree' = worktree /\ branch' = branch
  BY <1>2 DEF git
<1>6. CommitInv(r)' /\ SelectionInv(r)' /\ (Has(r)' <=> Has(r))
  BY <1>2, <1>4, <1>5, LateCommits DEF Late
<1>7. RecordInv(r)'
  BY <1>2, <1>4, <1>6, LateRecords
<1>8. WorkspaceInv(r)'
  <2>1. \A o \in Overlay :
           (Owns(r, o)' <=> Owns(r, o)) /\ WorkspaceOf(r, o)' = WorkspaceOf(r, o)
    BY <1>2 DEF Owns, WorkspaceOf
  <2> QED
    BY <1>1, <1>2, <1>4, <1>5, <2>1 DEF RunInv, WorkspaceInv
<1>9. \A q \in Run : WorkspacesKept(q)
  BY <1>5 DEF WorkspacesKept
<1> QED
  BY <1>2, <1>3, <1>4, <1>5, <1>6, <1>7, <1>8, <1>9, OneRun DEF RunInv

\* A worktree is one run's at most, so giving one to a run or taking it away does
\* not concern the others.
LEMMA CreateWorkspaceStep ==
    ASSUME IInv, NEW r \in Run, NEW o \in Overlay, CreateWorkspace(r, o) PROVE IInv'
<1> DEFINE w == WorkspaceOf(r, o)
<1>1. TypeOK /\ RunInv(r) /\ w \in Workspace
  BY DEF IInv, WorkspaceOf, Workspace
<1>2. /\ pc[r] = "propose" /\ pc[r] \notin Late
      /\ UNCHANGED <<main, memory, pc, run, blind>>
  BY DEF CreateWorkspace, Late
<1>3. variant[r][o] \in Variant /\ variant \in [Run -> [Overlay -> Variant]]
  BY <1>1 DEF TypeOK
<1>4. SelectionInv(r)'
  BY <1>2 DEF SelectionInv
<1>5. CommitInv(r)' /\ RecordInv(r)'
  <2>1. ~Has(r)' /\ CommitInv(r)' /\ \A m \in memory' : m.run # r
    BY <1>2, Early
  <2> QED
    BY <1>2, <2>1 DEF RecordInv
<1>6. CASE /\ variant' = [variant EXCEPT ![r][o].stage = "lost"]
           /\ UNCHANGED <<worktree, branch, faults, left>>
  <2> DEFINE v == [variant[r][o] EXCEPT !.stage = "lost"]
  <2>1. v \in Variant /\ v.workspace = variant[r][o].workspace
    BY <1>3 DEF Variant
  <2>2. variant' = [variant EXCEPT ![r] = [@ EXCEPT ![o] = v]]
    BY <1>3, <1>6
  <2> HIDE DEF v
  <2> QED
    BY <1>2, <1>6, <2>1, <2>2, VariantStep DEF git, history
<1>7. CASE /\ Free(w)
           /\ worktree' = [worktree EXCEPT ![w] = r]
           /\ branch' = [branch EXCEPT ![w] = r]
           /\ variant' = [variant EXCEPT ![r][o].stage = "open", ![r][o].workspace = TRUE]
           /\ UNCHANGED <<faults, left>>
  <2> DEFINE v == [variant[r][o] EXCEPT !.stage = "open", !.workspace = TRUE]
  <2>1. v \in Variant /\ v.workspace = TRUE
    BY <1>3 DEF Variant
  <2>2. variant' = [variant EXCEPT ![r] = [@ EXCEPT ![o] = v]]
    BY <1>3, <1>7
  <2> HIDE DEF v
  <2>3. variant' \in [Run -> [Overlay -> Variant]]
    BY <1>3, <2>1, <2>2
  <2>4. /\ worktree' \in [Workspace -> Run \cup {Nobody}]
        /\ branch' \in [Workspace -> Run \cup {Nobody}]
    BY <1>1, <1>7 DEF TypeOK
  <2>5. TypeOK'
    BY <1>1, <1>2, <1>7, <2>3, <2>4 DEF TypeOK
  <2>6. /\ \A q \in Run : q # r => variant'[q] = variant[q]
        /\ Owns(r, o)'
        /\ \A p \in Overlay : p # o => (Owns(r, p)' <=> Owns(r, p))
    BY <1>3, <2>1, <2>2 DEF Owns
  <2>7. /\ worktree[w] = Nobody /\ worktree'[w] = r
        /\ branch[w] = Nobody /\ branch'[w] = r
        /\ \A x \in Workspace : x # w => worktree'[x] = worktree[x] /\ branch'[x] = branch[x]
    BY <1>1, <1>7 DEF TypeOK, Free
  <2>8. \A q \in Run : q # r => WorkspacesKept(q)
    BY <2>7 DEF WorkspacesKept
  <2>9. WorkspaceInv(r)'
    <3> SUFFICES ASSUME NEW p \in Overlay
                 PROVE  LET x == WorkspaceOf(r, p)
                        IN /\ Owns(r, p)' => worktree'[x] = r /\ branch'[x] = r
                           /\ (worktree'[x] = r \/ branch'[x] = r) =>
                                Owns(r, p)' \/ r \in left'
      BY <1>2 DEF WorkspaceInv, WorkspaceOf
    <3>1. CASE p = o
      BY <2>6, <2>7, <3>1
    <3>2. CASE p # o
      <4>1. WorkspaceOf(r, p) \in Workspace /\ WorkspaceOf(r, p) # w
        BY <3>2 DEF WorkspaceOf, Workspace
      <4> QED
        BY <1>1, <1>7, <2>6, <2>7, <3>2, <4>1 DEF RunInv, WorkspaceInv
    <3> QED
      BY <3>1, <3>2
  <2> QED
    BY <1>2, <1>4, <1>5, <1>7, <2>5, <2>6, <2>8, <2>9, OneRun DEF RunInv
<1>8. CASE /\ Free(w)
           /\ Fault
           /\ branch' \in {branch, [branch EXCEPT ![w] = r]}
           /\ left' = left \cup {r}
           /\ variant' = [variant EXCEPT ![r][o].stage = "lost"]
           /\ UNCHANGED worktree
  <2> DEFINE v == [variant[r][o] EXCEPT !.stage = "lost"]
  <2>1. v \in Variant /\ v.workspace = variant[r][o].workspace
    BY <1>3 DEF Variant
  <2>2. variant' = [variant EXCEPT ![r] = [@ EXCEPT ![o] = v]]
    BY <1>3, <1>8
  <2> HIDE DEF v
  <2>3. variant' \in [Run -> [Overlay -> Variant]]
    BY <1>3, <2>1, <2>2
  <2>4. branch' \in [Workspace -> Run \cup {Nobody}]
    BY <1>1, <1>8 DEF TypeOK
  <2>5. TypeOK'
    BY <1>1, <1>2, <1>8, <2>3, <2>4 DEF TypeOK, Fault
  <2>6. /\ \A q \in Run : q # r => variant'[q] = variant[q]
        /\ \A p \in Overlay : Owns(r, p)' <=> Owns(r, p)
    BY <1>3, <2>1, <2>2 DEF Owns
  <2>7. /\ branch[w] = Nobody /\ branch'[w] \in {Nobody, r}
        /\ \A x \in Workspace : x # w => branch'[x] = branch[x]
    BY <1>1, <1>8 DEF TypeOK, Free
  <2>8. \A q \in Run : q # r => WorkspacesKept(q)
    BY <1>8, <2>7 DEF WorkspacesKept
  <2>9. WorkspaceInv(r)'
    <3> SUFFICES ASSUME NEW p \in Overlay, Owns(r, p)'
                 PROVE  LET x == WorkspaceOf(r, p) IN worktree'[x] = r /\ branch'[x] = r
      BY <1>2, <1>8 DEF WorkspaceInv, WorkspaceOf
    <3>1. WorkspaceOf(r, p) \in Workspace
      BY DEF WorkspaceOf, Workspace
    <3>2. worktree[WorkspaceOf(r, p)] = r /\ branch[WorkspaceOf(r, p)] = r
      BY <1>1, <2>6 DEF RunInv, WorkspaceInv
    <3> QED
      BY <1>8, <2>7, <3>1, <3>2
  <2> QED
    BY <1>2, <1>4, <1>5, <1>8, <2>5, <2>6, <2>8, <2>9, OneRun DEF RunInv
<1> QED
  BY <1>6, <1>7, <1>8 DEF CreateWorkspace

LEMMA RemoveWorkspaceStep ==
    ASSUME IInv, NEW r \in Run, NEW o \in Overlay, RemoveWorkspace(r, o) PROVE IInv'
<1> DEFINE w == WorkspaceOf(r, o)
           v == [variant[r][o] EXCEPT !.workspace = FALSE]
<1>1. TypeOK /\ RunInv(r) /\ w \in Workspace
  BY DEF IInv, WorkspaceOf, Workspace
<1>2. /\ pc[r] = "cleanup" /\ pc'[r] = "cleanup"
      /\ Owns(r, o)
      /\ UNCHANGED <<main, memory, pc, run, blind>>
      /\ variant' = [variant EXCEPT ![r][o].workspace = FALSE]
  BY DEF RemoveWorkspace
<1>3. variant[r][o] \in Variant /\ variant \in [Run -> [Overlay -> Variant]]
  BY <1>1 DEF TypeOK
<1>4. v \in Variant /\ v.workspace = FALSE /\ v.kind = variant[r][o].kind
  BY <1>3 DEF Variant
<1>5. variant' = [variant EXCEPT ![r] = [@ EXCEPT ![o] = v]]
  BY <1>2, <1>3
<1> HIDE DEF v
<1>6. /\ variant' \in [Run -> [Overlay -> Variant]]
      /\ \A q \in Run : q # r => variant'[q] = variant[q]
      /\ ~Owns(r, o)'
      /\ \A p \in Overlay : variant'[r][p].kind = variant[r][p].kind
      /\ \A p \in Overlay : p # o => (Owns(r, p)' <=> Owns(r, p))
  BY <1>3, <1>4, <1>5 DEF Owns
<1>7. worktree[w] = r /\ branch[w] = r
  BY <1>1, <1>2 DEF RunInv, WorkspaceInv
<1>8. /\ \A x \in Workspace : x # w => worktree'[x] = worktree[x] /\ branch'[x] = branch[x]
      /\ worktree'[w] \in {Nobody, r} /\ branch'[w] \in {Nobody, r}
      /\ worktree' \in [Workspace -> Run \cup {Nobody}]
      /\ branch' \in [Workspace -> Run \cup {Nobody}]
      /\ faults' \in 0..MaxFaults
      /\ left \subseteq left' /\ left' \subseteq left \cup {r}
      /\ (worktree'[w] = r \/ branch'[w] = r) => r \in left'
  <2>1. CASE /\ worktree' = [worktree EXCEPT ![w] = Nobody]
             /\ branch' = [branch EXCEPT ![w] = Nobody]
             /\ UNCHANGED <<faults, left>>
    BY <1>1, <2>1 DEF TypeOK
  <2>2. CASE /\ Fault
             /\ worktree' \in {worktree, [worktree EXCEPT ![w] = Nobody]}
             /\ left' = left \cup {r}
             /\ UNCHANGED branch
    <3>1. faults' \in 0..MaxFaults
      BY <1>1, <2>2 DEF TypeOK, Fault
    <3> QED
      BY <1>1, <1>7, <2>2, <3>1 DEF TypeOK
  <2> QED
    BY <2>1, <2>2 DEF RemoveWorkspace
<1>9. TypeOK'
  BY <1>1, <1>2, <1>6, <1>8 DEF TypeOK
<1>10. \A q \in Run : q # r => WorkspacesKept(q)
  BY <1>7, <1>8 DEF WorkspacesKept
<1>11. WorkspaceInv(r)'
  <2> SUFFICES ASSUME NEW p \in Overlay
               PROVE  LET x == WorkspaceOf(r, p)
                      IN /\ Owns(r, p)' => worktree'[x] = r /\ branch'[x] = r
                         /\ (worktree'[x] = r \/ branch'[x] = r) => Owns(r, p)' \/ r \in left'
    BY <1>2 DEF WorkspaceInv, WorkspaceOf
  <2>1. CASE p = o
    BY <1>6, <1>8, <2>1
  <2>2. CASE p # o
    <3>1. WorkspaceOf(r, p) \in Workspace /\ WorkspaceOf(r, p) # w
      BY <2>2 DEF WorkspaceOf, Workspace
    <3> QED
      BY <1>1, <1>6, <1>8, <2>2, <3>1 DEF RunInv, WorkspaceInv
  <2> QED
    BY <2>1, <2>2
<1>12. Has(r)' <=> Has(r)
  BY <1>2 DEF Has
<1>13. CommitInv(r)'
  BY <1>1, <1>2, <1>6 DEF RunInv, CommitInv
<1>14. SelectionInv(r)' /\ RecordInv(r)'
  BY <1>2, <1>12, LateRecords DEF SelectionInv
<1>15. \A q \in Run : q # r => (q \in left' <=> q \in left)
  BY <1>8
<1> QED
  BY <1>2, <1>6, <1>9, <1>10, <1>11, <1>13, <1>14, <1>15, OneRun DEF RunInv

\* A commit of somebody else concerns no run.
LEMMA MoveStep == ASSUME IInv, Move PROVE IInv'
<1> DEFINE e == [by |-> Nobody, overlay |-> None]
<1>1. TypeOK /\ e \in Commit /\ e.by = Nobody
  BY DEF IInv, Commit
<1>2. /\ main' = Append(main, e)
      /\ UNCHANGED <<worktree, branch, memory, pc, run, variant, faults, history>>
  BY DEF Move
<1> HIDE DEF e
<1>3. main' \in Seq(Commit) /\ \A q \in Run : CommitsKept(q)
  BY <1>1, <1>2, AppendCommit
<1>4. TypeOK'
  BY <1>1, <1>2, <1>3 DEF TypeOK, history
<1>5. \A q \in Run : Untouched(q)
  BY <1>1, <1>2, <1>3 DEF Untouched, WorkspacesKept, TypeOK, history
<1> QED
  BY <1>1, <1>4, <1>5, UntouchedInv DEF IInv

LEMMA StutterStep == ASSUME IInv, UNCHANGED vars PROVE IInv'
<1>1. TypeOK /\ TypeOK'
  BY DEF IInv, TypeOK, vars, git, history
<1>2. \A q \in Run : Untouched(q)
  BY <1>1 DEF Untouched, CommitsKept, WorkspacesKept, TypeOK, vars, git, history
<1> QED
  BY <1>1, <1>2, UntouchedInv DEF IInv

LEMMA NextInv == IInv /\ [Next]_vars => IInv'
<1> SUFFICES ASSUME IInv, [Next]_vars PROVE IInv'
  OBVIOUS
<1>1. ASSUME NEW r \in Run,
             \/ Begin(r) \/ Proposed(r) \/ Verified(r) \/ Adjudicate(r) \/ CheckBase(r)
             \/ CherryPick(r) \/ ReadRef(r) \/ Save(r) \/ Return(r) \/ Crash(r)
      PROVE  IInv'
  BY <1>1, BeginStep, ProposedStep, AdjudicateStep, CheckBaseStep, CherryPickStep, ReadRefStep,
     SaveStep, ReturnStep, CrashStep
<1>2. ASSUME NEW r \in Run, NEW o \in Overlay,
             CreateWorkspace(r, o) \/ Mutate(r, o) \/ Verify(r, o) \/ RemoveWorkspace(r, o)
      PROVE  IInv'
  BY <1>2, CreateWorkspaceStep, MutateStep, VerifyStep, RemoveWorkspaceStep
<1> QED
  BY <1>1, <1>2, MoveStep, StutterStep DEF Next

-----------------------------------------------------------------------------
(* Theorems. *)

\* The inductive invariant holds in every reachable state.
LEMMA Invariant == Spec => []IInv
BY InitInv, NextInv, PTL DEF Spec

\* Every reachable state of KAST Law is well typed (kast-law.ts, git-kast.ts,
\* kast-harness-runtime.ts).
THEOREM TypeCorrect == Spec => []TypeOK
<1>1. IInv => TypeOK
  BY DEF IInv
<1> QED
  BY <1>1, Invariant, PTL

\* However many runs and committers share the base branch, each run puts at most
\* the one selected and sound variant there (GitAdoptionPort.adopt).
THEOREM AdoptionSound == Spec => []AdoptedAsVerified
<1>1. IInv => AdoptedAsVerified
  <2> SUFFICES ASSUME IInv, NEW i \in 1..Len(main), main[i].by # Nobody
               PROVE  /\ main[i].overlay = run[main[i].by].selected
                      /\ variant[main[i].by][main[i].overlay].kind = "sound"
                      /\ \A j \in 1..Len(main) : main[j].by = main[i].by => i = j
    BY DEF AdoptedAsVerified, HeadSha
  <2>1. main[i] \in Commit
    BY DEF IInv, TypeOK
  <2>2. main[i].by \in Run
    BY <2>1 DEF Commit
  <2> QED
    BY <2>2 DEF IInv, RunInv, CommitInv
<1> QED
  BY <1>1, Invariant, PTL

\* Engram tells what happened to the base branch, whichever step failed
\* (KastEngine.run, its save of the outcome).
THEOREM OutcomesTold == Spec => []OutcomeTruthful
<1>1. IInv => OutcomeTruthful
  <2> SUFFICES ASSUME IInv, NEW m \in memory
               PROVE  IF m.outcome = "adopted"
                      THEN <<m.run, run[m.run].selected>> \in Adopted
                      ELSE m.run \in blind \/ \A o \in Overlay : <<m.run, o>> \notin Adopted
    BY DEF OutcomeTruthful
  <2>1. m.run \in Run
    BY DEF IInv, TypeOK, Memory
  <2>2. RunInv(m.run) /\ Truthful(m.run, m.outcome)
    BY <2>1 DEF IInv, RunInv, RecordInv
  <2>3. CASE m.outcome = "adopted"
    <3>1. PICK i \in 1..Len(main) : main[i].by = m.run
      BY <2>2, <2>3 DEF Truthful, Has
    <3>2. main[i].overlay = run[m.run].selected /\ main[i].by # Nobody
      BY <2>1, <2>2, <3>1 DEF RunInv, CommitInv
    <3> QED
      BY <2>3, <3>1, <3>2 DEF Adopted, HeadSha
  <2>4. CASE m.outcome # "adopted"
    <3>1. m.run \in blind \/ \A i \in 1..Len(main) : main[i].by # m.run
      BY <2>2, <2>4 DEF Truthful, Has
    <3> QED
      BY <2>4, <3>1 DEF Adopted, HeadSha
  <2> QED
    BY <2>3, <2>4
<1> QED
  BY <1>1, Invariant, PTL

\* Runs whose workspaces have the same names do not disturb each other, and one
\* that itself neither died nor failed to clean up leaves nothing (createWorkspace,
\* removeWorkspace).
THEOREM WorkspacesKeptApart == Spec => []WorkspacesOwned
<1>1. IInv => WorkspacesOwned
  BY DEF IInv, RunInv, WorkspaceInv, WorkspacesOwned
<1> QED
  BY <1>1, Invariant, PTL
==============================================================================
