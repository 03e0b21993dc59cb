-------------------------------- MODULE KastLaw --------------------------------
(***************************************************************************)
(* KAST Law over one Git repository: GitBackedKastRuntime.run, which gives *)
(* KastEngine.run Git worktrees to propose in, real diffs to verify and    *)
(* GitAdoptionPort to adopt with.  Several runs, retries of a trigger      *)
(* among them, and other committers share the repository and the Engram    *)
(* memory; every Git command and every port call is one step.              *)
(*                                                                         *)
(* A commit is known by its place on main or by the variant it holds.      *)
(* What a variant changes is abstracted to what the checks find in it.     *)
(***************************************************************************)
EXTENDS Naturals, Sequences, FiniteSets

CONSTANTS
    Run,        \* calls of GitBackedKastRuntime.run
    Prefix,     \* first eight characters of trigger identifiers
    PrefixOf,   \* those of the trigger of each run
    Overlay,    \* strategy overlays of a trigger
    Nobody,     \* no run
    None,       \* no overlay
    MaxMoves,   \* bound of the model: commits of others
    MaxFaults   \* bound of the model: failed commands and crashes

ASSUME KastLawAssumption ==
    /\ PrefixOf \in [Run -> Prefix]
    /\ Nobody \notin Run
    /\ None \notin Overlay
    /\ MaxMoves \in Nat
    /\ MaxFaults \in Nat

VARIABLES
    main,       \* commits of the base branch after the first
    worktree,   \* the run that made each worktree, or Nobody
    branch,     \* the run that made each kast/ branch, or Nobody
    memory,     \* outcomes in Engram
    pc,         \* where each run is
    run,        \* the locals of each run
    variant,    \* the variants of each run by overlay
    faults,     \* faults so far
    blind,      \* history: runs whose adoption failed after its commit was made
    left        \* history: runs that died or could not make or remove a workspace

git == <<main, worktree, branch>>
history == <<blind, left>>
vars == <<git, memory, pc, run, variant, faults, history>>

-----------------------------------------------------------------------------
(* Data. *)

\* What the checks find in a change: nothing, a protected surface in its diff, a
\* blocking finding of tests, review or specification, or another parent than
\* the base.
Kind == {"sound", "protected", "failing", "indirect"}

Commit == [by: Run \cup {Nobody}, overlay: Overlay \cup {None}]

\* A workspace is named after the trigger and the overlay.
Workspace == Prefix \X Overlay
WorkspaceOf(r, o) == <<PrefixOf[r], o>>

Outcome == {"none", "no-op", "remembered", "founder-required", "rejected", "adopted", "thrown"}

Memory == [run: Run, outcome: {"remembered", "founder-required", "rejected", "adopted"}]

Locals == [base: Nat, selected: Overlay \cup {None}, outcome: Outcome]

Variant == [stage: {"none", "todo", "open", "proposed", "verified", "lost"},
            kind: Kind, workspace: BOOLEAN]

NoVariant == [stage |-> "none", kind |-> "sound", workspace |-> FALSE]

HeadSha == Len(main)

TypeOK ==
    /\ main \in Seq(Commit)
    /\ worktree \in [Workspace -> Run \cup {Nobody}]
    /\ branch \in [Workspace -> Run \cup {Nobody}]
    /\ memory \subseteq Memory
    /\ pc \in [Run -> {"idle", "propose", "verify", "adjudicate", "adopt", "pick", "ref",
                       "save", "cleanup", "done"}]
    /\ run \in [Run -> Locals]
    /\ variant \in [Run -> [Overlay -> Variant]]
    /\ faults \in 0..MaxFaults
    /\ blind \subseteq Run
    /\ left \subseteq Run

Init ==
    /\ main = <<>>
    /\ worktree = [w \in Workspace |-> Nobody]
    /\ branch = [w \in Workspace |-> Nobody]
    /\ memory = {}
    /\ pc = [r \in Run |-> "idle"]
    /\ run = [r \in Run |-> [base |-> 0, selected |-> None, outcome |-> "none"]]
    /\ variant = [r \in Run |-> [o \in Overlay |-> NoVariant]]
    /\ faults = 0
    /\ blind = {}
    /\ left = {}

Goto(r, stage) == pc' = [pc EXCEPT ![r] = stage]

Fault ==
    /\ faults < MaxFaults
    /\ faults' = faults + 1

\* The run ends with an outcome that is first saved to memory.
Conclude(r, outcome) ==
    /\ run' = [run EXCEPT ![r].outcome = outcome]
    /\ Goto(r, "save")

-----------------------------------------------------------------------------
(* GitBackedKastRuntime.run and KastEngine.run up to the variants. *)

\* headSha, the search of the memory and the modes that make no variant.
Begin(r) ==
    /\ pc[r] = "idle"
    /\ \/ /\ run' = [run EXCEPT ![r].base = HeadSha, ![r].outcome = "no-op"]
          /\ Goto(r, "cleanup")
          /\ UNCHANGED variant
       \/ \E outcome \in {"remembered", "founder-required"} :
            /\ run' = [run EXCEPT ![r].base = HeadSha, ![r].outcome = outcome]
            /\ Goto(r, "save")
            /\ UNCHANGED variant
       \/ /\ run' = [run EXCEPT ![r].base = HeadSha]
          /\ variant' = [variant EXCEPT ![r] =
                           [o \in Overlay |-> [NoVariant EXCEPT !.stage = "todo"]]]
          /\ Goto(r, "propose")
    /\ UNCHANGED <<git, memory, faults, history>>

\* Mutant: an existing worktree is taken over.
FreeOrTaken(w) == w \in Workspace

\* git worktree add -b refuses a path or a branch that exists.
Free(w) == worktree[w] = Nobody /\ branch[w] = Nobody

\* createWorkspace: a refusal loses the variant, and so does a failure, which can
\* leave the branch; neither gives the run a workspace to remove.
CreateWorkspace(r, o) ==
    LET w == WorkspaceOf(r, o)
    IN /\ pc[r] = "propose"
       /\ variant[r][o].stage = "todo"
       /\ \/ /\ Free(w)
             /\ worktree' = [worktree EXCEPT ![w] = r]
             /\ branch' = [branch EXCEPT ![w] = r]
             /\ variant' = [variant EXCEPT ![r][o].stage = "open",
                                           ![r][o].workspace = TRUE]
             /\ UNCHANGED <<faults, left>>
          \/ /\ ~Free(w)
             /\ variant' = [variant EXCEPT ![r][o].stage = "lost"]
             /\ UNCHANGED <<worktree, branch, faults, left>>
          \/ /\ Free(w)
             /\ Fault
             /\ branch' \in {branch, [branch EXCEPT ![w] = r]}
             /\ left' = left \cup {r}
             /\ variant' = [variant EXCEPT ![r][o].stage = "lost"]
             /\ UNCHANGED worktree
       /\ UNCHANGED <<main, memory, pc, run, blind>>

\* The mutation, the commit and the safety check of the proposal: no change, an
\* unsafe text or an error loses the variant and keeps its workspace.
Mutate(r, o) ==
    /\ pc[r] = "propose"
    /\ variant[r][o].stage = "open"
    /\ \/ \E k \in Kind : variant' = [variant EXCEPT ![r][o].stage = "proposed",
                                                     ![r][o].kind = k]
       \/ variant' = [variant EXCEPT ![r][o].stage = "lost"]
    /\ UNCHANGED <<git, memory, pc, run, faults, history>>

At(r, stage) == {o \in Overlay : variant[r][o].stage = stage}

\* Promise.allSettled of the proposals.
Proposed(r) ==
    /\ pc[r] = "propose"
    /\ At(r, "todo") \cup At(r, "open") = {}
    /\ IF At(r, "proposed") = {}
       THEN Conclude(r, "rejected")
       ELSE Goto(r, "verify") /\ UNCHANGED run
    /\ UNCHANGED <<git, memory, variant, faults, history>>

-----------------------------------------------------------------------------
(* Verification and adjudication. *)

\* Mutant: a failed regression does not become a blocking finding.
VerificationBlind(k) ==
    [passed |-> k # "protected", isolated |-> k # "indirect", protected |-> k = "protected"]

\* buildGitVariantVerification: surfaces come from the diff of the commit, not
\* from the proposer, and a protected one is a blocking finding too.
Verification(k) ==
    [passed |-> k \notin {"protected", "failing"},
     isolated |-> k # "indirect",
     protected |-> k = "protected"]

\* The verifier inspects the workflow, runs the regressions and reads the diff.
Verify(r, o) ==
    /\ pc[r] = "verify"
    /\ variant[r][o].stage = "proposed"
    /\ \E stage \in {"verified", "lost"} : variant' = [variant EXCEPT ![r][o].stage = stage]
    /\ UNCHANGED <<git, memory, pc, run, faults, history>>

\* Promise.allSettled of the verifications.
Verified(r) ==
    /\ pc[r] = "verify"
    /\ At(r, "proposed") = {}
    /\ IF At(r, "verified") = {}
       THEN Conclude(r, "rejected")
       ELSE Goto(r, "adjudicate") /\ UNCHANGED run
    /\ UNCHANGED <<git, memory, variant, faults, history>>

\* evidenceGate.
EvidenceGate(k) ==
    LET v == Verification(k) IN ~v.protected /\ v.isolated /\ v.passed

\* The owner selects a verified variant or none; an exception ends the run
\* without an outcome in memory.
Adjudicate(r) ==
    /\ pc[r] = "adjudicate"
    /\ \/ Conclude(r, "rejected") /\ UNCHANGED faults
       \/ /\ Fault
          /\ run' = [run EXCEPT ![r].outcome = "thrown"]
          /\ Goto(r, "cleanup")
       \/ \E o \in At(r, "verified") :
            /\ UNCHANGED faults
            /\ IF EvidenceGate(variant[r][o].kind)
               THEN /\ run' = [run EXCEPT ![r].selected = o]
                    /\ Goto(r, "adopt")
               ELSE Conclude(r, "rejected")
    /\ UNCHANGED <<git, memory, variant, history>>

-----------------------------------------------------------------------------
(* GitAdoptionPort.adopt. *)

\* The binding of the verification, the surfaces of the diff and the parent of
\* the commit, all read again.
MayAdopt(k) ==
    LET v == Verification(k) IN v.isolated /\ v.passed /\ ~v.protected

\* rev-parse HEAD and status: a moved or dirty base is refused.
CheckBase(r) ==
    /\ pc[r] = "adopt"
    /\ \/ /\ HeadSha = run[r].base
          /\ MayAdopt(variant[r][run[r].selected].kind)
          /\ Goto(r, "pick")
          /\ UNCHANGED run
       \/ Conclude(r, "rejected")
    /\ UNCHANGED <<git, memory, variant, faults, history>>

\* Mutant: a cherry-pick that fails is taken for one that worked.
CherryPickUnchecked(r) ==
    /\ pc[r] = "pick"
    /\ main' \in {main, Append(main, [by |-> r, overlay |-> run[r].selected])}
    /\ Goto(r, "ref")
    /\ UNCHANGED <<worktree, branch, memory, run, variant, faults, history>>

\* git cherry-pick of the verified commit.  It applies to whatever HEAD is by
\* then; only on another base can it conflict, and then it is aborted.  A command
\* that fails after it made the commit leaves nothing to abort.
CherryPick(r) ==
    /\ pc[r] = "pick"
    /\ \/ /\ main' = Append(main, [by |-> r, overlay |-> run[r].selected])
          /\ Goto(r, "ref")
          /\ UNCHANGED <<run, faults, blind>>
       \/ /\ IF HeadSha # run[r].base THEN UNCHANGED faults ELSE Fault
          /\ Conclude(r, "rejected")
          /\ UNCHANGED <<main, blind>>
       \/ /\ Fault
          /\ main' = Append(main, [by |-> r, overlay |-> run[r].selected])
          /\ Conclude(r, "rejected")
          /\ blind' = blind \cup {r}
    /\ UNCHANGED <<worktree, branch, memory, variant, left>>

\* rev-parse HEAD for the reference: when it fails the engine records a rejection
\* of a change that is on the base branch.
ReadRef(r) ==
    /\ pc[r] = "ref"
    /\ \/ Conclude(r, "adopted") /\ UNCHANGED <<faults, blind>>
       \/ /\ Fault
          /\ Conclude(r, "rejected")
          /\ blind' = blind \cup {r}
    /\ UNCHANGED <<git, memory, variant, left>>

-----------------------------------------------------------------------------
(* The end of a run. *)

\* memory.save of the outcome.
Save(r) ==
    /\ pc[r] = "save"
    /\ Goto(r, "cleanup")
    /\ \/ /\ memory' = memory \cup {[run |-> r, outcome |-> run[r].outcome]}
          /\ UNCHANGED <<run, faults>>
       \/ /\ Fault
          /\ run' = [run EXCEPT ![r].outcome = "thrown"]
          /\ UNCHANGED memory
    /\ UNCHANGED <<git, variant, history>>

\* The workspaces createWorkspace returned to this run.
Owns(r, o) == variant[r][o].workspace

\* removeWorkspace --force in the finally block, whose errors are ignored: the
\* worktree may stay with its branch, or the branch alone.
RemoveWorkspace(r, o) ==
    LET w == WorkspaceOf(r, o)
    IN /\ pc[r] = "cleanup"
       /\ Owns(r, o)
       /\ variant' = [variant EXCEPT ![r][o].workspace = FALSE]
       /\ \/ /\ worktree' = [worktree EXCEPT ![w] = Nobody]
             /\ branch' = [branch EXCEPT ![w] = Nobody]
             /\ UNCHANGED <<faults, left>>
          \/ /\ Fault
             /\ worktree' \in {worktree, [worktree EXCEPT ![w] = Nobody]}
             /\ left' = left \cup {r}
             /\ UNCHANGED branch
       /\ UNCHANGED <<main, memory, pc, run, blind>>

Return(r) ==
    /\ pc[r] = "cleanup"
    /\ ~\E o \in Overlay : Owns(r, o)
    /\ Goto(r, "done")
    /\ UNCHANGED <<git, memory, run, variant, faults, history>>

\* The process dies: nothing is cleaned up.
Crash(r) ==
    /\ pc[r] \notin {"idle", "done"}
    /\ Fault
    /\ Goto(r, "done")
    /\ run' = [run EXCEPT ![r].outcome = "thrown"]
    /\ left' = left \cup {r}
    /\ UNCHANGED <<git, memory, variant, blind>>

\* Somebody else commits to the base branch.
Move ==
    /\ Cardinality({i \in 1..HeadSha : main[i].by = Nobody}) < MaxMoves
    /\ main' = Append(main, [by |-> Nobody, overlay |-> None])
    /\ UNCHANGED <<worktree, branch, memory, pc, run, variant, faults, history>>

Next ==
    \/ \E r \in Run :
         \/ Begin(r) \/ Proposed(r) \/ Verified(r) \/ Adjudicate(r) \/ CheckBase(r)
         \/ CherryPick(r) \/ ReadRef(r) \/ Save(r) \/ Return(r) \/ Crash(r)
         \/ \E o \in Overlay :
              CreateWorkspace(r, o) \/ Mutate(r, o) \/ Verify(r, o) \/ RemoveWorkspace(r, o)
    \/ Move

Spec == Init /\ [][Next]_vars

-----------------------------------------------------------------------------
(* Correctness. *)

\* What runs put on the base branch: pairs of run and overlay.
Adopted == {<<main[i].by, main[i].overlay>> : i \in {j \in 1..HeadSha : main[j].by # Nobody}}

\* Whatever other runs and committers do meanwhile, each run adopts one variant at
\* most, the one its owner selected, and its diff from the base it was verified
\* against is sound: no protected surface, no failed check, no other parent.
AdoptedAsVerified ==
    \A i \in 1..HeadSha : main[i].by # Nobody =>
        /\ main[i].overlay = run[main[i].by].selected
        /\ variant[main[i].by][main[i].overlay].kind = "sound"
        /\ \A j \in 1..HeadSha : main[j].by = main[i].by => i = j

\* What the documents promise: "adoption also binds to the exact source commit and
\* refuses a moved/dirty base"
\* (docs/RUNTIME_V10_SELF_IMPROVEMENT_AND_CHARACTERS_2026-08-22.md).  A commit that
\* is adopted directly follows the base it was verified against.
AdoptedOnBase ==
    \A i \in 1..HeadSha : main[i].by # Nobody => i = run[main[i].by].base + 1

\* Engram tells what happened to the base branch: an outcome "adopted" is of a
\* selected variant that is there, every other outcome of a run that put nothing
\* there, the runs apart whose adoption failed after its commit was made.
OutcomeTruthful ==
    \A m \in memory :
        IF m.outcome = "adopted"
        THEN <<m.run, run[m.run].selected>> \in Adopted
        ELSE m.run \in blind \/ \A o \in Overlay : <<m.run, o>> \notin Adopted

\* Runs and retries with the same names do not disturb each other: nobody takes or
\* removes a workspace but the run that was given it, not even after that run died,
\* and a run that itself neither died nor failed to make or remove one leaves
\* neither worktree nor branch, whatever happens to the others.
WorkspacesOwned ==
    \A r \in Run, o \in Overlay :
        LET w == WorkspaceOf(r, o)
        IN /\ Owns(r, o) => worktree[w] = r /\ branch[w] = r
           /\ (pc[r] = "done" /\ r \notin left) => worktree[w] # r /\ branch[w] # r

=============================================================================
