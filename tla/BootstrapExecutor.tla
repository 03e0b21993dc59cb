--------------------------- MODULE BootstrapExecutor ---------------------------
(***************************************************************************)
(* planCompanyBootstrap and BootstrapExecutor.execute over CapabilityPlane *)
(* and the company assets.  A plan takes each requirement in turn: reuse   *)
(* an active asset, or ask for approval where one is needed, provision and *)
(* verify.  An execution reads the assets once, works on that snapshot and *)
(* returns its state where it pauses, fails or completes; the caller keeps *)
(* the state and executes again.  An exception or a crash loses the state  *)
(* of the executions in it, never what the caller holds.                   *)
(*                                                                         *)
(* The completed steps of a state are always the first ones of its plan,   *)
(* so a state is the requirement and the action it stands at; for the same *)
(* reason no step ever waits for one it depends on.  Step identifiers are  *)
(* random: every plan has a fingerprint, and so journal keys, of its own.  *)
(***************************************************************************)
EXTENDS CapabilityPlane

CONSTANTS
    Requirements,  \* how many requirements the company has
    Bounded,       \* those behind a human boundary or unapproved spend
    MaxPlans,      \* bound of the model: plans made
    MaxAssets      \* bound of the model: assets saved

Requirement == 1..Requirements
Plan == 1..MaxPlans

ASSUME BootstrapAssumption ==
    /\ Requirements \in Nat \ {0}
    /\ Bounded \subseteq Requirement
    /\ MaxPlans \in Nat
    /\ MaxAssets \in Nat
    /\ Key = Plan \X Requirement

VARIABLES
    plans,     \* the plans made: the asset each requirement reuses, 0 for none
    approved,  \* verified approvals, each of one plan and requirement
    assets,    \* the company assets
    saved,     \* the execution state the caller holds for each plan
    run,       \* the locals of every execution
    overlap    \* history: two executions have run at the same time

bootstrapVars == <<plans, approved, assets, saved, run, overlap>>
vars == <<planeVars, bootstrapVars>>

NoAsset == 0

AssetId == 1..MaxAssets

Asset == [id: AssetId, requirement: Requirement, status: {"planned", "active"}]

Action == {"reuse", "approval", "provision", "verify", "completed"}

\* Where an execution is besides at a step of its plan.
Await == {"idle", "plane", "save"}

\* An execution state: the actions before this one are completed.
State == [at: 1..Requirements + 1, action: Action, asset: AssetId \cup {NoAsset}]

StateAt(r, action, asset) == [at |-> r, action |-> action, asset |-> asset]

NoState == StateAt(1, "completed", NoAsset)

\* The locals of an execution.
Run == [stage: Await \cup Action, plan: Plan \cup {0}, at: 1..Requirements + 1,
        asset: AssetId \cup {NoAsset}, snapshot: SUBSET Asset, approvals: SUBSET Key]

NoRun == [stage |-> "idle", plan |-> 0, at |-> 1, asset |-> NoAsset,
          snapshot |-> {}, approvals |-> {}]

TypeOK ==
    /\ PlaneTypeOK
    /\ plans \subseteq [plan: Plan, reuse: [Requirement -> AssetId \cup {NoAsset}]]
    /\ approved \subseteq Key
    /\ assets \subseteq Asset
    /\ saved \in [Plan -> State]
    /\ run \in [Caller -> Run]
    /\ overlap \in BOOLEAN

Init ==
    /\ PlaneInit
    /\ plans = {}
    /\ approved = {}
    /\ assets = {}
    /\ saved = [p \in Plan |-> NoState]
    /\ run = [x \in Caller |-> NoRun]
    /\ overlap = FALSE

-----------------------------------------------------------------------------
(* Plans. *)

\* reusableAsset.
Reusable(r) == {a \in assets : a.requirement = r /\ a.status = "active"}

\* The first action a plan has for its requirement r.
FirstAction(reuse, r) ==
    IF r > Requirements THEN "completed"
    ELSE IF reuse[r] # NoAsset THEN "reuse"
    ELSE IF r \in Bounded THEN "approval"
    ELSE "provision"

ReuseOf(p) == (CHOOSE plan \in plans : plan.plan = p).reuse

Made == {plan.plan : plan \in plans}

\* planCompanyBootstrap with the assets of the company, and initialState.
MakePlan(p) ==
    /\ p = Cardinality(plans) + 1
    /\ \E reuse \in [Requirement -> AssetId \cup {NoAsset}] :
         /\ \A r \in Requirement : IF Reusable(r) = {}
                                   THEN reuse[r] = NoAsset
                                   ELSE reuse[r] \in {a.id : a \in Reusable(r)}
         /\ plans' = plans \cup {[plan |-> p, reuse |-> reuse]}
         /\ saved' = [saved EXCEPT ![p] = StateAt(1, FirstAction(reuse, 1), NoAsset)]
    /\ UNCHANGED <<approved, assets, run, overlap, planeVars>>

\* A human approves a requirement of a plan.
Approve(p, r) ==
    /\ p \in Made
    /\ approved' = approved \cup {<<p, r>>}
    /\ UNCHANGED <<plans, assets, saved, run, overlap, planeVars>>

-----------------------------------------------------------------------------
(* BootstrapExecutor.execute. *)

KeyOf(x) == <<run[x].plan, run[x].at>>

\* The assets of the requirement in the snapshot of the execution.
Snapshot(x) == {a \in run[x].snapshot : a.requirement = run[x].at}

\* The execution goes on at a stage of the step it is at.
Continue(x, stage) == run' = [run EXCEPT ![x].stage = stage]

\* The step is completed with an asset, which the step at the stage is about.
ContinueWith(x, stage, asset) ==
    run' = [run EXCEPT ![x].stage = stage, ![x].asset = asset]

\* All steps of the requirement are completed.  No later step looks at its assets.
NextRequirement(x) ==
    run' = [run EXCEPT ![x].at = @ + 1, ![x].asset = NoAsset,
              ![x].snapshot = @ \ Snapshot(x),
              ![x].stage = FirstAction(ReuseOf(run[x].plan), run[x].at + 1)]

\* The execution ends: with an exception, unless it saves its state.
End(x) == run' = [run EXCEPT ![x] = NoRun]

\* The execution returns its state, standing at an action.
ReturnAt(x, action) ==
    /\ saved' = [saved EXCEPT ![run[x].plan] = StateAt(run[x].at, action, run[x].asset)]
    /\ End(x)

\* The receipts that steps from this state on may look at.
Receipts(state) ==
    {k \in approved : k[2] > state.at \/ (k[2] = state.at /\ state.action = "approval")}

\* execute is called with the state the caller holds and the approvals so far,
\* and reads the assets (listAssets) once for all its steps.
Start(x, p) ==
    /\ run[x].stage = "idle"
    /\ p \in Made
    /\ run' = [run EXCEPT ![x] =
                 [stage |-> saved[p].action, plan |-> p, at |-> saved[p].at,
                  asset |-> saved[p].asset, snapshot |-> assets,
                  approvals |-> Receipts(saved[p])]]
    /\ overlap' = (overlap \/ \E y \in Caller : run[y].stage # "idle")
    /\ UNCHANGED <<plans, approved, assets, saved, planeVars>>

\* Nothing here deactivates an asset, so the one to reuse is always found.
Reuse(x) ==
    /\ run[x].stage = "reuse"
    /\ \E a \in run[x].snapshot :
         /\ a.id = ReuseOf(run[x].plan)[run[x].at]
         /\ a.status = "active"
    /\ NextRequirement(x)
    /\ UNCHANGED <<plans, approved, assets, saved, overlap, planeVars>>

\* Mutant: a receipt for the requirement counts, whichever plan it is for.
ValidApprovalOfAnyPlan(x) == \E p \in Plan : <<p, run[x].at>> \in run[x].approvals

\* validApproval.
ValidApproval(x) == KeyOf(x) \in run[x].approvals

\* A receipt that expired or is not verified counts for nothing.  Those for this
\* requirement are not looked at again.
RequestApproval(x) ==
    /\ run[x].stage = "approval"
    /\ \/ /\ ValidApproval(x)
          /\ run' = [run EXCEPT ![x].stage = "provision",
                       ![x].approvals = {k \in @ : k[2] # run[x].at}]
          /\ UNCHANGED saved
       \/ ReturnAt(x, "approval")
    /\ UNCHANGED <<plans, approved, assets, overlap, planeVars>>

\* Mutant: the assets of the company are not looked through.
ProvisionAlways(x) ==
    /\ run[x].stage = "provision"
    /\ Execute(x, KeyOf(x))
    /\ Continue(x, "plane")
    /\ UNCHANGED <<plans, approved, assets, saved, overlap>>

\* assetForRequirement recovers an asset of the requirement, else the plane
\* executes the request.
Provision(x) ==
    /\ run[x].stage = "provision"
    /\ \/ /\ \E a \in Snapshot(x) : ContinueWith(x, "verify", a.id)
          /\ UNCHANGED planeVars
       \/ /\ Snapshot(x) = {}
          /\ Execute(x, KeyOf(x))
          /\ Continue(x, "plane")
    /\ UNCHANGED <<plans, approved, assets, saved, overlap>>

\* A result that requires reconciliation pauses the execution and a safe failure
\* fails it, both at the provision step.  An exception of the plane passes on.
TakeResult(x) ==
    /\ run[x].stage = "plane"
    /\ Return(x)
    /\ \/ /\ call[x].stage = "returned" /\ call[x].outcome \in {"ok", "free"}
          /\ Continue(x, "save")
          /\ UNCHANGED saved
       \/ /\ call[x].stage = "returned" /\ call[x].outcome \in {"unknown", "safe"}
          /\ ReturnAt(x, "provision")
       \/ /\ call[x].stage = "thrown"
          /\ End(x)
          /\ UNCHANGED saved
    /\ UNCHANGED <<plans, approved, assets, overlap>>

\* saveAsset inserts an asset under a new id.
SaveAsset(x) ==
    /\ run[x].stage = "save"
    /\ Cardinality(assets) < MaxAssets
    /\ LET id == Cardinality(assets) + 1
       IN  /\ assets' = assets \cup {[id |-> id, requirement |-> run[x].at,
                                     status |-> "planned"]}
           /\ ContinueWith(x, "verify", id)
    /\ UNCHANGED <<plans, approved, saved, overlap, planeVars>>

Activated(set, id) == {IF a.id = id THEN [a EXCEPT !.status = "active"] ELSE a : a \in set}

\* Mutant: the verified asset is not saved.
VerifyUnsaved(x) ==
    /\ run[x].stage = "verify"
    /\ NextRequirement(x)
    /\ UNCHANGED <<plans, approved, assets, saved, overlap, planeVars>>

\* verifyAsset of the trust boundary, then saveAsset replaces the asset with the
\* copy of the snapshot, now active.  An asset that fails fails the execution.
Verify(x) ==
    /\ run[x].stage = "verify"
    /\ \/ /\ assets' = Activated(assets, run[x].asset)
          /\ NextRequirement(x)
          /\ UNCHANGED saved
       \/ /\ ReturnAt(x, "verify")
          /\ UNCHANGED assets
    /\ UNCHANGED <<plans, approved, overlap, planeVars>>

\* Every step is completed.
Finish(x) ==
    /\ run[x].stage = "completed"
    /\ ReturnAt(x, "completed")
    /\ UNCHANGED <<plans, approved, assets, overlap, planeVars>>

-----------------------------------------------------------------------------
(* Faults. *)

\* The store or the trust boundary throws, before or after it took effect.
Throw(x) ==
    /\ run[x].stage \notin {"idle", "plane"}
    /\ faults < MaxFaults
    /\ faults' = faults + 1
    /\ End(x)
    /\ UNCHANGED <<plans, approved, assets, saved, overlap,
                   journal, result, spent, call, effects, acted, refunded>>

\* The process dies with its executions.
Crash ==
    /\ PlaneCrash
    /\ run' = [x \in Caller |-> NoRun]
    /\ UNCHANGED <<plans, approved, assets, saved, overlap>>

-----------------------------------------------------------------------------

Next ==
    \/ \E p \in Plan : MakePlan(p)
    \/ \E p \in Plan, r \in Bounded : Approve(p, r)
    \/ \E x \in Caller, p \in Plan : Start(x, p)
    \/ \E x \in Caller :
         \/ Reuse(x)
         \/ RequestApproval(x)
         \/ Provision(x)
         \/ TakeResult(x)
         \/ SaveAsset(x)
         \/ Verify(x)
         \/ Finish(x)
         \/ Throw(x)
    \/ PlaneNext /\ UNCHANGED bootstrapVars
    \/ Crash

Spec == Init /\ [][Next]_vars

-----------------------------------------------------------------------------
(* Correctness. *)

\* No provider acts for a requirement behind a human boundary unless that
\* requirement was approved for that very plan (request-approval before
\* provision, validApproval).
ApprovedBeforeEffect ==
    \A k \in Key : effects[k] > 0 /\ k[2] \in Bounded => k \in approved

\* An asset is saved only for a request the journal settled as applied: a
\* worker whose token was lost leaves none behind (saveAsset after execute).
AssetIsSettled ==
    \A a \in assets : \E p \in Plan :
        journal[<<p, a.requirement>>].state \in {"applied", "reconciled"}

\* A caller told that the bootstrap is completed has an active asset for every
\* requirement, whatever was lost on the way (state.completed).
CompletedIsProvisioned ==
    \A p \in Made : saved[p].at > Requirements =>
        \A r \in Requirement : Reusable(r) # {}

\* Executions one after the other, of any plans, with exceptions and crashes in
\* between, leave at most one asset for a requirement (assetForRequirement).
NoLogicalDuplicate ==
    ~overlap => \A a, b \in assets : a.requirement = b.requirement => a = b

\* "Un crash no implica repetir ciegamente un efecto externo": no provider acts
\* for a requirement while the journal still has an earlier effect for it that
\* is neither settled nor reconciled.
NoBlindRepeat ==
    [][\A k, l \in Key :
         /\ k # l /\ k[2] = l[2]
         /\ effects[k] > 0
         /\ journal[k].state \in {"intent", "unknown"}
         => effects'[l] = effects[l]]_vars

==============================================================================
