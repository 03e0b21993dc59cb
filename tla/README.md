# Verification of the XanxitoSpA runtime

This directory models the durable core of the XanxitoSpA runtime in TLA+,
checks it with TLC on small instances and proves, with TLAPS and for every
instance, the heartbeat, the observed-signal scheduler, the capability plane under
the bootstrap executor with its budget, journal, approvals and assets, the creative
mission, the derivation of authority from mandates and the ledger that holds them, the
merging KAST ledger, the adoption of changes by KAST Law and the company operations. Paths below are relative to the repository root.

## 1. The system

XanxitoSpA runs companies whose departments are agents. A company's state lives
in PostgreSQL; any number of runtime processes and MCP requests work on it at
once and may die at any time. What makes it hard is in three habits of the code:

* **leases with fencing tokens** instead of long transactions: a worker claims a
  lease, works for a while with what it read, and writes under a condition on
  the token. Worker identifiers are reused, so the token is all that
  distinguishes a worker from its own ghost;
* **an idempotency journal** whose keys pass from *intent* to *applied*,
  *failed* or *unknown*: a repeated call must neither repeat an effect nor lose
  one;
* **versioned assets** (compare-and-set on `version`), with an atomic batch for
  the authority ledger.

### Inventory

| Component | State | Operations | Hard behaviour | What makes it correct |
|---|---|---|---|---|
| Heartbeat engine (`kernel/src/heartbeat.ts`, `governed-heartbeat.ts`) | heartbeat lease and cursor | `tick`: claim, read cursor, list, wake, save cursor, release | takeover, worker name reuse, crash between wake and cursor, producers out of order; nothing in the repository schedules `tick` | no event passed unwoken; cursor monotone; a stale tick is powerless; ticks that get the lease pass every event |
| Postgres store (`database/src/postgres.ts`, migrations) | all tables | claim / renew / release / settle / mark, each one statement or transaction | each call is atomic, no two are | the WHERE clauses fence what they should |
| In-memory store (`database/src/runtime-store.ts`) | maps | as above | single process | agrees with Postgres (it does not everywhere) |
| Observed-signal scheduler (`kernel/src/observed-signal-scheduler.ts`) | the same lease, signal cursor, journal keys | `pollOnce` | partial failure between wake state, proposals, journal and cursor; keys change when the file grows; one bad row rejects the whole batch | rows not skipped, counted once, not lost |
| Connectors (`csv-signal-source.ts`, `business-system-connector.ts`, `signal-source.ts`) | none; the file is external | `poll`, attest, key | file grows, is spoiled and is mended between polls | position and rows agree |
| Connector registry and daemon (`business-system-registry.ts`) | timers | start, stop, poll each source | stop/start overlap | one iteration at a time |
| Governed wake engine (`governed-wake.ts`) | wake state asset, proposal assets | evaluate | two writers (daemon and `companyWakeEvaluate`) | CAS; replay memory |
| Creative pipeline (`creative-pipeline.ts`) | job, journal key, candidate assets, event | submit, worker step | lost lease or reply, several submitters and workers | one render; a completed job is decided and final |
| Authority mandates (`authority-mandate.ts`) | none: functions of the ledger | verify, derive active mandates and delegations | mandates applied out of issue order; mandates that expire | the loops compute their definition; delegated authority is derived; what was revoked stays so while the mandate that revoked it is in force |
| Authority ledger (`apps/mcp/src/runtime.ts`) | mandate, ledger head and keyring assets, journal, discovery revisions | apply mandate, resolve questions | verification and commit are separate calls; overlapping deployments | ledger never incomplete; commit implies verified at that point |
| Root enrollment (`authority-root-enrollment.ts`, `runtime.ts`) | challenge assets | prepare, verify | concurrent prepare / verify | one attempt per challenge |
| Discovery, constitution, company OS (`company-*.ts`, `discovery-orchestrator.ts`) | append-only assets | inspect, apply, project, plan, form | forks of the revision chain; a plan read from two listings and applied later | owner facts come from mandates only; drafts can be applied; models cover their intake |
| MCP operations (`apps/mcp/src/runtime.ts`) | journal rows with the stated intent, works, revisions, models, skills, genes, events, jobs | `workCreate`, `companyDiscoveryApply`, `companyApply`, `skillInstall`, `autoskillPropose`, `kastReflect` and the reads they build on | asset, event and journal mark saved one after the other; replayed keys; an installation saved under any identifier | an applied key has all its effects; whoever hears *applied* has what it asked for |
| Kernel (`kernel/src/index.ts`, `domain/src/index.ts`) | `spent` of a budget envelope | authorize, execute capability, mission graph, gene outcome | a reservation held across the adapter call, refunded on everything but a confirmed effect | what was spent exceeds the cap by no more than what uncertain answers gave back |
| Capability plane (`packages/providers/src/adapters.ts`) | journal key of a request | claim, replay, try providers in turn, settle | fallback after a failure; a stale intent taken over while its adapter is still acting; a replay of what was never settled | at most one effect for a key; a settled key keeps its answer |
| Bootstrap (`bootstrap.ts`, `bootstrap-executor.ts`) | assets, approvals, the execution state its caller holds | plan, execute, approve | the state is lost with the execution, the effect is not; a second plan for the same requirement; two executions on one snapshot | no effect without the plan's approval; no asset for an unsettled request; completed means provisioned |
| KAST ledger (`kast.ts`, `postgres-kast.ts`) | entries by fingerprint, occurrences, session receipts | close session, record, promote, verify | whole entries written back that were read before others wrote | counts are exact, promotions justified, nothing taken away |
| KAST Law (`kast-law.ts`, `git-kast.ts`, `kast-harness-runtime.ts`) | Git base branch, worktrees, branches, Engram memory | propose variants, verify, adjudicate, adopt, remember, clean up | the base moves between check and cherry-pick; names shared by retries; errors after the commit | only what was verified and selected is adopted; memory tells it; worktrees and branches stay with their run |
| Skills (`skill-registry.ts`, `company-skills.ts`, `control-catalog.ts`) | definitions, installations, genes | plan, install, propose, learn | a name compared before its slug is stored | one definition of a local skill |
| Provider registry and adapters (`packages/providers`) | connections | route, execute | remote failure | - |
| Server, OAuth, contracts, observability, demos, gyms | - | - | I/O, types and drivers | - |

The parts interact through the store only: the daemon and `companyWakeEvaluate`
share the heartbeat lease and the wake state; the creative worker, the scheduler
and the mandate operation share the journal (under different keys); a mandate
that commits goes on to write the discovery chain, which the company operations
extend and read too. KAST sessions meet in the ledger table, KAST Law runs in one Git
repository. The bootstrap executor calls
the capability plane, which claims the journal, reserves from the envelope in the
kernel and calls the adapter; what comes back becomes an asset. There are no messages
between processes, and nothing shared but the store; only the envelope is an object
of one runtime.

## 2. Modules

```
HeartbeatLease ---- Heartbeat ------ HeartbeatProofs
      |                 \---refines--> EventConsumer
      \------------ ObservedSignals - SignalsProofs
IdempotencyJournal - CreativeMission - CreativeProofs
      \------------ CapabilityPlane - BootstrapExecutor - BootstrapProofs
AuthorityMandates -- AuthorityHistory <--refines-- AuthorityLedger - AuthorityProofs (of both)
IdempotencyJournal --\
CompanyDiscovery ------ CompanyOperations - CompanyProofs
OperatingModel -------/
KastLedger - KastProofs            KastLaw - KastLawProofs
```

* **HeartbeatLease**: the row of `xspa.heartbeat_leases`, with claim, release,
  the check whether a lease is current, and its expiry. `OwnerOf` gives each
  process its worker identifier, which need not be its own. The clock is
  abstracted to whether the lease is still live.
* **Heartbeat**: `HeartbeatEngine.tick`. Every awaited store call is an action
  (`Claim`, `GetCursor`, `ListEvents`, `Wake`, `SaveCursor`, `Release`); the
  locals of the tick are in `tick`, its place in `pc`. `Throw` is an exception
  of any call (the `finally` releases), `Crash` is the process dying, `Overrun`
  the lease running out under a live tick, `ExpireAbandoned` under a dead one,
  `Append` a producer. An event is a number, its place in the
  `(occurred_at, id)` order.
* **EventConsumer**: the abstract at-least-once consumer that Heartbeat
  implements: a position that only moves onto an appended event with everything
  material before it handled, or excused because it came behind a page already
  listed. An event appended at the end of the log is never excused.
* **ObservedSignals**: `pollOnce` with the CSV connector, the wake evaluation
  and its persistence, the journal and the signal cursor; the process that is
  no poller is `companyWakeEvaluate`, which writes the same wake state. A key is
  a triple of row, position before and position after, since that is what its
  hash depends on. `bad` is what of the file a poll rejects, 0 for the file itself
  (missing, shorter than the position, or with a wrong header) and a number for a
  row: `PollThrows` rejects the whole batch before any key is claimed, at every poll
  until somebody mends the file (`Spoil`, `Mend`).
* **IdempotencyJournal**: the transitions of one journal row as the SQL makes
  them. **CreativeMission**: `submitCreativeMission` and
  `processCreativeMissionJob` with the job, both journal keys, the candidate
  assets and the decided event. A lost reply is a call that takes effect and
  then throws.
* **CapabilityPlane**: `CapabilityPlane.execute` with `executeCapabilityRequest`
  inside it. The actions of a call are the claim or replay (`Execute`), the
  takeover of a stale intent (`Reconcile`), the attempts with each provider
  (`Refuse`, `Unavailable`, `Attempt`, `Effect`, `Answer`) and the settlement
  (`Settle`, `FailBeforeEffect`). `Effect` is the moment the provider acts, which
  the plane does not see: an answer before it is a failure or a lost request, one
  after it a confirmation or an uncertain reply. Grants, routing and the static
  limits are refusals that may happen to any attempt. One assumption is made of
  adapters: one that claims to have failed without effect tells the truth. `acted`
  is what providers spent, `refunded` what of it an uncertain answer gave back.
  `Reconciled` is an external reconciler, as the fault-injection pilot has it.
* **BootstrapExecutor**: `planCompanyBootstrap` and `BootstrapExecutor.execute`
  over it. `Start` reads the assets once, as the code does; all later steps look
  at that snapshot. The completed steps of a plan are a prefix of its steps, so a
  state is a requirement and the action it stands at. Verification and the save
  of the verified asset are one step, since nothing else writes that asset's
  status; an exception between them is a `Throw` before it. Receipts and snapshot
  entries that no later step can look at are dropped.
* **AuthorityMandates**: the pure derivation of active mandates and effective
  anchors from the mandates in force at a time (`Current`). An expired mandate is
  not valid, ends nothing and delegates nothing, so the loops are those of the others.
  **AuthorityHistory**: the abstract ledger with its clock, in which verification and
  commit are one step, under any deployment's keyring and at any time since the
  request began. **AuthorityLedger**: the
  concurrent requests with every store call a step; it implements
  AuthorityHistory. It holds root enrollment and the resolution of discovery
  questions too.
* **CompanyDiscovery**: revisions as a tree numbered by their saves, with the rule
  of what an untrusted caller may write (`WriteSafe`), the draft of the
  orchestrator (`Draft`) and the answer of a mandate (`Answered`), which may close
  several questions at once. `answerer` is who a question's requirement leaves its
  answer to; a question without one, of a category that is not the owner's, is
  answered by either. A fact that is
  not owner-confirmed binds nothing and is left out; `intact` is whether an
  owner-confirmed fact still says what it said.
* **OperatingModel**: `planCompanyOperatingModel` with the skill bootstrap plan as
  functions of intake, discovery and skills. Search scores become which skills
  suit a process and an order among them, of which a search returns the first
  `ProcessLimit` or `CapabilityLimit`. `Covers` is what a plan owes its intake.
* **CompanyOperations**: the MCP handlers that write under an idempotency key. A
  call claims its key (`Claim`, or an answer from the journal by `Replay`), looks,
  builds, saves its assets, appends its event and marks its key, every store call a
  step. `Await` is a store call that took effect and whose reply arrives or is
  lost, `Throw` one that did nothing, `Catch` the handler's catch block, `Crash` a
  process that dies or a catch that cannot reach the store. `intent` is the request
  a row was claimed with, which its hash stands for. `ReadForMandate` and
  `SaveForMandate` are the resolution of a question as AuthorityLedger performs
  it, reduced to what it does to the tree; `ApplyVerifiedOutcomeToGene` is the
  kernel's learning. `skillInstall` saves under the identifier its caller chose with
  an upsert that keeps the kind of the row, so an installation may be saved over a
  revision, an operating model, a definition or an installation that was there
  (`MayName`, `SavedOver`). `overwritten` holds what was: its content is gone, and
  whoever lists assets of its kind throws (`Unreadable`).
* **KastLedger**: `closeHarnessSession` with every read, upsert and read-back a
  step, and maintainers that hold an entry they read any time before. `Merge` is
  `mergeEntries` under the row lock. The random identifier of an entry is the
  call that drew it.
* **KastLaw**: `GitBackedKastRuntime.run` with `KastEngine.run` inside it. Every Git
  command and port call is a step. A commit is the run and variant it holds; what
  a variant changes is what the checks find in it (`Kind`). A worktree is made
  together with its branch and each is somebody's until it is removed. `Move` is another
  committer, and a cherry-pick applies to whatever HEAD is by then; it may fail after
  it made its commit.
* **MC\*** modules give the constants their values; the `.cfg` files choose.

A definition whose comment begins with "Mutant:" is a deliberately wrong variant
of the one after it. The specifications never use it; it is there to show that
the property that should notice the mistake does.

## 3. Runs

| Run | Shows | Bounds |
|---|---|---|
| `heartbeat` | `TypeOK`, `NoEventSkipped`, `CursorNeverRegresses`, `StaleHolderPowerless`, `ConsumerSpec` (refinement), `EventuallyPassed` | 2 ticks with one worker name, 3 events of which 2 are material, appended in any order, page of 2, 5 claims, 1 fault |
| `signals` | `NoRowSkipped`, `CountedOnce`, `NothingLost`, `SignalCursorNeverRegresses`, `PassedOrReconciling` | 2 polls with one worker name, 1 evaluation, 2 rows, 4 claims, 1 fault, which may be a file or a row spoiled |
| `creative_mission` | `RendersOnce`, `CompletedWasDecided`, `JobIsSubmitted`, `CompletedIsFinal`, `StaleWorkerPowerless` | 2 submitters, 2 workers, 2 contents, 2 candidates, 3 attempts (as in the code), 2 faults |
| `bootstrap` | `EffectOncePerKey`, `WithinBudget`, `ApprovedBeforeEffect`, `AssetIsSettled`, `CompletedIsProvisioned`, `NoLogicalDuplicate` | 2 executions, 1 requirement behind a human boundary, 2 plans, 2 attempts, an envelope for one request at a time, 2 assets, 1 fault; `Pairwise` |
| `bootstrap_repeat` | counterexample to `NoBlindRepeat` | 1 execution, 1 requirement that needs no human, 2 plans, 1 fault |
| `authority_history` | `ActiveIsUnrevoked`, `AuthorityIsDerived`, `RevokedStaysRevoked` | 6 mandates that delegate, use, revoke and delegate again, one of which ends a mandate issued after itself and 2 of which expire; 2 root keys and a delegated one, 7 times |
| `authority_ledger` | `LedgerNeverIncomplete`, `OneAttempt`, `LedgerHistory` (refinement) | 2 requests at a time, 3 in all, 2 tries (3 in the code), 3 mandates, 1 fault |
| `kast_ledger` | `RecurrenceExact`, `ReceiptNamesEntries`, `PromotedIsJustified`, `NothingUndone` | 3 session closes of 2 sessions, 1 maintainer, 1 fingerprint, severities 0 and 2, 2 times, 1 fault |
| `kast_law` | `AdoptedAsVerified`, `OutcomeTruthful`, `WorkspacesOwned` | 2 runs whose triggers share a prefix, 2 overlays, 1 foreign commit, 1 fault |
| `kast_moved_base` | counterexample to `AdoptedOnBase` | the same without a fault |
| `company_operations` | `JournalTellsEffects`, `AnsweredAsAsked`, `OwnerFactsFromMandates`, `DraftsAreAccepted`, `ModelsCover` | 2 calls of any operation, at once or one after the other, 2 identifiers, 2 questions of which 1 is reserved, 1 mandate, 2 intakes, 2 scopes of an installation, 1 fault |
| `company_skills` | counterexample to `OneDefinitionPerSkill` | the same with 1 caller and no fault |

Every bound is a constant (`MaxToken`, `MaxFaults`, `MaxRows`, `MaxCalls`,
`MaxTries`, `MaxPlans`, `MaxAssets`, `MaxMoves`, `MaxTime`) or the size of a set. They suffice in this
sense: a hazard here needs one process that is overtaken, one that overtakes it
and one piece of work behind what the first was doing. Two processes, with a
claim for each and two more for the retry, reach that, and every variant marked
"Mutant:" is refuted within the bounds of the run that should refute it. A third
heartbeat process and a second worker name add no new kind of step; for the
heartbeat the proofs remove the bounds altogether.

`bootstrap` carries the constraint `Pairwise`: of a fault, a second plan and two
executions at the same time a behaviour has at most two. Each of the three
meets each other one; a behaviour with all three is left to the proofs, which
need no such constraint. Requirements share nothing but the envelope and
are taken in order, so a second one adds length and no new interference; the
envelope is contended by the two executions already.

In `kast_ledger` a fingerprint is locked and merged on its own, so a second one
adds no interference. The third close is what it takes to reach a promotion by
recurrence while a stale copy is still held. `kast_law` needs two runs with the same
names and one commit of a stranger between check and cherry-pick; proofs remove
both bounds. In `company_operations` a hazard is a pair of calls (the same key
twice, an apply after something was installed, two revisions of one parent) with
a mandate, gene learning and a fault between their steps; a sequence of three
calls is beyond this instance (`MaxCalls` is 2). The theorems about it hold for any number of calls.

`authority_history` applies its six mandates in every order that verification allows.
They are chosen so that each rule has a mandate that would break it: one that tries
to end a mandate with more scopes than its own and one of another issuer, two
delegations of one key with different grants, an administrator who ends both sides of
a revocation, a delegation that expires and later a revocation that does. What a longer
history could add is left to the proofs, which hold for any set of mandates.

One fault is enough in `heartbeat` because an overrun alone brings two ticks to
work at once with two claims, and in `signals` because the lease can also
run out between two polls without one.

All configurations set `CHECK_DEADLOCK FALSE`: tokens, attempts, requests, rows
and faults are bounded, so a model stops when they are used up (the program
would simply claim the next token).

Symmetry is used for interchangeable processes and contents in safety runs
only; no run that checks liveness uses it.

### Fairness

`FairSpec` of Heartbeat and ObservedSignals assumes weak fairness of `Proceed` of each
process and of nothing else: a tick or a poll *that has its lease* goes on, because
every call it awaits returns or throws. Nobody is assumed to call. Nothing under
`src/` schedules `HeartbeatEngine.tick` (the demo and the gyms call it), and the timer of the
signal daemon (`business-system-registry.ts`) can be stopped. Claims,
the expiry of leases, producers, rows, faults, crashes and the mending of a file are
never owed.

Liveness is therefore conditional, and the condition is in the formula:

* `EventuallyPassed`: once as many ticks have been *granted the lease* as an event needs
  (`TicksNeeded`: one for each fault to come and one for each event), the cursor
  reaches it. Each grant is a new fencing token, so the number of grants is `lease.token`.
* `PassedOrReconciling`: the same of polls and rows (`PollsNeeded`), as long as no two cycles
  overlap and no wake evaluation takes the lease (`Disturbed`), and unless a key
  requires reconciliation or the file or a row behind the cursor cannot be read
  (`PollThrows`). These last two are how a source stops for ever in the code:
  `csv-signal-source.ts` throws at every poll until the file is mended, and after that
  the property asks for progress again.

A leads-to whose left-hand side says `<>(lease.token >= n)` is vacuous only for behaviours
in which too few ticks get the lease; the run has those with enough, and the
variants `OnlyWakingSaves` and `OnlyFreshSaves`, in which a cycle that had nothing to wake
leaves its cursor behind, are refuted.

## 4. What the runs found

* **A new plan repeats an effect** (`bootstrap_repeat`). The journal key of a step
  is made of the plan's fingerprint and the step's identifier
  (`bootstrap-executor.ts:141`), both random for every plan. After a crash
  between the effect and the saved asset the key of the first plan is still an
  intent, a second plan finds no asset to reuse and a provider acts again under
  a key of its own, against
  `docs/XANXITOSPA_ARQUITECTURA_INICIAL_2026.md:1899`. Executing the *first* plan
  again does not repeat it: that is `EffectOncePerKey`.
* **Two definitions of one skill** (`company_skills`). `autoskillPropose` compares
  the name it is given with stored identifiers (`apps/mcp/src/runtime.ts:1075`) and
  stores the slug of the name. Two proposals of `crm.follow` under two identifiers
  both pass and leave two definitions of one version, after which the registry
  throws "duplicate skill version" in every plan that searches it.

* **Adoption on a moved base** (`kast_moved_base`). `GitAdoptionPort` compares HEAD with
  the base it expects (`git-kast.ts:184`) and picks the commit four commands later onto
  whatever HEAD is by then (`git-kast.ts:198`). Against
  `docs/RUNTIME_V10_SELF_IMPROVEMENT_AND_CHARACTERS_2026-08-22.md:50` and
  `skills/kast/SKILL.md:118` the verified commit can so land on a base that moved, and
  is reported as adopted. What is adopted is still the change that was verified and
  selected: that is `AdoptedAsVerified`.

### What the properties except

Where the code breaks the plain form of a property and no document promises it, the
property says what the exception is, and shows that there is no other.

* *An expired revocation.* An expired mandate is not valid
  (`authority-mandate.ts:72`) and is skipped when mandates are ended (`:105`), so what it
  revoked or superseded is active again. `RevokedStaysRevoked` holds until such a mandate
  expires (`EnderExpires`) or one is applied that reaches back (`ReachesBack`).
* *Uncertain spending.* The envelope gets back the reservation of an effect whose answer
  is uncertain (`kernel/src/index.ts:209`), and reconciling that effect later charges
  nothing. So providers can spend more than the cap. `WithinBudget` counts what they
  spent, confirmed or not, and bounds the excess by what was given back (`refunded`).
* *Installations saved over other assets.* `JournalTellsEffects` and `AnsweredAsAsked`
  except a request only where an installation was saved over the very asset it
  stored or was answered by, or where its own was saved over an asset of another kind
  (`SavedOverIt`). Anybody else's content is still there.
* *Scopes of what was already installed.* The fingerprint of an installation holds its scopes
  (`runtime.ts:1003`), the search for an active one does not compare them (`:1017`). A caller
  answered *already-installed* has the skill in its department, perhaps with other
  scopes; one whose installation was saved has its own.
* *Keys marked failed after a save.* `workCreate`, `skillInstall`, `autoskillPropose` and
  `kastReflect` mark a key failed whatever they had saved (`runtime.ts:256`, `:1032`, `:1090`,
  `:1184`). Only discovery and formation keep apart what failed before and after the save,
  so only of them does `JournalTellsEffects` ask what an unknown or failed key says.
* *A proposal that was cut off.* Pending rows are cleared with the wake state, before the
  proposals are saved. `NothingLost` excepts the rows of proposals whose save was cut off; they are lost.
* *A cherry-pick that took effect and was reported as failed.* `OutcomeTruthful` excepts the
  runs whose command, or whose reading of the reference after it, failed after the
  commit was made; their memory says *rejected*.
* *Workspaces of a run that met a fault.* `WorkspacesOwned` excuses leftovers only of the run
  that died, or that itself failed to make or remove a workspace; no other run takes or removes
  them, and a fault of one run excuses nothing of another.

### Rules stated and not required

Five more rules that the repository states are written down next to the model they
speak about, as definitions that no run requires, since what the code does
breaks each of them:

| Definition | The rule | What the code does |
|---|---|---|
| `ObservedSignals!UnknownBlocksCursor` | `docs/CURRENT_ARCHITECTURE_2026-08-25.md:258`: an unknown key blocks the cursor | the key hashes the cursor after the poll (`business-system-connector.ts:104`); once the file grows the event comes under a new key. `CountedOnce` shows that it is still not counted twice |
| `CreativeMission!AppliedStays` | `docs/RUNTIME_V12_DURABLE_2026-08-21.md`: the order of journal states | the worker's catch marks the key unknown whatever it says (`creative-pipeline.ts:439`) |
| `AuthorityLedger!ResolvedByActive` | only an active mandate resolves an owner question | the discovery step uses the verification from before the commit (`runtime.ts:567`) |
| `AuthorityLedger!OneActiveChallenge` | one active enrollment challenge | `prepare` lists and then inserts (`runtime.ts:413`). `OneAttempt` still bounds what a challenge is good for |
| `KastLedger!VerifiedLeavesBacklog` | `packages/testing/src/kast-gym.ts:108`: verified entries leave the backlog | the merge keeps *accepted* against everything (`postgres-kast.ts:88`), so a promoted entry stays in it; `NothingUndone` is the other side of the same rule |

Two more things look like the rule that revoked authority does not come back and are not
required, because the code does otherwise and no document says it must not:

* *A mandate that is not active may become so.* Only what was *ended* stays ended. A
  mandate of a delegated key that its delegation did not cover becomes active when that
  delegation is revoked and another one of the key, listed behind it, comes to count
  (`authority-mandate.ts:138`).
* *A mandate may end one issued after itself.* `authority-mandate.ts:106` checks scopes
  and issuer of what is ended and not when it was issued. A mandate applied late can so
  end one whose turn would come after its own, and what that one had ended is active
  again; `RevokedStaysRevoked` speaks of the other steps (`ReachesBack`).

## 5. Proofs

### The heartbeat

`HeartbeatProofs` proves, for any number of processes, worker names, events,
page sizes, tokens and faults, from the assumptions on the constants in
HeartbeatLease (`LeaseAssumption`) and Heartbeat (`HeartbeatAssumption`) alone:

| Theorem | States |
|---|---|
| `TypeCorrect` | `Spec => []TypeOK` |
| `NothingSkipped` | `Spec => [](NoEventSkipped /\ OwnViewIsExact)` |
| `CursorMonotone` | `Spec => CursorNeverRegresses` |
| `StaleHolder` | `Spec => StaleHolderPowerless` |
| `Refinement` | `Spec => ConsumerSpec` |

`NoEventSkipped` is not inductive: whether a cursor write is harmless depends on
what the writer read long before. `IInv` adds that

* tokens in use were issued and no two processes inside a tick share one
  (`TokensIssued`, `TokensUnique`), so at most one process holds the lease
  (`OneOwner`);
* the page of a tick lies after the cursor it read (`PageIsForward`);
* the holder's cursor is the stored one (`OwnViewIsExact`) and its page contains
  every material event up to its last that is not `late` (`PageIsComplete`);
* before the save the page has been woken (`SaveIsHandled`).

One lemma per action shows that it keeps `IInv`. Throwing, crashing, losing the
lease and releasing are one lemma (`WithdrawKeeps`): they only withdraw
processes from what the invariant speaks about. A save that succeeds is a save
of the holder, whose view is exact, so the cursor moves from where its page
began to the end of a page that is complete and woken. `Refinement` rests on
`AppendIsAppend`: an event appended at the end of the log is behind no cursor
and no page, so it is never late.

### Observed signals

`SignalsProofs` proves, for any number of polling cycles and evaluations, worker
names, rows, tokens and faults, from `LeaseAssumption` and `SignalsAssumption` alone:

| Theorem | States |
|---|---|
| `TypeCorrect` | `Spec => []TypeOK` |
| `NothingSkipped` | `Spec => []NoRowSkipped` |
| `CountsOnce` | `Spec => []CountedOnce` |
| `LosesNothing` | `Spec => []NothingLost` |
| `CursorMonotone` | `Spec => SignalCursorNeverRegresses` |

None of these is inductive: whether the cursor may move depends on what the journal
and the wake state say of keys that were made for another page. `IInv` adds that

* no two cycles run under one token, nobody has read past the end of the file, and
  the stored cursor is not past what the holder of the lease is about to save
  (`LeaseInv`, `PositionInv`);
* a row behind the cursor, one whose key is applied and one the wake state retains
  a key of has been counted (`CountedInv`);
* each row of a page is counted or still on its way through this cycle: to be
  claimed, to be evaluated, or due (`PageInv`), which is what lets `Save` move the
  cursor to the end of the page;
* a counted row has its replay key in the wake state unless the key lapsed
  (`ReplayInv`), and an evaluation on the version it read keeps these keys and
  counts only rows without one (`EvaluationInv`). An evaluation on an older version
  does not matter: the compare-and-set refuses it.

The data lemmas are about the order in which a set of rows is listed: the rank of a
row is an injection of a finite set into 1 up to its size, so every place of the
list is taken (`Ranks`, `InOrder`); an evaluation leaves each row it counts pending
or due (`Evaluated`), and taking the first proposal off the due rows splits them
(`DueSplits`). `Others` and `Here` separate the locals of the cycle that steps from
those of the rest, so the lemma for an action looks at one cycle only.

### The capability plane under the bootstrap executor

`BootstrapProofs` proves, for any number of callers, requirements, plans, attempts,
assets and faults and any amount and cap, from `PlaneAssumption` and
`BootstrapAssumption` alone:

| Theorem | States |
|---|---|
| `TypeCorrect` | `Spec => []TypeOK` |
| `EffectOnce` | `Spec => []EffectOncePerKey` |
| `BudgetKept` | `Spec => []WithinBudget` |
| `ApprovalsFirst` | `Spec => []ApprovedBeforeEffect` |
| `AssetsSettled` | `Spec => []AssetIsSettled` |
| `CompletionProvisioned` | `Spec => []CompletedIsProvisioned` |
| `NoDuplicates` | `Spec => []NoLogicalDuplicate` |

None of the safety properties is inductive. That a provider acts at most once for a key
depends on who may still be working on it; that the envelope is kept depends on
what is reserved. `PlaneInv` adds that

* a call inside the plane has a key (`Keyed`);
* no two calls work on one key between claim and settlement, and the key of a
  working call has been claimed (`Exclusive`), although its row may have been
  taken over as stale: the takeover escalates and never starts another attempt;
* a key has no effect while its row has none, nor while a call is still before its
  provider's effect (`Untouched`). That is where the fallback rule is needed, for
  only an attempt that provably had no effect is followed by another;
* what is spent and what uncertain answers gave back are together what providers spent
  and one amount for every call about to act (`Balanced`), and no more is given back
  than was reserved. With the cap on what is spent this is the property. The step lemmas for it
  rest on how `Cardinality` of a finite set changes by one element.

`ExecutorInv` adds the types of the executor, and that an execution inside a
requirement's steps stands at a requirement of its plan (`AtRequirement`), so that
the keys it passes to the plane are keys. One lemma for each action of the plane
and of the executor keeps each; the two halves are put together in `Invariance`.

The properties of the assets need, besides, what links an execution to its call and
to what it read when it started. `SafetyInv` and `DuplicateInv` add that

* an execution in the plane has its call there, under its own key (`Linked`); a
  call that returns a success has settled its key, because the row of a key that
  is held is still an intent unless it was taken over (`HeldRows`), and results
  that may be replayed belong to settled keys (`ResultsSettled`). Settled keys
  stay settled, so an asset saved long after the return still has one;
* nobody stands at a provision, in the plane or in a state to resume, without the
  approval of that key (`ApprovalInv`);
* whoever stands at a requirement has an active asset behind every earlier one
  (`Steady`). A plan's reuse is of an asset that was active then, a snapshot holds
  assets that there are, and assets are only added or activated (`AllGrow`): that
  is why a stale snapshot does no harm here;
* while executions have not overlapped there is one at most, its snapshot covers
  the assets of every requirement it has yet to look at, and it asks the plane
  only for one that has none (`Current`).

### The creative mission

`CreativeProofs` proves, for any number of submitters, workers, missions,
candidates and faults, from `CreativeAssumption` alone:

| Theorem | States |
|---|---|
| `TypeCorrect` | `Spec => []TypeOK` |
| `OneRunRenders` | `Spec => []RendersOnce` |
| `JobAsSubmitted` | `Spec => []JobIsSubmitted` |
| `CompletionDecided` | `Spec => []CompletedWasDecided` |
| `CompletionFinal` | `Spec => CompletedIsFinal` |
| `StaleWorker` | `Spec => StaleWorkerPowerless` |

`IInv` adds to the types that

* the token of the job counts its attempts, a live lease is of a running job, and
  who works on the job was granted it (`JobInv`), so the expiry of a lease cannot
  touch a completed job;
* whoever is past the claim of the submission, a reconciler included, has the
  mission that claimed it (`SubmissionInv`), so it does not matter whose enqueue
  comes first;
* only the first claimant of the mission key ever renders, and all assets are of
  its run (`RenderInv`): a worker that claims the job again finds the key taken,
  and a key is never free again;
* a result is journaled before any worker settles the job with it, and an asset
  is selected only for a mission that is not the executive's to decide
  (`DecisionInv`).

`SubmitterSteps` and `WorkerSteps` say what a step can do to what is stored, so the
lemmas that keep each part need not look at every action, lost reply and
exception.

### Mandates and their history

`AuthorityProofs` proves, for any set of mandates, keys and scopes and any order of
applying them, from `MandateAssumption` alone:

| Theorem | States |
|---|---|
| `ResolvedAsDefined` | `HistorySpec => []ActiveIsUnrevoked` |
| `DerivedAuthority` | `HistorySpec => []AuthorityIsDerived` |
| `RevocationLasts` | `HistorySpec => RevokedStaysRevoked` |

State adds little here: all that is needed of it is that the list is a sequence of mandates
that only grows (`HistoryTyped`, `HistoryStep`). The argument is about the loops that
resolve a list, which are folds.

* *From the fold to its definition.* A fold is a function that satisfies an equation
  at each place of the order (`ActiveIsFold`), and the order is one in which each
  mandate has its rank (`RanksOf`, `SortedIs`). So the mandates that took their turn
  are a set that satisfies `TakesTurn` (`TurnsExist`), and what is left is what they
  spared (`ActiveIsSpared`).
* *There is one such set.* Two of them would differ in a mandate issued first among
  those they differ in. All that could end it is issued before it, and of that
  the two say the same (`TurnsKept`, `OneTurn`). `LeastNat` supplies the first one: every
  set of numbers that has a member has a least, from the size of a finite set, since the
  induction theorems of the library are out of the provers' reach.
* *Delegation changes no turn.* Only mandates of root keys end others
  (`OwnersAre`, `RootOwnersAre`), so the mandates that take their turn before keys are
  delegated, from which the delegations are read, are those that do after
  (`LoopsAreRight`). That is why a delegation read in the first pass is still active in
  the second (`DerivedFrom`).
* *More mandates leave each turn as it was*, when none of the new ones ends a mandate
  issued after itself (`TurnsKept` again, with more mandates on one side), *and so do
  fewer*, when none of those that expired ended any (`TurnsWithin`). What was
  ended was ended by a mandate that took its turn and still does (`EndedStays`).

### The authority ledger

The same module proves, for any number of requests, mandates, keys, scopes,
questions, attempts and faults, from `MandateAssumption` and `LedgerAssumption` alone:

| Theorem | States |
|---|---|
| `TypeCorrect` | `Spec => []TypeOK` |
| `LedgerWhole` | `Spec => []LedgerNeverIncomplete` |
| `ChallengeServesOnce` | `Spec => []OneAttempt` |
| `Refinement` | `Spec => LedgerHistory` |
| `LedgerAuthority` | the three properties of the history, of the ledger that requests build |

`IInv` adds that

* a stamp is of one request, and that request makes at most one asset with it
  (`StampInv`), so the order in which mandates are listed is a total one;
* both heads count the mandates (`HeadInv`), so a version that still stands means that
  neither the mandates nor the keys changed since it was read;
* a request that is about to commit was verified against the mandates it read, and
  they are the mandates there are if its version stands (`LoadedInv`);
* a proof was evaluated for consumed challenges only (`AttemptInv`).

The refinement needs one fact about data: listing a set with one mandate more, by
stamp, inserts that mandate somewhere in the list (`ListInsert`), since requests
commit in another order than they began. It rests on the ranks of the stamps
(`Ranks`, `NthIs`), for which the library's counting theorems are enough. `Refinement`
does not look into what verification decides, so it holds for any rule of which mandates
are active; `LedgerAuthority` takes that rule from the section above, for the list as
the store returns it.

### The KAST ledger

`KastProofs` proves, for any number of sessions, calls, maintainers, fingerprints,
times and faults, from `KastAssumption` alone:

| Theorem | States |
|---|---|
| `TypeCorrect` | `Spec => []TypeOK` |
| `RecurrenceCounted` | `Spec => []RecurrenceExact` |
| `ReceiptsTrue` | `Spec => []ReceiptNamesEntries` |
| `PromotionJustified` | `Spec => []PromotedIsJustified` |
| `NothingTakenAway` | `Spec => NothingUndone` |

A write may carry a copy of any age, so the properties are not inductive: they
need to know what copies there can be. `IInv` adds that a held copy is an older
state of its entry (`HeldAreCopies`), that what a close is about to write has an
exact count and no promotion the stored entry lacks (`UpsertsAcceptable`), and
that the names a call has gathered are stored (`ReadsBackOwn`, `CallNamesEntries`).
`MergeSound` shows that merging an `Acceptable` entry keeps the ledger and only
grows the entry; `StaysCopy`, `StaysAcceptable` and `StaysNamed` that growth keeps
every other copy what it was. So the one lemma `UpsertSound` serves closes,
promotions and verifications. Promotion is the delicate case: the copy justified
it by its count, the count stored since is larger and the severity, from which
the needed count follows, is larger too, so the needed count is smaller.

### KAST Law

`KastLawProofs` proves, for any number of runs, overlays, prefixes, foreign commits
and faults, from `KastLawAssumption` alone:

| Theorem | States |
|---|---|
| `TypeCorrect` | `Spec => []TypeOK` |
| `AdoptionSound` | `Spec => []AdoptedAsVerified` |
| `OutcomesTold` | `Spec => []OutcomeTruthful` |
| `WorkspacesKeptApart` | `Spec => []WorkspacesOwned` |

The invariant is `TypeOK` and a `RunInv` of each run: a commit of a run is of its
selected, sound variant, is its only one and the run is past the cherry-pick
(`CommitInv`); what it is about to pick was selected and is sound (`SelectionInv`);
what it will save to memory is true of the base branch (`RecordInv`); the
worktrees and branches it was given are its own, and it has no other unless it met a
fault (`WorkspaceInv`). `UntouchedInv` shows that a step which
leaves a run's commits, worktrees, records and locals alone keeps its `RunInv`, so
a lemma for an action looks at the run that takes it and at nothing else.

### The company operations

`CompanyProofs` proves, for any number of calls, identifiers, mandates, questions,
departments, processes, capabilities, skills and faults, from
`CompanyDiscoveryAssumption`, `OperatingModelAssumption` and
`CompanyOperationsAssumption` alone:

| Theorem | States |
|---|---|
| `TypeCorrect` | `Spec => []TypeOK` |
| `JournalTold` | `Spec => []JournalTellsEffects` |
| `AnsweredIsStored` | `Spec => []AnsweredAsAsked` |
| `OwnerFactsHold` | `Spec => []OwnerFactsFromMandates` |
| `DraftsHold` | `Spec => []DraftsAreAccepted` |
| `ModelsHold` | `Spec => []ModelsCover` |

`Stored` is not kept by every step: an installation may be saved over what another
request stored. `IInv` is therefore about what *was* saved (`WasStored`), and adds what
each call must know at each of its stages (`StageInv`) and of its asset (`PersistedInv`),
that a call in progress has a row of its own (`OwnInv`, `OneCaller`), that the event of
an installation follows its save (`EventInv`), that a gene is of a definition of its
skill (`GeneInv`), and where facts come from (`RevisionInv`). Everything that was saved
only grows (`Grows`), so a key whose effects are all there keeps them (`SettledStays`),
and a call that does not act keeps its part (`OtherCall`); `Assemble` then asks
of a step only the part of the acting call and of its key. What was saved and is not
stored has been saved over by an installation (`StoredOrSavedOver`).

Three facts are about data. A plan that is not refused covers its intake for any
tables of departments, processes and skills (`PlanCovers`), and still does when skills
are added (`CoversGrows`), which is why reading assets and discovery at two moments
is harmless. A draft passes the rule it will be checked by (`DraftAccepted`). And the
line of a fact's mandate is found by taking the first revision without one: its fact
would come from its parent, which is earlier and has one. For that, descent is
defined by closed sets (`DescendsFrom`) and not by recursion.

### Only model-checked

Liveness under fairness (`EventuallyPassed`, `PassedOrReconciling`): the argument needs
ENABLED and induction over claims, which these provers do not reach. Every other property
of a passing run is stated by a theorem.

## 6. Not modelled

* Scores, decay, thresholds and confidence of the wake engine: any subset of the
  new events may cross the threshold.
* Signatures, hashes and canonical encodings: a mandate or a proof is valid or
  it is not.
* `notBefore` of a mandate and the validity of configured root anchors: a root key may sign
  at all times.
* Renewal of leases: the code never renews one inside a tick or a poll.
* Provider adapters, their routing, secrets and connections: which provider is
  next, and whether there is one, is a choice.
* Leases and layers of the mission graph, which runs in one call and keeps nothing;
  fitness arithmetic of genes, of which only the resulting status is a choice.
* Of the company operations: status and listing operations, configuration,
  `applyDiscoveryAnswers`, readiness scores and the constitution, which is a check
  of a document.
* Of KAST: the text of observations and their canonical fingerprints, the workflow
  a harness runs behind the ports, and the in-memory store.
* Of an installation: an identifier that is that of an asset of another module (a
  mandate, a wake state, a candidate of a creative mission), and a skill of the catalog
  whose identifier is the slug of a Company-local one (`runtime.ts:1073` compares the name
  before it is turned into a slug): catalog and local skills are disjoint here, by
  `OperatingModelAssumption`.
* Of KAST Law: the `cherry-pick --abort` of one run while another's cherry-pick is under
  way; a cherry-pick is one step.
* Limits of the server on the size of a discovery (`server.ts:393`).
* Transport, OAuth, schema validation, formatting, telemetry,
  demonstrations, gyms and static documents.
* The migration runner, roles and row policies; the tables are modelled as empty as the
  schema creates them.
* The in-memory store, which differs from Postgres in places (its journal and
  jobs are not fenced the same way); the models follow Postgres.

## 7. Plan

In order of importance; 1 to 6 are done.

1. The lease, the heartbeat and its consumer; then the scheduler with
   connectors, wake state and journal, which runs under the same lease.
2. The creative pipeline over journal and job; the authority ledger over the
   mandate functions, with its abstract history.
3. The capability plane with budget and journal, and the bootstrap executor over
   it.
4. *KAST*: recording, promotion and verification over the merging store by
   concurrent sessions; KAST Law over a shared repository; both proved.
5. *Discovery and company OS*: revisions without a head, plans and the governed
   operations that apply them.
6. *Proofs* of every component that has a model: all of its safety and action properties.
7. *Mission graph*: its layers against a reference definition.
8. *Daemon*: the timer chains over `pollOnce`, stop and start.
9. *Wake scores*: thresholds and replay memory over bounded integers.
