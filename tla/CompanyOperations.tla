--------------------------- MODULE CompanyOperations ---------------------------
(***************************************************************************)
(* The operations of the MCP application that write for one Company under  *)
(* an idempotency key: workCreate, companyDiscoveryApply, companyApply,    *)
(* skillInstall, autoskillPropose and kastReflect, next to the resolution  *)
(* of a discovery question by a mandate and the learning of skill genes.   *)
(* companyPlan only reads: it shows the plan a caller may then apply.      *)
(* Every call of the store is one step; a call can throw, lose its reply   *)
(* or die with its process between any two.                                *)
(***************************************************************************)
EXTENDS CompanyDiscovery, OperatingModel, IdempotencyJournal

CONSTANTS
    Caller,           \* concurrent calls
    Id,               \* identifiers callers give their operations
    Server,           \* the owner name of a journal row: the same for every call of a key
    Nothing,
    SkillName,        \* names callers give local skills
    Slug,             \* the identifier a name is stored under
    WorkInput,        \* contents of work
    DiscoveryInput,   \* what callers state in a discovery, without its parent; expected is
                      \* TRUE with the fingerprint of a companyDiscoveryPlan of the same input
    IntakeInput,      \* what callers say of the Company
    Scopes,           \* what installations can be limited to
    InstallInput,     \* installations: a skill, its department and scopes
    SkillInput,       \* proposals of local skills
    ReflectionInput,  \* reflections: whether one touches a protected surface
    MaxCalls,         \* bound of the model: calls
    MaxFaults         \* bound of the model: errors, lost replies and crashes

ASSUME CompanyOperationsAssumption ==
    /\ JournalOwner = {Server}
    /\ Id \cap Mandate = {}   \* an origin says whether a call or a mandate saved a revision
    /\ Slug \in [SkillName -> LocalSkill]  \* none is stored under the name of a reusable skill
    /\ DiscoveryInput \subseteq [knowledge: Knowledge, expected: BOOLEAN]
    /\ IntakeInput \subseteq Intake
    /\ InstallInput \subseteq [skill: CatalogSkill, department: Department, scopes: Scopes]
    /\ SkillInput \subseteq [name: SkillName, provides: SUBSET Capability, department: Department]
    /\ ReflectionInput \subseteq [protected: BOOLEAN, skill: LocalSkill \cup {Nothing}]
    /\ MaxCalls \in Nat
    /\ MaxFaults \in Nat

Kind == {"work", "discovery", "formation", "install", "autoskill", "reflection"}
Key == Kind \X Id

\* Assets of the Company, by who saved them.  The installation is that of a local skill.
Asset == [kind: {"discovery", "formation", "definition", "installation"}, by: Id \cup Mandate]

VARIABLES
    journal,        \* row of each key
    intent,         \* the request a row was claimed with
    works,          \* content of each Work
    revisions,      \* discovery revisions in the order of their saves
    models,         \* operating models that were saved
    installations,  \* skill installations that were saved
    definitions,    \* Company-local skill definitions that were saved
    overwritten,    \* assets of those that an installation was saved over
    genes,          \* SkillGene of each local skill
    events,         \* keys whose event was appended
    jobs,           \* identifiers of reflections with a job
    call,           \* the locals of each call
    resolving,      \* the revision each mandate is about to resolve
    calls,          \* calls so far
    faults,         \* faults so far
    lost            \* history: keys that lost the reply of an asset's save

store == <<works, revisions, models, installations, definitions, overwritten, genes,
           events, jobs>>
control == <<resolving, calls, lost>>
vars == <<journal, intent, store, call, control, faults>>

-----------------------------------------------------------------------------
(* Data. *)

NoGene == [definition |-> Nothing, status |-> "none"]

Idle == [pc |-> "idle", key |-> Nothing, form |-> Nothing, seen |-> Nothing, built |-> Nothing,
         persisted |-> FALSE, answer |-> "none"]

\* A request: all that a caller states but the identifier.
Form(kind, body) == [kind |-> kind, body |-> body]

\* The skills a plan searches.
Provides(seen) ==
    [s \in CatalogSkill \cup {d.skill : d \in seen.definitions} |->
        IF s \in CatalogSkill THEN CatalogProvides[s]
        ELSE (CHOOSE d \in seen.definitions : d.skill = s).provides]

Installed(seen) == {i.skill : i \in seen.installations}

\* The registry refuses to search once it holds two versions that are the same.
Ambiguous(seen) ==
    \E d, e \in seen.definitions : d # e /\ d.skill = e.skill

\* What the identifier of an installation can be besides its own.
AssetsStored ==
    {[kind |-> "discovery", by |-> revisions[n].origin] : n \in DOMAIN revisions}
    \cup {[kind |-> "formation", by |-> m.by] : m \in models}
    \cup {[kind |-> "definition", by |-> d.by] : d \in definitions}
    \cup {[kind |-> "installation", by |-> i.by[2]] : i \in {j \in installations : j.by[1] = "autoskill"}}

\* An asset that was saved over keeps its kind and has no content of that kind left:
\* whoever lists assets of the kind to read them throws.
Unreadable(kind) == \E a \in overwritten : a.kind = kind

Intact(kind, by) == [kind |-> kind, by |-> by] \notin overwritten

Active == {i \in installations : i.by[1] = "autoskill" => Intact("installation", i.by[2])}

\* The assets a plan depends on, in one listing.
Assets == [installations |-> Active, definitions |-> definitions]

Planned(intake, seen, n) ==
    LET knowledge == KnowledgeOf(revisions, n)
    IN  PlanCompany(intake, knowledge.capabilities, Open(knowledge), Provides(seen), Installed(seen))

PlanRefused(intake, seen, n) ==
    \/ ProcessesRefused(intake)
    \/ Ambiguous(seen) /\ Searches(intake, KnowledgeOf(revisions, n).capabilities)

-----------------------------------------------------------------------------
(* The steps of a call. *)

InCall(c) == call[c].pc # "idle"
At(c, step) == call[c].pc = step
KindOf(c) == call[c].form.kind
BodyOf(c) == call[c].form.body
IdOf(c) == call[c].key[2]

\* The first step of each handler once its key is claimed.
First(kind) ==
    CASE kind = "work" -> "save-work"
      [] kind = "discovery" -> "build"
      [] kind = "reflection" -> "event"
      [] OTHER -> "look"

\* The step after the event.
AfterEvent(form) ==
    IF form.kind = "reflection" /\ ~form.body.protected THEN "enqueue" ELSE "mark"

Goto(c, step) == [call[c] EXCEPT !.pc = step]

\* A call of the store took effect: its reply arrives or is lost, and then the
\* handler catches an error.
Await(c, next) ==
    \/ call' = [call EXCEPT ![c] = next] /\ UNCHANGED <<faults, lost>>
    \/ /\ faults < MaxFaults
       /\ faults' = faults + 1
       /\ call' = [call EXCEPT ![c].pc = "catch"]
       /\ lost' = lost \cup {call[c].key}

\* What a caller hears.
Answer(c, answer) == [Idle EXCEPT !.key = call[c].key, !.form = call[c].form, !.answer = answer]

-----------------------------------------------------------------------------
(* Claims. *)

\* Mutant: an applied key answers whoever asks.
ReplayBeforeCompare(key, form) ==
    IF journal[key].state = "applied" THEN "applied"
    ELSE IF intent[key] # form THEN "conflict"
    ELSE IF journal[key].state = "intent" THEN "contended"
    ELSE "reconcile"

\* What a call hears whose key was claimed before.
Replay(key, form) ==
    IF intent[key] # form THEN "conflict"
    ELSE IF journal[key].state = "applied" THEN "applied"
    ELSE IF journal[key].state = "intent" THEN "contended"
    ELSE "reconcile"

\* A call claims its key, or is answered from the journal.
Claim(c, id, form) ==
    LET key == <<form.kind, id>>
    IN  /\ At(c, "idle")
        /\ calls < MaxCalls
        /\ calls' = calls + 1
        /\ journal' = [journal EXCEPT ![key] = ClaimedRow(@, Server)]
        /\ intent' = [intent EXCEPT ![key] = IF journal[key].state = "none" THEN form ELSE @]
        /\ call' = [call EXCEPT ![c] =
              IF journal[key].state = "none"
              THEN [Idle EXCEPT !.pc = First(form.kind), !.key = key, !.form = form]
              ELSE [Idle EXCEPT !.key = key, !.form = form, !.answer = Replay(key, form)]]
        /\ UNCHANGED <<store, resolving, faults, lost>>

WorkCreate(c, id) == \E body \in WorkInput : Claim(c, id, Form("work", body))

DiscoveryForm(parent, knowledge, expected) ==
    Form("discovery", [parent |-> parent, knowledge |-> knowledge, expected |-> expected])

CompanyDiscoveryApply(c, id) ==
    \E parent \in 0..Len(revisions), input \in DiscoveryInput :
        Claim(c, id, DiscoveryForm(parent, input.knowledge, input.expected))

\* The draft of companyDiscoveryOrchestrate is applied as any other discovery.
ApplyDraft(c, id) ==
    \E parent \in 0..Len(revisions), seen \in SUBSET Observable :
        Claim(c, id, DiscoveryForm(parent, Draft(KnowledgeOf(revisions, parent), seen), FALSE))

\* expected is the plan whose fingerprint the caller states, if any: the one
\* companyPlan, which only reads, has just shown.
CompanyApply(c, id) ==
    \E intake \in IntakeInput, n \in Latest(revisions) :
        LET shown == IF PlanRefused(intake, Assets, n) \/ Unreadable("definition") \/ Unreadable("discovery")
                     THEN {} ELSE {Planned(intake, Assets, n)}
        IN  \E expected \in shown \cup {Nothing} :
                Claim(c, id, Form("formation", [intake |-> intake, expected |-> expected]))

InstallForm(input, names) ==
    Form("install", [skill      |-> input.skill,
                     department |-> input.department,
                     scopes     |-> input.scopes,
                     names      |-> names])

\* The identifier is that of the asset to save, chosen by the caller: it can name an
\* asset that was there before, and is the same asset in every request.
MayName(id, asset) ==
    IF journal[<<"install", id>>].state = "none"
    THEN asset \in AssetsStored \cup {Nothing}
         /\ \A other \in Id : journal[<<"install", other>>].state # "none" /\ asset # Nothing
                                => intent[<<"install", other>>].body.names # asset
    ELSE asset = intent[<<"install", id>>].body.names

SkillInstall(c, id) ==
    \E input \in InstallInput, asset \in AssetsStored \cup {Nothing} :
        MayName(id, asset) /\ Claim(c, id, InstallForm(input, asset))

AutoskillPropose(c, id) == \E body \in SkillInput : Claim(c, id, Form("autoskill", body))

KastReflect(c, id) ==
    \E body \in ReflectionInput :
        body.skill = Nothing /\ Claim(c, id, Form("reflection", body))

\* globalSkillPromotionPropose reflects on a skill whose gene is champion.  It looks
\* for the definition by the name it is given, as it is stored.
GlobalSkillPromotionPropose(c, id) ==
    \E body \in ReflectionInput, d \in definitions :
        /\ ~Unreadable("definition")
        /\ body.skill = d.skill
        /\ genes[d.skill] = [definition |-> d.by, status |-> "champion"]
        /\ Claim(c, id, Form("reflection", body))

-----------------------------------------------------------------------------
(* Work. *)

SaveWork(c) ==
    /\ At(c, "save-work")
    /\ works' = [works EXCEPT ![IdOf(c)] = BodyOf(c)]
    /\ Await(c, Goto(c, "event"))
    /\ UNCHANGED <<journal, intent, revisions, models, installations, definitions, overwritten,
                   genes, events, jobs, resolving, calls>>

-----------------------------------------------------------------------------
(* Discovery. *)

\* The identifier of a fact's revision is part of what is fingerprinted, so a
\* fingerprint of a revision with facts is never met again.
FingerprintHolds(body) == body.expected => body.knowledge.facts = {}

\* The parent is looked for among the discovery assets, in the order of the times of
\* their creation: one that was saved over throws if it comes first or is the parent.
MayFind(n, found) ==
    IF found THEN n # 0 => Intact("discovery", revisions[n].origin)
    ELSE n # 0 /\ Unreadable("discovery")

\* The parent is read and the revision built; what it may not state is refused.
Build(c) ==
    LET body   == BodyOf(c)
        parent == KnowledgeOf(revisions, body.parent)
    IN  /\ At(c, "build")
        /\ \E found \in BOOLEAN :
              /\ MayFind(body.parent, found)
              /\ call' = [call EXCEPT ![c] =
                 IF /\ found
                    /\ WriteSafe(body.knowledge, parent)
                    /\ WellFormed(body.knowledge)
                    /\ FingerprintHolds(body)
                 THEN [@ EXCEPT !.pc = "save-revision",
                                !.built = BuildRevision(revisions, body.parent, body.knowledge, IdOf(c))]
                 ELSE [@ EXCEPT !.pc = "catch"]]
        /\ UNCHANGED <<journal, intent, store, control, faults>>

SaveRevision(c) ==
    /\ At(c, "save-revision")
    /\ revisions' = Append(revisions, call[c].built)
    /\ Await(c, [Goto(c, "event") EXCEPT !.persisted = TRUE])
    /\ UNCHANGED <<journal, intent, works, models, installations, definitions, overwritten,
                   genes, events, jobs, resolving, calls>>

\* The resolution of a question by a mandate reads the latest revision and saves
\* its child in another step.
ReadForMandate(m) ==
    /\ resolving[m] = 0
    /\ ~Unreadable("discovery")
    /\ \A n \in DOMAIN revisions : revisions[n].origin # m
    /\ \E n \in Latest(revisions) \ {0} :
          /\ \E questions \in SUBSET Question : MayAnswer(KnowledgeOf(revisions, n), questions)
          /\ resolving' = [resolving EXCEPT ![m] = n]
    /\ UNCHANGED <<journal, intent, store, call, calls, lost, faults>>

SaveForMandate(m) ==
    /\ resolving[m] # 0
    /\ \E questions \in SUBSET Question :
          /\ MayAnswer(KnowledgeOf(revisions, resolving[m]), questions)
          /\ revisions' = Append(revisions,
                BuildRevision(revisions, resolving[m],
                              Answered(KnowledgeOf(revisions, resolving[m]), m, questions), m))
    /\ resolving' = [resolving EXCEPT ![m] = 0]
    /\ UNCHANGED <<journal, intent, works, models, installations, definitions, overwritten,
                   genes, events, jobs, call, calls, lost, faults>>

-----------------------------------------------------------------------------
(* The operating model. *)

\* Assets are listed once; discovery is read from another listing.
LookForPlan(c) ==
    /\ At(c, "look")
    /\ KindOf(c) = "formation"
    /\ call' = [call EXCEPT ![c] =
          IF Unreadable("definition") THEN [@ EXCEPT !.pc = "catch"]
          ELSE [@ EXCEPT !.pc = "plan", !.seen = Assets]]
    /\ UNCHANGED <<journal, intent, store, control, faults>>

AsReviewed(body, plan) == body.expected \in {Nothing, plan}

BuildPlan(c) ==
    LET body == BodyOf(c)
        seen == call[c].seen
    IN  /\ At(c, "plan")
        /\ \E n \in Latest(revisions) :
              LET plan == Planned(body.intake, seen, n)
              IN  call' = [call EXCEPT ![c] =
                     IF \/ Unreadable("discovery")
                        \/ PlanRefused(body.intake, seen, n)
                        \/ ~AsReviewed(body, plan)
                     THEN [@ EXCEPT !.pc = "catch", !.seen = Nothing]
                     ELSE [@ EXCEPT !.pc = "save-model", !.seen = Nothing, !.built = plan]]
        /\ UNCHANGED <<journal, intent, store, control, faults>>

SaveModel(c) ==
    /\ At(c, "save-model")
    /\ models' = models \cup {[by |-> IdOf(c), intake |-> BodyOf(c).intake, plan |-> call[c].built]}
    /\ Await(c, [Goto(c, "event") EXCEPT !.persisted = TRUE])
    /\ UNCHANGED <<journal, intent, works, revisions, installations, definitions, overwritten,
                   genes, events, jobs, resolving, calls>>

-----------------------------------------------------------------------------
(* Skills. *)

\* An active installation of the skill in the department answers the call, whatever its
\* scopes are.
LookForInstall(c) ==
    /\ At(c, "look")
    /\ KindOf(c) = "install"
    /\ call' = [call EXCEPT ![c].pc =
          IF \E i \in Active : i.skill = BodyOf(c).skill /\ i.department = BodyOf(c).department
          THEN "mark" ELSE "save-installation"]
    /\ UNCHANGED <<journal, intent, store, control, faults>>

\* The name is compared with the identifiers of the stored skills.
NameTaken(name) == \E d \in definitions : d.skill = name

LookForSkill(c) ==
    /\ At(c, "look")
    /\ KindOf(c) = "autoskill"
    /\ call' = [call EXCEPT ![c].pc =
          IF \/ BodyOf(c).name \in CatalogSkill
             \/ Unreadable("definition")
             \/ NameTaken(BodyOf(c).name)
          THEN "catch" ELSE "save-definition"]
    /\ UNCHANGED <<journal, intent, store, control, faults>>

SaveDefinition(c) ==
    /\ At(c, "save-definition")
    /\ definitions' = definitions \cup
          {[skill |-> Slug[BodyOf(c).name], by |-> IdOf(c), provides |-> BodyOf(c).provides]}
    /\ Await(c, Goto(c, "save-installation"))
    /\ UNCHANGED <<journal, intent, works, revisions, models, installations, overwritten, genes,
                   events, jobs, resolving, calls>>

\* The installation of a call is of the skill it names or of the one it made, whose
\* scopes are left out with the rest of its proposal.
InstallationOf(c) ==
    [by         |-> call[c].key,
     skill      |-> IF KindOf(c) = "install" THEN BodyOf(c).skill ELSE Slug[BodyOf(c).name],
     department |-> BodyOf(c).department,
     scopes     |-> IF KindOf(c) = "install" THEN BodyOf(c).scopes ELSE Nothing]

\* The asset an installation is saved over, if any.  The row keeps its kind, so one
\* saved over another kind of asset is no installation.
SavedOver(form) ==
    IF form.kind = "install" THEN {form.body.names} \ {Nothing} ELSE {}

SavedAsInstallation(form) == \A asset \in SavedOver(form) : asset.kind = "installation"

SaveInstallation(c) ==
    /\ At(c, "save-installation")
    /\ installations' = installations \cup
          (IF SavedAsInstallation(call[c].form) THEN {InstallationOf(c)} ELSE {})
    /\ overwritten' = overwritten \cup SavedOver(call[c].form)
    /\ Await(c, Goto(c, IF KindOf(c) = "install" THEN "event" ELSE "save-gene"))
    /\ UNCHANGED <<journal, intent, works, revisions, models, definitions, genes, events, jobs,
                   resolving, calls>>

\* A gene that is already there keeps its artifact and starts over as a candidate.
SaveGene(c) ==
    LET skill == Slug[BodyOf(c).name]
    IN  /\ At(c, "save-gene")
        /\ genes' = [genes EXCEPT ![skill] =
              IF @ = NoGene THEN [definition |-> IdOf(c), status |-> "candidate"]
              ELSE [@ EXCEPT !.status = "candidate"]]
        /\ Await(c, Goto(c, "event"))
        /\ UNCHANGED <<journal, intent, works, revisions, models, installations, definitions,
                       overwritten, events, jobs, resolving, calls>>

\* Verified outcomes make a gene champion; an incident puts any gene in quarantine, and
\* later outcomes can make it champion again.  Candidate stands for every other status.
ApplyVerifiedOutcomeToGene(skill) ==
    /\ genes[skill] # NoGene
    /\ \E status \in {"champion", "candidate"} :
          /\ genes[skill].status # status
          /\ genes' = [genes EXCEPT ![skill].status = status]
    /\ UNCHANGED <<journal, intent, works, revisions, models, installations, definitions,
                   overwritten, events, jobs, call, control, faults>>

-----------------------------------------------------------------------------
(* What the handlers share. *)

\* Every handler appends one event under a key of its own.
AppendEvent(c) ==
    /\ At(c, "event")
    /\ events' = events \cup {call[c].key}
    /\ Await(c, Goto(c, AfterEvent(call[c].form)))
    /\ UNCHANGED <<journal, intent, works, revisions, models, installations, definitions,
                   overwritten, genes, jobs, resolving, calls>>

\* The job of a reflection has its identifier; one that is there stays.
EnqueueJob(c) ==
    /\ At(c, "enqueue")
    /\ jobs' = jobs \cup {IdOf(c)}
    /\ Await(c, Goto(c, "mark"))
    /\ UNCHANGED <<journal, intent, works, revisions, models, installations, definitions,
                   overwritten, genes, events, resolving, calls>>

Mark(c, state) ==
    journal' = [journal EXCEPT ![call[c].key] =
        MarkedRow(@, Server, 1, state)]

\* The mark of the row that was claimed, so it is never fenced off.
MarkApplied(c) ==
    /\ At(c, "mark")
    /\ Mark(c, "applied")
    /\ Await(c, Answer(c, "applied"))
    /\ UNCHANGED <<intent, store, resolving, calls>>

\* Mutant: what failed is failed, whatever was saved.
CaughtFailed(c) == "failed"

\* Discovery and formation know whether their asset was saved; the others do not ask.
Caught(c) == IF call[c].persisted THEN "unknown" ELSE "failed"

Catch(c) ==
    /\ At(c, "catch")
    /\ Mark(c, Caught(c))
    /\ call' = [call EXCEPT ![c] = Idle]
    /\ UNCHANGED <<intent, store, control, faults>>

\* A call of the store throws before it does anything.
Throw(c) ==
    /\ InCall(c) /\ ~At(c, "catch")
    /\ faults < MaxFaults
    /\ faults' = faults + 1
    /\ call' = [call EXCEPT ![c].pc = "catch"]
    /\ UNCHANGED <<journal, intent, store, control>>

\* The process dies, or the catch itself cannot reach the store.
Crash(c) ==
    /\ InCall(c)
    /\ faults < MaxFaults
    /\ faults' = faults + 1
    /\ call' = [call EXCEPT ![c] = Idle]
    /\ UNCHANGED <<journal, intent, store, control>>

-----------------------------------------------------------------------------
Init ==
    /\ journal = [k \in Key |-> NoRow]
    /\ intent = [k \in Key |-> Nothing]
    /\ works = [i \in Id |-> Nothing]
    /\ revisions = <<>>
    /\ models = {}
    /\ installations = {}
    /\ definitions = {}
    /\ overwritten = {}
    /\ genes = [s \in LocalSkill |-> NoGene]
    /\ events = {}
    /\ jobs = {}
    /\ call = [c \in Caller |-> Idle]
    /\ resolving = [m \in Mandate |-> 0]
    /\ calls = 0
    /\ faults = 0
    /\ lost = {}

Begin(c) ==
    \E id \in Id :
          \/ WorkCreate(c, id) \/ CompanyDiscoveryApply(c, id) \/ ApplyDraft(c, id)
          \/ CompanyApply(c, id) \/ SkillInstall(c, id) \/ AutoskillPropose(c, id)
          \/ KastReflect(c, id) \/ GlobalSkillPromotionPropose(c, id)

Step(c) ==
    \/ SaveWork(c) \/ Build(c) \/ SaveRevision(c)
    \/ LookForPlan(c) \/ BuildPlan(c) \/ SaveModel(c)
    \/ LookForInstall(c) \/ LookForSkill(c)
    \/ SaveDefinition(c) \/ SaveInstallation(c) \/ SaveGene(c)
    \/ AppendEvent(c) \/ EnqueueJob(c) \/ MarkApplied(c) \/ Catch(c)
    \/ Throw(c) \/ Crash(c)

Next ==
    \/ \E c \in Caller : Begin(c) \/ Step(c)
    \/ \E m \in Mandate : ReadForMandate(m) \/ SaveForMandate(m)
    \/ \E s \in LocalSkill : ApplyVerifiedOutcomeToGene(s)

Spec == Init /\ [][Next]_vars

-----------------------------------------------------------------------------
(* Properties. *)

TypeOK ==
    /\ journal \in [Key -> JournalRow]
    /\ works \in [Id -> WorkInput \cup {Nothing}]
    /\ revisions \in Seq(Revision(Id \cup Mandate))
    /\ definitions \subseteq [skill: LocalSkill, by: Id, provides: SUBSET Capability]
    /\ installations \subseteq
          [by: Key, skill: Skill, department: Department, scopes: Scopes \cup {Nothing}]
    /\ overwritten \subseteq Asset
    /\ genes \in [LocalSkill -> [definition: Id \cup {Nothing},
                               status: {"none", "candidate", "champion"}]]
    /\ events \subseteq Key
    /\ jobs \subseteq Id
    /\ lost \subseteq Key
    /\ resolving \in [Mandate -> 0..Len(revisions)]
    /\ calls \in 0..MaxCalls
    /\ faults \in 0..MaxFaults

\* What a request under an identifier asked to be stored is stored, as it was asked.
\* An installation that was answered by one that was there may have other scopes, and
\* proposals of one skill share the gene of the first.
Stored(form, id) ==
    CASE form.kind = "work" -> works[id] = form.body
      [] form.kind = "discovery" ->
            /\ Intact("discovery", id)
            /\ \E n \in DOMAIN revisions :
                /\ revisions[n].origin = id
                /\ revisions[n].parent = form.body.parent
                /\ revisions[n].knowledge = form.body.knowledge
      [] form.kind = "formation" ->
            /\ Intact("formation", id)
            /\ \E m \in models :
                /\ m.by = id
                /\ m.intake = form.body.intake
                /\ form.body.expected \in {Nothing, m.plan}
      [] form.kind = "install" ->
            \E i \in Active :
                /\ i.skill = form.body.skill /\ i.department = form.body.department
                /\ <<form.kind, id>> \in events =>
                      i.by = <<form.kind, id>> /\ i.scopes = form.body.scopes
      [] form.kind = "autoskill" ->
            /\ Intact("definition", id)
            /\ \E d \in definitions :
                  d.by = id /\ d.skill = Slug[form.body.name] /\ d.provides = form.body.provides
            /\ \E i \in Active : i.by = <<form.kind, id>>
            /\ \E d \in definitions :
                  d.skill = Slug[form.body.name] /\ genes[d.skill].definition = d.by
      [] form.kind = "reflection" -> form.body.protected \/ id \in jobs

\* What was stored is gone, or is no installation, because of the identifier of an
\* installation: another request's over an asset of this one or over the installation
\* that answered it, or its own over an asset of another kind.
SavedOverIt(form, id) ==
    \/ form.kind \in {"discovery", "formation"} /\ ~Intact(form.kind, id)
    \/ form.kind = "autoskill" /\ ~(Intact("definition", id) /\ Intact("installation", id))
    \/ form.kind = "install" /\ ~SavedAsInstallation(form)
    \/ /\ form.kind = "install"
       /\ \E i \in installations \ Active :
             i.skill = form.body.skill /\ i.department = form.body.department

\* The asset of a discovery or a formation.
Saved(key) ==
    CASE key[1] = "discovery" -> {n \in DOMAIN revisions : revisions[n].origin = key[2]}
      [] key[1] = "formation" -> {m \in models : m.by = key[2]}
      [] OTHER -> {}

\* The journal tells the truth about the store: an applied key has all the effects of
\* its handler and its event, unless an installation was saved over them; a discovery
\* or a formation has saved its asset if its key is unknown and has not if it failed,
\* unless a reply was lost (the other handlers mark failed whatever they saved); and
\* however calls overlap, repeat and die, such a key saves its asset at most once.
JournalTellsEffects ==
    \A key \in Key :
        /\ journal[key].state = "applied" =>
              /\ Stored(intent[key], key[2]) \/ SavedOverIt(intent[key], key[2])
              /\ key \in events \/ key[1] = "install"
        /\ key[1] \in {"discovery", "formation"} =>
              /\ journal[key].state = "unknown" => Saved(key) # {}
              /\ journal[key].state = "failed" => Saved(key) = {} \/ key \in lost
        /\ Cardinality(Saved(key)) <= 1

\* Whoever hears that an operation was applied, from its own call or from the journal
\* of an earlier one, has what it asked for in the store: its own content, not that
\* of another request under the identifier, and the plan it was shown if it stated
\* one, whatever was installed or discovered since.  The exceptions are what an
\* installation was saved over, and the scopes of one that was already installed.
AnsweredAsAsked ==
    \A c \in Caller :
        call[c].answer = "applied" =>
            Stored(call[c].form, call[c].key[2]) \/ SavedOverIt(call[c].form, call[c].key[2])

\* A revision descends from another, or is it: every set of revisions that has the
\* later one and the parents of its members has the earlier one.
DescendsFrom(n, a) ==
    \A S \in SUBSET DOMAIN revisions :
        n \in S /\ (\A i \in S : revisions[i].parent \in S \cup {0}) => a \in S

\* An owner-confirmed fact anywhere in the tree of revisions was put there by a mandate
\* in the line of that revision, and says what the mandate said: no caller brings one
\* of its own, changes one or moves one to another branch.
OwnerFactsFromMandates ==
    \A n \in DOMAIN revisions : \A f \in revisions[n].knowledge.facts :
        /\ f.intact
        /\ \E a \in DOMAIN revisions : DescendsFrom(n, a) /\ revisions[a].origin = f.mandate

\* A draft of discovery orchestration can be applied to the revision it was made
\* from, whatever connectors report, and keeps every answer that revision has and
\* every question that was dismissed.
DraftsAreAccepted ==
    \A n \in 0..Len(revisions), seen \in SUBSET Observable :
        LET knowledge == KnowledgeOf(revisions, n)
            draft     == Draft(knowledge, seen)
        IN  /\ WriteSafe(draft, knowledge)
            /\ WellFormed(draft)
            /\ \A q \in Question :
                  knowledge.unknowns[q].status \in Closed =>
                      /\ draft.unknowns[q].status = knowledge.unknowns[q].status
                      /\ draft.unknowns[q].ref = knowledge.unknowns[q].ref

\* Capabilities of every skill, all definitions of one name taken together.
Provided ==
    [s \in Skill |->
        IF s \in CatalogSkill THEN CatalogProvides[s]
        ELSE UNION {d.provides : d \in {e \in definitions : e.skill = s}}]

\* An operating model that was applied covers what its intake asks for, although assets
\* and discovery are read at two moments: functions have departments, processes
\* a department of the model, nothing observed is dropped, and a required
\* capability has a skill or is reported as a gap.
ModelsCover ==
    \A m \in models :
        Covers(m.plan, m.intake, Provided, {i.skill : i \in installations})

\* "company skill id already exists": a Company has one definition of each local skill.
OneDefinitionPerSkill ==
    \A d, e \in definitions : d.skill = e.skill => d = e
==============================================================================
