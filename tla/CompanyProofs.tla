----------------------------- MODULE CompanyProofs -----------------------------
(***************************************************************************)
(* CompanyOperations for every number of calls, identifiers, skills and    *)
(* faults: the journal tells what is stored, whoever hears "applied" has   *)
(* what it asked for, owner-confirmed facts come from mandates, drafts can *)
(* be applied and applied models cover their intake.                       *)
(***************************************************************************)
EXTENDS CompanyOperations, FiniteSetTheorems, WellFoundedInduction, TLAPS

-----------------------------------------------------------------------------
(* The plan of an operating model. *)

SkillTable == UNION {[S -> SUBSET Capability] : S \in SUBSET Skill}

\* The best of some skills is one of them: preferences are well-founded.
LEMMA BestIn ==
    ASSUME NEW S \in SUBSET Skill, S # {}
    PROVE  Best(S) \in S
  <1> DEFINE R == OpToRel(<, Nat)
             N == {Preference[s] : s \in S}
  <1>1. IsWellFoundedOn(R, Nat)
    BY NatLessThanWellFounded
  <1>2. N \subseteq Nat /\ N # {}
    BY OperatingModelAssumption DEF OperatingModelAssumption
  <1>3. ASSUME NEW x \in N, NEW y \in N, <<y, x>> \notin R
        PROVE  x <= y
    <2>1. x \in Nat /\ y \in Nat
      BY <1>2
    <2>2. ~(y < x)
      BY <1>3, <2>1 DEF OpToRel
    <2> QED
      BY <2>1, <2>2
  <1> HIDE DEF R, N
  <1>4. PICK x \in N : \A y \in N : <<y, x>> \notin R
    BY <1>1, <1>2, WFMin
  <1>5. \A y \in N : x <= y
    BY <1>3, <1>4
  <1>6. \E s \in S : \A t \in S : Preference[s] <= Preference[t]
    BY <1>5 DEF N
  <1> QED
    BY <1>6 DEF Best

\* Every function that is asked for gets a department, and nothing observed is lost.
LEMMA DepartmentsCover ==
    ASSUME NEW intake \in Intake
    PROVE  /\ CoreFunction \cup intake.required \subseteq FunctionsOf(Departments(intake))
           /\ \A d \in DOMAIN ObservedDepartments(intake) :
                /\ d \in DOMAIN Departments(intake)
                /\ ObservedDepartments(intake)[d] \subseteq Departments(intake)[d].functions
  <1> DEFINE named == NamedDepartments(intake)
             missing == Uncovered(intake)
             added(d) == {f \in missing : CoreDepartment[f] = d}
             all == Departments(intake)
  <1>1. DOMAIN all = DOMAIN named \cup {CoreDepartment[f] : f \in missing}
    BY DEF Departments
  <1>2. ASSUME NEW d \in DOMAIN all
        PROVE  all[d].functions = (IF d \in DOMAIN named THEN named[d].functions ELSE {}) \cup added(d)
    <2> HIDE DEF added
    <2> QED
      BY <1>1 DEF Departments, added
  <1>3. ASSUME NEW f \in CoreFunction \cup intake.required
        PROVE  f \in FunctionsOf(all)
    <2>1. CASE f \in missing
      <3>1. CoreDepartment[f] \in DOMAIN all /\ f \in added(CoreDepartment[f])
        BY <1>1, <2>1
      <3>2. f \in all[CoreDepartment[f]].functions
        BY <1>2, <3>1
      <3> QED
        BY <3>1, <3>2 DEF FunctionsOf
    <2>2. CASE f \notin missing
      <3>1. f \in FunctionsOf(named)
        BY <2>2 DEF Uncovered
      <3>2. PICK d \in DOMAIN named : f \in named[d].functions
        BY <3>1 DEF FunctionsOf
      <3>3. d \in DOMAIN all /\ f \in all[d].functions
        BY <1>1, <1>2, <3>2
      <3> QED
        BY <3>3 DEF FunctionsOf
    <2> QED
      BY <2>1, <2>2
  <1>4. ASSUME NEW d \in DOMAIN ObservedDepartments(intake)
        PROVE  d \in DOMAIN all /\ ObservedDepartments(intake)[d] \subseteq all[d].functions
    <2>1. d \in DOMAIN named
          /\ named[d].functions = Rows(ObservedDepartments(intake), d) \cup Rows(intake.proposed, d)
      BY DEF NamedDepartments
    <2>2. Rows(ObservedDepartments(intake), d) = ObservedDepartments(intake)[d]
      BY DEF Rows
    <2> QED
      BY <1>1, <1>2, <2>1, <2>2
  <1> QED
    BY <1>3, <1>4

\* Processes that are not refused have a department of the plan and keep what they need.
LEMMA ProcessesCover ==
    ASSUME NEW intake \in Intake, ~ProcessesRefused(intake)
    PROVE  /\ \A p \in DOMAIN Processes(intake) :
                Processes(intake)[p].department \in DOMAIN Departments(intake)
           /\ \A p \in DOMAIN ObservedProcesses(intake) :
                /\ p \in DOMAIN Processes(intake)
                /\ ObservedProcesses(intake)[p].capabilities
                     \subseteq Processes(intake)[p].capabilities
  BY DEF Processes, ProcessesRefused

\* Every capability required is provided by a skill, is of a process that gets a skill
\* of its own, or is named as a gap.
LEMMA SkillsCover ==
    ASSUME NEW intake \in Intake, NEW departments, NEW processes, NEW required,
           NEW provides \in SkillTable, NEW installed,
           \A p \in DOMAIN ObservedProcesses(intake) :
               ObservedProcesses(intake)[p].capabilities \subseteq processes[p].capabilities
    PROVE  LET skills == SkillPlan(intake, departments, processes, required, provides, installed)
               had == installed \cup {i.skill : i \in skills.install} \cup {r.skill : r \in skills.reuse}
           IN  required \subseteq (UNION {provides[s] : s \in had \cap DOMAIN provides})
                                  \cup (UNION {processes[p].capabilities : p \in skills.create})
                                  \cup skills.gaps
  <1> DEFINE skills == SkillPlan(intake, departments, processes, required, provides, installed)
             had == installed \cup {i.skill : i \in skills.install} \cup {r.skill : r \in skills.reuse}
             observed == ObservedProcesses(intake)
             matches(p) == MatchesOf(p, observed[p].capabilities, provides)
             mapped == {p \in DOMAIN observed : matches(p) # {}}
             candidates == DOMAIN observed \ mapped
             part(p) == CoveredBy(Best(matches(p)), observed[p].capabilities, provides)
             covered == (UNION {part(p) : p \in mapped})
                          \cup (UNION {observed[p].capabilities : p \in candidates})
             providers(c) == {s \in Found(provides, CapabilityLimit) : c \in provides[s]}
             open == required \ covered
             bought == {c \in open : providers(c) # {}}
             choice(c) == [skill |-> Best(providers(c)),
                           department |-> DepartmentFor(c, departments, processes)]
  <1>1. /\ skills.reuse = {[process |-> p, skill |-> Best(matches(p))] : p \in mapped}
        /\ skills.install = {i \in {[skill |-> Best(matches(p)), department |-> observed[p].department] :
                                      p \in mapped} \cup {choice(c) : c \in bought} :
                               i.skill \notin installed}
        /\ skills.gaps = open \ bought
        /\ skills.create = candidates
    BY DEF SkillPlan
  <1>2. DOMAIN provides \subseteq Skill
    BY DEF SkillTable
  <1> HIDE DEF skills
  <1>3. ASSUME NEW p \in mapped
        PROVE  Best(matches(p)) \in had \cap DOMAIN provides
    <2>1. matches(p) \subseteq DOMAIN provides /\ matches(p) # {}
      BY DEF MatchesOf, Found
    <2>2. Best(matches(p)) \in matches(p)
      <3> HIDE DEF matches
      <3> QED
        BY <1>2, <2>1, BestIn
    <2>3. [process |-> p, skill |-> Best(matches(p))] \in skills.reuse
      <3> HIDE DEF mapped, matches
      <3> QED
        BY <1>1
    <2>4. Best(matches(p)) \in {r.skill : r \in skills.reuse}
      <3> HIDE DEF matches
      <3> QED
        BY <2>3
    <2> QED
      BY <2>1, <2>2, <2>4
  <1>4. ASSUME NEW c \in bought
        PROVE  Best(providers(c)) \in had \cap DOMAIN provides /\ c \in provides[Best(providers(c))]
    <2>1. providers(c) \subseteq DOMAIN provides /\ providers(c) # {}
      BY DEF Found
    <2>2. Best(providers(c)) \in providers(c)
      <3> HIDE DEF providers
      <3> QED
        BY <1>2, <2>1, BestIn
    <2>3. Best(providers(c)) \in had
      <3>1. CASE Best(providers(c)) \in installed
        BY <3>1
      <3>2. CASE Best(providers(c)) \notin installed
        <4>1. choice(c) \in {choice(x) : x \in bought} /\ choice(c).skill = Best(providers(c))
          OBVIOUS
        <4> HIDE DEF choice, bought, providers, mapped, matches, observed
        <4>2. choice(c) \in skills.install
          BY <1>1, <3>2, <4>1
        <4> QED
          BY <4>1, <4>2
      <3> QED
        BY <3>1, <3>2
    <2> QED
      BY <2>1, <2>2, <2>3
  <1> DEFINE provided == UNION {provides[s] : s \in had \cap DOMAIN provides}
             created == UNION {processes[p].capabilities : p \in skills.create}
             ofCandidates == UNION {observed[p].capabilities : p \in candidates}
             ofMapped == UNION {part(p) : p \in mapped}
  <1>5. ofMapped \subseteq provided
    <2>1. \A p \in mapped : part(p) \subseteq provides[Best(matches(p))]
      BY DEF CoveredBy
    <2> HIDE DEF part, mapped, matches, had
    <2> QED
      BY <1>3, <2>1
  <1>6. ofCandidates \subseteq created
    <2>1. \A p \in candidates : p \in skills.create
                                /\ observed[p].capabilities \subseteq processes[p].capabilities
      BY <1>1
    <2> HIDE DEF candidates, observed
    <2> QED
      BY <2>1
  <1>7. bought \subseteq provided
    <2> HIDE DEF bought, providers, had
    <2> QED
      BY <1>4
  <1>8. required \subseteq provided \cup created \cup skills.gaps
    <2>1. covered = ofMapped \cup ofCandidates
      OBVIOUS
    <2>2. open = required \ covered
      OBVIOUS
    <2> HIDE DEF covered, ofMapped, ofCandidates, open, bought, provided, created
    <2> QED
      BY <1>1, <1>5, <1>6, <1>7, <2>1, <2>2
  <1> QED
    BY <1>8 DEF skills

\* A plan that is not refused covers its intake.
LEMMA PlanCovers ==
    ASSUME NEW intake \in Intake, ~ProcessesRefused(intake), NEW discovered, NEW open,
           NEW provides \in SkillTable, NEW installed
    PROVE  Covers(PlanCompany(intake, discovered, open, provides, installed), intake, provides, installed)
  <1> DEFINE plan == PlanCompany(intake, discovered, open, provides, installed)
  <1>1. /\ plan.departments = Departments(intake) /\ plan.processes = Processes(intake)
        /\ plan.required = RequiredCapabilities(intake, discovered)
        /\ plan.skills = SkillPlan(intake, Departments(intake), Processes(intake),
                            RequiredCapabilities(intake, discovered), provides, installed)
    BY DEF PlanCompany
  <1> HIDE DEF plan
  <1>2. /\ CoreFunction \cup intake.required \subseteq FunctionsOf(plan.departments)
        /\ \A d \in DOMAIN ObservedDepartments(intake) :
              d \in DOMAIN plan.departments
              /\ ObservedDepartments(intake)[d] \subseteq plan.departments[d].functions
    BY <1>1, DepartmentsCover
  <1>3. /\ \A p \in DOMAIN plan.processes :
              plan.processes[p].department \in DOMAIN plan.departments
        /\ \A p \in DOMAIN ObservedProcesses(intake) :
              p \in DOMAIN plan.processes
              /\ ObservedProcesses(intake)[p].capabilities \subseteq plan.processes[p].capabilities
    BY <1>1, ProcessesCover
  <1> DEFINE had == installed \cup {i.skill : i \in plan.skills.install}
                              \cup {x.skill : x \in plan.skills.reuse}
  <1>4. plan.required \subseteq (UNION {provides[s] : s \in had \cap DOMAIN provides})
          \cup (UNION {plan.processes[p].capabilities : p \in plan.skills.create})
          \cup plan.skills.gaps
    BY <1>1, <1>3, SkillsCover
  <1>5. Covers(plan, intake, provides, installed)
    BY <1>2, <1>3, <1>4 DEF Covers
  <1> QED
    BY <1>5 DEF plan

\* What is covered stays covered when skills are added.
LEMMA CoversGrows ==
    ASSUME NEW plan, NEW intake, NEW provides, NEW more, NEW installed, NEW grown,
           Covers(plan, intake, provides, installed), installed \subseteq grown,
           \A s \in DOMAIN provides : s \in DOMAIN more /\ provides[s] \subseteq more[s]
    PROVE  Covers(plan, intake, more, grown)
  <1> DEFINE had(inst) == inst \cup {i.skill : i \in plan.skills.install}
                               \cup {r.skill : r \in plan.skills.reuse}
  <1>1. UNION {provides[s] : s \in had(installed) \cap DOMAIN provides}
          \subseteq UNION {more[s] : s \in had(grown) \cap DOMAIN more}
    OBVIOUS
  <1> QED
    BY <1>1 DEF Covers

-----------------------------------------------------------------------------
(* Discovery. *)

\* A draft may be applied to what it was made from, and keeps its answers.
LEMMA DraftAccepted ==
    ASSUME NEW knowledge \in Knowledge, WellFormed(knowledge), NEW seen \in SUBSET Observable
    PROVE  /\ WriteSafe(Draft(knowledge, seen), knowledge)
           /\ WellFormed(Draft(knowledge, seen))
           /\ \A q \in Question :
                knowledge.unknowns[q].status \in Closed =>
                    /\ Draft(knowledge, seen).unknowns[q].status = knowledge.unknowns[q].status
                    /\ Draft(knowledge, seen).unknowns[q].ref = knowledge.unknowns[q].ref
           /\ Draft(knowledge, seen) \in Knowledge
  <1> DEFINE draft == Draft(knowledge, seen)
             all == knowledge.capabilities \cup seen
  <1>1. /\ draft.facts = knowledge.facts /\ draft.capabilities = all
        /\ draft.unknowns = [q \in Question |-> DraftUnknown(knowledge.unknowns[q], q, all)]
        /\ draft = [facts |-> draft.facts, unknowns |-> draft.unknowns, capabilities |-> draft.capabilities]
    BY DEF Draft
  <1> HIDE DEF draft
  <1>2. ASSUME NEW q \in Question
        PROVE  /\ draft.unknowns[q] \in Unknown
               /\ (\/ knowledge.unknowns[q].status \in Closed
                   \/ draft.unknowns[q].answerer = "owner" /\ draft.unknowns[q].status \in Closed) =>
                       /\ draft.unknowns[q].status = knowledge.unknowns[q].status
                       /\ draft.unknowns[q].ref = knowledge.unknowns[q].ref
    <2> DEFINE required == IF q \in Reserved THEN "owner" ELSE "client"
               prior == knowledge.unknowns[q]
    <2>1. prior \in Unknown /\ required \in Answerer
      BY DEF Knowledge, Answerer
    <2>2. draft.unknowns[q] = DraftUnknown(prior, q, all)
      BY <1>1
    <2>3. CASE prior.status \in Closed
      <3>1. draft.unknowns[q] = [prior EXCEPT !.answerer = IF @ = "either" THEN "client" ELSE @]
        BY <2>2, <2>3 DEF DraftUnknown
      <3> HIDE DEF prior
      <3> QED
        BY <2>1, <3>1 DEF Unknown, Answerer, prior
    <2>4. CASE prior.status \notin Closed /\ AnsweredByEvidence(q, all)
      <3>1. draft.unknowns[q] = [status |-> "resolved", answerer |-> required, ref |-> "client"]
        BY <2>2, <2>4 DEF DraftUnknown
      <3>2. required = "client"
        BY <2>4 DEF AnsweredByEvidence
      <3> QED
        BY <2>1, <2>4, <3>1, <3>2 DEF Unknown, Closed
    <2>5. CASE prior.status \notin Closed /\ ~AnsweredByEvidence(q, all)
      <3>1. draft.unknowns[q] = [status |-> "open", answerer |-> required, ref |-> "none"]
        BY <2>2, <2>5 DEF DraftUnknown
      <3> QED
        BY <2>1, <2>5, <3>1 DEF Unknown, Closed
    <2> QED
      BY <2>3, <2>4, <2>5
  <1>3. draft.unknowns \in [Question -> Unknown]
    BY <1>1, <1>2
  <1>4. draft \in Knowledge
    BY <1>1, <1>3 DEF Knowledge
  <1>5. WriteSafe(draft, knowledge)
    BY <1>1, <1>2 DEF WriteSafe, Inherited, AnswersKept
  <1>6. WellFormed(draft)
    BY <1>1 DEF WellFormed
  <1> QED
    BY <1>2, <1>4, <1>5, <1>6 DEF draft

\* The answer of a mandate adds one fact, an intact one of that mandate.
LEMMA AnswerAdds ==
    ASSUME NEW knowledge \in Knowledge, WellFormed(knowledge), \A f \in knowledge.facts : f.intact,
           NEW m \in Mandate, NEW questions \in SUBSET Question
    PROVE  /\ Answered(knowledge, m, questions) \in Knowledge
           /\ WellFormed(Answered(knowledge, m, questions))
           /\ \A f \in Answered(knowledge, m, questions).facts :
                f.intact /\ (f \in knowledge.facts \/ f.mandate = m)
  <1> DEFINE answers == {AnswerOf(m, q) : q \in questions}
             after == Answered(knowledge, m, questions)
  <1>1. \A f \in answers : f \in Fact /\ f.intact /\ f.mandate = m
    <2> SUFFICES ASSUME NEW q \in questions
                 PROVE  AnswerOf(m, q) \in Fact /\ AnswerOf(m, q).intact /\ AnswerOf(m, q).mandate = m
      OBVIOUS
    <2>1. q \in Question
      OBVIOUS
    <2> QED
      BY <2>1 DEF AnswerOf, Fact
  <1>2. after.facts = knowledge.facts \cup answers
    BY DEF Answered
  <1>3. after \in Knowledge
    <2>1. /\ knowledge.unknowns \in [Question -> Unknown] /\ knowledge.capabilities \subseteq Observable
          /\ knowledge.facts \subseteq Fact
      BY DEF Knowledge
    <2>2. \A q \in Question : [knowledge.unknowns[q] EXCEPT !.status = "resolved", !.ref = m] \in Unknown
      BY <2>1 DEF Unknown
    <2> DEFINE unknowns == [q \in Question |->
                              IF q \in questions
                              THEN [knowledge.unknowns[q] EXCEPT !.status = "resolved", !.ref = m]
                              ELSE knowledge.unknowns[q]]
    <2>3. unknowns \in [Question -> Unknown]
      BY <2>1, <2>2
    <2>4. after = [facts |-> knowledge.facts \cup answers, unknowns |-> unknowns,
                   capabilities |-> knowledge.capabilities]
      BY DEF Answered
    <2> HIDE DEF unknowns, answers
    <2> QED
      BY <1>1, <2>1, <2>3, <2>4 DEF Knowledge
  <1> HIDE DEF answers, after
  <1>4. WellFormed(after)
    <2>1. \A f \in knowledge.facts : f \in Fact
      BY DEF Knowledge
    <2>2. \A f, g \in Fact : f.intact /\ g.intact /\ f.question = g.question /\ f.mandate = g.mandate
                                => f = g
      BY DEF Fact
    <2> QED
      BY <1>1, <1>2, <2>1, <2>2 DEF WellFormed
  <1> QED
    BY <1>1, <1>2, <1>3, <1>4 DEF after

-----------------------------------------------------------------------------
(* The inductive invariant. *)

Stage == {"idle", "save-work", "build", "save-revision", "look", "plan", "save-model",
          "save-definition", "save-installation", "save-gene", "event", "enqueue", "mark", "catch"}

\* Stages of a discovery or a formation at which nothing is saved yet.
Unsaved == {"build", "save-revision", "look", "plan", "save-model"}

Keeping == {"discovery", "formation"}

\* What was saved for a request, whatever installations were saved over since.
WasStored(form, id) ==
    CASE form.kind = "work" -> works[id] = form.body
      [] form.kind = "discovery" ->
            \E n \in DOMAIN revisions :
                /\ revisions[n].origin = id
                /\ revisions[n].parent = form.body.parent
                /\ revisions[n].knowledge = form.body.knowledge
      [] form.kind = "formation" ->
            \E m \in models :
                /\ m.by = id
                /\ m.intake = form.body.intake
                /\ form.body.expected \in {Nothing, m.plan}
      [] form.kind = "install" ->
            SavedAsInstallation(form) =>
                \E i \in installations :
                    i.skill = form.body.skill /\ i.department = form.body.department
      [] form.kind = "autoskill" ->
            /\ \E d \in definitions :
                  d.by = id /\ d.skill = Slug[form.body.name] /\ d.provides = form.body.provides
            /\ \E i \in installations : i.by = <<form.kind, id>>
            /\ genes[Slug[form.body.name]] # NoGene
      [] form.kind = "reflection" -> form.body.protected \/ id \in jobs

\* Keys that are claimed and have had all their effects.
Settled == {key \in Key : journal[key].state # "none" /\ WasStored(intent[key], key[2])}

\* An installation that was saved for a key, as it was asked.
OwnInstallation(key) ==
    key[1] = "install" /\ SavedAsInstallation(intent[key]) =>
        \E i \in installations :
            /\ i.by = key /\ i.scopes = intent[key].body.scopes
            /\ i.skill = intent[key].body.skill /\ i.department = intent[key].body.department

\* The event of an installation follows its save.
EventInv == \A key \in events : key \in Key /\ journal[key].state # "none" /\ OwnInstallation(key)

\* A gene is that of a definition of its skill.
GeneDefined(s) ==
    \E d \in definitions : d.skill = s /\ d.by = genes[s].definition

GeneInv == \A s \in LocalSkill : genes[s] # NoGene => GeneDefined(s)

ModelInv == \A m \in models : m.by \in Id

SavedOf == [key \in Key |-> Saved(key)]

InstalledSkills == {i.skill : i \in installations}

\* What a form may say.
BodyOK(form) ==
    /\ form.kind = "work" => form.body \in WorkInput
    /\ form.kind = "discovery" => form.body.parent \in Nat /\ form.body.knowledge \in Knowledge
    /\ form.kind = "formation" => form.body.intake \in IntakeInput
    /\ form.kind = "install" =>
          form.body \in [skill: CatalogSkill, department: Department, scopes: Scopes,
                         names: Asset \cup {Nothing}]
    /\ form.kind = "autoskill" => form.body \in SkillInput
    /\ form.kind = "reflection" => form.body \in ReflectionInput

\* A row belongs to its one claim, under the form it was claimed with.
RowInv ==
    \A key \in Key : journal[key].state # "none" =>
        /\ journal[key].owner = Server /\ journal[key].token = 1
        /\ intent[key].kind = key[1] /\ BodyOK(intent[key])
        /\ key[1] = "discovery" => intent[key].body.parent \in 0..Len(revisions)

\* The asset of a key is saved once, after the claim, and the journal is right about it.
SavedAt(key) ==
    key[1] \in Keeping =>
        /\ \A x, y \in SavedOf[key] : x = y
        /\ journal[key].state = "none" => SavedOf[key] = {}
        /\ journal[key].state = "unknown" => SavedOf[key] # {}
        /\ journal[key].state = "failed" => SavedOf[key] = {} \/ key \in lost

SavedInv == \A key \in Key : SavedAt(key)

AppliedAt(key) ==
    journal[key].state = "applied" =>
        key \in Settled /\ (key \in events \/ key[1] = "install")

AppliedInv == \A key \in Key : AppliedAt(key)

\* A fact of a revision is intact, and of the mandate that saved the revision or of
\* its parent, which is an earlier one.
RevisionInv ==
    \A n \in DOMAIN revisions :
        /\ revisions[n].parent \in 0 .. n - 1
        /\ WellFormed(revisions[n].knowledge)
        /\ \A f \in revisions[n].knowledge.facts :
             /\ f.intact
             /\ \/ revisions[n].origin = f.mandate
                \/ f \in KnowledgeOf(revisions, revisions[n].parent).facts

Shape(c) ==
    call[c] = [pc |-> call[c].pc, key |-> call[c].key, form |-> call[c].form, seen |-> call[c].seen,
               built |-> call[c].built, persisted |-> call[c].persisted, answer |-> call[c].answer]

\* What a revision that was built says, when it comes to be saved.
BuiltOK(c) ==
    LET built == call[c].built
    IN  /\ built \in Revision(Id) /\ built.origin = IdOf(c)
        /\ built.parent = BodyOf(c).parent /\ built.knowledge = BodyOf(c).knowledge
        /\ WellFormed(built.knowledge)
        /\ built.knowledge.facts \subseteq KnowledgeOf(revisions, built.parent).facts

\* The plan that was built is the one reviewed, and covers the intake as things are.
PlanOK(c) ==
    /\ AsReviewed(BodyOf(c), call[c].built)
    /\ Covers(call[c].built, BodyOf(c).intake, Provided, InstalledSkills)

Defined(c) ==
    \E d \in definitions :
        d.by = IdOf(c) /\ d.skill = Slug[BodyOf(c).name] /\ d.provides = BodyOf(c).provides

\* What a call has done when it comes to each stage.
StageInv(c) ==
    /\ At(c, "save-work") => KindOf(c) = "work"
    /\ At(c, "build") => KindOf(c) = "discovery"
    /\ At(c, "save-revision") => KindOf(c) = "discovery" /\ BuiltOK(c)
    /\ At(c, "look") => KindOf(c) \in {"formation", "install", "autoskill"}
    /\ At(c, "plan") =>
         /\ KindOf(c) = "formation"
         /\ call[c].seen.definitions \subseteq definitions
         /\ call[c].seen.installations \subseteq installations
    /\ At(c, "save-model") => KindOf(c) = "formation" /\ PlanOK(c)
    /\ At(c, "save-definition") => KindOf(c) = "autoskill"
    /\ At(c, "save-installation") =>
         \/ KindOf(c) = "install"
         \/ KindOf(c) = "autoskill" /\ Defined(c)
    /\ At(c, "save-gene") =>
         /\ KindOf(c) = "autoskill" /\ Defined(c)
         /\ \E i \in installations : i.by = call[c].key
    /\ At(c, "event") =>
         /\ KindOf(c) = "reflection" \/ call[c].key \in Settled
         /\ OwnInstallation(call[c].key)
    /\ At(c, "enqueue") => KindOf(c) = "reflection" /\ call[c].key \in events
    /\ At(c, "mark") =>
         call[c].key \in Settled /\ (call[c].key \in events \/ KindOf(c) = "install")

\* What a call of a discovery or a formation knows of its asset.
PersistedInv(c) ==
    KindOf(c) \in Keeping =>
        /\ call[c].persisted => SavedOf[call[c].key] # {}
        /\ ~call[c].persisted => SavedOf[call[c].key] = {} \/ call[c].key \in lost
        /\ call[c].pc \in Unsaved => SavedOf[call[c].key] = {} /\ ~call[c].persisted

\* A call in progress has a row of its own.
OwnInv(c) ==
    /\ call[c].key \in Key /\ call[c].form = intent[call[c].key] /\ call[c].answer # "applied"
    /\ \/ journal[call[c].key].state = "intent"
       \/ journal[call[c].key].state = "applied" /\ At(c, "catch")

AnswerInv(c) ==
    call[c].answer = "applied" =>
        call[c].key \in Settled /\ call[c].form = intent[call[c].key]

CallInv(c) ==
    /\ Shape(c) /\ call[c].pc \in Stage /\ AnswerInv(c)
    /\ InCall(c) => OwnInv(c) /\ StageInv(c) /\ PersistedInv(c)

OneCaller ==
    \A c, d \in Caller : InCall(c) /\ InCall(d) /\ call[c].key = call[d].key => c = d

IInv ==
    /\ TypeOK /\ call = [c \in Caller |-> call[c]] /\ intent = [key \in Key |-> intent[key]]
    /\ RowInv /\ SavedInv /\ AppliedInv /\ RevisionInv /\ ModelsCover
    /\ EventInv /\ GeneInv /\ ModelInv
    /\ OneCaller /\ \A c \in Caller : CallInv(c)

-----------------------------------------------------------------------------
(* Stored knowledge, and how calls begin. *)

\* Knowledge that is stored is well typed, so a draft of it is.
LEMMA KnowledgeTyped ==
    ASSUME IInv, NEW n \in 0..Len(revisions)
    PROVE  KnowledgeOf(revisions, n) \in Knowledge /\ WellFormed(KnowledgeOf(revisions, n))
  <1>1. CASE n = 0
    BY <1>1 DEF KnowledgeOf, NoKnowledge, Knowledge, NoUnknown, Unknown, Answerer, WellFormed
  <1>2. CASE n # 0
    <2>1. n \in DOMAIN revisions /\ revisions[n] \in Revision(Id \cup Mandate)
      BY <1>2 DEF IInv, TypeOK
    <2> QED
      BY <1>2, <2>1 DEF KnowledgeOf, Revision, IInv, RevisionInv
  <1> QED
    BY <1>1, <1>2

\* What an installation can be saved over is an asset.
LEMMA AssetsTyped ==
    ASSUME IInv
    PROVE  AssetsStored \subseteq Asset
  <1>1. \A n \in DOMAIN revisions : revisions[n].origin \in Id \cup Mandate
    <2>1. revisions \in Seq(Revision(Id \cup Mandate))
      BY DEF IInv, TypeOK
    <2>2. \A n \in DOMAIN revisions : revisions[n] \in Revision(Id \cup Mandate)
      BY <2>1
    <2> QED
      BY <2>2 DEF Revision
  <1>2. /\ \A m \in models : m.by \in Id
        /\ \A d \in definitions : d.by \in Id
        /\ \A i \in installations : i.by[2] \in Id
    BY DEF IInv, ModelInv, TypeOK, Key
  <1> QED
    BY <1>1, <1>2 DEF AssetsStored, Asset

Claims(c) == \E id \in Id, kind \in Kind : \E form :
    /\ Claim(c, id, form) /\ form.kind = kind /\ BodyOK(form)
    /\ kind = "discovery" => form.body.parent \in 0..Len(revisions)

\* Each operation claims its key with a form of its kind.
LEMMA BeginsClaim ==
    ASSUME IInv, NEW c \in Caller, Begin(c)
    PROVE  Claims(c)
  <1>1. PICK id \in Id :
          \/ WorkCreate(c, id) \/ CompanyDiscoveryApply(c, id) \/ ApplyDraft(c, id)
          \/ CompanyApply(c, id) \/ SkillInstall(c, id) \/ AutoskillPropose(c, id)
          \/ KastReflect(c, id) \/ GlobalSkillPromotionPropose(c, id)
    BY DEF Begin
  <1> USE DEF Kind
  <1>2. CASE WorkCreate(c, id)
    <2>1. PICK body \in WorkInput : Claim(c, id, Form("work", body))
      BY <1>2 DEF WorkCreate
    <2> QED
      BY <2>1 DEF Claims, Form, BodyOK
  <1>3. CASE CompanyDiscoveryApply(c, id)
    <2>1. PICK parent \in 0..Len(revisions), input \in DiscoveryInput :
              Claim(c, id, DiscoveryForm(parent, input.knowledge, input.expected))
      BY <1>3 DEF CompanyDiscoveryApply
    <2>2. input.knowledge \in Knowledge
      BY CompanyOperationsAssumption DEF CompanyOperationsAssumption
    <2> QED
      BY <2>1, <2>2 DEF Claims, DiscoveryForm, Form, BodyOK
  <1>4. CASE ApplyDraft(c, id)
    <2>1. PICK parent \in 0..Len(revisions), seen \in SUBSET Observable :
              Claim(c, id, DiscoveryForm(parent, Draft(KnowledgeOf(revisions, parent), seen), FALSE))
      BY <1>4 DEF ApplyDraft
    <2>2. Draft(KnowledgeOf(revisions, parent), seen) \in Knowledge
      BY KnowledgeTyped, DraftAccepted
    <2> QED
      BY <2>1, <2>2 DEF Claims, DiscoveryForm, Form, BodyOK
  <1>5. CASE CompanyApply(c, id)
    <2>1. PICK intake \in IntakeInput : \E expected :
              Claim(c, id, Form("formation", [intake |-> intake, expected |-> expected]))
      BY <1>5 DEF CompanyApply
    <2> QED
      BY <2>1 DEF Claims, Form, BodyOK
  <1>6. CASE SkillInstall(c, id)
    <2>1. PICK input \in InstallInput, asset \in AssetsStored \cup {Nothing} :
              Claim(c, id, InstallForm(input, asset))
      BY <1>6 DEF SkillInstall
    <2>2. asset \in Asset \cup {Nothing}
      BY AssetsTyped
    <2>3. input \in [skill: CatalogSkill, department: Department, scopes: Scopes]
      BY CompanyOperationsAssumption DEF CompanyOperationsAssumption
    <2>4. BodyOK(InstallForm(input, asset)) /\ InstallForm(input, asset).kind = "install"
      BY <2>2, <2>3 DEF InstallForm, Form, BodyOK
    <2> QED
      BY <2>1, <2>4 DEF Claims
  <1>7. CASE AutoskillPropose(c, id)
    <2>1. PICK body \in SkillInput : Claim(c, id, Form("autoskill", body))
      BY <1>7 DEF AutoskillPropose
    <2> QED
      BY <2>1 DEF Claims, Form, BodyOK
  <1>8. CASE KastReflect(c, id) \/ GlobalSkillPromotionPropose(c, id)
    <2>1. PICK body \in ReflectionInput : Claim(c, id, Form("reflection", body))
      BY <1>8 DEF KastReflect, GlobalSkillPromotionPropose
    <2> QED
      BY <2>1 DEF Claims, Form, BodyOK
  <1> QED
    BY <1>1, <1>2, <1>3, <1>4, <1>5, <1>6, <1>7, <1>8

-----------------------------------------------------------------------------
(* What every step keeps. *)

\* What is stored stays stored.
StoreGrows ==
    /\ Len(revisions) <= Len(revisions')
    /\ \A n \in DOMAIN revisions : n \in DOMAIN revisions' /\ revisions'[n] = revisions[n]
    /\ models \subseteq models' /\ installations \subseteq installations'
    /\ definitions \subseteq definitions' /\ events \subseteq events' /\ jobs \subseteq jobs'
    /\ lost \subseteq lost'
    /\ \A s \in LocalSkill : genes[s] # NoGene => genes'[s] # NoGene
    /\ \A s \in LocalSkill : genes'[s] # NoGene =>
          \/ genes[s] # NoGene /\ genes'[s].definition = genes[s].definition
          \/ GeneDefined(s)'
    /\ \A m \in models' : m \in models \/ m.by \in Id
    /\ \A key \in events' : key \in events \/ (key \in Key /\ journal[key].state # "none" /\ OwnInstallation(key))
    /\ \A id \in Id : works'[id] \in {works[id], intent[<<"work", id>>].body}

Grows ==
    /\ StoreGrows
    /\ \A key \in Key : journal[key].state # "none" =>
          journal'[key].state # "none" /\ intent'[key] = intent[key]

\* A step of a call is none of the others' business.
Others(c) == call' = [call EXCEPT ![c] = call'[c]]

Apart(key) == journal'[key] = journal[key] /\ SavedOf'[key] = SavedOf[key]

\* A call in progress has a form of its kind.
LEMMA InProgress ==
    ASSUME IInv, NEW c \in Caller, InCall(c)
    PROVE  /\ call[c].key \in Key /\ call[c].key = <<KindOf(c), IdOf(c)>> /\ IdOf(c) \in Id
           /\ call[c].form = intent[call[c].key] /\ KindOf(c) \in Kind /\ BodyOK(call[c].form)
           /\ journal[call[c].key].state # "none" /\ journal[call[c].key].owner = Server
           /\ journal[call[c].key].token = 1
           /\ KindOf(c) = "discovery" => BodyOf(c).parent \in 0..Len(revisions)
  <1>1. call[c].key \in Key /\ call[c].form = intent[call[c].key]
        /\ journal[call[c].key].state # "none"
    BY DEF IInv, CallInv, OwnInv
  <1>2. /\ intent[call[c].key].kind = call[c].key[1] /\ BodyOK(intent[call[c].key])
        /\ journal[call[c].key].owner = Server /\ journal[call[c].key].token = 1
        /\ call[c].key[1] = "discovery" => intent[call[c].key].body.parent \in 0..Len(revisions)
    BY <1>1 DEF IInv, RowInv
  <1> QED
    BY <1>1, <1>2 DEF Key, KindOf, IdOf, BodyOf

\* Keys that have their effects keep them.
LEMMA SettledStays ==
    ASSUME IInv, Grows
    PROVE  Settled \subseteq Settled'
  <1> SUFFICES ASSUME NEW key \in Settled
               PROVE  key \in Settled'
    OBVIOUS
  <1>1. key \in Key /\ journal[key].state # "none" /\ WasStored(intent[key], key[2])
    BY DEF Settled
  <1>2. journal'[key].state # "none" /\ intent'[key] = intent[key]
    BY <1>1 DEF Grows
  <1>3. intent[key].kind = key[1] /\ BodyOK(intent[key]) /\ key[1] \in Kind /\ key[2] \in Id
        /\ key = <<key[1], key[2]>>
    BY <1>1 DEF IInv, RowInv, Key
  <1>4. WasStored(intent[key], key[2])'
    <2>1. CASE key[1] = "work"
      BY <1>1, <1>2, <1>3, <2>1 DEF WasStored, Grows, StoreGrows
    <2>2. CASE key[1] = "discovery"
      BY <1>1, <1>2, <1>3, <2>2 DEF WasStored, Grows, StoreGrows
    <2>3. CASE key[1] = "formation"
      BY <1>1, <1>2, <1>3, <2>3 DEF WasStored, Grows, StoreGrows
    <2>4. CASE key[1] = "install"
      BY <1>1, <1>2, <1>3, <2>4 DEF WasStored, Grows, StoreGrows, SavedAsInstallation, SavedOver
    <2>5. CASE key[1] = "autoskill"
      <3>1. intent[key].body \in SkillInput
        BY <1>3, <2>5 DEF BodyOK
      <3>2. Slug[intent[key].body.name] \in LocalSkill
        BY <3>1, CompanyOperationsAssumption DEF CompanyOperationsAssumption
      <3> QED
        BY <1>1, <1>2, <1>3, <2>5, <3>2 DEF WasStored, Grows, StoreGrows
    <2>6. CASE key[1] = "reflection"
      BY <1>1, <1>2, <1>3, <2>6 DEF WasStored, Grows, StoreGrows
    <2> QED
      BY <1>3, <2>1, <2>2, <2>3, <2>4, <2>5, <2>6 DEF Kind
  <1> QED
    BY <1>1, <1>2, <1>4 DEF Settled

\* What was saved for an installation stays, and so do events, genes and models.
LEMMA OwnStays ==
    ASSUME IInv, Grows, NEW key \in Key, journal[key].state # "none", OwnInstallation(key)
    PROVE  OwnInstallation(key)'
  <1>1. intent'[key] = intent[key] /\ installations \subseteq installations'
    BY DEF Grows, StoreGrows
  <1> QED
    BY <1>1 DEF OwnInstallation, SavedAsInstallation, SavedOver

LEMMA AuxStays ==
    ASSUME IInv, Grows
    PROVE  (EventInv /\ GeneInv /\ ModelInv)'
  <1>1. EventInv'
    <2> SUFFICES ASSUME NEW key \in events'
                 PROVE  key \in Key /\ journal'[key].state # "none" /\ OwnInstallation(key)'
      BY DEF EventInv
    <2>1. key \in Key /\ journal[key].state # "none" /\ OwnInstallation(key)
      BY DEF Grows, StoreGrows, IInv, EventInv
    <2> QED
      BY <2>1, OwnStays DEF Grows
  <1>2. GeneInv'
    <2> SUFFICES ASSUME NEW s \in LocalSkill, genes'[s] # NoGene
                 PROVE  GeneDefined(s)'
      BY DEF GeneInv
    <2>1. definitions \subseteq definitions'
      BY DEF Grows, StoreGrows
    <2>2. CASE genes[s] # NoGene /\ genes'[s].definition = genes[s].definition
      BY <2>1, <2>2 DEF IInv, GeneInv, GeneDefined
    <2> QED
      BY <2>2 DEF Grows, StoreGrows
  <1>3. ModelInv'
    BY DEF Grows, StoreGrows, IInv, ModelInv
  <1> QED
    BY <1>1, <1>2, <1>3

\* Assets that are saved stay saved.
LEMMA SavedGrows ==
    ASSUME IInv, Grows, NEW key \in Key
    PROVE  SavedOf[key] \subseteq SavedOf'[key]
  BY DEF SavedOf, Saved, Grows, StoreGrows

\* More skills provide more.
LEMMA ProvidedGrows ==
    ASSUME IInv, Grows
    PROVE  /\ DOMAIN Provided = DOMAIN Provided'
           /\ \A s \in DOMAIN Provided : Provided[s] \subseteq Provided'[s]
           /\ InstalledSkills \subseteq InstalledSkills'
  BY DEF Provided, InstalledSkills, Grows, StoreGrows

\* A call that does not act stays where it is.
LEMMA OtherCall ==
    ASSUME IInv, Grows, NEW d \in Caller, call'[d] = call[d], InCall(d) => Apart(call[d].key)
    PROVE  CallInv(d)'
  <1>1. CallInv(d)
    BY DEF IInv
  <1>2. Shape(d)' /\ call'[d].pc \in Stage
    BY <1>1 DEF CallInv, Shape
  <1>3. AnswerInv(d)'
    <2> SUFFICES ASSUME call'[d].answer = "applied"
                 PROVE  call'[d].key \in Settled' /\ call'[d].form = intent'[call'[d].key]
      BY DEF AnswerInv
    <2>1. call[d].key \in Settled /\ call[d].form = intent[call[d].key]
      BY <1>1 DEF CallInv, AnswerInv
    <2>2. intent'[call[d].key] = intent[call[d].key]
      BY <2>1 DEF Settled, Grows
    <2> QED
      BY <2>1, <2>2, SettledStays
  <1>4. ASSUME InCall(d)
        PROVE  OwnInv(d)' /\ StageInv(d)' /\ PersistedInv(d)'
    <2>1. Apart(call[d].key)
      BY <1>4
    <2>2. OwnInv(d) /\ StageInv(d) /\ PersistedInv(d)
      BY <1>1, <1>4 DEF CallInv
    <2>3. OwnInv(d)'
      BY <1>4, <2>1, <2>2, InProgress DEF OwnInv, Apart, Grows, At, InCall
    <2>4. PersistedInv(d)'
      BY <2>1, <2>2 DEF PersistedInv, Apart, Grows, StoreGrows, KindOf
    <2>5. At(d, "save-revision") => BuiltOK(d)' /\ KindOf(d)' = "discovery"
      <3> SUFFICES ASSUME At(d, "save-revision")
                   PROVE  BuiltOK(d)' /\ KindOf(d)' = "discovery"
        OBVIOUS
      <3>1. BuiltOK(d) /\ KindOf(d) = "discovery"
        BY <2>2 DEF StageInv
      <3>2. call[d].built.parent \in 0..Len(revisions)
        BY <1>4, <3>1, InProgress DEF BuiltOK
      <3>3. KnowledgeOf(revisions', call[d].built.parent) = KnowledgeOf(revisions, call[d].built.parent)
        BY <3>2 DEF KnowledgeOf, Grows, StoreGrows, IInv, TypeOK
      <3> QED
        BY <3>1, <3>3 DEF BuiltOK, BodyOf, IdOf, KindOf
    <2>6. At(d, "save-model") => PlanOK(d)'
      <3> SUFFICES ASSUME At(d, "save-model")
                   PROVE  PlanOK(d)'
        OBVIOUS
      <3>1. PlanOK(d)
        BY <2>2 DEF StageInv
      <3>2. Covers(call[d].built, BodyOf(d).intake, Provided', InstalledSkills')
        BY <3>1, ProvidedGrows, CoversGrows DEF PlanOK
      <3> QED
        BY <3>1, <3>2 DEF PlanOK, BodyOf
    <2>7. Defined(d) => Defined(d)'
      BY DEF Defined, Grows, StoreGrows, IdOf, BodyOf
    <2>8. Settled \subseteq Settled'
      BY SettledStays
    <2>9. StageInv(d)'
      <3>1. installations \subseteq installations' /\ definitions \subseteq definitions'
            /\ events \subseteq events'
        BY DEF Grows, StoreGrows
      <3>2. KindOf(d)' = KindOf(d) /\ \A s : At(d, s)' <=> At(d, s)
        BY DEF KindOf, At
      <3>3. OwnInstallation(call[d].key) => OwnInstallation(call[d].key)'
        BY <1>4, InProgress, OwnStays
      <3> QED
        BY <2>2, <2>5, <2>6, <2>7, <2>8, <3>1, <3>2, <3>3 DEF StageInv, At, KindOf
    <2> QED
      BY <2>3, <2>4, <2>9
  <1> QED
    BY <1>2, <1>3, <1>4 DEF CallInv, InCall

LEMMA ModelsStay ==
    ASSUME IInv, Grows, models' = models
    PROVE  ModelsCover'
  <1>1. \A m \in models : Covers(m.plan, m.intake, Provided, InstalledSkills)
    BY DEF IInv, ModelsCover, InstalledSkills
  <1>2. \A m \in models : Covers(m.plan, m.intake, Provided', InstalledSkills')
    BY <1>1, ProvidedGrows, CoversGrows
  <1> QED
    BY <1>2 DEF ModelsCover, InstalledSkills

\* A key no one touches keeps its part of the invariant.
LEMMA ApartStays ==
    ASSUME IInv, Grows, NEW key \in Key, Apart(key)
    PROVE  SavedAt(key)' /\ AppliedAt(key)'
  <1>1. SavedAt(key) /\ AppliedAt(key)
    BY DEF IInv, SavedInv, AppliedInv
  <1>2. SavedAt(key)'
    BY <1>1 DEF SavedAt, Apart, Grows, StoreGrows
  <1>3. AppliedAt(key)'
    BY <1>1, SettledStays DEF AppliedAt, Apart, Grows, StoreGrows
  <1> QED
    BY <1>2, <1>3

\* Rows stay what they were claimed as.
LEMMA RowsStay ==
    ASSUME IInv, Grows,
           \A key \in Key : journal[key].state # "none" =>
               journal'[key].owner = Server /\ journal'[key].token = 1,
           \A key \in Key : journal[key].state = "none" => journal'[key] = journal[key]
    PROVE  RowInv'
  <1> SUFFICES ASSUME NEW key \in Key, journal'[key].state # "none"
               PROVE  /\ journal'[key].owner = Server /\ journal'[key].token = 1
                      /\ intent'[key].kind = key[1] /\ BodyOK(intent'[key])
                      /\ key[1] = "discovery" => intent'[key].body.parent \in 0..Len(revisions')
    BY DEF RowInv
  <1>1. journal[key].state # "none"
    OBVIOUS
  <1>2. intent'[key] = intent[key] /\ Len(revisions) <= Len(revisions')
    BY <1>1 DEF Grows, StoreGrows
  <1>3. Len(revisions) \in Nat /\ Len(revisions') \in Int
    BY <1>2 DEF IInv, TypeOK
  <1> QED
    BY <1>1, <1>2, <1>3 DEF IInv, RowInv

\* A step of a call keeps the invariant if it keeps that of the call and of its key.
LEMMA Assemble ==
    ASSUME IInv, NEW c \in Caller, InCall(c), Others(c), Grows, intent' = intent,
           TypeOK', RevisionInv', ModelsCover', CallInv(c)',
           InCall(c)' => call'[c].key = call[c].key,
           NEW own \in Key, own = call[c].key,
           \A key \in Key : key # own => Apart(key),
           journal'[own].owner = Server, journal'[own].token = 1,
           SavedAt(own)', AppliedAt(own)'
    PROVE  IInv'
  <1>1. journal[own].state # "none"
    BY InProgress
  <1>2. RowInv'
    <2>1. \A key \in Key : journal[key].state # "none" =>
              journal'[key].owner = Server /\ journal'[key].token = 1
      BY DEF IInv, RowInv, Apart
    <2>2. \A key \in Key : journal[key].state = "none" => journal'[key] = journal[key]
      BY <1>1 DEF Apart
    <2> QED
      BY <2>1, <2>2, RowsStay
  <1>3. SavedInv' /\ AppliedInv'
    <2>1. \A key \in Key : SavedAt(key)' /\ AppliedAt(key)'
      BY ApartStays
    <2> QED
      BY <2>1 DEF SavedInv, AppliedInv
  <1>4. call = [d \in Caller |-> call[d]]
    BY DEF IInv
  <1>5. \A d \in Caller \ {c} : call'[d] = call[d]
    BY <1>4 DEF Others
  <1>6. call' = [d \in Caller |-> call'[d]] /\ intent' = [key \in Key |-> intent'[key]]
    BY <1>4 DEF Others, IInv
  <1>7. ASSUME NEW d \in Caller
        PROVE  CallInv(d)'
    <2>1. CASE d = c
      BY <2>1
    <2>2. CASE d # c
      <3>1. InCall(d) => call[d].key \in Key /\ call[d].key # own
        BY <2>2, InProgress DEF IInv, OneCaller
      <3> QED
        BY <1>5, <2>2, <3>1, OtherCall
    <2> QED
      BY <2>1, <2>2
  <1>8. OneCaller'
    <2>1. \A d \in Caller : call'[d].pc # "idle" => call[d].pc # "idle" /\ call'[d].key = call[d].key
      BY <1>5 DEF InCall
    <2>2. \A d, e \in Caller : call[d].pc # "idle" /\ call[e].pc # "idle" /\ call[d].key = call[e].key
                                 => d = e
      BY DEF IInv, OneCaller, InCall
    <2> QED
      BY <2>1, <2>2 DEF OneCaller, InCall
  <1> QED
    BY <1>2, <1>3, <1>6, <1>7, <1>8, AuxStays DEF IInv

\* Most steps of a call touch neither the journal nor revisions nor models.
LEMMA Keeps ==
    ASSUME IInv, NEW c \in Caller, InCall(c), Others(c), StoreGrows, TypeOK',
           UNCHANGED <<journal, intent, revisions, models>>,
           CallInv(c)', InCall(c)' => call'[c].key = call[c].key
    PROVE  IInv'
  <1>1. Grows
    BY DEF Grows
  <1>2. SavedOf' = SavedOf
    BY DEF SavedOf, Saved
  <1>3. RevisionInv'
    BY DEF IInv, RevisionInv, KnowledgeOf
  <1>4. ModelsCover'
    BY <1>1, ModelsStay
  <1>5. PICK own \in Key : own = call[c].key
    BY InProgress
  <1>6. \A key \in Key : Apart(key)
    BY <1>2 DEF Apart
  <1>7. SavedAt(own)' /\ AppliedAt(own)'
    BY <1>1, <1>6, ApartStays
  <1>8. journal'[own].owner = Server /\ journal'[own].token = 1
    BY <1>5, InProgress
  <1> QED
    BY <1>1, <1>3, <1>4, <1>5, <1>6, <1>7, <1>8, Assemble

-----------------------------------------------------------------------------
(* The steps of a call. *)

\* The call of the store a step awaits leads to the next stage or to the catch.
LEMMA AwaitSteps ==
    ASSUME IInv, NEW c \in Caller, InCall(c), NEW s \in Stage,
           \/ call' = [call EXCEPT ![c] = [call[c] EXCEPT !.pc = s]] /\ UNCHANGED <<faults, lost>>
           \/ /\ faults < MaxFaults /\ faults' = faults + 1
              /\ call' = [call EXCEPT ![c].pc = "catch"] /\ lost' = lost \cup {call[c].key}
    PROVE  /\ Others(c) /\ lost \subseteq lost' /\ lost' \subseteq Key /\ faults' \in 0..MaxFaults
           /\ \E t \in {s, "catch"} : call'[c] = [call[c] EXCEPT !.pc = t]
  <1>1. call[c].key \in Key
    BY InProgress
  <1>2. lost \subseteq Key /\ faults \in 0..MaxFaults /\ MaxFaults \in Nat
    BY CompanyOperationsAssumption DEF IInv, TypeOK, CompanyOperationsAssumption
  <1>3. call = [d \in Caller |-> call[d]]
    BY DEF IInv
  <1> QED
    BY <1>1, <1>2, <1>3 DEF Others

\* A step that only moves a call on, to a stage whose condition holds.
LEMMA Advance ==
    ASSUME IInv, NEW c \in Caller, InCall(c), ~At(c, "catch"), Others(c), StoreGrows, TypeOK',
           UNCHANGED <<journal, intent, revisions, models>>,
           NEW s \in Stage \ {"idle"}, call'[c] = [call[c] EXCEPT !.pc = s],
           s \in Unsaved => call[c].pc \in Unsaved, StageInv(c)'
    PROVE  IInv'
  <1>1. CallInv(c) /\ OwnInv(c) /\ PersistedInv(c) /\ Shape(c)
    BY DEF IInv, CallInv
  <1>2. call'[c] = [pc |-> s, key |-> call[c].key, form |-> call[c].form, seen |-> call[c].seen,
                    built |-> call[c].built, persisted |-> call[c].persisted,
                    answer |-> call[c].answer]
    BY <1>1 DEF Shape
  <1>3. Shape(c)' /\ OwnInv(c)' /\ AnswerInv(c)'
    BY <1>1, <1>2 DEF Shape, OwnInv, AnswerInv, At
  <1>4. SavedOf' = SavedOf
    BY DEF SavedOf, Saved
  <1>5. PersistedInv(c)'
    BY <1>1, <1>2, <1>4 DEF PersistedInv, StoreGrows, KindOf
  <1>6. CallInv(c)'
    BY <1>2, <1>3, <1>5 DEF CallInv, Stage
  <1> QED
    BY <1>2, <1>6, Keeps

LEMMA KeepsSaveWork ==
    ASSUME IInv, NEW c \in Caller, SaveWork(c)
    PROVE  IInv'
  <1>1. At(c, "save-work") /\ InCall(c) /\ KindOf(c) = "work"
    BY DEF SaveWork, At, InCall, IInv, CallInv, StageInv
  <1>2. PICK own \in Key : own = call[c].key /\ own = <<"work", IdOf(c)>> /\ IdOf(c) \in Id
                           /\ BodyOf(c) = intent[own].body /\ intent[own].kind = "work"
                           /\ journal[own].state # "none" /\ BodyOf(c) \in WorkInput
    BY <1>1, InProgress DEF BodyOf, KindOf, BodyOK
  <1>3. /\ Others(c) /\ lost \subseteq lost' /\ lost' \subseteq Key /\ faults' \in 0..MaxFaults
        /\ \E t \in {"event", "catch"} : call'[c] = [call[c] EXCEPT !.pc = t]
    BY <1>1, AwaitSteps DEF SaveWork, Await, Goto, Stage
  <1>4. works' = [works EXCEPT ![IdOf(c)] = BodyOf(c)] /\ works \in [Id -> WorkInput \cup {Nothing}]
    BY DEF SaveWork, IInv, TypeOK
  <1>5. StoreGrows
    <2>1. \A id \in Id : works'[id] \in {works[id], intent[<<"work", id>>].body}
      BY <1>2, <1>4
    <2> QED
      BY <1>3, <2>1 DEF StoreGrows, SaveWork, IInv, TypeOK
  <1>6. TypeOK'
    BY <1>2, <1>3, <1>4 DEF SaveWork, IInv, TypeOK
  <1>7. own \in Settled'
    <2>1. own[1] = "work" /\ own[2] = IdOf(c) /\ journal' = journal /\ intent' = intent
      BY <1>2 DEF SaveWork
    <2>2. works'[own[2]] = intent'[own].body /\ intent'[own].kind = "work"
      BY <1>2, <1>4, <2>1
    <2> QED
      BY <1>2, <2>1, <2>2 DEF Settled, WasStored
  <1>8. PICK t \in {"event", "catch"} : call'[c] = [call[c] EXCEPT !.pc = t]
    BY <1>3
  <1>9. StageInv(c)'
    <2>1. Shape(c)
      BY DEF IInv, CallInv
    <2>2. OwnInstallation(own)'
      BY <1>2 DEF OwnInstallation
    <2> QED
      BY <1>2, <1>7, <1>8, <2>1, <2>2 DEF StageInv, At, Shape
  <1> QED
    BY <1>1, <1>3, <1>5, <1>6, <1>8, <1>9, Advance DEF SaveWork, Stage, Unsaved, At

LEMMA KeepsLookForInstall ==
    ASSUME IInv, NEW c \in Caller, LookForInstall(c)
    PROVE  IInv'
  <1>1. At(c, "look") /\ InCall(c) /\ KindOf(c) = "install"
    BY DEF LookForInstall, At, InCall
  <1>2. PICK own \in Key : own = call[c].key /\ own = <<"install", IdOf(c)>>
                           /\ BodyOf(c) = intent[own].body /\ intent[own].kind = "install"
                           /\ journal[own].state # "none"
    BY <1>1, InProgress DEF BodyOf, KindOf
  <1> DEFINE found == \E i \in Active :
                         i.skill = BodyOf(c).skill /\ i.department = BodyOf(c).department
  <1>3. call' = [call EXCEPT ![c].pc = IF found THEN "mark" ELSE "save-installation"]
    BY DEF LookForInstall
  <1>4. PICK t \in {"mark", "save-installation"} :
            call'[c] = [call[c] EXCEPT !.pc = t] /\ (t = "mark" => found)
    <2>1. call = [d \in Caller |-> call[d]]
      BY DEF IInv
    <2> HIDE DEF found
    <2> QED
      BY <1>3, <2>1
  <1>5. Others(c)
    <2>1. call = [d \in Caller |-> call[d]]
      BY DEF IInv
    <2> HIDE DEF found
    <2> QED
      BY <1>3, <2>1 DEF Others
  <1>6. StoreGrows /\ TypeOK' /\ Settled' = Settled
    BY DEF LookForInstall, store, control, StoreGrows, IInv, TypeOK, Settled, WasStored
  <1>7. found => own \in Settled
    BY <1>2 DEF Settled, WasStored, Active
  <1>8. StageInv(c)'
    <2>1. Shape(c)
      BY DEF IInv, CallInv
    <2> HIDE DEF found
    <2> QED
      BY <1>1, <1>2, <1>4, <1>6, <1>7, <2>1 DEF StageInv, At, Shape, KindOf
  <1> QED
    BY <1>1, <1>4, <1>5, <1>6, <1>8, Advance DEF LookForInstall, store, Stage, Unsaved, At

LEMMA KeepsLookForSkill ==
    ASSUME IInv, NEW c \in Caller, LookForSkill(c)
    PROVE  IInv'
  <1>1. At(c, "look") /\ InCall(c) /\ KindOf(c) = "autoskill"
    BY DEF LookForSkill, At, InCall
  <1>2. PICK t \in {"catch", "save-definition"} : call' = [call EXCEPT ![c].pc = t]
    BY DEF LookForSkill
  <1>3. call'[c] = [call[c] EXCEPT !.pc = t] /\ Others(c)
    BY <1>2 DEF IInv, Others
  <1>4. StoreGrows /\ TypeOK'
    BY DEF LookForSkill, store, control, StoreGrows, IInv, TypeOK
  <1>5. StageInv(c)'
    <2>1. Shape(c)
      BY DEF IInv, CallInv
    <2> QED
      BY <1>1, <1>2, <1>3, <2>1 DEF StageInv, At, Shape, KindOf
  <1> QED
    BY <1>1, <1>2, <1>3, <1>4, <1>5, Advance DEF LookForSkill, store, Stage, Unsaved, At

LEMMA KeepsSaveDefinition ==
    ASSUME IInv, NEW c \in Caller, SaveDefinition(c)
    PROVE  IInv'
  <1>1. At(c, "save-definition") /\ InCall(c) /\ KindOf(c) = "autoskill"
    BY DEF SaveDefinition, At, InCall, IInv, CallInv, StageInv
  <1>2. IdOf(c) \in Id /\ BodyOf(c) \in SkillInput
    BY <1>1, InProgress DEF BodyOf, KindOf, BodyOK
  <1> DEFINE d == [skill |-> Slug[BodyOf(c).name], by |-> IdOf(c), provides |-> BodyOf(c).provides]
  <1>3. d \in [skill: LocalSkill, by: Id, provides: SUBSET Capability]
    BY <1>2, CompanyOperationsAssumption DEF CompanyOperationsAssumption
  <1>4. /\ Others(c) /\ lost \subseteq lost' /\ lost' \subseteq Key /\ faults' \in 0..MaxFaults
        /\ \E t \in {"save-installation", "catch"} : call'[c] = [call[c] EXCEPT !.pc = t]
    BY <1>1, AwaitSteps DEF SaveDefinition, Await, Goto, Stage
  <1>5. definitions' = definitions \cup {d}
    BY DEF SaveDefinition
  <1> HIDE DEF d
  <1>6. StoreGrows
    BY <1>4, <1>5 DEF StoreGrows, SaveDefinition, IInv, TypeOK
  <1>7. TypeOK'
    BY <1>3, <1>4, <1>5 DEF SaveDefinition, IInv, TypeOK
  <1>8. PICK t \in {"save-installation", "catch"} : call'[c] = [call[c] EXCEPT !.pc = t]
    BY <1>4
  <1>9. StageInv(c)'
    <2>1. Shape(c)
      BY DEF IInv, CallInv
    <2>2. call'[c].form = call[c].form /\ call'[c].key = call[c].key /\ call'[c].pc = t
      BY <1>8, <2>1 DEF Shape
    <2>3. Defined(c)'
      <3>1. d.by = IdOf(c) /\ d.skill = Slug[BodyOf(c).name] /\ d.provides = BodyOf(c).provides
        BY DEF d
      <3>2. IdOf(c)' = IdOf(c) /\ BodyOf(c)' = BodyOf(c)
        BY <2>2 DEF IdOf, BodyOf
      <3> QED
        BY <1>5, <3>1, <3>2 DEF Defined
    <2> QED
      BY <1>1, <2>2, <2>3 DEF StageInv, At, KindOf
  <1> QED
    BY <1>1, <1>4, <1>6, <1>7, <1>8, <1>9, Advance DEF SaveDefinition, Stage, Unsaved, At

LEMMA KeepsSaveInstallation ==
    ASSUME IInv, NEW c \in Caller, SaveInstallation(c)
    PROVE  IInv'
  <1>1. /\ At(c, "save-installation") /\ InCall(c)
        /\ KindOf(c) = "install" \/ (KindOf(c) = "autoskill" /\ Defined(c))
    BY DEF SaveInstallation, At, InCall, IInv, CallInv, StageInv
  <1>2. PICK own \in Key : own = call[c].key /\ own = <<KindOf(c), IdOf(c)>> /\ IdOf(c) \in Id
                           /\ BodyOf(c) = intent[own].body /\ intent[own].kind = KindOf(c)
                           /\ journal[own].state # "none" /\ BodyOK(call[c].form)
    BY <1>1, InProgress DEF BodyOf, KindOf
  <1>3. /\ InstallationOf(c) \in [by: Key, skill: Skill, department: Department,
                                 scopes: Scopes \cup {Nothing}]
        /\ SavedOver(call[c].form) \subseteq Asset
    <2>1. CASE KindOf(c) = "install"
      <3>1. BodyOf(c) \in [skill: CatalogSkill, department: Department, scopes: Scopes,
                           names: Asset \cup {Nothing}]
        BY <1>2, <2>1 DEF BodyOK, BodyOf, KindOf
      <3>2. /\ BodyOf(c).skill \in Skill /\ BodyOf(c).department \in Department
            /\ BodyOf(c).scopes \in Scopes /\ BodyOf(c).names \in Asset \cup {Nothing}
        BY <3>1 DEF Skill
      <3>3. SavedOver(call[c].form) \subseteq Asset
        BY <3>2 DEF SavedOver, BodyOf
      <3> QED
        BY <1>2, <2>1, <3>2, <3>3 DEF InstallationOf
    <2>2. CASE KindOf(c) = "autoskill"
      <3>1. BodyOf(c) \in SkillInput
        BY <1>2, <2>2 DEF BodyOK, BodyOf, KindOf
      <3>2. Slug[BodyOf(c).name] \in Skill /\ BodyOf(c).department \in Department
        BY <3>1, CompanyOperationsAssumption DEF CompanyOperationsAssumption, Skill
      <3>3. SavedOver(call[c].form) = {}
        BY <2>2 DEF SavedOver, KindOf
      <3> QED
        BY <1>2, <2>2, <3>2, <3>3 DEF InstallationOf
    <2> QED
      BY <1>1, <2>1, <2>2
  <1>4. PICK s \in Stage : s = (IF KindOf(c) = "install" THEN "event" ELSE "save-gene")
    BY DEF Stage
  <1>5. /\ Others(c) /\ lost \subseteq lost' /\ lost' \subseteq Key /\ faults' \in 0..MaxFaults
        /\ \E t \in {s, "catch"} : call'[c] = [call[c] EXCEPT !.pc = t]
    BY <1>1, <1>4, AwaitSteps DEF SaveInstallation, Await, Goto
  <1>6. /\ installations \subseteq installations'
        /\ installations' \subseteq installations \cup {InstallationOf(c)}
        /\ SavedAsInstallation(call[c].form) => InstallationOf(c) \in installations'
        /\ overwritten' = overwritten \cup SavedOver(call[c].form)
        /\ definitions' = definitions /\ journal' = journal /\ intent' = intent
    BY DEF SaveInstallation
  <1>7. StoreGrows
    BY <1>5, <1>6 DEF StoreGrows, SaveInstallation, IInv, TypeOK
  <1>8. TypeOK'
    BY <1>3, <1>5, <1>6 DEF SaveInstallation, IInv, TypeOK
  <1>9. PICK t \in {s, "catch"} : call'[c] = [call[c] EXCEPT !.pc = t]
    BY <1>5
  <1>10. StageInv(c)'
    <2>1. Shape(c)
      BY DEF IInv, CallInv
    <2>2. call'[c].form = call[c].form /\ call'[c].key = own /\ call'[c].pc = t
      BY <1>2, <1>9, <2>1 DEF Shape
    <2>3. InstallationOf(c).by = own
      BY <1>2 DEF InstallationOf
    <2>4. CASE t = "catch"
      BY <2>2, <2>4 DEF StageInv, At
    <2>5. CASE t = "event"
      <3>1. KindOf(c) = "install"
        BY <1>4, <2>5
      <3>2. /\ InstallationOf(c).skill = intent'[own].body.skill
            /\ InstallationOf(c).department = intent'[own].body.department
            /\ InstallationOf(c).scopes = intent'[own].body.scopes
            /\ intent'[own].kind = "install" /\ call[c].form = intent'[own]
        BY <1>2, <1>6, <3>1, InProgress, <1>1 DEF InstallationOf
      <3>3. SavedAsInstallation(intent'[own]) => InstallationOf(c) \in installations'
        BY <1>6, <3>2
      <3>4. own \in Settled'
        <4>1. WasStored(intent[own], own[2])'
          BY <3>2, <3>3 DEF WasStored
        <4> QED
          BY <1>2, <1>6, <4>1 DEF Settled
      <3>5. OwnInstallation(own)'
        BY <2>3, <3>2, <3>3 DEF OwnInstallation
      <3> QED
        BY <2>2, <2>5, <3>4, <3>5 DEF StageInv, At
    <2>6. CASE t = "save-gene"
      <3>1. KindOf(c) = "autoskill" /\ Defined(c)
        BY <1>1, <1>4, <2>6
      <3>2. Defined(c)'
        BY <1>2, <1>6, <2>2, <3>1 DEF Defined, IdOf, BodyOf
      <3>3. InstallationOf(c) \in installations'
        BY <1>6, <3>1 DEF SavedAsInstallation, SavedOver, KindOf
      <3> QED
        BY <2>2, <2>3, <2>6, <3>1, <3>2, <3>3 DEF StageInv, At, KindOf
    <2> QED
      BY <1>4, <2>4, <2>5, <2>6
  <1> QED
    BY <1>1, <1>4, <1>5, <1>7, <1>8, <1>9, <1>10, Advance DEF SaveInstallation, Stage, Unsaved, At

LEMMA KeepsSaveGene ==
    ASSUME IInv, NEW c \in Caller, SaveGene(c)
    PROVE  IInv'
  <1>1. /\ At(c, "save-gene") /\ InCall(c) /\ KindOf(c) = "autoskill" /\ Defined(c)
        /\ \E i \in installations : i.by = call[c].key
    BY DEF SaveGene, At, InCall, IInv, CallInv, StageInv
  <1>2. PICK own \in Key : own = call[c].key /\ own = <<"autoskill", IdOf(c)>> /\ IdOf(c) \in Id
                           /\ BodyOf(c) = intent[own].body /\ intent[own].kind = "autoskill"
                           /\ journal[own].state # "none" /\ BodyOf(c) \in SkillInput
    BY <1>1, InProgress DEF BodyOf, KindOf, BodyOK
  <1> DEFINE skill == Slug[BodyOf(c).name]
  <1>3. skill \in LocalSkill
    BY <1>2, CompanyOperationsAssumption DEF CompanyOperationsAssumption
  <1>4. /\ Others(c) /\ lost \subseteq lost' /\ lost' \subseteq Key /\ faults' \in 0..MaxFaults
        /\ \E t \in {"event", "catch"} : call'[c] = [call[c] EXCEPT !.pc = t]
    BY <1>1, AwaitSteps DEF SaveGene, Await, Goto, Stage
  <1> DEFINE Gene == [definition: Id \cup {Nothing}, status: {"none", "candidate", "champion"}]
  <1>5. genes' = [genes EXCEPT ![skill] =
                    IF genes[skill] = NoGene THEN [definition |-> IdOf(c), status |-> "candidate"]
                    ELSE [genes[skill] EXCEPT !.status = "candidate"]]
    BY DEF SaveGene
  <1> HIDE DEF skill
  <1>6. genes \in [LocalSkill -> Gene]
    BY DEF IInv, TypeOK
  <1>7. genes'[skill] \in Gene /\ genes'[skill].status = "candidate"
    BY <1>2, <1>3, <1>5, <1>6
  <1>8. genes' \in [LocalSkill -> Gene]
    BY <1>3, <1>5, <1>6, <1>7
  <1>9. genes'[skill] # NoGene
    BY <1>7 DEF NoGene
  <1>10. StoreGrows
    <2>1. \A x \in LocalSkill : x # skill => genes'[x] = genes[x]
      BY <1>5, <1>6
    <2>2. \A x \in LocalSkill : genes[x] # NoGene => genes'[x] # NoGene
      BY <1>9, <2>1
    <2>3. \/ genes[skill] # NoGene /\ genes'[skill].definition = genes[skill].definition
          \/ \E d \in definitions' : d.skill = skill /\ d.by = genes'[skill].definition
      <3>1. CASE genes[skill] # NoGene
        BY <1>3, <1>5, <1>6, <3>1
      <3>2. CASE genes[skill] = NoGene
        <4>1. genes'[skill].definition = IdOf(c) /\ definitions' = definitions
          BY <1>3, <1>5, <1>6, <3>2 DEF SaveGene
        <4> QED
          BY <1>1, <4>1 DEF Defined, skill
      <3> QED
        BY <3>1, <3>2
    <2>4. \A x \in LocalSkill : genes'[x] # NoGene =>
            \/ genes[x] # NoGene /\ genes'[x].definition = genes[x].definition
            \/ GeneDefined(x)'
      BY <2>1, <2>3 DEF GeneDefined
    <2> QED
      BY <1>4, <2>2, <2>4 DEF StoreGrows, SaveGene, IInv, TypeOK
  <1>11. TypeOK'
    BY <1>4, <1>8 DEF SaveGene, IInv, TypeOK
  <1>12. PICK t \in {"event", "catch"} : call'[c] = [call[c] EXCEPT !.pc = t]
    BY <1>4
  <1>13. own \in Settled'
    <2>1. own[1] = "autoskill" /\ own[2] = IdOf(c) /\ journal' = journal /\ intent' = intent
          /\ definitions' = definitions /\ installations' = installations
      BY <1>2 DEF SaveGene
    <2>2. genes'[Slug[intent'[own].body.name]] # NoGene
      BY <1>2, <1>9, <2>1 DEF skill
    <2>3. \E i \in installations' : i.by = <<intent'[own].kind, own[2]>>
      BY <1>1, <1>2, <2>1
    <2>4. \E d \in definitions' : d.by = own[2] /\ d.skill = Slug[intent'[own].body.name]
                                  /\ d.provides = intent'[own].body.provides
      BY <1>1, <1>2, <2>1 DEF Defined
    <2> QED
      BY <1>2, <2>1, <2>2, <2>3, <2>4 DEF Settled, WasStored
  <1>14. StageInv(c)'
    <2>1. Shape(c)
      BY DEF IInv, CallInv
    <2>2. OwnInstallation(own)'
      BY <1>2 DEF OwnInstallation
    <2> QED
      BY <1>2, <1>12, <1>13, <2>1, <2>2 DEF StageInv, At, Shape
  <1> QED
    BY <1>1, <1>4, <1>10, <1>11, <1>12, <1>14, Advance DEF SaveGene, Stage, Unsaved, At

LEMMA KeepsAppendEvent ==
    ASSUME IInv, NEW c \in Caller, AppendEvent(c)
    PROVE  IInv'
  <1>1. /\ At(c, "event") /\ InCall(c)
        /\ KindOf(c) = "reflection" \/ call[c].key \in Settled
        /\ OwnInstallation(call[c].key)
    BY DEF AppendEvent, At, InCall, IInv, CallInv, StageInv
  <1>2. PICK own \in Key : own = call[c].key /\ own = <<KindOf(c), IdOf(c)>>
                           /\ call[c].form = intent[own] /\ journal[own].state # "none"
    BY <1>1, InProgress
  <1>3. PICK s \in Stage : s = AfterEvent(call[c].form)
    BY DEF Stage, AfterEvent
  <1>4. /\ Others(c) /\ lost \subseteq lost' /\ lost' \subseteq Key /\ faults' \in 0..MaxFaults
        /\ \E t \in {s, "catch"} : call'[c] = [call[c] EXCEPT !.pc = t]
    BY <1>1, <1>3, AwaitSteps DEF AppendEvent, Await, Goto
  <1>5. events' = events \cup {own}
    BY <1>2 DEF AppendEvent
  <1>6. StoreGrows
    <2>1. \A key \in events' : key \in events
            \/ (key \in Key /\ journal[key].state # "none" /\ OwnInstallation(key))
      BY <1>1, <1>2, <1>5
    <2> QED
      BY <1>4, <1>5, <2>1 DEF StoreGrows, AppendEvent, IInv, TypeOK
  <1>7. TypeOK'
    BY <1>4, <1>5 DEF AppendEvent, IInv, TypeOK
  <1>8. PICK t \in {s, "catch"} : call'[c] = [call[c] EXCEPT !.pc = t]
    BY <1>4
  <1>9. Settled' = Settled
    BY DEF Settled, WasStored, AppendEvent
  <1>10. StageInv(c)'
    <2>1. Shape(c)
      BY DEF IInv, CallInv
    <2>2. call'[c].form = call[c].form /\ call'[c].key = own /\ call'[c].pc = t
      BY <1>2, <1>8, <2>1 DEF Shape
    <2>3. CASE t = "catch"
      BY <2>2, <2>3 DEF StageInv, At
    <2>4. CASE t = "enqueue"
      BY <1>3, <1>5, <2>2, <2>4 DEF StageInv, At, KindOf, AfterEvent
    <2>5. CASE t = "mark"
      <3>1. own \in Settled
        <4>1. CASE KindOf(c) = "reflection"
          <5>1. intent[own].kind = "reflection" /\ intent[own].body.protected
            BY <1>2, <1>3, <2>5, <4>1 DEF AfterEvent, KindOf
          <5> QED
            BY <1>2, <5>1 DEF Settled, WasStored
        <4> QED
          BY <1>1, <1>2, <4>1
      <3> QED
        BY <1>5, <1>9, <2>2, <2>5, <3>1 DEF StageInv, At, KindOf
    <2> QED
      BY <1>3, <2>3, <2>4, <2>5 DEF AfterEvent
  <1> QED
    <2>1. s \in {"enqueue", "mark"}
      BY <1>3 DEF AfterEvent
    <2> QED
      BY <1>1, <1>4, <1>6, <1>7, <1>8, <1>10, <2>1, Advance DEF AppendEvent, Stage, Unsaved, At

LEMMA KeepsEnqueueJob ==
    ASSUME IInv, NEW c \in Caller, EnqueueJob(c)
    PROVE  IInv'
  <1>1. /\ At(c, "enqueue") /\ InCall(c) /\ KindOf(c) = "reflection" /\ call[c].key \in events
    BY DEF EnqueueJob, At, InCall, IInv, CallInv, StageInv
  <1>2. PICK own \in Key : own = call[c].key /\ own = <<KindOf(c), IdOf(c)>> /\ IdOf(c) \in Id
                           /\ call[c].form = intent[own] /\ journal[own].state # "none"
    BY <1>1, InProgress
  <1>3. /\ Others(c) /\ lost \subseteq lost' /\ lost' \subseteq Key /\ faults' \in 0..MaxFaults
        /\ \E t \in {"mark", "catch"} : call'[c] = [call[c] EXCEPT !.pc = t]
    BY <1>1, AwaitSteps DEF EnqueueJob, Await, Goto, Stage
  <1>4. jobs' = jobs \cup {IdOf(c)} /\ events' = events
    BY DEF EnqueueJob
  <1>5. StoreGrows
    BY <1>3, <1>4 DEF StoreGrows, EnqueueJob, IInv, TypeOK
  <1>6. TypeOK'
    BY <1>2, <1>3, <1>4 DEF EnqueueJob, IInv, TypeOK
  <1>7. PICK t \in {"mark", "catch"} : call'[c] = [call[c] EXCEPT !.pc = t]
    BY <1>3
  <1>8. own \in Settled'
    <2>1. own[2] = IdOf(c) /\ journal' = journal /\ intent' = intent /\ intent[own].kind = "reflection"
      BY <1>1, <1>2 DEF EnqueueJob, KindOf
    <2> QED
      BY <1>2, <1>4, <2>1 DEF Settled, WasStored
  <1>9. StageInv(c)'
    <2>1. Shape(c)
      BY DEF IInv, CallInv
    <2> QED
      BY <1>1, <1>2, <1>4, <1>7, <1>8, <2>1 DEF StageInv, At, Shape
  <1> QED
    BY <1>1, <1>3, <1>5, <1>6, <1>7, <1>9, Advance DEF EnqueueJob, Stage, Unsaved, At

LEMMA KeepsThrow ==
    ASSUME IInv, NEW c \in Caller, Throw(c)
    PROVE  IInv'
  <1>1. ~At(c, "catch") /\ InCall(c)
    BY DEF Throw
  <1>2. call'[c] = [call[c] EXCEPT !.pc = "catch"] /\ Others(c)
    BY DEF Throw, IInv, Others
  <1>3. StoreGrows
    BY DEF Throw, store, control, StoreGrows, IInv, TypeOK
  <1>4. TypeOK'
    BY CompanyOperationsAssumption
    DEF Throw, store, control, IInv, TypeOK, CompanyOperationsAssumption
  <1>5. StageInv(c)'
    <2>1. Shape(c)
      BY DEF IInv, CallInv
    <2> QED
      BY <1>2, <2>1 DEF StageInv, At, Shape
  <1> QED
    BY <1>1, <1>2, <1>3, <1>4, <1>5, Advance DEF Throw, store, Stage, Unsaved

LEMMA KeepsCrash ==
    ASSUME IInv, NEW c \in Caller, Crash(c)
    PROVE  IInv'
  <1>1. InCall(c) /\ call'[c] = Idle /\ Others(c)
    BY DEF Crash, IInv, Others
  <1>2. StoreGrows
    BY DEF Crash, store, control, StoreGrows, IInv, TypeOK
  <1>3. TypeOK'
    BY CompanyOperationsAssumption
    DEF Crash, store, control, IInv, TypeOK, CompanyOperationsAssumption
  <1>4. CallInv(c)'
    BY <1>1 DEF CallInv, Shape, Idle, AnswerInv, InCall, Stage
  <1>5. ~InCall(c)'
    BY <1>1 DEF Idle, InCall
  <1> QED
    BY <1>1, <1>2, <1>3, <1>4, <1>5, Keeps DEF Crash, store

\* A step that also changes what a call knows, before anything of it is saved.
LEMMA Learns ==
    ASSUME IInv, NEW c \in Caller, InCall(c), ~At(c, "catch"), Others(c),
           UNCHANGED <<journal, intent, store, lost>>, TypeOK', Shape(c)',
           call'[c].key = call[c].key, call'[c].form = call[c].form,
           call'[c].persisted = call[c].persisted, call'[c].answer = call[c].answer,
           call[c].pc \in Unsaved, call'[c].pc \in Stage \ {"idle"}, StageInv(c)'
    PROVE  IInv'
  <1>1. CallInv(c) /\ OwnInv(c) /\ PersistedInv(c)
    BY DEF IInv, CallInv
  <1>2. OwnInv(c)' /\ AnswerInv(c)'
    BY <1>1 DEF OwnInv, AnswerInv, At
  <1>3. SavedOf' = SavedOf
    BY DEF SavedOf, Saved, store
  <1>4. PersistedInv(c)'
    BY <1>1, <1>3 DEF PersistedInv, KindOf
  <1>5. CallInv(c)'
    BY <1>2, <1>4 DEF CallInv
  <1>6. StoreGrows
    BY DEF StoreGrows, store, IInv, TypeOK
  <1> QED
    BY <1>5, <1>6, Keeps DEF store

LEMMA KeepsLookForPlan ==
    ASSUME IInv, NEW c \in Caller, LookForPlan(c)
    PROVE  IInv'
  <1>1. At(c, "look") /\ InCall(c) /\ KindOf(c) = "formation"
    BY DEF LookForPlan, At, InCall
  <1>2. Shape(c) /\ call = [d \in Caller |-> call[d]]
    BY DEF IInv, CallInv
  <1>3. \/ call' = [call EXCEPT ![c] = [call[c] EXCEPT !.pc = "catch"]]
        \/ call' = [call EXCEPT ![c] = [call[c] EXCEPT !.pc = "plan", !.seen = Assets]]
    BY DEF LookForPlan
  <1>4. Others(c)
    BY <1>2, <1>3 DEF Others
  <1>5. PICK s, seen :
            /\ s = "catch" \/ (s = "plan" /\ seen = Assets)
            /\ call'[c] = [pc |-> s, key |-> call[c].key, form |-> call[c].form, seen |-> seen,
                           built |-> call[c].built, persisted |-> call[c].persisted,
                           answer |-> call[c].answer]
    BY <1>2, <1>3 DEF Shape
  <1>6. TypeOK'
    BY DEF LookForPlan, store, control, IInv, TypeOK
  <1>7. StageInv(c)'
    <2>1. Assets.definitions = definitions' /\ Assets.installations \subseteq installations'
      BY DEF LookForPlan, store, Assets, Active
    <2> QED
      BY <1>1, <1>5, <2>1 DEF StageInv, At, KindOf
  <1>8. Shape(c)'
    BY <1>5 DEF Shape
  <1>9. /\ UNCHANGED <<journal, intent, store, lost>> /\ ~At(c, "catch")
        /\ call[c].pc \in Unsaved /\ call'[c].pc \in Stage \ {"idle"}
    BY <1>1, <1>5 DEF LookForPlan, control, At, Unsaved, Stage
  <1> QED
    BY <1>1, <1>4, <1>5, <1>6, <1>7, <1>8, <1>9, Learns

\* A plan made from assets the Company had covers its intake with those it has.
LEMMA PlannedCovers ==
    ASSUME IInv, NEW intake \in Intake, NEW seen, NEW n,
           seen.definitions \subseteq definitions, seen.installations \subseteq installations,
           ~PlanRefused(intake, seen, n)
    PROVE  Covers(Planned(intake, seen, n), intake, Provided, InstalledSkills)
  <1>1. \A d \in definitions : d.skill \in LocalSkill /\ d.provides \subseteq Capability
    BY DEF IInv, TypeOK
  <1>2. ASSUME NEW s \in {d.skill : d \in seen.definitions}
        PROVE  /\ (CHOOSE d \in seen.definitions : d.skill = s) \in definitions
               /\ (CHOOSE d \in seen.definitions : d.skill = s).skill = s
    <2>1. \E d \in seen.definitions : d.skill = s
      OBVIOUS
    <2> QED
      BY <2>1
  <1>3. DOMAIN Provides(seen) = CatalogSkill \cup {d.skill : d \in seen.definitions}
    BY DEF Provides
  <1>4. ASSUME NEW s \in DOMAIN Provides(seen)
        PROVE  /\ s \in Skill /\ Provides(seen)[s] \subseteq Capability
               /\ Provides(seen)[s] \subseteq Provided[s]
    <2>1. CASE s \in CatalogSkill
      <3>1. Provides(seen)[s] = CatalogProvides[s]
        BY <1>3, <2>1 DEF Provides
      <3>2. Provided[s] = CatalogProvides[s]
        BY <2>1 DEF Provided, Skill
      <3> QED
        BY <2>1, <3>1, <3>2, OperatingModelAssumption DEF OperatingModelAssumption, Skill
    <2>2. CASE s \notin CatalogSkill
      <3> DEFINE d == CHOOSE d \in seen.definitions : d.skill = s
      <3>1. s \in {e.skill : e \in seen.definitions}
        BY <1>3, <2>2
      <3>2. d \in definitions /\ d.skill = s
        BY <1>2, <3>1
      <3>3. Provides(seen)[s] = d.provides
        BY <1>3, <2>2 DEF Provides
      <3> HIDE DEF d
      <3>4. s \in LocalSkill
        BY <1>1, <3>2
      <3>5. Provided[s] = UNION {e.provides : e \in {x \in definitions : x.skill = s}}
        BY <2>2, <3>4 DEF Provided, Skill
      <3> QED
        BY <1>1, <3>2, <3>3, <3>4, <3>5 DEF Skill
    <2> QED
      BY <2>1, <2>2
  <1>5. Provides(seen) \in SkillTable
    <2>1. Provides(seen) = [s \in DOMAIN Provides(seen) |-> Provides(seen)[s]]
      BY DEF Provides
    <2> QED
      BY <1>4, <2>1 DEF SkillTable
  <1>6. ~ProcessesRefused(intake)
    BY DEF PlanRefused
  <1>7. Covers(Planned(intake, seen, n), intake, Provides(seen), Installed(seen))
    BY <1>5, <1>6, PlanCovers DEF Planned
  <1>8. Installed(seen) \subseteq InstalledSkills
    BY DEF Installed, InstalledSkills
  <1>9. \A s \in DOMAIN Provides(seen) : s \in DOMAIN Provided /\ Provides(seen)[s] \subseteq Provided[s]
    BY <1>4 DEF Provided
  <1> QED
    BY <1>7, <1>8, <1>9, CoversGrows

LEMMA KeepsBuildPlan ==
    ASSUME IInv, NEW c \in Caller, BuildPlan(c)
    PROVE  IInv'
  <1>1. /\ At(c, "plan") /\ InCall(c) /\ KindOf(c) = "formation"
        /\ call[c].seen.definitions \subseteq definitions
        /\ call[c].seen.installations \subseteq installations
    BY DEF BuildPlan, At, InCall, IInv, CallInv, StageInv
  <1>2. Shape(c)
    BY DEF IInv, CallInv
  <1>3. BodyOf(c).intake \in Intake
    <2>1. BodyOf(c).intake \in IntakeInput
      BY <1>1, InProgress DEF BodyOK, KindOf, BodyOf
    <2> QED
      BY <2>1, CompanyOperationsAssumption DEF CompanyOperationsAssumption
  <1> DEFINE plan(n) == Planned(BodyOf(c).intake, call[c].seen, n)
             refused(n) == \/ Unreadable("discovery")
                           \/ PlanRefused(BodyOf(c).intake, call[c].seen, n)
                           \/ ~AsReviewed(BodyOf(c), plan(n))
  <1>4. PICK n \in Latest(revisions) :
            call' = [call EXCEPT ![c] =
                IF refused(n) THEN [call[c] EXCEPT !.pc = "catch", !.seen = Nothing]
                ELSE [call[c] EXCEPT !.pc = "save-model", !.seen = Nothing, !.built = plan(n)]]
    BY DEF BuildPlan
  <1>5. ~refused(n) => /\ AsReviewed(BodyOf(c), plan(n))
                       /\ Covers(plan(n), BodyOf(c).intake, Provided, InstalledSkills)
    BY <1>1, <1>3, PlannedCovers
  <1> HIDE DEF plan, refused
  <1>6. /\ Others(c)
        /\ \/ call'[c] = [call[c] EXCEPT !.pc = "catch", !.seen = Nothing]
           \/ /\ ~refused(n)
              /\ call'[c] = [call[c] EXCEPT !.pc = "save-model", !.seen = Nothing, !.built = plan(n)]
    <2>1. call = [d \in Caller |-> call[d]]
      BY DEF IInv
    <2> QED
      BY <1>4, <2>1 DEF Others
  <1> DEFINE s == call'[c].pc
             built == call'[c].built
  <1>7. /\ s \in {"catch", "save-model"}
        /\ call'[c] = [pc |-> s, key |-> call[c].key, form |-> call[c].form, seen |-> Nothing,
                       built |-> built, persisted |-> call[c].persisted,
                       answer |-> call[c].answer]
        /\ s = "save-model" => ~refused(n) /\ built = plan(n)
    <2>1. CASE call'[c] = [call[c] EXCEPT !.pc = "catch", !.seen = Nothing]
      <3>1. call'[c] = [pc |-> "catch", key |-> call[c].key, form |-> call[c].form,
                        seen |-> Nothing, built |-> call[c].built,
                        persisted |-> call[c].persisted, answer |-> call[c].answer]
        BY <1>2, <2>1 DEF Shape
      <3> QED
        BY <3>1
    <2>2. CASE ~refused(n) /\ call'[c] = [call[c] EXCEPT !.pc = "save-model", !.seen = Nothing,
                                                         !.built = plan(n)]
      <3>1. call'[c] = [pc |-> "save-model", key |-> call[c].key, form |-> call[c].form,
                        seen |-> Nothing, built |-> plan(n),
                        persisted |-> call[c].persisted, answer |-> call[c].answer]
        BY <1>2, <2>2 DEF Shape
      <3> QED
        BY <2>2, <3>1
    <2> QED
      BY <1>6, <2>1, <2>2
  <1> HIDE DEF s, built
  <1>8. TypeOK'
    BY DEF BuildPlan, store, control, IInv, TypeOK
  <1>9. s = "save-model" => PlanOK(c)'
    <2>1. Provided' = Provided /\ InstalledSkills' = InstalledSkills
      BY DEF BuildPlan, store, Provided, InstalledSkills
    <2> QED
      BY <1>5, <1>7, <2>1 DEF PlanOK, BodyOf
  <1>10. StageInv(c)'
    BY <1>1, <1>7, <1>9 DEF StageInv, At, KindOf
  <1>11. Shape(c)'
    BY <1>7 DEF Shape
  <1> QED
    BY <1>1, <1>6, <1>7, <1>8, <1>10, <1>11, Learns DEF BuildPlan, control, At, Unsaved, Stage

LEMMA KeepsBuild ==
    ASSUME IInv, NEW c \in Caller, Build(c)
    PROVE  IInv'
  <1>1. At(c, "build") /\ InCall(c) /\ KindOf(c) = "discovery"
    BY DEF Build, At, InCall, IInv, CallInv, StageInv
  <1>2. Shape(c)
    BY DEF IInv, CallInv
  <1>3. /\ BodyOf(c).parent \in 0..Len(revisions) /\ BodyOf(c).knowledge \in Knowledge
        /\ IdOf(c) \in Id
    BY <1>1, InProgress DEF BodyOK, KindOf, BodyOf
  <1> DEFINE parent == KnowledgeOf(revisions, BodyOf(c).parent)
             safe == /\ WriteSafe(BodyOf(c).knowledge, parent) /\ WellFormed(BodyOf(c).knowledge)
                     /\ FingerprintHolds(BodyOf(c))
             revision == BuildRevision(revisions, BodyOf(c).parent, BodyOf(c).knowledge, IdOf(c))
  <1>4. \E found \in BOOLEAN :
          call' = [call EXCEPT ![c] =
             IF found /\ safe THEN [call[c] EXCEPT !.pc = "save-revision", !.built = revision]
             ELSE [call[c] EXCEPT !.pc = "catch"]]
    BY DEF Build
  <1>5. safe => WellFormed(BodyOf(c).knowledge) /\ BodyOf(c).knowledge.facts \subseteq parent.facts
    BY DEF WriteSafe, Inherited
  <1>6. /\ revision \in Revision(Id) /\ revision.parent = BodyOf(c).parent
        /\ revision.knowledge = BodyOf(c).knowledge /\ revision.origin = IdOf(c)
    <2>1. BodyOf(c).parent # 0 => revisions[BodyOf(c).parent].sequence \in Nat \ {0}
      <3> SUFFICES ASSUME BodyOf(c).parent # 0
                   PROVE  revisions[BodyOf(c).parent].sequence \in Nat \ {0}
        OBVIOUS
      <3>1. revisions \in Seq(Revision(Id \cup Mandate))
        BY DEF IInv, TypeOK
      <3>2. revisions[BodyOf(c).parent] \in Revision(Id \cup Mandate)
        BY <1>3, <3>1
      <3> QED
        BY <3>2 DEF Revision
    <2> QED
      BY <1>3, <2>1 DEF BuildRevision, Revision
  <1> HIDE DEF safe, revision, parent
  <1>7. Others(c) /\ (\/ call'[c] = [call[c] EXCEPT !.pc = "catch"]
                      \/ safe /\ call'[c] = [call[c] EXCEPT !.pc = "save-revision", !.built = revision])
    <2>1. call = [d \in Caller |-> call[d]]
      BY DEF IInv
    <2> QED
      BY <1>4, <2>1 DEF Others
  <1> DEFINE s == call'[c].pc
             built == call'[c].built
  <1>8. /\ s \in {"catch", "save-revision"}
        /\ call'[c] = [pc |-> s, key |-> call[c].key, form |-> call[c].form, seen |-> call[c].seen,
                       built |-> built, persisted |-> call[c].persisted,
                       answer |-> call[c].answer]
        /\ s = "save-revision" => safe /\ built = revision
    <2>1. CASE call'[c] = [call[c] EXCEPT !.pc = "catch"]
      <3>1. call'[c] = [pc |-> "catch", key |-> call[c].key, form |-> call[c].form,
                        seen |-> call[c].seen, built |-> call[c].built,
                        persisted |-> call[c].persisted, answer |-> call[c].answer]
        BY <1>2, <2>1 DEF Shape
      <3> QED
        BY <3>1
    <2>2. CASE safe /\ call'[c] = [call[c] EXCEPT !.pc = "save-revision", !.built = revision]
      <3>1. call'[c] = [pc |-> "save-revision", key |-> call[c].key, form |-> call[c].form,
                        seen |-> call[c].seen, built |-> revision,
                        persisted |-> call[c].persisted, answer |-> call[c].answer]
        BY <1>2, <2>2 DEF Shape
      <3> QED
        BY <2>2, <3>1
    <2> QED
      BY <1>7, <2>1, <2>2
  <1> HIDE DEF s, built
  <1>9. TypeOK'
    BY DEF Build, store, control, IInv, TypeOK
  <1>10. s = "save-revision" => BuiltOK(c)'
    <2>1. revisions' = revisions
      BY DEF Build, store
    <2>2. IdOf(c)' = IdOf(c) /\ BodyOf(c)' = BodyOf(c) /\ call'[c].built = built
      BY <1>8 DEF IdOf, BodyOf
    <2> QED
      BY <1>5, <1>6, <1>8, <2>1, <2>2 DEF BuiltOK, parent
  <1>11. StageInv(c)'
    BY <1>1, <1>8, <1>10 DEF StageInv, At, KindOf
  <1>12. Shape(c)'
    BY <1>8 DEF Shape
  <1> QED
    BY <1>1, <1>7, <1>8, <1>9, <1>11, <1>12, Learns DEF Build, control, At, Unsaved, Stage

\* A revision that is appended leaves the others, and is the asset of its origin.
LEMMA Appended ==
    ASSUME IInv, NEW r \in Revision(Id \cup Mandate), revisions' = Append(revisions, r),
           models' = models, r.parent \in 0..Len(revisions), WellFormed(r.knowledge),
           \A f \in r.knowledge.facts :
               f.intact /\ (r.origin = f.mandate \/ f \in KnowledgeOf(revisions, r.parent).facts)
    PROVE  /\ revisions' \in Seq(Revision(Id \cup Mandate)) /\ Len(revisions) <= Len(revisions')
           /\ \A n \in DOMAIN revisions : n \in DOMAIN revisions' /\ revisions'[n] = revisions[n]
           /\ revisions'[Len(revisions')] = r /\ Len(revisions') \in DOMAIN revisions'
           /\ Len(revisions') = Len(revisions) + 1
           /\ RevisionInv'
           /\ \A key \in Key :
                SavedOf'[key] = IF key = <<"discovery", r.origin>>
                                THEN SavedOf[key] \cup {Len(revisions')} ELSE SavedOf[key]
  <1> DEFINE N == Len(revisions)
  <1>1. revisions \in Seq(Revision(Id \cup Mandate)) /\ N \in Nat /\ DOMAIN revisions = 1..N
    BY DEF IInv, TypeOK
  <1>2. /\ revisions' \in Seq(Revision(Id \cup Mandate)) /\ Len(revisions') = N + 1
        /\ DOMAIN revisions' = 1..(N + 1) /\ revisions'[N + 1] = r
        /\ \A n \in 1..N : revisions'[n] = revisions[n]
    BY <1>1
  <1>3. \A n \in 0..N : KnowledgeOf(revisions', n) = KnowledgeOf(revisions, n)
    BY <1>1, <1>2 DEF KnowledgeOf
  <1> HIDE DEF N
  <1>4. ASSUME NEW n \in DOMAIN revisions'
        PROVE  /\ revisions'[n].parent \in 0 .. n - 1
               /\ WellFormed(revisions'[n].knowledge)
               /\ \A f \in revisions'[n].knowledge.facts :
                    /\ f.intact
                    /\ \/ revisions'[n].origin = f.mandate
                       \/ f \in KnowledgeOf(revisions', revisions'[n].parent).facts
    <2>1. CASE n = N + 1
      <3>1. r.parent \in 0..N
        BY DEF N
      <3>2. revisions'[n] = r /\ r.parent \in 0 .. n - 1
        BY <1>1, <1>2, <2>1, <3>1
      <3> QED
        BY <1>3, <3>1, <3>2
    <2>2. CASE n # N + 1
      <3>1. n \in 1..N /\ n \in DOMAIN revisions /\ revisions'[n] = revisions[n]
        BY <1>1, <1>2, <2>2
      <3>2. /\ revisions[n].parent \in 0 .. n - 1
            /\ WellFormed(revisions[n].knowledge)
            /\ \A f \in revisions[n].knowledge.facts :
                 /\ f.intact
                 /\ \/ revisions[n].origin = f.mandate
                    \/ f \in KnowledgeOf(revisions, revisions[n].parent).facts
        BY <3>1 DEF IInv, RevisionInv
      <3>3. revisions[n].parent \in 0..N
        BY <1>1, <3>1, <3>2
      <3> QED
        BY <1>3, <3>1, <3>2, <3>3
    <2> QED
      BY <2>1, <2>2
  <1>5. RevisionInv'
    BY <1>4 DEF RevisionInv
  <1>6. ASSUME NEW key \in Key
        PROVE  SavedOf'[key] = IF key = <<"discovery", r.origin>>
                               THEN SavedOf[key] \cup {N + 1} ELSE SavedOf[key]
    <2>1. key = <<key[1], key[2]>>
      BY DEF Key
    <2>2. CASE key[1] = "discovery"
      <3>1. SavedOf[key] = {n \in 1..N : revisions[n].origin = key[2]}
        BY <1>1, <2>2 DEF SavedOf, Saved
      <3>2. SavedOf'[key] = {n \in 1..(N + 1) : revisions'[n].origin = key[2]}
        BY <1>2, <2>2 DEF SavedOf, Saved
      <3>3. 1..(N + 1) = (1..N) \cup {N + 1}
        BY <1>1
      <3>4. SavedOf'[key] = {n \in 1..N : revisions[n].origin = key[2]}
                             \cup {n \in {N + 1} : r.origin = key[2]}
        BY <1>2, <3>2, <3>3
      <3> QED
        BY <2>1, <2>2, <3>1, <3>4
    <2>3. CASE key[1] # "discovery"
      BY <2>1, <2>3 DEF SavedOf, Saved
    <2> QED
      BY <2>2, <2>3
  <1>7. N <= N + 1 /\ N + 1 \in 1..(N + 1)
    BY <1>1
  <1>8. Len(revisions') = Len(revisions) + 1 /\ Len(revisions) <= Len(revisions')
    BY <1>2, <1>7 DEF N
  <1>9. \A n \in DOMAIN revisions : n \in DOMAIN revisions' /\ revisions'[n] = revisions[n]
    BY <1>1, <1>2
  <1>10. revisions'[Len(revisions')] = r /\ Len(revisions') \in DOMAIN revisions'
    BY <1>2, <1>7
  <1>11. \A key \in Key :
           SavedOf'[key] = IF key = <<"discovery", r.origin>>
                           THEN SavedOf[key] \cup {Len(revisions')} ELSE SavedOf[key]
    BY <1>2, <1>6
  <1> QED
    BY <1>2, <1>5, <1>8, <1>9, <1>10, <1>11

\* The save of an asset leads to the event, or loses its reply.
LEMMA AwaitSaved ==
    ASSUME IInv, NEW c \in Caller, InCall(c),
           \/ /\ call' = [call EXCEPT ![c] = [[call[c] EXCEPT !.pc = "event"] EXCEPT !.persisted = TRUE]]
              /\ UNCHANGED <<faults, lost>>
           \/ /\ faults < MaxFaults /\ faults' = faults + 1
              /\ call' = [call EXCEPT ![c].pc = "catch"] /\ lost' = lost \cup {call[c].key}
    PROVE  /\ Others(c) /\ lost \subseteq lost' /\ lost' \subseteq Key /\ faults' \in 0..MaxFaults
           /\ \E s \in {"event", "catch"} : \E p :
               /\ call'[c] = [pc |-> s, key |-> call[c].key, form |-> call[c].form,
                              seen |-> call[c].seen, built |-> call[c].built, persisted |-> p,
                              answer |-> call[c].answer]
               /\ \/ s = "event" /\ p = TRUE
                  \/ s = "catch" /\ p = call[c].persisted /\ call[c].key \in lost'
  <1>1. lost \subseteq Key /\ faults \in 0..MaxFaults /\ MaxFaults \in Nat
    BY CompanyOperationsAssumption DEF IInv, TypeOK, CompanyOperationsAssumption
  <1>2. call = [d \in Caller |-> call[d]] /\ Shape(c) /\ call[c].key \in Key
    BY InProgress DEF IInv, CallInv
  <1>3. \/ /\ call'[c] = [[call[c] EXCEPT !.pc = "event"] EXCEPT !.persisted = TRUE]
           /\ UNCHANGED <<faults, lost>>
        \/ /\ faults < MaxFaults /\ faults' = faults + 1
           /\ call'[c] = [call[c] EXCEPT !.pc = "catch"] /\ lost' = lost \cup {call[c].key}
    BY <1>2
  <1>4. Others(c)
    BY <1>2 DEF Others
  <1>5. CASE call'[c] = [[call[c] EXCEPT !.pc = "event"] EXCEPT !.persisted = TRUE]
             /\ UNCHANGED <<faults, lost>>
    <2>1. call'[c] = [pc |-> "event", key |-> call[c].key, form |-> call[c].form,
                      seen |-> call[c].seen, built |-> call[c].built, persisted |-> TRUE,
                      answer |-> call[c].answer]
      BY <1>2, <1>5 DEF Shape
    <2> QED
      BY <1>1, <1>4, <1>5, <2>1
  <1>6. CASE /\ faults < MaxFaults /\ faults' = faults + 1
             /\ call'[c] = [call[c] EXCEPT !.pc = "catch"] /\ lost' = lost \cup {call[c].key}
    <2>1. call'[c] = [pc |-> "catch", key |-> call[c].key, form |-> call[c].form,
                      seen |-> call[c].seen, built |-> call[c].built,
                      persisted |-> call[c].persisted, answer |-> call[c].answer]
      BY <1>2, <1>6 DEF Shape
    <2>2. lost \subseteq lost' /\ lost' \subseteq Key /\ faults' \in 0..MaxFaults
          /\ call[c].key \in lost'
      BY <1>1, <1>2, <1>6
    <2> QED
      BY <1>4, <2>1, <2>2
  <1> QED
    BY <1>3, <1>5, <1>6

LEMMA KeepsSaveRevision ==
    ASSUME IInv, NEW c \in Caller, SaveRevision(c)
    PROVE  IInv'
  <1>1. At(c, "save-revision") /\ InCall(c) /\ KindOf(c) = "discovery" /\ BuiltOK(c)
    BY DEF SaveRevision, At, InCall, IInv, CallInv, StageInv
  <1>2. PICK own \in Key : /\ own = call[c].key /\ own = <<"discovery", IdOf(c)>> /\ IdOf(c) \in Id
                           /\ call[c].form = intent[own] /\ intent[own].kind = "discovery"
                           /\ journal[own].state = "intent"
                           /\ journal[own].owner = Server /\ journal[own].token = 1
                           /\ BodyOf(c) = intent[own].body
                           /\ BodyOf(c).parent \in 0..Len(revisions)
    <2>1. journal[call[c].key].state = "intent"
      BY <1>1 DEF IInv, CallInv, OwnInv, At
    <2> QED
      BY <1>1, <2>1, InProgress DEF BodyOf, KindOf
  <1> DEFINE r == call[c].built
  <1>3. /\ r \in Revision(Id \cup Mandate) /\ r.origin = IdOf(c)
        /\ r.parent = BodyOf(c).parent /\ r.knowledge = BodyOf(c).knowledge
        /\ WellFormed(r.knowledge) /\ r.knowledge.facts \subseteq KnowledgeOf(revisions, r.parent).facts
    BY <1>1 DEF BuiltOK, Revision
  <1>4. \A f \in KnowledgeOf(revisions, r.parent).facts : f.intact
    <2>1. CASE r.parent = 0
      BY <2>1 DEF KnowledgeOf, NoKnowledge
    <2>2. CASE r.parent # 0
      <3>1. r.parent \in DOMAIN revisions
        BY <1>2, <1>3, <2>2 DEF IInv, TypeOK
      <3> QED
        BY <2>2, <3>1 DEF KnowledgeOf, IInv, RevisionInv
    <2> QED
      BY <2>1, <2>2
  <1>5. revisions' = Append(revisions, r) /\ journal' = journal /\ intent' = intent
        /\ models' = models
    BY DEF SaveRevision
  <1> HIDE DEF r
  <1>6. /\ revisions' \in Seq(Revision(Id \cup Mandate)) /\ Len(revisions) <= Len(revisions')
        /\ \A n \in DOMAIN revisions : n \in DOMAIN revisions' /\ revisions'[n] = revisions[n]
        /\ revisions'[Len(revisions')] = r /\ Len(revisions') \in DOMAIN revisions'
        /\ Len(revisions') = Len(revisions) + 1
        /\ RevisionInv'
        /\ \A key \in Key :
             SavedOf'[key] = IF key = <<"discovery", r.origin>>
                             THEN SavedOf[key] \cup {Len(revisions')} ELSE SavedOf[key]
    BY <1>2, <1>3, <1>4, <1>5, Appended
  <1>7. PersistedInv(c) /\ OwnInv(c) /\ AnswerInv(c) /\ Shape(c)
    BY <1>1 DEF IInv, CallInv
  <1>8. SavedOf[own] = {} /\ SavedOf'[own] = {Len(revisions')}
    BY <1>1, <1>2, <1>3, <1>6, <1>7 DEF PersistedInv, Keeping, Unsaved, At
  <1>9. /\ Others(c) /\ lost \subseteq lost' /\ lost' \subseteq Key /\ faults' \in 0..MaxFaults
        /\ \E s \in {"event", "catch"} : \E p :
            /\ call'[c] = [pc |-> s, key |-> own, form |-> call[c].form, seen |-> call[c].seen,
                           built |-> call[c].built, persisted |-> p, answer |-> call[c].answer]
            /\ \/ s = "event" /\ p = TRUE
               \/ s = "catch" /\ p = call[c].persisted /\ own \in lost'
    BY <1>1, <1>2, AwaitSaved DEF SaveRevision, Await, Goto
  <1>10. Grows
    BY <1>5, <1>6, <1>9 DEF Grows, StoreGrows, SaveRevision
  <1>11. TypeOK'
    <2>1. resolving \in [Mandate -> 0..Len(revisions')]
      BY <1>6 DEF IInv, TypeOK
    <2> QED
      BY <1>6, <1>9, <2>1 DEF SaveRevision, IInv, TypeOK
  <1>12. own \in Settled'
    <2>1. own[1] = "discovery" /\ own[2] = IdOf(c) /\ intent'[own] = intent[own]
      BY <1>2, <1>5
    <2>2. \E n \in DOMAIN revisions' :
              /\ revisions'[n].origin = own[2]
              /\ revisions'[n].parent = intent'[own].body.parent
              /\ revisions'[n].knowledge = intent'[own].body.knowledge
      BY <1>2, <1>3, <1>6, <2>1
    <2>3. WasStored(intent[own], own[2])'
      BY <1>2, <2>1, <2>2 DEF WasStored
    <2> QED
      BY <1>2, <1>5, <2>3 DEF Settled
  <1>13. PICK s, p :
            /\ s \in {"event", "catch"}
            /\ call'[c] = [pc |-> s, key |-> own, form |-> call[c].form, seen |-> call[c].seen,
                           built |-> call[c].built, persisted |-> p, answer |-> call[c].answer]
            /\ \/ s = "event" /\ p = TRUE
               \/ s = "catch" /\ p = call[c].persisted /\ own \in lost'
    BY <1>9
  <1>14. CallInv(c)'
    <2>1. Shape(c)'
      BY <1>13 DEF Shape
    <2>2. call'[c].key = own /\ call'[c].form = call[c].form /\ call'[c].pc = s
          /\ call'[c].persisted = p /\ call'[c].answer = call[c].answer
      BY <1>13
    <2>3. OwnInv(c)' /\ AnswerInv(c)'
      BY <1>2, <1>5, <1>7, <2>2 DEF OwnInv, AnswerInv
    <2>4. StageInv(c)'
      <3>1. OwnInstallation(own)'
        BY <1>2 DEF OwnInstallation
      <3> QED
        BY <1>12, <1>13, <2>2, <3>1 DEF StageInv, At
    <2>5. PersistedInv(c)'
      <3>1. SavedOf'[own] # {}
        BY <1>8
      <3>2. call'[c].persisted \/ own \in lost'
        BY <1>13, <2>2, Zenon
      <3> QED
        BY <1>13, <2>2, <3>1, <3>2, Zenon DEF PersistedInv, Unsaved
    <2> QED
      BY <1>13, <2>1, <2>2, <2>3, <2>4, <2>5 DEF CallInv, Stage
  <1>15. ModelsCover'
    BY <1>5, <1>10, ModelsStay
  <1>16. \A key \in Key : key # own => Apart(key)
    BY <1>2, <1>3, <1>5, <1>6 DEF Apart
  <1>17. SavedAt(own)' /\ AppliedAt(own)'
    BY <1>2, <1>5, <1>8 DEF SavedAt, AppliedAt
  <1>18. /\ journal'[own].owner = Server /\ journal'[own].token = 1 /\ intent' = intent
         /\ RevisionInv' /\ Others(c) /\ call'[c].key = call[c].key /\ own = call[c].key
    BY <1>2, <1>5, <1>6, <1>9, <1>13
  <1> QED
    BY <1>1, <1>10, <1>11, <1>14, <1>15, <1>16, <1>17, <1>18, Assemble

LEMMA KeepsSaveModel ==
    ASSUME IInv, NEW c \in Caller, SaveModel(c)
    PROVE  IInv'
  <1>1. At(c, "save-model") /\ InCall(c) /\ KindOf(c) = "formation" /\ PlanOK(c)
    BY DEF SaveModel, At, InCall, IInv, CallInv, StageInv
  <1>2. PICK own \in Key : /\ own = call[c].key /\ own = <<"formation", IdOf(c)>> /\ IdOf(c) \in Id
                           /\ call[c].form = intent[own] /\ intent[own].kind = "formation"
                           /\ journal[own].state = "intent"
                           /\ journal[own].owner = Server /\ journal[own].token = 1
                           /\ BodyOf(c) = intent[own].body
    <2>1. journal[call[c].key].state = "intent"
      BY <1>1 DEF IInv, CallInv, OwnInv, At
    <2> QED
      BY <1>1, <2>1, InProgress DEF BodyOf, KindOf
  <1> DEFINE r == [by |-> IdOf(c), intake |-> BodyOf(c).intake, plan |-> call[c].built]
  <1>3. /\ r.by = IdOf(c) /\ r.intake = BodyOf(c).intake /\ r.plan = call[c].built
        /\ BodyOf(c).expected \in {Nothing, r.plan}
        /\ Covers(r.plan, r.intake, Provided, InstalledSkills)
    BY <1>1 DEF PlanOK, AsReviewed
  <1>4. models' = models \cup {r} /\ journal' = journal /\ intent' = intent /\ revisions' = revisions
        /\ definitions' = definitions /\ installations' = installations
    BY DEF SaveModel
  <1> HIDE DEF r
  <1>5. PersistedInv(c) /\ OwnInv(c) /\ AnswerInv(c)
    BY <1>1 DEF IInv, CallInv
  <1>6. \A key \in Key : SavedOf'[key] = IF key = own THEN SavedOf[key] \cup {r} ELSE SavedOf[key]
    <2> SUFFICES ASSUME NEW key \in Key
                 PROVE  SavedOf'[key] = IF key = own THEN SavedOf[key] \cup {r} ELSE SavedOf[key]
      OBVIOUS
    <2>1. key = <<key[1], key[2]>>
      BY DEF Key
    <2>2. CASE key[1] = "formation"
      <3>1. SavedOf[key] = {m \in models : m.by = key[2]}
        BY <2>2 DEF SavedOf, Saved
      <3>2. SavedOf'[key] = {m \in models' : m.by = key[2]}
        BY <2>2 DEF SavedOf, Saved
      <3> QED
        BY <1>2, <1>3, <1>4, <2>1, <2>2, <3>1, <3>2
    <2>3. CASE key[1] # "formation"
      BY <1>2, <1>4, <2>1, <2>3 DEF SavedOf, Saved
    <2> QED
      BY <2>2, <2>3
  <1>7. SavedOf[own] = {} /\ SavedOf'[own] = {r}
    BY <1>1, <1>2, <1>5, <1>6 DEF PersistedInv, Keeping, Unsaved, At
  <1>8. /\ Others(c) /\ lost \subseteq lost' /\ lost' \subseteq Key /\ faults' \in 0..MaxFaults
        /\ \E s \in {"event", "catch"} : \E p :
            /\ call'[c] = [pc |-> s, key |-> own, form |-> call[c].form, seen |-> call[c].seen,
                           built |-> call[c].built, persisted |-> p, answer |-> call[c].answer]
            /\ \/ s = "event" /\ p = TRUE
               \/ s = "catch" /\ p = call[c].persisted /\ own \in lost'
    BY <1>1, <1>2, AwaitSaved DEF SaveModel, Await, Goto
  <1>9. Grows
    <2>1. \A m \in models' : m \in models \/ m.by \in Id
      BY <1>2, <1>3, <1>4
    <2> QED
      BY <1>4, <1>8, <2>1 DEF Grows, StoreGrows, SaveModel, IInv, TypeOK
  <1>10. TypeOK'
    BY <1>8 DEF SaveModel, IInv, TypeOK
  <1>11. own \in Settled'
    <2>1. own[1] = "formation" /\ own[2] = IdOf(c) /\ intent'[own] = intent[own]
      BY <1>2, <1>4
    <2>2. \E m \in models' :
              /\ m.by = own[2]
              /\ m.intake = intent'[own].body.intake
              /\ intent'[own].body.expected \in {Nothing, m.plan}
      BY <1>2, <1>3, <1>4, <2>1
    <2>3. WasStored(intent[own], own[2])'
      BY <1>2, <2>1, <2>2 DEF WasStored
    <2> QED
      BY <1>2, <1>4, <2>3 DEF Settled
  <1>12. PICK s, p :
            /\ s \in {"event", "catch"}
            /\ call'[c] = [pc |-> s, key |-> own, form |-> call[c].form, seen |-> call[c].seen,
                           built |-> call[c].built, persisted |-> p, answer |-> call[c].answer]
            /\ \/ s = "event" /\ p = TRUE
               \/ s = "catch" /\ p = call[c].persisted /\ own \in lost'
    BY <1>8
  <1>13. CallInv(c)'
    <2>1. Shape(c)'
      BY <1>12 DEF Shape
    <2>2. call'[c].key = own /\ call'[c].form = call[c].form /\ call'[c].pc = s
          /\ call'[c].persisted = p /\ call'[c].answer = call[c].answer
      BY <1>12
    <2>3. OwnInv(c)' /\ AnswerInv(c)'
      BY <1>2, <1>4, <1>5, <2>2 DEF OwnInv, AnswerInv
    <2>4. StageInv(c)'
      <3>1. OwnInstallation(own)'
        BY <1>2 DEF OwnInstallation
      <3> QED
        BY <1>11, <1>12, <2>2, <3>1 DEF StageInv, At
    <2>5. PersistedInv(c)'
      <3>1. SavedOf'[own] # {}
        BY <1>7
      <3>2. call'[c].persisted \/ own \in lost'
        BY <1>12, <2>2, Zenon
      <3> QED
        BY <1>12, <2>2, <3>1, <3>2, Zenon DEF PersistedInv, Unsaved
    <2> QED
      BY <1>12, <2>1, <2>2, <2>3, <2>4, <2>5 DEF CallInv, Stage
  <1>14. ModelsCover'
    <2>1. \A m \in models : Covers(m.plan, m.intake, Provided, InstalledSkills)
      BY DEF IInv, ModelsCover, InstalledSkills
    <2>2. Provided' = Provided /\ InstalledSkills' = InstalledSkills
      BY <1>4 DEF Provided, InstalledSkills
    <2>3. \A m \in models' : Covers(m.plan, m.intake, Provided', InstalledSkills')
      BY <1>3, <1>4, <2>1, <2>2
    <2> QED
      BY <2>3 DEF ModelsCover, InstalledSkills
  <1>15. RevisionInv'
    BY <1>4 DEF IInv, RevisionInv, KnowledgeOf
  <1>16. \A key \in Key : key # own => Apart(key)
    BY <1>4, <1>6 DEF Apart
  <1>17. SavedAt(own)' /\ AppliedAt(own)'
    BY <1>2, <1>4, <1>7 DEF SavedAt, AppliedAt
  <1>18. /\ journal'[own].owner = Server /\ journal'[own].token = 1 /\ intent' = intent
         /\ Others(c) /\ call'[c].key = call[c].key /\ own = call[c].key
    BY <1>2, <1>4, <1>8, <1>12
  <1> QED
    BY <1>1, <1>9, <1>10, <1>13, <1>14, <1>15, <1>16, <1>17, <1>18, Assemble

\* A mark meets the row that was claimed.
LEMMA Marks ==
    ASSUME IInv, NEW c \in Caller, InCall(c), NEW state \in {"applied", "failed", "unknown"},
           Mark(c, state), intent' = intent, UNCHANGED store, lost \subseteq lost',
           NEW own \in Key, own = call[c].key
    PROVE  /\ journal' \in [Key -> JournalRow] /\ Grows /\ Settled' = Settled /\ SavedOf' = SavedOf
           /\ journal'[own].state = state /\ journal'[own].owner = Server /\ journal'[own].token = 1
           /\ \A key \in Key : key # own => Apart(key)
           /\ RevisionInv' /\ ModelsCover'
  <1>1. journal \in [Key -> JournalRow]
    BY DEF IInv, TypeOK
  <1>2. journal[own].state # "none" /\ journal[own].owner = Server /\ journal[own].token = 1
    BY InProgress
  <1>3. journal' = [journal EXCEPT ![own] = [journal[own] EXCEPT !.state = state]]
    BY <1>2 DEF Mark, MarkedRow, Owns
  <1>4. [journal[own] EXCEPT !.state = state] \in JournalRow
        /\ [journal[own] EXCEPT !.state = state].state = state
        /\ [journal[own] EXCEPT !.state = state].owner = Server
        /\ [journal[own] EXCEPT !.state = state].token = 1
    BY <1>1, <1>2 DEF JournalRow, IdempotencyState
  <1>5. /\ journal' \in [Key -> JournalRow]
        /\ journal'[own].state = state /\ journal'[own].owner = Server /\ journal'[own].token = 1
        /\ \A key \in Key : key # own => journal'[key] = journal[key]
    BY <1>1, <1>3, <1>4
  <1>6. StoreGrows
    BY DEF store, StoreGrows, IInv, TypeOK
  <1>7. Grows
    BY <1>5, <1>6 DEF Grows
  <1>8. SavedOf' = SavedOf
    BY DEF store, SavedOf, Saved
  <1>9. \A key \in Key : WasStored(intent[key], key[2])' <=> WasStored(intent[key], key[2])
    BY DEF WasStored, store
  <1>10. Settled' = Settled
    BY <1>2, <1>5, <1>9 DEF Settled
  <1>11. RevisionInv'
    BY DEF store, IInv, RevisionInv, KnowledgeOf
  <1>12. ModelsCover'
    BY <1>7, ModelsStay DEF store
  <1> QED
    BY <1>5, <1>7, <1>8, <1>10, <1>11, <1>12 DEF Apart

LEMMA KeepsMarkApplied ==
    ASSUME IInv, NEW c \in Caller, MarkApplied(c)
    PROVE  IInv'
  <1>1. /\ At(c, "mark") /\ InCall(c) /\ call[c].key \in Settled
        /\ call[c].key \in events \/ KindOf(c) = "install"
    BY DEF MarkApplied, At, InCall, IInv, CallInv, StageInv
  <1>2. PICK own \in Key : /\ own = call[c].key /\ own = <<KindOf(c), IdOf(c)>>
                           /\ call[c].form = intent[own] /\ journal[own].state # "none"
    BY <1>1, InProgress
  <1>3. PersistedInv(c) /\ OwnInv(c) /\ Shape(c) /\ SavedAt(own)
    BY <1>1 DEF IInv, CallInv, SavedInv
  <1>4. lost \subseteq lost' /\ lost' \subseteq Key /\ faults' \in 0..MaxFaults /\ Others(c)
        /\ \/ call'[c] = [call[c] EXCEPT !.pc = "catch"]
           \/ call'[c] = Answer(c, "applied")
    <2>1. lost \subseteq Key /\ faults \in 0..MaxFaults /\ MaxFaults \in Nat
      BY CompanyOperationsAssumption DEF IInv, TypeOK, CompanyOperationsAssumption
    <2>2. call = [d \in Caller |-> call[d]]
      BY DEF IInv
    <2> QED
      BY <1>2, <2>1, <2>2 DEF MarkApplied, Await, Others
  <1>5. /\ journal' \in [Key -> JournalRow] /\ Grows /\ Settled' = Settled /\ SavedOf' = SavedOf
        /\ journal'[own].state = "applied" /\ journal'[own].owner = Server
        /\ journal'[own].token = 1 /\ \A key \in Key : key # own => Apart(key)
        /\ RevisionInv' /\ ModelsCover'
    BY <1>1, <1>2, <1>4, Marks DEF MarkApplied
  <1>6. intent' = intent /\ events' = events
    BY DEF MarkApplied, store
  <1>7. TypeOK'
    BY <1>4, <1>5 DEF MarkApplied, store, IInv, TypeOK
  <1>8. AppliedAt(own)'
    BY <1>1, <1>2, <1>5, <1>6 DEF AppliedAt
  <1>9. SavedAt(own)'
    BY <1>3, <1>5 DEF SavedAt
  <1>10. CASE call'[c] = Answer(c, "applied")
    <2>1. call'[c] = [pc |-> "idle", key |-> own, form |-> call[c].form, seen |-> Nothing,
                      built |-> Nothing, persisted |-> FALSE, answer |-> "applied"]
      BY <1>2, <1>10 DEF Answer, Idle
    <2>2. CallInv(c)' /\ ~InCall(c)'
      BY <1>1, <1>2, <1>5, <1>6, <2>1 DEF CallInv, Shape, Stage, InCall, AnswerInv
    <2> QED
      BY <1>1, <1>2, <1>4, <1>5, <1>6, <1>7, <1>8, <1>9, <2>2, Assemble
  <1>11. CASE call'[c] = [call[c] EXCEPT !.pc = "catch"]
    <2>1. call'[c] = [pc |-> "catch", key |-> own, form |-> call[c].form, seen |-> call[c].seen,
                      built |-> call[c].built, persisted |-> call[c].persisted,
                      answer |-> call[c].answer]
      BY <1>2, <1>3, <1>11 DEF Shape
    <2>2. Shape(c)'
      BY <2>1 DEF Shape
    <2>3. call'[c].pc = "catch" /\ call'[c].key = own /\ call'[c].form = call[c].form
          /\ call'[c].persisted = call[c].persisted /\ call'[c].answer = call[c].answer
      BY <2>1
    <2>4. OwnInv(c)' /\ AnswerInv(c)'
      BY <1>2, <1>3, <1>5, <1>6, <2>3 DEF OwnInv, AnswerInv, At
    <2>5. StageInv(c)'
      BY <2>1 DEF StageInv, At
    <2>6. PersistedInv(c)'
      BY <1>2, <1>3, <1>4, <1>5, <2>3, Zenon DEF PersistedInv, KindOf, Unsaved
    <2>7. CallInv(c)'
      BY <2>2, <2>3, <2>4, <2>5, <2>6 DEF CallInv, Stage
    <2>8. call'[c].key = call[c].key
      BY <1>2, <2>1
    <2> QED
      BY <1>1, <1>2, <1>4, <1>5, <1>6, <1>7, <1>8, <1>9, <2>7, <2>8, Assemble
  <1> QED
    BY <1>4, <1>10, <1>11

LEMMA KeepsCatch ==
    ASSUME IInv, NEW c \in Caller, Catch(c)
    PROVE  IInv'
  <1>1. At(c, "catch") /\ InCall(c)
    BY DEF Catch, At, InCall
  <1>2. PICK own \in Key : own = call[c].key /\ own = <<KindOf(c), IdOf(c)>>
    BY <1>1, InProgress
  <1>3. PersistedInv(c) /\ SavedAt(own)
    BY <1>1 DEF IInv, CallInv, SavedInv
  <1>4. PICK state \in {"failed", "unknown"} : state = Caught(c)
    BY DEF Caught
  <1>5. Mark(c, state) /\ intent' = intent /\ UNCHANGED store /\ lost' = lost
        /\ call' = [call EXCEPT ![c] = Idle]
    BY <1>4 DEF Catch, Mark, control
  <1>20. lost \subseteq lost' /\ own = call[c].key /\ state \in {"applied", "failed", "unknown"}
    BY <1>2, <1>4, <1>5
  <1>6. call'[c] = Idle /\ Others(c)
    BY <1>5 DEF IInv, Others
  <1>7. /\ journal' \in [Key -> JournalRow] /\ Grows /\ Settled' = Settled /\ SavedOf' = SavedOf
        /\ journal'[own].state = state /\ journal'[own].owner = Server
        /\ journal'[own].token = 1 /\ \A key \in Key : key # own => Apart(key)
        /\ RevisionInv' /\ ModelsCover'
    BY <1>1, <1>5, <1>20, Marks
  <1>8. TypeOK'
    <2>1. UNCHANGED <<works, revisions, definitions, installations, overwritten, genes, events, jobs, lost,
                      resolving, calls, faults>>
      BY DEF Catch, store, control
    <2> QED
      BY <1>7, <2>1 DEF IInv, TypeOK
  <1>9. AppliedAt(own)'
    BY <1>7 DEF AppliedAt
  <1>10. SavedAt(own)'
    <2>1. own[1] = KindOf(c)
      BY <1>2
    <2>2. own[1] \in Keeping => /\ state = "unknown" => SavedOf[own] # {}
                                /\ state = "failed" => SavedOf[own] = {} \/ own \in lost
      BY <1>2, <1>3, <1>4, <2>1 DEF PersistedInv, Caught
    <2> QED
      BY <1>3, <1>5, <1>7, <2>2 DEF SavedAt
  <1>11. CallInv(c)' /\ ~InCall(c)'
    BY <1>6 DEF CallInv, Shape, Idle, AnswerInv, InCall, Stage
  <1> QED
    BY <1>1, <1>2, <1>5, <1>6, <1>7, <1>8, <1>9, <1>10, <1>11, Assemble

-----------------------------------------------------------------------------
(* Claims, mandates and genes. *)

\* A call that inserted the row of its key, and one that was answered from the row.
InserterOf(kind, own, form) == [Idle EXCEPT !.pc = First(kind), !.key = own, !.form = form]
ReplayedTo(own, form) == [Idle EXCEPT !.key = own, !.form = form, !.answer = Replay(own, form)]

\* A claim inserts the row of a key, or leaves everything and answers from it.
LEMMA ClaimFrame ==
    ASSUME IInv, NEW c \in Caller, NEW id \in Id, NEW kind \in Kind, NEW form, Claim(c, id, form),
           form.kind = kind, NEW own \in Key, own = <<kind, id>>
    PROVE  /\ Others(c) /\ UNCHANGED <<store, lost>> /\ TypeOK' /\ SavedOf' = SavedOf
           /\ \/ /\ journal[own].state = "none"
                 /\ journal' = [journal EXCEPT ![own] = [state |-> "intent", owner |-> Server, token |-> 1]]
                 /\ intent' = [intent EXCEPT ![own] = form]
                 /\ call'[c] = InserterOf(kind, own, form)
              \/ /\ journal[own].state # "none" /\ journal' = journal /\ intent' = intent
                 /\ call'[c] = ReplayedTo(own, form)
  <1>1. form.kind = kind
    OBVIOUS
  <1>2. /\ calls < MaxCalls /\ calls' = calls + 1
        /\ journal' = [journal EXCEPT ![own] = ClaimedRow(journal[own], Server)]
        /\ intent' = [intent EXCEPT ![own] = IF journal[own].state = "none" THEN form ELSE intent[own]]
        /\ call' = [call EXCEPT ![c] =
              IF journal[own].state = "none"
              THEN InserterOf(kind, own, form)
              ELSE ReplayedTo(own, form)]
        /\ UNCHANGED <<store, resolving, faults, lost>>
    BY <1>1 DEF Claim, InserterOf, ReplayedTo
  <1>3. Others(c) /\ call'[c] = IF journal[own].state = "none"
                     THEN InserterOf(kind, own, form)
                     ELSE ReplayedTo(own, form)
    <2>1. call = [d \in Caller |-> call[d]]
      BY DEF IInv
    <2> QED
      BY <1>2, <2>1 DEF Others
  <1>4. journal \in [Key -> JournalRow] /\ calls \in 0..MaxCalls /\ MaxCalls \in Nat
        /\ intent = [key \in Key |-> intent[key]]
    BY CompanyOperationsAssumption DEF IInv, TypeOK, CompanyOperationsAssumption
  <1>5. SavedOf' = SavedOf
    BY <1>2 DEF SavedOf, Saved, store
  <1>6. CASE journal[own].state = "none"
    <2>1. journal' = [journal EXCEPT ![own] = [state |-> "intent", owner |-> Server, token |-> 1]]
          /\ intent' = [intent EXCEPT ![own] = form]
      BY <1>2, <1>6 DEF ClaimedRow
    <2>2. [state |-> "intent", owner |-> Server, token |-> 1] \in JournalRow
      BY CompanyOperationsAssumption DEF JournalRow, IdempotencyState, CompanyOperationsAssumption
    <2>3. journal' \in [Key -> JournalRow] /\ calls' \in 0..MaxCalls
      BY <1>2, <1>4, <2>1, <2>2
    <2>4. TypeOK'
      BY <1>2, <2>3 DEF store, IInv, TypeOK
    <2> QED
      BY <1>2, <1>3, <1>5, <1>6, <2>1, <2>4
  <1>7. CASE journal[own].state # "none"
    <2>1. journal' = journal /\ intent' = intent
      BY <1>2, <1>4, <1>7 DEF ClaimedRow
    <2>2. calls' \in 0..MaxCalls
      BY <1>2, <1>4
    <2>3. TypeOK'
      BY <1>2, <2>1, <2>2 DEF store, IInv, TypeOK
    <2> QED
      BY <1>2, <1>3, <1>5, <1>7, <2>1, <2>3
  <1> QED
    BY <1>6, <1>7

LEMMA KeepsClaim ==
    ASSUME IInv, NEW c \in Caller, Claims(c)
    PROVE  IInv'
  <1>1. PICK id, kind, form :
            /\ id \in Id /\ kind \in Kind
            /\ Claim(c, id, form) /\ form.kind = kind /\ BodyOK(form)
            /\ kind = "discovery" => form.body.parent \in 0..Len(revisions)
    BY DEF Claims
  <1>2. form.kind = kind /\ \E own \in Key : own = <<kind, id>>
    BY <1>1 DEF Key
  <1> PICK own \in Key : own = <<kind, id>>
    BY <1>2
  <1>3. /\ Others(c) /\ UNCHANGED <<store, lost>> /\ TypeOK' /\ SavedOf' = SavedOf
        /\ \/ /\ journal[own].state = "none"
              /\ journal' = [journal EXCEPT ![own] = [state |-> "intent", owner |-> Server, token |-> 1]]
              /\ intent' = [intent EXCEPT ![own] = form]
              /\ call'[c] = InserterOf(kind, own, form)
           \/ /\ journal[own].state # "none" /\ journal' = journal /\ intent' = intent
              /\ call'[c] = ReplayedTo(own, form)
    BY <1>1, <1>2, ClaimFrame
  <1>4. journal \in [Key -> JournalRow] /\ intent = [key \in Key |-> intent[key]]
        /\ call = [d \in Caller |-> call[d]]
    BY DEF IInv, TypeOK
  <1>5. StoreGrows /\ RevisionInv' /\ models' = models
    BY <1>3 DEF store, StoreGrows, IInv, TypeOK, RevisionInv, KnowledgeOf
  <1>6. \A key \in Key : key # own => journal'[key] = journal[key] /\ intent'[key] = intent[key]
    BY <1>3, <1>4
  <1>7. intent' = [key \in Key |-> intent'[key]] /\ call' = [d \in Caller |-> call'[d]]
        /\ \A d \in Caller \ {c} : call'[d] = call[d]
    BY <1>3, <1>4 DEF Others
  <1>8. Grows
    BY <1>3, <1>5, <1>6 DEF Grows
  <1>9. ModelsCover'
    BY <1>5, <1>8, ModelsStay
  <1>10. \A d \in Caller : InCall(d) => call[d].key \in Key /\ journal[call[d].key].state # "none"
    BY InProgress
  <1>13. (EventInv /\ GeneInv /\ ModelInv)'
    BY <1>8, AuxStays
  <1>11. CASE journal[own].state = "none"
    <2>1. /\ journal' = [journal EXCEPT ![own] = [state |-> "intent", owner |-> Server, token |-> 1]]
          /\ intent' = [intent EXCEPT ![own] = form]
          /\ call'[c] = InserterOf(kind, own, form)
      BY <1>3, <1>11
    <2>2. journal'[own] = [state |-> "intent", owner |-> Server, token |-> 1] /\ intent'[own] = form
      BY <1>4, <2>1
    <2>3. RowInv'
      <3>1. \A key \in Key \ {own} : journal'[key].state # "none" =>
              /\ journal'[key].owner = Server /\ journal'[key].token = 1
              /\ intent'[key].kind = key[1] /\ BodyOK(intent'[key])
              /\ key[1] = "discovery" => intent'[key].body.parent \in 0..Len(revisions')
        BY <1>3, <1>6 DEF IInv, RowInv, store
      <3>2. /\ journal'[own].owner = Server /\ journal'[own].token = 1
            /\ intent'[own].kind = own[1] /\ BodyOK(intent'[own])
            /\ own[1] = "discovery" => intent'[own].body.parent \in 0..Len(revisions')
        <4>1. own[1] = kind /\ form.kind = kind /\ revisions' = revisions
          BY <1>1, <1>2, <1>3 DEF store
        <4> QED
          BY <1>1, <2>2, <4>1
      <3> QED
        BY <3>1, <3>2 DEF RowInv
    <2>4. SavedInv' /\ AppliedInv'
      <3>1. \A key \in Key : key # own => SavedAt(key)' /\ AppliedAt(key)'
        BY <1>3, <1>6, <1>8, ApartStays DEF Apart
      <3>2. SavedAt(own)' /\ AppliedAt(own)'
        <4>1. SavedAt(own)
          BY DEF IInv, SavedInv
        <4> QED
          BY <1>3, <2>2, <4>1 DEF SavedAt, AppliedAt
      <3> QED
        BY <3>1, <3>2 DEF SavedInv, AppliedInv
    <2>5. call'[c] = [pc |-> First(kind), key |-> own, form |-> form, seen |-> Nothing,
                      built |-> Nothing, persisted |-> FALSE, answer |-> "none"]
      BY <2>1 DEF InserterOf, Idle
    <2>6. CallInv(c)'
      <3>1. Shape(c)' /\ AnswerInv(c)'
        BY <2>5 DEF Shape, AnswerInv
      <3>2. /\ call'[c].pc = First(kind) /\ call'[c].key = own /\ call'[c].form = form
            /\ call'[c].persisted = FALSE /\ call'[c].answer = "none" /\ form.kind = kind
        BY <1>1, <2>5
      <3>3. First(kind) \in Stage
        BY DEF First, Stage, Kind
      <3>4. OwnInv(c)'
        BY <2>2, <3>2 DEF OwnInv
      <3>5. StageInv(c)'
        <4>1. /\ First(kind) = "save-work" => kind = "work"
              /\ First(kind) = "build" => kind = "discovery"
              /\ First(kind) = "look" => kind \in {"formation", "install", "autoskill"}
              /\ First(kind) = "event" => kind = "reflection"
              /\ First(kind) \in {"save-work", "build", "look", "event"}
          BY <1>1 DEF First, Kind
        <4>2. KindOf(c)' = kind /\ \A s : At(c, s)' <=> First(kind) = s
          BY <3>2 DEF At, KindOf
        <4>3. kind = "reflection" => OwnInstallation(own)'
          BY <1>2 DEF OwnInstallation
        <4> QED
          BY <3>2, <4>1, <4>2, <4>3 DEF StageInv
      <3>6. PersistedInv(c)'
        <4>1. SavedAt(own) /\ own[1] = kind
          BY <1>2 DEF IInv, SavedInv
        <4>2. kind \in Keeping => SavedOf'[own] = {}
          BY <1>3, <1>11, <4>1 DEF SavedAt
        <4> QED
          BY <3>2, <4>2 DEF PersistedInv, KindOf
      <3> QED
        BY <3>1, <3>2, <3>3, <3>4, <3>5, <3>6 DEF CallInv
    <2>7. \A d \in Caller : CallInv(d)'
      <3>1. ASSUME NEW d \in Caller, d # c
            PROVE  CallInv(d)'
        <4>1. call'[d] = call[d]
          BY <1>7, <3>1
        <4>2. InCall(d) => Apart(call[d].key)
          BY <1>3, <1>6, <1>10, <1>11 DEF Apart
        <4> QED
          BY <1>8, <4>1, <4>2, OtherCall
      <3> QED
        BY <2>6, <3>1
    <2>8. OneCaller'
      <3>1. \A d \in Caller : d # c /\ call'[d].pc # "idle" =>
                call'[d].key = call[d].key /\ call[d].pc # "idle" /\ call[d].key # own
        BY <1>7, <1>10, <1>11 DEF InCall
      <3>2. call'[c].key = own
        BY <2>5
      <3>3. \A d, e \in Caller : call[d].pc # "idle" /\ call[e].pc # "idle" /\ call[d].key = call[e].key
                                   => d = e
        BY DEF IInv, OneCaller, InCall
      <3> QED
        BY <3>1, <3>2, <3>3 DEF OneCaller, InCall
    <2> QED
      BY <1>3, <1>5, <1>7, <1>9, <1>13, <2>3, <2>4, <2>7, <2>8 DEF IInv
  <1>12. CASE journal[own].state # "none"
    <2>1. /\ journal' = journal /\ intent' = intent
          /\ call'[c] = ReplayedTo(own, form)
      BY <1>3, <1>12
    <2>2. RowInv'
      BY <1>3, <2>1 DEF IInv, RowInv, store
    <2>3. SavedInv' /\ AppliedInv'
      <3>1. \A key \in Key : SavedAt(key)' /\ AppliedAt(key)'
        BY <1>3, <1>8, <2>1, ApartStays DEF Apart
      <3> QED
        BY <3>1 DEF SavedInv, AppliedInv
    <2>4. call'[c] = [pc |-> "idle", key |-> own, form |-> form, seen |-> Nothing,
                      built |-> Nothing, persisted |-> FALSE, answer |-> Replay(own, form)]
      BY <2>1 DEF ReplayedTo, Idle
    <2>5. CallInv(c)'
      <3>1. Shape(c)' /\ call'[c].pc = "idle"
        BY <2>4 DEF Shape
      <3>2. Replay(own, form) = "applied" => own \in Settled' /\ form = intent'[own]
        <4>1. Replay(own, form) = "applied" => intent[own] = form /\ journal[own].state = "applied"
          BY DEF Replay
        <4>2. AppliedAt(own)
          BY DEF IInv, AppliedInv
        <4> QED
          BY <1>8, <2>1, <4>1, <4>2, SettledStays DEF AppliedAt
      <3>3. AnswerInv(c)'
        BY <2>4, <3>2 DEF AnswerInv
      <3> QED
        BY <3>1, <3>3 DEF CallInv, InCall, Stage
    <2>6. \A d \in Caller : CallInv(d)'
      <3>1. ASSUME NEW d \in Caller, d # c
            PROVE  CallInv(d)'
        <4>1. call'[d] = call[d]
          BY <1>7, <3>1
        <4>2. InCall(d) => Apart(call[d].key)
          BY <1>3, <2>1 DEF Apart
        <4> QED
          BY <1>8, <4>1, <4>2, OtherCall
      <3> QED
        BY <2>5, <3>1
    <2>7. OneCaller'
      <3>1. \A d \in Caller : call'[d].pc # "idle" =>
                call'[d].key = call[d].key /\ call[d].pc # "idle"
        BY <1>7, <2>4
      <3>2. \A d, e \in Caller : call[d].pc # "idle" /\ call[e].pc # "idle" /\ call[d].key = call[e].key
                                   => d = e
        BY DEF IInv, OneCaller, InCall
      <3> QED
        BY <3>1, <3>2 DEF OneCaller, InCall
    <2> QED
      BY <1>3, <1>5, <1>7, <1>9, <1>13, <2>2, <2>3, <2>6, <2>7 DEF IInv
  <1> QED
    BY <1>11, <1>12

\* A step outside of every call keeps the invariant if it keeps what is stored.
LEMMA Outside ==
    ASSUME IInv, UNCHANGED <<journal, intent, call, models>>, StoreGrows, TypeOK', RevisionInv',
           SavedOf' = SavedOf
    PROVE  IInv'
  <1>1. Grows
    BY DEF Grows
  <1>2. RowInv'
    BY <1>1, RowsStay DEF IInv, RowInv
  <1>3. \A key \in Key : Apart(key)
    BY DEF Apart
  <1>4. SavedInv' /\ AppliedInv'
    <2>1. \A key \in Key : SavedAt(key)' /\ AppliedAt(key)'
      BY <1>1, <1>3, ApartStays
    <2> QED
      BY <2>1 DEF SavedInv, AppliedInv
  <1>5. ModelsCover'
    BY <1>1, ModelsStay
  <1>6. \A d \in Caller : CallInv(d)'
    <2>1. \A d \in Caller : InCall(d) => call[d].key \in Key
      BY InProgress
    <2> QED
      BY <1>1, <1>3, <2>1, OtherCall
  <1>7. OneCaller'
    BY DEF IInv, OneCaller, InCall
  <1> QED
    BY <1>1, <1>2, <1>4, <1>5, <1>6, <1>7, AuxStays DEF IInv

LEMMA KeepsReadForMandate ==
    ASSUME IInv, NEW m \in Mandate, ReadForMandate(m)
    PROVE  IInv'
  <1>1. PICK n \in Latest(revisions) \ {0} : resolving' = [resolving EXCEPT ![m] = n]
    BY DEF ReadForMandate
  <1>2. n \in 0..Len(revisions)
    BY DEF Latest, IInv, TypeOK
  <1>3. TypeOK'
    BY <1>1, <1>2 DEF ReadForMandate, store, IInv, TypeOK
  <1>4. StoreGrows /\ RevisionInv' /\ SavedOf' = SavedOf
    BY DEF ReadForMandate, store, StoreGrows, IInv, TypeOK, RevisionInv, KnowledgeOf, SavedOf, Saved
  <1> QED
    BY <1>3, <1>4, Outside DEF ReadForMandate, store

LEMMA KeepsSaveForMandate ==
    ASSUME IInv, NEW m \in Mandate, SaveForMandate(m)
    PROVE  IInv'
  <1> DEFINE n == resolving[m]
             knowledge == KnowledgeOf(revisions, n)
  <1>1. n # 0 /\ n \in 0..Len(revisions) /\ n \in DOMAIN revisions
    BY DEF SaveForMandate, IInv, TypeOK
  <1>2. knowledge \in Knowledge /\ WellFormed(knowledge) /\ \A f \in knowledge.facts : f.intact
    <2>1. \A f \in knowledge.facts : f.intact
      BY <1>1 DEF KnowledgeOf, IInv, RevisionInv
    <2> QED
      BY <1>1, <2>1, KnowledgeTyped
  <1> DEFINE r(q) == BuildRevision(revisions, n, Answered(knowledge, m, q), m)
  <1>3. PICK q \in SUBSET Question : revisions' = Append(revisions, r(q))
    BY DEF SaveForMandate
  <1>4. /\ Answered(knowledge, m, q) \in Knowledge
        /\ WellFormed(Answered(knowledge, m, q))
        /\ \A f \in Answered(knowledge, m, q).facts :
             f.intact /\ (f \in knowledge.facts \/ f.mandate = m)
    BY <1>2, AnswerAdds
  <1>5. /\ r(q).parent = n /\ r(q).knowledge = Answered(knowledge, m, q) /\ r(q).origin = m
        /\ r(q) \in Revision(Id \cup Mandate)
    <2>1. revisions[n] \in Revision(Id \cup Mandate)
      BY <1>1 DEF IInv, TypeOK
    <2>2. revisions[n].sequence + 1 \in Nat \ {0} /\ n \in Nat
      BY <1>1, <2>1 DEF Revision
    <2>3. r(q) = [parent |-> n, sequence |-> revisions[n].sequence + 1,
                  knowledge |-> Answered(knowledge, m, q), origin |-> m]
      BY <1>1 DEF BuildRevision
    <2> HIDE DEF r, knowledge
    <2> QED
      BY <1>4, <2>2, <2>3 DEF Revision
  <1> HIDE DEF r, knowledge
  <1>6. KnowledgeOf(revisions, r(q).parent) = knowledge
    BY <1>5 DEF knowledge
  <1>7. models' = models
    BY DEF SaveForMandate
  <1>8. /\ revisions' \in Seq(Revision(Id \cup Mandate)) /\ Len(revisions) <= Len(revisions')
        /\ \A i \in DOMAIN revisions : i \in DOMAIN revisions' /\ revisions'[i] = revisions[i]
        /\ Len(revisions') = Len(revisions) + 1 /\ RevisionInv'
        /\ \A key \in Key :
             SavedOf'[key] = IF key = <<"discovery", r(q).origin>>
                             THEN SavedOf[key] \cup {Len(revisions')} ELSE SavedOf[key]
    BY <1>1, <1>3, <1>4, <1>5, <1>6, <1>7, Appended
  <1>9. SavedOf' = SavedOf
    <2>1. \A key \in Key : key # <<"discovery", m>>
      BY CompanyOperationsAssumption DEF Key, CompanyOperationsAssumption
    <2>2. \A key \in Key : SavedOf'[key] = SavedOf[key]
      BY <1>5, <1>8, <2>1
    <2> QED
      BY <2>2 DEF SavedOf
  <1>10. StoreGrows
    BY <1>8 DEF StoreGrows, SaveForMandate
  <1>11. TypeOK'
    <2>1. Len(revisions) \in Nat
      BY DEF IInv, TypeOK
    <2>2. resolving' \in [Mandate -> 0..Len(revisions')]
      BY <1>8, <2>1 DEF SaveForMandate, IInv, TypeOK
    <2> QED
      BY <1>8, <2>2 DEF SaveForMandate, IInv, TypeOK
  <1> QED
    BY <1>8, <1>9, <1>10, <1>11, Outside DEF SaveForMandate

LEMMA KeepsGene ==
    ASSUME IInv, NEW skill \in LocalSkill, ApplyVerifiedOutcomeToGene(skill)
    PROVE  IInv'
  <1> DEFINE Gene == [definition: Id \cup {Nothing}, status: {"none", "candidate", "champion"}]
  <1>1. PICK status \in {"champion", "candidate"} : genes' = [genes EXCEPT ![skill].status = status]
    BY DEF ApplyVerifiedOutcomeToGene
  <1>2. genes \in [LocalSkill -> Gene]
    BY DEF IInv, TypeOK
  <1>3. /\ genes'[skill] \in Gene /\ genes'[skill].status = status
        /\ \A s \in LocalSkill : s # skill => genes'[s] = genes[s]
        /\ genes' \in [LocalSkill -> Gene]
    BY <1>1, <1>2
  <1>4. genes'[skill] # NoGene
    BY <1>3 DEF NoGene
  <1>5. StoreGrows
    <2>1. \A s \in LocalSkill : genes[s] # NoGene => genes'[s] # NoGene
      BY <1>3, <1>4
    <2>2. \A s \in LocalSkill : genes'[s] # NoGene =>
            genes[s] # NoGene /\ genes'[s].definition = genes[s].definition
      BY <1>1, <1>2, <1>3 DEF ApplyVerifiedOutcomeToGene
    <2> QED
      BY <2>1, <2>2 DEF StoreGrows, ApplyVerifiedOutcomeToGene, control, IInv, TypeOK
  <1>6. TypeOK'
    BY <1>3 DEF ApplyVerifiedOutcomeToGene, control, IInv, TypeOK
  <1>7. RevisionInv' /\ SavedOf' = SavedOf
    BY DEF ApplyVerifiedOutcomeToGene, IInv, RevisionInv, KnowledgeOf, SavedOf, Saved
  <1> QED
    BY <1>5, <1>6, <1>7, Outside DEF ApplyVerifiedOutcomeToGene

-----------------------------------------------------------------------------
(* The invariant. *)

LEMMA InitInv ==
    ASSUME Init
    PROVE  IInv
  <1>1. TypeOK
    <2>1. NoRow \in JournalRow /\ NoGene \in [definition: Id \cup {Nothing},
                                              status: {"none", "candidate", "champion"}]
      BY DEF NoRow, JournalRow, IdempotencyState, NoGene
    <2> QED
      BY <2>1, CompanyOperationsAssumption DEF Init, TypeOK, CompanyOperationsAssumption
  <1>2. \A key \in Key : journal[key].state = "none"
    BY DEF Init, NoRow
  <1>3. \A key \in Key : SavedOf[key] = {}
    BY DEF Init, SavedOf, Saved
  <1>4. RowInv /\ SavedInv /\ AppliedInv
    BY <1>2, <1>3 DEF RowInv, SavedInv, SavedAt, AppliedInv, AppliedAt
  <1>5. RevisionInv /\ ModelsCover /\ EventInv /\ GeneInv /\ ModelInv
    BY DEF Init, RevisionInv, ModelsCover, EventInv, GeneInv, ModelInv
  <1>6. \A c \in Caller : call[c] = Idle
    BY DEF Init
  <1>7. OneCaller /\ \A c \in Caller : CallInv(c)
    BY <1>6 DEF OneCaller, CallInv, Shape, Idle, AnswerInv, InCall, Stage
  <1> QED
    BY <1>1, <1>4, <1>5, <1>7 DEF Init, IInv

LEMMA NextInv ==
    ASSUME IInv, [Next]_vars
    PROVE  IInv'
  <1>1. ASSUME NEW c \in Caller, Begin(c)
        PROVE  IInv'
    BY <1>1, BeginsClaim, KeepsClaim
  <1>2. ASSUME NEW c \in Caller, Step(c)
        PROVE  IInv'
    BY <1>2, KeepsSaveWork, KeepsBuild, KeepsSaveRevision, KeepsLookForPlan, KeepsBuildPlan,
       KeepsSaveModel, KeepsLookForInstall, KeepsLookForSkill, KeepsSaveDefinition,
       KeepsSaveInstallation, KeepsSaveGene, KeepsAppendEvent, KeepsEnqueueJob,
       KeepsMarkApplied, KeepsCatch, KeepsThrow, KeepsCrash
    DEF Step
  <1>3. ASSUME NEW m \in Mandate, ReadForMandate(m) \/ SaveForMandate(m)
        PROVE  IInv'
    BY <1>3, KeepsReadForMandate, KeepsSaveForMandate
  <1>4. CASE UNCHANGED vars
    <2>1. TypeOK' /\ StoreGrows /\ RevisionInv' /\ SavedOf' = SavedOf
      BY <1>4 DEF vars, store, control, StoreGrows, IInv, TypeOK, RevisionInv, KnowledgeOf,
                  SavedOf, Saved
    <2> QED
      BY <1>4, <2>1, Outside DEF vars, store
  <1> QED
    BY <1>1, <1>2, <1>3, <1>4, KeepsGene DEF Next

LEMMA Invariance == Spec => []IInv
  <1>1. Init => IInv
    BY InitInv
  <1>2. IInv /\ [Next]_vars => IInv'
    BY NextInv
  <1> QED
    BY <1>1, <1>2, PTL DEF Spec

-----------------------------------------------------------------------------
(* What the application promises. *)

\* Every variable has its type: no step writes a row, a revision, a definition or a
\* gene that the code could not have.
THEOREM TypeCorrect == Spec => []TypeOK
  <1>1. IInv => TypeOK
    BY DEF IInv
  <1> QED
    BY <1>1, Invariance, PTL

\* What was stored for a key is stored still, or an installation was saved over it.
LEMMA StoredOrSavedOver ==
    ASSUME IInv, NEW key \in Settled
    PROVE  Stored(intent[key], key[2]) \/ SavedOverIt(intent[key], key[2])
  <1> DEFINE form == intent[key]
             id == key[2]
  <1>1. key \in Key /\ journal[key].state # "none" /\ WasStored(form, id)
    BY DEF Settled
  <1>2. form.kind = key[1] /\ BodyOK(form) /\ key[1] \in Kind /\ key = <<form.kind, id>>
    BY <1>1 DEF IInv, RowInv, Key
  <1> HIDE DEF form, id
  <1>3. CASE form.kind \in {"work", "reflection"}
    BY <1>1, <1>3 DEF WasStored, Stored, form, id
  <1>4. CASE form.kind \in {"discovery", "formation"}
    BY <1>1, <1>4 DEF WasStored, Stored, SavedOverIt, form, id
  <1>5. CASE form.kind = "install"
    <2> SUFFICES ASSUME ~SavedOverIt(form, id)
                 PROVE  Stored(form, id)
      BY DEF form, id
    <2>1. /\ SavedAsInstallation(form)
          /\ \A i \in installations : i.skill = form.body.skill /\ i.department = form.body.department
                                        => i \in Active
      BY <1>5 DEF SavedOverIt
    <2>2. CASE key \in events
      <3>1. OwnInstallation(key)
        BY <2>2 DEF IInv, EventInv
      <3>2. PICK i \in installations :
                /\ i.by = key /\ i.scopes = form.body.scopes
                /\ i.skill = form.body.skill /\ i.department = form.body.department
        BY <1>2, <1>5, <2>1, <3>1 DEF OwnInstallation, form
      <3> QED
        BY <1>2, <1>5, <2>1, <3>2 DEF Stored
    <2>3. CASE key \notin events
      <3>1. PICK i \in installations :
                i.skill = form.body.skill /\ i.department = form.body.department
        BY <1>1, <1>5, <2>1 DEF WasStored
      <3> QED
        BY <1>2, <1>5, <2>1, <2>3, <3>1 DEF Stored
    <2> QED
      BY <2>2, <2>3
  <1>6. CASE form.kind = "autoskill"
    <2> SUFFICES ASSUME Intact("definition", id), Intact("installation", id)
                 PROVE  Stored(form, id)
      BY <1>6 DEF SavedOverIt, form, id
    <2>1. Slug[form.body.name] \in LocalSkill
      BY <1>2, <1>6, CompanyOperationsAssumption DEF BodyOK, CompanyOperationsAssumption
    <2>2. \E d \in definitions :
              d.skill = Slug[form.body.name] /\ genes[d.skill].definition = d.by
      BY <1>1, <1>6, <2>1 DEF WasStored, IInv, GeneInv, GeneDefined
    <2>3. \E i \in Active : i.by = <<form.kind, id>>
      <3>1. PICK i \in installations : i.by = <<form.kind, id>>
        BY <1>1, <1>6 DEF WasStored
      <3> QED
        BY <3>1 DEF Active
    <2> QED
      BY <1>1, <1>6, <2>2, <2>3 DEF WasStored, Stored
  <1> QED
    BY <1>2, <1>3, <1>4, <1>5, <1>6 DEF Kind, form, id

\* The journal is right about the store for any number of calls and faults: applied
\* keys have their event and their effects, but for what the identifier of an
\* installation made it be saved over; of discoveries and formations, an unknown key
\* has its asset, a failed one has none unless a reply was lost, and no key saves its
\* asset twice.
THEOREM JournalTold == Spec => []JournalTellsEffects
  <1>1. IInv => JournalTellsEffects
    <2> SUFFICES ASSUME IInv, NEW key \in Key
                 PROVE  /\ journal[key].state = "applied" =>
                              /\ Stored(intent[key], key[2]) \/ SavedOverIt(intent[key], key[2])
                              /\ key \in events \/ key[1] = "install"
                        /\ key[1] \in {"discovery", "formation"} =>
                              /\ journal[key].state = "unknown" => Saved(key) # {}
                              /\ journal[key].state = "failed" => Saved(key) = {} \/ key \in lost
                        /\ Cardinality(Saved(key)) <= 1
      BY DEF JournalTellsEffects
    <2>1. SavedAt(key) /\ AppliedAt(key) /\ SavedOf[key] = Saved(key)
      BY DEF IInv, SavedInv, AppliedInv, SavedOf
    <2>2. Cardinality(Saved(key)) <= 1
      <3>1. CASE Saved(key) = {}
        BY <3>1, FS_EmptySet
      <3>2. CASE Saved(key) # {}
        <4>1. key[1] \in Keeping
          BY <3>2 DEF Saved, Keeping
        <4>2. \A x, y \in Saved(key) : x = y
          BY <2>1, <4>1 DEF SavedAt
        <4>3. PICK x \in Saved(key) : Saved(key) = {x}
          BY <3>2, <4>2
        <4>4. Cardinality({x}) = 1
          BY FS_Singleton
        <4> QED
          BY <4>3, <4>4
      <3> QED
        BY <3>1, <3>2
    <2>3. journal[key].state = "applied" =>
              Stored(intent[key], key[2]) \/ SavedOverIt(intent[key], key[2])
      BY <2>1, StoredOrSavedOver DEF AppliedAt
    <2> QED
      BY <2>1, <2>2, <2>3 DEF SavedAt, AppliedAt, Keeping
  <1> QED
    BY <1>1, Invariance, PTL

\* Whoever hears "applied" has what it asked for in the store, of its own and as it
\* was asked: an answer from the journal of another call is only given to the same
\* request.  What an installation was saved over is excepted, and an installation that
\* was there already answers for its skill and department whatever its scopes.
THEOREM AnsweredIsStored == Spec => []AnsweredAsAsked
  <1>1. IInv => AnsweredAsAsked
    <2> SUFFICES ASSUME IInv, NEW c \in Caller, call[c].answer = "applied"
                 PROVE  \/ Stored(call[c].form, call[c].key[2])
                        \/ SavedOverIt(call[c].form, call[c].key[2])
      BY DEF AnsweredAsAsked
    <2>1. call[c].key \in Settled /\ call[c].form = intent[call[c].key]
      BY DEF IInv, CallInv, AnswerInv
    <2> QED
      BY <2>1, StoredOrSavedOver
  <1> QED
    BY <1>1, Invariance, PTL

\* Every owner-confirmed fact is what a mandate in the line of its revision put there,
\* however callers branch, copy and drop revisions: in the first revision without
\* such a mandate, the fact would come from an earlier one.
THEOREM OwnerFactsHold == Spec => []OwnerFactsFromMandates
  <1>1. IInv => OwnerFactsFromMandates
    <2> SUFFICES ASSUME IInv
                 PROVE  OwnerFactsFromMandates
      OBVIOUS
    <2> DEFINE Told(n, f) == \E a \in DOMAIN revisions :
                                DescendsFrom(n, a) /\ revisions[a].origin = f.mandate
               Bad == {n \in DOMAIN revisions : \E f \in revisions[n].knowledge.facts : ~Told(n, f)}
    <2>1. DOMAIN revisions = 1..Len(revisions) /\ Len(revisions) \in Nat
      BY DEF IInv, TypeOK
    <2>2. Bad = {}
      <3> SUFFICES ASSUME Bad # {}
                   PROVE  FALSE
        OBVIOUS
      <3>1. Bad \subseteq Nat
        BY <2>1
      <3>2. PICK n \in Bad : \A i \in Bad : <<i, n>> \notin OpToRel(<, Nat)
        <4> HIDE DEF Bad
        <4> QED
          BY <3>1, NatLessThanWellFounded, WFMin
      <3>3. \A i \in Bad : ~(i < n)
        <4> HIDE DEF Bad
        <4> QED
          BY <3>1, <3>2 DEF OpToRel
      <3>4. n \in DOMAIN revisions
        OBVIOUS
      <3>5. PICK f \in revisions[n].knowledge.facts : ~Told(n, f)
        OBVIOUS
      <3>6. /\ revisions[n].parent \in 0 .. n - 1
            /\ \/ revisions[n].origin = f.mandate
               \/ f \in KnowledgeOf(revisions, revisions[n].parent).facts
        BY <3>4, <3>5 DEF IInv, RevisionInv
      <3>7. CASE revisions[n].origin = f.mandate
        <4>1. DescendsFrom(n, n)
          BY DEF DescendsFrom
        <4> QED
          BY <3>4, <3>5, <3>7, <4>1
      <3>8. CASE f \in KnowledgeOf(revisions, revisions[n].parent).facts
        <4> DEFINE p == revisions[n].parent
        <4>1. p # 0
          BY <3>8 DEF KnowledgeOf, NoKnowledge
        <4>2. p \in DOMAIN revisions /\ p < n
          BY <2>1, <3>4, <3>6, <4>1
        <4>3. f \in revisions[p].knowledge.facts
          BY <3>8, <4>1 DEF KnowledgeOf
        <4>4. Told(p, f)
          BY <3>3, <4>2, <4>3
        <4>5. PICK a \in DOMAIN revisions : DescendsFrom(p, a) /\ revisions[a].origin = f.mandate
          BY <4>4
        <4>6. DescendsFrom(n, a)
          BY <4>1, <4>5 DEF DescendsFrom
        <4> QED
          BY <3>5, <4>5, <4>6
      <3> QED
        BY <3>6, <3>7, <3>8
    <2>3. \A n \in DOMAIN revisions : \A f \in revisions[n].knowledge.facts : f.intact
      BY DEF IInv, RevisionInv
    <2> QED
      BY <2>2, <2>3 DEF OwnerFactsFromMandates
  <1> QED
    BY <1>1, Invariance, PTL

\* A draft made from any revision can be applied to it, and drops none of its answers.
THEOREM DraftsHold == Spec => []DraftsAreAccepted
  <1>1. IInv => DraftsAreAccepted
    BY KnowledgeTyped, DraftAccepted DEF DraftsAreAccepted
  <1> QED
    BY <1>1, Invariance, PTL

\* Every operating model that was applied covers its intake, although the assets and
\* the discovery it was planned from were read at two moments and have changed since.
THEOREM ModelsHold == Spec => []ModelsCover
  <1>1. IInv => ModelsCover
    BY DEF IInv
  <1> QED
    BY <1>1, Invariance, PTL

==============================================================================
