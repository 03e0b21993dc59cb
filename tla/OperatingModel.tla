---------------------------- MODULE OperatingModel ----------------------------
(***************************************************************************)
(* planCompanyOperatingModel and the skill plan it contains, as functions  *)
(* of what a Company is told to be (the intake), what discovery knows and  *)
(* which skills it has.  The bootstrap plan of the same result is that of  *)
(* BootstrapExecutor.  Search scores are abstracted to which skills suit a *)
(* process and to an order of preference.                                  *)
(***************************************************************************)
EXTENDS Naturals, FiniteSets

CONSTANTS
    Department,
    Function,         \* business functions, the core ones among them
    CoreFunction,     \* functions every Company needs
    CoreDepartment,   \* the department made for an uncovered function
    Process,
    Capability,
    FunctionOf,       \* the core function the prefix of a capability names
    CatalogSkill,     \* reusable skills
    LocalSkill,       \* identifiers of Company-local skills
    CatalogProvides,  \* capabilities of each reusable skill
    Suited,           \* skills whose score is enough for each observed process
    Preference,       \* order of search results
    ProcessLimit,     \* how many of them a search for a process returns
    CapabilityLimit   \* and one for a capability

Skill == CatalogSkill \cup LocalSkill

ASSUME OperatingModelAssumption ==
    /\ CoreFunction \subseteq Function
    /\ CoreDepartment \in [Function -> Department]
    /\ FunctionOf \in [Capability -> CoreFunction]
    /\ CatalogProvides \in [CatalogSkill -> SUBSET Capability]
    /\ Suited \in [Process -> SUBSET Skill]
    /\ Preference \in [Skill -> Nat]
    /\ CatalogSkill \cap LocalSkill = {}  \* of the skills at hand: the code does not see to it
    /\ ProcessLimit \in Nat
    /\ CapabilityLimit \in Nat

\* A table with rows for some of the members of S.
Table(S, T) == UNION {[R -> T] : R \in SUBSET S}

ProcessInput == [department: Department, capabilities: SUBSET Capability]

Intake == [mode: {"new", "existing"},
           observed: Table(Department, SUBSET Function),
           proposed: Table(Department, SUBSET Function),
           running: Table(Process, ProcessInput),
           planned: Table(Process, ProcessInput),
           required: SUBSET Function,
           capabilities: SUBSET Capability]

Rows(table, row) == IF row \in DOMAIN table THEN table[row] ELSE {}

-----------------------------------------------------------------------------
(* Departments. *)

\* Only an existing Company has anything to observe.
ObservedDepartments(intake) ==
    IF intake.mode = "existing" THEN intake.observed ELSE [d \in {} |-> {}]

\* Observed departments are kept, those proposed under the same name extend them.
NamedDepartments(intake) ==
    LET observed == ObservedDepartments(intake)
    IN  [d \in DOMAIN observed \cup DOMAIN intake.proposed |->
            [functions   |-> Rows(observed, d) \cup Rows(intake.proposed, d),
             disposition |-> IF d \notin DOMAIN observed THEN "create"
                             ELSE IF d \in DOMAIN intake.proposed THEN "extend"
                             ELSE "preserve"]]

FunctionsOf(departments) == UNION {departments[d].functions : d \in DOMAIN departments}

Uncovered(intake) ==
    (CoreFunction \cup intake.required) \ FunctionsOf(NamedDepartments(intake))

\* Every uncovered function goes to its own department, new or not.
Departments(intake) ==
    LET named    == NamedDepartments(intake)
        missing  == Uncovered(intake)
        added(d) == {f \in missing : CoreDepartment[f] = d}
    IN  [d \in DOMAIN named \cup {CoreDepartment[f] : f \in missing} |->
            IF d \notin DOMAIN named
            THEN [functions |-> added(d), disposition |-> "create"]
            ELSE [functions   |-> named[d].functions \cup added(d),
                  disposition |-> IF added(d) # {} /\ named[d].disposition = "preserve"
                                  THEN "extend" ELSE named[d].disposition]]

-----------------------------------------------------------------------------
(* Processes. *)

ObservedProcesses(intake) ==
    IF intake.mode = "existing" THEN intake.running ELSE [p \in {} |-> {}]

\* A process of an unknown department is refused, and so is a proposal that
\* moves an observed process.
ProcessesRefused(intake) ==
    LET observed == ObservedProcesses(intake)
        known    == DOMAIN Departments(intake)
    IN  \/ \E p \in DOMAIN observed : observed[p].department \notin known
        \/ \E p \in DOMAIN intake.planned :
              \/ intake.planned[p].department \notin known
              \/ p \in DOMAIN observed /\ observed[p].department # intake.planned[p].department

Processes(intake) ==
    LET observed == ObservedProcesses(intake)
        planned  == intake.planned
        needs(table, p) == IF p \in DOMAIN table THEN table[p].capabilities ELSE {}
    IN  [p \in DOMAIN observed \cup DOMAIN planned |->
            [department   |-> IF p \in DOMAIN observed THEN observed[p].department
                              ELSE planned[p].department,
             capabilities |-> needs(observed, p) \cup needs(planned, p),
             disposition  |-> IF p \notin DOMAIN observed THEN "create"
                              ELSE IF p \in DOMAIN planned THEN "map"
                              ELSE "preserve"]]

RequiredCapabilities(intake, discovered) ==
    intake.capabilities \cup discovered
        \cup UNION {Processes(intake)[p].capabilities : p \in DOMAIN Processes(intake)}

\* The department of a process that needs it, or the one of its core function.
\* Hints of discovery and of bootstrap requirements are left out.
DepartmentFor(capability, departments, processes) ==
    LET hosts == {p \in DOMAIN processes : capability \in processes[p].capabilities}
    IN  IF hosts # {}
        THEN processes[CHOOSE p \in hosts : TRUE].department
        ELSE CHOOSE d \in DOMAIN departments :
                FunctionOf[capability] \in departments[d].functions

-----------------------------------------------------------------------------
(* Skills.  provides gives the capabilities of every skill of the catalog   *)
(* the plan searches, reusable and local; installed those the Company has.  *)

Best(skills) == CHOOSE s \in skills : \A t \in skills : Preference[s] <= Preference[t]

\* The results of a search: the skills before which there are fewer than limit.
Found(provides, limit) ==
    {s \in DOMAIN provides :
        Cardinality({t \in DOMAIN provides : Preference[t] < Preference[s]}) < limit}

\* Observed processes are mapped to a skill that does a part of them.
MatchesOf(p, needs, provides) ==
    {s \in Suited[p] \cap Found(provides, ProcessLimit) : provides[s] \cap needs # {}}

\* Mutant: a mapped process counts all its capabilities as covered.
CoveredWhole(skill, needs, provides) == needs

\* A mapped process leaves open what its skill does not provide.
CoveredBy(skill, needs, provides) == provides[skill] \cap needs

SkillPlan(intake, departments, processes, required, provides, installed) ==
    LET observed    == ObservedProcesses(intake)
        matches(p)  == MatchesOf(p, observed[p].capabilities, provides)
        mapped      == {p \in DOMAIN observed : matches(p) # {}}
        candidates  == DOMAIN observed \ mapped
        covered     == (UNION {CoveredBy(Best(matches(p)), observed[p].capabilities, provides) : p \in mapped})
                       \cup (UNION {observed[p].capabilities : p \in candidates})
        providers(c) == {s \in Found(provides, CapabilityLimit) : c \in provides[s]}
        open        == required \ covered
        bought      == {c \in open : providers(c) # {}}
        choice(c)   == [skill |-> Best(providers(c)),
                        department |-> DepartmentFor(c, departments, processes)]
    IN  [reuse   |-> {[process |-> p, skill |-> Best(matches(p))] : p \in mapped},
         install |-> {i \in {[skill |-> Best(matches(p)), department |-> observed[p].department] :
                               p \in mapped} \cup {choice(c) : c \in bought} :
                        i.skill \notin installed},
         gaps    |-> open \ bought,
         create  |-> candidates]

\* A search is made for every observed process and every capability that is left.
Searches(intake, discovered) ==
    \/ DOMAIN ObservedProcesses(intake) # {}
    \/ RequiredCapabilities(intake, discovered) # {}

PlanCompany(intake, discovered, open, provides, installed) ==
    LET departments == Departments(intake)
        processes   == Processes(intake)
        required    == RequiredCapabilities(intake, discovered)
    IN  [departments |-> departments,
         processes   |-> processes,
         required    |-> required,
         skills      |-> SkillPlan(intake, departments, processes, required, provides, installed),
         readiness   |-> [uncovered |-> IF intake.mode = "existing" THEN Uncovered(intake) ELSE {},
                          questions |-> open]]

-----------------------------------------------------------------------------
\* What a plan owes its intake.  Every function has a department, every process
\* a department of the plan, nothing observed is taken away, and every capability
\* is provided by a skill the Company has or is to install, or is named as a gap.
Covers(plan, intake, provides, installed) ==
    LET observed == ObservedDepartments(intake)
        running  == ObservedProcesses(intake)
        skills   == installed \cup {i.skill : i \in plan.skills.install}
                              \cup {r.skill : r \in plan.skills.reuse}
        provided == UNION {provides[s] : s \in skills \cap DOMAIN provides}
        created  == UNION {plan.processes[p].capabilities : p \in plan.skills.create}
    IN  /\ CoreFunction \cup intake.required \subseteq FunctionsOf(plan.departments)
        /\ \A p \in DOMAIN plan.processes :
              plan.processes[p].department \in DOMAIN plan.departments
        /\ \A d \in DOMAIN observed :
              d \in DOMAIN plan.departments /\ observed[d] \subseteq plan.departments[d].functions
        /\ \A p \in DOMAIN running :
              p \in DOMAIN plan.processes
              /\ running[p].capabilities \subseteq plan.processes[p].capabilities
        /\ plan.required \subseteq provided \cup created \cup plan.skills.gaps
==============================================================================
