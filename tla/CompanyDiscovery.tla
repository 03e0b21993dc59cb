--------------------------- MODULE CompanyDiscovery ---------------------------
(***************************************************************************)
(* Discovery revisions: what a Company knows about itself, as an append-   *)
(* only tree of revisions.  Facts that are not owner-confirmed bind        *)
(* nothing and are left out; so are texts, confidence and evidence, except *)
(* for which mandate an answer comes from.                                 *)
(***************************************************************************)
EXTENDS Naturals, Sequences, FiniteSets

CONSTANTS
    Question,     \* identifiers of unknowns
    Reserved,     \* those whose answer discovery reserves to the owner
    Mandate,      \* verified active mandates that answer questions
    Observable    \* capabilities that connectors can report

ASSUME CompanyDiscoveryAssumption ==
    /\ Reserved \subseteq Question
    /\ \A m \in Mandate : m \notin {"none", "client"}

\* An owner-confirmed fact: its identifier names the question and the mandate.
\* One whose statement or provenance was changed is another fact.
Fact == [question: Question, mandate: Mandate, intact: BOOLEAN]

\* Who may answer an unknown, by the requirement it states: only a mandate or only
\* whoever applies discoveries.  One that states none, of a category that is not the
\* owner's, either may answer.
Answerer == {"owner", "client", "either"}

Unknown == [status: {"absent", "open", "resolved", "dismissed"}, answerer: Answerer,
            ref: Mandate \cup {"none", "client"}]

NoUnknown == [status |-> "absent", answerer |-> "client", ref |-> "none"]

Closed == {"resolved", "dismissed"}

Knowledge == [facts: SUBSET Fact, unknowns: [Question -> Unknown], capabilities: SUBSET Observable]

NoKnowledge == [facts |-> {}, unknowns |-> [q \in Question |-> NoUnknown], capabilities |-> {}]

\* Revisions are numbered in the order they were saved, in place of their random
\* identifiers; 0 is no revision.  origin is who saved it, as its asset records.
Revision(Origin) == [parent: Nat, sequence: Nat \ {0}, knowledge: Knowledge, origin: Origin]

KnowledgeOf(revisions, n) == IF n = 0 THEN NoKnowledge ELSE revisions[n].knowledge

BuildRevision(revisions, parent, knowledge, origin) ==
    [parent    |-> parent,
     sequence  |-> IF parent = 0 THEN 1 ELSE revisions[parent].sequence + 1,
     knowledge |-> knowledge,
     origin    |-> origin]

\* latestDiscovery: the highest sequence.  Among equal ones the times of creation
\* decide, which follow neither the order of the saves nor that of the calls.
Latest(revisions) ==
    IF revisions = <<>> THEN {0}
    ELSE {n \in DOMAIN revisions :
            \A i \in DOMAIN revisions : revisions[i].sequence <= revisions[n].sequence}

Open(knowledge) == {q \in Question : knowledge.unknowns[q].status = "open"}

-----------------------------------------------------------------------------
(* assertUntrustedDiscoveryWriteSafe.                                        *)

\* Mutant: a fact is known by its identifier alone.
InheritedById(knowledge, parent) ==
    \A f \in knowledge.facts :
        \E g \in parent.facts : g.question = f.question /\ g.mandate = f.mandate

Inherited(knowledge, parent) == knowledge.facts \subseteq parent.facts

\* An unknown that says it is the owner's to answer may only stay as the parent has it
\* or be open.
AnswersKept(knowledge, parent) ==
    \A q \in Question :
        LET unknown == knowledge.unknowns[q]
            prior   == parent.unknowns[q]
        IN  unknown.answerer = "owner" /\ unknown.status \in Closed =>
                prior.status = unknown.status /\ prior.ref = unknown.ref

WriteSafe(knowledge, parent) == Inherited(knowledge, parent) /\ AnswersKept(knowledge, parent)

\* buildDiscoveryRevision refuses two facts of one identifier.
WellFormed(knowledge) ==
    \A f, g \in knowledge.facts :
        f.question = g.question /\ f.mandate = g.mandate => f = g

-----------------------------------------------------------------------------
(* GenericDiscoveryOrchestrator.run: the draft it returns for what           *)
(* connectors report, to be applied by a later call.                         *)

\* Mutant: what a connector observes answers questions of the owner too.
AnsweredByAnyEvidence(q, seen) == seen # {}

AnsweredByEvidence(q, seen) == q \notin Reserved /\ seen # {}

\* The orchestrator states a requirement for every unknown.
DraftUnknown(prior, q, seen) ==
    LET required == IF q \in Reserved THEN "owner" ELSE "client"
    IN  IF prior.status \in Closed
        THEN [prior EXCEPT !.answerer = IF @ = "either" THEN "client" ELSE @]
        ELSE IF AnsweredByEvidence(q, seen)
        THEN [status |-> "resolved", answerer |-> required, ref |-> "client"]
        ELSE [status |-> "open", answerer |-> required, ref |-> "none"]

Draft(knowledge, seen) ==
    LET capabilities == knowledge.capabilities \cup seen
    IN  [facts        |-> knowledge.facts,
         unknowns     |-> [q \in Question |-> DraftUnknown(knowledge.unknowns[q], q, capabilities)],
         capabilities |-> capabilities]

-----------------------------------------------------------------------------
(* applyVerifiedMandateToDiscovery.                                          *)

\* The questions claims of a mandate answer: those that are open.  One that a mandate
\* may not answer refuses them all.
MayAnswer(knowledge, questions) ==
    /\ questions # {}
    /\ \A q \in questions :
          knowledge.unknowns[q].status = "open" /\ knowledge.unknowns[q].answerer # "client"

AnswerOf(m, q) == [question |-> q, mandate |-> m, intact |-> TRUE]

Answered(knowledge, m, questions) ==
    [facts        |-> knowledge.facts \cup {AnswerOf(m, q) : q \in questions},
     unknowns     |-> [q \in Question |->
                          IF q \in questions
                          THEN [knowledge.unknowns[q] EXCEPT !.status = "resolved", !.ref = m]
                          ELSE knowledge.unknowns[q]],
     capabilities |-> knowledge.capabilities]
==============================================================================
