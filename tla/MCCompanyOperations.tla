-------------------------- MODULE MCCompanyOperations --------------------------
(* An instance of CompanyOperations for TLC.  The prefix of k1 and k2 names f1;   *)
(* the name "dotted" is stored as the skill l1.                                  *)
EXTENDS CompanyOperations, TLC

CONSTANTS c1, c2, i1, i2, q1, q2, m1, d1, d2, f1, f2, p1, k1, k2, s1, l1, dotted

MCNone == [r \in {} |-> {}]

MCCoreDepartment == (f1 :> d1) @@ (f2 :> d2)
MCFunctionOf == [k \in {k1, k2} |-> f1]
MCCatalogProvides == s1 :> {k1}
MCSuited == p1 :> {s1, l1}
MCPreference == (s1 :> 1) @@ (l1 :> 2)
MCSlug == (l1 :> l1) @@ (dotted :> l1)

MCUnknown(status, answerer, ref) ==
    (q1 :> [status |-> status, answerer |-> answerer, ref |-> ref]) @@ (q2 :> NoUnknown)

MCStated(facts, unknowns, expected) ==
    [knowledge |-> [facts |-> facts, unknowns |-> unknowns, capabilities |-> {}],
     expected |-> expected]

\* A question that only a mandate answers, and two that either may; the answer of the
\* mandate, kept and changed; a question dismissed, not stated as the owner's.
MCDiscoveryInput ==
    LET fact(intact) == [question |-> q1, mandate |-> m1, intact |-> intact]
        both == [q \in {q1, q2} |-> [status |-> "open", answerer |-> "either", ref |-> "none"]]
    IN  {MCStated({}, MCUnknown("open", "owner", "none"), FALSE),
         MCStated({}, both, FALSE),
         MCStated({fact(TRUE)}, MCUnknown("resolved", "owner", m1), FALSE),
         MCStated({fact(TRUE)}, MCUnknown("resolved", "owner", m1), TRUE),
         MCStated({fact(FALSE)}, MCUnknown("resolved", "owner", m1), FALSE),
         MCStated({}, MCUnknown("dismissed", "client", "none"), FALSE)}

\* A new Company with a department, and an existing one that runs a process.
MCIntakeInput ==
    {[mode |-> "new", observed |-> MCNone, proposed |-> d2 :> {}, running |-> MCNone,
      planned |-> MCNone, required |-> {f2}, capabilities |-> {k2}],
     [mode |-> "existing", observed |-> d1 :> {f2}, proposed |-> MCNone,
      running |-> p1 :> [department |-> d1, capabilities |-> {k1, k2}],
      planned |-> MCNone, required |-> {f2}, capabilities |-> {}]}

MCInstallInput == {[skill |-> s1, department |-> d1, scopes |-> s] : s \in {"all", "some"}}
MCSkillInput ==
    {[name |-> n, provides |-> {k2}, department |-> d1] : n \in {l1, dotted}}
MCReflectionInput ==
    {[protected |-> TRUE, skill |-> Nothing], [protected |-> FALSE, skill |-> Nothing],
     [protected |-> FALSE, skill |-> l1]}

MCSymmetry == Permutations({c1, c2}) \cup Permutations({i1, i2})
==============================================================================
