--------------------------- MODULE MCCreativeMission ---------------------------
(* Instances of CreativeMission for TLC. *)
EXTENDS CreativeMission, TLC

CONSTANTS s1, s2, w1, w2, m1, m2, c1, c2

MCJournalOwner == {"submit", "submit:reconciler", "worker", "worker:reconciler"}

MCSubmitter == {s1, s2}
MCWorker == {w1, w2}
MCMission == {m1, m2}
MCCandidate == {c1, c2}

\* The two submitters, the workers and the candidates are interchangeable.
MCSymmetry ==
    Permutations(MCSubmitter) \cup Permutations(MCWorker) \cup Permutations(MCCandidate)

==============================================================================
