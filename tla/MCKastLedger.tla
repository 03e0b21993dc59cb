----------------------------- MODULE MCKastLedger -----------------------------
(* Instances of KastLedger for TLC: c1 and c2 close one session, c3 another.    *)
EXTENDS KastLedger, TLC

CONSTANTS c1, c2, c3, s1, s2, m1, m2, f1

MCCloser == {c1, c2, c3}
MCSession == {s1, s2}
MCSessionOf == [c \in MCCloser |-> IF c = c3 THEN s2 ELSE s1]

\* The calls of one session and the maintainers are interchangeable.
MCSymmetry == Permutations({c1, c2}) \cup Permutations({m1, m2})

==============================================================================
