------------------------------ MODULE MCKastLaw ------------------------------
(* An instance of KastLaw for TLC: two runs of triggers that share a prefix.    *)
EXTENDS KastLaw, TLC

CONSTANTS r1, r2, p1, a, b

MCRun == {r1, r2}
MCPrefixOf == [r \in MCRun |-> p1]

\* The runs share their prefix, so they and the overlays are interchangeable.
MCSymmetry == Permutations({r1, r2}) \cup Permutations({a, b})

=============================================================================
