------------------------- MODULE MCBootstrapExecutor -------------------------
(* Instances of BootstrapExecutor for TLC. *)
EXTENDS BootstrapExecutor, TLC

CONSTANTS c1, c2

OneCaller == {c1}
TwoCallers == {c1, c2}

MCKey == (1..MaxPlans) \X (1..Requirements)

MCNoKey == <<0, 0>>

Workers == {"worker", "worker:reconciler"}

\* The first requirement is behind a human boundary.
FirstRequirement == {1}

\* No requirement needs a human.
NoRequirement == {}

\* A fault, a second plan and overlapping executions: at most two of the three.
Pairwise == ~(overlap /\ faults > 0 /\ Cardinality(plans) > 1)

CallerSymmetry == Permutations(Caller)

==============================================================================
