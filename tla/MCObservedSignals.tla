--------------------------- MODULE MCObservedSignals ---------------------------
(* Instances of ObservedSignals for TLC: p1 and p2 poll under one worker       *)
(* identifier, p3 is a companyWakeEvaluate with an identifier of its own.      *)
EXTENDS ObservedSignals

CONSTANTS p1, p2, p3, w1, w3

MCOwner == {w1, w3}

MCProcess3 == {p1, p2, p3}
MCOwnerOf3 == [p \in MCProcess3 |-> IF p = p3 THEN w3 ELSE w1]

==============================================================================
