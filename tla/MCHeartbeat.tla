----------------------------- MODULE MCHeartbeat -----------------------------
(* Instances of Heartbeat for TLC: p1 and p2 share a worker identifier. *)
EXTENDS Heartbeat

CONSTANTS p1, p2, w1

MCProcess2 == {p1, p2}
MCOwner1 == {w1}
MCOwnerOf2 == [p \in MCProcess2 |-> w1]

==============================================================================
