---------------------------- MODULE HeartbeatLease ----------------------------
(***************************************************************************)
(* The heartbeat lease of one Company: the row of xspa.heartbeat_leases    *)
(* that HeartbeatEngine.tick, GovernedObservedSignalScheduler.pollOnce and *)
(* companyWakeEvaluate claim before they touch a cursor.                   *)
(*                                                                         *)
(* Each PostgresRuntimeStore method is one transaction of one statement on *)
(* that row, so each is one atomic step here.  A Process is a running      *)
(* call; OwnerOf gives the worker identifier it claims under.  Two         *)
(* processes may share one (a worker restarted under its old name while    *)
(* the old call is still running), so only the token tells them apart.     *)
(*                                                                         *)
(* lease_until is compared only with clock_timestamp(), never with another *)
(* time, so "live" stands for lease_until > clock_timestamp() and time     *)
(* passing is ExpireLease.  Before the first claim lease_until is NULL:    *)
(* not live.                                                               *)
(***************************************************************************)
EXTENDS Naturals

CONSTANTS
    Process,    \* running calls that may claim the lease
    Owner,      \* worker identifiers (lease_owner)
    OwnerOf,    \* the identifier each process claims under
    Nobody,     \* lease_owner IS NULL
    MaxToken    \* bound of the model: no claim past this fencing token

ASSUME LeaseAssumption ==
    /\ OwnerOf \in [Process -> Owner]
    /\ Nobody \notin Owner
    /\ MaxToken \in Nat

VARIABLE lease

LeaseRow == [owner: Owner \cup {Nobody}, token: Nat, live: BOOLEAN]

LeaseInit == lease = [owner |-> Nobody, token |-> 0, live |-> FALSE]

\* Mutant: the lease is matched by worker identifier alone.
OwnerNamesLease(p, token) == lease.owner = OwnerOf[p]

\* The (owner, fencing token) pair a process presents names the lease row.
NamesLease(p, token) ==
    /\ lease.owner = OwnerOf[p]
    /\ lease.token = token

\* isHeartbeatLeaseCurrent, also the EXISTS clause of both cursor writes.
IsHeartbeatLeaseCurrent(p, token) == NamesLease(p, token) /\ lease.live

\* claimHeartbeatLease granting the lease; a contended claim changes nothing.
ClaimHeartbeatLease(p) ==
    /\ ~lease.live
    /\ lease.token < MaxToken
    /\ lease' = [owner |-> OwnerOf[p], token |-> lease.token + 1, live |-> TRUE]

\* releaseHeartbeatLease: the row must still carry the caller's owner and token.
ReleaseHeartbeatLease(p, token) ==
    lease' = [lease EXCEPT !.live = lease.live /\ ~NamesLease(p, token)]

\* clock_timestamp() reaches lease_until.
ExpireLease ==
    /\ lease.live
    /\ lease' = [lease EXCEPT !.live = FALSE]

==============================================================================
