-------------------------- MODULE IdempotencyJournal --------------------------
(***************************************************************************)
(* One row of xspa.idempotency_journal and the methods of                  *)
(* PostgresRuntimeStore that write it.  Each is a transaction of its own,  *)
(* so a module that uses them applies each in one step.                    *)
(***************************************************************************)
EXTENDS Naturals

CONSTANT JournalOwner   \* worker identifiers that may own a row

IdempotencyState == {"none", "intent", "applied", "failed", "unknown", "reconciled"}

JournalRow == [state: IdempotencyState, owner: JournalOwner \cup {"none"}, token: Nat]

\* The key has no row yet.
NoRow == [state |-> "none", owner |-> "none", token |-> 0]

\* claimIdempotency inserts the row, or leaves the one it finds: only the first
\* claimant of a key owns it.
ClaimedRow(row, owner) ==
    IF row.state = "none"
    THEN [state |-> "intent", owner |-> owner, token |-> 1]
    ELSE row

\* claimStaleIdempotencyForReconciliation: an intent too old to be alive passes
\* to the resolver under the next token.
StaleRow(row, resolver) ==
    IF row.state = "intent"
    THEN [state |-> "unknown", owner |-> resolver, token |-> row.token + 1]
    ELSE row

\* The WHERE clause of markIdempotency, which does not ask for the state.
Owns(row, owner, token) ==
    /\ row.state # "none"
    /\ row.owner = owner
    /\ row.token = token

MarkedRow(row, owner, token, state) ==
    IF Owns(row, owner, token) THEN [row EXCEPT !.state = state] ELSE row

==============================================================================
