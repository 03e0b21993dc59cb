---------------------------- MODULE ObservedSignals ----------------------------
(***************************************************************************)
(* One business-system source of a Company polled by                       *)
(* GovernedObservedSignalScheduler.pollOnce, with companyWakeEvaluate as   *)
(* the other writer of the wake state.  Both run under the heartbeat lease *)
(* of HeartbeatLease; several may run at once because a lease can expire   *)
(* under its holder.                                                       *)
(*                                                                         *)
(* The source is CsvSignalSource: a file rows are appended to; row e is    *)
(* event e, and a poll from position n returns every row after n with the  *)
(* number of rows as its new position, unless one of them or the file      *)
(* itself cannot be read.  The key of an event in the idempotency journal  *)
(* hashes its attestation, which hashes the position before and after the  *)
(* poll, so a key here is <<event, before, after>>.                        *)
(*                                                                         *)
(* The wake state is one asset with one subscription that every row        *)
(* matches: the events whose replay key it retains (seen) and those        *)
(* counted and not yet proposed (pending).  Scores decay with real time,   *)
(* so at which events the threshold is reached is left open.               *)
(***************************************************************************)
EXTENDS HeartbeatLease, Integers, Sequences, FiniteSets, Functions

CONSTANTS
    Pollers,    \* the processes that poll; the others are companyWakeEvaluate
    MaxRows,    \* bound of the model: rows the file can grow to
    Lapsing,    \* rows whose replay key may outlive replayRetentionSeconds
    MaxFaults   \* bound of the model: exceptions, crashes and overrun leases

ASSUME SignalsAssumption ==
    /\ Pollers \subseteq Process
    /\ MaxRows \in Nat
    /\ Lapsing \subseteq 1..MaxRows
    /\ MaxFaults \in Nat

VARIABLES
    rows,       \* rows of the CSV file
    bad,        \* what of the file poll rejects: rows, and 0 for the file itself
    cursor,     \* xspa.signal_source_cursors: position and fencing token
    journal,    \* xspa.idempotency_journal: the state of each key
    wake,       \* the company-wake-state asset
    proposals,  \* company-wake-proposal assets, by the events in their id
    pc,         \* where each process is
    cycle,      \* the locals of each process's cycle
    faults,     \* faults so far
    counted,    \* history: how often each event's urgency was added
    lapsed,     \* history: events whose replay key was compacted away
    lost        \* history: events of proposals cut off after the wake state

stored == <<cursor, journal, wake, proposals>>
history == <<counted, lapsed, lost>>
vars == <<lease, rows, bad, stored, pc, cycle, faults, history>>

-----------------------------------------------------------------------------
(* Data. *)

Row == 1..MaxRows

Null == -1                      \* SignalCursor.position before the first save
Position == Null..MaxRows

Key == Row \X Position \X Row

\* The row CsvSignalSource.poll starts after.
Start(position) == IF position = Null THEN 0 ELSE position

WakeState == [version: Nat, seen: SUBSET Row, pending: Seq(Row)]

NoCycle == [token |-> 0, before |-> Null, after |-> 0, todo |-> {}, fresh |-> {},
            version |-> 0, seen |-> {}, pending |-> <<>>, new |-> {}, aged |-> {},
            due |-> <<>>, persisted |-> FALSE]

Cycle == [token: Nat, before: Position, after: 0..MaxRows, todo: SUBSET Row,
          fresh: SUBSET Row, version: Nat, seen: SUBSET Row, pending: Seq(Row),
          new: SUBSET Row, aged: SUBSET Row, due: Seq(Seq(Row)), persisted: BOOLEAN]

Stage == {"idle", "cursor", "poll", "claim", "load", "check", "persist", "propose",
          "settle", "save", "catch", "release"}

TypeOK ==
    /\ lease \in LeaseRow
    /\ rows \in 0..MaxRows
    /\ bad \subseteq 0..MaxRows
    /\ cursor \in [pos: Position, token: Nat]
    /\ journal \in [Key -> {"none", "intent", "applied", "failed", "unknown"}]
    /\ wake \in WakeState
    /\ proposals \subseteq Seq(Row)
    /\ pc \in [Process -> Stage]
    /\ cycle \in [Process -> Cycle]
    /\ faults \in Nat
    /\ counted \in [Row -> Nat]
    /\ lapsed \subseteq Row
    /\ lost \subseteq Row

Init ==
    /\ LeaseInit
    /\ rows = 0
    /\ bad = {}
    /\ cursor = [pos |-> Null, token |-> 0]
    /\ journal = [k \in Key |-> "none"]
    /\ wake = [version |-> 0, seen |-> {}, pending |-> <<>>]
    /\ proposals = {}
    /\ pc = [p \in Process |-> "idle"]
    /\ cycle = [p \in Process |-> NoCycle]
    /\ faults = 0
    /\ counted = [e \in Row |-> 0]
    /\ lapsed = {}
    /\ lost = {}

First(S) == CHOOSE e \in S : \A f \in S : e <= f

RankIn(S, e) == Cardinality({f \in S : f <= e})

\* The rows of S in their order.
InOrderOf(S) == [i \in 1..Cardinality(S) |-> CHOOSE e \in S : RankIn(S, e) = i]

\* observedSignalIdempotencyKey of row e as the process polled it.
KeyOf(p, e) == <<e, cycle[p].before, cycle[p].after>>

\* The process runs under a lease that is current.
Holds(p) == pc[p] # "idle" /\ IsHeartbeatLeaseCurrent(p, cycle[p].token)

Goto(p, stage) == pc' = [pc EXCEPT ![p] = stage]

Set(p, locals) == cycle' = [cycle EXCEPT ![p] = locals]

\* The try block ends in an error: its catch visits the fresh keys.
Fail(p) ==
    /\ Goto(p, IF cycle[p].fresh = {} THEN "release" ELSE "catch")
    /\ Set(p, [cycle[p] EXCEPT !.todo = cycle[p].fresh])

\* Events of the proposals a process still has to save.
Due(p) == UNION {Range(cycle[p].due[i]) : i \in DOMAIN cycle[p].due}

-----------------------------------------------------------------------------
(* pollOnce up to the wake evaluation. *)

\* claimHeartbeatLease; companyWakeEvaluate has asserted events only, which
\* match no subscription, and goes straight to the wake state.
Claim(p) ==
    /\ pc[p] = "idle"
    /\ ClaimHeartbeatLease(p)
    /\ Goto(p, IF p \in Pollers THEN "cursor" ELSE "load")
    /\ Set(p, [NoCycle EXCEPT !.token = lease'.token])
    /\ UNCHANGED <<rows, bad, stored, faults, history>>

GetSignalCursor(p) ==
    /\ pc[p] = "cursor"
    /\ Goto(p, "poll")
    /\ Set(p, [cycle[p] EXCEPT !.before = cursor.pos])
    /\ UNCHANGED <<lease, rows, bad, stored, faults, history>>

\* CsvSignalSource.poll throws: the header misses columns, the file is missing or
\* shorter than the position, or one of the rows after the position is malformed,
\* of another Company or source, or outside the adapter's contract.
PollThrows(position) == 0 \in bad \/ bad \cap (Start(position) + 1 .. rows) # {}

\* connector.poll and the attestation of what it returned.  One rejected row
\* rejects the whole batch, before any key is claimed.
Poll(p) ==
    /\ pc[p] = "poll"
    /\ IF PollThrows(cycle[p].before)
       THEN Goto(p, "release") /\ UNCHANGED cycle
       ELSE LET batch == Start(cycle[p].before) + 1 .. rows
            IN  /\ Set(p, [cycle[p] EXCEPT !.after = rows, !.todo = batch])
                /\ Goto(p, IF batch = {} THEN "save" ELSE "claim")
    /\ UNCHANGED <<lease, rows, bad, stored, faults, history>>

\* Mutant: a key that failed before counts as a duplicate.
ReconcileUnknown(k) == journal[k] \in {"intent", "unknown"}

\* A key some earlier poll claimed and did not apply.
RequiresReconciliation(k) == journal[k] \notin {"none", "applied"}

\* Mutant: a batch without a fresh event leaves the cursor where it was.
OnlyFreshSaves(fresh) == IF fresh = {} THEN "release" ELSE "load"

\* A batch without a fresh event goes straight to the cursor.
AfterClaims(fresh) == IF fresh = {} THEN "save" ELSE "load"

\* claimIdempotency of the next event: a new key is fresh, an applied one is a
\* duplicate, any other throws and leaves the keys claimed so far as they are.
ClaimKey(p) ==
    /\ pc[p] = "claim"
    /\ LET e     == First(cycle[p].todo)
           k     == KeyOf(p, e)
           todo  == cycle[p].todo \ {e}
           fresh == cycle[p].fresh \cup (IF journal[k] = "none" THEN {e} ELSE {})
       IN  /\ journal' = [journal EXCEPT ![k] = IF @ = "none" THEN "intent" ELSE @]
           /\ Set(p, [cycle[p] EXCEPT !.todo = todo, !.fresh = fresh])
           /\ Goto(p, IF RequiresReconciliation(k) THEN "release"
                      ELSE IF todo # {} THEN "claim" ELSE AfterClaims(fresh))
    /\ UNCHANGED <<lease, rows, bad, cursor, wake, proposals, faults, history>>

-----------------------------------------------------------------------------
(* The wake evaluation and its persistence. *)

\* GovernedWakeEngine.evaluate: of the events pending before and the new ones in
\* row order, those up to each crossing form one proposal and the rest stay
\* pending.
UpTo(pending, new, crossings, c) ==
    LET earlier == {d \in crossings : d < c}
        own     == {e \in new : e <= c /\ \A d \in earlier : d < e}
    IN  (IF earlier = {} THEN pending ELSE <<>>) \o InOrderOf(own)

\* Mutant: only the events of this evaluation stay pending.
RemainingNew(pending, new, crossings) ==
    InOrderOf({e \in new : \A d \in crossings : d < e})

Remaining(pending, new, crossings) ==
    (IF crossings = {} THEN pending ELSE <<>>)
        \o InOrderOf({e \in new : \A d \in crossings : d < e})

\* loadWakeState and evaluate: keys past their retention are compacted away,
\* then a fresh event is counted unless its key is still retained.
LoadWakeState(p) ==
    /\ pc[p] = "load"
    /\ \E aged \in SUBSET (wake.seen \cap Lapsing) :
         LET retained == wake.seen \ aged
             new      == cycle[p].fresh \ retained
         IN  \E crossings \in SUBSET new :
               LET cs == InOrderOf(crossings)
               IN  Set(p, [cycle[p] EXCEPT
                     !.version = wake.version,
                     !.aged    = aged,
                     !.new     = new,
                     !.seen    = retained \cup new,
                     !.pending = Remaining(wake.pending, new, crossings),
                     !.due     = [i \in DOMAIN cs |->
                                    UpTo(wake.pending, new, crossings, cs[i])]])
    /\ Goto(p, "check")
    /\ UNCHANGED <<lease, rows, bad, stored, faults, history>>

\* isHeartbeatLeaseCurrent before the wake state is persisted.
CheckLease(p) ==
    /\ pc[p] = "check"
    /\ IF IsHeartbeatLeaseCurrent(p, cycle[p].token)
       THEN Goto(p, "persist") /\ UNCHANGED cycle
       ELSE Fail(p)
    /\ UNCHANGED <<lease, rows, bad, stored, faults, history>>

\* Where a cycle goes once nothing is left to propose; wakePersisted = true.
Persisted(p) ==
    /\ Goto(p, IF p \in Pollers THEN "settle" ELSE "release")
    /\ Set(p, [cycle[p] EXCEPT !.todo = cycle[p].fresh, !.due = <<>>,
                               !.persisted = TRUE])

\* Mutant: the wake state is written unconditionally.
OverwriteWake(p) == wake.version >= cycle[p].version

\* saveAsset with the version the wake state was read at (0: it must not exist).
WakeUnchanged(p) == wake.version = cycle[p].version

SaveWakeState(p) ==
    /\ pc[p] = "persist"
    /\ IF WakeUnchanged(p)
       THEN /\ wake' = [version |-> wake.version + 1, seen |-> cycle[p].seen,
                        pending |-> cycle[p].pending]
            /\ counted' = [e \in Row |->
                             counted[e] + IF e \in cycle[p].new THEN 1 ELSE 0]
            /\ lapsed' = lapsed \cup cycle[p].aged
            /\ IF cycle[p].due = <<>> THEN Persisted(p)
                                      ELSE Goto(p, "propose") /\ UNCHANGED cycle
       ELSE Fail(p) /\ UNCHANGED <<wake, counted, lapsed>>
    /\ UNCHANGED <<lease, rows, bad, cursor, journal, proposals, faults, lost>>

\* saveAsset of the next proposal; an asset that already exists is a conflict.
SaveProposal(p) ==
    /\ pc[p] = "propose"
    /\ IF Head(cycle[p].due) \in proposals
       THEN Fail(p) /\ lost' = lost \cup Due(p) /\ UNCHANGED proposals
       ELSE /\ proposals' = proposals \cup {Head(cycle[p].due)}
            /\ IF Len(cycle[p].due) = 1
               THEN Persisted(p)
               ELSE /\ Set(p, [cycle[p] EXCEPT !.due = Tail(@)])
                    /\ UNCHANGED pc
            /\ UNCHANGED lost
    /\ UNCHANGED <<lease, rows, bad, cursor, journal, wake, faults, counted, lapsed>>

-----------------------------------------------------------------------------
(* Settlement. *)

\* markIdempotency "applied", key by key.  Only the claimant of a key knows its
\* owner and token, so the update finds its row.
MarkApplied(p) ==
    /\ pc[p] = "settle"
    /\ LET e == First(cycle[p].todo)
       IN  /\ journal' = [journal EXCEPT ![KeyOf(p, e)] = "applied"]
           /\ Set(p, [cycle[p] EXCEPT !.todo = @ \ {e}])
           /\ Goto(p, IF cycle[p].todo = {e} THEN "save" ELSE "settle")
    /\ UNCHANGED <<lease, rows, bad, cursor, wake, proposals, faults, history>>

\* Mutant: the write asks only whether the worker identifier holds a lease.
MaySaveUnfenced(p) == lease.owner = OwnerOf[p] /\ lease.live

\* The WHERE clauses of saveSignalCursor.
MaySaveCursor(p) ==
    /\ IsHeartbeatLeaseCurrent(p, cycle[p].token)
    /\ cycle[p].token >= cursor.token

SaveSignalCursor(p) ==
    /\ pc[p] = "save"
    /\ IF MaySaveCursor(p)
       THEN /\ cursor' = [pos |-> cycle[p].after, token |-> cycle[p].token]
            /\ Goto(p, "release")
            /\ UNCHANGED cycle
       ELSE Fail(p) /\ UNCHANGED cursor
    /\ UNCHANGED <<lease, rows, bad, journal, wake, proposals, faults, history>>

\* The catch block: a fresh key still in intent becomes unknown once the wake
\* state was persisted and failed before that.
MarkFailed(p) ==
    /\ pc[p] = "catch"
    /\ LET e == First(cycle[p].todo)
       IN  /\ journal' = [journal EXCEPT ![KeyOf(p, e)] =
                            IF @ # "intent" THEN @
                            ELSE IF cycle[p].persisted THEN "unknown" ELSE "failed"]
           /\ Set(p, [cycle[p] EXCEPT !.todo = @ \ {e}])
           /\ Goto(p, IF cycle[p].todo = {e} THEN "release" ELSE "catch")
    /\ UNCHANGED <<lease, rows, bad, cursor, wake, proposals, faults, history>>

Release(p) ==
    /\ pc[p] = "release"
    /\ ReleaseHeartbeatLease(p, cycle[p].token)
    /\ Goto(p, "idle")
    /\ Set(p, NoCycle)
    /\ UNCHANGED <<rows, bad, stored, faults, history>>

-----------------------------------------------------------------------------
(* The source, the clock and faults. *)

AddRow ==
    /\ rows < MaxRows
    /\ rows' = rows + 1
    /\ UNCHANGED <<lease, bad, stored, pc, cycle, faults, history>>

\* The file, or a row of it, is spoiled, perhaps as soon as it is written.
Spoil(e) ==
    /\ e \in 0..rows
    /\ faults < MaxFaults
    /\ faults' = faults + 1
    /\ bad' = bad \cup {e}
    /\ UNCHANGED <<lease, rows, stored, pc, cycle, history>>

\* Somebody corrects the file.
Mend ==
    /\ bad # {}
    /\ bad' = {}
    /\ UNCHANGED <<lease, rows, stored, pc, cycle, faults, history>>

CutOff(p) == IF pc[p] = "propose" THEN Due(p) ELSE {}

\* A call throws: outside the inner try, or in its catch, only the lease is
\* released.
Throw(p) ==
    /\ pc[p] \notin {"idle", "release"}
    /\ faults < MaxFaults
    /\ faults' = faults + 1
    /\ IF pc[p] \in {"cursor", "poll", "claim", "catch"}
       THEN Goto(p, "release") /\ UNCHANGED cycle
       ELSE Fail(p)
    /\ lost' = lost \cup CutOff(p)
    /\ UNCHANGED <<lease, rows, bad, stored, counted, lapsed>>

Crash(p) ==
    /\ pc[p] # "idle"
    /\ faults < MaxFaults
    /\ faults' = faults + 1
    /\ Goto(p, "idle")
    /\ Set(p, NoCycle)
    /\ lost' = lost \cup CutOff(p)
    /\ UNCHANGED <<lease, rows, bad, stored, counted, lapsed>>

\* A cycle outlives its lease and carries on without it.
Overrun(p) ==
    /\ Holds(p)
    /\ faults < MaxFaults
    /\ faults' = faults + 1
    /\ ExpireLease
    /\ UNCHANGED <<rows, bad, stored, pc, cycle, history>>

\* The lease of a process that is gone runs out.
ExpireAbandoned ==
    /\ ~\E p \in Process : Holds(p)
    /\ ExpireLease
    /\ UNCHANGED <<rows, bad, stored, pc, cycle, faults, history>>

\* The steps of a cycle that has its lease.
Proceed(p) ==
    \/ GetSignalCursor(p) \/ Poll(p) \/ ClaimKey(p)
    \/ LoadWakeState(p) \/ CheckLease(p) \/ SaveWakeState(p) \/ SaveProposal(p)
    \/ MarkApplied(p) \/ SaveSignalCursor(p) \/ MarkFailed(p) \/ Release(p)

Step(p) == Claim(p) \/ Proceed(p)

Next ==
    \/ \E p \in Process : Step(p) \/ Throw(p) \/ Crash(p) \/ Overrun(p)
    \/ AddRow
    \/ \E e \in 0..MaxRows : Spoil(e)
    \/ Mend
    \/ ExpireAbandoned

Spec == Init /\ [][Next]_vars

\* The calls of a cycle that has its lease return or throw.  Nothing else is owed:
\* no timer has to start a cycle, nobody has to mend the file and no lease has to
\* run out.
FairSpec == Spec /\ \A p \in Process : WF_vars(Proceed(p))

-----------------------------------------------------------------------------
(* Correctness. *)

\* The signal cursor passes a row only after the row's urgency was counted in
\* the persisted wake state, whichever process moves it.
NoRowSkipped == \A e \in Row : e <= cursor.pos => counted[e] > 0

\* An event is counted once.  A failed poll can bring it back under another key
\* when the file has grown; the replay keys of the wake state then suppress it
\* for as long as they are retained.
CountedOnce == \A e \in Row : counted[e] > 1 => e \in lapsed

\* A counted event is pending, proposed or about to be proposed, unless its
\* proposal was cut off between the wake state and the proposal asset.
NothingLost ==
    \A e \in Row : counted[e] > 0 =>
        \/ e \in Range(wake.pending) \cup UNION {Range(q) : q \in proposals}
        \/ \E p \in Process : pc[p] = "propose" /\ e \in Due(p)
        \/ e \in lost

\* The saved position never goes back although saveSignalCursor does not compare
\* positions: the lease, its token and the reading order are what ensures it.
SignalCursorNeverRegresses ==
    [][cursor'.pos >= cursor.pos /\ cursor'.token >= cursor.token]_vars

\* A key nobody will settle any more: only a reconciler could.
Abandoned(k) ==
    \/ journal[k] \in {"failed", "unknown"}
    \/ /\ journal[k] = "intent"
       /\ ~\E p \in Process : /\ k[1] \in cycle[p].fresh
                              /\ KeyOf(p, k[1]) = k
                              /\ pc[p] # "release"

\* Polls a row still needs at most: one for each fault to come, one that may be
\* under way and one more.
PollsNeeded == (MaxFaults - faults) + 2

\* Two cycles overlap, or a wake evaluation takes the lease.
Disturbed ==
    \/ \E p, q \in Process : p # q /\ pc[p] # "idle" /\ pc[q] # "idle"
    \/ \E p \in Process \ Pollers : pc[p] # "idle"

\* As long as polls are not disturbed, a source stops behind a key that requires
\* reconciliation or behind what it cannot read, and behind nothing else: each row
\* is passed once as many polls as it needs have been granted the lease, whoever
\* started them and whatever happened before.  After the file is mended the same
\* holds again.
PassedOrReconciling ==
    \A e \in Row :
        (e <= rows /\ lease.token + PollsNeeded <= MaxToken /\ <>(lease.token = MaxToken))
            ~> \/ e <= cursor.pos \/ Disturbed
               \/ PollThrows(cursor.pos) \/ \E k \in Key : Abandoned(k)

\* "unknown/reconciliation blocks cursor advancement"
\* (docs/CURRENT_ARCHITECTURE_2026-08-25.md): the cursor does not pass an event
\* that has a key in state unknown.
UnknownBlocksCursor ==
    [][\A k \in Key :
         journal[k] = "unknown" /\ cursor.pos < k[1] => cursor'.pos < k[1]]_vars

==============================================================================
