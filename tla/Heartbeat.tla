------------------------------- MODULE Heartbeat -------------------------------
(***************************************************************************)
(* HeartbeatEngine.tick run by several workers of one Company against the  *)
(* PostgreSQL store: claim the lease, read the cursor, list the events     *)
(* after it, wake the attention plane if something is material, write the  *)
(* cursor under the lease, release.  Every store call is its own           *)
(* transaction, so other workers, producers and the clock act in between.  *)
(*                                                                         *)
(* An event is its place in the (occurred_at, id) order, a positive number *)
(* (0 is "no event").  The clock of that order is the producer's, not the  *)
(* database's: events may be appended behind one already listed.           *)
(***************************************************************************)
EXTENDS HeartbeatLease, FiniteSets

CONSTANTS
    Events,      \* the events producers may append
    Material,    \* those isMaterialEvent accepts
    EventLimit,  \* options.eventLimit
    MaxFaults    \* bound of the model: exceptions, crashes and overrun leases

ASSUME HeartbeatAssumption ==
    /\ Events \subseteq Nat \ {0}
    /\ Material \subseteq Events
    /\ EventLimit \in Nat \ {0}
    /\ MaxFaults \in Nat

VARIABLES
    appended,   \* events in xspa.business_events
    cursor,     \* xspa.heartbeat_cursors: last event and fencing token
    pc,         \* where each process is inside tick
    tick,       \* the locals of each process's tick
    faults,     \* faults so far
    woken,      \* history: events given to a wake handler that returned
    late        \* history: events appended behind the cursor or a live listing

vars == <<lease, appended, cursor, pc, tick, faults, woken, late>>

NoEvent == 0

Tick == [token: Nat, from: Nat, last: Nat, events: SUBSET Events]

NoTick == [token |-> 0, from |-> 0, last |-> NoEvent, events |-> {}]

Stage == {"idle", "cursor", "list", "wake", "save", "release"}

TypeOK ==
    /\ lease \in LeaseRow
    /\ appended \subseteq Events
    /\ cursor \in [pos: Nat, token: Nat]
    /\ pc \in [Process -> Stage]
    /\ tick \in [Process -> Tick]
    /\ faults \in Nat
    /\ woken \subseteq Events
    /\ late \subseteq Events

Init ==
    /\ LeaseInit
    /\ appended = {}
    /\ cursor = [pos |-> NoEvent, token |-> 0]
    /\ pc = [p \in Process |-> "idle"]
    /\ tick = [p \in Process |-> NoTick]
    /\ faults = 0
    /\ woken = {}
    /\ late = {}

-----------------------------------------------------------------------------
(* What a tick sees and may write. *)

\* The process is inside a tick whose lease is current.
Holds(p) == pc[p] # "idle" /\ IsHeartbeatLeaseCurrent(p, tick[p].token)

\* Mutant: the page starts one event too late.
ListedBeyond(from, last) == {e \in appended : from + 1 < e /\ e <= last}

\* listEventsAfter(from): everything after from, up to and including last.
Listed(from, last) == {e \in appended : from < e /\ e <= last}

\* last closes the page ORDER BY (occurred_at, id) LIMIT EventLimit returns.
IsPage(from, last) ==
    LET rest == {e \in appended : from < e}
    IN  IF rest = {}
        THEN last = NoEvent
        ELSE /\ last \in rest
             /\ \/ Cardinality(Listed(from, last)) = EventLimit
                \/ /\ Listed(from, last) = rest
                   /\ Cardinality(rest) < EventLimit

\* Mutant: the write asks only whether the worker identifier holds a lease.
MaySaveUnfenced(p) == lease.owner = OwnerOf[p] /\ lease.live

\* The WHERE clause of saveHeartbeatCursor.
MaySaveCursor(p) ==
    /\ IsHeartbeatLeaseCurrent(p, tick[p].token)
    /\ tick[p].token >= cursor.token
    /\ \/ tick[p].last = NoEvent
       \/ cursor.pos <= tick[p].last

-----------------------------------------------------------------------------
(* HeartbeatEngine.tick, one action per store call. *)

Claim(p) ==
    /\ pc[p] = "idle"
    /\ ClaimHeartbeatLease(p)
    /\ pc' = [pc EXCEPT ![p] = "cursor"]
    /\ tick' = [tick EXCEPT ![p] = [NoTick EXCEPT !.token = lease'.token]]
    /\ UNCHANGED <<appended, cursor, faults, woken, late>>

\* Mutant: a missing cursor row is passed on as null.
GetNullCursor(p) ==
    /\ pc[p] = "cursor"
    /\ pc' = [pc EXCEPT ![p] = "list"]
    /\ tick' = [tick EXCEPT ![p].from = IF cursor.pos = NoEvent THEN Nobody ELSE cursor.pos]
    /\ UNCHANGED <<lease, appended, cursor, faults, woken, late>>

GetCursor(p) ==
    /\ pc[p] = "cursor"
    /\ pc' = [pc EXCEPT ![p] = "list"]
    /\ tick' = [tick EXCEPT ![p].from = cursor.pos]
    /\ UNCHANGED <<lease, appended, cursor, faults, woken, late>>

\* Mutant: a tick that wakes nobody leaves its cursor where it was.
OnlyWakingSaves(isMaterial) == IF isMaterial THEN "wake" ELSE "release"

\* A tick that found nothing material goes on to its cursor.
AfterListing(isMaterial) == IF isMaterial THEN "wake" ELSE "save"

\* listEventsAfter and listDueJobs.  Whether some due job is material is open:
\* jobs live elsewhere and a tick does not change them.
ListEvents(p) ==
    /\ pc[p] = "list"
    /\ \E last \in appended \cup {NoEvent}, materialJobs \in BOOLEAN :
         LET material == Listed(tick[p].from, last) \cap Material
         IN  /\ IsPage(tick[p].from, last)
             /\ tick' = [tick EXCEPT ![p] =
                            [@ EXCEPT !.last = last, !.events = material]]
             /\ pc' = [pc EXCEPT ![p] = AfterListing(material # {} \/ materialJobs)]
    /\ UNCHANGED <<lease, appended, cursor, faults, woken, late>>

\* The wake handler returns.
Wake(p) ==
    /\ pc[p] = "wake"
    /\ pc' = [pc EXCEPT ![p] = "save"]
    /\ woken' = woken \cup tick[p].events
    /\ UNCHANGED <<lease, appended, cursor, tick, faults, late>>

\* saveHeartbeatCursor.  An empty page keeps the position and refreshes the
\* token; a refused write throws, and either way finally releases the lease.
SaveCursor(p) ==
    /\ pc[p] = "save"
    /\ pc' = [pc EXCEPT ![p] = "release"]
    /\ cursor' = IF MaySaveCursor(p)
                 THEN [pos |-> IF tick[p].last = NoEvent THEN cursor.pos
                                                         ELSE tick[p].last,
                       token |-> tick[p].token]
                 ELSE cursor
    /\ UNCHANGED <<lease, appended, tick, faults, woken, late>>

Release(p) ==
    /\ pc[p] = "release"
    /\ ReleaseHeartbeatLease(p, tick[p].token)
    /\ pc' = [pc EXCEPT ![p] = "idle"]
    /\ UNCHANGED <<appended, cursor, tick, faults, woken, late>>

-----------------------------------------------------------------------------
(* Producers, the clock and faults. *)

\* appendEvent of a new idempotency key.
Append(e) ==
    /\ e \notin appended
    /\ appended' = appended \cup {e}
    /\ late' = IF \/ e <= cursor.pos
                  \/ \E p \in Process : /\ Holds(p)
                                        /\ pc[p] \in {"wake", "save"}
                                        /\ e < tick[p].last
               THEN late \cup {e} ELSE late
    /\ UNCHANGED <<lease, cursor, pc, tick, faults, woken>>

\* Mutant: the exception is swallowed and the tick goes on to its cursor.
ThrowSwallowed(p) ==
    /\ pc[p] \in {"cursor", "list", "wake", "save"}
    /\ faults < MaxFaults
    /\ faults' = faults + 1
    /\ pc' = [pc EXCEPT ![p] = "save"]
    /\ UNCHANGED <<lease, appended, cursor, tick, woken, late>>

\* A store call or the wake handler throws: finally still releases the lease.
Throw(p) ==
    /\ pc[p] \in {"cursor", "list", "wake", "save"}
    /\ faults < MaxFaults
    /\ faults' = faults + 1
    /\ pc' = [pc EXCEPT ![p] = "release"]
    /\ UNCHANGED <<lease, appended, cursor, tick, woken, late>>

\* The process dies, or its release call fails: the lease is left to expire.
Crash(p) ==
    /\ pc[p] # "idle"
    /\ faults < MaxFaults
    /\ faults' = faults + 1
    /\ pc' = [pc EXCEPT ![p] = "idle"]
    /\ UNCHANGED <<lease, appended, cursor, tick, woken, late>>

\* The lease of a process that is gone runs out.
ExpireAbandoned ==
    /\ ~\E p \in Process : Holds(p)
    /\ ExpireLease
    /\ UNCHANGED <<appended, cursor, pc, tick, faults, woken, late>>

\* A tick outlives its lease and carries on without it.
Overrun(p) ==
    /\ Holds(p)
    /\ faults < MaxFaults
    /\ faults' = faults + 1
    /\ ExpireLease
    /\ UNCHANGED <<appended, cursor, pc, tick, woken, late>>

\* The steps of a tick that has its lease.
Proceed(p) == GetCursor(p) \/ ListEvents(p) \/ Wake(p) \/ SaveCursor(p) \/ Release(p)

Step(p) == Claim(p) \/ Proceed(p)

Next ==
    \/ \E p \in Process : Step(p) \/ Throw(p) \/ Crash(p) \/ Overrun(p)
    \/ \E e \in Events : Append(e)
    \/ ExpireAbandoned

Spec == Init /\ [][Next]_vars

\* Store calls and the wake handler of a tick that has its lease return or throw.
\* Nothing else is owed: nothing here calls tick, no producer has to append and no
\* lease has to run out.
FairSpec == Spec /\ \A p \in Process : WF_vars(Proceed(p))

-----------------------------------------------------------------------------
(* Correctness. *)

\* The cursor never passes a material event that no wake handler finished
\* with, except events appended behind what the tick had already listed.
NoEventSkipped ==
    \A e \in appended \cap Material :
        e <= cursor.pos => e \in woken \cup late

\* A tick that still owns the lease works on the cursor it read: no other
\* worker's write has slipped in between its read and its own write.
OwnViewIsExact ==
    \A p \in Process :
        /\ Holds(p)
        /\ pc[p] \in {"list", "wake", "save"}
        => tick[p].from = cursor.pos

\* The heartbeat cursor "cannot regress (occurred_at, event_id)", and neither
\* can its fencing token, whatever stale workers attempt.
CursorNeverRegresses ==
    [][cursor'.pos >= cursor.pos /\ cursor'.token >= cursor.token]_vars

\* An old holder can neither write the cursor nor end the lease once another
\* claim has obtained a higher token, even under the same worker identifier.
StaleHolderPowerless ==
    [][\A p \in Process :
         /\ pc[p] \notin {"idle"}
         /\ tick[p].token < lease.token
         /\ pc'[p] # pc[p]
         => UNCHANGED <<lease, cursor>>]_vars

\* The heartbeat is an at-least-once event consumer, whatever its workers, leases
\* and faults do: what producers append at the end of the log is never missed.
Consumer == INSTANCE EventConsumer WITH
    position <- cursor.pos, handled <- woken, excused <- late

ConsumerSpec == Consumer!Spec

\* Ticks an event still needs at most: one for each fault to come and one for
\* each event that can be ahead of it.
TicksNeeded == (MaxFaults - faults) + Cardinality(Events)

\* Ticks that were granted the lease are enough to get past an appended event:
\* once as many have been as it needs, the cursor reaches it, whoever called them
\* and whenever.  That anyone calls tick is up to the deployment.
EventuallyPassed ==
    \A e \in Events, n \in 1..MaxToken :
        (e \in appended /\ lease.token + TicksNeeded <= n /\ <>(lease.token >= n))
            ~> (e <= cursor.pos)

==============================================================================
