------------------------------- MODULE KastLedger -------------------------------
(***************************************************************************)
(* The KAST ledger of one company in PostgreSQL: closeHarnessSession calls *)
(* that record observations and then leave a receipt, and maintainers that *)
(* promote an entry to improvement work or mark it verified.               *)
(*                                                                         *)
(* Every caller reads an entry in one transaction and hands back a whole   *)
(* entry in another; upsertEntry locks the fingerprint and merges what it  *)
(* is handed with what is stored by then.  Texts, paths and evidence lists *)
(* only grow by union and are left out; whether both the regression guards *)
(* and the verification evidence of an entry are recorded is kept.         *)
(***************************************************************************)
EXTENDS Naturals, FiniteSets

CONSTANTS
    Closer,       \* concurrent calls of closeHarnessSession
    Session,      \* session references
    SessionOf,    \* the session each call closes
    Maintainer,   \* concurrent callers of promote and verify
    Fingerprint,  \* canonical fingerprints
    Security,     \* those of category security
    Severity,     \* severity ranks observed, of 0..3
    Nobody,       \* no identifier
    MaxTime,      \* bound of the model: the last time stamp
    MaxFaults     \* bound of the model: calls cut short

ASSUME KastAssumption ==
    /\ SessionOf \in [Closer -> Session]
    /\ IsFiniteSet(Session)
    /\ Security \subseteq Fingerprint
    /\ Severity \subseteq 0..3
    /\ Nobody \notin Closer
    /\ MaxTime \in Nat
    /\ MaxFaults \in Nat

VARIABLES
    entries,      \* xspa.kast_entries by fingerprint
    occurrences,  \* xspa.kast_occurrences: pairs of fingerprint and session
    receipts,     \* xspa.session_close_receipts by session
    now,          \* the time
    cpc,          \* where each closer is
    call,         \* the locals of each closer
    held,         \* the entry each maintainer read and has not acted on
    faults,       \* faults so far
    verified      \* history: fingerprints marked verified and not observed since

stored == <<entries, occurrences, receipts>>
vars == <<stored, now, cpc, call, held, faults, verified>>

-----------------------------------------------------------------------------
(* Data. *)

\* An identifier is random: here, the call that drew it.
Id == Closer \cup {Nobody}

Status == {"candidate", "accepted", "verified"}

Entry == [id: Id, sessions: SUBSET Session, count: Nat, severity: 0..3,
          status: Status, work: Id, seen: 0..MaxTime, guarded: BOOLEAN]

NoEntry == [id |-> Nobody, sessions |-> {}, count |-> 0, severity |-> 0,
            status |-> "candidate", work |-> Nobody, seen |-> 0, guarded |-> FALSE]

\* The rows a receipt names, and whether it was saved.
Receipt == [saved: BOOLEAN, names: SUBSET (Fingerprint \X Id)]

NoReceipt == [saved |-> FALSE, names |-> {}]

\* A safe observation: what falls under one fingerprint is one issue.
Observation == [of: Fingerprint, severity: Severity, at: 0..now]

Call == [of: Fingerprint, entry: Entry, names: SUBSET (Fingerprint \X Id)]

Larger(a, b) == IF a >= b THEN a ELSE b

Exists(f) == entries[f].id # Nobody

TypeOK ==
    /\ entries \in [Fingerprint -> Entry]
    /\ occurrences \subseteq Fingerprint \X Session
    /\ receipts \in [Session -> Receipt]
    /\ now \in 0..MaxTime
    /\ cpc \in [Closer -> {"idle", "observe", "upsert", "read"}]
    /\ call \in [Closer -> Call]
    /\ held \in [Maintainer -> [of: Fingerprint, entry: Entry]]
    /\ faults \in 0..MaxFaults
    /\ verified \subseteq Fingerprint

Init ==
    /\ entries = [f \in Fingerprint |-> NoEntry]
    /\ occurrences = {}
    /\ receipts = [s \in Session |-> NoReceipt]
    /\ now = 0
    /\ cpc = [c \in Closer |-> "idle"]
    /\ call \in [Closer -> [of: Fingerprint, entry: {NoEntry}, names: {{}}]]
    /\ held \in [Maintainer -> [of: Fingerprint, entry: {NoEntry}]]
    /\ faults = 0
    /\ verified = {}

-----------------------------------------------------------------------------
(* The store. *)

\* The status of the merge: promotion stays, and whatever is newer than a
\* verification reopens the entry.
MergedStatus(current, incoming) ==
    IF current.status = "accepted" THEN "accepted"
    ELSE IF current.status = "verified" /\ incoming.seen > current.seen THEN "candidate"
    ELSE incoming.status

\* Mutant: the count the caller computed is stored.
MergeKeepsCount(current, incoming) ==
    [current EXCEPT
       !.severity = Larger(@, incoming.severity),
       !.sessions = @ \cup incoming.sessions,
       !.count = Larger(@, incoming.count),
       !.seen = Larger(@, incoming.seen),
       !.status = MergedStatus(current, incoming),
       !.work = IF @ # Nobody THEN @ ELSE incoming.work,
       !.guarded = @ \/ incoming.guarded]

\* Mutant: the incoming status wins.
MergeForgetsPromotion(current, incoming) ==
    [current EXCEPT
       !.severity = Larger(@, incoming.severity),
       !.sessions = @ \cup incoming.sessions,
       !.count = Cardinality(current.sessions \cup incoming.sessions),
       !.seen = Larger(@, incoming.seen),
       !.status = incoming.status,
       !.work = IF @ # Nobody THEN @ ELSE incoming.work,
       !.guarded = @ \/ incoming.guarded]

\* mergeEntries.
Merge(current, incoming) ==
    [current EXCEPT
       !.severity = Larger(@, incoming.severity),
       !.sessions = @ \cup incoming.sessions,
       !.count = Cardinality(current.sessions \cup incoming.sessions),
       !.seen = Larger(@, incoming.seen),
       !.status = MergedStatus(current, incoming),
       !.work = IF @ # Nobody THEN @ ELSE incoming.work,
       !.guarded = @ \/ incoming.guarded]

\* upsertEntry: one transaction under the lock of the fingerprint.
UpsertEntry(f, incoming) ==
    /\ entries' = [entries EXCEPT
                     ![f] = IF Exists(f) THEN Merge(@, incoming) ELSE incoming]
    /\ occurrences' = occurrences \cup ({f} \X incoming.sessions)

-----------------------------------------------------------------------------
(* closeHarnessSession. *)

Goto(c, stage) == cpc' = [cpc EXCEPT ![c] = stage]

\* The locals of a call that ends.
Forget(c) == call' = [call EXCEPT ![c].entry = NoEntry, ![c].names = {}]

\* getSessionClose: a session that has a receipt is closed, the call returns it.
BeginClose(c) ==
    /\ cpc[c] = "idle"
    /\ ~receipts[SessionOf[c]].saved
    /\ Goto(c, "observe")
    /\ UNCHANGED <<stored, now, call, held, faults, verified>>

\* The entry recordKastObservation makes of an observation and what it read.
Recorded(c, o) ==
    LET old == entries[o.of]
        s == SessionOf[c]
    IN IF ~Exists(o.of)
       THEN [NoEntry EXCEPT !.id = c, !.sessions = {s}, !.count = 1,
                            !.severity = o.severity, !.seen = o.at]
       ELSE [old EXCEPT
               !.severity = Larger(@, o.severity),
               !.sessions = @ \cup {s},
               !.count = IF s \in old.sessions THEN @ ELSE @ + 1,
               !.seen = Larger(@, o.at),
               !.status = IF @ = "verified" THEN "candidate" ELSE @]

\* getByFingerprint before the upsert.  Each observation of the list comes once.
Observe(c) ==
    /\ cpc[c] = "observe"
    /\ \E o \in Observation :
         /\ ~\E i \in Id : <<o.of, i>> \in call[c].names
         /\ call' = [call EXCEPT ![c].of = o.of, ![c].entry = Recorded(c, o)]
    /\ Goto(c, "upsert")
    /\ UNCHANGED <<stored, now, held, faults, verified>>

Upsert(c) ==
    /\ cpc[c] = "upsert"
    /\ UpsertEntry(call[c].of, call[c].entry)
    /\ verified' = verified \ {call[c].of}
    /\ Goto(c, "read")
    /\ UNCHANGED <<receipts, now, call, held, faults>>

\* Mutant: the identifier the call drew is returned.
ReturnedCreated(c) == call[c].entry.id

\* getByFingerprint after the upsert: the stored identifier, whoever drew it.
Returned(c) == entries[call[c].of].id

ReadBack(c) ==
    /\ cpc[c] = "read"
    /\ call' = [call EXCEPT ![c].names = @ \cup {<<call[c].of, Returned(c)>>},
                            ![c].entry = NoEntry]
    /\ Goto(c, "observe")
    /\ UNCHANGED <<stored, now, held, faults, verified>>

\* saveSessionClose: ON CONFLICT DO NOTHING.  The call returns its own receipt.
SaveReceipt(c) ==
    /\ cpc[c] = "observe"
    /\ receipts' = [receipts EXCEPT
                      ![SessionOf[c]] = IF @.saved THEN @
                                        ELSE [saved |-> TRUE, names |-> call[c].names]]
    /\ Forget(c)
    /\ Goto(c, "idle")
    /\ UNCHANGED <<entries, occurrences, now, held, faults, verified>>

\* A rejected query, a refused observation or a crash ends the call here.
CutShort(c) ==
    /\ cpc[c] # "idle"
    /\ faults < MaxFaults
    /\ faults' = faults + 1
    /\ Forget(c)
    /\ Goto(c, "idle")
    /\ UNCHANGED <<stored, now, held, verified>>

-----------------------------------------------------------------------------
(* Maintainers. *)

\* getByFingerprint or listEntries: the caller keeps the entry for later.
ReadEntry(m) ==
    /\ \E f \in Fingerprint :
         /\ Exists(f)
         /\ held' = [held EXCEPT ![m] = [of |-> f, entry |-> entries[f]]]
    /\ UNCHANGED <<stored, now, cpc, call, faults, verified>>

\* The occurrences from which a severity is promoted.
Needed(severity) == 4 - severity

\* Mutant: a high issue is promoted at its first occurrence.
ShouldPromoteEarly(f, e) ==
    /\ e.status # "verified"
    /\ f \in Security \/ e.severity >= 2 \/ e.count >= Needed(e.severity)

\* shouldPromoteKast.
ShouldPromote(f, e) ==
    /\ e.status # "verified"
    /\ f \in Security \/ e.count >= Needed(e.severity)

\* The caller of an operation is done with the entry it held.
LetGo(m) == held' = [held EXCEPT ![m].entry = NoEntry]

\* promoteKastToImprovementWork: the work takes the identifier of the entry.
Promote(m) ==
    LET f == held[m].of
        e == held[m].entry
    IN /\ e.id # Nobody
       /\ ShouldPromote(f, e)
       /\ e.work = Nobody
       /\ UpsertEntry(f, [e EXCEPT !.status = "accepted", !.work = e.id])
       /\ LetGo(m)
       /\ UNCHANGED <<receipts, now, cpc, call, faults, verified>>

\* markKastVerified, with regression guards and verification evidence.
MarkVerified(m) ==
    LET f == held[m].of
        e == held[m].entry
    IN /\ e.id # Nobody
       /\ UpsertEntry(f, [e EXCEPT !.status = "verified", !.seen = now, !.guarded = TRUE])
       /\ verified' = verified \cup {f}
       /\ LetGo(m)
       /\ UNCHANGED <<receipts, now, cpc, call, faults>>

Pass ==
    /\ now < MaxTime
    /\ now' = now + 1
    /\ UNCHANGED <<stored, cpc, call, held, faults, verified>>

Next ==
    \/ \E c \in Closer :
         \/ BeginClose(c) \/ Observe(c) \/ Upsert(c) \/ ReadBack(c)
         \/ SaveReceipt(c) \/ CutShort(c)
    \/ \E m \in Maintainer : ReadEntry(m) \/ Promote(m) \/ MarkVerified(m)
    \/ Pass

Spec == Init /\ [][Next]_vars

-----------------------------------------------------------------------------
(* Correctness. *)

\* The recurrence promotion relies on is exact: an entry counts each session
\* that observed it once, whatever the sessions read before they wrote, and the
\* occurrence table says the same.
RecurrenceExact ==
    \A f \in Fingerprint :
        /\ entries[f].count = Cardinality(entries[f].sessions)
        /\ entries[f].sessions = {s \in Session : <<f, s>> \in occurrences}

\* A receipt names stored entries, and entries its session observed: two calls
\* that create one fingerprint at once both come to know the identifier that
\* won.
ReceiptNamesEntries ==
    \A s \in Session : \A n \in receipts[s].names :
        /\ Exists(n[1])
        /\ entries[n[1]].id = n[2]
        /\ s \in entries[n[1]].sessions

\* Improvement work exists only for an issue that is critical, of security or
\* recurred often enough for its severity, however old the entry was that the
\* maintainer decided on.
PromotedIsJustified ==
    \A f \in Fingerprint :
        /\ (entries[f].work # Nobody) <=> (entries[f].status = "accepted")
        /\ entries[f].work # Nobody =>
             /\ entries[f].work = entries[f].id
             /\ f \in Security \/ entries[f].count >= Needed(entries[f].severity)

\* A stale entry written back takes nothing away: the identity, the sessions,
\* the severity, the guards and the promotion of an entry stay.
NothingUndone ==
    [][\A f \in Fingerprint : Exists(f) =>
         /\ entries'[f].id = entries[f].id
         /\ entries[f].sessions \subseteq entries'[f].sessions
         /\ entries'[f].severity >= entries[f].severity
         /\ entries'[f].seen >= entries[f].seen
         /\ entries[f].guarded => entries'[f].guarded
         /\ entries[f].status = "accepted" => entries'[f].status = "accepted"]_vars

\* buildHarnessImprovementHandoff: what the maintainer backlog shows.
Handoff == {f \in Fingerprint : Exists(f) /\ entries[f].status # "verified"}

\* "verified KAST entries are excluded from maintainer backlog"
\* (packages/testing/src/kast-gym.ts): an entry marked verified and not observed
\* since is not handed to maintainers.
VerifiedLeavesBacklog == verified \cap Handoff = {}

==============================================================================
