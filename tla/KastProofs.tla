------------------------------ MODULE KastProofs ------------------------------
(***************************************************************************)
(* KastLedger for any number of sessions, calls and maintainers, every set *)
(* of fingerprints and every bound: type correctness, the exact recurrence *)
(* count, the justification of every promotion, the truth of receipts, and *)
(* that no write takes anything away.                                      *)
(*                                                                         *)
(* The argument is that a copy of an entry, however old, is acceptable to  *)
(* the merge: the stored entry has only grown since the copy was read.     *)
(***************************************************************************)
EXTENDS KastLedger, FiniteSetTheorems, TLAPS

USE KastAssumption DEF KastAssumption

-----------------------------------------------------------------------------
(* The inductive invariant. *)

\* An entry nobody created is empty.
AbsentIsEmpty == \A f \in Fingerprint : ~Exists(f) => entries[f] = NoEntry

\* What may be handed to upsertEntry: an entry whose count is exact and whose
\* promotion, if it has one, is either stored already or justified by the copy.
Acceptable(f, x) ==
    /\ x \in Entry
    /\ x.id # Nobody
    /\ x.count = Cardinality(x.sessions)
    /\ x.work # Nobody \/ x.status = "accepted" =>
         /\ Exists(f)
         /\ \/ entries[f].status = "accepted"
            \/ /\ x.status = "accepted"
               /\ x.work = entries[f].id
               /\ x.seen <= entries[f].seen
               /\ f \in Security \/ x.count >= Needed(x.severity)

\* A copy of a stored entry: the entry has only grown since.
Copy(f, e) ==
    /\ Exists(f)
    /\ e.id = entries[f].id
    /\ e.count = Cardinality(e.sessions)
    /\ e.seen <= entries[f].seen
    /\ e.work # Nobody \/ e.status = "accepted" => entries[f].status = "accepted"

HeldAreCopies ==
    \A m \in Maintainer : held[m].entry.id # Nobody => Copy(held[m].of, held[m].entry)

UpsertsAcceptable ==
    \A c \in Closer : cpc[c] = "upsert" =>
        /\ Acceptable(call[c].of, call[c].entry)
        /\ SessionOf[c] \in call[c].entry.sessions

\* The row is stored by the time a call reads it back.
ReadsBackOwn ==
    \A c \in Closer : cpc[c] = "read" =>
        Exists(call[c].of) /\ SessionOf[c] \in entries[call[c].of].sessions

\* A list of names is true of a session.
NamesOf(s, names) ==
    \A n \in names : /\ Exists(n[1])
                     /\ entries[n[1]].id = n[2]
                     /\ s \in entries[n[1]].sessions

CallNamesEntries == \A c \in Closer : NamesOf(SessionOf[c], call[c].names)

Ledger == TypeOK /\ AbsentIsEmpty /\ RecurrenceExact /\ PromotedIsJustified

IInv ==
    /\ Ledger
    /\ HeldAreCopies
    /\ UpsertsAcceptable
    /\ ReadsBackOwn
    /\ CallNamesEntries
    /\ ReceiptNamesEntries

\* The step of an entry that NothingUndone asks for.
Grows ==
    \A f \in Fingerprint : Exists(f) =>
        /\ entries'[f].id = entries[f].id
        /\ entries[f].sessions \subseteq entries'[f].sessions
        /\ entries'[f].severity >= entries[f].severity
        /\ entries'[f].seen >= entries[f].seen
        /\ entries[f].guarded => entries'[f].guarded
        /\ entries[f].status = "accepted" => entries'[f].status = "accepted"

-----------------------------------------------------------------------------
(* Cardinalities. *)

\* The sessions of an entry are finite, and more sessions are not fewer.
LEMMA SessionsFinite ==
    ASSUME NEW S \in SUBSET Session
    PROVE  /\ IsFiniteSet(S)
           /\ Cardinality(S) \in Nat
           /\ \A T \in SUBSET S : Cardinality(T) <= Cardinality(S)
<1>1. IsFiniteSet(S)
  BY FS_Subset
<1>2. \A T \in SUBSET S : Cardinality(T) <= Cardinality(S)
  BY <1>1, FS_Subset
<1> QED
  BY <1>1, <1>2, FS_CardinalityType

-----------------------------------------------------------------------------
(* Initial states. *)

LEMMA InitInv == Init => IInv
<1> SUFFICES ASSUME Init PROVE IInv
  OBVIOUS
<1> USE DEF Init
<1>1. TypeOK
  <2>1. NoEntry \in Entry
    BY DEF NoEntry, Entry, Id, Status
  <2>2. entries \in [Fingerprint -> Entry]
    BY <2>1
  <2>3. receipts \in [Session -> Receipt]
    BY DEF Receipt, NoReceipt
  <2>4. call \in [Closer -> Call]
    <3> HIDE DEF NoEntry
    <3>1. \A c \in Closer : call[c] \in Call
      BY <2>1 DEF Call
    <3> QED
      BY <3>1
  <2>5. held \in [Maintainer -> [of: Fingerprint, entry: Entry]]
    <3>1. \A m \in Maintainer : held[m] \in [of: Fingerprint, entry: Entry]
      BY <2>1
    <3> QED
      BY <3>1
  <2> QED
    BY <2>2, <2>3, <2>4, <2>5 DEF TypeOK
<1>2. AbsentIsEmpty
  BY DEF AbsentIsEmpty
<1>3. RecurrenceExact
  BY FS_EmptySet DEF RecurrenceExact, NoEntry
<1>4. PromotedIsJustified
  BY DEF PromotedIsJustified, NoEntry
<1>5. HeldAreCopies
  BY DEF HeldAreCopies, NoEntry
<1>6. UpsertsAcceptable /\ ReadsBackOwn
  BY DEF UpsertsAcceptable, ReadsBackOwn
<1>7. CallNamesEntries
  BY DEF CallNamesEntries, NamesOf
<1>8. ReceiptNamesEntries
  BY DEF ReceiptNamesEntries, NoReceipt
<1> QED
  BY <1>1, <1>2, <1>3, <1>4, <1>5, <1>6, <1>7, <1>8 DEF IInv, Ledger

-----------------------------------------------------------------------------
(* upsertEntry. *)

\* The merge of a stored entry with an acceptable one is an entry that has
\* grown, counts exactly and is promoted only with reason.
LEMMA MergeSound ==
    ASSUME Ledger, NEW f \in Fingerprint, Exists(f), NEW x, Acceptable(f, x),
           NEW E, E = entries[f], NEW M, M = Merge(E, x)
    PROVE  /\ M \in Entry
           /\ M.id = E.id
           /\ M.sessions = E.sessions \cup x.sessions
           /\ M.count = Cardinality(M.sessions)
           /\ M.severity >= E.severity
           /\ M.seen >= E.seen
           /\ E.guarded => M.guarded
           /\ E.status = "accepted" => M.status = "accepted"
           /\ (M.work # Nobody) <=> (M.status = "accepted")
           /\ M.work # Nobody =>
                M.work = M.id /\ (f \in Security \/ M.count >= Needed(M.severity))
<1>1. E \in Entry /\ x \in Entry
  BY DEF Ledger, TypeOK, Acceptable
<1>2. /\ E.sessions \cup x.sessions \in SUBSET Session
      /\ x.sessions \in SUBSET (E.sessions \cup x.sessions)
      /\ E.sessions \in SUBSET (E.sessions \cup x.sessions)
  BY <1>1 DEF Entry
<1>3. /\ Cardinality(E.sessions \cup x.sessions) \in Nat
      /\ Cardinality(x.sessions) <= Cardinality(E.sessions \cup x.sessions)
      /\ Cardinality(E.sessions) <= Cardinality(E.sessions \cup x.sessions)
  BY <1>2, SessionsFinite
<1>4. /\ M.id = E.id
      /\ M.sessions = E.sessions \cup x.sessions
      /\ M.count = Cardinality(E.sessions \cup x.sessions)
      /\ M.severity = Larger(E.severity, x.severity)
      /\ M.status = MergedStatus(E, x)
      /\ M.work = IF E.work # Nobody THEN E.work ELSE x.work
      /\ M.seen = Larger(E.seen, x.seen)
      /\ M.guarded = (E.guarded \/ x.guarded)
  BY <1>1 DEF Merge, Entry
<1>13. M = [id |-> M.id, sessions |-> M.sessions, count |-> M.count, severity |-> M.severity,
           status |-> M.status, work |-> M.work, seen |-> M.seen, guarded |-> M.guarded]
  BY <1>1 DEF Merge, Entry
<1>5. /\ E.severity \in 0..3 /\ x.severity \in 0..3
      /\ E.seen \in 0..MaxTime /\ x.seen \in 0..MaxTime
      /\ E.status \in Status /\ x.status \in Status
      /\ E.work \in Id /\ x.work \in Id
      /\ E.id \in Id
      /\ E.guarded \in BOOLEAN /\ x.guarded \in BOOLEAN
      /\ E.count \in Nat /\ x.count \in Nat
  BY <1>1 DEF Entry
<1>6. /\ M.severity \in 0..3 /\ M.severity >= E.severity /\ M.severity >= x.severity
      /\ M.seen \in 0..MaxTime /\ M.seen >= E.seen
  BY <1>4, <1>5 DEF Larger
<1>7. M.status \in Status
  BY <1>4, <1>5 DEF MergedStatus, Status
<1>8. M.guarded \in BOOLEAN /\ (E.guarded => M.guarded)
  BY <1>4, <1>5
<1>9. M \in Entry
  <2>1. /\ M.id \in Id /\ M.work \in Id
        /\ M.sessions \in SUBSET Session
        /\ M.count \in Nat
    BY <1>2, <1>3, <1>4, <1>5
  <2> QED
    BY <2>1, <1>13, <1>4, <1>6, <1>7, <1>8 DEF Entry
<1>10. /\ (E.work # Nobody) <=> (E.status = "accepted")
       /\ E.work # Nobody => E.work = E.id /\ (f \in Security \/ E.count >= Needed(E.severity))
       /\ E.count = Cardinality(E.sessions)
       /\ E.id # Nobody
  BY DEF Ledger, PromotedIsJustified, RecurrenceExact, Exists
<1>11. CASE E.status = "accepted"
  <2>1. M.status = "accepted" /\ M.work = E.work /\ M.work # Nobody
    BY <1>4, <1>10, <1>11 DEF MergedStatus
  <2>2. f \in Security \/ M.count >= Needed(M.severity)
    BY <1>3, <1>4, <1>5, <1>6, <1>10, <1>11 DEF Needed
  <2> QED
    BY <2>1, <2>2, <1>4, <1>6, <1>8, <1>9, <1>10
<1>12. CASE E.status # "accepted"
  <2>1. E.work = Nobody /\ M.work = x.work
    BY <1>4, <1>10, <1>12
  <2>2. CASE x.work # Nobody \/ x.status = "accepted"
    <3>1. /\ x.status = "accepted"
          /\ x.work = E.id
          /\ x.seen <= E.seen
          /\ f \in Security \/ x.count >= Needed(x.severity)
      BY <1>12, <2>2 DEF Acceptable
    <3>2. M.status = "accepted" /\ M.work = M.id /\ M.work # Nobody
      BY <1>4, <1>5, <1>10, <1>12, <2>1, <3>1 DEF MergedStatus
    <3>3. x.count = Cardinality(x.sessions)
      BY DEF Acceptable
    <3>4. f \in Security \/ M.count >= Needed(M.severity)
      BY <1>3, <1>4, <1>5, <1>6, <3>1, <3>3 DEF Needed
    <3> QED
      BY <3>2, <3>4, <1>4, <1>6, <1>8, <1>9, <1>12
  <2>3. CASE x.work = Nobody /\ x.status # "accepted"
    <3>1. M.status # "accepted" /\ M.work = Nobody
      BY <1>4, <1>12, <2>1, <2>3 DEF MergedStatus
    <3> QED
      BY <3>1, <1>4, <1>6, <1>8, <1>9, <1>12
  <2> QED
    BY <2>2, <2>3
<1> QED
  BY <1>11, <1>12

\* An upsert of an acceptable entry keeps the ledger and takes nothing away.
LEMMA UpsertSound ==
    ASSUME Ledger, NEW f \in Fingerprint, NEW x, Acceptable(f, x), UpsertEntry(f, x)
    PROVE  /\ entries' \in [Fingerprint -> Entry]
           /\ occurrences' \subseteq Fingerprint \X Session
           /\ AbsentIsEmpty'
           /\ RecurrenceExact'
           /\ PromotedIsJustified'
           /\ Grows
           /\ Exists(f)' /\ x.sessions \subseteq entries'[f].sessions
<1> DEFINE N == entries'[f]
<1>1. entries \in [Fingerprint -> Entry] /\ occurrences \subseteq Fingerprint \X Session
  BY DEF Ledger, TypeOK
<1>2. /\ N = IF Exists(f) THEN Merge(entries[f], x) ELSE x
      /\ \A g \in Fingerprint : g # f => entries'[g] = entries[g]
      /\ DOMAIN entries' = Fingerprint
      /\ entries' = [entries EXCEPT ![f] = N]
  BY <1>1 DEF UpsertEntry
<1>3. occurrences' = occurrences \cup ({f} \X x.sessions)
  BY DEF UpsertEntry
<1>4. /\ x \in Entry /\ x.id # Nobody
      /\ x.count = Cardinality(x.sessions)
      /\ ~Exists(f) => x.work = Nobody /\ x.status # "accepted"
  BY DEF Acceptable
<1> DEFINE E == entries[f]
<1>5. /\ N \in Entry
      /\ N.id # Nobody
      /\ N.sessions = E.sessions \cup x.sessions
      /\ N.count = Cardinality(N.sessions)
      /\ (N.work # Nobody) <=> (N.status = "accepted")
      /\ N.work # Nobody =>
            N.work = N.id /\ (f \in Security \/ N.count >= Needed(N.severity))
      /\ Exists(f) =>
            /\ N.id = E.id
            /\ N.severity >= E.severity
            /\ N.seen >= E.seen
            /\ E.guarded => N.guarded
            /\ E.status = "accepted" => N.status = "accepted"
  <2>1. CASE Exists(f)
    <3>1. N = Merge(entries[f], x)
      BY <1>2, <2>1
    <3>2. E.id # Nobody
      BY <2>1 DEF Exists
    <3> HIDE DEF N
    <3> QED
      BY <3>1, <3>2, <2>1, MergeSound
  <2>2. CASE ~Exists(f)
    <3>1. N = x
      BY <1>2, <2>2
    <3>2. E.sessions = {}
      BY <2>2 DEF Ledger, AbsentIsEmpty, NoEntry
    <3> HIDE DEF N
    <3> QED
      BY <3>1, <3>2, <2>2, <1>4
  <2> QED
    BY <2>1, <2>2
<1> HIDE DEF N
<1>6. entries' \in [Fingerprint -> Entry]
  BY <1>1, <1>2, <1>5
<1>7. occurrences' \subseteq Fingerprint \X Session
  BY <1>1, <1>3, <1>4 DEF Entry
<1>8. entries'[f] = N
  BY DEF N
<1>9. AbsentIsEmpty'
  BY <1>2, <1>5, <1>8 DEF Ledger, AbsentIsEmpty, Exists
<1>10. RecurrenceExact'
  <2> SUFFICES ASSUME NEW g \in Fingerprint
               PROVE  /\ entries'[g].count = Cardinality(entries'[g].sessions)
                      /\ entries'[g].sessions = {s \in Session : <<g, s>> \in occurrences'}
    BY DEF RecurrenceExact
  <2>1. /\ entries[g].count = Cardinality(entries[g].sessions)
        /\ entries[g].sessions = {s \in Session : <<g, s>> \in occurrences}
    BY DEF Ledger, RecurrenceExact
  <2>2. CASE g # f
    BY <1>2, <1>3, <2>1, <2>2
  <2>3. CASE g = f
    <3>1. x.sessions \subseteq Session
      BY <1>4 DEF Entry
    <3>2. \A s \in Session : <<f, s>> \in occurrences' <=> s \in E.sessions \/ s \in x.sessions
      BY <1>3, <2>1, <2>3
    <3> QED
      BY <3>1, <3>2, <1>5, <1>8, <2>1, <2>3
  <2> QED
    BY <2>2, <2>3
<1>11. PromotedIsJustified'
  BY <1>2, <1>5, <1>8 DEF Ledger, PromotedIsJustified
<1>12. Grows
  <2> SUFFICES ASSUME NEW g \in Fingerprint, Exists(g)
               PROVE  /\ entries'[g].id = entries[g].id
                      /\ entries[g].sessions \subseteq entries'[g].sessions
                      /\ entries'[g].severity >= entries[g].severity
                      /\ entries'[g].seen >= entries[g].seen
                      /\ entries[g].guarded => entries'[g].guarded
                      /\ entries[g].status = "accepted" => entries'[g].status = "accepted"
    BY DEF Grows
  <2>1. CASE g = f
    BY <1>5, <1>8, <2>1
  <2>2. CASE g # f
    <3>1. entries'[g] = entries[g] /\ entries[g].severity \in 0..3 /\ entries[g].seen \in 0..MaxTime
      BY <1>1, <1>2, <2>2 DEF Entry
    <3> QED
      BY <3>1
  <2> QED
    BY <2>1, <2>2
<1>13. Exists(f)' /\ x.sessions \subseteq entries'[f].sessions
  BY <1>5, <1>8 DEF Exists
<1> QED
  BY <1>6, <1>7, <1>9, <1>10, <1>11, <1>12, <1>13

-----------------------------------------------------------------------------
(* Old copies stay true while the ledger grows. *)

LEMMA StaysCopy ==
    ASSUME TypeOK, TypeOK', Grows, NEW f \in Fingerprint, NEW e \in Entry, Copy(f, e)
    PROVE  Copy(f, e)'
<1>1. entries[f] \in Entry /\ entries'[f] \in Entry
  BY DEF TypeOK
<1>2. e.seen \in Nat /\ entries[f].seen \in Nat /\ entries'[f].seen \in Nat
  BY <1>1 DEF Entry
<1> QED
  BY <1>2 DEF Grows, Copy, Exists

LEMMA StaysAcceptable ==
    ASSUME TypeOK, TypeOK', Grows, NEW f \in Fingerprint, NEW x, Acceptable(f, x)
    PROVE  Acceptable(f, x)'
<1>1. entries[f] \in Entry /\ entries'[f] \in Entry /\ x \in Entry
  BY DEF TypeOK, Acceptable
<1>2. x.seen \in Nat /\ entries[f].seen \in Nat /\ entries'[f].seen \in Nat
  BY <1>1 DEF Entry
<1> QED
  BY <1>2 DEF Grows, Acceptable, Exists

LEMMA StaysNamed ==
    ASSUME Grows, NEW s, NEW names \in SUBSET (Fingerprint \X Id), NamesOf(s, names)
    PROVE  NamesOf(s, names)'
BY DEF Grows, NamesOf, Exists

\* A step that grows the ledger and starts no upsert keeps the rest of IInv: each
\* call or maintainer goes on with what it had or forgets it.
LEMMA StaysTrue ==
    ASSUME IInv, TypeOK', Grows,
           \A m \in Maintainer : held'[m] = held[m] \/ held'[m].entry = NoEntry,
           \A c \in Closer : cpc'[c] = "upsert" => cpc[c] = "upsert" /\ call'[c] = call[c],
           \A c \in Closer : call'[c].names = call[c].names \/ call'[c].names = {}
    PROVE  HeldAreCopies' /\ UpsertsAcceptable' /\ CallNamesEntries'
<1>1. TypeOK
  BY DEF IInv, Ledger
<1>2. HeldAreCopies'
  <2> SUFFICES ASSUME NEW m \in Maintainer, held'[m].entry.id # Nobody
               PROVE  Copy(held[m].of, held[m].entry)'
    BY DEF HeldAreCopies
  <2>1. held'[m] = held[m]
    BY DEF NoEntry
  <2>2. held[m].of \in Fingerprint /\ held[m].entry \in Entry
    BY <1>1 DEF TypeOK
  <2>3. Copy(held[m].of, held[m].entry)
    BY <2>1 DEF IInv, HeldAreCopies
  <2>4. \A f \in Fingerprint, e \in Entry : Copy(f, e) => Copy(f, e)'
    BY <1>1, StaysCopy
  <2> QED
    BY <2>1, <2>2, <2>3, <2>4 DEF Copy, Exists
<1>3. UpsertsAcceptable'
  <2> SUFFICES ASSUME NEW c \in Closer, cpc'[c] = "upsert"
               PROVE  /\ Acceptable(call[c].of, call[c].entry)'
                      /\ SessionOf[c] \in call'[c].entry.sessions
    BY DEF UpsertsAcceptable
  <2>1. cpc[c] = "upsert" /\ call'[c] = call[c]
    OBVIOUS
  <2>2. call[c].of \in Fingerprint /\ call[c].entry \in Entry
    BY <1>1 DEF TypeOK, Call
  <2>3. Acceptable(call[c].of, call[c].entry) /\ SessionOf[c] \in call[c].entry.sessions
    BY <2>1 DEF IInv, UpsertsAcceptable
  <2>4. \A f \in Fingerprint, x \in Entry : Acceptable(f, x) => Acceptable(f, x)'
    BY <1>1, StaysAcceptable
  <2> QED
    BY <2>1, <2>2, <2>3, <2>4 DEF Acceptable, Exists
<1>4. CallNamesEntries'
  <2> SUFFICES ASSUME NEW c \in Closer PROVE NamesOf(SessionOf[c], call[c].names)'
    BY DEF CallNamesEntries
  <2>1. CASE call'[c].names = {}
    BY <2>1 DEF NamesOf
  <2>2. CASE call'[c].names = call[c].names
    <3>1. call[c].names \in SUBSET (Fingerprint \X Id)
      BY <1>1 DEF TypeOK, Call
    <3>2. NamesOf(SessionOf[c], call[c].names)
      BY DEF IInv, CallNamesEntries
    <3>3. \A s \in Session, names \in SUBSET (Fingerprint \X Id) :
             NamesOf(s, names) => NamesOf(s, names)'
      BY StaysNamed
    <3> QED
      BY <2>2, <3>1, <3>2, <3>3 DEF NamesOf, Exists
  <2> QED
    BY <2>1, <2>2
<1> QED
  BY <1>2, <1>3, <1>4

\* The receipts stay true too.
LEMMA ReceiptsStay ==
    ASSUME IInv, Grows, receipts' = receipts
    PROVE  ReceiptNamesEntries'
<1> SUFFICES ASSUME NEW s \in Session PROVE NamesOf(s, receipts[s].names)'
  BY DEF ReceiptNamesEntries, NamesOf, Exists
<1>1. receipts[s].names \in SUBSET (Fingerprint \X Id)
  BY DEF IInv, Ledger, TypeOK, Receipt
<1>2. NamesOf(s, receipts[s].names)
  BY DEF IInv, ReceiptNamesEntries, NamesOf
<1>3. \A names \in SUBSET (Fingerprint \X Id) : NamesOf(s, names) => NamesOf(s, names)'
  BY StaysNamed
<1> QED
  BY <1>1, <1>2, <1>3 DEF NamesOf, Exists

\* A step that leaves the entries alone grows them.
LEMMA UnchangedGrows ==
    ASSUME Ledger, entries' = entries, occurrences' = occurrences
    PROVE  Grows /\ AbsentIsEmpty' /\ RecurrenceExact' /\ PromotedIsJustified'
<1>1. \A f \in Fingerprint : entries[f].severity \in Nat /\ entries[f].seen \in Nat
  BY DEF Ledger, TypeOK, Entry
<1> QED
  BY <1>1 DEF Ledger, Grows, AbsentIsEmpty, RecurrenceExact, PromotedIsJustified, Exists

-----------------------------------------------------------------------------
(* What the actions hand to upsertEntry. *)

LEMMA RecordedAcceptable ==
    ASSUME Ledger, NEW c \in Closer, NEW o \in Observation
    PROVE  /\ Acceptable(o.of, Recorded(c, o))
           /\ SessionOf[c] \in Recorded(c, o).sessions
<1> DEFINE old == entries[o.of]
           s == SessionOf[c]
           x == Recorded(c, o)
<1>1. /\ o.of \in Fingerprint /\ o.severity \in 0..3 /\ o.at \in 0..MaxTime
      /\ s \in Session /\ c \in Id /\ c # Nobody
      /\ old \in Entry
  <2>1. entries \in [Fingerprint -> Entry] /\ now \in 0..MaxTime
    BY DEF Ledger, TypeOK
  <2>2. o.of \in Fingerprint /\ o.severity \in Severity /\ o.at \in 0..now
    BY DEF Observation
  <2>3. s \in Session /\ c \in Id /\ c # Nobody
    BY DEF Id
  <2>4. o.severity \in 0..3
    BY <2>2
  <2> HIDE DEF x, s
  <2>5. o.at \in 0..MaxTime
    BY <2>1, <2>2
  <2> QED
    BY <2>1, <2>2, <2>3, <2>4, <2>5
<1>2. CASE ~Exists(o.of)
  <2>1. x = [NoEntry EXCEPT !.id = c, !.sessions = {s}, !.count = 1,
                            !.severity = o.severity, !.seen = o.at]
    BY <1>2 DEF Recorded
  <2> HIDE DEF x, s, old
  <2>2. x \in Entry
    BY <2>1, <1>1 DEF NoEntry, Entry, Id, Status
  <2>3. /\ x.id = c /\ x.sessions = {s} /\ x.count = 1
        /\ x.status = "candidate" /\ x.work = Nobody
    BY <2>1 DEF NoEntry
  <2>4. Cardinality({s}) = 1
    BY FS_Singleton
  <2>5. Acceptable(o.of, x) /\ s \in x.sessions
    BY <1>1, <2>2, <2>3, <2>4 DEF Acceptable
  <2> QED
    BY <2>5 DEF x, s
<1>3. CASE Exists(o.of)
  <2>1. x = [old EXCEPT !.severity = Larger(@, o.severity),
                        !.sessions = @ \cup {s},
                        !.count = IF s \in old.sessions THEN @ ELSE @ + 1,
                        !.seen = Larger(@, o.at),
                        !.status = IF @ = "verified" THEN "candidate" ELSE @]
    BY <1>3 DEF Recorded
  <2> HIDE DEF x, s
  <2>2. /\ old.severity \in 0..3 /\ old.seen \in 0..MaxTime /\ old.count \in Nat
        /\ old.sessions \in SUBSET Session /\ old.status \in Status
    BY <1>1 DEF Entry
  <2>3. Larger(old.severity, o.severity) \in 0..3 /\ Larger(old.seen, o.at) \in 0..MaxTime
    BY <1>1, <2>2 DEF Larger
  <2>4. x \in Entry
    <3>1. /\ old.sessions \cup {s} \in SUBSET Session
          /\ (IF s \in old.sessions THEN old.count ELSE old.count + 1) \in Nat
          /\ (IF old.status = "verified" THEN "candidate" ELSE old.status) \in Status
      BY <1>1, <2>2 DEF Status
    <3> QED
      BY <1>1, <2>1, <2>2, <2>3, <3>1 DEF Entry
  <2>5. /\ x.id = old.id /\ x.work = old.work
        /\ x.sessions = old.sessions \cup {s}
        /\ x.count = IF s \in old.sessions THEN old.count ELSE old.count + 1
        /\ x.status = "accepted" => old.status = "accepted"
    BY <1>1, <2>1 DEF Entry
  <2>6. old.id # Nobody /\ old.count = Cardinality(old.sessions)
    BY <1>1, <1>3 DEF Exists, Ledger, RecurrenceExact
  <2>7. x.count = Cardinality(x.sessions)
    <3>1. IsFiniteSet(old.sessions)
      BY <2>2, SessionsFinite
    <3>2. Cardinality(old.sessions \cup {s}) =
            IF s \in old.sessions THEN Cardinality(old.sessions) ELSE Cardinality(old.sessions) + 1
      BY <3>1, FS_AddElement
    <3> HIDE DEF x, s, old
    <3> QED
      BY <2>5, <2>6, <3>2
  <2>8. x.work # Nobody => old.status = "accepted"
    BY <1>1, <2>5 DEF Ledger, PromotedIsJustified
  <2>9. Acceptable(o.of, x) /\ s \in x.sessions
    BY <1>3, <2>4, <2>5, <2>6, <2>7, <2>8 DEF Acceptable
  <2> QED
    BY <2>9 DEF x, s
<1> QED
  BY <1>2, <1>3

\* What a maintainer writes back is acceptable however old the copy is.
LEMMA PromotedAcceptable ==
    ASSUME Ledger, NEW f \in Fingerprint, NEW e \in Entry, Copy(f, e), ShouldPromote(f, e)
    PROVE  Acceptable(f, [e EXCEPT !.status = "accepted", !.work = e.id])
<1> DEFINE x == [e EXCEPT !.status = "accepted", !.work = e.id]
<1>1. x \in Entry
  BY DEF Entry, Status
<1>2. /\ x.id = e.id /\ x.status = "accepted" /\ x.work = e.id /\ x.seen = e.seen
      /\ x.count = e.count /\ x.sessions = e.sessions /\ x.severity = e.severity
  BY DEF Entry
<1> HIDE DEF x
<1>3. Acceptable(f, x)
  BY <1>1, <1>2 DEF Acceptable, Copy, ShouldPromote, Exists
<1> QED
  BY <1>3 DEF x

LEMMA VerifiedAcceptable ==
    ASSUME Ledger, NEW f \in Fingerprint, NEW e \in Entry, Copy(f, e)
    PROVE  Acceptable(f, [e EXCEPT !.status = "verified", !.seen = now, !.guarded = TRUE])
<1> DEFINE x == [e EXCEPT !.status = "verified", !.seen = now, !.guarded = TRUE]
<1>1. x \in Entry
  BY DEF Entry, Status, Ledger, TypeOK
<1>2. /\ x.id = e.id /\ x.status = "verified" /\ x.work = e.work
      /\ x.count = e.count /\ x.sessions = e.sessions
  BY DEF Entry
<1> HIDE DEF x
<1>3. Acceptable(f, x)
  BY <1>1, <1>2 DEF Acceptable, Copy, Exists
<1> QED
  BY <1>3 DEF x

-----------------------------------------------------------------------------
(* Every step. *)

\* The ledger in the next state, once its parts are known.
LEMMA LedgerOf ==
    ASSUME TypeOK', AbsentIsEmpty', RecurrenceExact', PromotedIsJustified'
    PROVE  Ledger'
BY DEF Ledger

LEMMA Forgotten == ASSUME TypeOK, NEW c \in Closer, Forget(c)
                   PROVE  /\ call' \in [Closer -> Call]
                          /\ call'[c].names = {}
                          /\ \A d \in Closer : d # c => call'[d] = call[d]
<1>1. NoEntry \in Entry
  BY DEF NoEntry, Entry, Id, Status
<1>2. call[c] \in Call
  BY DEF TypeOK
<1> HIDE DEF NoEntry
<1>3. [call[c] EXCEPT !.entry = NoEntry, !.names = {}] \in Call
  BY <1>1, <1>2 DEF Call
<1>4. call' = [call EXCEPT ![c] = [call[c] EXCEPT !.entry = NoEntry, !.names = {}]]
  BY <1>2 DEF Forget, TypeOK, Call
<1>5. [call[c] EXCEPT !.entry = NoEntry, !.names = {}].names = {}
  BY <1>2 DEF Call
<1> QED
  BY <1>3, <1>4, <1>5 DEF TypeOK

LEMMA LetGone == ASSUME TypeOK, NEW m \in Maintainer, LetGo(m)
                 PROVE  /\ held' \in [Maintainer -> [of: Fingerprint, entry: Entry]]
                        /\ \A n \in Maintainer : held'[n] = held[n] \/ held'[n].entry = NoEntry
<1>1. NoEntry \in Entry
  BY DEF NoEntry, Entry, Id, Status
<1>2. held[m] \in [of: Fingerprint, entry: Entry]
  BY DEF TypeOK
<1> DEFINE h == [held[m] EXCEPT !.entry = NoEntry]
<1>3. h \in [of: Fingerprint, entry: Entry] /\ h.entry = NoEntry
  BY <1>1, <1>2
<1>4. held' = [held EXCEPT ![m] = h]
  BY DEF LetGo
<1> HIDE DEF h
<1> QED
  BY <1>3, <1>4 DEF TypeOK

\* A step of a call that leaves entries, occurrences and receipts alone and puts no
\* call at an upsert or a read.
LEMMA QuietStep ==
    ASSUME IInv, TypeOK', UNCHANGED stored, UNCHANGED held,
           \A c \in Closer : cpc'[c] \in {"upsert", "read"} =>
                               cpc'[c] = cpc[c] /\ call'[c] = call[c],
           \A c \in Closer : call'[c].names = call[c].names \/ call'[c].names = {}
    PROVE  IInv' /\ Grows
<1>1. Ledger' /\ Grows
  BY UnchangedGrows, LedgerOf DEF stored, IInv
<1>2. HeldAreCopies' /\ UpsertsAcceptable' /\ CallNamesEntries'
  BY <1>1, StaysTrue
<1>3. ReadsBackOwn'
  BY DEF IInv, ReadsBackOwn, stored, Exists
<1>4. ReceiptNamesEntries'
  BY <1>1, ReceiptsStay DEF stored
<1> QED
  BY <1>1, <1>2, <1>3, <1>4 DEF IInv

LEMMA BeginCloseStep == ASSUME IInv, NEW c \in Closer, BeginClose(c) PROVE IInv' /\ Grows
<1>1. TypeOK
  BY DEF IInv, Ledger
<1>2. TypeOK' /\ \A d \in Closer : cpc'[d] = IF d = c THEN "observe" ELSE cpc[d]
  BY <1>1 DEF TypeOK, BeginClose, Goto, stored
<1> QED
  BY <1>2, QuietStep DEF BeginClose

LEMMA ObserveStep == ASSUME IInv, NEW c \in Closer, Observe(c) PROVE IInv' /\ Grows
<1>1. TypeOK /\ Ledger
  BY DEF IInv, Ledger
<1>2. PICK o \in Observation :
         call' = [call EXCEPT ![c].of = o.of, ![c].entry = Recorded(c, o)]
  BY DEF Observe
<1> DEFINE x == Recorded(c, o)
           l == [call[c] EXCEPT !.of = o.of, !.entry = x]
<1>3. Acceptable(o.of, x) /\ SessionOf[c] \in x.sessions
  BY <1>1, RecordedAcceptable
<1> HIDE DEF x
<1>4. x \in Entry /\ o.of \in Fingerprint /\ call[c] \in Call
  BY <1>1, <1>3 DEF Acceptable, Observation, TypeOK
<1>5. l \in Call /\ l.of = o.of /\ l.entry = x /\ l.names = call[c].names
  BY <1>4 DEF Call
<1>6. call' = [call EXCEPT ![c] = l]
  BY <1>1, <1>2, <1>4 DEF x, TypeOK, Call
<1> HIDE DEF l
<1>7. /\ \A d \in Closer : d # c => call'[d] = call[d]
      /\ call'[c] = l
      /\ \A d \in Closer : cpc'[d] = IF d = c THEN "upsert" ELSE cpc[d]
  BY <1>1, <1>6 DEF TypeOK, Observe, Goto
<1>8. UNCHANGED <<stored, now, held, faults, verified>>
  BY DEF Observe
<1>9. TypeOK'
  <2>1. call' \in [Closer -> Call]
    BY <1>1, <1>5, <1>6 DEF TypeOK
  <2>2. cpc' \in [Closer -> {"idle", "observe", "upsert", "read"}]
    BY <1>1 DEF TypeOK, Observe, Goto
  <2> QED
    BY <1>1, <1>8, <2>1, <2>2 DEF TypeOK, stored
<1>10. Ledger' /\ Grows
  BY <1>1, <1>8, <1>9, UnchangedGrows, LedgerOf DEF stored
<1>11. HeldAreCopies'
  BY <1>8 DEF IInv, HeldAreCopies, Copy, Exists, stored
<1>12. UpsertsAcceptable'
  BY <1>3, <1>5, <1>7, <1>8 DEF IInv, UpsertsAcceptable, Acceptable, Exists, stored
<1>13. ReadsBackOwn'
  BY <1>7, <1>8 DEF IInv, ReadsBackOwn, Exists, stored
<1>14. CallNamesEntries'
  BY <1>5, <1>7, <1>8 DEF IInv, CallNamesEntries, NamesOf, Exists, stored
<1>15. ReceiptNamesEntries'
  BY <1>10, <1>8, ReceiptsStay DEF stored
<1> QED
  BY <1>10, <1>11, <1>12, <1>13, <1>14, <1>15 DEF IInv

LEMMA UpsertStep == ASSUME IInv, NEW c \in Closer, Upsert(c) PROVE IInv' /\ Grows
<1>1. TypeOK /\ Ledger
  BY DEF IInv, Ledger
<1>2. PICK f \in Fingerprint, x \in Entry : f = call[c].of /\ x = call[c].entry
  BY <1>1 DEF TypeOK, Call
<1>3. Acceptable(f, x) /\ SessionOf[c] \in x.sessions
  BY <1>2 DEF IInv, UpsertsAcceptable, Upsert
<1>4. UpsertEntry(f, x) /\ UNCHANGED <<receipts, now, call, held, faults>>
  BY <1>2 DEF Upsert
<1>5. /\ entries' \in [Fingerprint -> Entry]
      /\ occurrences' \subseteq Fingerprint \X Session
      /\ AbsentIsEmpty' /\ RecurrenceExact' /\ PromotedIsJustified'
      /\ Grows
      /\ Exists(f)' /\ x.sessions \subseteq entries'[f].sessions
  BY <1>1, <1>2, <1>3, <1>4, UpsertSound
<1>6. \A d \in Closer : cpc'[d] = IF d = c THEN "read" ELSE cpc[d]
  BY <1>1 DEF TypeOK, Upsert, Goto
<1>7. TypeOK'
  <2>1. cpc' \in [Closer -> {"idle", "observe", "upsert", "read"}]
    BY <1>1 DEF TypeOK, Upsert, Goto
  <2>2. verified' \subseteq Fingerprint
    BY <1>1 DEF TypeOK, Upsert
  <2> QED
    BY <1>1, <1>4, <1>5, <2>1, <2>2 DEF TypeOK
<1>8. HeldAreCopies' /\ UpsertsAcceptable' /\ CallNamesEntries'
  BY <1>4, <1>5, <1>6, <1>7, StaysTrue
<1>9. ReadsBackOwn'
  <2> SUFFICES ASSUME NEW d \in Closer, cpc'[d] = "read"
               PROVE  Exists(call[d].of)' /\ SessionOf[d] \in entries'[call[d].of].sessions
    BY <1>4 DEF ReadsBackOwn
  <2>1. CASE d = c
    BY <1>2, <1>3, <1>4, <1>5, <2>1 DEF Exists
  <2>2. CASE d # c
    <3>1. Exists(call[d].of) /\ SessionOf[d] \in entries[call[d].of].sessions
      BY <1>6, <2>2 DEF IInv, ReadsBackOwn
    <3>2. call[d].of \in Fingerprint
      BY <1>1 DEF TypeOK, Call
    <3> QED
      BY <1>4, <1>5, <3>1, <3>2 DEF Grows, Exists
  <2> QED
    BY <2>1, <2>2
<1>10. ReceiptNamesEntries'
  BY <1>4, <1>5, ReceiptsStay
<1> QED
  BY <1>5, <1>7, <1>8, <1>9, <1>10, LedgerOf DEF IInv

LEMMA ReadBackStep == ASSUME IInv, NEW c \in Closer, ReadBack(c) PROVE IInv' /\ Grows
<1> DEFINE n == <<call[c].of, Returned(c)>>
           l == [call[c] EXCEPT !.names = @ \cup {n}, !.entry = NoEntry]
<1>1. TypeOK /\ Ledger
  BY DEF IInv, Ledger
<1>2. /\ call[c] \in Call /\ call[c].of \in Fingerprint
      /\ Returned(c) \in Id
      /\ NoEntry \in Entry
  BY <1>1 DEF TypeOK, Call, Returned, NoEntry, Entry, Id, Status
<1>3. /\ Exists(call[c].of) /\ entries[n[1]].id = n[2] /\ n[1] = call[c].of
      /\ SessionOf[c] \in entries[n[1]].sessions
      /\ n \in Fingerprint \X Id
  BY <1>2 DEF IInv, ReadsBackOwn, ReadBack, Returned
<1>4. call' = [call EXCEPT ![c] = l]
  BY <1>1, <1>2 DEF ReadBack, TypeOK, Call
<1> HIDE DEF n, NoEntry
<1>5. l \in Call /\ l.names = call[c].names \cup {n}
  BY <1>2, <1>3 DEF Call
<1> HIDE DEF l
<1>6. /\ \A d \in Closer : d # c => call'[d] = call[d]
      /\ call'[c] = l
      /\ \A d \in Closer : cpc'[d] = IF d = c THEN "observe" ELSE cpc[d]
  BY <1>1, <1>4 DEF TypeOK, ReadBack, Goto
<1>7. UNCHANGED <<stored, now, held, faults, verified>>
  BY DEF ReadBack
<1>8. TypeOK'
  <2>1. call' \in [Closer -> Call]
    BY <1>1, <1>4, <1>5 DEF TypeOK
  <2>2. cpc' \in [Closer -> {"idle", "observe", "upsert", "read"}]
    BY <1>1 DEF TypeOK, ReadBack, Goto
  <2> QED
    BY <1>1, <1>7, <2>1, <2>2 DEF TypeOK, stored
<1>9. Ledger' /\ Grows
  BY <1>1, <1>7, <1>8, UnchangedGrows, LedgerOf DEF stored
<1>10. HeldAreCopies'
  BY <1>7 DEF IInv, HeldAreCopies, Copy, Exists, stored
<1>11. UpsertsAcceptable' /\ ReadsBackOwn'
  BY <1>6, <1>7 DEF IInv, UpsertsAcceptable, ReadsBackOwn, Acceptable, Exists, stored
<1>12. CallNamesEntries'
  BY <1>3, <1>5, <1>6, <1>7 DEF IInv, CallNamesEntries, NamesOf, Exists, stored
<1>13. ReceiptNamesEntries'
  BY <1>7, <1>9, ReceiptsStay DEF stored
<1> QED
  BY <1>9, <1>10, <1>11, <1>12, <1>13 DEF IInv

LEMMA SaveReceiptStep == ASSUME IInv, NEW c \in Closer, SaveReceipt(c) PROVE IInv' /\ Grows
<1> DEFINE s == SessionOf[c]
           r == [saved |-> TRUE, names |-> call[c].names]
<1>1. TypeOK /\ Ledger
  BY DEF IInv, Ledger
<1>2. /\ receipts' = [receipts EXCEPT ![s] = IF @.saved THEN @ ELSE r]
      /\ Forget(c)
      /\ UNCHANGED <<entries, occurrences, now, held, faults, verified>>
  BY DEF SaveReceipt
<1>3. /\ call' \in [Closer -> Call]
      /\ call'[c].names = {}
      /\ \A d \in Closer : d # c => call'[d] = call[d]
  BY <1>1, <1>2, Forgotten
<1>4. \A d \in Closer : cpc'[d] = IF d = c THEN "idle" ELSE cpc[d]
  BY <1>1 DEF TypeOK, SaveReceipt, Goto
<1>5. r \in Receipt /\ s \in Session
  BY <1>1 DEF TypeOK, Call, Receipt
<1>6. TypeOK'
  <2>1. cpc' \in [Closer -> {"idle", "observe", "upsert", "read"}]
    BY <1>1 DEF TypeOK, SaveReceipt, Goto
  <2>2. receipts' \in [Session -> Receipt]
    <3> HIDE DEF r, s
    <3> QED
      BY <1>1, <1>2, <1>5 DEF TypeOK
  <2> QED
    BY <1>1, <1>2, <1>3, <2>1, <2>2 DEF TypeOK
<1>7. Ledger' /\ Grows
  BY <1>1, <1>2, <1>6, UnchangedGrows, LedgerOf
<1>8. HeldAreCopies' /\ UpsertsAcceptable' /\ CallNamesEntries'
  BY <1>2, <1>3, <1>4, <1>6, <1>7, StaysTrue
<1>9. ReadsBackOwn'
  BY <1>2, <1>3, <1>4 DEF IInv, ReadsBackOwn, Exists
<1>10. NamesOf(s, r.names)
  BY DEF IInv, CallNamesEntries
<1>11. ReceiptNamesEntries'
  <2> SUFFICES ASSUME NEW t \in Session, NEW n \in receipts'[t].names
               PROVE  /\ Exists(n[1])'
                      /\ entries'[n[1]].id = n[2]
                      /\ t \in entries'[n[1]].sessions
    BY DEF ReceiptNamesEntries
  <2>1. receipts'[t] = receipts[t] \/ (t = s /\ receipts'[t] = r)
    BY <1>1, <1>2, <1>5 DEF TypeOK
  <2>2. CASE receipts'[t] = receipts[t]
    BY <1>2, <2>2 DEF IInv, ReceiptNamesEntries, Exists
  <2>3. CASE t = s /\ receipts'[t] = r
    <3> HIDE DEF r, s
    <3> QED
      BY <1>2, <1>10, <2>3 DEF NamesOf, Exists
  <2> QED
    BY <2>1, <2>2, <2>3
<1> QED
  BY <1>7, <1>8, <1>9, <1>11 DEF IInv

LEMMA CutShortStep == ASSUME IInv, NEW c \in Closer, CutShort(c) PROVE IInv' /\ Grows
<1>1. TypeOK /\ Forget(c)
  BY DEF IInv, Ledger, CutShort
<1>2. /\ call' \in [Closer -> Call]
      /\ call'[c].names = {}
      /\ \A d \in Closer : d # c => call'[d] = call[d]
  BY <1>1, Forgotten
<1>3. \A d \in Closer : cpc'[d] = IF d = c THEN "idle" ELSE cpc[d]
  BY <1>1 DEF TypeOK, CutShort, Goto
<1>4. TypeOK'
  BY <1>1, <1>2 DEF TypeOK, CutShort, Goto, stored
<1> QED
  BY <1>2, <1>3, <1>4, QuietStep DEF CutShort

LEMMA ReadEntryStep == ASSUME IInv, NEW m \in Maintainer, ReadEntry(m) PROVE IInv' /\ Grows
<1>1. TypeOK /\ Ledger
  BY DEF IInv, Ledger
<1>2. PICK f \in Fingerprint :
         Exists(f) /\ held' = [held EXCEPT ![m] = [of |-> f, entry |-> entries[f]]]
  BY DEF ReadEntry
<1>3. UNCHANGED <<stored, now, cpc, call, faults, verified>>
  BY DEF ReadEntry
<1>4. entries[f] \in Entry
  BY <1>1 DEF TypeOK
<1>5. TypeOK'
  <2>1. held' \in [Maintainer -> [of: Fingerprint, entry: Entry]]
    BY <1>1, <1>2, <1>4 DEF TypeOK
  <2> QED
    BY <1>1, <1>3, <2>1 DEF TypeOK, stored
<1>6. Ledger' /\ Grows
  BY <1>1, <1>3, <1>5, UnchangedGrows, LedgerOf DEF stored
<1>7. Copy(f, entries[f])
  BY <1>1, <1>2, <1>4 DEF Copy, Ledger, RecurrenceExact, PromotedIsJustified, Entry
<1>8. HeldAreCopies'
  BY <1>1, <1>2, <1>3, <1>7 DEF TypeOK, IInv, HeldAreCopies, Copy, Exists, stored
<1>9. UpsertsAcceptable' /\ ReadsBackOwn' /\ CallNamesEntries' /\ ReceiptNamesEntries'
  BY <1>3 DEF IInv, UpsertsAcceptable, ReadsBackOwn, CallNamesEntries, ReceiptNamesEntries,
              NamesOf, Acceptable, Exists, stored
<1> QED
  BY <1>6, <1>8, <1>9 DEF IInv

\* A maintainer's upsert of an acceptable entry.
LEMMA WriteBack ==
    ASSUME IInv, NEW m \in Maintainer, NEW f \in Fingerprint, NEW x, Acceptable(f, x),
           UpsertEntry(f, x), LetGo(m), verified' \subseteq Fingerprint,
           UNCHANGED <<receipts, now, cpc, call, faults>>
    PROVE  IInv' /\ Grows
<1>1. TypeOK /\ Ledger
  BY DEF IInv, Ledger
<1>2. /\ entries' \in [Fingerprint -> Entry]
      /\ occurrences' \subseteq Fingerprint \X Session
      /\ AbsentIsEmpty' /\ RecurrenceExact' /\ PromotedIsJustified'
      /\ Grows
  BY <1>1, UpsertSound
<1>3. /\ held' \in [Maintainer -> [of: Fingerprint, entry: Entry]]
      /\ \A n \in Maintainer : held'[n] = held[n] \/ held'[n].entry = NoEntry
  BY <1>1, LetGone
<1>4. TypeOK'
  BY <1>1, <1>2, <1>3 DEF TypeOK
<1>5. HeldAreCopies' /\ UpsertsAcceptable' /\ CallNamesEntries'
  BY <1>2, <1>3, <1>4, StaysTrue
<1>6. ReadsBackOwn'
  <2> SUFFICES ASSUME NEW d \in Closer, cpc[d] = "read"
               PROVE  Exists(call[d].of)' /\ SessionOf[d] \in entries'[call[d].of].sessions
    BY DEF ReadsBackOwn
  <2>1. Exists(call[d].of) /\ SessionOf[d] \in entries[call[d].of].sessions
    BY DEF IInv, ReadsBackOwn
  <2>2. call[d].of \in Fingerprint
    BY <1>1 DEF TypeOK, Call
  <2> QED
    BY <1>2, <2>1, <2>2 DEF Grows, Exists
<1>7. ReceiptNamesEntries'
  BY <1>2, ReceiptsStay
<1> QED
  BY <1>2, <1>4, <1>5, <1>6, <1>7, LedgerOf DEF IInv

\* A copy a maintainer holds and uses.
LEMMA HeldCopy ==
    ASSUME IInv, NEW m \in Maintainer, held[m].entry.id # Nobody
    PROVE  /\ held[m].of \in Fingerprint /\ held[m].entry \in Entry
           /\ Copy(held[m].of, held[m].entry)
BY DEF IInv, Ledger, TypeOK, HeldAreCopies

LEMMA PromoteStep == ASSUME IInv, NEW m \in Maintainer, Promote(m) PROVE IInv' /\ Grows
<1> DEFINE f == held[m].of
           e == held[m].entry
           x == [e EXCEPT !.status = "accepted", !.work = e.id]
<1>1. e.id # Nobody /\ ShouldPromote(f, e) /\ UpsertEntry(f, x) /\ LetGo(m)
  BY DEF Promote
<1>2. UNCHANGED <<receipts, now, cpc, call, faults, verified>>
  BY DEF Promote
<1>3. f \in Fingerprint /\ e \in Entry /\ Copy(f, e)
  BY <1>1, HeldCopy
<1>4. Ledger /\ verified' \subseteq Fingerprint
  BY <1>2 DEF IInv, Ledger, TypeOK
<1> HIDE DEF f, e
<1>5. Acceptable(f, x)
  BY <1>1, <1>3, <1>4, PromotedAcceptable
<1> HIDE DEF x
<1> QED
  BY <1>1, <1>2, <1>3, <1>4, <1>5, WriteBack

LEMMA MarkVerifiedStep == ASSUME IInv, NEW m \in Maintainer, MarkVerified(m) PROVE IInv' /\ Grows
<1> DEFINE f == held[m].of
           e == held[m].entry
           x == [e EXCEPT !.status = "verified", !.seen = now, !.guarded = TRUE]
<1>1. e.id # Nobody /\ UpsertEntry(f, x) /\ LetGo(m)
  BY DEF MarkVerified
<1>2. UNCHANGED <<receipts, now, cpc, call, faults>> /\ verified' = verified \cup {f}
  BY DEF MarkVerified
<1>3. f \in Fingerprint /\ e \in Entry /\ Copy(f, e)
  BY <1>1, HeldCopy
<1>4. Ledger /\ verified' \subseteq Fingerprint
  BY <1>2, <1>3 DEF IInv, Ledger, TypeOK
<1> HIDE DEF f, e
<1>5. Acceptable(f, x)
  BY <1>3, <1>4, VerifiedAcceptable
<1> HIDE DEF x
<1> QED
  BY <1>1, <1>2, <1>3, <1>4, <1>5, WriteBack

LEMMA PassStep == ASSUME IInv, Pass PROVE IInv' /\ Grows
<1>1. TypeOK
  BY DEF IInv, Ledger
<1>2. TypeOK'
  BY <1>1 DEF TypeOK, Pass, stored
<1> QED
  BY <1>2, QuietStep DEF Pass

LEMMA StutterStep == ASSUME IInv, UNCHANGED vars PROVE IInv' /\ Grows
<1>1. TypeOK'
  BY DEF IInv, Ledger, TypeOK, vars, stored
<1> QED
  BY <1>1, QuietStep DEF vars

\* Every step keeps the invariant and grows the ledger.
LEMMA NextInv == IInv /\ [Next]_vars => IInv' /\ Grows
<1> SUFFICES ASSUME IInv, [Next]_vars PROVE IInv' /\ Grows
  OBVIOUS
<1>1. ASSUME NEW c \in Closer,
             \/ BeginClose(c) \/ Observe(c) \/ Upsert(c) \/ ReadBack(c)
             \/ SaveReceipt(c) \/ CutShort(c)
      PROVE  IInv' /\ Grows
  BY <1>1, BeginCloseStep, ObserveStep, UpsertStep, ReadBackStep, SaveReceiptStep, CutShortStep
<1>2. ASSUME NEW m \in Maintainer, ReadEntry(m) \/ Promote(m) \/ MarkVerified(m)
      PROVE  IInv' /\ Grows
  BY <1>2, ReadEntryStep, PromoteStep, MarkVerifiedStep
<1> QED
  BY <1>1, <1>2, PassStep, StutterStep DEF Next

-----------------------------------------------------------------------------
(* Theorems. *)

\* The inductive invariant holds in every reachable state.
LEMMA Invariant == Spec => []IInv
BY InitInv, NextInv, PTL DEF Spec

\* Every reachable state of the KAST ledger is well typed, for any number of
\* closing sessions and maintainers (kast.ts, postgres-kast.ts).
THEOREM TypeCorrect == Spec => []TypeOK
<1>1. IInv => TypeOK
  BY DEF IInv, Ledger
<1> QED
  BY <1>1, Invariant, PTL

\* The recurrence count of an entry is the number of sessions that observed it,
\* whatever the sessions read before they wrote (mergeEntries).
THEOREM RecurrenceCounted == Spec => []RecurrenceExact
<1>1. IInv => RecurrenceExact
  BY DEF IInv, Ledger
<1> QED
  BY <1>1, Invariant, PTL

\* A receipt names entries that are stored and that its session observed
\* (closeHarnessSession reads back what upsertEntry kept).
THEOREM ReceiptsTrue == Spec => []ReceiptNamesEntries
<1>1. IInv => ReceiptNamesEntries
  BY DEF IInv
<1> QED
  BY <1>1, Invariant, PTL

\* Improvement work exists only for an issue that deserves it, however old the
\* copy was that the maintainer decided on (promoteKastToImprovementWork).
THEOREM PromotionJustified == Spec => []PromotedIsJustified
<1>1. IInv => PromotedIsJustified
  BY DEF IInv, Ledger
<1> QED
  BY <1>1, Invariant, PTL

\* No write of a stale copy takes anything away (mergeEntries).
THEOREM NothingTakenAway == Spec => NothingUndone
<1>1. IInv /\ [Next]_vars =>
        [\A f \in Fingerprint : Exists(f) =>
           /\ entries'[f].id = entries[f].id
           /\ entries[f].sessions \subseteq entries'[f].sessions
           /\ entries'[f].severity >= entries[f].severity
           /\ entries'[f].seen >= entries[f].seen
           /\ entries[f].guarded => entries'[f].guarded
           /\ entries[f].status = "accepted" => entries'[f].status = "accepted"]_vars
  BY NextInv DEF Grows
<1> QED
  BY <1>1, Invariant, PTL DEF NothingUndone, Spec
==============================================================================
