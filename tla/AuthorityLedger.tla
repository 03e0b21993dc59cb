---------------------------- MODULE AuthorityLedger ----------------------------
(***************************************************************************)
(* The authority operations of the MCP app: authorityMandateApply,         *)
(* authorityRootEnrollmentPrepare and authorityRootEnrollmentVerify, as    *)
(* concurrent requests over the assets of one Company.  Every store call   *)
(* is one step.                                                            *)
(*                                                                         *)
(* A request reads the trust anchors its deployment is configured with;    *)
(* requests of old and new deployments may overlap, so each has its own.   *)
(* The time a request takes as "now" is its stamp: the order in which      *)
(* requests began, which is also the order listAssets returns the mandates *)
(* in.  A discovery revision is known by its sequence and stamp and by the *)
(* owner questions resolved in it; every mandate binds its resolutions to  *)
(* the revision that was the latest when it was signed, the first one.     *)
(***************************************************************************)
EXTENDS AuthorityMandates

CONSTANTS
    Process,    \* concurrent requests
    Question,   \* open owner questions of the first discovery revision
    None,       \* no mandate
    MaxTries,   \* attempts of a request to commit, 3 in the code
    MaxCalls,   \* bound of the model: requests
    MaxFaults   \* bound of the model: crashes, exceptions and lost replies

ASSUME LedgerAssumption ==
    /\ \A m \in Mandate : Content[m].resolves \subseteq Question
    /\ None \notin Mandate
    /\ MaxTries \in Nat \ {0}
    /\ MaxCalls \in Nat
    /\ MaxFaults \in Nat

VARIABLES
    mandates,     \* company-authority-mandate assets: mandate and stamp
    ledgerHead,   \* the ledger head: the mandates it covers and its version
    keyring,      \* the keyring head: the root keys it holds and its version
    journal,      \* state of each mandate's idempotency key
    events,       \* mandates whose applied event was appended
    revisions,    \* company-discovery assets
    challenges,   \* enrollment challenges
    pc,           \* where each request is
    call,         \* the locals of each request
    calls,        \* requests so far, the next stamp
    faults,       \* faults so far
    attempts,     \* history: challenges a proof was evaluated for, per request
    unauthorised  \* history: mandates that resolved a question while not active

assets == <<mandates, ledgerHead, keyring, revisions, challenges>>
stored == <<assets, journal, events>>
history == <<attempts, unauthorised>>
vars == <<stored, pc, call, calls, faults, history>>

-----------------------------------------------------------------------------
(* Data. *)

Stamp == 0..MaxCalls

MandateAsset == [id: Mandate, at: Stamp]

Revision == [seq: Nat, at: Stamp, resolved: SUBSET (Question \X Mandate)]

Challenge == [at: Stamp, live: BOOLEAN, consumed: BOOLEAN]

FirstRevision == [seq |-> 1, at |-> 0, resolved |-> {}]

NoCall == [mandate |-> None, config |-> {}, at |-> 0, attempt |-> 0, list |-> <<>>,
           ledgerVersion |-> 0, keyringVersion |-> 0, persisted |-> FALSE,
           repeated |-> FALSE, prior |-> FirstRevision, challenge |-> 0]

Call == [mandate: Mandate \cup {None}, config: SUBSET RootKey, at: Stamp, attempt: 0..MaxTries,
         list: Seq(Mandate), ledgerVersion: Nat, keyringVersion: Nat, persisted: BOOLEAN,
         repeated: BOOLEAN, prior: Revision, challenge: Stamp]

Stage == {"idle", "claim", "load", "keyring", "commit", "event", "discovery", "revise",
          "mark", "catch", "challenges", "issue", "lookup", "consume"}

TypeOK ==
    /\ mandates \subseteq MandateAsset
    /\ ledgerHead \in [covers: SUBSET Mandate, version: 0..MaxCalls]
    /\ keyring \in [keys: SUBSET RootKey, version: 0..MaxCalls]
    /\ journal \in [Mandate -> {"none", "intent", "applied", "failed", "unknown"}]
    /\ events \subseteq Mandate
    /\ revisions \subseteq Revision
    /\ challenges \subseteq Challenge
    /\ pc \in [Process -> Stage]
    /\ call \in [Process -> Call]
    /\ calls \in Stamp
    /\ faults \in 0..MaxFaults
    /\ attempts \subseteq Stamp \X Stamp
    /\ unauthorised \subseteq Mandate

Init ==
    /\ mandates = {}
    /\ ledgerHead = [covers |-> {}, version |-> 0]
    /\ keyring = [keys |-> {}, version |-> 0]
    /\ journal = [m \in Mandate |-> "none"]
    /\ events = {}
    /\ revisions = {FirstRevision}
    /\ challenges = {}
    /\ pc = [p \in Process |-> "idle"]
    /\ call = [p \in Process |-> NoCall]
    /\ calls = 0
    /\ faults = 0
    /\ attempts = {}
    /\ unauthorised = {}

Goto(p, stage) == pc' = [pc EXCEPT ![p] = stage]

Set(p, locals) == call' = [call EXCEPT ![p] = locals]

\* The request ends.
Leave(p) == Goto(p, "idle") /\ Set(p, NoCall)

Applied == {r.id : r \in mandates}

\* listAssets: ORDER BY created_at.
ListOf(S) ==
    [i \in 1..Cardinality(S) |->
       (CHOOSE r \in S : Cardinality({s \in S : s.at < r.at}) = i - 1).id]

Listed == ListOf(mandates)

\* authorityLedgerHead of the mandates equals the persisted head.
LedgerComplete == ledgerHead.covers = Applied

\* The abstract history of this ledger.
History == INSTANCE AuthorityHistory WITH
    list <- Listed, keys <- keyring.keys, now <- calls, MaxTime <- MaxCalls

\* verifiedAuthorityKeyring does not throw.
KeyringLoads(S, config) == History!KeyringComplete(S, config, keyring.keys)

\* latestDiscovery: by sequence, then by creation.
Latest ==
    CHOOSE r \in revisions : \A s \in revisions :
        r.seq > s.seq \/ (r.seq = s.seq /\ r.at >= s.at)

\* The questions m could still resolve in a revision.
StillOpen(m, revision) ==
    {q \in Content[m].resolves : \A x \in revision.resolved : x[1] # q}

\* A request begins: it takes the next stamp.
Begin(p) == pc[p] = "idle" /\ calls < MaxCalls /\ calls' = calls + 1

-----------------------------------------------------------------------------
(* authorityMandateApply. *)

\* The first snapshot, before the claim; the keyring check there can only refuse.
\* A mandate already in the ledger goes straight to the discovery, if it is
\* valid; a refused request throws and changes nothing.
BeginApply(p) ==
    /\ Begin(p)
    /\ LedgerComplete
    /\ \E m \in Mandate, config \in (SUBSET RootKey) \ {{}} :
         /\ KeyringLoads(Applied, config)
         /\ m \in Applied => History!Verified(m, Listed, config, calls')
         /\ Goto(p, IF m \in Applied THEN "discovery" ELSE "claim")
         /\ Set(p, [NoCall EXCEPT !.mandate = m, !.config = config, !.at = calls',
                                  !.repeated = m \in Applied])
    /\ UNCHANGED <<stored, faults, history>>

\* claimIdempotency: only the first claimant goes on.
ClaimMandate(p) ==
    /\ pc[p] = "claim"
    /\ LET m == call[p].mandate
       IN  IF journal[m] = "none"
           THEN /\ journal' = [journal EXCEPT ![m] = "intent"]
                /\ Goto(p, "load")
                /\ UNCHANGED call
           ELSE Leave(p) /\ UNCHANGED journal
    /\ UNCHANGED <<assets, events, calls, faults, history>>

\* verifiedAuthorityLedger of the next attempt.
LoadLedger(p) ==
    /\ pc[p] = "load"
    /\ IF LedgerComplete
       THEN /\ Set(p, [call[p] EXCEPT !.list = Listed, !.attempt = @ + 1,
                                      !.ledgerVersion = ledgerHead.version])
            /\ Goto(p, "keyring")
       ELSE Goto(p, "catch") /\ UNCHANGED call
    /\ UNCHANGED <<stored, calls, faults, history>>

\* verifiedAuthorityKeyring and verifyAuthorityMandate.
LoadKeyring(p) ==
    /\ pc[p] = "keyring"
    /\ IF /\ KeyringLoads(Range(call[p].list), call[p].config)
          /\ History!Verified(call[p].mandate, call[p].list, call[p].config, call[p].at)
       THEN /\ Set(p, [call[p] EXCEPT !.keyringVersion = keyring.version])
            /\ Goto(p, "commit")
       ELSE Goto(p, "catch") /\ UNCHANGED call
    /\ UNCHANGED <<stored, calls, faults, history>>

\* Mutant: only the mandate asset is guarded.
InsertsOnly(p) == call[p].mandate \notin Applied

\* Every change of saveAssetsAtomically finds the version it expects.
Unchanged(p) ==
    /\ call[p].mandate \notin Applied
    /\ ledgerHead.version = call[p].ledgerVersion
    /\ keyring.version = call[p].keyringVersion

SaveAtomically(p) ==
    LET m == call[p].mandate
    IN  /\ mandates' = mandates \cup {[id |-> m, at |-> call[p].at]}
        /\ ledgerHead' = [covers |-> Range(call[p].list) \cup {m},
                          version |-> ledgerHead.version + 1]
        /\ keyring' = [keys |-> call[p].config, version |-> keyring.version + 1]

TriesLeft(p) == call[p].attempt < MaxTries

\* saveAssetsAtomically, tried MaxTries times.
Commit(p) ==
    /\ pc[p] = "commit"
    /\ IF Unchanged(p)
       THEN /\ SaveAtomically(p)
            /\ Goto(p, "event")
            /\ Set(p, [call[p] EXCEPT !.persisted = TRUE])
       ELSE /\ Goto(p, IF TriesLeft(p) THEN "load" ELSE "catch")
            /\ UNCHANGED <<mandates, ledgerHead, keyring, call>>
    /\ UNCHANGED <<journal, events, revisions, challenges, calls, faults, history>>

AppendEvent(p) ==
    /\ pc[p] = "event"
    /\ events' = events \cup {call[p].mandate}
    /\ Goto(p, "discovery")
    /\ UNCHANGED <<assets, journal, call, calls, faults, history>>

\* A repeated request has no key to settle: it just returns or throws.
Settle(p, stage) ==
    IF call[p].repeated THEN Leave(p) ELSE Goto(p, stage) /\ UNCHANGED call

\* The revision the mandate was signed for.
BoundTo(prior) == prior = FirstRevision

\* reconcileDiscovery reads the latest revision: nothing left to resolve in it,
\* a revision the mandate is not bound to, or one to resolve questions in.
ReadDiscovery(p) ==
    /\ pc[p] = "discovery"
    /\ IF StillOpen(call[p].mandate, Latest) = {} THEN Settle(p, "mark")
       ELSE IF ~BoundTo(Latest) THEN Settle(p, "catch")
       ELSE Goto(p, "revise") /\ Set(p, [call[p] EXCEPT !.prior = Latest])
    /\ UNCHANGED <<stored, calls, faults, history>>

\* saveAsset of the new revision, with the verification made before.
SaveRevision(p) ==
    /\ pc[p] = "revise"
    /\ LET m     == call[p].mandate
           prior == call[p].prior
       IN  /\ revisions' = revisions \cup
                {[seq |-> prior.seq + 1, at |-> call[p].at,
                  resolved |-> prior.resolved \cup (StillOpen(m, prior) \X {m})]}
           /\ unauthorised' = IF m \in Active(Listed, RootKey, calls)
                              THEN unauthorised ELSE unauthorised \cup {m}
    /\ Settle(p, "mark")
    /\ UNCHANGED <<mandates, ledgerHead, keyring, challenges, journal, events, calls,
                   faults, attempts>>

\* markIdempotency: the claimant of a key always finds its row.
MarkApplied(p) ==
    /\ pc[p] = "mark"
    /\ journal' = [journal EXCEPT ![call[p].mandate] = "applied"]
    /\ Leave(p)
    /\ UNCHANGED <<assets, events, calls, faults, history>>

Catch(p) ==
    /\ pc[p] = "catch"
    /\ journal' = [journal EXCEPT ![call[p].mandate] =
                     IF call[p].persisted THEN "unknown" ELSE "failed"]
    /\ Leave(p)
    /\ UNCHANGED <<assets, events, calls, faults, history>>

-----------------------------------------------------------------------------
(* Root enrollment, by a deployment without trust anchors. *)

\* No mandate history exists; the request then reads the challenges.
BeginPrepare(p) ==
    /\ Begin(p)
    /\ mandates = {}
    /\ Goto(p, "challenges")
    /\ Set(p, [NoCall EXCEPT !.at = calls'])
    /\ UNCHANGED <<stored, faults, history>>

\* Neither consumed nor expired.
Outstanding(c) == c.live /\ ~c.consumed

ReadChallenges(p) ==
    /\ pc[p] = "challenges"
    /\ IF \E c \in challenges : Outstanding(c)
       THEN Leave(p)
       ELSE Goto(p, "issue") /\ UNCHANGED call
    /\ UNCHANGED <<stored, calls, faults, history>>

IssueChallenge(p) ==
    /\ pc[p] = "issue"
    /\ challenges' = challenges \cup
         {[at |-> call[p].at, live |-> TRUE, consumed |-> FALSE]}
    /\ Leave(p)
    /\ UNCHANGED <<mandates, ledgerHead, keyring, revisions, journal, events, calls,
                   faults, history>>

BeginVerify(p) ==
    /\ Begin(p)
    /\ mandates = {}
    /\ Goto(p, "lookup")
    /\ Set(p, [NoCall EXCEPT !.at = calls'])
    /\ UNCHANGED <<stored, faults, history>>

\* The challenge of the proof was issued and is not consumed.
LookUpChallenge(p) ==
    /\ pc[p] = "lookup"
    /\ \E c \in challenges :
         IF c.consumed THEN Leave(p)
         ELSE Goto(p, "consume") /\ Set(p, [call[p] EXCEPT !.challenge = c.at])
    /\ UNCHANGED <<stored, calls, faults, history>>

\* Mutant: the challenge is retired whatever its version.
RetireAny(c) == c \in challenges

\* The version read is still the version stored: only consuming changes it.
VersionUnchanged(c) == ~c.consumed

\* The compare-and-set that retires the challenge; only then is the proof looked
\* at, whose outcome changes nothing.
ConsumeChallenge(p) ==
    /\ pc[p] = "consume"
    /\ \E c \in challenges :
         /\ c.at = call[p].challenge
         /\ IF VersionUnchanged(c)
            THEN /\ challenges' = (challenges \ {c}) \cup {[c EXCEPT !.consumed = TRUE]}
                 /\ attempts' = attempts \cup {<<c.at, call[p].at>>}
            ELSE UNCHANGED <<challenges, attempts>>
    /\ Leave(p)
    /\ UNCHANGED <<mandates, ledgerHead, keyring, revisions, journal, events, calls,
                   faults, unauthorised>>

-----------------------------------------------------------------------------
(* Time and faults. *)

ExpireChallenge ==
    /\ \E c \in challenges :
         /\ c.live
         /\ challenges' = (challenges \ {c}) \cup {[c EXCEPT !.live = FALSE]}
    /\ UNCHANGED <<mandates, ledgerHead, keyring, revisions, journal, events, pc, call,
                   calls, faults, history>>

InTry == {"load", "keyring", "commit", "event", "discovery", "revise", "mark"}

Fault == faults < MaxFaults /\ faults' = faults + 1

\* A store call throws: inside the try block of a claimed mandate its catch runs.
Throw(p) ==
    /\ pc[p] # "idle"
    /\ Fault
    /\ IF pc[p] \in InTry /\ ~call[p].repeated
       THEN Goto(p, "catch") /\ UNCHANGED call
       ELSE Leave(p)
    /\ UNCHANGED <<stored, calls, history>>

\* saveAssetsAtomically commits and its reply is lost: assetPersisted stays false.
LoseReply(p) ==
    /\ pc[p] = "commit"
    /\ Unchanged(p)
    /\ Fault
    /\ SaveAtomically(p)
    /\ Goto(p, "catch")
    /\ UNCHANGED <<journal, events, revisions, challenges, call, calls, history>>

Crash(p) ==
    /\ pc[p] # "idle"
    /\ Fault
    /\ Leave(p)
    /\ UNCHANGED <<stored, calls, history>>

Step(p) ==
    \/ BeginApply(p) \/ ClaimMandate(p) \/ LoadLedger(p) \/ LoadKeyring(p) \/ Commit(p)
    \/ AppendEvent(p) \/ ReadDiscovery(p) \/ SaveRevision(p) \/ MarkApplied(p) \/ Catch(p)
    \/ BeginPrepare(p) \/ ReadChallenges(p) \/ IssueChallenge(p)
    \/ BeginVerify(p) \/ LookUpChallenge(p) \/ ConsumeChallenge(p)

Next ==
    \/ \E p \in Process : Step(p) \/ Throw(p) \/ LoseReply(p) \/ Crash(p)
    \/ ExpireChallenge

Spec == Init /\ [][Next]_vars

-----------------------------------------------------------------------------
(* Correctness. *)

\* The ledger head always covers exactly the mandates applied: "serializes
\* concurrent distinct mandates through the atomic ledger head without losing
\* either" (runtime-authority-mandate.test.ts), whatever fails in between.
LedgerNeverIncomplete == LedgerComplete

\* The ledger implements AuthorityHistory: the mandate that commits was verified
\* against exactly the mandates it joins, so one that revokes it cannot slip in
\* between, and no overlapping deployment with fewer keys shrinks the keyring.
LedgerHistory == History!HistorySpec

\* "The first verification attempt CAS-retires it": no challenge serves two
\* proofs.
OneAttempt == \A x, y \in attempts : x[1] = y[1] => x = y

\* "Owner/constitutional discovery questions may be resolved only when an active
\* verified mandate carries the corresponding scope"
\* (docs/CURRENT_ARCHITECTURE_2026-08-25.md): the mandate is active when its
\* revision is saved.
ResolvedByActive == unauthorised = {}

\* "prepare durably registers the one-time challenge, refuses while another
\* unexpired challenge is active" (same document).
OneActiveChallenge == \A c, d \in challenges : Outstanding(c) /\ Outstanding(d) => c = d

==============================================================================
