--------------------------- MODULE AuthorityHistory ---------------------------
(***************************************************************************)
(* What the authority ledger of a Company promises, without requests,      *)
(* versions and retries: mandates are applied one at a time, each verified *)
(* against all those before it and with the keys of one deployment, and    *)
(* neither a mandate nor a root key is ever forgotten.                     *)
(*                                                                         *)
(* The history is in the order listAssets returns it, which is the order   *)
(* the applying requests began in and need not be the order they committed *)
(* in: a mandate may be inserted anywhere.  A request verifies at the time *)
(* it began.                                                               *)
(***************************************************************************)
EXTENDS AuthorityMandates

CONSTANT MaxTime   \* bound of the model: how far the clock goes

ASSUME HistoryAssumption == MaxTime \in Nat

VARIABLES
    list,   \* the mandates applied, in the order they are listed
    keys,   \* root keys of the keyring
    now     \* the clock

historyVars == <<list, keys, now>>

HistoryInit == list = <<>> /\ keys = {} /\ now = 0

DelegatedKeys(S) == UNION {{g.key : g \in Content[m].delegates} : m \in S}

\* verifiedAuthorityKeyring does not throw: the keys of the persisted keyring head
\* are still configured, and so are those of historical signers no delegation
\* introduced.
KeyringComplete(S, config, persisted) ==
    /\ persisted \subseteq config
    /\ \A m \in S : Content[m].signer \in DelegatedKeys(S) \cup config

\* A deployment configured with some keys may apply m, verified at some time up to
\* now.
Admits(config, m) ==
    /\ m \notin Range(list)
    /\ KeyringComplete(Range(list), config, keys)
    /\ {at \in 0..now : Verified(m, list, config, at)} # {}

\* It is listed at position i.
Apply(m, config, i) ==
    /\ list' = InsertAt(list, i, m)
    /\ keys' = config
    /\ UNCHANGED now

TimePasses == now < MaxTime /\ now' = now + 1 /\ UNCHANGED <<list, keys>>

HistoryNext ==
    \/ \E m \in Mandate, config \in SUBSET RootKey :
         Admits(config, m) /\ \E i \in 1 .. Len(list) + 1 : Apply(m, config, i)
    \/ TimePasses

HistorySpec == HistoryInit /\ [][HistoryNext]_historyVars

-----------------------------------------------------------------------------
(* Correctness. *)

\* The mandates applied that are in force now.
Present == Current(list, now)

Anchors == EffectiveAnchors(list, RootKey, now)

\* The loops of deriveActiveMandates compute what their definition says.
ActiveIsUnrevoked ==
    /\ \E E \in SUBSET Present : TakesTurn(E, Present, Anchors)
    /\ Active(list, RootKey, now) = ActiveByDefinition(Present, Anchors)

\* The mandates that count and would be active, had no other ended them.
Ended == {t \in Present : BaseValid(t, Anchors)} \ Active(list, RootKey, now)

\* A new mandate reaches back: it ends one issued after itself.
ReachesBack ==
    \E m \in Present' \ Present :
        \E t \in Content[m].ends \cap Present : Content[t].issuedAt >= Content[m].issuedAt

\* A mandate expires that ends others.
EnderExpires == \E m \in Present : ~InForce(m, now') /\ Content[m].ends # {}

\* What was revoked or superseded stays so, wherever and however late a mandate is
\* listed and whatever else expires, until a mandate reaches back or one that ends
\* others expires: an expired mandate ends nothing, so what it ended may be active
\* again.  (A mandate of a delegated key may become active again without having
\* been ended: when another delegation of its key comes to count.)
RevokedStaysRevoked ==
    [][ReachesBack \/ EnderExpires \/ Ended \cap Active(list', RootKey, now') = {}]_historyVars

\* "A delegated public key becomes trusted only for the scopes granted by an active
\* owner/root mandate; revoking or superseding that delegation removes derived
\* authority" (docs/CURRENT_ARCHITECTURE_2026-08-25.md), and it is trusted for what
\* it signs after that.
AuthorityIsDerived ==
    \A m \in Active(list, RootKey, now) : Content[m].signer \notin RootKey =>
        \E d \in Active(list, RootKey, now) :
            /\ Content[d].issuedAt < Content[m].issuedAt
            /\ Content[d].signer \in RootKey
            /\ "delegate" \in Content[d].scopes
            /\ \E g \in Content[d].delegates :
                 g.key = Content[m].signer /\ Content[m].scopes \subseteq g.scopes

==============================================================================
