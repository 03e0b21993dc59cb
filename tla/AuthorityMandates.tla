--------------------------- MODULE AuthorityMandates ---------------------------
(***************************************************************************)
(* Which signed mandates of a Company are active: the pure functions of    *)
(* authority-mandate.ts.  Signatures, hashes and Company bindings are      *)
(* taken to be right, as a mandate that fails them changes nothing; what   *)
(* is left is who signed, when, until when, for which scopes, and what the *)
(* mandate ends or delegates.  No mandate has a notBefore, every principal *)
(* has one key, and a root anchor allows every scope for all time.         *)
(***************************************************************************)
EXTENDS Naturals, FiniteSets, SequencesExt

CONSTANTS
    Mandate,   \* mandate identifiers
    Key,       \* signing keys
    RootKey,   \* those a deployment may configure as trust anchors
    Scope,     \* scopes, "admin" and "delegate" among them
    Content    \* what each mandate says

ASSUME MandateAssumption ==
    /\ RootKey \subseteq Key
    /\ {"admin", "delegate"} \subseteq Scope
    /\ \A m \in Mandate :
         /\ Content[m].signer \in Key
         /\ Content[m].issuedAt \in Nat
         /\ Content[m].expiresAt \subseteq Nat
         /\ Content[m].scopes \subseteq Scope
         /\ Content[m].ends \subseteq Mandate
         /\ Content[m].delegates \subseteq [key: Key, scopes: SUBSET Scope]
    /\ \A m, n \in Mandate : Content[m].issuedAt = Content[n].issuedAt => m = n

\* timeValid: issued by now and not expired; expiresAt is empty or the one time.
InForce(m, now) ==
    /\ Content[m].issuedAt <= now
    /\ \A end \in Content[m].expiresAt : now < end

\* The mandates of a list that are in force.  One that is not is not valid, ends
\* nothing and delegates nothing: what follows is of those that are.
Current(list, now) == {m \in Range(list) : InForce(m, now)}

\* A trust anchor: owner class or delegate, and the issuance it covers.
Anchor == [key: Key, owner: BOOLEAN, from: Nat, scopes: SUBSET Scope]

RootAnchors(keys) == [key: keys, owner: {TRUE}, from: {0}, scopes: {Scope}]

\* baseVerify of a mandate in force: a trusted issuer, within the anchor's time and
\* scopes.  It was issued by now, so before a delegation in force expires.
BaseValid(m, anchors) ==
    \E a \in anchors :
        /\ a.key = Content[m].signer
        /\ Content[m].issuedAt >= a.from
        /\ Content[m].scopes \subseteq a.scopes

OwnerClass(m, anchors) == \E a \in anchors : a.key = Content[m].signer /\ a.owner

\* m supersedes or revokes t and may: as an administrator, or as its own issuer
\* with at least its scopes.
MayEnd(m, t) ==
    /\ t \in Content[m].ends
    /\ \/ "admin" \in Content[m].scopes
       \/ /\ Content[m].signer = Content[t].signer
          /\ Content[t].scopes \subseteq Content[m].scopes

\* Mutant: the mandates are taken from the last issued to the first.
LastIssuedFirst(m, n) == Content[m].issuedAt > Content[n].issuedAt

IssuedBefore(m, n) == Content[m].issuedAt < Content[n].issuedAt

\* The mandates of a set, sorted.
Sorted(mandates) ==
    [i \in 1..Cardinality(mandates) |->
       CHOOSE m \in mandates :
           Cardinality({n \in mandates : IssuedBefore(n, m)}) = i - 1]

\* deriveActiveMandatesWithAnchors: in the order of issue, each owner-class
\* mandate still valid at its turn ends others.
ActiveUnder(mandates, anchors) ==
    LET End(valid, m) ==
            IF m \in valid /\ OwnerClass(m, anchors)
            THEN {t \in valid : ~MayEnd(m, t)}
            ELSE valid
    IN  FoldLeft(End, {m \in mandates : BaseValid(m, anchors)}, Sorted(mandates))

\* Mutant: a delegation covers signatures made before it.
RetroactiveFrom(d) == 0

\* delegated.validFrom
DelegatedFrom(d) == Content[d].issuedAt

\* deriveEffectiveTrustAnchors over the mandates as they are listed: of the
\* active delegations of a key that is not a root, the first listed counts, and of
\* what a mandate grants one key the first claim, whichever that is.
EffectiveAnchors(list, keys, now) ==
    LET active == ActiveUnder(Current(list, now), RootAnchors(keys))
        Delegating(i, k) ==
            /\ list[i] \in active
            /\ "delegate" \in Content[list[i]].scopes
            /\ \E g \in Content[list[i]].delegates : g.key = k
        Delegated(k) == {i \in DOMAIN list : Delegating(i, k)}
        First(k) == CHOOSE i \in Delegated(k) : \A j \in Delegated(k) : i <= j
        Claim(k) == CHOOSE g \in Content[list[First(k)]].delegates : g.key = k
    IN  RootAnchors(keys) \cup
        {[key |-> k, owner |-> FALSE, from |-> DelegatedFrom(list[First(k)]),
          scopes |-> Claim(k).scopes] : k \in {k \in Key \ keys : Delegated(k) # {}}}

\* deriveActiveMandates
Active(list, keys, now) ==
    ActiveUnder(Current(list, now), EffectiveAnchors(list, keys, now))

\* verifyAuthorityMandate of m against a ledger.
Verified(m, list, keys, now) ==
    /\ InForce(m, now)
    /\ BaseValid(m, EffectiveAnchors(list, keys, now))
    /\ m \in Active(Append(SelectSeq(list, LAMBDA n : n # m), m), keys, now)

-----------------------------------------------------------------------------
(* What the functions above are for, without their loops. *)

\* E is the set of mandates that take their turn: owner class, base valid, and
\* not ended by one of E issued before.
TakesTurn(E, mandates, anchors) ==
    E = {m \in mandates :
           /\ BaseValid(m, anchors)
           /\ OwnerClass(m, anchors)
           /\ \A e \in E : Content[e].issuedAt < Content[m].issuedAt => ~MayEnd(e, m)}

\* A mandate is active if and only if it is base valid and none of those ends it.
ActiveByDefinition(mandates, anchors) ==
    LET E == CHOOSE E \in SUBSET mandates : TakesTurn(E, mandates, anchors)
    IN  {m \in mandates : BaseValid(m, anchors) /\ \A e \in E : ~MayEnd(e, m)}

==============================================================================
