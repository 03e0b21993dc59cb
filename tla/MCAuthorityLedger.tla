--------------------------- MODULE MCAuthorityLedger ---------------------------
(***************************************************************************)
(* Instances of AuthorityLedger for TLC: "own" and "own2" resolve the same *)
(* question, "own2" until the third request, and "rev" revokes "own".      *)
(***************************************************************************)
EXTENDS AuthorityLedger, TLC

CONSTANTS p1, p2

MCProcess == {p1, p2}

\* Requests are interchangeable.
MCSymmetry == Permutations(MCProcess)

MCKey == {"k1", "k2"}
MCScope == {"confirm", "delegate", "admin"}
MCQuestion == {"q1"}

Says(signer, issuedAt, scopes) ==
    [signer |-> signer, issuedAt |-> issuedAt, expiresAt |-> {}, scopes |-> scopes,
     ends |-> {}, delegates |-> {}, resolves |-> {}]

MCContent ==
    [own  |-> [Says("k1", 0, {"confirm"}) EXCEPT !.resolves = {"q1"}],
     own2 |-> [Says("k2", 1, {"confirm"}) EXCEPT !.resolves = {"q1"}, !.expiresAt = {3}],
     rev  |-> [Says("k2", 2, {"admin"}) EXCEPT !.ends = {"own"}]]

MCMandate == DOMAIN MCContent

==============================================================================
