-------------------------- MODULE MCAuthorityHistory --------------------------
(***************************************************************************)
(* An instance of AuthorityHistory for TLC.  "del" delegates the key d,    *)
(* "use" is signed with d, "narrow" tries to revoke a mandate with more    *)
(* scopes and one of another issuer, "rev" revokes "del" and "narrow",     *)
(* "redel" delegates d anew and, as an administrator, supersedes "rev".    *)
(* "early" delegates d for nothing and ends "rev", issued after it.        *)
(* "del" expires, and later "rev" does.                                    *)
(***************************************************************************)
EXTENDS AuthorityHistory

MCKey == {"k1", "k2", "d"}
MCRootKey == {"k1", "k2"}
MCScope == {"confirm", "delegate", "admin"}

Says(signer, issuedAt, scopes) ==
    [signer |-> signer, issuedAt |-> issuedAt, expiresAt |-> {}, scopes |-> scopes,
     ends |-> {}, delegates |-> {}]

Grant(scopes) == [key |-> "d", scopes |-> scopes]

MCContent ==
    [early  |-> [Says("k2", 0, {"delegate", "admin"}) EXCEPT
                   !.delegates = {Grant({})}, !.ends = {"rev"}],
     del    |-> [Says("k1", 1, {"delegate", "confirm"}) EXCEPT
                   !.delegates = {Grant({"confirm"})}, !.expiresAt = {6}],
     use    |-> Says("d", 2, {"confirm"}),
     narrow |-> [Says("k1", 3, {"confirm"}) EXCEPT !.ends = {"del", "early"}],
     rev    |-> [Says("k1", 4, {"delegate", "confirm"}) EXCEPT !.ends = {"del", "narrow"},
                   !.expiresAt = {7}],
     redel  |-> [Says("k2", 5, {"delegate", "admin"}) EXCEPT
                   !.delegates = {Grant({"confirm"})}, !.ends = {"rev", "early"}]]

MCMandate == DOMAIN MCContent

==============================================================================
