----------------------------- MODULE MCAccounts -----------------------------
(* Instances of Accounts for TLC.                                          *)
EXTENDS Accounts, TLC

CONSTANTS alice, bob, u1, u2, oidc, ldap, s1, s2, k1

MCProviderOf == (u1 :> oidc) @@ (u2 :> ldap)
MCClaim == [u \in Uids |-> "absent"]
MCProfile == (u1 :> [username |-> bob, email |-> bob]) @@ (u2 :> [username |-> bob, email |-> bob])

Alice == [username |-> alice, email |-> alice, external |-> FALSE, admin |-> TRUE]
Bob == [username |-> bob, email |-> bob, external |-> TRUE, admin |-> FALSE]
Users(bobRow) == [i \in Ids |-> IF i = 1 THEN Alice ELSE IF i = 2 THEN bobRow ELSE None]
SignedIn(i, m) == [user |-> i, method |-> m, verified |-> m = "none", expired |-> FALSE, idle |-> FALSE]

Population(bobRow, ids, factor, s) ==
    [users |-> Users(bobRow), identities |-> ids,
     totp |-> [i \in Ids |-> IF i = 1 THEN factor ELSE 0],
     sessions |-> [x \in Sessions |-> IF x = s1 THEN s ELSE None],
     tokens |-> [k \in Tokens |-> IF bobRow = None THEN None ELSE [user |-> 1, past |-> FALSE]],
     profile |-> MCProfile, used |-> [user |-> 2, totp |-> factor]]

\* An administrator signed in and an external user known by email only;
\* the administrator with TOTP half signed in and the user linked.
MCPopulations == {
    Population(None, {}, 0, SignedIn(1, "none")),
    Population(Bob, {}, 0, SignedIn(1, "none")),
    Population(Bob, {[user |-> 2, uid |-> u1]}, 1, SignedIn(1, "totp")) }
=============================================================================
