--------------------------- MODULE AccountsProofs ---------------------------
(***************************************************************************)
(* Proofs about accounts and logins: whose credential a request acts for,  *)
(* whom a login may adopt, when a second factor is asked, and what stays   *)
(* in the tables, for any users, requests, providers and starting state.   *)
(***************************************************************************)
EXTENDS Accounts, FiniteSetTheorems, TLAPS

\* Where a request with a credential can be, and where any other request.
SignedPoints == {"auth", "getUser", "target", "linkLookup", "linkList", "linkInsert", "unlinkDelete"} \cup Signed
LoginPoints == {"login", "password", "lookup", "known", "match", "pinned", "attach", "sync", "create",
                "attachNew", "rollback", "createSession"}
FactorPoints == {"factor", "dropTotp", "verifySession"}
OtherPoints == LoginPoints \cup FactorPoints \cup Commands \cup {"find", "session", "logout", "cliAdd"}
Points == SignedPoints \cup OtherPoints \cup {"idle", "oidc"}

Request == [op : AllOps \cup {"none"}, pc : Points, cred : Sessions \cup Tokens \cup {None},
            editor : Ids \cup {None}, admin : BOOLEAN, target : Ids \cup {None}, snap : Row \cup {None},
            totp : 0..MaxTotp, uid : Uids \cup {None}]

-----------------------------------------------------------------------------
(* The inductive invariant.                                                *)

\* The tables have their types, and ids that were given out are not reused.
TablesInv ==
    /\ users \in [Ids -> Row \cup {None}]
    /\ identities \subseteq [user : {i \in Ids : users[i] # None}, uid : Uids]
    /\ totp \in [Ids -> 0..MaxTotp]
    /\ sessions \in [Sessions -> Session \cup {None}]
    /\ tokens \in [Tokens -> Token \cup {None}]
    /\ profile \in [Uids -> Profile]
    /\ used \in [user : Nat, totp : 0..MaxTotp]
    /\ \A i \in Ids : /\ users[i] # None => i <= used.user
                      /\ totp[i] # 0 => users[i] # None
    /\ \A s \in Sessions : sessions[s] # None => sessions[s].user <= used.user
    /\ \A k \in Tokens : tokens[k] # None => users[tokens[k].user] # None
    /\ byLogin \subseteq {i \in Ids : i <= used.user}

\* What a request is doing belongs to its operation.
Doing(q) ==
    /\ q.pc \in SignedPoints => q.op \in Signed
    /\ q.pc \in OtherPoints => q.op \in AllOps \ Signed
    /\ q.pc = "idle" => q.op = "none"
    /\ q.pc = "oidc" => q.op \in {"oidc", "linkOidc"}
    /\ q.pc = "find" => q.op \in Commands

\* What a request has read by the time it needs it.
Targeted == {"known", "pinned", "attach", "sync", "attachNew", "rollback", "createSession",
             "update", "delete", "unlink", "unlinkDelete", "enableTotp", "disableTotp"}
              \cup FactorPoints \cup Commands
Knows(q) ==
    /\ q.pc \in Targeted => q.target \in Ids
    /\ q.pc \in {"pinned", "attach", "sync", "update", "unlink", "cliChange", "linkLookup"} => q.snap \in Row
    /\ q.pc \in SignedPoints \ {"auth"} => q.editor \in Ids
    /\ q.pc \in {"auth", "getUser"} => q.cred \in Sessions \cup Tokens
    /\ q.pc = "oidc" /\ q.op = "linkOidc" => q.cred \in Sessions
    /\ q.pc \in {"session", "logout"} \cup FactorPoints => q.cred \in Sessions
    /\ q.pc \in {"lookup", "known", "match", "pinned", "attach", "sync", "create", "attachNew",
                 "linkList", "linkInsert"} => q.uid \in Uids
    /\ q.pc \in {"auth", "getUser", "linkLookup"} /\ q.op = "linkOidc" => q.uid \in Uids

\* The tables behind what it has read, and whether it was entitled to go on.
Backed(q, entitled) ==
    /\ q.target \in Ids => q.target <= used.user
    /\ q.editor \in Ids => q.editor <= used.user
    /\ q.pc \in FactorPoints => sessions[q.cred] # None
    /\ q.pc \in {"pinned", "attach", "attachNew"} /\ users[q.target] # None => users[q.target].external
    /\ q.pc = "getUser" /\ users[q.editor] # None => entitled
    /\ q.pc \in SignedPoints \ {"auth", "getUser"} => entitled
    /\ q.pc \in {"pinned", "attach", "sync", "attachNew", "createSession"} /\ q.totp = 0 => entitled

RequestsInv ==
    /\ req \in [Requests -> Request]
    /\ seen \in [Requests -> BOOLEAN]
    /\ \A r \in Requests : Doing(req[r]) /\ Knows(req[r]) /\ Backed(req[r], seen[r])

AccountsInv == TablesInv /\ RequestsInv /\ NoOrphan

-----------------------------------------------------------------------------
(* The tables.                                                             *)

\* What a step may do to the tables: no id comes back, and a user stays
\* external or local.
Evolves ==
    /\ TablesInv'
    /\ used.user <= used'.user
    /\ \A i \in Ids : i <= used.user /\ users[i] = None => users'[i] = None
    /\ \A i \in Ids : users[i] # None /\ users'[i] # None => users'[i].external = users[i].external
    /\ \A s \in Sessions : sessions[s] # None => sessions'[s] # None

(* Ids are positive numbers, and None is none of the values.               *)
LEMMA Constants ==
    /\ Ids \subseteq Nat \ {0}
    /\ None \notin Ids /\ None \notin Row /\ None \notin Session /\ None \notin Token
    /\ MaxTotp \in Nat
<1>1. Cardinality(Ids) \in Nat
  BY AccountsAssumption, FS_CardinalityType
<1>2. Ids = 1..Cardinality(Ids)
  BY AccountsAssumption
<1> QED
  BY <1>1, <1>2, AccountsAssumption

(* Requests that only read leave the tables alone.                         *)
LEMMA KeepEvolves ==
    ASSUME TablesInv, UNCHANGED <<users, identities, totp, sessions, tokens, used, profile, byLogin>>
    PROVE  Evolves
<1>1. used.user \in Nat
  BY DEF TablesInv
<1> QED
  BY <1>1 DEF TablesInv, Evolves

(* A deleted user takes identities, TOTP and tokens along.                 *)
LEMMA DeleteRowEvolves ==
    ASSUME TablesInv, NEW i \in Ids, DeleteRow(i), UNCHANGED <<used, profile, byLogin>>
    PROVE  Evolves /\ users'[i] = None
<1>1. used.user \in Nat
  BY DEF TablesInv
<1>2. users'[i] = None /\ \A j \in Ids : j # i => users'[j] = users[j]
  BY DEF TablesInv, DeleteRow
<1>3. identities' \subseteq [user : {j \in Ids : users'[j] # None}, uid : Uids]
  BY <1>2 DEF TablesInv, DeleteRow
<1>4. \A k \in Tokens : tokens'[k] # None => tokens'[k] = tokens[k] /\ tokens[k].user # i
  BY DEF DeleteRow
<1>5. tokens' \in [Tokens -> Token \cup {None}]
  BY DEF TablesInv, DeleteRow
<1>6. \A k \in Tokens : tokens'[k] # None => users'[tokens'[k].user] # None
  <2> SUFFICES ASSUME NEW k \in Tokens, tokens'[k] # None PROVE users'[tokens'[k].user] # None
    OBVIOUS
  <2>1. tokens[k] \in Token /\ tokens[k].user \in Ids
    BY <1>4 DEF TablesInv, Token
  <2> QED
    BY <1>2, <1>4, <2>1 DEF TablesInv
<1>7. users' \in [Ids -> Row \cup {None}] /\ totp' \in [Ids -> 0..MaxTotp]
  BY Constants DEF TablesInv, DeleteRow
<1>8. \A j \in Ids : /\ users'[j] # None => j <= used.user
                     /\ totp'[j] # 0 => users'[j] # None
  BY <1>2 DEF TablesInv, DeleteRow
<1> QED
  BY <1>1, <1>2, <1>3, <1>5, <1>6, <1>7, <1>8 DEF TablesInv, DeleteRow, Evolves

(* An update writes a row that is there, and not its external flag.        *)
LEMMA UpdateRowEvolves ==
    ASSUME TablesInv, NEW i \in Ids, NEW row \in Row, UpdateRow(i, row), UNCHANGED <<used, profile, byLogin>>
    PROVE  Evolves
<1>1. used.user \in Nat
  BY DEF TablesInv
<1>2. CASE users[i] = None
  BY <1>2, KeepEvolves DEF UpdateRow
<1>3. CASE users[i] # None
  <2>1. users[i] \in Row /\ users[i].external \in BOOLEAN
    BY <1>3 DEF TablesInv, Row
  <2>2. [row EXCEPT !.external = users[i].external] \in Row
    BY <2>1 DEF Row
  <2>3. users' = [users EXCEPT ![i] = [row EXCEPT !.external = users[i].external]]
    BY <1>3 DEF UpdateRow
  <2>4. /\ users' \in [Ids -> Row \cup {None}]
        /\ users'[i] \in Row /\ users'[i].external = users[i].external
        /\ \A j \in Ids : j # i => users'[j] = users[j]
    BY <2>2, <2>3 DEF TablesInv, Row
  <2>5. \A j \in Ids : users'[j] # None <=> users[j] # None
    BY <1>3, <2>4, Constants
  <2>6. \A k \in Tokens : tokens[k] # None => tokens[k].user \in Ids
    BY DEF TablesInv, Token
  <2>7. UNCHANGED <<identities, totp, sessions, tokens>>
    BY DEF UpdateRow
  <2>8. TablesInv'
    BY <2>4, <2>5, <2>6, <2>7 DEF TablesInv
  <2>9. \A j \in Ids : users'[j] # None => users'[j].external = users[j].external
    BY <2>4
  <2> QED
    BY <1>1, <2>5, <2>7, <2>8, <2>9 DEF Evolves
<1> QED
  BY <1>2, <1>3

(* A new user gets an id that nobody had.                                  *)
LEMMA CreateUserEvolves ==
    ASSUME TablesInv, NEW row \in Row, CreateUser(row), profile' = profile,
           byLogin' \in {byLogin, byLogin \cup {used.user + 1}}
    PROVE  Evolves /\ used.user + 1 \in Ids /\ used'.user = used.user + 1
           /\ users'[used.user + 1] = row /\ totp[used.user + 1] = 0
<1> DEFINE i == used.user + 1
<1>1. used.user \in Nat /\ i \in Nat /\ i \in Ids /\ ~(i <= used.user)
  BY DEF TablesInv, CreateUser
<1>2. users[i] = None /\ totp[i] = 0
  BY <1>1 DEF TablesInv
<1>3. /\ users' = [users EXCEPT ![i] = row]
      /\ used' = [used EXCEPT !.user = i]
      /\ UNCHANGED <<identities, totp, sessions, tokens>>
  BY DEF CreateUser
<1>4. /\ users' \in [Ids -> Row \cup {None}] /\ users'[i] = row
      /\ \A j \in Ids : j # i => users'[j] = users[j]
  BY <1>1, <1>3 DEF TablesInv
<1>5. \A j \in Ids : users[j] # None => users'[j] = users[j]
  BY <1>2, <1>4
<1>6. /\ used' \in [user : Nat, totp : 0..MaxTotp] /\ used'.user = i
  BY <1>1, <1>3 DEF TablesInv
<1>7. \A j \in Ids : j \in Nat /\ (j <= used.user => j <= i)
  BY <1>1, Constants
<1>8. \A j \in Ids : users'[j] # None => j <= used'.user
  BY <1>1, <1>4, <1>6, <1>7 DEF TablesInv
<1>9. \A s \in Sessions : sessions[s] # None => sessions[s].user \in Ids
  BY DEF TablesInv, Session
<1>10. \A k \in Tokens : tokens[k] # None => tokens[k].user \in Ids
  BY DEF TablesInv, Token
<1>11. identities' \subseteq [user : {j \in Ids : users'[j] # None}, uid : Uids]
  BY <1>3, <1>5 DEF TablesInv
<1>12. byLogin' \subseteq {j \in Ids : j <= used'.user}
  BY <1>1, <1>6, <1>7 DEF TablesInv
<1>13. /\ \A j \in Ids : totp'[j] # 0 => users'[j] # None
       /\ \A s \in Sessions : sessions'[s] # None => sessions'[s].user <= used'.user
       /\ \A k \in Tokens : tokens'[k] # None => users'[tokens'[k].user] # None
  BY <1>3, <1>5, <1>6, <1>7, <1>9, <1>10 DEF TablesInv
<1>14. TablesInv'
  BY <1>3, <1>4, <1>6, <1>8, <1>11, <1>12, <1>13 DEF TablesInv
<1>15. used.user <= used'.user
  BY <1>1, <1>6
<1> QED
  BY <1>1, <1>2, <1>3, <1>4, <1>5, <1>6, <1>14, <1>15 DEF Evolves

(* An identity is given to a user who is there.                            *)
LEMMA CreateIdentityEvolves ==
    ASSUME TablesInv, NEW i \in Ids, NEW u \in Uids, CanLink(i, u), CreateExternalIdentity(i, u),
           UNCHANGED <<used, profile, byLogin>>
    PROVE  Evolves
<1>1. used.user \in Nat
  BY DEF TablesInv
<1>2. identities' \subseteq [user : {j \in Ids : users[j] # None}, uid : Uids]
  BY DEF TablesInv, CanLink, CreateExternalIdentity
<1> QED
  BY <1>1, <1>2 DEF TablesInv, CreateExternalIdentity, Evolves

(* Identities may be removed.                                              *)
LEMMA RemoveIdentitiesEvolves ==
    ASSUME TablesInv, identities' \subseteq identities,
           UNCHANGED <<users, totp, sessions, tokens, used, profile, byLogin>>
    PROVE  Evolves
<1>1. used.user \in Nat
  BY DEF TablesInv
<1>2. identities' \subseteq [user : {j \in Ids : users[j] # None}, uid : Uids]
  BY DEF TablesInv
<1> QED
  BY <1>1, <1>2 DEF TablesInv, Evolves

(* TOTP is switched on for a user who is there, or off.                    *)
LEMMA TotpEvolves ==
    ASSUME TablesInv, NEW i \in Ids, profile' = profile, byLogin' = byLogin,
           AddTotpVerification(i) \/ (used' = used /\ \E id \in Nat : DeleteTotpVerification(i, id))
    PROVE  Evolves
<1>1. used.user \in Nat /\ used.totp \in 0..MaxTotp /\ MaxTotp \in Nat
  BY Constants DEF TablesInv
<1>2. CASE AddTotpVerification(i)
  <2>1. used.totp + 1 \in 0..MaxTotp
    BY <1>1, <1>2 DEF AddTotpVerification
  <2>2. used' \in [user : Nat, totp : 0..MaxTotp] /\ used'.user = used.user
    BY <1>2, <2>1 DEF TablesInv, AddTotpVerification
  <2>3. totp' \in [Ids -> 0..MaxTotp] /\ \A j \in Ids : j # i => totp'[j] = totp[j]
    BY <1>2, <2>1 DEF TablesInv, AddTotpVerification
  <2>4. users[i] # None /\ UNCHANGED <<users, identities, sessions, tokens>>
    BY <1>2 DEF AddTotpVerification
  <2>5. TablesInv'
    BY <2>2, <2>3, <2>4 DEF TablesInv
  <2> QED
    BY <1>1, <2>2, <2>4, <2>5 DEF Evolves
<1>3. CASE used' = used /\ \E id \in Nat : DeleteTotpVerification(i, id)
  <2>1. totp' \in [Ids -> 0..MaxTotp] /\ \A j \in Ids : totp'[j] # 0 => totp'[j] = totp[j]
    BY <1>1, <1>3 DEF TablesInv, DeleteTotpVerification
  <2>2. used' = used /\ UNCHANGED <<users, identities, sessions, tokens>>
    BY <1>3 DEF DeleteTotpVerification
  <2>3. TablesInv'
    BY <2>1, <2>2 DEF TablesInv
  <2> QED
    BY <1>1, <2>2, <2>3 DEF Evolves
<1> QED
  BY <1>2, <1>3

(* A session is opened for a user there was, or changes its flags.         *)
LEMMA SessionEvolves ==
    ASSUME TablesInv, NEW s \in Sessions, NEW row \in Session,
           row.user <= used.user, sessions' = [sessions EXCEPT ![s] = row],
           UNCHANGED <<users, identities, totp, tokens, used, profile, byLogin>>
    PROVE  Evolves
<1>1. used.user \in Nat
  BY DEF TablesInv
<1>2. sessions' \in [Sessions -> Session \cup {None}] /\ sessions'[s] = row
      /\ \A x \in Sessions : x # s => sessions'[x] = sessions[x]
  BY DEF TablesInv
<1>3. \A x \in Sessions : sessions'[x] # None => sessions'[x].user <= used.user
  BY <1>2 DEF TablesInv
<1>4. \A x \in Sessions : sessions[x] # None => sessions'[x] # None
  BY <1>2, Constants
<1> QED
  BY <1>1, <1>2, <1>3, <1>4 DEF TablesInv, Evolves

(* A token is of a user who is there.                                      *)
LEMMA TokenEvolves ==
    ASSUME TablesInv, tokens' \in [Tokens -> Token \cup {None}],
           \A k \in Tokens : tokens'[k] # None => users[tokens'[k].user] # None,
           UNCHANGED <<users, identities, totp, sessions, used, profile, byLogin>>
    PROVE  Evolves
<1>1. used.user \in Nat
  BY DEF TablesInv
<1> QED
  BY <1>1 DEF TablesInv, Evolves

(* CreateAPIToken gives one to a user who is there.                        *)
LEMMA CreateTokenEvolves ==
    ASSUME TablesInv, NEW i \in Ids, CreateAPIToken(i), UNCHANGED <<used, profile, byLogin>>
    PROVE  Evolves
<1>1. PICK k \in Tokens : /\ tokens[k] = None /\ users[i] # None
                          /\ tokens' = [tokens EXCEPT ![k] = [user |-> i, past |-> FALSE]]
                          /\ UNCHANGED <<users, identities, totp, sessions>>
  BY DEF CreateAPIToken
<1>2. [user |-> i, past |-> FALSE] \in Token
  BY DEF Token
<1>3. tokens' \in [Tokens -> Token \cup {None}] /\ tokens'[k].user = i
      /\ \A x \in Tokens : x # k => tokens'[x] = tokens[x]
  BY <1>1, <1>2 DEF TablesInv
<1>4. \A x \in Tokens : tokens'[x] # None => users[tokens'[x].user] # None
  BY <1>1, <1>3 DEF TablesInv
<1> QED
  BY <1>1, <1>3, <1>4, TokenEvolves


-----------------------------------------------------------------------------
(* The requests.                                                           *)

\* What a step of request r does to the other requests' business: a user
\* created by a login and not linked yet stays in the care of its request.
Fosters(r) ==
    /\ linked \subseteq linked'
    /\ \A i \in byLogin' \ byLogin : req'[r].target = i /\ req'[r].pc = "attachNew"
    /\ req[r].pc \in {"attachNew", "rollback"} =>
         \/ req'[r].target = req[r].target /\ req'[r].pc \in {"attachNew", "rollback"}
         \/ req[r].target \in linked'
         \/ users'[req[r].target] = None

\* A step of request r.
Moves(r) ==
    /\ Evolves /\ Witness /\ Fosters(r)
    /\ req' \in [Requests -> Request]
    /\ \A q \in Requests \ {r} : req'[q] = req[q]
    /\ Doing(req'[r]) /\ Knows(req'[r])
    /\ Backed(req[r], seen[r])'

(* What a request has read stays good while others act: ids do not come    *)
(* back, users stay external, and an entitlement that was seen is kept.    *)
LEMMA OthersKeep ==
    ASSUME TablesInv, RequestsInv, Evolves, Witness, req' \in [Requests -> Request],
           NEW q \in Requests, req'[q] = req[q]
    PROVE  Doing(req'[q]) /\ Knows(req'[q]) /\ Backed(req[q], seen[q])'
<1>1. Doing(req[q]) /\ Knows(req[q]) /\ Backed(req[q], seen[q])
  BY DEF RequestsInv
<1>2. req[q] \in Request
  BY DEF RequestsInv
<1>3. seen'[q] = (req[q].pc # "idle" /\ (seen[q] \/ Entitled(req[q])'))
  BY DEF Witness
<1>4. req[q].pc # "idle" /\ seen[q] => seen'[q]
  BY <1>3
<1>5. /\ req[q].target \in Ids \cup {None} /\ req[q].editor \in Ids \cup {None}
      /\ None \notin Ids /\ Ids \subseteq Nat
  BY <1>2, Constants DEF Request
<1>6. used.user \in Nat /\ used'.user \in Nat /\ used.user <= used'.user
  BY DEF TablesInv, Evolves
<1>7. /\ req[q].target \in Ids => req[q].target <= used'.user
      /\ req[q].editor \in Ids => req[q].editor <= used'.user
  <2>1. \A i \in Ids : i <= used.user => i <= used'.user
    BY <1>5, <1>6
  <2> QED
    BY <1>1, <2>1 DEF Backed
<1>8. req[q].pc \in FactorPoints => sessions'[req[q].cred] # None
  BY <1>1 DEF Backed, Knows, Evolves
<1>9. ASSUME req[q].pc \in {"pinned", "attach", "attachNew"}, users'[req[q].target] # None
      PROVE  users'[req[q].target].external
  <2>1. req[q].target \in Ids
    BY <1>1, <1>9 DEF Knows, Targeted
  <2>2. users[req[q].target] # None
    BY <1>1, <1>9, <2>1 DEF Backed, Evolves
  <2> QED
    BY <1>1, <1>9, <2>1, <2>2 DEF Backed, Evolves
<1>10. ASSUME req[q].pc = "getUser", users'[req[q].editor] # None
       PROVE  seen'[q]
  <2>1. req[q].editor \in Ids
    BY <1>1, <1>10 DEF Knows, SignedPoints
  <2>2. users[req[q].editor] # None
    BY <1>1, <1>10, <2>1 DEF Backed, Evolves
  <2> QED
    BY <1>1, <1>4, <1>10, <2>2 DEF Backed
<1>11. /\ req[q].pc \in SignedPoints \ {"auth", "getUser"} => seen'[q]
       /\ req[q].pc \in {"pinned", "attach", "sync", "attachNew", "createSession"} /\ req[q].totp = 0 => seen'[q]
  BY <1>1, <1>4 DEF Backed, SignedPoints, Signed
<1>12. Backed(req[q], seen[q])'
  BY <1>7, <1>8, <1>9, <1>10, <1>11 DEF Backed
<1> QED
  BY <1>1, <1>12

(* A step of one request preserves the whole invariant.                    *)
LEMMA MovesKeep ==
    ASSUME AccountsInv, NEW r \in Requests, Moves(r)
    PROVE  AccountsInv'
<1> USE DEF AccountsInv
<1>1. seen' \in [Requests -> BOOLEAN]
  BY DEF Moves, Witness
<1>2. \A q \in Requests : Doing(req'[q]) /\ Knows(req'[q]) /\ Backed(req[q], seen[q])'
  BY OthersKeep DEF Moves
<1>3. RequestsInv'
  BY <1>1, <1>2 DEF Moves, RequestsInv
<1>4. TablesInv'
  BY DEF Moves, Evolves
<1>5. NoOrphan'
  <2> SUFFICES ASSUME NEW i \in byLogin', users'[i] # None, i \notin linked'
               PROVE  \E q \in Requests : req'[q].target = i /\ req'[q].pc \in {"attachNew", "rollback"}
    BY DEF NoOrphan
  <2>1. CASE i \notin byLogin
    BY <2>1 DEF Moves, Fosters
  <2>2. CASE i \in byLogin
    <3>1. users[i] # None
      BY <2>2 DEF Moves, Evolves, TablesInv
    <3>2. i \notin linked
      BY DEF Moves, Fosters
    <3>3. PICK q \in Requests : req[q].target = i /\ req[q].pc \in {"attachNew", "rollback"}
      BY <2>2, <3>1, <3>2 DEF NoOrphan
    <3>4. CASE q # r
      BY <3>3, <3>4 DEF Moves
    <3>5. CASE q = r
      BY <3>3, <3>5 DEF Moves, Fosters
    <3> QED
      BY <3>4, <3>5
  <2> QED
    BY <2>1, <2>2
<1> QED
  BY <1>3, <1>4, <1>5

(* A request that ends leaves nothing to be checked.                       *)
LEMMA EndMoves ==
    ASSUME RequestsInv, Evolves, NEW r \in Requests, End(r), Witness,
           linked \subseteq linked', byLogin' = byLogin,
           req[r].pc \in {"attachNew", "rollback"} => users'[req[r].target] = None
    PROVE  Moves(r)
<1>1. Idle \in Request
  BY Constants DEF Request, Idle, Points
<1>2. /\ req' \in [Requests -> Request] /\ req'[r] = Idle
      /\ \A q \in Requests \ {r} : req'[q] = req[q]
  BY <1>1 DEF RequestsInv, End
<1>3. Doing(Idle) /\ Knows(Idle)
  BY DEF Doing, Knows, Idle, SignedPoints, OtherPoints, LoginPoints, FactorPoints, Targeted, Signed, Commands
<1>4. Backed(req[r], seen[r])'
  BY <1>2, Constants DEF Backed, Idle, SignedPoints, FactorPoints, Signed
<1>5. Fosters(r)
  BY DEF Fosters
<1> QED
  BY <1>2, <1>3, <1>4, <1>5 DEF Moves

(* A request that only reads goes on with what the tables say now.         *)
LEMMA ReadMoves ==
    ASSUME TablesInv, RequestsInv, NEW r \in Requests, Keep, UNCHANGED <<profile, byLogin>>, Ghosts,
           NEW q \in Request, req' = [req EXCEPT ![r] = q], q.pc # "idle",
           Doing(q), Knows(q), Backed(q, seen[r] \/ Entitled(q)),
           req[r].pc \notin {"attachNew", "rollback"}
    PROVE  Moves(r)
<1>1. /\ req' \in [Requests -> Request] /\ req'[r] = q
      /\ \A x \in Requests \ {r} : req'[x] = req[x]
  BY DEF RequestsInv
<1>2. Evolves
  BY KeepEvolves DEF Keep, tables
<1>3. UNCHANGED <<users, totp, sessions, tokens, used>>
  BY DEF Keep, tables
<1>4. seen'[r] = (seen[r] \/ Entitled(req[r])')
  BY <1>1 DEF Ghosts, Witness
<1>5. Entitled(req[r])' <=> Entitled(q)
  BY <1>1, <1>3 DEF Entitled, Valid, IsVerified, IsExpiredAt
<1>6. seen'[r] <=> (seen[r] \/ Entitled(q))
  BY <1>4, <1>5
<1>7. Backed(req[r], seen[r])'
  BY <1>1, <1>3, <1>6 DEF Backed
<1>8. Fosters(r)
  BY DEF Fosters, Ghosts
<1> QED
  BY <1>1, <1>2, <1>7, <1>8 DEF Moves, Ghosts

(* A request that wrote to the tables goes on with what it had read.       *)
LEMMA GotoMoves ==
    ASSUME TablesInv, RequestsInv, Evolves, NEW r \in Requests, NEW pc \in {"sync", "createSession", "rollback", "verifySession"},
           Goto(r, pc), Witness, linked \subseteq linked', byLogin' = byLogin,
           Doing([req[r] EXCEPT !.pc = pc]), Knows([req[r] EXCEPT !.pc = pc]),
           pc = "verifySession" => sessions[req[r].cred] # None,
           pc \in {"sync", "createSession"} /\ req[r].totp = 0 => seen[r],
           req[r].pc \in {"attachNew", "rollback"} => req[r].target \in linked' \/ pc = "rollback"
    PROVE  Moves(r)
<1> DEFINE q == [req[r] EXCEPT !.pc = pc]
<1>1. req[r] \in Request
  BY DEF RequestsInv
<1>2. pc \in Points /\ pc \notin SignedPoints /\ pc # "idle"
  BY DEF Points, OtherPoints, LoginPoints, FactorPoints, SignedPoints, Signed
<1>3. q \in Request /\ q.pc = pc /\ q.target = req[r].target /\ q.editor = req[r].editor
      /\ q.cred = req[r].cred /\ q.totp = req[r].totp
  BY <1>1, <1>2 DEF Request
<1>4. req' = [req EXCEPT ![r] = q]
  BY DEF Goto
<1>5. /\ req' \in [Requests -> Request] /\ req'[r] = q
      /\ \A x \in Requests \ {r} : req'[x] = req[x]
  BY <1>3, <1>4 DEF RequestsInv
<1>6. seen[r] => seen'[r]
  BY <1>2, <1>3, <1>5 DEF Witness
<1>7. Backed(req[r], seen[r])
  BY DEF RequestsInv
<1>8. used.user \in Nat /\ used'.user \in Nat /\ used.user <= used'.user /\ Ids \subseteq Nat
  BY Constants DEF TablesInv, Evolves
<1>9. /\ req[r].target \in Ids => req[r].target <= used'.user
      /\ req[r].editor \in Ids => req[r].editor <= used'.user
  BY <1>7, <1>8 DEF Backed
<1>10. pc \in FactorPoints => sessions'[q.cred] # None
  BY <1>3 DEF Evolves, Knows, FactorPoints
<1>11. Backed(req[r], seen[r])'
  BY <1>2, <1>3, <1>5, <1>6, <1>9, <1>10 DEF Backed
<1>12. Fosters(r)
  BY <1>3, <1>5 DEF Fosters
<1> QED
  BY <1>3, <1>5, <1>11, <1>12 DEF Moves

(* A request that read something and gave up.                              *)
LEMMA StopMoves ==
    ASSUME TablesInv, RequestsInv, NEW r \in Requests, Keep, UNCHANGED <<profile, byLogin>>, Ghosts,
           End(r), req[r].pc \notin {"attachNew", "rollback"}
    PROVE  Moves(r)
<1>1. Evolves
  BY KeepEvolves DEF Keep, tables
<1> QED
  BY <1>1, EndMoves DEF Ghosts

(* What the invariant says of one request.                                 *)
LEMMA OneRequest ==
    ASSUME RequestsInv, NEW r \in Requests
    PROVE  req[r] \in Request /\ Doing(req[r]) /\ Knows(req[r]) /\ Backed(req[r], seen[r]) /\ seen[r] \in BOOLEAN
BY DEF RequestsInv

(* Where the operations start.                                             *)
LEMMA Starts ==
    ASSUME NEW op \in AllOps
    PROVE  \/ op \in {"oidc", "linkOidc"} /\ Start(op) = "oidc"
           \/ op \in Signed \ {"linkOidc"} /\ Start(op) = "auth"
           \/ op \in Commands /\ Start(op) = "find"
           \/ op \in {"verify", "recover"} /\ Start(op) = "session"
           \/ op \in {"login", "logout", "cliAdd"} /\ Start(op) = op
<1>1. CASE op \in {"oidc", "linkOidc"}
  BY <1>1 DEF Start, Signed, Commands
<1>2. CASE op \in Signed \ {"linkOidc"}
  BY <1>2 DEF Start, Signed, Commands
<1>3. CASE op \in Commands
  BY <1>3 DEF Start, Signed, Commands
<1>4. CASE op \in {"verify", "recover"}
  BY <1>4 DEF Start, Signed, Commands
<1>5. CASE op \in {"login", "logout", "cliAdd"}
  BY <1>5 DEF Start, Signed, Commands
<1> QED
  BY <1>1, <1>2, <1>3, <1>4, <1>5 DEF AllOps

(* An idle session is expired on sight.                                    *)
LEMMA ForgetIdleMoves ==
    ASSUME TablesInv, RequestsInv, NEW r \in Requests, req[r].cred \in Sessions, ForgetIdle(r),
           UNCHANGED <<profile, byLogin>>, Ghosts, req[r].pc \notin {"attachNew", "rollback"}
    PROVE  Moves(r)
<1>1. sessions[req[r].cred] \in Session
  BY DEF TablesInv, ForgetIdle, HasSession
<1>2. [sessions[req[r].cred] EXCEPT !.expired = TRUE] \in Session
      /\ [sessions[req[r].cred] EXCEPT !.expired = TRUE].user = sessions[req[r].cred].user
  BY <1>1 DEF Session
<1>3. sessions[req[r].cred].user <= used.user
  BY DEF TablesInv, ForgetIdle, HasSession
<1>4. Evolves
  BY <1>2, <1>3, SessionEvolves DEF ForgetIdle, ExpireSession
<1> QED
  BY <1>4, EndMoves DEF ForgetIdle, Ghosts

-----------------------------------------------------------------------------
(* Requests begin and authenticate.                                        *)

(* A request starts with its credential and nothing else.                  *)
LEMMA BeginMoves ==
    ASSUME TablesInv, RequestsInv, NEW r \in Requests, Begin(r)
    PROVE  Moves(r)
<1>1. PICK op \in Ops, c \in Sessions \cup Tokens \cup {None} :
        /\ op \in {"linkOidc", "logout", "verify", "recover"} => c \in Sessions
        /\ op \in Signed => c \in Sessions \cup Tokens
        /\ req' = [req EXCEPT ![r] = [Idle EXCEPT !.op = op, !.pc = Start(op), !.cred = c]]
  BY DEF Begin
<1> DEFINE q == [Idle EXCEPT !.op = op, !.pc = Start(op), !.cred = c]
<1>2. op \in AllOps
  BY AccountsAssumption
<1>3. Idle \in Request
  BY Constants DEF Request, Idle, Points
<1>4. \/ op \in {"oidc", "linkOidc"} /\ Start(op) = "oidc"
      \/ op \in Signed \ {"linkOidc"} /\ Start(op) = "auth"
      \/ op \in Commands /\ Start(op) = "find"
      \/ op \in {"verify", "recover"} /\ Start(op) = "session"
      \/ op \in {"login", "logout", "cliAdd"} /\ Start(op) = op
  BY <1>2, Starts
<1>5. Start(op) \in Points /\ Start(op) \in {"oidc", "auth", "find", "session", "login", "logout", "cliAdd"}
  BY <1>4 DEF Points, SignedPoints, OtherPoints, LoginPoints
<1>6. q \in Request /\ q.op = op /\ q.pc = Start(op) /\ q.cred = c /\ q.target = Idle.target /\ q.editor = Idle.editor
  BY <1>2, <1>3, <1>5 DEF Request
<1>01. q.target = None /\ q.editor = None
  BY <1>6 DEF Idle
<1>7. Doing(q)
  BY <1>2, <1>4, <1>5, <1>6 DEF Doing, SignedPoints, OtherPoints, LoginPoints, FactorPoints, Signed, Commands
<1>8. Knows(q)
  BY <1>1, <1>4, <1>5, <1>6 DEF Knows, Targeted, SignedPoints, FactorPoints, Signed, Commands
<1>9. Backed(q, seen[r] \/ Entitled(q))
  BY <1>01, <1>5, <1>6, Constants DEF Backed, SignedPoints, FactorPoints, Signed
<1>10. Keep /\ UNCHANGED <<profile, byLogin>> /\ Ghosts /\ req[r].pc = "idle"
  BY DEF Begin, At
<1> QED
  BY <1>1, <1>5, <1>6, <1>7, <1>8, <1>9, <1>10, ReadMoves

(* authenticationHandler passes a credential in force on to its user, or   *)
(* to nobody if the user is gone.                                          *)
LEMMA AuthenticateMoves ==
    ASSUME TablesInv, RequestsInv, NEW r \in Requests, Authenticate(r)
    PROVE  Moves(r)
<1>1. req[r] \in Request /\ req[r].pc = "auth" /\ req[r].op \in Signed /\ req[r].cred \in Sessions \cup Tokens
      /\ (req[r].op = "linkOidc" => req[r].uid \in Uids) /\ Backed(req[r], seen[r])
  BY OneRequest DEF Authenticate, At, Doing, Knows, SignedPoints
<1>2. UNCHANGED <<profile, byLogin>> /\ Ghosts
  BY DEF Authenticate, Rest
<1>3. CASE Keep /\ End(r)
  BY <1>1, <1>2, <1>3, StopMoves
<1>4. ASSUME Keep, NEW e \in Ids, e <= used.user, users[e] # None => Valid(req[r].cred),
             req' = [req EXCEPT ![r].pc = "getUser", ![r].editor = e]
      PROVE  Moves(r)
  <2> DEFINE q == [req[r] EXCEPT !.pc = "getUser", !.editor = e]
  <2>1. /\ q \in Request /\ q.pc = "getUser" /\ q.editor = e /\ q.op = req[r].op
        /\ q.cred = req[r].cred /\ q.target = req[r].target /\ q.uid = req[r].uid /\ q.totp = req[r].totp
    BY <1>1 DEF Request, Points, SignedPoints
  <2>2. req' = [req EXCEPT ![r] = q]
    BY <1>1, <1>4 DEF RequestsInv
  <2>3. Doing(q)
    BY <1>1, <2>1 DEF Doing, OtherPoints, LoginPoints, FactorPoints, Commands
  <2>4. Knows(q)
    BY <1>1, <2>1 DEF Knows, Targeted, FactorPoints, Commands
  <2>5. users[e] # None => Entitled(q)
    BY <1>1, <1>4, <2>1 DEF Entitled
  <2>6. Backed(q, seen[r] \/ Entitled(q))
    BY <1>1, <1>4, <2>1, <2>5 DEF Backed, FactorPoints
  <2> QED
    BY <1>1, <1>2, <1>4, <2>1, <2>2, <2>3, <2>4, <2>6, ReadMoves
<1>5. CASE req[r].cred \in Sessions /\ ForgetIdle(r)
  BY <1>1, <1>2, <1>5, ForgetIdleMoves
<1>6. ASSUME req[r].cred \in Tokens, Keep, tokens[req[r].cred] # None, ~IsExpiredAt(req[r].cred),
             req' = [req EXCEPT ![r].pc = "getUser", ![r].editor = tokens[req[r].cred].user]
      PROVE  Moves(r)
  <2>1. tokens[req[r].cred].user \in Ids /\ users[tokens[req[r].cred].user] # None
    BY <1>6 DEF TablesInv, Token
  <2>2. tokens[req[r].cred].user <= used.user
    BY <2>1 DEF TablesInv
  <2>3. Valid(req[r].cred)
    BY <1>6, <2>1 DEF Valid
  <2> QED
    BY <1>4, <1>6, <2>1, <2>2, <2>3
<1>7. ASSUME req[r].cred \in Sessions, Keep, HasSession(req[r].cred), ~sessions[req[r].cred].idle, IsVerified(req[r].cred),
             req' = [req EXCEPT ![r].pc = "getUser", ![r].editor = sessions[req[r].cred].user]
      PROVE  Moves(r)
  <2>1. sessions[req[r].cred].user \in Ids /\ sessions[req[r].cred].user <= used.user
    BY <1>7 DEF TablesInv, Session, HasSession
  <2>2. users[sessions[req[r].cred].user] # None => Valid(req[r].cred)
    BY <1>7 DEF Valid, HasSession
  <2> QED
    BY <1>4, <1>7, <2>1, <2>2
<1> QED
  BY <1>3, <1>5, <1>6, <1>7 DEF Authenticate

(* Where an authenticated request goes on.                                 *)
LEMMA Afters ==
    ASSUME NEW op \in Signed
    PROVE  After(op) \in {"target", "linkLookup", "addUser", "createToken", "deleteToken", "view"}
<1>1. CASE op \in {"update", "delete", "unlink", "enableTotp", "disableTotp"}
  BY <1>1 DEF After
<1>2. CASE op \in {"linkOidc", "linkLdap"}
  BY <1>2 DEF After
<1>3. CASE op \in {"addUser", "createToken", "deleteToken", "view"}
  BY <1>3 DEF After
<1> QED
  BY <1>1, <1>2, <1>3 DEF Signed

(* The user behind the credential exists now, and then the credential was  *)
(* seen in force with its user.                                            *)
LEMMA GetUserMoves ==
    ASSUME TablesInv, RequestsInv, NEW r \in Requests, GetUser(r)
    PROVE  Moves(r)
<1> DEFINE e == req[r].editor
           q == [req[r] EXCEPT !.pc = After(req[r].op), !.admin = users[e].admin, !.snap = users[e]]
<1>1. req[r] \in Request /\ req[r].pc = "getUser" /\ req[r].op \in Signed /\ e \in Ids
      /\ (req[r].op = "linkOidc" => req[r].uid \in Uids) /\ Backed(req[r], seen[r])
  BY OneRequest DEF GetUser, At, Doing, Knows, SignedPoints
<1>2. Keep /\ UNCHANGED <<profile, byLogin>> /\ Ghosts
  BY DEF GetUser, Rest
<1>3. CASE users[e] = None
  BY <1>1, <1>2, <1>3, StopMoves DEF GetUser
<1>4. CASE users[e] # None
  <2>1. users[e] \in Row /\ users[e].admin \in BOOLEAN
    BY <1>1, <1>4 DEF TablesInv, Row
  <2>2. After(req[r].op) \in {"target", "linkLookup", "addUser", "createToken", "deleteToken", "view"}
    BY <1>1, Afters
  <2>3. After(req[r].op) \in SignedPoints \ {"auth", "getUser", "linkList", "linkInsert"} /\ After(req[r].op) \in Points
    BY <2>2 DEF SignedPoints, Points, Signed
  <2>4. /\ q \in Request /\ q.pc = After(req[r].op) /\ q.editor = e /\ q.op = req[r].op /\ q.snap = users[e]
        /\ q.target = req[r].target /\ q.uid = req[r].uid
    BY <1>1, <2>1, <2>3 DEF Request
  <2>5. req' = [req EXCEPT ![r] = q]
    BY <1>1, <1>4 DEF RequestsInv, GetUser
  <2>6. Doing(q)
    BY <1>1, <2>2, <2>4 DEF Doing, OtherPoints, LoginPoints, FactorPoints, Commands
  <2>7. Knows(q)
    BY <1>1, <2>1, <2>2, <2>4 DEF Knows, Targeted, FactorPoints, Commands
  <2>8. seen[r]
    BY <1>1, <1>4 DEF Backed
  <2>9. Backed(q, seen[r] \/ Entitled(q))
    BY <1>1, <2>2, <2>4, <2>8 DEF Backed, FactorPoints
  <2> QED
    BY <1>1, <1>2, <2>2, <2>4, <2>5, <2>6, <2>7, <2>9, ReadMoves
<1> QED
  BY <1>3, <1>4

(* View only answers.                                                      *)
LEMMA ViewMoves ==
    ASSUME TablesInv, RequestsInv, NEW r \in Requests, View(r)
    PROVE  Moves(r)
BY StopMoves DEF View, At, Rest

(* GetUserMiddleware reads the user that the request is about.             *)
LEMMA GetUserMiddlewareMoves ==
    ASSUME TablesInv, RequestsInv, NEW r \in Requests, GetUserMiddleware(r)
    PROVE  Moves(r)
<1>1. req[r] \in Request /\ req[r].pc = "target" /\ req[r].op \in Signed /\ req[r].editor \in Ids
      /\ Backed(req[r], seen[r]) /\ seen[r]
  BY OneRequest DEF GetUserMiddleware, At, Doing, Knows, SignedPoints, Backed
<1>2. Keep /\ UNCHANGED <<profile, byLogin>> /\ Ghosts
  BY DEF GetUserMiddleware, Rest
<1>3. CASE End(r)
  BY <1>1, <1>2, <1>3, StopMoves
<1>4. CASE ~End(r)
  <2>1. PICK i \in Ids :
            /\ users[i] # None
            /\ req' = [req EXCEPT ![r].pc = req[r].op, ![r].target = i, ![r].snap = users[i], ![r].totp = totp[i]]
    BY <1>4 DEF GetUserMiddleware
  <2> DEFINE q == [req[r] EXCEPT !.pc = req[r].op, !.target = i, !.snap = users[i], !.totp = totp[i]]
  <2>2. users[i] \in Row /\ totp[i] \in 0..MaxTotp /\ i <= used.user
    BY <2>1 DEF TablesInv
  <2>3. req[r].op \in Points /\ req[r].op \in SignedPoints
    BY <1>1 DEF Points, SignedPoints
  <2>4. /\ q \in Request /\ q.pc = req[r].op /\ q.op = req[r].op /\ q.target = i /\ q.snap = users[i]
        /\ q.editor = req[r].editor
    BY <1>1, <2>2, <2>3 DEF Request
  <2>5. req' = [req EXCEPT ![r] = q]
    BY <1>1, <2>1 DEF RequestsInv
  <2>6. Doing(q)
    BY <1>1, <2>4 DEF Doing, OtherPoints, LoginPoints, FactorPoints, Commands, Signed
  <2>7. Knows(q)
    BY <1>1, <2>2, <2>4 DEF Knows, FactorPoints, Signed
  <2>8. Backed(q, seen[r] \/ Entitled(q))
    BY <1>1, <2>2, <2>4 DEF Backed, FactorPoints, Signed
  <2>9. q.pc # "idle"
    BY <1>1, <2>4 DEF Signed
  <2> QED
    BY <1>1, <1>2, <2>4, <2>5, <2>6, <2>7, <2>8, <2>9, ReadMoves
<1> QED
  BY <1>3, <1>4

-----------------------------------------------------------------------------
(* Logins.                                                                 *)

(* A login goes on at a point where it needs no user yet.                  *)
LEMMA SeekMoves ==
    ASSUME TablesInv, RequestsInv, NEW r \in Requests, Keep, UNCHANGED <<profile, byLogin>>, Ghosts,
           NEW pc \in {"password", "lookup", "match", "create"}, NEW u \in Uids \cup {None},
           req[r].op \in AllOps \ Signed, req[r].pc \notin {"attachNew", "rollback"},
           pc # "password" => u \in Uids,
           req' = [req EXCEPT ![r] = [req[r] EXCEPT !.pc = pc, !.uid = u]]
    PROVE  Moves(r)
<1> DEFINE q == [req[r] EXCEPT !.pc = pc, !.uid = u]
<1>1. req[r] \in Request /\ Backed(req[r], seen[r])
  BY OneRequest
<1>2. pc \in Points
  BY DEF Points, OtherPoints, LoginPoints
<1>3. /\ q \in Request /\ q.pc = pc /\ q.uid = u /\ q.op = req[r].op /\ q.target = req[r].target
      /\ q.editor = req[r].editor
  BY <1>1, <1>2 DEF Request
<1>4. Doing(q)
  BY <1>3 DEF Doing, SignedPoints, Signed
<1>5. Knows(q)
  BY <1>3 DEF Knows, Targeted, SignedPoints, FactorPoints, Commands, Signed
<1>6. Backed(q, seen[r] \/ Entitled(q))
  BY <1>1, <1>3 DEF Backed, SignedPoints, FactorPoints, Signed
<1> QED
  BY <1>3, <1>4, <1>5, <1>6, ReadMoves

(* The login and the provider's answer.                                    *)
LEMMA LoginMoves ==
    ASSUME TablesInv, RequestsInv, NEW r \in Requests, login(r)
    PROVE  Moves(r)
<1>1. req[r] \in Request /\ req[r].pc = "login" /\ req[r].op \in AllOps \ Signed /\ req[r].uid \in Uids \cup {None}
  BY OneRequest DEF login, At, Doing, OtherPoints, LoginPoints, Request
<1>2. Keep /\ UNCHANGED <<profile, byLogin>> /\ Ghosts
  BY DEF login, Rest
<1>3. CASE End(r)
  BY <1>1, <1>2, <1>3, StopMoves
<1>4. CASE Goto(r, "password")
  <2>1. req' = [req EXCEPT ![r] = [req[r] EXCEPT !.pc = "password", !.uid = req[r].uid]]
    BY <1>1, <1>4 DEF Goto, RequestsInv, Request
  <2> QED
    BY <1>1, <1>2, <2>1, SeekMoves
<1>5. ASSUME NEW u \in Uids, req' = [req EXCEPT ![r].pc = "lookup", ![r].uid = u]
      PROVE  Moves(r)
  <2>1. req' = [req EXCEPT ![r] = [req[r] EXCEPT !.pc = "lookup", !.uid = u]]
    BY <1>1, <1>5 DEF RequestsInv
  <2> QED
    BY <1>1, <1>2, <2>1, SeekMoves
<1> QED
  BY <1>3, <1>4, <1>5 DEF login

(* An account named by an OIDC provider is looked up, or linked to the     *)
(* user of the session.                                                    *)
LEMMA OidcMoves ==
    ASSUME TablesInv, RequestsInv, NEW r \in Requests, oidcRedirect(r)
    PROVE  Moves(r)
<1>1. req[r] \in Request /\ req[r].pc = "oidc" /\ req[r].op \in {"oidc", "linkOidc"} /\ Backed(req[r], seen[r])
  BY OneRequest DEF oidcRedirect, At, Doing
<1>2. Keep /\ UNCHANGED <<profile, byLogin>> /\ Ghosts
  BY DEF oidcRedirect, Rest
<1>3. CASE End(r)
  BY <1>1, <1>2, <1>3, StopMoves
<1>4. CASE ~End(r)
  <2>1. PICK u \in Uids :
            req' = [req EXCEPT ![r].pc = IF req[r].op = "linkOidc" THEN "auth" ELSE "lookup", ![r].uid = u]
    BY <1>4 DEF oidcRedirect
  <2>2. CASE req[r].op = "oidc"
    <3>1. req' = [req EXCEPT ![r] = [req[r] EXCEPT !.pc = "lookup", !.uid = u]]
      BY <1>1, <2>1, <2>2 DEF RequestsInv
    <3>2. req[r].op \in AllOps \ Signed
      BY <2>2 DEF AllOps, Signed
    <3> QED
      BY <1>1, <1>2, <3>1, <3>2, SeekMoves
  <2>3. CASE req[r].op = "linkOidc"
    <3> DEFINE q == [req[r] EXCEPT !.pc = "auth", !.uid = u]
    <3>1. /\ q \in Request /\ q.pc = "auth" /\ q.uid = u /\ q.op = req[r].op /\ q.target = req[r].target
          /\ q.editor = req[r].editor /\ q.cred = req[r].cred
      BY <1>1 DEF Request, Points, SignedPoints
    <3>2. req' = [req EXCEPT ![r] = q]
      BY <1>1, <2>1, <2>3 DEF RequestsInv
    <3>3. Doing(q)
      BY <2>3, <3>1 DEF Doing, OtherPoints, LoginPoints, FactorPoints, Commands, Signed
    <3>4. req[r].cred \in Sessions
      BY <1>1, <2>3, OneRequest DEF Knows
    <3>5. Knows(q)
      BY <3>1, <3>4 DEF Knows, Targeted, FactorPoints, Commands
    <3>6. Backed(q, seen[r] \/ Entitled(q))
      BY <1>1, <3>1 DEF Backed, FactorPoints
    <3> QED
      BY <1>1, <1>2, <3>1, <3>2, <3>3, <3>5, <3>6, ReadMoves
  <2> QED
    BY <1>1, <2>2, <2>3
<1> QED
  BY <1>3, <1>4

(* A login or a command reads a user: one without TOTP is one for whom no  *)
(* second factor is asked.                                                 *)
LEMMA ReadUserMoves ==
    ASSUME TablesInv, RequestsInv, NEW r \in Requests, Keep, UNCHANGED <<profile, byLogin>>, Ghosts,
           NEW i \in Ids, users[i] # None,
           NEW pc \in {"createSession", "sync", "pinned", "attach", "dropTotp", "verifySession"} \cup Commands,
           Read(r, i, pc), req[r].op \in AllOps \ Signed, req[r].pc \notin {"attachNew", "rollback"},
           pc \in {"sync", "pinned", "attach"} => req[r].uid \in Uids,
           pc \in {"pinned", "attach"} => users[i].external,
           pc \in FactorPoints => req[r].cred \in Sessions /\ sessions[req[r].cred] # None
    PROVE  Moves(r)
<1> DEFINE q == [req[r] EXCEPT !.pc = pc, !.target = i, !.snap = users[i], !.totp = totp[i]]
<1>1. req[r] \in Request /\ Backed(req[r], seen[r])
  BY OneRequest
<1>2. pc \in Points /\ pc \notin SignedPoints /\ pc \notin {"idle", "oidc", "find", "attachNew", "getUser"}
  BY DEF Points, OtherPoints, LoginPoints, FactorPoints, SignedPoints, Signed, Commands
<1>3. users[i] \in Row /\ totp[i] \in 0..MaxTotp /\ i <= used.user
  BY DEF TablesInv
<1>4. /\ q \in Request /\ q.pc = pc /\ q.uid = req[r].uid /\ q.op = req[r].op /\ q.target = i
      /\ q.snap = users[i] /\ q.totp = totp[i] /\ q.editor = req[r].editor /\ q.cred = req[r].cred
  BY <1>1, <1>2, <1>3 DEF Request
<1>5. req' = [req EXCEPT ![r] = q]
  BY <1>1 DEF Read, RequestsInv
<1>6. Doing(q)
  BY <1>2, <1>4 DEF Doing
<1>7. Knows(q)
  BY <1>2, <1>3, <1>4 DEF Knows, SignedPoints, FactorPoints, Commands
<1>8. q.totp = 0 => Entitled(q)
  BY <1>4, Constants DEF Entitled
<1>9. Backed(q, seen[r] \/ Entitled(q))
  BY <1>1, <1>2, <1>3, <1>4, <1>8 DEF Backed
<1> QED
  BY <1>2, <1>4, <1>5, <1>6, <1>7, <1>9, ReadMoves

(* A login by password reads a local user.                                 *)
LEMMA LoginByPasswordMoves ==
    ASSUME TablesInv, RequestsInv, NEW r \in Requests, loginByPassword(r)
    PROVE  Moves(r)
<1>1. req[r].pc = "password" /\ req[r].op \in AllOps \ Signed
  BY OneRequest DEF loginByPassword, At, Doing, OtherPoints, LoginPoints
<1>2. Keep /\ UNCHANGED <<profile, byLogin>> /\ Ghosts
  BY DEF loginByPassword, Rest
<1>3. CASE End(r)
  BY <1>1, <1>2, <1>3, StopMoves
<1>4. CASE ~End(r)
  <2>1. PICK i \in Ids : users[i] # None /\ Read(r, i, "createSession")
    BY <1>4 DEF loginByPassword, GetUserByLoginOrEmail
  <2> QED
    BY <1>1, <1>2, <2>1, ReadUserMoves DEF FactorPoints
<1> QED
  BY <1>3, <1>4

(* The identity leads to its user, or the login looks for one by email.    *)
LEMMA LookupMoves ==
    ASSUME TablesInv, RequestsInv, NEW r \in Requests, Lookup(r)
    PROVE  Moves(r)
<1>1. req[r] \in Request /\ req[r].pc = "lookup" /\ req[r].op \in AllOps \ Signed /\ req[r].uid \in Uids
      /\ Backed(req[r], seen[r])
  BY OneRequest DEF Lookup, At, Doing, Knows, OtherPoints, LoginPoints
<1>2. Keep /\ UNCHANGED <<profile, byLogin>> /\ Ghosts
  BY DEF Lookup, Rest
<1>3. CASE Goto(r, "match")
  <2>1. req' = [req EXCEPT ![r] = [req[r] EXCEPT !.pc = "match", !.uid = req[r].uid]]
    BY <1>1, <1>3 DEF Goto, RequestsInv, Request
  <2> QED
    BY <1>1, <1>2, <2>1, SeekMoves
<1>4. CASE ~Goto(r, "match")
  <2> DEFINE x == CHOOSE x \in identities : x.uid = req[r].uid
             q == [req[r] EXCEPT !.pc = "known", !.target = x.user]
  <2>1. (\E y \in identities : y.uid = req[r].uid) /\ req' = [req EXCEPT ![r].pc = "known", ![r].target = x.user]
    BY <1>4 DEF Lookup
  <2>2. x \in identities
    BY <2>1
  <2>3. x.user \in Ids /\ users[x.user] # None
    BY <2>2 DEF TablesInv
  <2>4. x.user <= used.user
    BY <2>3 DEF TablesInv
  <2> HIDE DEF x
  <2>5. /\ q \in Request /\ q.pc = "known" /\ q.uid = req[r].uid /\ q.op = req[r].op /\ q.target = x.user
        /\ q.editor = req[r].editor
    BY <1>1, <2>3 DEF Request, Points, OtherPoints, LoginPoints
  <2>6. req' = [req EXCEPT ![r] = q]
    BY <1>1, <2>1 DEF RequestsInv
  <2>7. Doing(q)
    BY <1>1, <2>5 DEF Doing, SignedPoints, Signed
  <2>8. Knows(q)
    BY <1>1, <2>3, <2>5 DEF Knows, SignedPoints, FactorPoints, Signed
  <2>9. Backed(q, seen[r] \/ Entitled(q))
    BY <1>1, <2>4, <2>5 DEF Backed, SignedPoints, FactorPoints, Signed
  <2> QED
    BY <1>1, <1>2, <2>5, <2>6, <2>7, <2>8, <2>9, ReadMoves
<1> QED
  BY <1>3, <1>4

(* The user of a known identity is read.                                   *)
LEMMA KnownMoves ==
    ASSUME TablesInv, RequestsInv, NEW r \in Requests, Known(r)
    PROVE  Moves(r)
<1>1. req[r].pc = "known" /\ req[r].op \in AllOps \ Signed /\ req[r].uid \in Uids /\ req[r].target \in Ids
  BY OneRequest DEF Known, At, Doing, Knows, OtherPoints, LoginPoints, Targeted
<1>2. Keep /\ UNCHANGED <<profile, byLogin>> /\ Ghosts
  BY DEF Known, Rest
<1>3. CASE users[req[r].target] = None
  BY <1>1, <1>2, <1>3, StopMoves DEF Known
<1>4. CASE users[req[r].target] # None
  BY <1>1, <1>2, <1>4, ReadUserMoves DEF Known, FactorPoints
<1> QED
  BY <1>3, <1>4

(* matchExternalUserByEmail only ever offers an external user.             *)
LEMMA MatchMoves ==
    ASSUME TablesInv, RequestsInv, NEW r \in Requests, matchExternalUserByEmail(r)
    PROVE  Moves(r)
<1>1. req[r] \in Request /\ req[r].pc = "match" /\ req[r].op \in AllOps \ Signed /\ req[r].uid \in Uids
  BY OneRequest DEF matchExternalUserByEmail, At, Doing, Knows, OtherPoints, LoginPoints
<1>2. Keep /\ UNCHANGED <<profile, byLogin>> /\ Ghosts
  BY DEF matchExternalUserByEmail, Rest
<1>3. CASE End(r)
  BY <1>1, <1>2, <1>3, StopMoves
<1>4. CASE Goto(r, "create")
  <2>1. req' = [req EXCEPT ![r] = [req[r] EXCEPT !.pc = "create", !.uid = req[r].uid]]
    BY <1>1, <1>4 DEF Goto, RequestsInv, Request
  <2> QED
    BY <1>1, <1>2, <2>1, SeekMoves
<1>5. CASE ~End(r) /\ ~Goto(r, "create")
  <2>1. PICK i \in Candidates(req[r].uid) :
            users[i].external /\ Read(r, i, IF Mode = "auto" THEN "pinned" ELSE "attach")
    BY <1>5 DEF matchExternalUserByEmail
  <2>2. i \in Ids /\ users[i] # None
    BY <2>1 DEF Candidates
  <2>3. PICK pc \in {"pinned", "attach"} : Read(r, i, pc)
    BY <2>1
  <2> QED
    BY <1>1, <1>2, <2>1, <2>2, <2>3, ReadUserMoves DEF FactorPoints
<1> QED
  BY <1>3, <1>4, <1>5

(* In mode auto a user with an identity is left alone.                     *)
LEMMA PinnedMoves ==
    ASSUME TablesInv, RequestsInv, NEW r \in Requests, Pinned(r)
    PROVE  Moves(r)
<1>1. req[r] \in Request /\ req[r].pc = "pinned" /\ req[r].op \in AllOps \ Signed /\ req[r].uid \in Uids
      /\ req[r].target \in Ids /\ req[r].snap \in Row /\ Backed(req[r], seen[r])
  BY OneRequest DEF Pinned, At, Doing, Knows, OtherPoints, LoginPoints, Targeted
<1>2. Keep /\ UNCHANGED <<profile, byLogin>> /\ Ghosts
  BY DEF Pinned, Rest
<1>3. CASE Goto(r, "create")
  <2>1. req' = [req EXCEPT ![r] = [req[r] EXCEPT !.pc = "create", !.uid = req[r].uid]]
    BY <1>1, <1>3 DEF Goto, RequestsInv, Request
  <2> QED
    BY <1>1, <1>2, <2>1, SeekMoves
<1>4. CASE Goto(r, "attach")
  <2> DEFINE q == [req[r] EXCEPT !.pc = "attach"]
  <2>1. /\ q \in Request /\ q.pc = "attach" /\ q.uid = req[r].uid /\ q.op = req[r].op /\ q.target = req[r].target
        /\ q.editor = req[r].editor /\ q.snap = req[r].snap /\ q.totp = req[r].totp
    BY <1>1 DEF Request, Points, OtherPoints, LoginPoints
  <2>2. req' = [req EXCEPT ![r] = q]
    BY <1>4 DEF Goto
  <2>3. Doing(q)
    BY <1>1, <2>1 DEF Doing, SignedPoints, Signed
  <2>4. Knows(q)
    BY <1>1, <2>1 DEF Knows, SignedPoints, FactorPoints, Signed
  <2>5. Backed(q, seen[r] \/ Entitled(q))
    BY <1>1, <2>1 DEF Backed, SignedPoints, FactorPoints, Signed
  <2> QED
    BY <1>1, <1>2, <2>1, <2>2, <2>3, <2>4, <2>5, ReadMoves
<1> QED
  BY <1>3, <1>4 DEF Pinned

(* An identity is attached to an external user who is there.               *)
LEMMA AttachMoves ==
    ASSUME TablesInv, RequestsInv, NEW r \in Requests, Attach(r)
    PROVE  Moves(r)
<1>1. req[r] \in Request /\ req[r].pc = "attach" /\ req[r].op \in AllOps \ Signed /\ req[r].uid \in Uids
      /\ req[r].target \in Ids /\ req[r].snap \in Row /\ Backed(req[r], seen[r])
  BY OneRequest DEF Attach, At, Doing, Knows, OtherPoints, LoginPoints, Targeted
<1>2. UNCHANGED <<used, profile, byLogin>> /\ Witness
  BY DEF Attach, Rest
<1>3. CASE ~CanLink(req[r].target, req[r].uid)
  <2>1. End(r) /\ UNCHANGED <<tables, linked>>
    BY <1>3 DEF Attach
  <2> QED
    BY <1>1, <1>2, <2>1, StopMoves DEF Keep, Ghosts
<1>4. CASE CanLink(req[r].target, req[r].uid)
  <2>1. Goto(r, "sync") /\ CreateExternalIdentity(req[r].target, req[r].uid)
    BY <1>4 DEF Attach
  <2>2. Evolves
    BY <1>1, <1>2, <1>4, <2>1, CreateIdentityEvolves
  <2> DEFINE q == [req[r] EXCEPT !.pc = "sync"]
  <2>3. q.pc = "sync" /\ q.uid = req[r].uid /\ q.op = req[r].op /\ q.target = req[r].target /\ q.snap = req[r].snap
    BY <1>1 DEF Request
  <2>4. Doing(q) /\ Knows(q)
    BY <1>1, <2>3 DEF Doing, Knows, SignedPoints, FactorPoints, Signed
  <2>5. linked \subseteq linked'
    BY <2>1 DEF CreateExternalIdentity
  <2>6. req[r].totp = 0 => seen[r]
    BY <1>1 DEF Backed
  <2> QED
    BY <1>1, <1>2, <2>1, <2>2, <2>4, <2>5, <2>6, GotoMoves
<1> QED
  BY <1>3, <1>4

(* The attributes of the provider are written to the row that was read.    *)
LEMMA SyncMoves ==
    ASSUME TablesInv, RequestsInv, NEW r \in Requests, syncExternalUserAttrs(r)
    PROVE  Moves(r)
<1>1. req[r] \in Request /\ req[r].pc = "sync" /\ req[r].op \in AllOps \ Signed /\ req[r].uid \in Uids
      /\ req[r].target \in Ids /\ req[r].snap \in Row /\ Backed(req[r], seen[r])
  BY OneRequest DEF syncExternalUserAttrs, At, Doing, Knows, OtherPoints, LoginPoints, Targeted
<1>2. UNCHANGED <<used, profile, byLogin>> /\ Ghosts
  BY DEF syncExternalUserAttrs, Rest
<1> DEFINE row == [req[r].snap EXCEPT !.email = profile[req[r].uid].email]
<1>3. profile[req[r].uid].email \in Names
  BY <1>1 DEF TablesInv, Profile
<1>4. row \in Row
  BY <1>1, <1>3 DEF Row
<1>5. CASE End(r) /\ UNCHANGED tables
  BY <1>1, <1>2, <1>5, StopMoves DEF Keep
<1>6. CASE Goto(r, "createSession") /\ (UNCHANGED tables \/ UpdateRow(req[r].target, row))
  <2>1. Evolves
    BY <1>1, <1>2, <1>4, <1>6, KeepEvolves, UpdateRowEvolves DEF tables
  <2> DEFINE q == [req[r] EXCEPT !.pc = "createSession"]
  <2>2. q.pc = "createSession" /\ q.op = req[r].op /\ q.target = req[r].target
    BY <1>1 DEF Request
  <2>3. Doing(q) /\ Knows(q)
    BY <1>1, <2>2 DEF Doing, Knows, SignedPoints, FactorPoints, Signed
  <2>4. req[r].totp = 0 => seen[r]
    BY <1>1 DEF Backed
  <2> QED
    BY <1>1, <1>2, <1>6, <2>1, <2>3, <2>4, GotoMoves DEF Ghosts
<1> QED
  BY <1>5, <1>6 DEF syncExternalUserAttrs

(* A user created by a login is external and in the care of its request.   *)
LEMMA CreateExternalUserMoves ==
    ASSUME TablesInv, RequestsInv, NEW r \in Requests, CreateExternalUser(r)
    PROVE  Moves(r)
<1> DEFINE i == used.user + 1
           row == NewExternal(req[r].uid, i)
           q == [req[r] EXCEPT !.pc = "attachNew", !.target = i, !.snap = row, !.totp = 0]
<1>1. req[r] \in Request /\ req[r].pc = "create" /\ req[r].op \in AllOps \ Signed /\ req[r].uid \in Uids
      /\ Backed(req[r], seen[r])
  BY OneRequest DEF CreateExternalUser, At, Doing, Knows, OtherPoints, LoginPoints
<1>2. profile' = profile /\ Ghosts
  BY DEF CreateExternalUser
<1>3. CASE Taken(row.username, row.email, 0)
  <2>1. End(r) /\ Keep /\ UNCHANGED byLogin
    BY <1>3 DEF CreateExternalUser
  <2> QED
    BY <1>1, <1>2, <2>1, StopMoves
<1>4. CASE ~Taken(row.username, row.email, 0)
  <2>1. /\ CreateUser(row)
        /\ byLogin' = byLogin \cup {i}
        /\ req' = [req EXCEPT ![r].pc = "attachNew", ![r].target = i, ![r].snap = row, ![r].totp = 0]
    BY <1>4 DEF CreateExternalUser
  <2>2. i \in Ids /\ i \in Nat /\ used.user \in Nat
    BY <2>1, Constants DEF CreateUser, TablesInv
  <2>3. profile[req[r].uid] \in Profile
    BY <1>1 DEF TablesInv
  <2>4. row \in Row /\ row.external = TRUE
    BY <2>2, <2>3 DEF NewExternal, Row, Profile
  <2> HIDE DEF row
  <2>5. Evolves /\ used'.user = i /\ users'[i] = row /\ totp[i] = 0
    BY <1>2, <2>1, <2>4, CreateUserEvolves
  <2>6. 0 \in 0..MaxTotp
    BY Constants
  <2>7. /\ q \in Request /\ q.pc = "attachNew" /\ q.uid = req[r].uid /\ q.op = req[r].op /\ q.target = i
        /\ q.editor = req[r].editor /\ q.totp = 0
    BY <1>1, <2>2, <2>4, <2>6 DEF Request, Points, OtherPoints, LoginPoints
  <2>8. /\ req' \in [Requests -> Request] /\ req'[r] = q
        /\ \A x \in Requests \ {r} : req'[x] = req[x]
    BY <1>1, <2>1, <2>7 DEF RequestsInv
  <2>9. totp'[i] = 0
    BY <2>1, <2>5 DEF CreateUser
  <2>10. seen'[r]
    <3>1. Entitled(req[r])'
      BY <1>1, <2>2, <2>7, <2>8, <2>9, Constants DEF Entitled
    <3> QED
      BY <1>2, <2>7, <2>8, <3>1 DEF Ghosts, Witness
  <2>11. Doing(q)
    BY <1>1, <2>7 DEF Doing, SignedPoints, Signed
  <2>12. Knows(q)
    BY <1>1, <2>2, <2>7 DEF Knows, SignedPoints, FactorPoints, Signed
  <2>13. req[r].editor \in Ids => req[r].editor <= used'.user
    <3>1. \A e \in Ids : e <= used.user => e <= used'.user
      BY <2>2, <2>5, Constants
    <3> QED
      BY <1>1, <3>1 DEF Backed
  <2>14. Backed(req[r], seen[r])'
    BY <2>2, <2>4, <2>5, <2>7, <2>8, <2>10, <2>13 DEF Backed, SignedPoints, FactorPoints, Signed
  <2>15. Fosters(r)
    BY <1>1, <1>2, <2>1, <2>7, <2>8 DEF Fosters, Ghosts
  <2> QED
    BY <1>2, <2>5, <2>8, <2>11, <2>12, <2>14, <2>15 DEF Moves, Ghosts
<1> QED
  BY <1>3, <1>4

(* The new user gets the identity, or will be taken back.                  *)
LEMMA AttachNewMoves ==
    ASSUME TablesInv, RequestsInv, NEW r \in Requests, AttachNew(r)
    PROVE  Moves(r)
<1>1. req[r] \in Request /\ req[r].pc = "attachNew" /\ req[r].op \in AllOps \ Signed /\ req[r].uid \in Uids
      /\ req[r].target \in Ids /\ Backed(req[r], seen[r])
  BY OneRequest DEF AttachNew, At, Doing, Knows, OtherPoints, LoginPoints, Targeted
<1>2. UNCHANGED <<used, profile, byLogin>> /\ Witness
  BY DEF AttachNew, Rest
<1>3. ASSUME NEW pc \in {"createSession", "rollback"}
      PROVE  Doing([req[r] EXCEPT !.pc = pc]) /\ Knows([req[r] EXCEPT !.pc = pc])
  <2> DEFINE q == [req[r] EXCEPT !.pc = pc]
  <2>1. q.pc = pc /\ q.op = req[r].op /\ q.target = req[r].target
    BY <1>1 DEF Request
  <2> QED
    BY <1>1, <2>1 DEF Doing, Knows, SignedPoints, FactorPoints, Signed
<1>4. req[r].totp = 0 => seen[r]
  BY <1>1 DEF Backed
<1>5. CASE CanLink(req[r].target, req[r].uid)
  <2>1. Goto(r, "createSession") /\ CreateExternalIdentity(req[r].target, req[r].uid)
    BY <1>5 DEF AttachNew
  <2>2. Evolves
    BY <1>1, <1>2, <1>5, <2>1, CreateIdentityEvolves
  <2>3. linked \subseteq linked' /\ req[r].target \in linked'
    BY <2>1 DEF CreateExternalIdentity
  <2> QED
    BY <1>2, <1>3, <1>4, <2>1, <2>2, <2>3, GotoMoves
<1>6. CASE ~CanLink(req[r].target, req[r].uid)
  <2>1. Goto(r, "rollback") /\ UNCHANGED <<tables, linked>>
    BY <1>6 DEF AttachNew
  <2>2. Evolves
    BY <1>2, <2>1, KeepEvolves DEF tables
  <2> QED
    BY <1>2, <1>3, <2>1, <2>2, GotoMoves
<1> QED
  BY <1>5, <1>6

(* The user nobody was linked to is deleted, and so is one by a request or *)
(* by a command.                                                           *)
LEMMA DeletionsMove ==
    ASSUME TablesInv, RequestsInv, NEW r \in Requests, Rollback(r) \/ DeleteUser(r) \/ CliDelete(r)
    PROVE  Moves(r)
<1>1. req[r].pc \in {"rollback", "delete", "cliDelete"}
  BY DEF Rollback, DeleteUser, CliDelete, At
<1>2. req[r].target \in Ids
  BY <1>1, OneRequest DEF Knows, Targeted, Commands
<1>3. DeleteRow(req[r].target) /\ End(r) /\ UNCHANGED <<used, profile, byLogin>> /\ Ghosts
  BY DEF Rollback, DeleteUser, CliDelete, Rest
<1>4. Evolves /\ users'[req[r].target] = None
  BY <1>2, <1>3, DeleteRowEvolves
<1> QED
  BY <1>3, <1>4, EndMoves DEF Ghosts

(* A session is opened for the user who was read.                          *)
LEMMA CreateSessionMoves ==
    ASSUME TablesInv, RequestsInv, NEW r \in Requests, createSession(r)
    PROVE  Moves(r)
<1>1. req[r].pc = "createSession" /\ req[r].target \in Ids /\ req[r].target <= used.user
  BY OneRequest DEF createSession, At, Knows, Targeted, Backed
<1>2. PICK s \in Sessions, second \in BOOLEAN :
        sessions' = [sessions EXCEPT ![s] =
            [user |-> req[r].target, method |-> IF second THEN "totp" ELSE "none",
             verified |-> ~second, expired |-> FALSE, idle |-> FALSE]]
  BY DEF createSession
<1> DEFINE row == [user |-> req[r].target, method |-> IF second THEN "totp" ELSE "none",
                   verified |-> ~second, expired |-> FALSE, idle |-> FALSE]
<1>3. row \in Session /\ row.user = req[r].target
  BY <1>1 DEF Session
<1>4. End(r) /\ UNCHANGED <<users, identities, totp, tokens, used, profile, byLogin>> /\ Ghosts
  BY DEF createSession, Rest
<1> HIDE DEF row
<1>5. sessions' = [sessions EXCEPT ![s] = row]
  BY <1>2 DEF row
<1>6. Evolves
  BY <1>1, <1>3, <1>4, <1>5, SessionEvolves
<1> QED
  BY <1>1, <1>4, <1>6, EndMoves DEF Ghosts

(* logout expires the session.                                             *)
LEMMA LogoutMoves ==
    ASSUME TablesInv, RequestsInv, NEW r \in Requests, logout(r)
    PROVE  Moves(r)
<1>1. req[r].pc = "logout" /\ req[r].cred \in Sessions
  BY OneRequest DEF logout, At, Knows
<1>2. End(r) /\ UNCHANGED <<used, profile, byLogin>> /\ Ghosts
  BY DEF logout, Rest
<1>3. CASE UNCHANGED tables
  BY <1>1, <1>2, <1>3, StopMoves DEF Keep
<1>4. CASE HasSession(req[r].cred) /\ ExpireSession(req[r].cred)
  <2>1. sessions[req[r].cred] \in Session /\ sessions[req[r].cred].user <= used.user
    BY <1>1, <1>4 DEF TablesInv, HasSession
  <2>2. [sessions[req[r].cred] EXCEPT !.expired = TRUE] \in Session
        /\ [sessions[req[r].cred] EXCEPT !.expired = TRUE].user = sessions[req[r].cred].user
    BY <2>1 DEF Session
  <2>3. Evolves
    BY <1>1, <1>2, <1>4, <2>1, <2>2, SessionEvolves DEF ExpireSession
  <2> QED
    BY <1>1, <1>2, <2>3, EndMoves DEF Ghosts
<1> QED
  BY <1>3, <1>4 DEF logout

-----------------------------------------------------------------------------
(* The second factor.                                                      *)

(* A half open session leads to its user.                                  *)
LEMMA PendingSessionMoves ==
    ASSUME TablesInv, RequestsInv, NEW r \in Requests, PendingSession(r)
    PROVE  Moves(r)
<1>1. req[r] \in Request /\ req[r].pc = "session" /\ req[r].op \in AllOps \ Signed /\ req[r].cred \in Sessions
      /\ Backed(req[r], seen[r])
  BY OneRequest DEF PendingSession, At, Doing, Knows, OtherPoints
<1>2. UNCHANGED <<profile, byLogin>> /\ Ghosts
  BY DEF PendingSession, Rest
<1>3. CASE ForgetIdle(r)
  BY <1>1, <1>2, <1>3, ForgetIdleMoves
<1>4. CASE Keep /\ End(r)
  BY <1>1, <1>2, <1>4, StopMoves
<1>5. ASSUME Keep, HasSession(req[r].cred),
             req' = [req EXCEPT ![r].pc = "factor", ![r].target = sessions[req[r].cred].user]
      PROVE  Moves(r)
  <2> DEFINE i == sessions[req[r].cred].user
             q == [req[r] EXCEPT !.pc = "factor", !.target = i]
  <2>1. sessions[req[r].cred] # None /\ i \in Ids /\ i <= used.user
    BY <1>1, <1>5 DEF TablesInv, Session, HasSession
  <2>2. /\ q \in Request /\ q.pc = "factor" /\ q.op = req[r].op /\ q.target = i
        /\ q.editor = req[r].editor /\ q.cred = req[r].cred
    BY <1>1, <2>1 DEF Request, Points, OtherPoints, FactorPoints
  <2>3. req' = [req EXCEPT ![r] = q]
    BY <1>1, <1>5 DEF RequestsInv
  <2>4. Doing(q)
    BY <1>1, <2>2 DEF Doing, SignedPoints, Signed
  <2>5. Knows(q)
    BY <1>1, <2>1, <2>2 DEF Knows, SignedPoints, FactorPoints, Signed
  <2>6. Backed(q, seen[r] \/ Entitled(q))
    BY <1>1, <2>1, <2>2 DEF Backed, SignedPoints, FactorPoints, Signed
  <2> QED
    BY <1>1, <1>2, <1>5, <2>2, <2>3, <2>4, <2>5, <2>6, ReadMoves
<1> QED
  BY <1>3, <1>4, <1>5 DEF PendingSession

(* The code is checked against the TOTP read now.                          *)
LEMMA CheckFactorMoves ==
    ASSUME TablesInv, RequestsInv, NEW r \in Requests, CheckFactor(r)
    PROVE  Moves(r)
<1>1. req[r].pc = "factor" /\ req[r].op \in AllOps \ Signed /\ req[r].target \in Ids /\ req[r].cred \in Sessions
      /\ sessions[req[r].cred] # None
  BY OneRequest DEF CheckFactor, At, Doing, Knows, Backed, OtherPoints, FactorPoints, Targeted
<1>2. Keep /\ UNCHANGED <<profile, byLogin>> /\ Ghosts
  BY DEF CheckFactor, Rest
<1>3. CASE End(r)
  BY <1>1, <1>2, <1>3, StopMoves
<1>4. CASE ~End(r)
  <2>1. users[req[r].target] # None /\ Read(r, req[r].target, IF req[r].op = "recover" THEN "dropTotp" ELSE "verifySession")
    BY <1>4 DEF CheckFactor
  <2>2. PICK pc \in {"dropTotp", "verifySession"} : Read(r, req[r].target, pc)
    BY <2>1
  <2> QED
    BY <1>1, <1>2, <2>1, <2>2, ReadUserMoves
<1> QED
  BY <1>3, <1>4

(* Recovery drops the TOTP that was read.                                  *)
LEMMA RecoveryMoves ==
    ASSUME TablesInv, RequestsInv, NEW r \in Requests, recoverySession(r)
    PROVE  Moves(r)
<1>1. req[r] \in Request /\ req[r].pc = "dropTotp" /\ req[r].op \in AllOps \ Signed /\ req[r].target \in Ids
      /\ req[r].cred \in Sessions /\ sessions[req[r].cred] # None /\ req[r].totp \in 0..MaxTotp
  BY OneRequest DEF recoverySession, At, Doing, Knows, Backed, OtherPoints, FactorPoints, Targeted, Request
<1>2. UNCHANGED <<used, profile, byLogin>> /\ Ghosts /\ Goto(r, "verifySession")
      /\ DeleteTotpVerification(req[r].target, req[r].totp)
  BY DEF recoverySession, Rest
<1>3. req[r].totp \in Nat
  BY <1>1, Constants
<1>4. Evolves
  BY <1>1, <1>2, <1>3, TotpEvolves
<1> DEFINE q == [req[r] EXCEPT !.pc = "verifySession"]
<1>5. q.pc = "verifySession" /\ q.op = req[r].op /\ q.target = req[r].target /\ q.cred = req[r].cred
  BY <1>1 DEF Request
<1>6. Doing(q) /\ Knows(q)
  BY <1>1, <1>5 DEF Doing, Knows, SignedPoints, Signed
<1> QED
  BY <1>1, <1>2, <1>4, <1>6, GotoMoves DEF Ghosts

(* VerifySession completes the session.                                    *)
LEMMA VerifySessionMoves ==
    ASSUME TablesInv, RequestsInv, NEW r \in Requests, VerifySession(r)
    PROVE  Moves(r)
<1>1. req[r].pc = "verifySession" /\ req[r].cred \in Sessions /\ sessions[req[r].cred] # None
  BY OneRequest DEF VerifySession, At, Knows, Backed, FactorPoints
<1>2. sessions[req[r].cred] \in Session /\ sessions[req[r].cred].user <= used.user
  BY <1>1 DEF TablesInv
<1>3. [sessions[req[r].cred] EXCEPT !.verified = TRUE] \in Session
      /\ [sessions[req[r].cred] EXCEPT !.verified = TRUE].user = sessions[req[r].cred].user
  BY <1>2 DEF Session
<1>4. End(r) /\ UNCHANGED <<users, identities, totp, tokens, used, profile, byLogin>> /\ Ghosts
      /\ sessions' = [sessions EXCEPT ![req[r].cred] = [sessions[req[r].cred] EXCEPT !.verified = TRUE]]
  BY DEF VerifySession, Rest
<1>5. Evolves
  BY <1>1, <1>2, <1>3, <1>4, SessionEvolves
<1> QED
  BY <1>1, <1>4, <1>5, EndMoves DEF Ghosts

(* TOTP is switched on or off, by the user, an administrator or a command. *)
LEMMA TotpMoves ==
    ASSUME TablesInv, RequestsInv, NEW r \in Requests,
           EnableTotp(r) \/ DisableTotp(r) \/ CliTotpEnable(r) \/ CliTotpDisable(r)
    PROVE  Moves(r)
<1>1. req[r].pc \in {"enableTotp", "disableTotp", "cliTotpEnable", "cliTotpDisable"}
  BY DEF EnableTotp, DisableTotp, CliTotpEnable, CliTotpDisable, At
<1>2. req[r].target \in Ids /\ req[r].totp \in 0..MaxTotp
  BY <1>1, OneRequest DEF Knows, Targeted, Commands, Request
<1>3. /\ End(r) /\ UNCHANGED <<profile, byLogin>> /\ Ghosts
      /\ \/ Keep
         \/ AddTotpVerification(req[r].target)
         \/ used' = used /\ \E id \in 0..MaxTotp : DeleteTotpVerification(req[r].target, id)
  BY <1>2, Constants DEF EnableTotp, DisableTotp, CliTotpEnable, CliTotpDisable, Rest, Keep
<1>4. CASE Keep
  BY <1>1, <1>3, <1>4, StopMoves
<1>5. CASE AddTotpVerification(req[r].target) \/ (used' = used /\ \E id \in 0..MaxTotp : DeleteTotpVerification(req[r].target, id))
  <2>1. 0..MaxTotp \subseteq Nat
    BY Constants
  <2>2. Evolves
    BY <1>2, <1>3, <1>5, <2>1, TotpEvolves
  <2> QED
    BY <1>1, <1>3, <2>2, EndMoves DEF Ghosts
<1> QED
  BY <1>3, <1>4, <1>5

-----------------------------------------------------------------------------
(* Identities of a signed-in user.                                         *)

(* A link goes on for the signed-in user with an account it proved to own. *)
LEMMA LinkOn ==
    ASSUME TablesInv, RequestsInv, NEW r \in Requests, Keep, UNCHANGED <<profile, byLogin>>, Ghosts,
           req[r].pc \in SignedPoints \ {"auth", "getUser"},
           NEW u \in Uids, NEW pc \in {"linkList", "linkInsert", "unlinkDelete"},
           pc = "unlinkDelete" => req[r].target \in Ids,
           req' = [req EXCEPT ![r] = [req[r] EXCEPT !.pc = pc, !.uid = u]]
    PROVE  Moves(r)
<1> DEFINE q == [req[r] EXCEPT !.pc = pc, !.uid = u]
<1>1. req[r] \in Request /\ req[r].op \in Signed /\ req[r].editor \in Ids /\ Backed(req[r], seen[r])
  BY OneRequest DEF Doing, Knows
<1>2. seen[r]
  BY <1>1 DEF Backed
<1>3. pc \in Points /\ pc \in SignedPoints \ {"auth", "getUser"} /\ req[r].pc \notin {"attachNew", "rollback"}
  BY DEF Points, SignedPoints, Signed
<1>4. /\ q \in Request /\ q.pc = pc /\ q.uid = u /\ q.op = req[r].op /\ q.target = req[r].target
      /\ q.editor = req[r].editor
  BY <1>1, <1>3 DEF Request
<1>5. Doing(q)
  BY <1>1, <1>4 DEF Doing, OtherPoints, LoginPoints, FactorPoints, Commands
<1>6. Knows(q)
  BY <1>1, <1>4 DEF Knows, Targeted, FactorPoints, Commands
<1>7. Backed(q, seen[r] \/ Entitled(q))
  BY <1>1, <1>2, <1>4 DEF Backed, FactorPoints
<1> QED
  BY <1>3, <1>4, <1>5, <1>6, <1>7, ReadMoves

(* linkExternalIdentity looks whether the account is taken.                *)
LEMMA LinkLookupMoves ==
    ASSUME TablesInv, RequestsInv, NEW r \in Requests, linkExternalIdentity(r)
    PROVE  Moves(r)
<1>1. req[r] \in Request /\ req[r].pc = "linkLookup" /\ (req[r].op = "linkOidc" => req[r].uid \in Uids)
  BY OneRequest DEF linkExternalIdentity, At, Knows
<1>2. Keep /\ UNCHANGED <<profile, byLogin>> /\ Ghosts
  BY DEF linkExternalIdentity, Rest
<1>3. CASE End(r)
  BY <1>1, <1>2, <1>3, StopMoves
<1>4. CASE ~End(r)
  <2>1. PICK u \in linkLdapIdentity(r) : req' = [req EXCEPT ![r].pc = "linkList", ![r].uid = u]
    BY <1>4 DEF linkExternalIdentity
  <2>2. u \in Uids
    BY <1>1, <2>1 DEF linkLdapIdentity
  <2>3. req' = [req EXCEPT ![r] = [req[r] EXCEPT !.pc = "linkList", !.uid = u]]
    BY <1>1, <2>1 DEF RequestsInv
  <2> QED
    BY <1>1, <1>2, <2>2, <2>3, LinkOn DEF SignedPoints
<1> QED
  BY <1>3, <1>4

(* At most one account of a provider, as far as the list shows.            *)
LEMMA LinkListMoves ==
    ASSUME TablesInv, RequestsInv, NEW r \in Requests, LinkOneOfProvider(r)
    PROVE  Moves(r)
<1>1. req[r] \in Request /\ req[r].pc = "linkList" /\ req[r].uid \in Uids
  BY OneRequest DEF LinkOneOfProvider, At, Knows
<1>2. Keep /\ UNCHANGED <<profile, byLogin>> /\ Ghosts
  BY DEF LinkOneOfProvider, Rest
<1>3. CASE End(r)
  BY <1>1, <1>2, <1>3, StopMoves
<1>4. CASE ~End(r)
  <2>1. req' = [req EXCEPT ![r] = [req[r] EXCEPT !.pc = "linkInsert", !.uid = req[r].uid]]
    BY <1>1, <1>4 DEF LinkOneOfProvider, Goto, RequestsInv, Request
  <2> QED
    BY <1>1, <1>2, <2>1, LinkOn DEF SignedPoints
<1> QED
  BY <1>3, <1>4

(* The identity of a link goes to the user who is signed in.               *)
LEMMA LinkInsertMoves ==
    ASSUME TablesInv, RequestsInv, NEW r \in Requests, LinkInsert(r)
    PROVE  Moves(r)
<1>1. req[r].pc = "linkInsert" /\ req[r].uid \in Uids /\ req[r].editor \in Ids
  BY OneRequest DEF LinkInsert, At, Knows, SignedPoints
<1>2. UNCHANGED <<used, profile, byLogin>> /\ Witness /\ End(r)
  BY DEF LinkInsert, Rest
<1>3. CASE UNCHANGED <<tables, linked>>
  BY <1>1, <1>2, <1>3, StopMoves DEF Keep, Ghosts
<1>4. CASE CanLink(req[r].editor, req[r].uid) /\ CreateExternalIdentity(req[r].editor, req[r].uid)
  <2>1. Evolves
    BY <1>1, <1>2, <1>4, CreateIdentityEvolves
  <2>2. linked \subseteq linked'
    BY <1>4 DEF CreateExternalIdentity
  <2> QED
    BY <1>1, <1>2, <2>1, <2>2, EndMoves
<1> QED
  BY <1>3, <1>4 DEF LinkInsert

(* Unlinking lists the identities, then deletes.                           *)
LEMMA UnlinkMoves ==
    ASSUME TablesInv, RequestsInv, NEW r \in Requests, DeleteUserIdentity(r)
    PROVE  Moves(r)
<1>1. req[r] \in Request /\ req[r].pc = "unlink" /\ req[r].target \in Ids
  BY OneRequest DEF DeleteUserIdentity, At, Knows, Targeted
<1>2. Keep /\ UNCHANGED <<profile, byLogin>> /\ Ghosts
  BY DEF DeleteUserIdentity, Rest
<1>3. CASE End(r)
  BY <1>1, <1>2, <1>3, StopMoves
<1>4. CASE ~End(r)
  <2>1. PICK p \in {ProviderOf[u] : u \in Uids} :
            req' = [req EXCEPT ![r].pc = "unlinkDelete", ![r].uid = CHOOSE u \in Uids : ProviderOf[u] = p]
    BY <1>4 DEF DeleteUserIdentity
  <2> DEFINE u == CHOOSE u \in Uids : ProviderOf[u] = p
  <2>2. u \in Uids
    BY <2>1
  <2> HIDE DEF u
  <2>3. req' = [req EXCEPT ![r] = [req[r] EXCEPT !.pc = "unlinkDelete", !.uid = u]]
    BY <1>1, <2>1 DEF RequestsInv, u
  <2> QED
    BY <1>1, <1>2, <2>2, <2>3, LinkOn DEF SignedPoints, Signed
<1> QED
  BY <1>3, <1>4

(* The deletion of the identities.                                         *)
LEMMA UnlinkDeleteMoves ==
    ASSUME TablesInv, RequestsInv, NEW r \in Requests, UnlinkDelete(r)
    PROVE  Moves(r)
<1>1. req[r].pc = "unlinkDelete" /\ End(r) /\ Ghosts /\ identities' \subseteq identities
      /\ UNCHANGED <<users, totp, sessions, tokens, used, profile, byLogin>>
  BY DEF UnlinkDelete, At, Rest
<1>2. Evolves
  BY <1>1, RemoveIdentitiesEvolves
<1> QED
  BY <1>1, <1>2, EndMoves DEF Ghosts

-----------------------------------------------------------------------------
(* Users and tokens.                                                       *)

(* An administrator or a command adds a user.                              *)
LEMMA AddingMoves ==
    ASSUME TablesInv, RequestsInv, NEW r \in Requests, AddUser(r) \/ CliAdd(r)
    PROVE  Moves(r)
<1>1. req[r].pc \in {"addUser", "cliAdd"} /\ End(r) /\ UNCHANGED <<profile, byLogin>> /\ Ghosts
  BY DEF AddUser, CliAdd, At, Rest
<1>2. CASE Keep
  BY <1>1, <1>2, StopMoves
<1>3. CASE ~Keep
  <2>1. PICK n \in Names, e \in Names, x \in BOOLEAN, a \in BOOLEAN :
            CreateUser([username |-> n, email |-> e, external |-> x, admin |-> a])
    BY <1>3 DEF AddUser, CliAdd
  <2>2. [username |-> n, email |-> e, external |-> x, admin |-> a] \in Row
    BY DEF Row
  <2>3. Evolves
    BY <1>1, <2>1, <2>2, CreateUserEvolves
  <2> QED
    BY <1>1, <2>3, EndMoves DEF Ghosts
<1> QED
  BY <1>2, <1>3

(* A request or a command writes a user.                                   *)
LEMMA UpdatingMoves ==
    ASSUME TablesInv, RequestsInv, NEW r \in Requests, UpdateUser(r) \/ applyChangeUserArgsForUser(r)
    PROVE  Moves(r)
<1>1. req[r].pc \in {"update", "cliChange"} /\ End(r) /\ UNCHANGED <<used, profile, byLogin>> /\ Ghosts
  BY DEF UpdateUser, applyChangeUserArgsForUser, At, Rest
<1>2. req[r].target \in Ids /\ req[r].snap \in Row
  BY <1>1, OneRequest DEF Knows, Targeted, Commands
<1>3. CASE UNCHANGED tables
  BY <1>1, <1>3, StopMoves DEF Keep
<1>4. ASSUME NEW row \in Row, UpdateRow(req[r].target, row)
      PROVE  Moves(r)
  BY <1>1, <1>2, <1>4, UpdateRowEvolves, EndMoves DEF Ghosts
<1>5. CASE UpdateUser(r)
  <2>1. \A n \in Names \cup {req[r].snap.username}, e \in Names, a \in BOOLEAN :
            [username |-> n, email |-> e, external |-> req[r].snap.external, admin |-> a] \in Row
    BY <1>2 DEF Row
  <2> QED
    BY <1>3, <1>4, <1>5, <2>1 DEF UpdateUser
<1>6. CASE applyChangeUserArgsForUser(r)
  <2>1. \A n \in Names, a \in {req[r].snap.admin, TRUE} :
            /\ [req[r].snap EXCEPT !.email = n, !.admin = a] \in Row
            /\ [req[r].snap EXCEPT !.username = n, !.admin = a] \in Row
    BY <1>2 DEF Row
  <2> QED
    BY <1>3, <1>4, <1>6, <2>1 DEF applyChangeUserArgsForUser
<1> QED
  BY <1>5, <1>6

(* A token is created, by its user or by a command.                        *)
LEMMA CreateTokenMoves ==
    ASSUME TablesInv, RequestsInv, NEW r \in Requests, createAPIToken(r) \/ CliToken(r)
    PROVE  Moves(r)
<1>1. req[r].pc \in {"createToken", "cliToken"} /\ End(r) /\ UNCHANGED <<used, profile, byLogin>> /\ Ghosts
  BY DEF createAPIToken, CliToken, At, Rest
<1>2. PICK i \in Ids : CreateAPIToken(i) \/ UNCHANGED tables
  <2>1. CASE createAPIToken(r)
    BY <2>1, OneRequest DEF createAPIToken, At, Knows, SignedPoints, Signed
  <2>2. CASE CliToken(r)
    BY <2>2, OneRequest DEF CliToken, At, Knows, Targeted, Commands
  <2> QED
    BY <2>1, <2>2
<1>3. Evolves
  BY <1>1, <1>2, CreateTokenEvolves, KeepEvolves DEF tables
<1> QED
  BY <1>1, <1>3, EndMoves DEF Ghosts

(* A user deletes a token of its own.                                      *)
LEMMA DeleteTokenMoves ==
    ASSUME TablesInv, RequestsInv, NEW r \in Requests, deleteAPIToken(r)
    PROVE  Moves(r)
<1>1. req[r].pc = "deleteToken" /\ End(r) /\ Ghosts
      /\ UNCHANGED <<users, identities, totp, sessions, used, profile, byLogin>>
  BY DEF deleteAPIToken, At, Rest
<1>2. PICK k \in Tokens : tokens' = [tokens EXCEPT ![k] = None] \/ tokens' = tokens
  BY DEF deleteAPIToken
<1>3. /\ tokens' \in [Tokens -> Token \cup {None}]
      /\ \A x \in Tokens : tokens'[x] # None => tokens'[x] = tokens[x]
  BY <1>2 DEF TablesInv
<1>4. \A x \in Tokens : tokens'[x] # None => users[tokens'[x].user] # None
  BY <1>3 DEF TablesInv
<1>5. Evolves
  BY <1>1, <1>3, <1>4, TokenEvolves
<1> QED
  BY <1>1, <1>5, EndMoves DEF Ghosts

(* A command finds the one user of that name.                              *)
LEMMA CliFindMoves ==
    ASSUME TablesInv, RequestsInv, NEW r \in Requests, CliFind(r)
    PROVE  Moves(r)
<1>1. req[r].pc = "find" /\ req[r].op \in Commands /\ req[r].op \in AllOps \ Signed
  BY OneRequest DEF CliFind, At, Doing, OtherPoints
<1>2. Keep /\ UNCHANGED <<profile, byLogin>> /\ Ghosts
  BY DEF CliFind, Rest
<1>3. CASE End(r)
  BY <1>1, <1>2, <1>3, StopMoves
<1>4. CASE ~End(r)
  <2>1. PICK i \in Ids : users[i] # None /\ Read(r, i, req[r].op)
    BY <1>4 DEF CliFind, GetUserByLoginOrEmail
  <2>2. req[r].op \notin {"sync", "pinned", "attach"} /\ req[r].op \notin FactorPoints
    BY <1>1 DEF Commands, FactorPoints
  <2> QED
    BY <1>1, <1>2, <2>1, <2>2, ReadUserMoves
<1> QED
  BY <1>3, <1>4

-----------------------------------------------------------------------------
(* The specification.                                                      *)

(* Every step of a request is one that keeps the invariant.                *)
LEMMA StepMoves ==
    ASSUME AccountsInv, NEW r \in Requests, Step(r)
    PROVE  Moves(r)
<1> USE DEF AccountsInv
<1>1. CASE Begin(r) \/ Authenticate(r) \/ GetUser(r) \/ View(r) \/ GetUserMiddleware(r)
  BY <1>1, BeginMoves, AuthenticateMoves, GetUserMoves, ViewMoves, GetUserMiddlewareMoves
<1>2. CASE login(r) \/ oidcRedirect(r) \/ loginByPassword(r) \/ Lookup(r) \/ Known(r) \/ matchExternalUserByEmail(r)
           \/ Pinned(r) \/ Attach(r) \/ syncExternalUserAttrs(r)
  BY <1>2, LoginMoves, OidcMoves, LoginByPasswordMoves, LookupMoves, KnownMoves, MatchMoves, PinnedMoves,
     AttachMoves, SyncMoves
<1>3. CASE CreateExternalUser(r) \/ AttachNew(r) \/ Rollback(r) \/ DeleteUser(r) \/ CliDelete(r) \/ createSession(r) \/ logout(r)
  BY <1>3, CreateExternalUserMoves, AttachNewMoves, DeletionsMove, CreateSessionMoves, LogoutMoves
<1>4. CASE PendingSession(r) \/ CheckFactor(r) \/ recoverySession(r) \/ VerifySession(r)
           \/ EnableTotp(r) \/ DisableTotp(r) \/ CliTotpEnable(r) \/ CliTotpDisable(r)
  BY <1>4, PendingSessionMoves, CheckFactorMoves, RecoveryMoves, VerifySessionMoves, TotpMoves
<1>5. CASE linkExternalIdentity(r) \/ LinkOneOfProvider(r) \/ LinkInsert(r) \/ DeleteUserIdentity(r) \/ UnlinkDelete(r)
  BY <1>5, LinkLookupMoves, LinkListMoves, LinkInsertMoves, UnlinkMoves, UnlinkDeleteMoves
<1>6. CASE AddUser(r) \/ CliAdd(r) \/ UpdateUser(r) \/ applyChangeUserArgsForUser(r)
           \/ createAPIToken(r) \/ CliToken(r) \/ deleteAPIToken(r) \/ CliFind(r)
  BY <1>6, AddingMoves, UpdatingMoves, CreateTokenMoves, DeleteTokenMoves, CliFindMoves
<1> HIDE DEF AccountsInv
<1> QED
  BY <1>1, <1>2, <1>3, <1>4, <1>5, <1>6 DEF Step

(* Time and the providers only change what requests will read.             *)
LEMMA EnvironmentKeeps ==
    ASSUME AccountsInv, Evolves, Witness, UNCHANGED <<req, linked, byLogin>>
    PROVE  AccountsInv'
<1> USE DEF AccountsInv
<1>1. req' \in [Requests -> Request] /\ seen' \in [Requests -> BOOLEAN]
  BY DEF RequestsInv, Witness
<1>2. \A q \in Requests : Doing(req'[q]) /\ Knows(req'[q]) /\ Backed(req[q], seen[q])'
  BY <1>1, OthersKeep
<1>3. RequestsInv'
  BY <1>1, <1>2 DEF RequestsInv
<1>4. NoOrphan'
  <2> SUFFICES ASSUME NEW i \in byLogin, users'[i] # None, i \notin linked
               PROVE  \E q \in Requests : req[q].target = i /\ req[q].pc \in {"attachNew", "rollback"}
    BY DEF NoOrphan
  <2>1. users[i] # None
    BY DEF Evolves, TablesInv
  <2> QED
    BY <2>1 DEF NoOrphan
<1> QED
  BY <1>3, <1>4 DEF Evolves

(* A session goes idle, a token passes its date, a profile changes.        *)
LEMMA EnvironmentEvolves ==
    ASSUME AccountsInv,
           \/ \E s \in Sessions : SessionGoesIdle(s)
           \/ \E k \in Tokens : TokenPasses(k)
           \/ \E u \in Uids : ProfileChanges(u)
    PROVE  Evolves /\ Witness /\ UNCHANGED <<req, linked, byLogin>> /\ identities' = identities
<1>1. TablesInv /\ used.user \in Nat
  BY DEF AccountsInv, TablesInv
<1>2. ASSUME NEW s \in Sessions, SessionGoesIdle(s)
      PROVE  Evolves
  <2>1. sessions[s] \in Session /\ sessions[s].user <= used.user
    BY <1>1, <1>2 DEF TablesInv, SessionGoesIdle
  <2>2. [sessions[s] EXCEPT !.idle = TRUE] \in Session
        /\ [sessions[s] EXCEPT !.idle = TRUE].user = sessions[s].user
    BY <2>1 DEF Session
  <2>3. sessions' = [sessions EXCEPT ![s] = [sessions[s] EXCEPT !.idle = TRUE]]
        /\ UNCHANGED <<users, identities, totp, tokens, used, profile, byLogin>>
    BY <1>2 DEF SessionGoesIdle, Rest
  <2> QED
    BY <1>1, <2>1, <2>2, <2>3, SessionEvolves
<1>3. ASSUME NEW k \in Tokens, TokenPasses(k)
      PROVE  Evolves
  <2>1. tokens[k] \in Token /\ users[tokens[k].user] # None
    BY <1>1, <1>3 DEF TablesInv, TokenPasses
  <2>2. [tokens[k] EXCEPT !.past = TRUE] \in Token /\ [tokens[k] EXCEPT !.past = TRUE].user = tokens[k].user
    BY <2>1 DEF Token
  <2>3. tokens' = [tokens EXCEPT ![k] = [tokens[k] EXCEPT !.past = TRUE]]
        /\ UNCHANGED <<users, identities, totp, sessions, used, profile, byLogin>>
    BY <1>3 DEF TokenPasses, Rest
  <2>4. /\ tokens' \in [Tokens -> Token \cup {None}]
        /\ tokens'[k].user = tokens[k].user
        /\ \A x \in Tokens : x # k => tokens'[x] = tokens[x]
    BY <1>1, <2>2, <2>3 DEF TablesInv
  <2>5. \A x \in Tokens : tokens'[x] # None => users[tokens'[x].user] # None
    BY <1>1, <2>1, <2>4 DEF TablesInv
  <2> QED
    BY <1>1, <2>3, <2>4, <2>5, TokenEvolves
<1>4. ASSUME NEW u \in Uids, ProfileChanges(u)
      PROVE  Evolves
  <2>1. PICK e \in Names : profile' = [profile EXCEPT ![u].email = e]
    BY <1>4 DEF ProfileChanges
  <2>2. profile' \in [Uids -> Profile]
    BY <1>1, <2>1 DEF TablesInv, Profile
  <2>3. UNCHANGED <<users, identities, totp, sessions, tokens, used, byLogin>>
    BY <1>4 DEF ProfileChanges, Keep, tables
  <2> QED
    BY <1>1, <2>2, <2>3 DEF Evolves, TablesInv
<1>5. Witness /\ UNCHANGED <<req, linked, byLogin>> /\ identities' = identities
  BY DEF SessionGoesIdle, TokenPasses, ProfileChanges, Rest, Ghosts, Keep, tables
<1> QED
  BY <1>2, <1>3, <1>4, <1>5

(* The database starts in one of the populations and no request runs.      *)
LEMMA InitInv == Init => AccountsInv
<1> SUFFICES ASSUME Init PROVE AccountsInv
  OBVIOUS
<1>1. PICK p \in Populations :
        /\ users = p.users /\ identities = p.identities /\ totp = p.totp
        /\ sessions = p.sessions /\ tokens = p.tokens
        /\ profile = p.profile /\ used = p.used
  BY DEF Init
<1>2. Populated(p)
  BY AccountsAssumption
<1>3. byLogin = {} /\ linked = {} /\ req = [r \in Requests |-> Idle] /\ seen = [r \in Requests |-> FALSE]
  BY DEF Init
<1>4. TablesInv
  BY <1>1, <1>2, <1>3 DEF TablesInv, Populated
<1>5. Idle \in Request
  BY Constants DEF Request, Idle, Points
<1>6. Doing(Idle) /\ Knows(Idle)
  BY DEF Doing, Knows, Idle, SignedPoints, OtherPoints, LoginPoints, FactorPoints, Targeted, Signed, Commands
<1>7. Backed(Idle, FALSE)
  BY Constants DEF Backed, Idle, SignedPoints, FactorPoints, Signed
<1>8. RequestsInv
  BY <1>3, <1>5, <1>6, <1>7 DEF RequestsInv
<1> QED
  BY <1>3, <1>4, <1>8 DEF AccountsInv, NoOrphan

(* No step breaks the invariant.                                           *)
LEMMA NextInv == AccountsInv /\ [Next]_vars => AccountsInv'
<1> SUFFICES ASSUME AccountsInv, [Next]_vars PROVE AccountsInv'
  OBVIOUS
<1>1. ASSUME NEW r \in Requests, Step(r) PROVE AccountsInv'
  BY <1>1, StepMoves, MovesKeep
<1>2. CASE \/ \E s \in Sessions : SessionGoesIdle(s)
           \/ \E k \in Tokens : TokenPasses(k)
           \/ \E u \in Uids : ProfileChanges(u)
  BY <1>2, EnvironmentEvolves, EnvironmentKeeps
<1>3. CASE UNCHANGED vars
  <2>1. UNCHANGED <<users, identities, totp, sessions, tokens, profile, req, used, byLogin, linked, seen>>
    BY <1>3 DEF vars, tables
  <2> QED
    BY <2>1 DEF AccountsInv, TablesInv, RequestsInv, NoOrphan, Backed
<1> QED
  BY <1>1, <1>2, <1>3 DEF Next

(* The invariant holds in every reachable state.                           *)
THEOREM AccountsInvariant == Spec => []AccountsInv
BY InitInv, NextInv, PTL DEF Spec

(* The tables refer to what exists, and no login, however many race for    *)
(* one account, leaves a user without an identity behind.                  *)
THEOREM UsersSoundHolds == Spec => []UsersSound
<1>1. AccountsInv => UsersSound
  <2> SUFFICES ASSUME AccountsInv PROVE UsersSound
    OBVIOUS
  <2>1. ASSUME NEW r \in Requests
        PROVE  /\ req[r].op \in AllOps \cup {"none"} /\ req[r].cred \in Sessions \cup Tokens \cup {None}
               /\ {req[r].editor, req[r].target} \subseteq Ids \cup {None}
               /\ req[r].snap \in Row \cup {None} /\ req[r].totp \in 0..MaxTotp
    <3>1. req[r] \in Request
      BY DEF AccountsInv, RequestsInv
    <3> QED
      BY <3>1 DEF Request
  <2>2. TypeOK
    BY <2>1 DEF AccountsInv, TablesInv, TypeOK
  <2> QED
    BY <2>2 DEF AccountsInv, UsersSound
<1> QED
  BY <1>1, AccountsInvariant, PTL

(* A request that acts for a signed-in user had a credential in force and  *)
(* a user who existed, both at one moment since it began.                  *)
THEOREM CredentialCurrentHolds == Spec => []CredentialCurrent
<1>1. AccountsInv => CredentialCurrent
  <2> SUFFICES ASSUME AccountsInv, NEW r \in Requests, req[r].op \in Signed,
                      req[r].pc \notin {"oidc", "auth", "getUser"}
               PROVE  seen[r]
    BY DEF CredentialCurrent
  <2>1. req[r] \in Request /\ Doing(req[r]) /\ Backed(req[r], seen[r])
    BY OneRequest DEF AccountsInv
  <2>2. req[r].pc \in Points
    BY <2>1 DEF Request
  <2>3. req[r].pc \in SignedPoints
    BY <2>1, <2>2 DEF Points, Doing, Signed
  <2> QED
    BY <2>1, <2>3 DEF Backed
<1> QED
  BY <1>1, AccountsInvariant, PTL

(* Which steps give a user an identity.                                    *)
LEMMA IdentityGiven ==
    ASSUME AccountsInv, NEW r \in Requests, Step(r), ~(identities' \subseteq identities)
    PROVE  Attach(r) \/ AttachNew(r) \/ LinkInsert(r)
<1>1. CASE Begin(r) \/ Authenticate(r) \/ GetUser(r) \/ View(r) \/ GetUserMiddleware(r)
  BY <1>1 DEF Begin, Authenticate, GetUser, View, GetUserMiddleware, Keep, tables, ForgetIdle, ExpireSession
<1>2. CASE login(r) \/ oidcRedirect(r) \/ loginByPassword(r) \/ Lookup(r) \/ Known(r) \/ matchExternalUserByEmail(r)
           \/ Pinned(r) \/ CliFind(r)
  BY <1>2 DEF login, oidcRedirect, loginByPassword, Lookup, Known, matchExternalUserByEmail, Pinned, CliFind, Keep, tables
<1>3. CASE syncExternalUserAttrs(r) \/ UpdateUser(r) \/ applyChangeUserArgsForUser(r) \/ CreateExternalUser(r)
           \/ AddUser(r) \/ CliAdd(r)
  BY <1>3 DEF syncExternalUserAttrs, UpdateUser, applyChangeUserArgsForUser, UpdateRow, CreateExternalUser,
     AddUser, CliAdd, CreateUser, Keep, tables
<1>4. CASE Rollback(r) \/ DeleteUser(r) \/ CliDelete(r)
  BY <1>4 DEF Rollback, DeleteUser, CliDelete, DeleteRow
<1>5. CASE createSession(r) \/ logout(r) \/ PendingSession(r) \/ CheckFactor(r) \/ recoverySession(r) \/ VerifySession(r)
  BY <1>5 DEF createSession, logout, PendingSession, CheckFactor, recoverySession, VerifySession,
     ForgetIdle, ExpireSession, DeleteTotpVerification, Keep, tables
<1>6. CASE EnableTotp(r) \/ DisableTotp(r) \/ CliTotpEnable(r) \/ CliTotpDisable(r)
  BY <1>6 DEF EnableTotp, DisableTotp, CliTotpEnable, CliTotpDisable, AddTotpVerification, DeleteTotpVerification, Keep, tables
<1>7. CASE linkExternalIdentity(r) \/ LinkOneOfProvider(r) \/ DeleteUserIdentity(r) \/ UnlinkDelete(r)
  BY <1>7 DEF linkExternalIdentity, LinkOneOfProvider, DeleteUserIdentity, UnlinkDelete, Keep, tables
<1>8. CASE createAPIToken(r) \/ deleteAPIToken(r) \/ CliToken(r)
  BY <1>8 DEF createAPIToken, deleteAPIToken, CliToken, CreateAPIToken, tables
<1> QED
  BY <1>1, <1>2, <1>3, <1>4, <1>5, <1>6, <1>7, <1>8 DEF Step

(* An external login never gets hold of a local account: the user it found *)
(* by email was external when read, and no step makes an external user     *)
(* local or gives its id to another.                                       *)
THEOREM LocalNeverAdoptedHolds == Spec => LocalNeverAdopted
<1> DEFINE Adopts == \A x \in identities' \ identities :
                        users[x.user].external \/ \E r \in Requests : At(r, "linkInsert") /\ req[r].editor = x.user
<1>1. AccountsInv /\ [Next]_vars => [Adopts]_vars
  <2> SUFFICES ASSUME AccountsInv, Next, NEW x \in identities' \ identities
               PROVE  users[x.user].external \/ \E r \in Requests : At(r, "linkInsert") /\ req[r].editor = x.user
    OBVIOUS
  <2>1. PICK r \in Requests : Step(r)
    BY EnvironmentEvolves DEF Next
  <2>2. Attach(r) \/ AttachNew(r) \/ LinkInsert(r)
    BY <2>1, IdentityGiven
  <2>3. CASE LinkInsert(r)
    <3>1. At(r, "linkInsert") /\ x.user = req[r].editor
      BY <2>3 DEF LinkInsert, CreateExternalIdentity, tables
    <3> QED
      BY <3>1
  <2>4. CASE Attach(r) \/ AttachNew(r)
    <3>1. req[r].pc \in {"attach", "attachNew"} /\ users[req[r].target] # None /\ x.user = req[r].target
      BY <2>4 DEF Attach, AttachNew, CreateExternalIdentity, CanLink, At, tables
    <3>2. Backed(req[r], seen[r])
      BY OneRequest DEF AccountsInv
    <3> QED
      BY <3>1, <3>2 DEF Backed
  <2> QED
    BY <2>2, <2>3, <2>4
<1> QED
  BY <1>1, AccountsInvariant, PTL DEF Spec, LocalNeverAdopted

(* Only createSession leaves the point createSession.                      *)
LEMMA SessionOpens ==
    ASSUME NEW r \in Requests, req[r].pc = "createSession", Step(r)
    PROVE  createSession(r)
<1>1. ~(Begin(r) \/ Authenticate(r) \/ GetUser(r) \/ View(r) \/ GetUserMiddleware(r)
        \/ login(r) \/ oidcRedirect(r) \/ loginByPassword(r) \/ Lookup(r) \/ Known(r) \/ matchExternalUserByEmail(r)
        \/ Pinned(r) \/ Attach(r) \/ syncExternalUserAttrs(r))
  BY DEF Begin, Authenticate, GetUser, View, GetUserMiddleware, login, oidcRedirect, loginByPassword, Lookup, Known,
     matchExternalUserByEmail, Pinned, Attach, syncExternalUserAttrs, At
<1>2. ~(CreateExternalUser(r) \/ AttachNew(r) \/ Rollback(r) \/ logout(r)
        \/ PendingSession(r) \/ CheckFactor(r) \/ recoverySession(r) \/ VerifySession(r)
        \/ EnableTotp(r) \/ DisableTotp(r) \/ linkExternalIdentity(r) \/ LinkOneOfProvider(r) \/ LinkInsert(r)
        \/ DeleteUserIdentity(r) \/ UnlinkDelete(r))
  BY DEF CreateExternalUser, AttachNew, Rollback, logout, PendingSession, CheckFactor, recoverySession, VerifySession,
     EnableTotp, DisableTotp, linkExternalIdentity, LinkOneOfProvider, LinkInsert, DeleteUserIdentity, UnlinkDelete, At
<1>3. ~(AddUser(r) \/ UpdateUser(r) \/ DeleteUser(r) \/ createAPIToken(r) \/ deleteAPIToken(r)
        \/ CliFind(r) \/ CliAdd(r) \/ applyChangeUserArgsForUser(r) \/ CliDelete(r)
        \/ CliTotpEnable(r) \/ CliTotpDisable(r) \/ CliToken(r))
  BY DEF AddUser, UpdateUser, DeleteUser, createAPIToken, deleteAPIToken, CliFind, CliAdd, applyChangeUserArgsForUser,
     CliDelete, CliTotpEnable, CliTotpDisable, CliToken, At
<1> QED
  BY <1>1, <1>2, <1>3 DEF Step

(* A session without a second factor is opened only for a user who was     *)
(* without TOTP at some moment after the login had found the user.         *)
THEOREM SecondFactorAskedHolds == Spec => SecondFactorAsked
<1> DEFINE Asks == \A r \in Requests : At(r, "createSession") /\ ~At(r, "createSession")' /\ TotpEnabled =>
                      seen[r] \/ \E s \in Sessions : sessions[s] = None /\ sessions'[s] # None
                                                       /\ sessions'[s].method = "totp"
<1>1. AccountsInv /\ [Next]_vars => [Asks]_vars
  <2> SUFFICES ASSUME AccountsInv, Next, NEW r \in Requests, req[r].pc = "createSession",
                      req'[r].pc # "createSession", TotpEnabled, ~seen[r]
               PROVE  \E s \in Sessions : sessions[s] = None /\ sessions'[s] # None
                                            /\ sessions'[s].method = "totp"
    BY DEF At
  <2>1. PICK q \in Requests : Step(q)
    BY EnvironmentEvolves DEF Next
  <2>2. q = r
    BY <2>1, StepMoves DEF Moves
  <2>3. createSession(r)
    BY <2>1, <2>2, SessionOpens
  <2>4. req[r].totp # 0
    BY OneRequest DEF AccountsInv, Backed
  <2>5. PICK s \in Sessions : /\ sessions[s] = None
                              /\ sessions' = [sessions EXCEPT ![s] =
                                   [user |-> req[r].target, method |-> "totp", verified |-> FALSE,
                                    expired |-> FALSE, idle |-> FALSE]]
    BY <2>3, <2>4 DEF createSession
  <2>6. sessions'[s] = [user |-> req[r].target, method |-> "totp", verified |-> FALSE, expired |-> FALSE, idle |-> FALSE]
    BY <2>5 DEF AccountsInv, TablesInv
  <2>7. req[r].target \in Ids
    BY OneRequest DEF AccountsInv, Knows, Targeted
  <2>8. sessions'[s] \in Session /\ sessions'[s].method = "totp"
    BY <2>6, <2>7 DEF Session
  <2> QED
    BY <2>5, <2>8, Constants
<1> QED
  BY <1>1, AccountsInvariant, PTL DEF Spec, SecondFactorAsked
=============================================================================
