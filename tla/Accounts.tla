------------------------------ MODULE Accounts ------------------------------
(***************************************************************************)
(* Users, external identities, sessions, TOTP and API tokens: the handlers *)
(* of api/login.go, login_identity.go, auth.go, users.go, user.go and the  *)
(* user commands of cli/cmd.  A request is a goroutine that works with     *)
(* single statements on the database; requests interleave between them.    *)
(***************************************************************************)
EXTENDS Naturals, FiniteSets

CONSTANTS
    Ids,            \* user ids in the order the table gives them out, once each
    Names,          \* user names and emails
    Uids,           \* accounts at external providers
    ProviderOf,     \* the provider of an external account
    Ldap,           \* the LDAP providers; the others speak OIDC
    Claim,          \* email_verified: "true", "false" or "absent"
    RequireVerified,\* the providers with require_verified_email
    Mode,           \* external_auth_email_matching
    TotpEnabled, AllowRecovery, PasswordLoginDisable,
    Sessions, Tokens, Requests,
    Ops,            \* the operations that may be requested
    MaxRequests, MaxTotp,
    Populations,    \* the states the database may start in
    None

VARIABLES
    users,          \* rows of user, by id
    identities,     \* rows of user__external_identity
    totp,           \* the id of the user's row in user__totp, 0: none
    sessions, tokens,
    profile,        \* what the provider tells about an external account
    req,            \* the requests being handled
    count,          \* requests so far
    used,           \* ids given out, for users and TOTP rows
    byLogin,        \* ghost: users created by an external login
    linked,         \* ghost: users that had an identity
    seen            \* ghost: requests whose entitlement held at some moment

tables == <<users, identities, totp, sessions, tokens>>
vars == <<tables, profile, req, count, used, byLogin, linked, seen>>

Row == [username : Names \cup Ids, email : Names, external : BOOLEAN, admin : BOOLEAN]
Session == [user : Ids, method : {"none", "totp"}, verified : BOOLEAN, expired : BOOLEAN, idle : BOOLEAN]
Token == [user : Ids, past : BOOLEAN]
Profile == [username : Names, email : Names]
Idle == [op |-> "none", pc |-> "idle", cred |-> None, editor |-> None, admin |-> FALSE,
         target |-> None, snap |-> None, totp |-> 0, uid |-> None]

Signed == {"linkOidc", "linkLdap", "addUser", "update", "delete", "unlink", "enableTotp", "disableTotp",
           "createToken", "deleteToken", "view"}
Commands == {"cliChange", "cliDelete", "cliTotpEnable", "cliTotpDisable", "cliToken"}
AllOps == Signed \cup Commands
            \cup {"login", "oidc", "logout", "verify", "recover", "cliAdd"}

(* A database as requests may have left it: ids have been given out in     *)
(* order, and only sessions may outlive their user.                        *)
Populated(p) ==
    /\ p.users \in [Ids -> Row \cup {None}]
    /\ p.identities \subseteq [user : {i \in Ids : p.users[i] # None}, uid : Uids]
    /\ p.totp \in [Ids -> 0..MaxTotp]
    /\ p.sessions \in [Sessions -> Session \cup {None}]
    /\ p.tokens \in [Tokens -> Token \cup {None}]
    /\ p.profile \in [Uids -> Profile]
    /\ p.used \in [user : Nat, totp : 0..MaxTotp]
    /\ \A i \in Ids : /\ p.users[i] # None => i <= p.used.user
                      /\ p.totp[i] # 0 => p.users[i] # None
    /\ \A s \in Sessions : p.sessions[s] # None => p.sessions[s].user <= p.used.user
    /\ \A k \in Tokens : p.tokens[k] # None => p.users[p.tokens[k].user] # None

ASSUME AccountsAssumption ==
    /\ Mode \in {"auto", "always", "never"}
    /\ IsFiniteSet(Ids) /\ Ids = 1..Cardinality(Ids)
    /\ MaxTotp \in Nat /\ Ops \subseteq AllOps
    /\ None \notin Ids \cup Uids \cup Sessions \cup Tokens \cup Row \cup Session \cup Token
    /\ \A p \in Populations : Populated(p)

TypeOK ==
    /\ users \in [Ids -> Row \cup {None}]
    /\ identities \subseteq [user : {i \in Ids : users[i] # None}, uid : Uids]
    /\ totp \in [Ids -> 0..MaxTotp]
    /\ sessions \in [Sessions -> Session \cup {None}]
    /\ tokens \in [Tokens -> Token \cup {None}]
    /\ profile \in [Uids -> Profile]
    /\ \A r \in Requests :
        /\ req[r].op \in AllOps \cup {"none"} /\ req[r].cred \in Sessions \cup Tokens \cup {None}
        /\ {req[r].editor, req[r].target} \subseteq Ids \cup {None}
        /\ req[r].snap \in Row \cup {None} /\ req[r].totp \in 0..MaxTotp

-----------------------------------------------------------------------------
(* Tables.  A user's identities, TOTP row and tokens go with the user; its *)
(* sessions stay: they have no foreign key.                                *)
Taken(name, email, except) ==
    \E i \in Ids \ {except} : users[i] # None /\ (users[i].username = name \/ users[i].email = email)

DeleteRow(i) ==
    /\ users' = [users EXCEPT ![i] = None]
    /\ identities' = {x \in identities : x.user # i}
    /\ totp' = [totp EXCEPT ![i] = 0]
    /\ tokens' = [k \in Tokens |-> IF tokens[k] # None /\ tokens[k].user = i THEN None ELSE tokens[k]]
    /\ UNCHANGED sessions

(* UpdateUser writes every column but external; no row, no effect.         *)
UpdateRow(i, row) ==
    /\ users' = IF users[i] = None THEN users
                ELSE [users EXCEPT ![i] = [row EXCEPT !.external = users[i].external]]
    /\ UNCHANGED <<identities, totp, sessions, tokens>>

CreateUser(row) ==
    LET i == used.user + 1
    IN  /\ i \in Ids
        /\ ~Taken(row.username, row.email, 0)
        /\ users' = [users EXCEPT ![i] = row]
        /\ used' = [used EXCEPT !.user = i]
        /\ UNCHANGED <<identities, totp, sessions, tokens>>

CanLink(i, u) == users[i] # None /\ \A x \in identities : x.uid # u

CreateExternalIdentity(i, u) ==
    /\ identities' = identities \cup {[user |-> i, uid |-> u]}
    /\ linked' = linked \cup {i}
    /\ UNCHANGED <<users, totp, sessions, tokens>>

GetUserByLoginOrEmail(name, email) ==
    {i \in Ids : users[i] # None /\ (users[i].username = name \/ users[i].email = email)}

AddTotpVerification(i) ==
    /\ used.totp < MaxTotp
    /\ totp[i] = 0 /\ users[i] # None
    /\ totp' = [totp EXCEPT ![i] = used.totp + 1]
    /\ used' = [used EXCEPT !.totp = @ + 1]
    /\ UNCHANGED <<users, identities, sessions, tokens>>

DeleteTotpVerification(i, id) ==
    /\ totp' = [totp EXCEPT ![i] = IF @ = id THEN 0 ELSE @]
    /\ UNCHANGED <<users, identities, sessions, tokens>>

CreateAPIToken(i) ==
    \E k \in Tokens :
        /\ tokens[k] = None /\ users[i] # None
        /\ tokens' = [tokens EXCEPT ![k] = [user |-> i, past |-> FALSE]]
        /\ UNCHANGED <<users, identities, totp, sessions>>

-----------------------------------------------------------------------------
(* Requests.                                                               *)
At(r, pc) == req[r].pc = pc
Goto(r, pc) == req' = [req EXCEPT ![r].pc = pc]
End(r) == req' = [req EXCEPT ![r] = Idle]
Keep == UNCHANGED <<tables, used>>
Rest == UNCHANGED <<profile, count, byLogin>>

IsVerified(s) == sessions[s].method = "none" \/ sessions[s].verified
IsExpiredAt(k) == tokens[k].past

(* The credential lets its owner in.                                       *)
Valid(c) ==
    \/ c \in Sessions /\ sessions[c] # None /\ ~sessions[c].expired /\ ~sessions[c].idle
         /\ IsVerified(c) /\ users[sessions[c].user] # None
    \/ c \in Tokens /\ tokens[c] # None /\ ~IsExpiredAt(c) /\ users[tokens[c].user] # None

(* What a request needs: its credential in force, or for a login a user    *)
(* without a second factor.                                                *)
Entitled(q) ==
    \/ q.op \in Signed /\ Valid(q.cred)
    \/ q.op \notin Signed /\ q.target # None /\ totp[q.target] = 0

Witness == seen' = [r \in Requests |-> req'[r].pc # "idle" /\ (seen[r] \/ Entitled(req[r])')]

Ghosts == UNCHANGED linked /\ Witness

Start(op) == CASE op \in {"oidc", "linkOidc"} -> "oidc"
               [] op \in Signed \ {"linkOidc"} -> "auth"
               [] op \in Commands -> "find"
               [] op \in {"verify", "recover"} -> "session"
               [] OTHER -> op

Begin(r) ==
    /\ At(r, "idle") /\ count < MaxRequests
    /\ count' = count + 1
    /\ \E op \in Ops :
        \E c \in (IF op \in {"linkOidc", "logout", "verify", "recover"} THEN Sessions
                  ELSE IF op \in Signed THEN Sessions \cup Tokens ELSE {None}) :
            req' = [req EXCEPT ![r] = [Idle EXCEPT !.op = op, !.pc = Start(op), !.cred = c]]
    /\ Keep /\ UNCHANGED <<profile, byLogin>> /\ Ghosts

(* getSession: an idle session is expired on sight.                        *)
HasSession(s) == sessions[s] # None /\ ~sessions[s].expired

ExpireSession(s) ==
    /\ sessions' = [sessions EXCEPT ![s].expired = TRUE]
    /\ UNCHANGED <<users, identities, totp, tokens>>

ForgetIdle(r) ==
    /\ HasSession(req[r].cred) /\ sessions[req[r].cred].idle
    /\ ExpireSession(req[r].cred)
    /\ End(r) /\ UNCHANGED used

(* authenticationHandler: the credential, then the user.                   *)
Authenticate(r) ==
    /\ At(r, "auth")
    /\ LET c == req[r].cred
       IN  \/ /\ c \in Tokens
              /\ IF tokens[c] # None /\ ~IsExpiredAt(c)
                   THEN req' = [req EXCEPT ![r].pc = "getUser", ![r].editor = tokens[c].user]
                   ELSE End(r)
              /\ Keep
           \/ c \in Sessions /\ ForgetIdle(r)
           \/ /\ c \in Sessions
              /\ HasSession(c) => ~sessions[c].idle
              /\ IF HasSession(c) /\ IsVerified(c)
                   THEN req' = [req EXCEPT ![r].pc = "getUser", ![r].editor = sessions[c].user]
                   ELSE End(r)
              /\ Keep
    /\ Rest /\ Ghosts

After(op) == CASE op \in {"update", "delete", "unlink", "enableTotp", "disableTotp"} -> "target"
               [] op \in {"linkOidc", "linkLdap"} -> "linkLookup"
               [] OTHER -> op

\* Mutant: the session alone is enough.
GetUserUnchecked(r) ==
    /\ At(r, "getUser")
    /\ req' = [req EXCEPT ![r].pc = After(req[r].op), ![r].snap = users[req[r].editor]]
    /\ Keep /\ Rest /\ Ghosts

GetUser(r) ==
    /\ At(r, "getUser")
    /\ IF users[req[r].editor] = None THEN End(r)
       ELSE req' = [req EXCEPT ![r].pc = After(req[r].op), ![r].admin = users[req[r].editor].admin,
                                ![r].snap = users[req[r].editor]]
    /\ Keep /\ Rest /\ Ghosts

View(r) == At(r, "view") /\ End(r) /\ Keep /\ Rest /\ Ghosts

(* GetUserMiddleware: the user the request is about.                       *)
GetUserMiddleware(r) ==
    /\ At(r, "target")
    /\ \E i \in Ids :
        IF users[i] = None \/ (~req[r].admin /\ i # req[r].editor) THEN End(r)
        ELSE req' = [req EXCEPT ![r].pc = req[r].op, ![r].target = i, ![r].snap = users[i],
                                ![r].totp = totp[i]]
    /\ Keep /\ Rest /\ Ghosts

-----------------------------------------------------------------------------
(* Login.                                                                  *)
resolveEmailVerified(u) ==
    IF ProviderOf[u] \in RequireVerified THEN Claim[u] = "true" ELSE Claim[u] # "false"

(* What is read of a user: the row and its TOTP.                           *)
Read(r, i, pc) ==
    req' = [req EXCEPT ![r].pc = pc, ![r].target = i, ![r].snap = users[i], ![r].totp = totp[i]]

(* The directory's answer: an error of a connection, a bind or a search,   *)
(* no entry, or the account whose password was right.                      *)
tryFindLDAPUser == {"error", "absent"} \cup {u \in Uids : ProviderOf[u] \in Ldap}

(* POST /auth/login by password, by LDAP, or for clients that name no      *)
(* method by LDAP with the password as a fallback.                         *)
login(r) ==
    /\ At(r, "login")
    /\ \/ ~PasswordLoginDisable /\ Goto(r, "password")
       \/ \E found \in tryFindLDAPUser, legacy \in BOOLEAN :
            IF found \in Uids
              THEN req' = [req EXCEPT ![r].pc = "lookup", ![r].uid = found]
              ELSE IF legacy /\ found = "absent" /\ ~PasswordLoginDisable
                     THEN Goto(r, "password") ELSE End(r)
    /\ Keep /\ Rest /\ Ghosts

(* The provider's answer: none that counts (another state, no code, claims *)
(* that cannot be read, no sub), or an account.                            *)
oidcRedirect(r) ==
    /\ At(r, "oidc")
    /\ \/ End(r)
       \/ \E u \in Uids :
            /\ ProviderOf[u] \notin Ldap
            /\ req' = [req EXCEPT ![r].pc = IF req[r].op = "linkOidc" THEN "auth" ELSE "lookup", ![r].uid = u]
    /\ Keep /\ Rest /\ Ghosts

loginByPassword(r) ==
    /\ At(r, "password")
    /\ \E name \in Names :
        LET found == GetUserByLoginOrEmail(name, name)
        IN  \/ \E i \in found :
                /\ Cardinality(found) = 1 /\ ~users[i].external
                /\ Read(r, i, "createSession")
            \/ End(r)
    /\ Keep /\ Rest /\ Ghosts

(* resolveExternalUser: the identity is the only trusted key.              *)
Lookup(r) ==
    /\ At(r, "lookup")
    /\ IF \E x \in identities : x.uid = req[r].uid
         THEN req' = [req EXCEPT ![r].pc = "known",
                        ![r].target = (CHOOSE x \in identities : x.uid = req[r].uid).user]
         ELSE Goto(r, "match")
    /\ Keep /\ Rest /\ Ghosts

Known(r) ==
    /\ At(r, "known")
    /\ IF users[req[r].target] = None THEN End(r) ELSE Read(r, req[r].target, "sync")
    /\ Keep /\ Rest /\ Ghosts

(* The users that matchExternalUserByEmail's query returns.                *)
Candidates(u) ==
    LET byEmail == IF ProviderOf[u] \in Ldap \/ resolveEmailVerified(u) THEN {profile[u].email} ELSE {}
        byName == IF ProviderOf[u] \in Ldap THEN {profile[u].username} ELSE {}
    IN  IF Mode = "never" THEN {}
        ELSE {i \in Ids : users[i] # None /\ (users[i].email \in byEmail \/ users[i].username \in byName)}

\* Mutant: any user with the email is taken.
matchAnyUserByEmail(r) ==
    /\ At(r, "match")
    /\ \/ Candidates(req[r].uid) = {} /\ Goto(r, "create")
       \/ \E i \in Candidates(req[r].uid) : Read(r, i, IF Mode = "auto" THEN "pinned" ELSE "attach")
    /\ Keep /\ Rest /\ Ghosts

matchExternalUserByEmail(r) ==
    /\ At(r, "match")
    /\ LET found == Candidates(req[r].uid)
       IN  \/ found = {} /\ Goto(r, "create")
           \/ Cardinality(found) > 1 /\ End(r)
           \/ \E i \in found :
                /\ Cardinality(found) = 1
                /\ IF ~users[i].external THEN Goto(r, "create")
                   ELSE Read(r, i, IF Mode = "auto" THEN "pinned" ELSE "attach")
    /\ Keep /\ Rest /\ Ghosts

(* In mode auto a user with an identity is not matched any more.           *)
Pinned(r) ==
    /\ At(r, "pinned")
    /\ Goto(r, IF \E x \in identities : x.user = req[r].target THEN "create" ELSE "attach")
    /\ Keep /\ Rest /\ Ghosts

Attach(r) ==
    /\ At(r, "attach")
    /\ IF CanLink(req[r].target, req[r].uid)
         THEN Goto(r, "sync") /\ CreateExternalIdentity(req[r].target, req[r].uid)
         ELSE End(r) /\ UNCHANGED <<tables, linked>>
    /\ UNCHANGED used /\ Rest /\ Witness

(* syncExternalUserAttrs writes the row it read, with the new attributes.  *)
syncExternalUserAttrs(r) ==
    /\ At(r, "sync")
    /\ LET email == profile[req[r].uid].email
           row == [req[r].snap EXCEPT !.email = email]
       IN  \/ /\ ~row.external \/ row = req[r].snap
              /\ Goto(r, "createSession") /\ UNCHANGED tables
           \/ /\ row.external          \* the email or the name changed
              /\ IF Taken(row.username, row.email, req[r].target) /\ users[req[r].target] # None
                   THEN End(r) /\ UNCHANGED tables
                   ELSE Goto(r, "createSession") /\ UpdateRow(req[r].target, row)
    /\ UNCHANGED used /\ Rest /\ Ghosts

(* An OIDC account gets a random user name, here its id.                   *)
NewExternal(u, i) ==
    [username |-> IF ProviderOf[u] \in Ldap THEN profile[u].username ELSE i,
     email |-> profile[u].email, external |-> TRUE, admin |-> FALSE]

CreateExternalUser(r) ==
    /\ At(r, "create")
    /\ LET i == used.user + 1
           row == NewExternal(req[r].uid, i)
       IN  IF Taken(row.username, row.email, 0)
             THEN End(r) /\ Keep /\ UNCHANGED byLogin
             ELSE /\ CreateUser(row)
                  /\ byLogin' = byLogin \cup {i}
                  /\ req' = [req EXCEPT ![r].pc = "attachNew", ![r].target = i, ![r].snap = row, ![r].totp = 0]
    /\ UNCHANGED <<profile, count>> /\ Ghosts

\* Mutant: the new user is left behind.
AttachNewOnly(r) ==
    /\ At(r, "attachNew")
    /\ IF CanLink(req[r].target, req[r].uid)
         THEN Goto(r, "createSession") /\ CreateExternalIdentity(req[r].target, req[r].uid)
         ELSE End(r) /\ UNCHANGED <<tables, linked>>
    /\ UNCHANGED used /\ Rest /\ Witness

AttachNew(r) ==
    /\ At(r, "attachNew")
    /\ IF CanLink(req[r].target, req[r].uid)
         THEN Goto(r, "createSession") /\ CreateExternalIdentity(req[r].target, req[r].uid)
         ELSE Goto(r, "rollback") /\ UNCHANGED <<tables, linked>>
    /\ UNCHANGED used /\ Rest /\ Witness

Rollback(r) ==
    /\ At(r, "rollback")
    /\ DeleteRow(req[r].target)
    /\ End(r) /\ UNCHANGED used /\ Rest /\ Ghosts

\* Mutant: only a login by password asks for the second factor.
createSessionUnasked(r) ==
    /\ At(r, "createSession")
    /\ \E s \in Sessions :
        /\ sessions[s] = None
        /\ LET second == req[r].totp # 0 /\ req[r].uid = None /\ TotpEnabled
           IN  sessions' = [sessions EXCEPT ![s] =
                    [user |-> req[r].target, method |-> IF second THEN "totp" ELSE "none",
                     verified |-> ~second, expired |-> FALSE, idle |-> FALSE]]
    /\ End(r)
    /\ UNCHANGED <<users, identities, totp, tokens, used>> /\ Rest /\ Ghosts

(* createSession goes by the TOTP of the user as it was read.              *)
createSession(r) ==
    /\ At(r, "createSession")
    /\ \E s \in Sessions :
        /\ sessions[s] = None
        /\ LET second == req[r].totp # 0 /\ TotpEnabled
           IN  sessions' = [sessions EXCEPT ![s] =
                    [user |-> req[r].target, method |-> IF second THEN "totp" ELSE "none",
                     verified |-> ~second, expired |-> FALSE, idle |-> FALSE]]
    /\ End(r)
    /\ UNCHANGED <<users, identities, totp, tokens, used>> /\ Rest /\ Ghosts

logout(r) ==
    /\ At(r, "logout")
    /\ IF HasSession(req[r].cred) THEN ExpireSession(req[r].cred) ELSE UNCHANGED tables
    /\ End(r) /\ UNCHANGED used /\ Rest /\ Ghosts

-----------------------------------------------------------------------------
(* Second factor.                                                          *)
PendingSession(r) ==
    /\ At(r, "session")
    /\ \/ ForgetIdle(r)
       \/ /\ HasSession(req[r].cred) => ~sessions[req[r].cred].idle
          /\ IF HasSession(req[r].cred) /\ sessions[req[r].cred].method = "totp" /\ TotpEnabled
                /\ (req[r].op = "recover" => AllowRecovery)
               THEN req' = [req EXCEPT ![r].pc = "factor", ![r].target = sessions[req[r].cred].user]
               ELSE End(r)
          /\ Keep
    /\ Rest /\ Ghosts

(* The passcode or the recovery code is checked against the TOTP read now. *)
CheckFactor(r) ==
    /\ At(r, "factor")
    /\ \/ /\ users[req[r].target] # None /\ totp[req[r].target] # 0
          /\ Read(r, req[r].target, IF req[r].op = "recover" THEN "dropTotp" ELSE "verifySession")
       \/ End(r)
    /\ Keep /\ Rest /\ Ghosts

recoverySession(r) ==
    /\ At(r, "dropTotp")
    /\ DeleteTotpVerification(req[r].target, req[r].totp)
    /\ Goto(r, "verifySession") /\ UNCHANGED used /\ Rest /\ Ghosts

VerifySession(r) ==
    /\ At(r, "verifySession")
    /\ sessions' = [sessions EXCEPT ![req[r].cred].verified = TRUE]
    /\ End(r)
    /\ UNCHANGED <<users, identities, totp, tokens, used>> /\ Rest /\ Ghosts

EnableTotp(r) ==
    /\ At(r, "enableTotp")
    /\ IF TotpEnabled /\ req[r].totp = 0 /\ totp[req[r].target] = 0 /\ users[req[r].target] # None
         THEN AddTotpVerification(req[r].target)
         ELSE Keep
    /\ End(r) /\ Rest /\ Ghosts

DisableTotp(r) ==
    /\ At(r, "disableTotp")
    /\ IF req[r].totp # 0
         THEN \E id \in 1..MaxTotp : DeleteTotpVerification(req[r].target, id)
         ELSE UNCHANGED tables
    /\ End(r) /\ UNCHANGED used /\ Rest /\ Ghosts

-----------------------------------------------------------------------------
(* Identities of a signed-in user.                                         *)
ldapProfileMatchesAldisUser(u, row) ==
    row.email = profile[u].email \/ row.username = profile[u].username

(* The account is the OIDC one, or proved now by a bind to the directory.  *)
linkLdapIdentity(r) ==
    IF req[r].op = "linkOidc" THEN {req[r].uid}
    ELSE {u \in tryFindLDAPUser \cap Uids : ldapProfileMatchesAldisUser(u, req[r].snap)}

linkExternalIdentity(r) ==
    /\ At(r, "linkLookup")
    /\ \/ (\E x \in identities : x.uid \in linkLdapIdentity(r)) /\ End(r)
       \/ linkLdapIdentity(r) = {} /\ End(r)
       \/ \E u \in linkLdapIdentity(r) :
            /\ \A x \in identities : x.uid # u
            /\ req' = [req EXCEPT ![r].pc = "linkList", ![r].uid = u]
    /\ Keep /\ Rest /\ Ghosts

LinkOneOfProvider(r) ==
    /\ At(r, "linkList")
    /\ IF \E x \in identities : x.user = req[r].editor /\ ProviderOf[x.uid] = ProviderOf[req[r].uid]
         THEN End(r) ELSE Goto(r, "linkInsert")
    /\ Keep /\ Rest /\ Ghosts

LinkInsert(r) ==
    /\ At(r, "linkInsert")
    /\ IF CanLink(req[r].editor, req[r].uid)
         THEN CreateExternalIdentity(req[r].editor, req[r].uid)
         ELSE UNCHANGED <<tables, linked>>
    /\ End(r) /\ UNCHANGED used /\ Rest /\ Witness

(* DeleteUserIdentity: the list of identities, then the deletion.          *)
DeleteUserIdentity(r) ==
    /\ At(r, "unlink")
    /\ \E p \in {ProviderOf[u] : u \in Uids} :
        LET own == {x \in identities : x.user = req[r].target}
            last == \E x \in own : ProviderOf[x.uid] = p /\ own = {x}
        IN  \/ req[r].snap.external /\ last /\ End(r)
            \/ ~(req[r].snap.external /\ last)
                 /\ req' = [req EXCEPT ![r].pc = "unlinkDelete",
                                       ![r].uid = CHOOSE u \in Uids : ProviderOf[u] = p]
    /\ Keep /\ Rest /\ Ghosts

UnlinkDelete(r) ==
    /\ At(r, "unlinkDelete")
    /\ identities' = {x \in identities : x.user = req[r].target => ProviderOf[x.uid] # ProviderOf[req[r].uid]}
    /\ End(r)
    /\ UNCHANGED <<users, totp, sessions, tokens, used>> /\ Rest /\ Ghosts

-----------------------------------------------------------------------------
(* Users and tokens.                                                       *)
AddUser(r) ==
    /\ At(r, "addUser")
    /\ \/ /\ req[r].admin
          /\ \E n, e \in Names, x, a \in BOOLEAN :
               CreateUser([username |-> n, email |-> e, external |-> x, admin |-> a])
       \/ Keep          \* not an administrator, or the name or email is taken
    /\ End(r) /\ Rest /\ Ghosts

(* Nobody changes their own administrator flag, nor the name of an         *)
(* external user.                                                          *)
MayWrite(r, row) ==
    /\ req[r].admin \/ req[r].editor = req[r].target
    /\ req[r].editor = req[r].target => row.admin = req[r].snap.admin
    /\ req[r].snap.external => row.username = req[r].snap.username

UpdateUser(r) ==
    /\ At(r, "update")
    /\ \/ \E n \in Names \cup {req[r].snap.username}, e \in Names, a \in BOOLEAN :
            LET row == [username |-> n, email |-> e, external |-> req[r].snap.external, admin |-> a]
            IN  /\ MayWrite(r, row) /\ ~Taken(n, e, req[r].target)
                /\ UpdateRow(req[r].target, row)
       \/ UNCHANGED tables
    /\ End(r) /\ UNCHANGED used /\ Rest /\ Ghosts

DeleteUser(r) ==
    /\ At(r, "delete")
    /\ DeleteRow(req[r].target)
    /\ End(r) /\ UNCHANGED used /\ Rest /\ Ghosts

createAPIToken(r) ==
    /\ At(r, "createToken")
    /\ CreateAPIToken(req[r].editor) \/ UNCHANGED tables
    /\ End(r) /\ UNCHANGED used /\ Rest /\ Ghosts

deleteAPIToken(r) ==
    /\ At(r, "deleteToken")
    /\ \E k \in Tokens :
        tokens' = IF tokens[k] # None /\ tokens[k].user = req[r].editor
                    THEN [tokens EXCEPT ![k] = None] ELSE tokens
    /\ End(r)
    /\ UNCHANGED <<users, identities, totp, sessions, used>> /\ Rest /\ Ghosts

-----------------------------------------------------------------------------
(* The commands `user ...` of the command line: find the user, then act.   *)
CliFind(r) ==
    /\ At(r, "find")
    /\ \E name \in Names :
        LET found == GetUserByLoginOrEmail(name, name)
        IN  IF Cardinality(found) # 1 THEN End(r) ELSE \E i \in found : Read(r, i, req[r].op)
    /\ Keep /\ Rest /\ Ghosts

CliAdd(r) ==
    /\ At(r, "cliAdd")
    /\ \/ \E n, e \in Names, x, a \in BOOLEAN :
            CreateUser([username |-> n, email |-> e, external |-> x, admin |-> a])
       \/ Keep
    /\ End(r) /\ Rest /\ Ghosts

applyChangeUserArgsForUser(r) ==
    /\ At(r, "cliChange")
    /\ \/ \E n \in Names, a \in {req[r].snap.admin, TRUE} :
            \E row \in {[req[r].snap EXCEPT !.email = n, !.admin = a],
                       [req[r].snap EXCEPT !.username = n, !.admin = a]} :
                /\ ~Taken(row.username, row.email, req[r].target)
                /\ UpdateRow(req[r].target, row)
       \/ UNCHANGED tables
    /\ End(r) /\ UNCHANGED used /\ Rest /\ Ghosts

CliDelete(r) ==
    /\ At(r, "cliDelete")
    /\ DeleteRow(req[r].target)
    /\ End(r) /\ UNCHANGED used /\ Rest /\ Ghosts

CliTotpEnable(r) ==
    /\ At(r, "cliTotpEnable")
    /\ IF req[r].totp = 0 /\ totp[req[r].target] = 0 /\ users[req[r].target] # None
         THEN AddTotpVerification(req[r].target) ELSE Keep
    /\ End(r) /\ Rest /\ Ghosts

CliTotpDisable(r) ==
    /\ At(r, "cliTotpDisable")
    /\ IF req[r].totp # 0 THEN DeleteTotpVerification(req[r].target, req[r].totp) ELSE UNCHANGED tables
    /\ End(r) /\ UNCHANGED used /\ Rest /\ Ghosts

CliToken(r) ==
    /\ At(r, "cliToken")
    /\ CreateAPIToken(req[r].target) \/ UNCHANGED tables
    /\ End(r) /\ UNCHANGED used /\ Rest /\ Ghosts

-----------------------------------------------------------------------------
(* Time and the providers.                                                 *)
SessionGoesIdle(s) ==
    /\ sessions[s] # None
    /\ sessions' = [sessions EXCEPT ![s].idle = TRUE]
    /\ UNCHANGED <<users, identities, totp, tokens, used, req>> /\ Rest /\ Ghosts

TokenPasses(k) ==
    /\ tokens[k] # None
    /\ tokens' = [tokens EXCEPT ![k].past = TRUE]
    /\ UNCHANGED <<users, identities, totp, sessions, used, req>> /\ Rest /\ Ghosts

ProfileChanges(u) ==
    /\ \E e \in Names : profile' = [profile EXCEPT ![u].email = e]
    /\ Keep /\ UNCHANGED <<req, count, byLogin>> /\ Ghosts

Step(r) ==
    \/ Begin(r) \/ Authenticate(r) \/ GetUser(r) \/ View(r) \/ GetUserMiddleware(r)
    \/ login(r) \/ oidcRedirect(r) \/ loginByPassword(r) \/ Lookup(r) \/ Known(r) \/ matchExternalUserByEmail(r) \/ Pinned(r)
    \/ Attach(r) \/ syncExternalUserAttrs(r) \/ CreateExternalUser(r) \/ AttachNew(r)
    \/ Rollback(r) \/ createSession(r) \/ logout(r)
    \/ PendingSession(r) \/ CheckFactor(r) \/ recoverySession(r) \/ VerifySession(r)
    \/ EnableTotp(r) \/ DisableTotp(r)
    \/ linkExternalIdentity(r) \/ LinkOneOfProvider(r) \/ LinkInsert(r)
    \/ DeleteUserIdentity(r) \/ UnlinkDelete(r)
    \/ AddUser(r) \/ UpdateUser(r) \/ DeleteUser(r) \/ createAPIToken(r) \/ deleteAPIToken(r)
    \/ CliFind(r) \/ CliAdd(r) \/ applyChangeUserArgsForUser(r) \/ CliDelete(r)
    \/ CliTotpEnable(r) \/ CliTotpDisable(r) \/ CliToken(r)

Init ==
    /\ \E p \in Populations :
        /\ users = p.users /\ identities = p.identities /\ totp = p.totp
        /\ sessions = p.sessions /\ tokens = p.tokens
        /\ profile = p.profile /\ used = p.used
    /\ req = [r \in Requests |-> Idle]
    /\ count = 0 /\ byLogin = {} /\ linked = {}
    /\ seen = [r \in Requests |-> FALSE]

Next ==
    \/ \E r \in Requests : Step(r)
    \/ \E s \in Sessions : SessionGoesIdle(s)
    \/ \E k \in Tokens : TokenPasses(k)
    \/ \E u \in Uids : ProfileChanges(u)

Spec == Init /\ [][Next]_vars

-----------------------------------------------------------------------------
(* A request acts for a user only if its session was verified, in use and  *)
(* not logged out, or its token in force, and the user existed, all at one *)
(* moment since it began: sessions outlive their user, and every other     *)
(* request may log out, expire or delete meanwhile.                        *)
CredentialCurrent ==
    \A r \in Requests : req[r].op \in Signed /\ req[r].pc \notin {"oidc", "auth", "getUser"} => seen[r]

(* A user created by a login and never linked does not stay: of concurrent *)
(* logins of one account, the one that loses the identity takes its user   *)
(* back, or the next login would meet a duplicate.                         *)
NoOrphan ==
    \A i \in byLogin : users[i] # None /\ i \notin linked =>
        \E r \in Requests : req[r].target = i /\ req[r].pc \in {"attachNew", "rollback"}

(* The tables of users, identities and sessions refer to what exists, and  *)
(* no login leaves a user without an identity.                             *)
UsersSound == TypeOK /\ NoOrphan

(* A login never adopts a local account: an identity of a local user comes *)
(* from a link request that this user was signed in for.                   *)
LocalNeverAdopted ==
    [][\A x \in identities' \ identities :
        users[x.user].external \/ \E r \in Requests : At(r, "linkInsert") /\ req[r].editor = x.user]_vars

(* A login of a user with TOTP opens a session without a second factor     *)
(* only if TOTP was off at some moment after the login had found the user. *)
SecondFactorAsked ==
    [][\A r \in Requests : At(r, "createSession") /\ ~At(r, "createSession")' /\ TotpEnabled =>
        seen[r] \/ \E s \in Sessions : sessions[s] = None /\ sessions'[s] # None
                                         /\ sessions'[s].method = "totp"]_vars

=============================================================================
