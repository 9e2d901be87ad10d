---------------------------- MODULE ProjectStore ----------------------------
(***************************************************************************)
(* The project API: members and their rights, and the resources of a        *)
(* project (keys, repositories, inventories, environments, views,           *)
(* templates, schedules, integrations) over the tables of module Tables.    *)
(*                                                                         *)
(* A request takes two steps.  Begin is its middleware: it resolves the     *)
(* author's rights and loads the rows its URL names into the request.  The  *)
(* handler acts later, with what the middleware loaded; another request may *)
(* have changed the store in between.                                       *)
(***************************************************************************)
EXTENDS Tables, Sequences

CONSTANTS Users, Admins,          \* Admins \subseteq Users
          Clients,                \* requests that may be in flight at once
          MaxRequests,            \* bound on the requests of a behaviour
          MaxProjects,            \* bound on the projects
          Ops,                    \* the operations requests may ask for
          NonAdminCanCreateProject

ASSUME ProjectStoreAssumption ==
  /\ Admins \subseteq Users
  /\ MaxRequests \in Nat /\ MaxProjects \in Nat /\ CascadeDepth \in Nat
  /\ NonAdminCanCreateProject \in BOOLEAN

VARIABLES store,      \* [rows |-> id -> row, next |-> the next id]
          req,        \* client -> the request in flight
          count       \* requests begun

vars == <<store, req, count>>

Idle == [op |-> "idle"]

-----------------------------------------------------------------------------
(* Roles and what they allow. *)

rolePermissions ==
  [owner |-> {"run", "resources", "update", "users"}, manager |-> {"run", "resources"},
   task_runner |-> {"run"}, guest |-> {}]
Roles == DOMAIN rolePermissions

Member(s, p, u) == {m \in InProject(s, "member", p) : s.rows[m].data.user = u}
RoleOf(s, p, u) ==
  IF Member(s, p, u) = {} THEN "none" ELSE s.rows[CHOOSE m \in Member(s, p, u) : TRUE].data.role
GetPermissions(role) == IF role \in Roles THEN rolePermissions[role] ELSE {}
Owners(s, p) == {m \in InProject(s, "member", p) : s.rows[m].data.role = "owner"}

(* The subrouters: the rights an operation asks for and the table of the row *)
(* its URL names ("none" when it names only the project).                    *)
ResourceOps ==
  [add_key |-> "none", remove_key |-> "key",
   add_repo |-> "none", update_repo |-> "repo", remove_repo |-> "repo",
   add_inv |-> "none", update_inv |-> "inv", remove_inv |-> "inv",
   add_env |-> "none", remove_env |-> "env",
   add_view |-> "none", update_view |-> "view", remove_view |-> "view",
   add_tpl |-> "none", add_sched |-> "none", add_integ |-> "none"]
ManagementOps ==
  [update_tpl |-> "tpl", remove_tpl |-> "tpl",
   set_default |-> "tpl", attach |-> "tpl", detach |-> "tpl"]
TriggerOps ==
  [update_sched |-> "sched", remove_sched |-> "sched",
   update_integ |-> "integ", remove_integ |-> "integ",
   add_matcher |-> "integ", remove_matcher |-> "integ",
   add_value |-> "integ", remove_value |-> "integ",
   add_alias |-> "integ", add_project_alias |-> "none", remove_alias |-> "none"]
ProjectOps == [delete_project |-> "none", leave |-> "none",
               add_user |-> "none", update_user |-> "member", remove_user |-> "member"]
ApiOps == ResourceOps @@ ManagementOps @@ TriggerOps @@ ProjectOps

Requires(op) ==
  CASE op \notin DOMAIN ProjectOps -> {"resources"}
    [] op = "delete_project" -> {"update"}
    [] op = "leave" -> {}
    [] OTHER -> {"users"}

(* The project, the author's membership unless an administrator, the rights. *)
ProjectMiddleware(s, u, p) ==
  p \in Of(s, "project") /\ (u \in Admins \/ Member(s, p, u) # {})
GetMustCanMiddleware(s, u, p, op) ==
  u \in Admins \/ Requires(op) \subseteq GetPermissions(RoleOf(s, p, u))

-----------------------------------------------------------------------------
(* Statements of the store that take several tables. *)

EnvsOf(s, t) == {s.rows[e].ref.env : e \in {e \in Of(s, "tplenv") : s.rows[e].ref.tpl = t}}
VaultsOf(s, t) == {s.rows[v].ref.key : v \in {v \in Of(s, "vault") : s.rows[v].ref.tpl = t}}

InsertAll(s, rs) ==     \* one INSERT after the other, up to the first that fails
  LET f[n \in 0..Len(rs)] ==
        IF n = 0 THEN [store |-> s, ok |-> TRUE]
        ELSE LET prev == f[n - 1]
                 ok   == prev.ok /\ Refers(prev.store, rs[n])
             IN [store |-> IF ok THEN insert(prev.store, rs[n]) ELSE prev.store, ok |-> ok]
  IN f[Len(rs)].store

Ascending(S) == CHOOSE q \in [1..Cardinality(S) -> S] : \A m, n \in DOMAIN q : m < n => q[m] < q[n]

\* Mutant: the vaults the request keeps are removed with the others.
UpdateTemplateVaultsAnew(s, p, t, keys) ==
  InsertAll(delete(s, {v \in Of(s, "vault") : s.rows[v].ref.tpl = t}),
    LET new == keys \ VaultsOf(s, t)
    IN [n \in 1..Cardinality(new) |-> Row("vault", p, [tpl |-> t, key |-> Ascending(new)[n]], "")])

UpdateTemplateVaults(s, p, t, keys) ==
  LET kept == {v \in Of(s, "vault") : s.rows[v].ref.tpl = t /\ s.rows[v].ref.key \notin keys}
      new  == {k \in keys \ VaultsOf(s, t) : k \in DOMAIN s.rows}
  IN InsertAll(delete(s, kept),
       [n \in 1..Cardinality(new) |-> Row("vault", p, [tpl |-> t, key |-> Ascending(new)[n]], "")])

UpdateTemplateEnvironments(s, p, t, envs) ==
  InsertAll(delete(s, {e \in Of(s, "tplenv") : s.rows[e].ref.tpl = t}),
    [n \in 1..Cardinality(envs) |-> Row("tplenv", p, [tpl |-> t, env |-> Ascending(envs)[n]], "")])

\* Mutant: any application may do without an inventory.
ValidateNothing(r) == TRUE

Validate(r) == r.data = "ansible" => r.ref.inv # None

CreateTemplate(s, r, envs) ==
  IF ~Validate(r) \/ ~Refers(s, r) THEN s
  ELSE UpdateTemplateEnvironments(insert(s, r), r.project, s.next, envs)

UpdateTemplate(s, t, r, keys, envs) ==
  IF ~Validate(r) \/ ~Refers(s, r) \/ t \notin DOMAIN s.rows THEN s
  ELSE UpdateTemplateEnvironments(UpdateTemplateVaults(update(s, t, r), r.project, t, keys),
                                  r.project, t, envs)

(* A schedule or an integration, with parameters of its own or without. *)
CreateWithParams(s, r, inv) ==
  IF inv = None THEN insert(s, r)
  ELSE LET s1 == insert(s, Row("params", r.project, [inv |-> inv], ""))
       IN IF Inserted(s, s1) THEN insert(s1, [r EXCEPT !.ref.params = s.next]) ELSE s

UpdateWithParams(s, i, r, inv) ==
  LET curr == s.rows[i].ref.params
      s1 == IF curr = None THEN insert(s, Row("params", r.project, [inv |-> inv], ""))
            ELSE update(s, curr, Row("params", r.project, [inv |-> inv], ""))
  IN IF inv = None THEN update(s, i, r)
     ELSE update(s1, i, [r EXCEPT !.ref.params = IF curr = None THEN s.next ELSE curr])

DeleteWithParams(s, k, p, i) ==
  LET s1 == deleteObject(s, k, p, i)
  IN IF i \notin InProject(s, k, p) \/ i \in DOMAIN s1.rows \/ s.rows[i].ref.params = None THEN s1
     ELSE deleteObject(s1, "params", p, s.rows[i].ref.params)

CreateSchedule(s, p, t, rp, iv) == CreateWithParams(s, Row("sched", p, [tpl |-> t, repo |-> rp], ""), iv)
CreateIntegration(s, p, t, k, iv) == CreateWithParams(s, Row("integ", p, [tpl |-> t, secret |-> k], ""), iv)
DeleteSchedule(s, p, i) == DeleteWithParams(s, "sched", p, i)
DeleteIntegration(s, p, i) == DeleteWithParams(s, "integ", p, i)

\* Mutant: keys before the repositories that use them.
DeleteOrderKeysFirst == <<"tpl", "member", "key", "repo", "inv">>

(* The tables the removal of a project empties one by one, before its row. *)
DeleteOrder == <<"tpl", "member", "repo", "inv", "key">>

(* The transaction that removes a project: all its statements or none. *)
DeleteProjectRows(s, p) ==
  LET unlinked == [s EXCEPT !.rows = [i \in DOMAIN @ |->
        IF @[i].kind = "tpl" /\ @[i].project = p THEN [@[i] EXCEPT !.ref.build = None] ELSE @[i]]]
      f[n \in 0..Len(DeleteOrder)] ==
        IF n = 0 THEN <<unlinked, TRUE>>
        ELSE LET prev == f[n - 1]
                 D == InProject(prev[1], DeleteOrder[n], p)
             IN <<delete(prev[1], D), prev[2] /\ ~InUse(prev[1], D)>>
      last == f[Len(DeleteOrder)]
      left == {i \in DOMAIN last[1].rows : last[1].rows[i].project = p}
  IN IF last[2] /\ ~InUse(last[1], left) THEN delete(last[1], left) ELSE s

-----------------------------------------------------------------------------
(* A new project, with its demo content or without. *)

NewProject(s, u) ==
  LET p == s.next
      s1 == [rows |-> (p :> [kind |-> "project", project |-> p, data |-> "", ref |-> <<>>]) @@ s.rows,
             next |-> p + 1]
  IN InsertAll(s1, <<Row("member", p, <<>>, [user |-> u, role |-> "owner"]),
                     Row("key", p, <<>>, ""), Row("view", p, <<>>, "")>>)

(* One row for each shape of reference the demo has: its views, inventories *)
(* and templates that differ only in name and text are one.                 *)
createDemoProject(s, p, noneKey) ==
  LET n == s.next      \* the view, the vault key, the repository, two inventories, ...
  IN InsertAll(s, <<
       Row("view", p, <<>>, ""), Row("key", p, <<>>, ""),
       Row("repo", p, [key |-> noneKey], ""),
       Row("inv", p, [key |-> noneKey], "static"), Row("inv", p, [key |-> noneKey], "static"),
       Row("tpl", p, [inv |-> n + 3, repo |-> n + 2, view |-> n], "ansible"),
       Row("tpl", p, [inv |-> n + 4, repo |-> n + 2, view |-> n, build |-> n + 5], "ansible"),
       Row("vault", p, [tpl |-> n + 6, key |-> n + 1], ""),
       Row("tpl", p, [repo |-> n + 2, view |-> n, build |-> n + 5], "tofu")>>)

-----------------------------------------------------------------------------
(* A request: its middleware, then its handler. *)

(* The rows an URL may name: the middleware of a subrouter refuses the others. *)
KeyMiddleware(p) == InProject(store, "key", p)
RepositoryMiddleware(p) == InProject(store, "repo", p)
InventoryMiddleware(p) == InProject(store, "inv", p)
EnvironmentMiddleware(p) == InProject(store, "env", p)
TemplatesMiddleware(p) == InProject(store, "tpl", p)
SchedulesMiddleware(p) == InProject(store, "sched", p)
IntegrationMiddleware(p) == InProject(store, "integ", p)
ViewMiddleware(p) == InProject(store, "view", p)
UserMiddleware(p) == InProject(store, "member", p)
Named(k, p) ==
  CASE k = "none" -> {None}
    [] k = "key" -> KeyMiddleware(p) [] k = "repo" -> RepositoryMiddleware(p)
    [] k = "inv" -> InventoryMiddleware(p) [] k = "env" -> EnvironmentMiddleware(p)
    [] k = "tpl" -> TemplatesMiddleware(p) [] k = "sched" -> SchedulesMiddleware(p)
    [] k = "integ" -> IntegrationMiddleware(p) [] k = "view" -> ViewMiddleware(p)
    [] k = "member" -> UserMiddleware(p)

(* A template is loaded with its environments and its vaults. *)
FillTemplate(op, t) ==
  IF ApiOps[op] = "tpl" THEN [envs |-> EnvsOf(store, t), keys |-> VaultsOf(store, t)]
  ELSE [envs |-> {}, keys |-> {}]

Finish(c) == req' = [req EXCEPT ![c] = Idle] /\ UNCHANGED count

Begin(c, u, op, p) ==
  /\ req[c] = Idle /\ count < MaxRequests
  /\ ProjectMiddleware(store, u, p) /\ GetMustCanMiddleware(store, u, p, op)
  /\ \E i \in Named(ApiOps[op], p),
        j \in Named(IF op \in {"set_default", "attach", "detach"} THEN "inv" ELSE "none", p) :
       req' = [req EXCEPT ![c] =
         [op |-> op, project |-> p, i |-> i, j |-> j,
          author |-> IF op \in DOMAIN ProjectOps THEN [user |-> u, role |-> RoleOf(store, p, u)] ELSE None,
          row |-> IF i = None THEN None ELSE store.rows[i],
          inv |-> IF j = None THEN None ELSE store.rows[j],
          filled |-> FillTemplate(op, i)]]
  /\ count' = count + 1
  /\ UNCHANGED store

(* The handler of client c's request leaves the store s. *)
Handle(c, s) == store' = s /\ Finish(c)

AddProject ==
  /\ count < MaxRequests /\ "add_project" \in Ops /\ Cardinality(Of(store, "project")) < MaxProjects
  /\ \E u \in Users, demo \in BOOLEAN :
       /\ u \in Admins \/ NonAdminCanCreateProject
       /\ LET s == NewProject(store, u)  \* its key is the row after its owner
          IN store' = IF demo THEN createDemoProject(s, store.next, store.next + 2) ELSE s
  /\ count' = count + 1 /\ UNCHANGED req

DeleteProject(c) == Handle(c, DeleteProjectRows(store, req[c].project))

-----------------------------------------------------------------------------
(* Members. *)

AddUser(c) ==
  \E u \in Users, role \in Roles :
    LET p == req[c].project
    IN Handle(c,
         IF Member(store, p, u) # {} \/ p \notin DOMAIN store.rows THEN store
         ELSE insert(store, Row("member", p, <<>>, [user |-> u, role |-> role])))

UpdateUser(c) ==
  LET r == req[c] IN
  \E role \in Roles :
    Handle(c,
      IF r.author.user \notin Admins /\ r.row.data.user = r.author.user /\ r.author.role = "owner" THEN store
      ELSE update(store, r.i, [r.row EXCEPT !.data.role = role]))

removeUser(r, target) ==
  IF r.author.user \notin Admins /\ target = r.author.user /\ r.author.role = "owner" THEN store
  ELSE delete(store, Member(store, r.project, target))
LeftProject(c) == Handle(c, removeUser(req[c], req[c].author.user))
RemoveUser(c) == Handle(c, removeUser(req[c], req[c].row.data.user))

-----------------------------------------------------------------------------
(* Keys, repositories, inventories, environments and views. *)

InProjectOrNone(k, p) == InProject(store, k, p) \union {None}
Alive(c, s) == IF req[c].project \in DOMAIN store.rows THEN s ELSE store

AddKey(c) == Handle(c, Alive(c, insert(store, Row("key", req[c].project, <<>>, ""))))
RemoveKey(c) == Handle(c, deleteObject(store, "key", req[c].project, req[c].i))

ValidateRepository(r) == r.ref.key \in InProject(store, "key", r.project)
AddRepository(c) ==
  \E k \in Of(store, "key") :
    LET r == Row("repo", req[c].project, [key |-> k], "")
    IN Handle(c, IF ValidateRepository(r) THEN insert(store, r) ELSE store)
UpdateRepository(c) ==
  \E k \in Of(store, "key") :
    LET r == [req[c].row EXCEPT !.ref.key = k]
    IN Handle(c, IF ValidateRepository(r) THEN update(store, req[c].i, r) ELSE store)
RemoveRepository(c) == Handle(c, deleteObject(store, "repo", req[c].project, req[c].i))

ValidateInventory(r) ==
  /\ {r.ref.key, r.ref.become} \subseteq InProjectOrNone("key", r.project)
  /\ r.ref.tpl \in InProjectOrNone("tpl", r.project)
AddInventory(c) ==
  \E k, b \in Of(store, "key") \union {None}, rp \in Of(store, "repo") \union {None},
     type \in {"static", "tofu-workspace"} :
    LET r == Row("inv", req[c].project, [key |-> k, become |-> b, repo |-> rp], type)
    IN Handle(c, IF ValidateInventory(r) THEN Alive(c, insert(store, r)) ELSE store)
UpdateInventory(c) ==
  \E k \in Of(store, "key") \union {None}, t \in Of(store, "tpl") \union {None},
     type \in {"static", "tofu-workspace"} :
    LET r == [req[c].row EXCEPT !.ref.key = k, !.ref.tpl = t, !.data = type]
    IN Handle(c, IF ValidateInventory(r) THEN update(store, req[c].i, r) ELSE store)
RemoveInventory(c) == Handle(c, deleteObject(store, "inv", req[c].project, req[c].i))

AddEnvironment(c) == Handle(c, Alive(c, insert(store, Row("env", req[c].project, <<>>, ""))))
RemoveEnvironment(c) == Handle(c, deleteObject(store, "env", req[c].project, req[c].i))

AddView(c) == Handle(c, Alive(c, insert(store, Row("view", req[c].project, <<>>, ""))))
UpdateView(c) ==     \* the project is taken from the body as it is
  \E p \in Of(store, "project") :
    Handle(c, update(store, req[c].i, [req[c].row EXCEPT !.project = p]))
RemoveView(c) == Handle(c, deleteObject(store, "view", req[c].project, req[c].i))

-----------------------------------------------------------------------------
(* Templates. *)

HasInventoryType(app, type) ==
  IF app = "tofu" THEN type = "tofu-workspace" ELSE type = "static"

(* A Terraform template gets a workspace: a new one, or the one it names. *)
AddTemplate(c) ==
  LET p == req[c].project IN
  \E app \in {"ansible", "tofu"}, rp \in Of(store, "repo"), iv \in Of(store, "inv") \union {None},
     b \in Of(store, "tpl") \union {None}, envs \in {{}, Of(store, "env")} :
    LET r  == Row("tpl", p, [repo |-> rp, inv |-> iv, build |-> b], app)
        t  == store.next
        s1 == CreateTemplate(store, r, envs)
        s2 == IF ~Inserted(store, s1) \/ app # "tofu" THEN s1
              ELSE IF iv = None
              THEN UpdateTemplate(insert(s1, Row("inv", p, [tpl |-> t], "tofu-workspace")), t,
                                  [r EXCEPT !.ref.inv = s1.next], {}, envs)
              ELSE IF iv \notin InProject(store, "inv", p) THEN s1
              ELSE update(s1, iv, [s1.rows[iv] EXCEPT !.ref.tpl = t])
    IN Handle(c, Alive(c, s2))

(* The body replaces the row, the vaults and the environments. *)
UpdateTemplateHandler(c) ==
  \E rp \in Of(store, "repo"), iv \in Of(store, "inv") \union {None},
     b \in Of(store, "tpl") \union {None}, envs \in {{}, Of(store, "env")},
     keys \in {{}, Of(store, "key")} :
    Handle(c,
      UpdateTemplate(store, req[c].i,
        [req[c].row EXCEPT !.ref.repo = rp, !.ref.inv = iv, !.ref.build = b], keys, envs))

RemoveTemplate(c) ==
  Handle(c, delete(store, {req[c].i} \intersect InProject(store, "tpl", req[c].project)))

(* These three write back the row the middleware loaded. *)
SetTemplateInventory(c) ==
  LET r == req[c] IN
  Handle(c,
    IF \/ ~HasInventoryType(r.row.data, r.inv.data)
       \/ r.row.data = "tofu" /\ r.inv.ref.tpl # r.i
    THEN store
    ELSE UpdateTemplate(store, r.i, [r.row EXCEPT !.ref.inv = r.j], r.filled.keys, r.filled.envs))
AttachInventory(c) ==
  LET r == req[c] IN
  Handle(c,
    IF r.inv.ref.tpl # None \/ ~HasInventoryType(r.row.data, r.inv.data) THEN store
    ELSE update(store, r.j, [r.inv EXCEPT !.ref.tpl = r.i]))
DetachInventory(c) ==
  LET r == req[c] IN
  Handle(c,
    IF r.inv.ref.tpl # r.i THEN store ELSE update(store, r.j, [r.inv EXCEPT !.ref.tpl = None]))

-----------------------------------------------------------------------------
(* Schedules and integrations. *)

AddSchedule(c) ==
  \E t \in Of(store, "tpl"), rp \in Of(store, "repo") \union {None}, iv \in Of(store, "inv") \union {None} :
    Handle(c,
      Alive(c, CreateSchedule(store, req[c].project, t, rp, iv)))
UpdateSchedule(c) ==
  \E t \in Of(store, "tpl"), iv \in Of(store, "inv") \union {None} :
    Handle(c,
      IF req[c].i \notin DOMAIN store.rows THEN store
      ELSE UpdateWithParams(store, req[c].i,
             [req[c].row EXCEPT !.ref.tpl = t, !.ref.params = None], iv))
RemoveSchedule(c) == Handle(c, DeleteSchedule(store, req[c].project, req[c].i))

AddIntegration(c) ==
  \E t \in Of(store, "tpl"), k \in Of(store, "key") \union {None}, iv \in Of(store, "inv") \union {None} :
    Handle(c,
      Alive(c, CreateIntegration(store, req[c].project, t, k, iv)))
UpdateIntegration(c) ==
  \E t \in Of(store, "tpl"), iv \in Of(store, "inv") \union {None} :
    Handle(c,
      IF req[c].i \notin DOMAIN store.rows THEN store
      ELSE UpdateWithParams(store, req[c].i,
             [req[c].row EXCEPT !.ref.tpl = t, !.ref.params = None], iv))
RemoveIntegration(c) == Handle(c, DeleteIntegration(store, req[c].project, req[c].i))

(* Parts of an integration, scoped by the integration and its project. *)
Owned(c) == req[c].i \in InProject(store, "integ", req[c].project)
Part(c, k) == {m \in Of(store, k) : store.rows[m].ref.integ = req[c].i}
AddPart(c, k) ==
  IF Owned(c) THEN insert(store, Row(k, req[c].project, [integ |-> req[c].i], "")) ELSE store
AddIntegrationMatcher(c) == Handle(c, AddPart(c, "matcher"))
AddIntegrationExtractValue(c) == Handle(c, AddPart(c, "value"))
AddIntegrationAlias(c) ==    \* of the integration in the URL, or of the project
  Handle(c, Alive(c, insert(store, Row("alias", req[c].project, [integ |-> req[c].i], ""))))
DeleteIntegrationMatcher(c) ==
  \E m \in Part(c, "matcher") \union {None} :
    Handle(c, IF Owned(c) THEN delete(store, {m}) ELSE store)
DeleteIntegrationExtractValue(c) ==
  \E m \in Part(c, "value") \union {None} :
    Handle(c, IF Owned(c) THEN delete(store, {m}) ELSE store)
RemoveIntegrationAlias(c) ==
  \E a \in Of(store, "alias") \union {None} :
    Handle(c, deleteObject(store, "alias", req[c].project, a))

-----------------------------------------------------------------------------
(* A project with the demo content and one row of every other kind, and an   *)
(* empty project; both made by the operations above.                         *)

CONSTANTS FirstOwner, SecondOwner

Init ==
  LET s1 == createDemoProject(NewProject([rows |-> <<>>, next |-> 1], FirstOwner), 1, 3)
      Made(k) == CHOOSE i \in Of(s1, k) : \A j \in Of(s1, k) : i <= j
      n  == s1.next
      s2 == InsertAll(s1, <<Row("member", 1, <<>>, [user |-> SecondOwner, role |-> "owner"]),
                            Row("env", 1, <<>>, ""), Row("env", 1, <<>>, "")>>)
      s3 == UpdateTemplateEnvironments(s2, 1, Made("tpl"), {n + 1, n + 2})
      s4 == CreateSchedule(s3, 1, Made("tpl"), Made("repo"), Made("inv"))
      s5 == CreateIntegration(s4, 1, Made("tpl"), Made("key"), Made("inv"))
      g  == s5.next - 1
      s6 == InsertAll(s5, <<Row("matcher", 1, [integ |-> g], ""), Row("value", 1, [integ |-> g], ""),
                            Row("alias", 1, [integ |-> g], "")>>)
  IN /\ store = NewProject(s6, SecondOwner)
     /\ req = [c \in Clients |-> Idle]
     /\ count = 0

(* The routes. *)
Handlers(c) ==
  \/ req[c].op = "delete_project" /\ DeleteProject(c)
  \/ req[c].op = "add_user" /\ AddUser(c)
  \/ req[c].op = "update_user" /\ UpdateUser(c)
  \/ req[c].op = "leave" /\ LeftProject(c)
  \/ req[c].op = "remove_user" /\ RemoveUser(c)
  \/ req[c].op = "add_key" /\ AddKey(c)
  \/ req[c].op = "remove_key" /\ RemoveKey(c)
  \/ req[c].op = "add_repo" /\ AddRepository(c)
  \/ req[c].op = "update_repo" /\ UpdateRepository(c)
  \/ req[c].op = "remove_repo" /\ RemoveRepository(c)
  \/ req[c].op = "add_inv" /\ AddInventory(c)
  \/ req[c].op = "update_inv" /\ UpdateInventory(c)
  \/ req[c].op = "remove_inv" /\ RemoveInventory(c)
  \/ req[c].op = "add_env" /\ AddEnvironment(c)
  \/ req[c].op = "remove_env" /\ RemoveEnvironment(c)
  \/ req[c].op = "add_view" /\ AddView(c)
  \/ req[c].op = "update_view" /\ UpdateView(c)
  \/ req[c].op = "remove_view" /\ RemoveView(c)
  \/ req[c].op = "add_tpl" /\ AddTemplate(c)
  \/ req[c].op = "update_tpl" /\ UpdateTemplateHandler(c)
  \/ req[c].op = "remove_tpl" /\ RemoveTemplate(c)
  \/ req[c].op = "set_default" /\ SetTemplateInventory(c)
  \/ req[c].op = "attach" /\ AttachInventory(c)
  \/ req[c].op = "detach" /\ DetachInventory(c)
  \/ req[c].op = "add_sched" /\ AddSchedule(c)
  \/ req[c].op = "update_sched" /\ UpdateSchedule(c)
  \/ req[c].op = "remove_sched" /\ RemoveSchedule(c)
  \/ req[c].op = "add_integ" /\ AddIntegration(c)
  \/ req[c].op = "update_integ" /\ UpdateIntegration(c)
  \/ req[c].op = "remove_integ" /\ RemoveIntegration(c)
  \/ req[c].op = "add_matcher" /\ AddIntegrationMatcher(c)
  \/ req[c].op = "add_value" /\ AddIntegrationExtractValue(c)
  \/ req[c].op \in {"add_alias", "add_project_alias"} /\ AddIntegrationAlias(c)
  \/ req[c].op = "remove_matcher" /\ DeleteIntegrationMatcher(c)
  \/ req[c].op = "remove_value" /\ DeleteIntegrationExtractValue(c)
  \/ req[c].op = "remove_alias" /\ RemoveIntegrationAlias(c)

Next ==
  \/ \E c \in Clients, u \in Users, op \in Ops \intersect DOMAIN ApiOps, p \in Of(store, "project") :
       Begin(c, u, op, p)
  \/ AddProject
  \/ \E c \in Clients : Handlers(c)

Spec == Init /\ [][Next]_vars

-----------------------------------------------------------------------------
(* Properties. *)

Ends(c, op) == req[c].op = op /\ req'[c] = Idle

(* No row of another project refers to a row of p. *)
Closed(s, p) ==
  \A i \in DOMAIN s.rows : \A f \in DOMAIN s.rows[i].ref :
    LET j == s.rows[i].ref[f]
    IN j # None => (s.rows[i].project = p <=> s.rows[j].project = p)

(* Every row has the columns of its table, and every reference names a row. *)
TypeOK ==
  /\ \A i \in DOMAIN store.rows :
       /\ i \in 1..(store.next - 1)
       /\ store.rows[i].kind \in Kinds
       /\ DOMAIN store.rows[i].ref = DOMAIN Schema[store.rows[i].kind]
       /\ Refers(store, store.rows[i])
  /\ count \in 0..MaxRequests
  /\ \A c \in Clients : req[c] = Idle \/ req[c].op \in Ops

(* Whatever else is removed meanwhile, an Ansible template keeps what a run *)
(* of it needs: its inventory, its repository and the repository's key.     *)
AnsibleReady ==
  \A t \in Of(store, "tpl") : store.rows[t].data = "ansible" =>
    LET r == store.rows[t].ref
    IN r.inv # None /\ r.repo # None /\ store.rows[r.repo].ref.key # None

(* Foreign keys hold, and templates can run, whatever is removed meanwhile.  *)
StoreSound == TypeOK /\ AnsibleReady

(* Removing a project whose rows nobody outside refers to succeeds as a      *)
(* whole: the order of its statements satisfies every foreign key.           *)
DeleteLeavesNothing ==
  \A c \in Clients : Ends(c, "delete_project") /\ Closed(store, req[c].project) =>
    \A i \in DOMAIN store'.rows : store'.rows[i].project # req[c].project

(* Choosing the default inventory of a template whose row, environments and  *)
(* vaults nobody has touched since the request was read changes nothing but  *)
(* the inventory, although the handler writes the whole template back.       *)
SetDefaultKeeps ==
  \A c \in Clients :
    LET t == req[c].i IN
    Ends(c, "set_default") /\ t \in DOMAIN store.rows /\ store.rows[t] = req[c].row
      /\ EnvsOf(store, t) = req[c].filled.envs /\ VaultsOf(store, t) = req[c].filled.keys
    => /\ EnvsOf(store', t) = EnvsOf(store, t) /\ VaultsOf(store', t) = VaultsOf(store, t)
       /\ [store'.rows[t] EXCEPT !.ref.inv = None] = [store.rows[t] EXCEPT !.ref.inv = None]

(* When a removal is refused in such a project, the references the API then  *)
(* shows are not empty.                                                      *)
RefusalExplained ==
  \A c \in Clients, op \in {"remove_key", "remove_repo", "remove_tpl"} :
    /\ Ends(c, op) /\ req[c].i \in DOMAIN store'.rows
    /\ Closed(store, req[c].project)
    => getObjectRefs(store, req[c].i) # {}

(* Removals in a closed project succeed as a whole or name what is in use.   *)
RemovalsSound == [][DeleteLeavesNothing /\ RefusalExplained]_vars

(* A project loses its last owner only through an administrator, or through *)
(* a request whose author was not an owner when it was read or is not one    *)
(* any more: an owner can neither leave nor step down.                       *)
LastOwner ==
  \A p \in Of(store, "project") :
    Owners(store, p) # {} /\ p \in Of(store, "project")' /\ Owners(store', p) = {} =>
      \E c \in Clients : /\ req[c] # Idle /\ req'[c] = Idle
                         /\ req[c].op \in DOMAIN ProjectOps
                         /\ \/ req[c].author.user \in Admins
                            \/ req[c].author.role # "owner"
                            \/ RoleOf(store, p, req[c].author.user) # "owner"

(* A request writes back what it read earlier: it neither damages a template *)
(* nobody touched meanwhile nor takes a project its last owner.              *)
StaleRequestsSafe == [][SetDefaultKeeps /\ LastOwner]_vars
=============================================================================
