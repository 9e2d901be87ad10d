---------------------------- MODULE Integrations ----------------------------
(* ReceiveIntegration: a call of a webhook alias runs the integrations it    *)
(* stands for, one after the other, in one request.                          *)
EXTENDS Integers, Sequences, SequencesExt

VARIABLES
  alias,     \* the alias called: of the project, or of one integration
  request,   \* headers, JSON body and credentials
  found,     \* the integrations of the project, in the order of their names
  index,     \* position of the loop
  reply,     \* "open", then "done", "refused" or "panic"
  started    \* tasks asked for: [integ, env, params, ok]

integrationVars == <<alias, request, found, index, reply, started>>

(* A text is the set of the words in it. *)
Empty == {}
NilText == {"nil"}

(* What a key of the request holds; gojsonq gives nil for an absent one. *)
Present(source, key) == key \in DOMAIN request[source]
Header(key) == IF Present("header", key) THEN request.header[key] ELSE Empty
Rendered(key) == IF Present("json", key) THEN request.json[key] ELSE NilText

MatchCompare(value, method, expected) ==
  CASE method = "equals" -> value = expected
    [] method = "unequals" -> value # expected
    [] method = "contains" -> expected \subseteq value
    [] OTHER -> FALSE

Match(m) ==
  CASE m.type = "header" -> MatchCompare(Header(m.key), m.method, m.value)
    [] m.type = "json" -> MatchCompare(Rendered(m.key), m.method, m.value)
    [] m.type = "string" -> MatchCompare(request.body, m.method, m.value)
    [] OTHER -> FALSE

\* Mutant: only the last matcher counts.
LastMatchCounts(ms) == FoldLeft(LAMBDA acc, m : Match(m), FALSE, ms)

(* The loop over the matchers, which ends at the first that does not match. *)
Matched(ms) ==
  LET go[n \in 0..Len(ms)] == IF n = 0 THEN [more |-> TRUE, matched |-> FALSE]
                              ELSE IF ~go[n - 1].more THEN go[n - 1]
                              ELSE [more |-> Match(ms[n]), matched |-> Match(ms[n])]
  IN go[Len(ms)].matched

Authenticated(i) ==
  \/ i.auth = "none"
  \/ i.auth \in {"github", "bitbucket", "hmac", "token", "basic"} /\ request.secret = i.secret

(* GetIntegrationsByAlias *)
Searched == SelectSeq(found, LAMBDA i : i.searchable)
ByAlias == IF alias = "project" THEN Searched ELSE SelectSeq(found, LAMBDA i : i.id = alias /\ ~i.searchable)

(* Extract: one map for all values, so the last of a variable stays; a header  *)
(* always gives a value, a JSON key only when it is there.                     *)
Extracted(values) ==
  LET Put(f, x, v) == [y \in DOMAIN f \union {x} |-> IF y = x THEN v ELSE f[y]]
      Add(f, v) == CASE v.source = "header" -> Put(f, v.variable, Header(v.key))
                     [] v.source = "string" -> Put(f, v.variable, request.body)
                     [] v.source = "json" /\ Present("json", v.key) -> Put(f, v.variable, request.json[v.key])
                     [] OTHER -> f
  IN FoldLeft(Add, <<>>, values)

OfType(values, kind) == SelectSeq(values, LAMBDA v : v.kind = kind)
Over(f, g) == [x \in DOMAIN f \union DOMAIN g |-> IF x \in DOMAIN f THEN f[x] ELSE g[x]]

(* GetTaskDefinition; the stored parameters may have no map to write to. *)
BadEnvironment(i) == i.params = "bad"
NilParams(i) == i.params = "nil" /\ DOMAIN Extracted(OfType(i.values, "task")) # {}
Defaults(i) == IF i.params \in {"full", "nil"} THEN i.defaults ELSE <<>>
Definition(i, ok) ==
  [integ |-> i.id, ok |-> ok,
   env |-> Over(Extracted(OfType(i.values, "environment")), Defaults(i)),
   params |-> Extracted(OfType(i.values, "task"))]

-----------------------------------------------------------------------------
Receive ==
  /\ reply = "open" /\ index = 0
  /\ IF ByAlias = <<>> /\ alias # "project" THEN reply' = "refused" /\ UNCHANGED index
     ELSE index' = 1 /\ UNCHANGED reply
  /\ UNCHANGED <<alias, request, found, started>>

Runs(i) == Authenticated(i) /\ (alias # "project" \/ Matched(i.matchers))

(* One round of the loop; a secret that cannot be read ends the request. *)
Handle(i) ==
  /\ UNCHANGED <<alias, request, found>>
  /\ \/ i.unreadable /\ reply' = "refused" /\ UNCHANGED <<index, started>>
     \/ ~i.unreadable /\ (~Runs(i) \/ BadEnvironment(i)) /\ index' = index + 1 /\ UNCHANGED <<reply, started>>
     \/ /\ ~i.unreadable /\ Runs(i) /\ ~BadEnvironment(i)
        /\ IF NilParams(i) THEN reply' = "panic" /\ UNCHANGED <<index, started>>
           ELSE /\ \E ok \in BOOLEAN : started' = Append(started, Definition(i, ok))
                /\ index' = index + 1 /\ UNCHANGED reply

HandleNext == reply = "open" /\ index \in 1..Len(ByAlias) /\ Handle(ByAlias[index])

Reply ==
  /\ reply = "open" /\ index > Len(ByAlias)
  /\ reply' = "done"
  /\ UNCHANGED <<alias, request, found, index, started>>

IntegrationNext == Receive \/ HandleNext \/ Reply

-----------------------------------------------------------------------------
Breaks(i) == i.unreadable \/ (Runs(i) /\ NilParams(i))

(* A call runs exactly the integrations it is meant for: those of the alias, *)
(* in order, whose credentials it carries and, for a project's alias, which  *)
(* have matchers and match by all of them; up to the first one that ends the *)
(* request.                                                                  *)
RunsTheRightOnes ==
  reply # "open" =>
    LET meant == SelectSeq(found, LAMBDA i : IF alias = "project" THEN i.searchable ELSE i.id = alias /\ ~i.searchable)
        before == {n \in 1..Len(meant) : \A k \in 1..n : ~Breaks(meant[k])}
        goes(i) == /\ Authenticated(i) /\ i.params # "bad"
                   /\ alias # "project" \/ (i.matchers # <<>> /\ \A n \in 1..Len(i.matchers) : Match(i.matchers[n]))
        expected == SelectSeq([n \in 1..Len(meant) |-> [id |-> meant[n].id, go |-> n \in before /\ goes(meant[n])]],
                              LAMBDA x : x.go)
    IN [n \in 1..Len(started) |-> started[n].integ] = [n \in 1..Len(expected) |-> expected[n].id]

(* A variable of the task has the value of the last extractor that found one *)
(* and the stored default only if none did.                                  *)
ExtractedWins ==
  \A n \in 1..Len(started) :
    LET i == CHOOSE j \in Range(found) : j.id = started[n].integ
        finds(v, x) == v.kind = "environment" /\ v.variable = x /\ (v.source = "json" => Present("json", v.key))
        finders(x) == {k \in 1..Len(i.values) : finds(i.values[k], x)}
        value(v) == CASE v.source = "header" -> Header(v.key)
                      [] v.source = "string" -> request.body
                      [] v.source = "json" -> request.json[v.key]
    IN \A x \in DOMAIN started[n].env :
         started[n].env[x] = IF finders(x) = {} THEN i.defaults[x]
                             ELSE value(i.values[CHOOSE k \in finders(x) : \A l \in finders(x) : l <= k])

(* A call starts the tasks it is meant to, with the values it carries.       *)
CallSound == RunsTheRightOnes /\ ExtractedWins
=============================================================================
