------------------------------- MODULE Tables -------------------------------
(***************************************************************************)
(* The relational store behind the project resources: the tables, the      *)
(* foreign keys the migrations leave on SQLite, and what an insert, an      *)
(* update and a delete do under them.  A row keeps its kind, its project,   *)
(* the ids of the rows it refers to and the one attribute the properties    *)
(* tell apart; every other column is left out.                              *)
(***************************************************************************)
EXTENDS Integers, FiniteSets, TLC

CONSTANTS CascadeDepth    \* longest chain of ON DELETE CASCADE in the schema

None == 0

(* The referring columns of each table, with the clause of their foreign key. *)
Schema ==
  [project |-> <<>>,
   member  |-> <<>>,
   storage |-> <<>>,
   key     |-> [env |-> "cascade", storage |-> "cascade", source |-> "restrict"],
   repo    |-> [key |-> "restrict"],
   inv     |-> [key |-> "restrict", become |-> "restrict", tpl |-> "setnull", repo |-> "setnull"],
   env     |-> <<>>,
   view    |-> <<>>,
   tpl     |-> [inv |-> "restrict", repo |-> "restrict", build |-> "restrict", view |-> "setnull"],
   tplenv  |-> [tpl |-> "cascade", env |-> "cascade"],
   vault   |-> [tpl |-> "cascade", key |-> "cascade"],
   params  |-> [inv |-> "cascade"],
   sched   |-> [tpl |-> "cascade", repo |-> "restrict", params |-> "restrict"],
   integ   |-> [tpl |-> "cascade", secret |-> "setnull", params |-> "restrict"],
   matcher |-> [integ |-> "cascade"],
   value   |-> [integ |-> "cascade"],
   alias   |-> [integ |-> "cascade"]]

Kinds == DOMAIN Schema

(* A column that names no row, or that the kind does not have, is None. *)
Row(k, p, ref, data) ==
  [kind |-> k, project |-> p, data |-> data,
   ref |-> [f \in DOMAIN Schema[k] |-> IF f \in DOMAIN ref THEN ref[f] ELSE None]]

Of(s, k) == {i \in DOMAIN s.rows : s.rows[i].kind = k}
InProject(s, k, p) == {i \in Of(s, k) : s.rows[i].project = p}

(* Every reference names a row that is there: otherwise the statement fails. *)
Refers(s, r) == \A f \in DOMAIN r.ref : r.ref[f] = None \/ r.ref[f] \in DOMAIN s.rows

insert(s, r) ==
  IF Refers(s, r) THEN [rows |-> (s.next :> r) @@ s.rows, next |-> s.next + 1] ELSE s
Inserted(s, t) == t.next > s.next

(* UPDATE ... WHERE id = i: no row, no effect; a bad reference, an error. *)
update(s, i, r) ==
  IF i \in DOMAIN s.rows /\ Refers(s, r) THEN [s EXCEPT !.rows[i] = r] ELSE s

(* What a DELETE of the rows D takes along, ... *)
Taken(s, D) ==
  LET Owned(G) == {i \in DOMAIN s.rows : \E f \in DOMAIN s.rows[i].ref :
                     s.rows[i].ref[f] \in G /\ Schema[s.rows[i].kind][f] = "cascade"}
      gone[n \in 0..CascadeDepth] ==
        IF n = 0 THEN D ELSE LET G == gone[n - 1] IN G \union Owned(G)
  IN gone[CascadeDepth]
(* ... whether a row that stays forbids it, ... *)
Blocked(s, gone) ==
  \E i \in DOMAIN s.rows \ gone : \E f \in DOMAIN s.rows[i].ref :
    s.rows[i].ref[f] \in gone /\ Schema[s.rows[i].kind][f] = "restrict"
InUse(s, D) == LET gone == Taken(s, D) IN Blocked(s, gone)

(* ... and the store it leaves; refused, it leaves everything. *)
delete(s, D) ==
  LET gone == Taken(s, D)
      Unlinked(ref) == [f \in DOMAIN ref |-> IF ref[f] \in gone THEN None ELSE ref[f]]
  IN IF Blocked(s, gone) THEN s
     ELSE [s EXCEPT !.rows = [i \in DOMAIN @ \ gone |-> [@[i] EXCEPT !.ref = Unlinked(@)]]]

deleteObject(s, k, p, i) == delete(s, {i} \intersect InProject(s, k, p))

(* The referrers the API reports for a row: rows of the same project, found  *)
(* by the name of their column.  Tables it does not look at are not reported. *)
Reported ==
  [key  |-> {<<"repo", "key">>, <<"inv", "key">>, <<"inv", "become">>},
   repo |-> {<<"tpl", "repo">>, <<"inv", "repo">>, <<"sched", "repo">>},
   inv  |-> {<<"tpl", "inv">>},
   tpl  |-> {<<"inv", "tpl">>, <<"sched", "tpl">>, <<"tpl", "build">>}]

getObjectRefs(s, i) ==
  {j \in DOMAIN s.rows : /\ s.rows[j].project = s.rows[i].project
                         /\ \E e \in Reported[s.rows[i].kind] :
                              s.rows[j].kind = e[1] /\ s.rows[j].ref[e[2]] = i}
=============================================================================
