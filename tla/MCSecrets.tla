----------------------------- MODULE MCSecrets -----------------------------
(* Instances of Secrets for TLC.                                            *)
EXTENDS Secrets

MCUserKeys == {1, 2}
MCTasks == {3}
MCMaterials == {1, 2}
MCNames == {1, 4}

Bound(w, c, r, t, k) == [writes |-> w, commands |-> c, reloads |-> r, tasks |-> t, keys |-> k]
MCBudgets == {Bound(1, 2, 0, 0, 1), Bound(0, 2, 1, 0, 1), Bound(0, 1, 0, 1, 0), Bound(0, 0, 1, 1, 1), Bound(0, 3, 0, 0, 1)}
=============================================================================
