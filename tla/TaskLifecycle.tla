--------------------------- MODULE TaskLifecycle ---------------------------
(***************************************************************************)
(* What the task pool promises of its tasks, whatever executes them: a     *)
(* task is added once, an autorun child only after its build has started,  *)
(* tasks start while the pool has room, and a finished task stays so.      *)
(***************************************************************************)
EXTENDS Naturals, FiniteSets

CONSTANTS
    Tasks, NoTask,
    Parent,         \* [Tasks -> Tasks \cup {NoTask}]
    Capacity,       \* tasks that may be live at once, 0 for no limit
    Requeues        \* a live task may be put back

VARIABLE phase      \* [Tasks -> {"new", "added", "live", "done"}]

Live == {t \in Tasks : phase[t] = "live"}

Init == phase = [t \in Tasks |-> "new"]

Move(t, from, to) == phase[t] = from /\ phase' = [phase EXCEPT ![t] = to]

Add(t) ==
    /\ Parent[t] # NoTask => phase[Parent[t]] \in {"live", "done"}
    /\ Move(t, "new", "added")

Start(t) ==
    /\ Capacity = 0 \/ Cardinality(Live) < Capacity
    /\ Move(t, "added", "live")

Requeue(t) == Requeues /\ Move(t, "live", "added")

Finish(t) == Move(t, "live", "done")

Next == \E t \in Tasks : Add(t) \/ Start(t) \/ Requeue(t) \/ Finish(t)

Spec == Init /\ [][Next]_phase
=============================================================================
