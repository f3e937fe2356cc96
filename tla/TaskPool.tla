------------------------------- MODULE TaskPool -------------------------------
(* What a pool of threads promises about the tasks it accepts: each is       *)
(* started once, in the order of acceptance, and done before the pool goes.  *)
EXTENDS Naturals

CONSTANT MaxTasks     \* bound: how many tasks are accepted

VARIABLES status,     \* of each task, in the order of acceptance
          destroyed   \* the pool is gone
vars == <<status, destroyed>>

Task == 1 .. MaxTasks

Init == status = [t \in Task |-> "none"] /\ destroyed = FALSE

Accept(t) == /\ ~destroyed /\ status[t] = "none"
             /\ \A u \in 1 .. t - 1 : status[u] # "none"
             /\ status' = [status EXCEPT ![t] = "queued"]
             /\ UNCHANGED destroyed

Start(t) == /\ status[t] = "queued"
            /\ \A u \in 1 .. t - 1 : status[u] # "queued"
            /\ status' = [status EXCEPT ![t] = "running"]
            /\ UNCHANGED destroyed

Finish(t) == /\ status[t] = "running"
             /\ status' = [status EXCEPT ![t] = "done"]
             /\ UNCHANGED destroyed

Destroy == /\ ~destroyed /\ \A t \in Task : status[t] \in {"none", "done"}
           /\ destroyed' = TRUE
           /\ UNCHANGED status

Next == Destroy \/ \E t \in Task : Accept(t) \/ Start(t) \/ Finish(t)

Spec == Init /\ [][Next]_vars
==============================================================================
