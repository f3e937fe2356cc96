------------------------------ MODULE ThreadPool ------------------------------
(* zerg::ThreadPool (include/zerg/tool/thread_pool.h): worker threads take   *)
(* tasks from a queue under a mutex and sleep on a condition variable while  *)
(* it is empty; the destructor stops and joins them.                         *)
(*                                                                           *)
(* A critical section is one step, as nothing is read or written outside it. *)
(* Sleeping, the notifications, which the code sends after it has released   *)
(* the mutex, and the body of a task are steps of their own.  A task may     *)
(* enqueue others; what it computes, or throws into its future, is not       *)
(* modelled.                                                                 *)
EXTENDS Integers, Sequences, FiniteSets

CONSTANTS Workers,    \* the pool's threads
          Clients,    \* the other threads that call enqueue
          MaxTasks    \* bound: how many tasks are accepted

ASSUME WorkersAssumption == Workers # {} /\ IsFiniteSet(Workers)
ASSUME ClientsAssumption == Clients \cap Workers = {} /\ IsFiniteSet(Clients)
ASSUME MaxTasksAssumption == MaxTasks \in Nat

VARIABLES tasks,      \* the queue, of the numbers of the tasks accepted
          stop,
          pc,         \* where each thread stands
          current,    \* the task a worker runs, 0 if none
          owner,      \* the destructor: "alive", "stopped", "notified", "destroyed"
          accepted,   \* history: how many tasks were accepted
          finished    \* history: the tasks that have run

vars == <<tasks, stop, pc, current, owner, accepted, finished>>

Threads == Workers \cup Clients
Task == 1 .. MaxTasks

Init == /\ tasks = <<>> /\ stop = FALSE
        /\ pc = [t \in Threads |-> IF t \in Workers THEN "lock" ELSE "idle"]
        /\ current = [w \in Workers |-> 0]
        /\ owner = "alive"
        /\ accepted = 0 /\ finished = {}

Sleeping == {w \in Workers : pc[w] = "sleep"}

------------------------------------------------------------------------------
(* The worker's loop.                                                        *)

\* The wait's predicate holds and there is a task: take it.
Take(w) ==
  /\ pc[w] = "lock" /\ tasks # <<>>
  /\ current' = [current EXCEPT ![w] = Head(tasks)]
  /\ tasks' = Tail(tasks)
  /\ pc' = [pc EXCEPT ![w] = "run"]
  /\ UNCHANGED <<stop, owner, accepted, finished>>

\* The predicate is false: release the mutex and sleep, in one step.
MutSleepLate(w) ==
  /\ pc[w] = "lock" /\ tasks = <<>>
  /\ pc' = [pc EXCEPT ![w] = "sleep"]
  /\ UNCHANGED <<tasks, stop, current, owner, accepted, finished>>
Sleep(w) ==
  /\ pc[w] = "lock" /\ tasks = <<>> /\ ~stop
  /\ pc' = [pc EXCEPT ![w] = "sleep"]
  /\ UNCHANGED <<tasks, stop, current, owner, accepted, finished>>

\* A spurious wake-up: the worker checks the predicate again.
Wake(w) ==
  /\ pc[w] = "sleep"
  /\ pc' = [pc EXCEPT ![w] = "lock"]
  /\ UNCHANGED <<tasks, stop, current, owner, accepted, finished>>

\* Stopped, and nothing left to run.
MutExitAtOnce(w) ==
  /\ pc[w] = "lock" /\ stop
  /\ pc' = [pc EXCEPT ![w] = "exit"]
  /\ UNCHANGED <<tasks, stop, current, owner, accepted, finished>>
Exit(w) ==
  /\ pc[w] = "lock" /\ stop /\ tasks = <<>>
  /\ pc' = [pc EXCEPT ![w] = "exit"]
  /\ UNCHANGED <<tasks, stop, current, owner, accepted, finished>>

\* task() returns; an exception has gone into the task's future.
MutFinishKeep(w) ==
  /\ pc[w] = "run"
  /\ finished' = finished \cup {current[w]}
  /\ pc' = [pc EXCEPT ![w] = "lock"]
  /\ UNCHANGED <<tasks, stop, current, owner, accepted>>
Finish(w) ==
  /\ pc[w] = "run"
  /\ finished' = finished \cup {current[w]}
  /\ current' = [current EXCEPT ![w] = 0]
  /\ pc' = [pc EXCEPT ![w] = "lock"]
  /\ UNCHANGED <<tasks, stop, owner, accepted>>

------------------------------------------------------------------------------
(* enqueue, called by a client or by the task a worker runs.                 *)

CanEnqueue(t) == pc[t] = IF t \in Workers THEN "run" ELSE "idle"

\* Under the mutex: throw if the pool is stopped, which changes nothing, or
\* else append the task.
Push(t) ==
  /\ CanEnqueue(t) /\ owner # "destroyed" /\ accepted < MaxTasks /\ ~stop
  /\ tasks' = Append(tasks, accepted + 1)
  /\ accepted' = accepted + 1
  /\ pc' = [pc EXCEPT ![t] = "notify"]
  /\ UNCHANGED <<stop, current, owner, finished>>

\* notify_one wakes one sleeping worker, if there is one.
MutNotifyNone(t) ==
  /\ pc[t] = "notify"
  /\ pc' = [pc EXCEPT ![t] = IF t \in Workers THEN "run" ELSE "idle"]
  /\ UNCHANGED <<tasks, stop, current, owner, accepted, finished>>
NotifyOne(t) ==
  /\ pc[t] = "notify"
  /\ LET back == [pc EXCEPT ![t] = IF t \in Workers THEN "run" ELSE "idle"]
     IN IF Sleeping = {} THEN pc' = back
        ELSE \E w \in Sleeping : pc' = [back EXCEPT ![w] = "lock"]
  /\ UNCHANGED <<tasks, stop, current, owner, accepted, finished>>

------------------------------------------------------------------------------
(* ~ThreadPool.  Its caller has made sure that no client is in enqueue.      *)

Stop ==
  /\ owner = "alive" /\ \A c \in Clients : pc[c] = "idle"
  /\ stop' = TRUE /\ owner' = "stopped"
  /\ pc' = [t \in Threads |-> IF t \in Clients THEN "gone" ELSE pc[t]]
  /\ UNCHANGED <<tasks, current, accepted, finished>>

MutNotifyAllOne ==
  /\ owner = "stopped"
  /\ owner' = "notified"
  /\ IF Sleeping = {} THEN UNCHANGED pc
     ELSE \E w \in Sleeping : pc' = [pc EXCEPT ![w] = "lock"]
  /\ UNCHANGED <<tasks, stop, current, accepted, finished>>
NotifyAll ==
  /\ owner = "stopped"
  /\ owner' = "notified"
  /\ pc' = [t \in Threads |-> IF t \in Sleeping THEN "lock" ELSE pc[t]]
  /\ UNCHANGED <<tasks, stop, current, accepted, finished>>

\* join returns for every worker, and the members are destroyed.
Join ==
  /\ owner = "notified" /\ \A w \in Workers : pc[w] = "exit"
  /\ owner' = "destroyed"
  /\ UNCHANGED <<tasks, stop, pc, current, accepted, finished>>

Destroyed == owner = "destroyed" /\ UNCHANGED vars

------------------------------------------------------------------------------
Work(w) == Take(w) \/ Sleep(w) \/ Exit(w)

Next == \/ \E w \in Workers : Work(w) \/ Wake(w) \/ Finish(w)
        \/ \E t \in Threads : Push(t) \/ NotifyOne(t)
        \/ Stop \/ NotifyAll \/ Join \/ Destroyed

Spec == Init /\ [][Next]_vars

\* Threads are scheduled, the mutex is acquired some time, tasks return.
\* Nobody has to enqueue, to wake up without cause or to destroy the pool.
Fairness == /\ \A w \in Workers : WF_vars(Work(w)) /\ WF_vars(Finish(w))
            /\ \A t \in Threads : WF_vars(NotifyOne(t))
            /\ WF_vars(NotifyAll) /\ WF_vars(Join)

FairSpec == Spec /\ Fairness

------------------------------------------------------------------------------
\* The variables have the types of the code, and a worker has a task exactly
\* while it runs it.
TypeOK == /\ tasks \in Seq(Task) /\ stop \in BOOLEAN
          /\ pc \in [Threads -> {"lock", "sleep", "run", "notify", "exit", "idle", "gone"}]
          /\ \A c \in Clients : pc[c] \in {"idle", "notify", "gone"}
          /\ \A w \in Workers : pc[w] \in {"lock", "sleep", "run", "notify", "exit"}
          /\ current \in [Workers -> Task \cup {0}]
          /\ \A w \in Workers : current[w] # 0 <=> pc[w] \in {"run", "notify"}
          /\ owner \in {"alive", "stopped", "notified", "destroyed"}
          /\ accepted \in 0 .. MaxTasks /\ finished \subseteq Task

Notifying == {t \in Threads : pc[t] = "notify"}
Awake == {w \in Workers : pc[w] = "lock"}

\* No wake-up is lost: while a worker sleeps, every queued task has a
\* notification still to be sent for it or a worker awake to take it.
NoLostWakeup ==
  Sleeping # {} => Len(tasks) <= Cardinality(Notifying) + Cardinality(Awake)

\* Once the destructor has notified, no worker sleeps or falls asleep again:
\* join cannot wait for a worker that nobody will wake.
NobodySleepsOn == owner \in {"notified", "destroyed"} => Sleeping = {}

Status(t) == IF t > accepted THEN "none"
             ELSE IF t \in finished THEN "done"
             ELSE IF \E w \in Workers : current[w] = t THEN "running"
             ELSE "queued"
Pool == INSTANCE TaskPool
          WITH status <- [t \in Task |-> Status(t)], destroyed <- owner = "destroyed"

\* The pool implements TaskPool: each task accepted is started once, in order,
\* and done before the destructor returns.
ImplementsTaskPool == Pool!Spec

\* Every task accepted is run, and a destructor once entered returns.
EveryTaskRuns == \A t \in Task : accepted >= t ~> t \in finished
DestructorReturns == owner = "stopped" ~> owner = "destroyed"

------------------------------------------------------------------------------
(* The inductive invariant.                                                  *)

\* The tasks before the queue: those that were taken from it.
Taken == 1 .. accepted - Len(tasks)

\* The queue is the last of the tasks accepted; each one taken is in the hands
\* of one worker or finished.
Accounted ==
  /\ Len(tasks) <= accepted
  /\ \A k \in 1 .. Len(tasks) : tasks[k] = accepted - Len(tasks) + k
  /\ finished \subseteq Taken
  /\ \A w \in Workers : current[w] # 0 => current[w] \in Taken \ finished
  /\ \A v, w \in Workers : current[v] = current[w] /\ current[v] # 0 => v = w
  /\ \A t \in Taken : t \in finished \/ \E w \in Workers : current[w] = t

\* What holds once the destructor has begun.
Stopping ==
  /\ stop <=> owner # "alive"
  /\ stop => \A c \in Clients : pc[c] = "gone"
  /\ \A w \in Workers : pc[w] = "exit" => stop /\ tasks = <<>>
  /\ owner = "destroyed" => \A w \in Workers : pc[w] = "exit"

IInv == TypeOK /\ Accounted /\ Stopping /\ NobodySleepsOn
==============================================================================
