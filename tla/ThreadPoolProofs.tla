--------------------------- MODULE ThreadPoolProofs ---------------------------
(* ThreadPool for every number of workers, clients and tasks: the invariants *)
(* hold and the pool implements TaskPool.                                    *)
EXTENDS ThreadPool, SequenceTheorems, FiniteSetTheorems, TLAPS

\* The new pool has accepted nothing and its workers are about to look.
LEMMA InitIInv == Init => IInv
<1> SUFFICES ASSUME Init PROVE IInv
  OBVIOUS
<1>1. TypeOK
  <2>1. tasks \in Seq(Task) /\ finished \subseteq Task /\ accepted \in 0 .. MaxTasks
    BY MaxTasksAssumption DEF Init
  <2>2. \A c \in Clients : c \notin Workers
    BY ClientsAssumption
  <2>3. QED
    BY <2>1, <2>2 DEF Init, TypeOK, Threads
<1>2. Taken = {} /\ Len(tasks) = 0
  BY DEF Init, Taken
<1>3. Accounted
  BY <1>2 DEF Init, Accounted
<1>4. Stopping /\ NobodySleepsOn
  BY DEF Init, Stopping, NobodySleepsOn, Threads
<1>5. QED
  BY <1>1, <1>3, <1>4 DEF IInv

\* Every step keeps the variables in their types.
LEMMA NextTypeOK == IInv /\ [Next]_vars => TypeOK'
<1> SUFFICES ASSUME IInv, [Next]_vars PROVE TypeOK'
  OBVIOUS
<1> USE ClientsAssumption, MaxTasksAssumption DEF IInv, TypeOK, Threads
<1>1. ASSUME NEW w \in Workers, Take(w) PROVE TypeOK'
  <2>1. Head(tasks) \in Task /\ Tail(tasks) \in Seq(Task) /\ Head(tasks) # 0
    BY <1>1, HeadTailProperties DEF Take, Task
  <2>2. QED
    BY <1>1, <2>1 DEF Take
<1>2. ASSUME NEW w \in Workers, Sleep(w) \/ Wake(w) \/ Exit(w) PROVE TypeOK'
  BY <1>2 DEF Sleep, Wake, Exit
<1>3. ASSUME NEW w \in Workers, Finish(w) PROVE TypeOK'
  BY <1>3 DEF Finish
<1>4. ASSUME NEW t \in Threads, Push(t) PROVE TypeOK'
  <2>1. accepted + 1 \in Task /\ accepted' \in 0 .. MaxTasks
    BY <1>4 DEF Push, Task
  <2>2. tasks' \in Seq(Task)
    BY <1>4, <2>1 DEF Push
  <2>3. QED
    BY <1>4, <2>1, <2>2 DEF Push, CanEnqueue
<1>5. ASSUME NEW t \in Threads, NotifyOne(t) PROVE TypeOK'
  <2>1. PICK back \in [Threads -> {"lock", "sleep", "run", "notify", "exit", "idle", "gone"}] :
          /\ back = [pc EXCEPT ![t] = IF t \in Workers THEN "run" ELSE "idle"]
          /\ IF Sleeping = {} THEN pc' = back
             ELSE \E w \in Sleeping : pc' = [back EXCEPT ![w] = "lock"]
    BY <1>5 DEF NotifyOne
  <2>2. CASE Sleeping = {}
    BY <1>5, <2>1, <2>2 DEF NotifyOne
  <2>3. ASSUME NEW w \in Sleeping, pc' = [back EXCEPT ![w] = "lock"] PROVE TypeOK'
    BY <1>5, <2>1, <2>3 DEF NotifyOne, Sleeping
  <2>4. QED
    BY <2>1, <2>2, <2>3
<1>6. CASE Stop
  BY <1>6 DEF Stop
<1>7. CASE NotifyAll
  BY <1>7 DEF NotifyAll, Sleeping
<1>8. CASE Join \/ UNCHANGED vars
  BY <1>8 DEF Join, vars
<1>9. QED
  BY <1>1, <1>2, <1>3, <1>4, <1>5, <1>6, <1>7, <1>8 DEF Next, Work, Destroyed

\* A step that moves no task keeps the account of them.
LEMMA AccountKept ==
  Accounted /\ UNCHANGED <<tasks, accepted, finished, current>> => Accounted'
  BY DEF Accounted, Taken

\* The head of the queue is the first of the tasks not taken.
LEMMA HeadIsNext ==
  IInv /\ tasks # <<>> => /\ Head(tasks) = accepted - Len(tasks) + 1
                          /\ Len(tasks) \in 1 .. accepted
                          /\ Len(Tail(tasks)) = Len(tasks) - 1
                          /\ \A k \in 1 .. Len(tasks) - 1 : Tail(tasks)[k] = tasks[k + 1]
  BY HeadTailProperties, EmptySeq, LenProperties DEF IInv, TypeOK, Accounted

\* Taking, finishing and enqueuing a task keep the account of them.
LEMMA NextAccounted == IInv /\ TypeOK' /\ [Next]_vars => Accounted'
<1> SUFFICES ASSUME IInv, TypeOK', [Next]_vars PROVE Accounted'
  OBVIOUS
<1> USE DEF IInv
<1>1. ASSUME NEW w \in Workers, Take(w) PROVE Accounted'
  <2> DEFINE h == accepted - Len(tasks) + 1
  <2>1. /\ Head(tasks) = h /\ Len(tasks) \in 1 .. accepted
        /\ Len(tasks') = Len(tasks) - 1
        /\ \A k \in 1 .. Len(tasks) - 1 : tasks'[k] = tasks[k + 1]
    BY <1>1, HeadIsNext DEF Take
  <2>2. accepted \in Nat /\ Len(tasks) \in Nat /\ h \notin Taken
    BY <2>1 DEF TypeOK, Taken
  <2>3. Taken' = Taken \cup {h}
    BY <1>1, <2>1, <2>2 DEF Take, Taken
  <2>4. current' = [current EXCEPT ![w] = h] /\ current[w] = 0
    BY <1>1, <2>1 DEF Take, TypeOK
  <2>5. \A v \in Workers : current[v] # h
    BY <2>2 DEF Accounted, TypeOK, Task
  <2>6. h \notin finished /\ finished' = finished
    BY <1>1, <2>2 DEF Accounted, Take
  <2>7. \A k \in 1 .. Len(tasks') : tasks'[k] = accepted' - Len(tasks') + k
    BY <1>1, <2>1, <2>2 DEF Accounted, Take
  <2>8. Len(tasks') <= accepted'
    BY <1>1, <2>1, <2>2 DEF Take
  <2>9. \A v \in Workers : current'[v] # 0 => current'[v] \in Taken' \ finished'
    BY <2>3, <2>4, <2>6 DEF Accounted, TypeOK
  <2>10. \A u, v \in Workers : current'[u] = current'[v] /\ current'[u] # 0 => u = v
    BY <2>4, <2>5 DEF Accounted, TypeOK
  <2>11. \A t \in Taken' : t \in finished' \/ \E v \in Workers : current'[v] = t
    <3>1. SUFFICES ASSUME NEW t \in Taken, t \notin finished
                   PROVE  \E v \in Workers : current'[v] = t
      BY <2>3, <2>4, <2>6 DEF TypeOK
    <3>2. PICK v \in Workers : current[v] = t
      BY <3>1 DEF Accounted
    <3>3. v # w
      BY <2>2, <2>4, <3>1, <3>2 DEF Taken
    <3>4. QED
      BY <2>4, <3>2, <3>3 DEF TypeOK
  <2>12. finished' \subseteq Taken'
    BY <2>3, <2>6 DEF Accounted
  <2>13. QED
    BY <2>7, <2>8, <2>9, <2>10, <2>11, <2>12 DEF Accounted
<1>2. ASSUME NEW w \in Workers, Sleep(w) \/ Wake(w) \/ Exit(w) PROVE Accounted'
  BY <1>2, AccountKept DEF Sleep, Wake, Exit
<1>3. ASSUME NEW w \in Workers, Finish(w) PROVE Accounted'
  <2>1. /\ Taken' = Taken /\ tasks' = tasks /\ accepted' = accepted
        /\ finished' = finished \cup {current[w]}
        /\ current' = [current EXCEPT ![w] = 0]
        /\ current[w] \in Taken
    BY <1>3 DEF Finish, Taken, Accounted, TypeOK
  <2>2. \A v \in Workers : current'[v] # 0 => current'[v] \in Taken' \ finished'
    BY <2>1 DEF Accounted, TypeOK
  <2>3. \A t \in Taken' : t \in finished' \/ \E v \in Workers : current'[v] = t
    BY <2>1 DEF Accounted, TypeOK
  <2>4. \A u, v \in Workers : current'[u] = current'[v] /\ current'[u] # 0 => u = v
    BY <2>1 DEF Accounted, TypeOK
  <2>5. QED
    BY <2>1, <2>2, <2>3, <2>4 DEF Accounted
<1>4. ASSUME NEW t \in Threads, Push(t) PROVE Accounted'
  <2>1. /\ tasks' = Append(tasks, accepted + 1) /\ accepted' = accepted + 1
        /\ UNCHANGED <<finished, current>>
        /\ accepted \in Nat /\ tasks \in Seq(Task) /\ accepted + 1 \in Task
    BY <1>4, MaxTasksAssumption DEF Push, TypeOK, Task
  <2>2. /\ Len(tasks') = Len(tasks) + 1 /\ Len(tasks) \in Nat
        /\ \A k \in 1 .. Len(tasks) : tasks'[k] = tasks[k]
        /\ tasks'[Len(tasks) + 1] = accepted + 1
    BY <2>1, AppendProperties
  <2>3. Taken' = Taken
    BY <2>1, <2>2 DEF Taken
  <2>4. \A k \in 1 .. Len(tasks') : tasks'[k] = accepted' - Len(tasks') + k
    BY <2>1, <2>2 DEF Accounted
  <2>5. QED
    BY <2>1, <2>2, <2>3, <2>4 DEF Accounted
<1>5. ASSUME NEW t \in Threads, NotifyOne(t) PROVE Accounted'
  BY <1>5, AccountKept DEF NotifyOne
<1>6. CASE Stop \/ NotifyAll \/ Join \/ UNCHANGED vars
  BY <1>6, AccountKept DEF Stop, NotifyAll, Join, vars
<1>7. QED
  BY <1>1, <1>2, <1>3, <1>4, <1>5, <1>6 DEF Next, Work, Destroyed

\* Every step keeps what holds of a pool that is being destroyed.
LEMMA NextStopping == IInv /\ [Next]_vars => Stopping' /\ NobodySleepsOn'
<1> SUFFICES ASSUME IInv, [Next]_vars PROVE Stopping' /\ NobodySleepsOn'
  OBVIOUS
<1> USE ClientsAssumption DEF IInv, TypeOK, Stopping, NobodySleepsOn, Sleeping, Threads
<1>1. ASSUME NEW w \in Workers, Take(w) PROVE Stopping' /\ NobodySleepsOn'
  BY <1>1 DEF Take
<1>2. ASSUME NEW w \in Workers, Sleep(w) PROVE Stopping' /\ NobodySleepsOn'
  BY <1>2 DEF Sleep
<1>3. ASSUME NEW w \in Workers, Wake(w) PROVE Stopping' /\ NobodySleepsOn'
  BY <1>3 DEF Wake
<1>4. ASSUME NEW w \in Workers, Exit(w) PROVE Stopping' /\ NobodySleepsOn'
  BY <1>4 DEF Exit
<1>5. ASSUME NEW w \in Workers, Finish(w) PROVE Stopping' /\ NobodySleepsOn'
  BY <1>5 DEF Finish
<1>6. ASSUME NEW t \in Threads, Push(t) PROVE Stopping' /\ NobodySleepsOn'
  BY <1>6 DEF Push, CanEnqueue
<1>7. ASSUME NEW t \in Threads, NotifyOne(t) PROVE Stopping' /\ NobodySleepsOn'
  BY <1>7 DEF NotifyOne
<1>8. CASE Stop
  BY <1>8 DEF Stop
<1>9. CASE NotifyAll
  BY <1>9 DEF NotifyAll
<1>10. CASE Join \/ UNCHANGED vars
  BY <1>10 DEF Join, vars
<1>11. QED
  BY <1>1, <1>2, <1>3, <1>4, <1>5, <1>6, <1>7, <1>8, <1>9, <1>10 DEF Next, Work, Destroyed

\* The inductive invariant holds in every state the pool reaches.
LEMMA IInvHolds == Spec => []IInv
<1>1. IInv /\ [Next]_vars => IInv'
  BY NextTypeOK, NextAccounted, NextStopping DEF IInv
<1>2. QED
  BY InitIInv, <1>1, PTL DEF Spec

\* The variables have the types of the code, and a worker has a task exactly
\* while it runs it.
THEOREM TypeCorrect == Spec => []TypeOK
  BY IInvHolds, PTL DEF IInv

\* No worker sleeps once the destructor of a pool of any size has notified.
THEOREM NobodySleepsOnHolds == Spec => []NobodySleepsOn
  BY IInvHolds, PTL DEF IInv

------------------------------------------------------------------------------
(* No wake-up is lost.                                                       *)

\* The sets that NoLostWakeup counts are finite, now and after a step.
LEMMA CountsFinite ==
  /\ IsFiniteSet(Notifying) /\ IsFiniteSet(Awake)
  /\ Cardinality(Notifying) \in Nat /\ Cardinality(Awake) \in Nat
<1>1. IsFiniteSet(Threads)
  BY WorkersAssumption, ClientsAssumption, FS_Union DEF Threads
<1>2. IsFiniteSet(Notifying)
  BY <1>1, FS_Subset DEF Notifying
<1>3. IsFiniteSet(Awake)
  BY WorkersAssumption, FS_Subset DEF Awake
<1>4. QED
  BY <1>2, <1>3, FS_CardinalityType

\* A worker that sleeps with a task queued has a notification on its way or an
\* awake worker, whatever the step: a task is queued together with its
\* notification, and who consumes a notification wakes a worker.
LEMMA NextNoLostWakeup == IInv /\ TypeOK' /\ NoLostWakeup /\ [Next]_vars => NoLostWakeup'
<1> SUFFICES ASSUME IInv, TypeOK', NoLostWakeup, [Next]_vars, Sleeping' # {}
             PROVE  Len(tasks') <= Cardinality(Notifying') + Cardinality(Awake')
  BY DEF NoLostWakeup
<1>a. /\ Cardinality(Notifying') \in Nat /\ Cardinality(Awake') \in Nat
      /\ Len(tasks) \in Nat /\ Len(tasks') \in Nat
  <2>1. IsFiniteSet(Notifying') /\ IsFiniteSet(Awake')
    <3>1. IsFiniteSet(Threads)
      BY WorkersAssumption, ClientsAssumption, FS_Union DEF Threads
    <3>2. QED
      BY <3>1, WorkersAssumption, FS_Subset DEF Notifying, Awake
  <2>2. QED
    BY <2>1, FS_CardinalityType DEF IInv, TypeOK
<1> USE CountsFinite, <1>a DEF IInv
<1>1. ASSUME NEW w \in Workers, Take(w)
      PROVE  Len(tasks') <= Cardinality(Notifying') + Cardinality(Awake')
  <2>1. Awake' = Awake \ {w} /\ w \in Awake /\ Notifying' = Notifying
    BY <1>1 DEF Take, Awake, Notifying, TypeOK, Threads
  <2>2. Sleeping' = Sleeping
    BY <1>1 DEF Take, Sleeping, TypeOK, Threads
  <2>3. Cardinality(Awake') = Cardinality(Awake) - 1
    BY <2>1, FS_RemoveElement
  <2>4. Len(tasks') = Len(tasks) - 1
    BY <1>1, HeadIsNext DEF Take
  <2>5. QED
    BY <2>1, <2>2, <2>3, <2>4 DEF NoLostWakeup
<1>2. ASSUME NEW w \in Workers, Sleep(w) \/ Exit(w)
      PROVE  Len(tasks') <= Cardinality(Notifying') + Cardinality(Awake')
  <2>1. tasks' = <<>>
    BY <1>2 DEF Sleep, Exit
  <2>2. QED
    BY <2>1
<1>3. ASSUME NEW w \in Workers, Wake(w) \/ Finish(w)
      PROVE  Len(tasks') <= Cardinality(Notifying') + Cardinality(Awake')
  <2>1. Awake' = Awake \cup {w} /\ w \notin Awake /\ Notifying' = Notifying
    BY <1>3 DEF Wake, Finish, Awake, Notifying, TypeOK, Threads
  <2>2. Sleeping # {} /\ tasks' = tasks
    BY <1>3 DEF Wake, Finish, Sleeping, TypeOK, Threads
  <2>3. Cardinality(Awake') = Cardinality(Awake) + 1
    BY <2>1, FS_AddElement
  <2>4. QED
    BY <2>1, <2>2, <2>3 DEF NoLostWakeup
<1>4. ASSUME NEW t \in Threads, Push(t)
      PROVE  Len(tasks') <= Cardinality(Notifying') + Cardinality(Awake')
  <2>1. Notifying' = Notifying \cup {t} /\ t \notin Notifying /\ Awake' = Awake
    BY <1>4 DEF Push, CanEnqueue, Awake, Notifying, TypeOK, Threads
  <2>2. Sleeping' = Sleeping
    BY <1>4 DEF Push, CanEnqueue, Sleeping, TypeOK, Threads
  <2>3. Cardinality(Notifying') = Cardinality(Notifying) + 1
    BY <2>1, FS_AddElement
  <2>4. Len(tasks') = Len(tasks) + 1
    BY <1>4, AppendProperties DEF Push, TypeOK
  <2>5. QED
    BY <2>1, <2>2, <2>3, <2>4 DEF NoLostWakeup
<1>5. ASSUME NEW t \in Threads, NotifyOne(t)
      PROVE  Len(tasks') <= Cardinality(Notifying') + Cardinality(Awake')
  <2> DEFINE back == [pc EXCEPT ![t] = IF t \in Workers THEN "run" ELSE "idle"]
  <2>1. Sleeping # {}
    BY <1>5 DEF NotifyOne, Sleeping, TypeOK, Threads
  <2>2. PICK w \in Sleeping : pc' = [back EXCEPT ![w] = "lock"]
    BY <1>5, <2>1 DEF NotifyOne
  <2>3. w # t /\ w \in Workers /\ pc[w] = "sleep" /\ pc[t] = "notify"
    BY <1>5 DEF NotifyOne, Sleeping
  <2>4. /\ Notifying' = Notifying \ {t} /\ t \in Notifying
        /\ Awake' = Awake \cup {w} /\ w \notin Awake
    BY <2>2, <2>3 DEF Notifying, Awake, TypeOK, Threads
  <2>5. /\ Cardinality(Notifying') = Cardinality(Notifying) - 1
        /\ Cardinality(Awake') = Cardinality(Awake) + 1
    BY <2>4, FS_AddElement, FS_RemoveElement
  <2>6. QED
    BY <1>5, <2>1, <2>5 DEF NotifyOne, NoLostWakeup
<1>6. CASE Stop
  <2>1. /\ Notifying' = Notifying /\ Awake' = Awake /\ Sleeping' = Sleeping
        /\ tasks' = tasks
    BY <1>6, ClientsAssumption DEF Stop, Notifying, Awake, Sleeping, TypeOK, Threads
  <2>2. QED
    BY <2>1 DEF NoLostWakeup
<1>7. CASE NotifyAll
  BY <1>7 DEF NotifyAll, Sleeping, Threads
<1>8. CASE Join \/ UNCHANGED vars
  BY <1>8 DEF Join, vars, NoLostWakeup, Notifying, Awake, Sleeping
<1>9. QED
  BY <1>1, <1>2, <1>3, <1>4, <1>5, <1>6, <1>7, <1>8 DEF Next, Work, Destroyed

\* No wake-up is lost, for every number of workers and of threads that enqueue.
THEOREM NoWakeupLost == Spec => []NoLostWakeup
<1>1. Init => NoLostWakeup
  BY DEF Init, NoLostWakeup, Sleeping, Threads
<1>2. IInv /\ IInv' /\ NoLostWakeup /\ [Next]_vars => NoLostWakeup'
  BY NextNoLostWakeup DEF IInv
<1>3. QED
  BY <1>1, <1>2, IInvHolds, PTL DEF Spec

------------------------------------------------------------------------------
(* The pool implements TaskPool.                                             *)

\* A step that leaves the tasks to where they are leaves every status as it is.
LEMMA StatusKept ==
  ASSUME UNCHANGED <<accepted, finished, current>>
  PROVE  [t \in Task |-> Status(t)]' = [t \in Task |-> Status(t)]
  BY DEF Status

\* A step that changes the status of one task.
LEMMA StatusChanges ==
  ASSUME NEW c \in Task, NEW s, Status(c)' = s,
         \A t \in Task \ {c} : Status(t)' = Status(t)
  PROVE  [t \in Task |-> Status(t)]' = [[t \in Task |-> Status(t)] EXCEPT ![c] = s]
<1>1. \A t \in Task : Status(t)' = IF t = c THEN s ELSE Status(t)
  OBVIOUS
<1>2. QED
  BY <1>1, Zenon

\* A worker takes the oldest task still queued.
LEMMA TakeStarts ==
  ASSUME IInv, NEW w \in Workers, Take(w)
  PROVE  \E t \in Task : Pool!Start(t)
<1>1. /\ Head(tasks) = accepted - Len(tasks) + 1 /\ Len(tasks) \in 1 .. accepted
      /\ accepted \in Nat /\ accepted <= MaxTasks
  BY HeadIsNext, MaxTasksAssumption DEF Take, IInv, TypeOK
<1>2. PICK h \in Task : h = accepted - Len(tasks) + 1
  BY <1>1, MaxTasksAssumption DEF Task
<1>3. h \notin Taken /\ h <= accepted /\ h # 0 /\ ~(h > accepted)
  BY <1>1, <1>2 DEF Taken, Task
<1>4. /\ current' = [current EXCEPT ![w] = h] /\ current[w] = 0
      /\ current \in [Workers -> Task \cup {0}]
      /\ UNCHANGED <<accepted, finished, owner>>
  BY <1>1, <1>2 DEF Take, IInv, TypeOK
<1>5. h \notin finished /\ \A v \in Workers : current[v] # h
  BY <1>3 DEF IInv, Accounted
<1>6. Status(h) = "queued" /\ Status(h)' = "running"
  BY <1>3, <1>4, <1>5 DEF Status
<1>7. \A u \in 1 .. h - 1 : u \in Task /\ Status(u) # "queued"
  <2>1. SUFFICES ASSUME NEW u \in 1 .. h - 1 PROVE u \in Task /\ Status(u) # "queued"
    OBVIOUS
  <2>2. u \in Taken /\ u \in Task /\ ~(u > accepted)
    BY <1>1, <1>2, MaxTasksAssumption DEF Taken, Task
  <2>3. u \in finished \/ \E v \in Workers : current[v] = u
    BY <2>2 DEF IInv, Accounted
  <2>4. QED
    BY <2>2, <2>3 DEF Status
<1>8. \A t \in Task \ {h} : Status(t)' = Status(t)
  <2>1. SUFFICES ASSUME NEW t \in Task, t # h PROVE Status(t)' = Status(t)
    OBVIOUS
  <2>2. t # 0
    BY DEF Task
  <2>3. (\E v \in Workers : current'[v] = t) <=> \E v \in Workers : current[v] = t
    BY <1>4, <2>1, <2>2
  <2>4. QED
    BY <1>4, <2>3 DEF Status
<1>9. [t \in Task |-> Status(t)]'
        = [[t \in Task |-> Status(t)] EXCEPT ![h] = "running"]
  BY <1>6, <1>8, StatusChanges
<1>10. QED
  BY <1>4, <1>6, <1>7, <1>9 DEF Pool!Start

\* The task a worker returns from is done.
LEMMA FinishFinishes ==
  ASSUME IInv, NEW w \in Workers, Finish(w)
  PROVE  \E t \in Task : Pool!Finish(t)
<1>1. PICK c \in Task : c = current[w]
  BY DEF Finish, IInv, TypeOK
<1>2. /\ c \in Taken /\ c \notin finished /\ c # 0
      /\ finished' = finished \cup {c}
      /\ current' = [current EXCEPT ![w] = 0]
      /\ current \in [Workers -> Task \cup {0}]
      /\ UNCHANGED <<accepted, owner>>
  BY <1>1 DEF Finish, IInv, TypeOK, Accounted, Task
<1>3. ~(c > accepted)
  BY <1>2, MaxTasksAssumption DEF Taken, IInv, TypeOK
<1>4. Status(c) = "running" /\ Status(c)' = "done"
  BY <1>1, <1>2, <1>3 DEF Status
<1>5. \A t \in Task \ {c} : Status(t)' = Status(t)
  <2>1. SUFFICES ASSUME NEW t \in Task, t # c PROVE Status(t)' = Status(t)
    OBVIOUS
  <2>2. t # 0
    BY DEF Task
  <2>3. (\E v \in Workers : current'[v] = t) <=> \E v \in Workers : current[v] = t
    BY <1>1, <1>2, <2>1, <2>2
  <2>4. QED
    BY <1>2, <2>1, <2>3 DEF Status
<1>6. [t \in Task |-> Status(t)]'
        = [[t \in Task |-> Status(t)] EXCEPT ![c] = "done"]
  BY <1>4, <1>5, StatusChanges
<1>7. QED
  BY <1>2, <1>4, <1>6 DEF Pool!Finish

\* A task that enqueue appends is accepted, after all before it.
LEMMA PushAccepts ==
  ASSUME IInv, NEW t \in Threads, Push(t)
  PROVE  \E u \in Task : Pool!Accept(u)
<1>1. PICK n \in Task : n = accepted + 1
  BY MaxTasksAssumption DEF Push, IInv, TypeOK, Task
<1>2. /\ accepted \in Nat /\ accepted' = n
      /\ UNCHANGED <<finished, current, owner>> /\ owner # "destroyed"
  BY <1>1, MaxTasksAssumption DEF Push, IInv, TypeOK
<1>3. n \notin finished /\ \A w \in Workers : current[w] # n
  <2>1. n \notin Taken /\ n # 0
    BY <1>1, <1>2 DEF Taken, IInv, TypeOK
  <2>2. QED
    BY <2>1 DEF IInv, Accounted
<1>4. Status(n) = "none" /\ Status(n)' = "queued"
  BY <1>1, <1>2, <1>3 DEF Status
<1>5. \A u \in 1 .. n - 1 : u \in Task /\ Status(u) # "none"
  BY <1>1, <1>2, MaxTasksAssumption DEF Status, Task
<1>6. \A u \in Task \ {n} : Status(u)' = Status(u)
  BY <1>1, <1>2 DEF Status, Task
<1>7. [u \in Task |-> Status(u)]'
        = [[u \in Task |-> Status(u)] EXCEPT ![n] = "queued"]
  BY <1>4, <1>6, StatusChanges
<1>8. QED
  BY <1>2, <1>4, <1>5, <1>7 DEF Pool!Accept

\* When join has returned for every worker, no task is queued or running.
LEMMA JoinDestroys == ASSUME IInv, Join PROVE Pool!Destroy
<1>1. \A w \in Workers : current[w] = 0
  BY DEF Join, IInv, TypeOK
<1>2. tasks = <<>>
  BY WorkersAssumption DEF Join, IInv, Stopping
<1>3. Len(tasks) = 0
  BY <1>2
<1>4. \A t \in Task : Status(t) \in {"none", "done"}
  <2>1. SUFFICES ASSUME NEW t \in Task, t <= accepted PROVE t \in finished
    BY <1>1 DEF Status, IInv, TypeOK, Task
  <2>2. t \in Taken /\ t # 0
    BY <1>3, <2>1 DEF Taken, Task, IInv, TypeOK
  <2>3. QED
    BY <1>1, <2>2 DEF IInv, Accounted
<1>5. [t \in Task |-> Status(t)]' = [t \in Task |-> Status(t)]
  BY StatusKept DEF Join
<1>6. owner = "notified" /\ owner' = "destroyed"
  BY DEF Join
<1>7. QED
  BY <1>4, <1>5, <1>6 DEF Pool!Destroy, Pool!Task, Task

\* Every step of the pool is a step of TaskPool or leaves it as it is.
LEMMA StepRefines == IInv /\ [Next]_vars => [Pool!Next]_(Pool!vars)
<1> SUFFICES ASSUME IInv, [Next]_vars PROVE [Pool!Next]_(Pool!vars)
  OBVIOUS
<1>1. ASSUME NEW w \in Workers, Take(w) PROVE Pool!Next
  BY <1>1, TakeStarts DEF Pool!Next, Task, Pool!Task
<1>2. ASSUME NEW w \in Workers, Sleep(w) \/ Wake(w) \/ Exit(w)
      PROVE  UNCHANGED Pool!vars
  BY <1>2, StatusKept DEF Sleep, Wake, Exit, Pool!vars
<1>3. ASSUME NEW w \in Workers, Finish(w) PROVE Pool!Next
  BY <1>3, FinishFinishes DEF Pool!Next, Task, Pool!Task
<1>4. ASSUME NEW t \in Threads, Push(t) PROVE Pool!Next
  BY <1>4, PushAccepts DEF Pool!Next, Task, Pool!Task
<1>5. ASSUME NEW t \in Threads, NotifyOne(t) PROVE UNCHANGED Pool!vars
  BY <1>5, StatusKept DEF NotifyOne, Pool!vars
<1>6. CASE Stop
  BY <1>6, StatusKept DEF Stop, Pool!vars
<1>7. CASE NotifyAll
  BY <1>7, StatusKept DEF NotifyAll, Pool!vars
<1>8. CASE Join
  BY <1>8, JoinDestroys DEF Pool!Next
<1>9. CASE UNCHANGED vars
  BY <1>9, StatusKept DEF vars, Pool!vars
<1>10. QED
  BY <1>1, <1>2, <1>3, <1>4, <1>5, <1>6, <1>7, <1>8, <1>9 DEF Next, Work, Destroyed

\* A pool of any size starts every task it accepts once, in the order of
\* acceptance, and its destructor returns with all of them done.
THEOREM RefinesTaskPool == Spec => ImplementsTaskPool
<1>1. Init => Pool!Init
  <2> SUFFICES ASSUME Init PROVE Pool!Init
    OBVIOUS
  <2>1. \A t \in Task : Status(t) = "none"
    BY DEF Init, Status, Task
  <2>2. owner # "destroyed"
    BY DEF Init
  <2>3. QED
    BY <2>1, <2>2 DEF Pool!Init, Pool!Task, Task
<1>2. IInv /\ [Next]_vars => [Pool!Next]_(Pool!vars)
  BY StepRefines
<1>3. QED
  BY <1>1, <1>2, IInvHolds, PTL DEF Spec, ImplementsTaskPool, Pool!Spec
==============================================================================
