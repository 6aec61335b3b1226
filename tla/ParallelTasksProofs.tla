------------------------- MODULE ParallelTasksProofs -------------------------
(***************************************************************************)
(* Proofs about the pool of lib/ParallelTasks.py, for any number of        *)
(* children, tasks and names.                                              *)
(***************************************************************************)
EXTENDS ParallelTasks, FiniteSetTheorems, TLAPS

\* The children that have taken a task and not called task_done for it.
InFlight == {w \in Workers : holds[w] # NoTask}

Held == {"do_one_task", "store", "task_done", "dead"}

Unstored(w, t) == holds[w] = t /\ at[w] # "task_done"

\* A child holds a task from the get to the task_done, or for ever if it died.
HoldsInv ==
  \A w \in Workers :
    /\ (holds[w] # NoTask) <=> (at[w] \in Held)
    /\ at[w] \in {"store", "task_done"} => local[w] \in Results
    /\ at[w] = "task_done" => shared[NameOf[holds[w]]] # NoResult

\* What task_done counts down: the tasks that wait and those that are held.
CountInv == unfinished = Len(queue) + Cardinality(InFlight)

\* A task that was added waits, is held unstored, or has its result stored.
AccountedInv ==
  \A t \in added :
    \/ \E i \in DOMAIN queue : queue[i] = t
    \/ \E w \in Workers : Unstored(w, t)
    \/ shared[NameOf[t]] # NoResult

\* The parent waits when it has added everything, and goes on at zero; only then
\* are children terminated.
ParentInv ==
  /\ main # "adding" => added = Batch
  /\ Joined => unfinished = 0
  /\ \A w \in Workers : at[w] = "terminated" => Joined

IInv == TypeOK /\ HoldsInv /\ CountInv /\ AccountedInv /\ ParentInv

-----------------------------------------------------------------------------

\* What do_one_task leaves behind is a proper result, never mistaken for none.
LEMMA CollectType ==
  /\ \A t \in Batch : \A b \in BodiesOf[t] : Collect(b) \in Results
  /\ NoResult \notin Results
BY PoolAssumption, ResultAssumption DEF Results

\* At a count of zero nothing waits and nothing is held.
LEMMA ZeroMeansIdle ==
  ASSUME TypeOK, HoldsInv, CountInv, unfinished = 0
  PROVE  queue = <<>> /\ \A w \in Workers : holds[w] = NoTask
<1>1. IsFiniteSet(InFlight) /\ Cardinality(InFlight) \in Nat
  BY PoolAssumption, FS_Subset, FS_CardinalityType DEF InFlight
<1>2. Len(queue) \in Nat
  BY DEF TypeOK
<1>3. Len(queue) = 0 /\ Cardinality(InFlight) = 0
  BY <1>1, <1>2 DEF CountInv
<1>4. InFlight = {}
  BY <1>1, <1>3, FS_EmptySet
<1>5. queue = <<>>
  BY <1>3 DEF TypeOK
<1> QED BY <1>4, <1>5 DEF InFlight

\* The pool starts with the inductive invariant: nothing waits and nothing is held.
LEMMA InitIInv == Init => IInv
<1> SUFFICES ASSUME Init PROVE IInv
  OBVIOUS
<1>1. TypeOK
  BY DEF Init, TypeOK, Steps
<1>2. InFlight = {}
  BY DEF Init, InFlight
<1>3. CountInv
  BY <1>2, FS_EmptySet DEF Init, CountInv
<1> QED
  BY <1>1, <1>3 DEF Init, IInv, HoldsInv, AccountedInv, ParentInv, Held, Joined

\* A step keeps the types.  That the count stays a natural number is due to CountInv:
\* the child that calls task_done is one of those in flight.
LEMMA NextTypeOK == TypeOK /\ HoldsInv /\ CountInv /\ [Next]_vars => TypeOK'
<1> SUFFICES ASSUME TypeOK, HoldsInv, CountInv, [Next]_vars PROVE TypeOK'
  OBVIOUS
<1> USE PoolAssumption, CollectType DEF TypeOK, Steps, parent
<1>1. ASSUME NEW t \in Batch, AddTask(t) PROVE TypeOK'
  BY <1>1 DEF AddTask
<1>2. CASE Finish
  BY <1>2 DEF Finish, CallFinish, Join, FinishReturns, Terminate
<1>3. ASSUME NEW w \in Workers, Get(w) PROVE TypeOK'
  BY <1>3 DEF Get
<1>4. ASSUME NEW w \in Workers, DoOneTask(w) PROVE TypeOK'
  <2>1. holds[w] \in Batch
    BY <1>4 DEF DoOneTask, HoldsInv, Held
  <2> QED BY <1>4, <2>1 DEF DoOneTask
<1>5. ASSUME NEW w \in Workers, Store(w) PROVE TypeOK'
  <2>1. local[w] \in Results
    BY <1>5 DEF Store, HoldsInv
  <2> QED BY <1>5, <2>1 DEF Store
<1>6. ASSUME NEW w \in Workers, TaskDone(w) PROVE TypeOK'
  <2>1. w \in InFlight
    BY <1>6 DEF TaskDone, HoldsInv, Held, InFlight
  <2>2. IsFiniteSet(InFlight) /\ Cardinality(InFlight) \in Nat /\ Cardinality(InFlight) # 0
    BY <2>1, FS_Subset, FS_CardinalityType, FS_EmptySet DEF InFlight
  <2>3. unfinished > 0 /\ Len(queue) \in Nat
    BY <2>2 DEF CountInv
  <2> QED BY <1>6, <2>3 DEF TaskDone
<1>7. ASSUME NEW w \in Workers, Die(w) PROVE TypeOK'
  BY <1>7 DEF Die
<1>8. CASE UNCHANGED vars
  BY <1>8 DEF vars
<1> QED
  BY <1>1, <1>2, <1>3, <1>4, <1>5, <1>6, <1>7, <1>8 DEF Next, Work

\* A step keeps the relation between what a child is about to do and what it holds.
LEMMA NextHolds == IInv /\ [Next]_vars => HoldsInv'
<1> SUFFICES ASSUME TypeOK, HoldsInv, CountInv, ParentInv, [Next]_vars PROVE HoldsInv'
  BY DEF IInv
<1> USE PoolAssumption, CollectType DEF TypeOK, HoldsInv, Held, parent
<1>1. ASSUME NEW t \in Batch, AddTask(t) PROVE HoldsInv'
  BY <1>1 DEF AddTask
<1>2. CASE CallFinish \/ Join \/ FinishReturns
  BY <1>2 DEF CallFinish, Join, FinishReturns
<1>3. ASSUME NEW w \in Workers, Terminate(w) PROVE HoldsInv'
  <2>1. \A v \in Workers : holds[v] = NoTask
    BY <1>3, ZeroMeansIdle DEF Terminate, ParentInv, Joined
  <2> QED BY <1>3, <2>1 DEF Terminate
<1>4. ASSUME NEW w \in Workers, Get(w) PROVE HoldsInv'
  <2>1. Head(queue) \in Batch
    BY <1>4 DEF Get
  <2> QED BY <1>4, <2>1 DEF Get
<1>5. ASSUME NEW w \in Workers, DoOneTask(w) PROVE HoldsInv'
  BY <1>5 DEF DoOneTask
<1>6. ASSUME NEW w \in Workers, Store(w) PROVE HoldsInv'
  BY <1>6 DEF Store
<1>7. ASSUME NEW w \in Workers, TaskDone(w) PROVE HoldsInv'
  BY <1>7 DEF TaskDone
<1>8. ASSUME NEW w \in Workers, Die(w) PROVE HoldsInv'
  BY <1>8 DEF Die
<1>9. CASE UNCHANGED vars
  BY <1>9 DEF vars
<1> QED
  BY <1>1, <1>2, <1>3, <1>4, <1>5, <1>6, <1>7, <1>8, <1>9 DEF Next, Finish, Work

\* A step keeps the count in line with the tasks that wait and those in flight: there
\* are three ways to change it (add_task, get, task_done).
LEMMA NextCount == IInv /\ [Next]_vars => CountInv'
<1> SUFFICES ASSUME TypeOK, HoldsInv, CountInv, ParentInv, [Next]_vars PROVE CountInv'
  BY DEF IInv
<1> USE PoolAssumption DEF TypeOK, CountInv, parent
<1>0. IsFiniteSet(InFlight) /\ Cardinality(InFlight) \in Nat
  BY FS_Subset, FS_CardinalityType DEF InFlight
<1>1. ASSUME NEW t \in Batch, AddTask(t) PROVE CountInv'
  <2>1. Len(queue') = Len(queue) + 1 /\ Len(queue) \in Nat
    BY <1>1 DEF AddTask
  <2>2. InFlight' = InFlight
    BY <1>1 DEF AddTask, InFlight
  <2> QED BY <1>0, <1>1, <2>1, <2>2 DEF AddTask
<1>2. ASSUME UNCHANGED <<queue, unfinished, holds>> PROVE CountInv'
  BY <1>2 DEF InFlight
<1>3. ASSUME NEW w \in Workers, Get(w) PROVE CountInv'
  <2>1. Len(queue') = Len(queue) - 1 /\ Len(queue) \in Nat /\ Head(queue) \in Batch
    BY <1>3 DEF Get
  <2>2. w \notin InFlight /\ InFlight' = InFlight \union {w}
    BY <1>3, <2>1 DEF Get, HoldsInv, Held, InFlight
  <2>3. Cardinality(InFlight') = Cardinality(InFlight) + 1
    BY <1>0, <2>2, FS_AddElement
  <2> QED BY <1>0, <1>3, <2>1, <2>3 DEF Get
<1>4. ASSUME NEW w \in Workers, TaskDone(w) PROVE CountInv'
  <2>1. w \in InFlight /\ InFlight' = InFlight \ {w}
    BY <1>4 DEF TaskDone, HoldsInv, Held, InFlight
  <2>2. Cardinality(InFlight') = Cardinality(InFlight) - 1
    BY <1>0, <2>1, FS_RemoveElement
  <2> QED BY <1>0, <1>4, <2>2 DEF TaskDone
<1> QED
  BY <1>1, <1>2, <1>3, <1>4
  DEF Next, Finish, Work, CallFinish, Join, FinishReturns, Terminate, DoOneTask,
      Store, Die, vars

\* A step loses no task: it may move it from the queue to a child, and from a child to
\* the results.
LEMMA NextAccounted == IInv /\ [Next]_vars => AccountedInv'
<1> SUFFICES ASSUME IInv, [Next]_vars, NEW t \in added' PROVE
      \/ \E i \in DOMAIN queue' : queue'[i] = t
      \/ \E w \in Workers : Unstored(w, t)'
      \/ shared'[NameOf[t]] # NoResult
  BY DEF AccountedInv
<1> USE PoolAssumption DEF IInv, TypeOK, Unstored, parent
<1> DEFINE Waits == \E i \in DOMAIN queue : queue[i] = t
           Here(w) == Unstored(w, t)
           Stored == shared[NameOf[t]] # NoResult
<1>0. t \in added => Waits \/ (\E w \in Workers : Here(w)) \/ Stored
  BY DEF AccountedInv
<1>1. ASSUME NEW u \in Batch, AddTask(u) PROVE Waits' \/ (\E w \in Workers : Here(w)') \/ Stored'
  <2>1. queue' = Append(queue, u) /\ UNCHANGED <<at, holds, shared>>
    BY <1>1 DEF AddTask
  <2>2. CASE t = u
    <3>1. Len(queue) + 1 \in DOMAIN queue' /\ queue'[Len(queue) + 1] = t
      BY <2>1, <2>2
    <3> QED BY <3>1
  <2>3. CASE t # u
    <3>1. t \in added
      BY <1>1, <2>3 DEF AddTask
    <3>2. ASSUME NEW i \in DOMAIN queue, queue[i] = t PROVE i \in DOMAIN queue' /\ queue'[i] = t
      BY <2>1, <3>2
    <3> QED BY <1>0, <2>1, <3>1, <3>2
  <2> QED BY <2>2, <2>3
<1>2. ASSUME NEW w \in Workers, Get(w) PROVE Waits' \/ (\E v \in Workers : Here(v)') \/ Stored'
  <2>1. t \in added /\ holds[w] = NoTask /\ queue' = Tail(queue) /\ queue # <<>>
    BY <1>2 DEF Get, HoldsInv, Held
  <2>2. ASSUME NEW i \in DOMAIN queue, queue[i] = t PROVE Waits' \/ (\E v \in Workers : Here(v)')
    <3>1. CASE i = 1
      BY <1>2, <2>2, <3>1 DEF Get
    <3>2. CASE i # 1
      <4>1. i - 1 \in DOMAIN queue' /\ queue'[i - 1] = t
        BY <2>1, <2>2, <3>2
      <4> QED BY <4>1
    <3> QED BY <3>1, <3>2
  <2>3. ASSUME NEW v \in Workers, Here(v) PROVE Here(v)'
    BY <1>2, <2>1, <2>3, t \in Batch DEF Get
  <2>4. Stored => Stored'
    BY <1>2 DEF Get
  <2> QED BY <1>0, <2>1, <2>2, <2>3, <2>4
<1>3. ASSUME NEW w \in Workers, Store(w) PROVE Waits' \/ (\E v \in Workers : Here(v)') \/ Stored'
  <2>1. t \in added /\ queue' = queue /\ local[w] \in Results /\ holds[w] \in Batch
    BY <1>3 DEF Store, HoldsInv, Held
  <2>2. ASSUME NEW v \in Workers, Here(v), v # w PROVE Here(v)'
    BY <1>3, <2>2 DEF Store
  <2>3. Here(w) => Stored'
    BY <1>3, <2>1, CollectType DEF Store
  <2>4. Stored => Stored'
    BY <1>3, <2>1, CollectType DEF Store
  <2> QED BY <1>0, <2>1, <2>2, <2>3, <2>4
<1>4. ASSUME NEW w \in Workers, TaskDone(w) PROVE Waits' \/ (\E v \in Workers : Here(v)') \/ Stored'
  <2>1. ASSUME NEW v \in Workers, Here(v) PROVE Here(v)'
    BY <1>4, <2>1 DEF TaskDone
  <2> QED BY <1>0, <1>4, <2>1 DEF TaskDone
<1>5. ASSUME NEW w \in Workers, DoOneTask(w) \/ Die(w) PROVE Waits' \/ (\E v \in Workers : Here(v)') \/ Stored'
  <2>1. ASSUME NEW v \in Workers, Here(v) PROVE Here(v)'
    BY <1>5, <2>1 DEF DoOneTask, Die
  <2> QED BY <1>0, <1>5, <2>1 DEF DoOneTask, Die
<1>6. ASSUME NEW w \in Workers, Terminate(w) PROVE Waits' \/ (\E v \in Workers : Here(v)') \/ Stored'
  <2>1. ASSUME NEW v \in Workers, Here(v) PROVE Here(v)'
    BY <1>6, <2>1 DEF Terminate
  <2> QED BY <1>0, <1>6, <2>1 DEF Terminate
<1>7. CASE UNCHANGED <<added, queue, at, holds, shared>>
  BY <1>0, <1>7
<1> QED
  BY <1>1, <1>2, <1>3, <1>4, <1>5, <1>6, <1>7
  DEF Next, Finish, Work, CallFinish, Join, FinishReturns, vars

\* A step keeps what the parent knows: once it has seen the count at zero, no child has
\* anything left to do that could change it.
LEMMA NextParent == IInv /\ [Next]_vars => ParentInv'
<1> SUFFICES ASSUME IInv, [Next]_vars PROVE ParentInv'
  OBVIOUS
<1> USE DEF ParentInv, Joined, parent, IInv, TypeOK
<1>1. ASSUME NEW t \in Batch, AddTask(t) PROVE ParentInv'
  BY <1>1 DEF AddTask
<1>2. CASE CallFinish \/ Join \/ FinishReturns
  BY <1>2 DEF CallFinish, Join, FinishReturns
<1>3. ASSUME NEW w \in Workers, Terminate(w) PROVE ParentInv'
  BY <1>3 DEF Terminate
<1>4. ASSUME NEW w \in Workers, Work(w) \/ Die(w) PROVE ParentInv'
  <2>1. ~Joined
    <3>1. Joined => queue = <<>> /\ \A v \in Workers : holds[v] = NoTask
      BY ZeroMeansIdle
    <3> QED BY <1>4, <3>1 DEF Work, Get, DoOneTask, Store, TaskDone, Die, HoldsInv, Held
  <2> QED BY <1>4, <2>1 DEF Work, Get, DoOneTask, Store, TaskDone, Die
<1>5. CASE UNCHANGED vars
  BY <1>5 DEF vars
<1> QED
  BY <1>1, <1>2, <1>3, <1>4, <1>5 DEF Next, Finish

\* The inductive invariant holds of every behaviour of the pool.
THEOREM PoolInvariant == Spec => []IInv
<1>1. IInv /\ [Next]_vars => IInv'
  <2>1. IInv /\ [Next]_vars => TypeOK'
    BY NextTypeOK DEF IInv
  <2> QED
    BY <2>1, NextHolds, NextCount, NextAccounted, NextParent DEF IInv
<1> QED
  BY InitIInv, <1>1, PTL DEF Spec

\* Every variable keeps its type; above all, task_done is never called more often
\* than add_task, so it never raises in a child.
THEOREM TypeCorrect == Spec => []TypeOK
BY PoolInvariant, PTL DEF IInv

\* When finish() stops waiting, get_results() has an entry for every task.
THEOREM FinishedIsComplete == Spec => []FinishMeansAllStored
<1>1. IInv => FinishMeansAllStored
  <2> SUFFICES ASSUME IInv, Joined, NEW t \in Batch PROVE shared[NameOf[t]] # NoResult
    BY DEF FinishMeansAllStored
  <2>1. queue = <<>> /\ \A w \in Workers : holds[w] = NoTask
    BY ZeroMeansIdle DEF IInv, ParentInv
  <2>2. t \in added
    BY DEF IInv, ParentInv, TypeOK, Joined
  <2> QED
    BY <2>1, <2>2, PoolAssumption DEF IInv, AccountedInv, Unstored
<1> QED
  BY PoolInvariant, <1>1, PTL

\* A batch that lost a task with the child that held it never ends.
THEOREM LostBatchNeverEnds == Spec => []LossIsNeverReportedAsEnd
<1>1. IInv => LossIsNeverReportedAsEnd
  BY ZeroMeansIdle DEF IInv, ParentInv, HoldsInv, Held, LossIsNeverReportedAsEnd
<1> QED
  BY PoolInvariant, <1>1, PTL

\* The children that finish() kills are all waiting on an empty queue.
THEOREM TerminatesOnlyIdle == Spec => OnlyIdleTerminated
<1>1. IInv /\ [Next]_vars
      => [\A w \in Workers : at'[w] = "terminated" /\ at[w] # "terminated"
            => at[w] = "get" /\ queue = <<>>]_vars
  <2> SUFFICES ASSUME IInv, Next, NEW w \in Workers,
                      at'[w] = "terminated", at[w] # "terminated"
               PROVE  at[w] = "get" /\ queue = <<>>
    BY DEF vars
  <2>1. Terminate(w)
    BY DEF Next, Finish, Work, AddTask, CallFinish, Join, FinishReturns, Terminate,
           Get, DoOneTask, Store, TaskDone, Die, IInv, TypeOK
  <2>2. queue = <<>> /\ holds[w] = NoTask
    BY <2>1, ZeroMeansIdle DEF Terminate, IInv, ParentInv, Joined
  <2> QED
    BY <2>2 DEF IInv, TypeOK, HoldsInv, Held, Steps
<1> QED
  BY PoolInvariant, <1>1, PTL DEF Spec, OnlyIdleTerminated

-----------------------------------------------------------------------------
(* The pool implements TaskBatch.                                          *)

\* A task is in at most one place, and has no result before it is stored.
OnceInv ==
  /\ \A i, j \in DOMAIN queue : queue[i] = queue[j] => i = j
  /\ \A i \in DOMAIN queue :
       /\ queue[i] \in added
       /\ shared[NameOf[queue[i]]] = NoResult
       /\ \A w \in Workers : holds[w] # queue[i]
  /\ \A w \in Workers : holds[w] # NoTask =>
       /\ holds[w] \in added
       /\ \A v \in Workers : holds[v] = holds[w] => v = w
  /\ \A w \in Workers : at[w] \in {"do_one_task", "store"} =>
       shared[NameOf[holds[w]]] = NoResult
  /\ \A w \in Workers : at[w] = "store" =>
       \E b \in BodiesOf[holds[w]] : local[w] = Collect(b)
  /\ \A t \in Batch \ added : shared[NameOf[t]] = NoResult

\* If no two tasks share a name, a step keeps each task in one place, and its result
\* unset until it is stored.
LEMMA NextOnce == ASSUME DistinctNames PROVE IInv /\ OnceInv /\ [Next]_vars => OnceInv'
<1> SUFFICES ASSUME IInv, OnceInv, [Next]_vars PROVE OnceInv'
  OBVIOUS
<1> USE PoolAssumption DEF IInv, TypeOK, OnceInv, HoldsInv, Held, parent
<1>1. ASSUME NEW t \in Batch, AddTask(t) PROVE OnceInv'
  <2>1. DOMAIN queue' = DOMAIN queue \union {Len(queue) + 1}
    BY <1>1 DEF AddTask
  <2>2. queue'[Len(queue) + 1] = t /\ \A i \in DOMAIN queue : queue'[i] = queue[i]
    BY <1>1 DEF AddTask
  <2>3. t \notin added /\ added' = added \union {t} /\ UNCHANGED <<at, holds, local, shared>>
    BY <1>1 DEF AddTask
  <2> QED BY <2>1, <2>2, <2>3
<1>2. ASSUME NEW w \in Workers, Get(w) PROVE OnceInv'
  <2>1. holds[w] = NoTask /\ queue # <<>> /\ UNCHANGED <<added, local, shared>>
    BY <1>2 DEF Get
  <2>2. 1 \in DOMAIN queue /\ Head(queue) = queue[1]
    BY <2>1
  <2>3. \A i \in DOMAIN queue' : i \in Nat /\ i + 1 \in DOMAIN queue /\ queue'[i] = queue[i + 1] /\ i + 1 # 1
    BY <1>2 DEF Get
  <2>4. holds' = [holds EXCEPT ![w] = queue[1]] /\ at' = [at EXCEPT ![w] = "do_one_task"]
    BY <1>2, <2>2 DEF Get
  <2>5. \A i, j \in DOMAIN queue' : queue'[i] = queue'[j] => i = j
    BY <2>3
  <2>6. \A i \in DOMAIN queue' : \A v \in Workers : holds'[v] # queue'[i]
    BY <2>2, <2>3, <2>4
  <2> QED BY <2>1, <2>2, <2>3, <2>4, <2>5, <2>6
<1>3. ASSUME NEW w \in Workers, DoOneTask(w) PROVE OnceInv'
  <2>1. \E b \in BodiesOf[holds[w]] : local'[w] = Collect(b)
    BY <1>3 DEF DoOneTask
  <2> QED BY <1>3, <2>1 DEF DoOneTask
<1>4. ASSUME NEW w \in Workers, Store(w) PROVE OnceInv'
  <2>1. holds[w] \in added /\ \A u \in Batch : NameOf[u] = NameOf[holds[w]] => u = holds[w]
    BY <1>4 DEF Store, DistinctNames
  <2>2. \A u \in Batch : u # holds[w] => shared'[NameOf[u]] = shared[NameOf[u]]
    BY <1>4, <2>1 DEF Store
  <2> QED BY <1>4, <2>1, <2>2 DEF Store
<1>5. ASSUME NEW w \in Workers, TaskDone(w) PROVE OnceInv'
  BY <1>5 DEF TaskDone
<1>6. ASSUME NEW w \in Workers, Die(w) \/ Terminate(w) PROVE OnceInv'
  <2>1. UNCHANGED <<added, queue, holds, local, shared>>
    BY <1>6 DEF Die, Terminate
  <2>2. \A v \in Workers : at'[v] \in {"do_one_task", "store"} => at'[v] = at[v]
    BY <1>6 DEF Die, Terminate
  <2>3. \A v \in Workers : at'[v] \in {"do_one_task", "store"} =>
          shared[NameOf[holds[v]]] = NoResult
    BY <2>2
  <2>4. \A v \in Workers : at'[v] = "store" =>
          \E b \in BodiesOf[holds[v]] : local[v] = Collect(b)
    BY <2>2
  <2> QED BY <2>1, <2>3, <2>4
<1>7. CASE UNCHANGED <<added, queue, at, holds, local, shared>>
  BY <1>7
<1> QED
  BY <1>1, <1>2, <1>3, <1>4, <1>5, <1>6, <1>7
  DEF Next, Finish, Work, CallFinish, Join, FinishReturns, vars

\* If no two tasks share a name, every behaviour of the pool is one of TaskBatch:
\* each task is performed once, each result is one its own task can have, no
\* result changes later, and the wait ends when all of them are there.
THEOREM PoolImplementsTaskBatch == ASSUME DistinctNames PROVE Spec => PerformsEachTaskOnce
<1> DEFINE res == [t \in Batch |-> shared[NameOf[t]]]
<1>1. Init => OnceInv
  BY PoolAssumption DEF Init, OnceInv
<1>2. Spec => [](IInv /\ OnceInv)
  BY <1>1, PoolInvariant, NextOnce, PTL DEF Spec
<1>3. Init => Promise!Init
  BY PoolAssumption DEF Init, Promise!Init, Joined
<1>4. IInv /\ OnceInv /\ [Next]_vars => [Promise!Next]_(Promise!vars)
  <2> SUFFICES ASSUME IInv, OnceInv, [Next]_vars PROVE [Promise!Next]_(Promise!vars)
    OBVIOUS
  <2>1. ASSUME NEW w \in Workers, NEW u \in Batch, u = holds[w], Store(w)
        PROVE  Promise!Complete(u)
    <3>1. u # NoTask
      BY PoolAssumption
    <3>2. ~Joined /\ ~Joined'
      BY <2>1, <3>1, ZeroMeansIdle DEF Store, Joined, parent, IInv, ParentInv
    <3>3. res[u] = NoResult
      BY <2>1, <3>1 DEF Store, OnceInv
    <3>4. PICK b \in BodiesOf[u] : local[w] = Collect(b)
      BY <2>1 DEF Store, OnceInv
    <3>5. res' = [res EXCEPT ![u] = Collect(b)]
      <4>1. \A v \in Batch : shared'[NameOf[v]] =
              IF v = u THEN Collect(b) ELSE shared[NameOf[v]]
        BY <2>1, <3>1, <3>4, PoolAssumption DEF Store, DistinctNames, IInv, TypeOK
      <4> QED BY <4>1
    <3>6. Collect(b) \in [t \in Batch |-> {Collect(c) : c \in BodiesOf[t]}][u]
      BY <3>1, <3>4
    <3>7. UNCHANGED Joined
      BY <3>2 DEF Joined
    <3> HIDE DEF res
    <3> QED
      BY <3>2, <3>3, <3>5, <3>6, <3>7 DEF Promise!Complete, res
  <2>2. CASE Join
    <3>1. \A t \in Batch : res[t] # NoResult
      <4>1. queue = <<>> /\ \A w \in Workers : holds[w] = NoTask
        BY <2>2, ZeroMeansIdle DEF Join, IInv
      <4>2. added = Batch
        BY <2>2 DEF Join, IInv, ParentInv
      <4> QED BY <4>1, <4>2, PoolAssumption DEF IInv, AccountedInv, Unstored
    <3> QED BY <2>2, <3>1 DEF Join, Promise!Join, Promise!Next, Joined
  <2>3. ASSUME UNCHANGED <<shared, Joined>> PROVE UNCHANGED Promise!vars
    BY <2>3 DEF Promise!vars
  <2>4. CASE CallFinish \/ FinishReturns
    BY <2>4, <2>3 DEF CallFinish, FinishReturns, Joined
  <2>5. ASSUME NEW t \in Batch, AddTask(t) PROVE UNCHANGED <<shared, Joined>>
    BY <2>5 DEF AddTask, Joined
  <2>6. ASSUME NEW w \in Workers,
               Get(w) \/ DoOneTask(w) \/ TaskDone(w) \/ Die(w) \/ Terminate(w)
        PROVE  UNCHANGED <<shared, Joined>>
    BY <2>6 DEF Get, DoOneTask, TaskDone, Die, Terminate, Joined, parent
  <2>7. CASE UNCHANGED vars
    BY <2>7, <2>3 DEF vars, Joined
  <2>8. ASSUME NEW w \in Workers, Store(w) PROVE Promise!Next
    <3>1. holds[w] \in Batch
      BY <2>8, PoolAssumption DEF Store, IInv, TypeOK, HoldsInv, Held
    <3>2. PICK u \in Batch : u = holds[w]
      BY <3>1
    <3>3. Promise!Complete(u)
      BY <2>1, <2>8, <3>2
    <3> QED BY <3>3 DEF Promise!Next
  <2> QED
    BY <2>2, <2>3, <2>4, <2>5, <2>6, <2>7, <2>8 DEF Next, Finish, Work
<1> QED
  BY <1>2, <1>3, <1>4, PTL DEF Spec, PerformsEachTaskOnce, Promise!Spec
=============================================================================
