---------------------------- MODULE ParallelTasks ----------------------------
(***************************************************************************)
(* lib/ParallelTasks.py: a parent process puts named tasks on a            *)
(* multiprocessing.JoinableQueue; a fixed set of child processes takes     *)
(* them off it, performs them and stores each result in a dictionary held  *)
(* by a Manager process; finish() waits until the queue's count of         *)
(* unfinished tasks is zero and then kills the children.                   *)
(*                                                                         *)
(* A child performs a task in four steps that the other processes can      *)
(* come between: get, do_one_task, the store in the shared dictionary, and *)
(* task_done.  A child that holds a task can die (it is killed, or the     *)
(* store, which is outside the try block, raises): nobody restarts it.     *)
(***************************************************************************)
EXTENDS Naturals, Sequences, FiniteSets, TaskResults

CONSTANTS
  Workers,     \* the child processes; job_count of them
  Batch,       \* the tasks the parent adds before it calls finish()
  Names,       \* the keys of the shared dictionary
  NameOf,      \* the name each task is added under
  Bodies,      \* the ways a call of do_one_task can end
  BodiesOf,    \* the ways the call for a given task can end
  WorkersDie,  \* whether a child may die while it holds a task
  NoTask,
  NoResult

ASSUME PoolAssumption ==
  /\ IsFiniteSet(Workers) /\ Workers # {}
  /\ NameOf \in [Batch -> Names]
  /\ \A b \in Bodies : b.ended \in Endings
  /\ BodiesOf \in [Batch -> SUBSET Bodies]
  /\ WorkersDie \in BOOLEAN
  /\ NoTask \notin Batch

\* The entries the shared dictionary can hold.
Results == {Collect(b) : b \in Bodies}

ASSUME ResultAssumption == NoResult \notin Results

VARIABLES
  main,        \* the parent: "adding", "joining", "terminating" or "finished"
  added,       \* the tasks add_task has been called for
  queue,       \* _notification_queue
  unfinished,  \* the count behind _notification_queue.join()
  at,          \* what each child is about to do
  holds,       \* the task it has taken off the queue
  local,       \* its local variable results
  shared       \* _shared_results

vars == <<main, added, queue, unfinished, at, holds, local, shared>>
parent == <<main, added>>

Init ==
  /\ main = "adding"
  /\ added = {}
  /\ queue = <<>>
  /\ unfinished = 0
  /\ at = [w \in Workers |-> "get"]
  /\ holds = [w \in Workers |-> NoTask]
  /\ local = [w \in Workers |-> NoResult]
  /\ shared = [n \in Names |-> NoResult]

-----------------------------------------------------------------------------
(* Seeded faults, to show that the properties below can fail               *)

\* The task stays on the queue while it is performed.
GetPeeks(w) ==
  /\ at[w] = "get"
  /\ queue # <<>>
  /\ holds' = [holds EXCEPT ![w] = Head(queue)]
  /\ at' = [at EXCEPT ![w] = "do_one_task"]
  /\ UNCHANGED <<parent, queue, unfinished, local, shared>>

\* A task counts as done once it has been taken off the queue.
GetIsDone(w) ==
  /\ at[w] = "get"
  /\ queue # <<>>
  /\ holds' = [holds EXCEPT ![w] = Head(queue)]
  /\ queue' = Tail(queue)
  /\ unfinished' = unfinished - 1
  /\ at' = [at EXCEPT ![w] = "do_one_task"]
  /\ UNCHANGED <<parent, local, shared>>

\* finish() waits for an empty queue instead of the count.
JoinEmptyQueue ==
  /\ main = "joining"
  /\ queue = <<>>
  /\ main' = "terminating"
  /\ UNCHANGED <<added, queue, unfinished, at, holds, local, shared>>

\* task_done is skipped when do_one_task has raised.
TaskDoneIfReturned(w) ==
  /\ at[w] = "task_done"
  /\ unfinished' = IF local[w].status \in Endings THEN unfinished ELSE unfinished - 1
  /\ holds' = [holds EXCEPT ![w] = NoTask]
  /\ local' = [local EXCEPT ![w] = NoResult]
  /\ at' = [at EXCEPT ![w] = "get"]
  /\ UNCHANGED <<parent, queue, shared>>

-----------------------------------------------------------------------------
(* The parent                                                              *)

AddTask(t) ==
  /\ main = "adding"
  /\ t \notin added
  /\ added' = added \union {t}
  /\ queue' = Append(queue, t)
  /\ unfinished' = unfinished + 1
  /\ UNCHANGED <<main, at, holds, local, shared>>

CallFinish ==
  /\ main = "adding"
  /\ added = Batch
  /\ main' = "joining"
  /\ UNCHANGED <<added, queue, unfinished, at, holds, local, shared>>

Join ==
  /\ main = "joining"
  /\ unfinished = 0
  /\ main' = "terminating"
  /\ UNCHANGED <<added, queue, unfinished, at, holds, local, shared>>

Terminate(w) ==
  /\ main = "terminating"
  /\ at[w] # "terminated"
  /\ at' = [at EXCEPT ![w] = "terminated"]
  /\ UNCHANGED <<parent, queue, unfinished, holds, local, shared>>

FinishReturns ==
  /\ main = "terminating"
  /\ \A w \in Workers : at[w] = "terminated"
  /\ main' = "finished"
  /\ UNCHANGED <<added, queue, unfinished, at, holds, local, shared>>

-----------------------------------------------------------------------------
(* A child                                                                 *)

Get(w) ==
  /\ at[w] = "get"
  /\ queue # <<>>
  /\ holds' = [holds EXCEPT ![w] = Head(queue)]
  /\ queue' = Tail(queue)
  /\ at' = [at EXCEPT ![w] = "do_one_task"]
  /\ UNCHANGED <<parent, unfinished, local, shared>>

DoOneTask(w) ==
  /\ at[w] = "do_one_task"
  /\ \E b \in BodiesOf[holds[w]] : local' = [local EXCEPT ![w] = Collect(b)]
  /\ at' = [at EXCEPT ![w] = "store"]
  /\ UNCHANGED <<parent, queue, unfinished, holds, shared>>

Store(w) ==
  /\ at[w] = "store"
  /\ shared' = [shared EXCEPT ![NameOf[holds[w]]] = local[w]]
  /\ at' = [at EXCEPT ![w] = "task_done"]
  /\ UNCHANGED <<parent, queue, unfinished, holds, local>>

\* The end and elapsed times go into the local dictionary, which has been
\* pickled into the shared one before: they reach nobody.
TaskDone(w) ==
  /\ at[w] = "task_done"
  /\ unfinished' = unfinished - 1
  /\ holds' = [holds EXCEPT ![w] = NoTask]
  /\ local' = [local EXCEPT ![w] = NoResult]
  /\ at' = [at EXCEPT ![w] = "get"]
  /\ UNCHANGED <<parent, queue, shared>>

Die(w) ==
  /\ WorkersDie
  /\ at[w] \in {"do_one_task", "store", "task_done"}
  /\ at' = [at EXCEPT ![w] = "dead"]
  /\ UNCHANGED <<parent, queue, unfinished, holds, local, shared>>

-----------------------------------------------------------------------------

Finish == CallFinish \/ Join \/ FinishReturns \/ \E w \in Workers : Terminate(w)

Work(w) == Get(w) \/ DoOneTask(w) \/ Store(w) \/ TaskDone(w)

Next ==
  \/ \E t \in Batch : AddTask(t)
  \/ Finish
  \/ \E w \in Workers : Work(w) \/ Die(w)

Spec == Init /\ [][Next]_vars

\* The parent and every child are processes of their own: the operating system
\* runs each of them.  No child is obliged to die.
Fairness ==
  /\ WF_vars((\E t \in Batch : AddTask(t)) \/ Finish)
  /\ \A w \in Workers : WF_vars(Work(w))

FairSpec == Spec /\ Fairness

-----------------------------------------------------------------------------
(* Properties                                                              *)

Steps == {"get", "do_one_task", "store", "task_done", "terminated", "dead"}

\* Types.  That unfinished stays a natural number is the condition under which
\* JoinableQueue.task_done does not raise (and kill the child that called it).
TypeOK ==
  /\ main \in {"adding", "joining", "terminating", "finished"}
  /\ added \subseteq Batch
  /\ queue \in Seq(Batch)
  /\ unfinished \in Nat
  /\ at \in [Workers -> Steps]
  /\ holds \in [Workers -> Batch \union {NoTask}]
  /\ local \in [Workers -> Results \union {NoResult}]
  /\ shared \in [Names -> Results \union {NoResult}]

Joined == main \in {"terminating", "finished"}

\* Once finish() has stopped waiting, get_results() has an entry for every task
\* that was added: callers read it without asking which tasks have ended.
FinishMeansAllStored ==
  Joined => \A t \in Batch : shared[NameOf[t]] # NoResult

\* A child that died took its task with it: no caller is ever told that the
\* batch has ended, however many other children go on.
LossIsNeverReportedAsEnd ==
  (\E w \in Workers : at[w] = "dead") => ~Joined

\* process.terminate() only ever hits a child that waits on an empty queue
\* ("extreme prejudice is okay, since all work has been performed").
OnlyIdleTerminated ==
  [][\A w \in Workers :
       at'[w] = "terminated" /\ at[w] # "terminated"
         => at[w] = "get" /\ queue = <<>>]_vars

\* finish() returns, unless a child has died holding a task.
FinishesUnlessLost ==
  <>(main = "finished") \/ <>(\E w \in Workers : at[w] = "dead")

\* When no two tasks share a name, the pool keeps the promise of TaskBatch.
DistinctNames == \A t, u \in Batch : NameOf[t] = NameOf[u] => t = u

Promise == INSTANCE TaskBatch WITH
  ResultsOf <- [t \in Batch |-> {Collect(b) : b \in BodiesOf[t]}],
  results <- [t \in Batch |-> shared[NameOf[t]]],
  joined <- Joined

PerformsEachTaskOnce == Promise!Spec
=============================================================================
