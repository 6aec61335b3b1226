------------------------------ MODULE TaskBatch ------------------------------
(***************************************************************************)
(* What lib/ParallelTasks.py promises the code that uses it: between the   *)
(* first add_task and the return of finish() every task of the batch is    *)
(* performed once, its result never changes afterwards, and finish()       *)
(* returns only when the result of every task is there to be read.         *)
(***************************************************************************)
CONSTANTS
  Batch,     \* the tasks handed to add_task
  ResultsOf, \* what the execution of each task can leave in get_results()
  NoResult   \* no result yet

VARIABLES
  results,   \* the result of each task
  joined     \* finish() has seen the end of the batch

vars == <<results, joined>>

Init ==
  /\ results = [t \in Batch |-> NoResult]
  /\ joined = FALSE

Complete(t) ==
  /\ ~joined
  /\ results[t] = NoResult
  /\ \E r \in ResultsOf[t] : results' = [results EXCEPT ![t] = r]
  /\ UNCHANGED joined

Join ==
  /\ ~joined
  /\ \A t \in Batch : results[t] # NoResult
  /\ joined' = TRUE
  /\ UNCHANGED results

Next == (\E t \in Batch : Complete(t)) \/ Join

Spec == Init /\ [][Next]_vars
=============================================================================
