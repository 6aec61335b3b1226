----------------------------- MODULE TaskResults -----------------------------
(***************************************************************************)
(* What a call of do_one_task can leave behind in lib/ParallelTasks.py.    *)
(* A body is one way such a call can end: it returns, raises an Exception, *)
(* or raises something else; it has put a status in its results argument   *)
(* or not ("none"); and it has recorded a report there.  The report is     *)
(* what the subclass records: for RepoCloner and Builder the return codes  *)
(* of the commands that were run.                                          *)
(***************************************************************************)
Endings == {"return", "exception", "error"}

\* The entry of the task in get_results().  An exception replaces the status but
\* keeps what do_one_task had recorded before it was raised.
Collect(b) ==
  [status |-> IF b.ended = "return" THEN b.status ELSE b.ended,
   report |-> b.report]
=============================================================================
