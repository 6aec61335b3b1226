--------------------------- MODULE MCParallelTasks ---------------------------
(***************************************************************************)
(* Two children and three tasks under different names: t1 succeeds, t2     *)
(* succeeds or raises, t3 fails or raises something that is no Exception.  *)
(***************************************************************************)
EXTENDS ParallelTasks, TLC

CONSTANTS t1, t2, t3, n1, n2, n3

MCBatch == {t1, t2, t3}
MCNames == {n1, n2, n3}
MCNameOf == t1 :> n1 @@ t2 :> n2 @@ t3 :> n3

Good == [ended |-> "return", status |-> "success", report |-> "good"]
Bad == [ended |-> "return", status |-> "none", report |-> "bad"]
Raised == [ended |-> "exception", status |-> "none", report |-> "partial"]
Exited == [ended |-> "error", status |-> "none", report |-> "partial"]

MCBodies == {Good, Bad, Raised, Exited}
MCBodiesOf == t1 :> {Good} @@ t2 :> {Good, Raised} @@ t3 :> {Bad, Exited}
=============================================================================
