------------------------------ MODULE TestNodes ------------------------------
(***************************************************************************)
(* How the tests of concurrent Jenkins builds share the test machines.     *)
(*                                                                         *)
(* runTest of jobs/UnitTest/UnitTest.groovy and triggerTestsParallely of   *)
(* jobs/FunctionTest/FunctionTest.groovy start one branch for each test.   *)
(* A branch waits in lock(label: ..., quantity: 1) for one resource with   *)
(* its label, and then asks occupyAvailableLockedResource of               *)
(* jobs/ShareMethod.groovy for a resource to run on.  That function looks  *)
(* at all the resources the build holds, not at the one the branch's own   *)
(* lock has brought, so the two may differ; the list used_resources, which *)
(* the branches of a build share, keeps siblings apart.                    *)
(*                                                                         *)
(* A resource bears the name of the Jenkins node that it protects.  Nodes  *)
(* are numbered in the order in which the lock manager lists them.  The    *)
(* steps of a branch between two asynchronous pipeline steps are one       *)
(* action: the pipeline interpreter runs the branches of a build on one    *)
(* thread and switches at such steps only.                                 *)
(***************************************************************************)
EXTENDS Naturals, FiniteSets, FiniteSetsExt

CONSTANTS
  Builds,
  Tests,
  TestsOf,    \* the tests of a build: its parameter TESTS, or test_repos
  Nodes,
  LabelOf,    \* label_name of a test
  LabelMaps,  \* the ways the resources may be labelled
  Executors   \* how many executors a node has

ASSUME NodesAssumption ==
  /\ IsFiniteSet(Builds) /\ IsFiniteSet(Tests)
  /\ Nodes \subseteq Nat \ {0} /\ IsFiniteSet(Nodes)
  /\ Executors \in Nat \ {0}
  /\ TestsOf \in [Builds -> SUBSET Tests]
  /\ \A m \in LabelMaps : \A t \in Tests : \E n \in Nodes : LabelOf[t] \in m[n]

Branches == {b \in Builds \X Tests : b[2] \in TestsOf[b[1]]}

NoNode == 0

VARIABLES
  labelsOf,  \* getLabels() of a resource
  pc,        \* where a branch is
  lock,      \* the resource that the branch's lock step holds
  used,      \* used_resources of a build
  node,      \* node_name of a branch
  outcome,   \* how the test of a branch ended
  stashed,   \* the tests whose logs a build has stashed
  archive    \* archiveArtifactsToTarget: "none", "all" or "skipped"

vars == <<labelsOf, pc, lock, used, node, outcome, stashed, archive>>

\* Everything has its type: a branch that has got past occupyAvailableLockedResource
\* has a node that exists.
TypeOK ==
  /\ labelsOf \in LabelMaps
  /\ pc \in [Branches -> {"queued", "locked", "assigned", "testing", "left",
                          "leaving", "ended"}]
  /\ lock \in [Branches -> Nodes \union {NoNode}]
  /\ used \in [Builds -> SUBSET Nodes]
  /\ node \in [Branches -> Nodes \union {NoNode}]
  /\ outcome \in [Branches -> {"none", "pass", "fail"}]
  /\ stashed \in [Builds -> SUBSET Tests]
  /\ archive \in [Builds -> {"none", "all", "skipped"}]

Init ==
  /\ labelsOf \in LabelMaps
  /\ pc = [b \in Branches |-> "queued"]
  /\ lock = [b \in Branches |-> NoNode]
  /\ used = [c \in Builds |-> {}]
  /\ node = [b \in Branches |-> NoNode]
  /\ outcome = [b \in Branches |-> "none"]
  /\ stashed = [c \in Builds |-> {}]
  /\ archive = [c \in Builds |-> "none"]

-----------------------------------------------------------------------------
(* The lock manager and the nodes                                          *)

Locked(n) == \E b \in Branches : lock[b] = n

\* getResourcesFromBuild
HeldBy(build) == {lock[<<build, t>>] : t \in TestsOf[build]} \ {NoNode}

\* getLockedResourceName
WithLabel(resources, label) == {n \in resources : label \in labelsOf[n]}

Running(n) == {b \in Branches : pc[b] = "testing" /\ node[b] = n}

-----------------------------------------------------------------------------
(* Seeded faults                                                           *)

\* The list of used resources is not looked at.
AvailableAll(build, label) == WithLabel(HeldBy(build), label)

\* The resource is taken off the list when the node is left abnormally only.
ForgetFailed(b) ==
  used' = [used EXCEPT ![b[1]] = IF outcome[b] = "fail" THEN @ \ {node[b]} ELSE @]

\* A failed test keeps its lock.
UnlockPassed(b) ==
  /\ pc[b] = "leaving"
  /\ pc' = [pc EXCEPT ![b] = "ended"]
  /\ lock' = [lock EXCEPT ![b] = IF outcome[b] = "pass" THEN NoNode ELSE @]
  /\ UNCHANGED <<labelsOf, used, node, outcome, stashed, archive>>

\* available_resources[0] is taken without looking at the size of the list.
OccupyAnyway(b) ==
  /\ pc[b] = "locked"
  /\ LET available == WithLabel(HeldBy(b[1]), LabelOf[b[2]]) \ used[b[1]]
         n == IF available = {} THEN NoNode ELSE Min(available)
     IN  /\ used' = [used EXCEPT ![b[1]] = @ \union {n}]
         /\ node' = [node EXCEPT ![b] = n]
  /\ pc' = [pc EXCEPT ![b] = "assigned"]
  /\ UNCHANGED <<labelsOf, lock, outcome, stashed, archive>>

-----------------------------------------------------------------------------
(* One branch                                                              *)

\* lock(label: label_name, quantity: 1) gets a free resource.
Lock(b) ==
  /\ pc[b] = "queued"
  /\ \E n \in WithLabel(Nodes, LabelOf[b[2]]) :
       /\ ~Locked(n)
       /\ lock' = [lock EXCEPT ![b] = n]
  /\ pc' = [pc EXCEPT ![b] = "locked"]
  /\ UNCHANGED <<labelsOf, used, node, outcome, stashed, archive>>

\* available_resources
Available(build, label) == WithLabel(HeldBy(build), label) \ used[build]

\* occupyAvailableLockedResource.  It is called before the try block: when it raises
\* the error, the finally that takes node_name off the list does not run.
Occupy(b) ==
  /\ pc[b] = "locked"
  /\ LET available == Available(b[1], LabelOf[b[2]])
     IN  IF available # {}
         THEN /\ used' = [used EXCEPT ![b[1]] = @ \union {Min(available)}]
              /\ node' = [node EXCEPT ![b] = Min(available)]
              /\ pc' = [pc EXCEPT ![b] = "assigned"]
              /\ UNCHANGED outcome
         ELSE /\ pc' = [pc EXCEPT ![b] = "leaving"]
              /\ outcome' = [outcome EXCEPT ![b] = "fail"]
              /\ UNCHANGED <<used, node>>
  /\ UNCHANGED <<labelsOf, lock, stashed, archive>>

\* node(node_name) waits for an executor.
EnterNode(b) ==
  /\ pc[b] = "assigned"
  /\ Cardinality(Running(node[b])) < Executors
  /\ pc' = [pc EXCEPT ![b] = "testing"]
  /\ UNCHANGED <<labelsOf, lock, used, node, outcome, stashed, archive>>

\* The body on the node.  The checkout or the unstash may fail before the inner try;
\* the test may fail or run into the timeout; in the finally the stash comes first,
\* so what fails later finds the logs stashed.
TestBodies ==
  {[stash |-> TRUE, outcome |-> "pass"], [stash |-> TRUE, outcome |-> "fail"],
   [stash |-> FALSE, outcome |-> "fail"]}

RunTest(b) ==
  /\ pc[b] = "testing"
  /\ \E body \in TestBodies :
       /\ outcome' = [outcome EXCEPT ![b] = body.outcome]
       /\ stashed' = IF body.stash THEN [stashed EXCEPT ![b[1]] = @ \union {b[2]}]
                     ELSE stashed
  /\ pc' = [pc EXCEPT ![b] = "left"]
  /\ UNCHANGED <<labelsOf, lock, used, node, archive>>

\* used_resources.remove(node_name)
Forget(b) == used' = [used EXCEPT ![b[1]] = @ \ {node[b]}]

\* finally, after the node block
LeaveNode(b) ==
  /\ pc[b] = "left"
  /\ Forget(b)
  /\ node' = [node EXCEPT ![b] = NoNode]
  /\ pc' = [pc EXCEPT ![b] = "leaving"]
  /\ UNCHANGED <<labelsOf, lock, outcome, stashed, archive>>

\* The end of the lock block frees the resource that this lock step has brought.
Unlock(b) ==
  /\ pc[b] = "leaving"
  /\ pc' = [pc EXCEPT ![b] = "ended"]
  /\ lock' = [lock EXCEPT ![b] = NoNode]
  /\ UNCHANGED <<labelsOf, used, node, outcome, stashed, archive>>

-----------------------------------------------------------------------------
(* One build                                                               *)

\* parallel ends when all of its branches have; a test that failed is rethrown.
AllEnded(build) == \A t \in TestsOf[build] : pc[<<build, t>>] = "ended"

\* archiveArtifactsToTarget, in the finally of the job: it unstashes the logs of one
\* test after the other, and the first that is missing makes it archive nothing.
Archive(build) ==
  /\ AllEnded(build)
  /\ archive[build] = "none"
  /\ archive' = [archive EXCEPT ![build] =
                   IF TestsOf[build] \subseteq stashed[build] THEN "all" ELSE "skipped"]
  /\ UNCHANGED <<labelsOf, pc, lock, used, node, outcome, stashed>>

Branch(b) ==
  Lock(b) \/ Occupy(b) \/ EnterNode(b) \/ RunTest(b) \/ LeaveNode(b) \/ Unlock(b)

Next ==
  \/ \E b \in Branches : Branch(b)
  \/ \E c \in Builds : Archive(c)

\* While some branch can go on, some branch does.  Nothing is asked of the order in
\* which the lock manager and the nodes serve those who wait.
Spec == Init /\ [][Next]_vars /\ WF_vars(Next)

-----------------------------------------------------------------------------
(* Properties                                                              *)

\* Two tests of a build never have the same node, however their locks, their
\* choices and their ends interleave.
SiblingsApart ==
  \A c \in Builds : \A s, t \in TestsOf[c] :
    s # t /\ node[<<c, s>>] # NoNode => node[<<c, s>>] # node[<<c, t>>]

\* No resource has two labels that tests of a build ask for.
LabelsDisjoint ==
  \A n \in Nodes : \A s, t \in Tests :
    LabelOf[s] \in labelsOf[n] /\ LabelOf[t] \in labelsOf[n] => LabelOf[s] = LabelOf[t]

\* A branch whose lock has been granted always finds a resource of its build that no
\* sibling uses: "There is no available resources" is never the answer.
LockIsEnough ==
  LabelsDisjoint =>
    \A b \in Branches : pc[b] = "locked" => Available(b[1], LabelOf[b[2]]) # {}

\* used_resources names the nodes that the tests of the build are on and no other, so
\* no node is lost to the tests still to come.
UsedIsInUse ==
  \A c \in Builds : used[c] = {node[<<c, t>>] : t \in TestsOf[c]} \ {NoNode}

\* Every build ends, and all locks are free again.
BuildsEnd ==
  <>[](/\ \A c \in Builds : archive[c] # "none"
       /\ \A n \in Nodes : ~Locked(n))

\* "Occupy an avaliable resource which contains the label" (FunctionTest.groovy): the
\* node that a test has is locked by a build's lock step for as long as it has it.
NodeIsLocked ==
  \A b \in Branches : node[b] # NoNode => node[b] \in HeldBy(b[1])
=============================================================================
