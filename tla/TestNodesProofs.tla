--------------------------- MODULE TestNodesProofs ---------------------------
(***************************************************************************)
(* Proofs about the sharing of the test machines, for any number of        *)
(* builds, tests and machines and any labels.                              *)
(***************************************************************************)
EXTENDS TestNodes, FiniteSetTheorems, WellFoundedInduction, TLAPS

\* A branch holds a resource with its label from its lock step to the end of it, and
\* no other branch of any build holds the same.
LockInv ==
  /\ \A b \in Branches : lock[b] = NoNode <=> pc[b] \in {"queued", "ended"}
  /\ \A b \in Branches : lock[b] # NoNode => LabelOf[b[2]] \in labelsOf[lock[b]]
  /\ \A a, b \in Branches : a # b /\ lock[a] # NoNode => lock[a] # lock[b]

\* A branch has a node with its label from the choice to the finally.
NodeInv ==
  \A b \in Branches :
    /\ node[b] = NoNode <=> pc[b] \notin {"assigned", "testing", "left"}
    /\ node[b] # NoNode => LabelOf[b[2]] \in labelsOf[node[b]]

IInv == TypeOK /\ LockInv /\ NodeInv /\ SiblingsApart /\ UsedIsInUse

-----------------------------------------------------------------------------

\* What the minimum of a set of numbers is.
LEMMA MinProperty ==
  ASSUME NEW S, S \subseteq Nat, S # {}
  PROVE  Min(S) \in S
<1> DEFINE R == {p \in Nat \X Nat : p[1] < p[2]}
<1>1. IsWellFoundedOn(R, Nat)
  BY NatLessThanWellFounded DEF OpToRel
<1>2. PICK x \in S : \A y \in S : <<y, x>> \notin R
  BY <1>1, WFMin
<1>3. ASSUME NEW y \in S PROVE x =< y
  <2>1. <<y, x>> \in Nat \X Nat /\ <<y, x>> \notin R
    BY <1>2
  <2>2. ~ (y < x)
    BY <2>1
  <2> QED BY <2>2
<1> QED
  BY <1>3 DEF Min

\* A branch is a pair of a build and one of its tests.
LEMMA BranchPairs ==
  /\ \A c \in Builds : \A t \in TestsOf[c] : <<c, t>> \in Branches
  /\ \A b \in Branches : b[1] \in Builds /\ b[2] \in TestsOf[b[1]] /\ b = <<b[1], b[2]>>
BY NodesAssumption DEF Branches

\* NoNode is no node, and what can be chosen is one with the right label that no
\* sibling has.
LEMMA AvailableNode ==
  ASSUME TypeOK, NEW b \in Branches, Available(b[1], LabelOf[b[2]]) # {}
  PROVE  LET n == Min(Available(b[1], LabelOf[b[2]]))
         IN  /\ n \in Nodes /\ n # NoNode
             /\ LabelOf[b[2]] \in labelsOf[n]
             /\ n \notin used[b[1]]
<1>1. HeldBy(b[1]) \subseteq Nodes
  <2>1. \A t \in TestsOf[b[1]] : <<b[1], t>> \in Branches
    BY BranchPairs
  <2>2. \A t \in TestsOf[b[1]] : lock[<<b[1], t>>] \in Nodes \union {NoNode}
    BY <2>1 DEF TypeOK
  <2> QED BY <2>2 DEF HeldBy
<1>2. Available(b[1], LabelOf[b[2]]) \subseteq Nat
  BY <1>1, NodesAssumption DEF Available, WithLabel
<1>3. Min(Available(b[1], LabelOf[b[2]])) \in Available(b[1], LabelOf[b[2]])
  BY <1>2, MinProperty
<1> QED
  BY <1>1, <1>3, NodesAssumption DEF Available, WithLabel, NoNode

\* The builds start with nothing locked and nothing in use.
LEMMA InitIInv == Init => IInv
<1> SUFFICES ASSUME Init PROVE IInv
  OBVIOUS
<1>1. TypeOK
  BY DEF Init, TypeOK
<1>2. LockInv /\ NodeInv
  BY DEF Init, LockInv, NodeInv
<1>3. \A c \in Builds : \A t \in TestsOf[c] : node[<<c, t>>] = NoNode
  BY BranchPairs DEF Init
<1>4. SiblingsApart
  BY <1>3 DEF SiblingsApart
<1>5. UsedIsInUse
  BY <1>3 DEF Init, UsedIsInUse
<1> QED
  BY <1>1, <1>2, <1>4, <1>5 DEF IInv

\* A step keeps the types: the only value that is not copied is the chosen node.
LEMMA NextTypeOK == TypeOK /\ [Next]_vars => TypeOK'
<1> SUFFICES ASSUME TypeOK, [Next]_vars PROVE TypeOK'
  OBVIOUS
<1> USE DEF TypeOK
<1>1. ASSUME NEW b \in Branches, Lock(b) PROVE TypeOK'
  BY <1>1 DEF Lock, WithLabel
<1>2. ASSUME NEW b \in Branches, Occupy(b) PROVE TypeOK'
  <2>1. CASE Available(b[1], LabelOf[b[2]]) # {}
    <3> DEFINE n == Min(Available(b[1], LabelOf[b[2]]))
    <3>1. n \in Nodes
      BY <2>1, AvailableNode
    <3>2. /\ used' = [used EXCEPT ![b[1]] = @ \union {n}]
          /\ node' = [node EXCEPT ![b] = n]
          /\ pc' = [pc EXCEPT ![b] = "assigned"]
          /\ UNCHANGED <<labelsOf, lock, outcome, stashed, archive>>
      BY <1>2, <2>1 DEF Occupy
    <3> HIDE DEF n
    <3> QED BY <3>1, <3>2
  <2>2. CASE Available(b[1], LabelOf[b[2]]) = {}
    BY <1>2, <2>2 DEF Occupy
  <2> QED BY <2>1, <2>2
<1>3. ASSUME NEW b \in Branches, EnterNode(b) PROVE TypeOK'
  BY <1>3 DEF EnterNode
<1>4. ASSUME NEW b \in Branches, RunTest(b) PROVE TypeOK'
  <2>1. PICK body \in TestBodies :
          /\ outcome' = [outcome EXCEPT ![b] = body.outcome]
          /\ stashed' = IF body.stash THEN [stashed EXCEPT ![b[1]] = @ \union {b[2]}]
                        ELSE stashed
    BY <1>4 DEF RunTest
  <2>2. body.outcome \in {"pass", "fail"}
    BY DEF TestBodies
  <2>3. stashed' \in [Builds -> SUBSET Tests]
    BY <2>1, NodesAssumption DEF Branches
  <2> QED BY <1>4, <2>1, <2>2, <2>3 DEF RunTest
<1>5. ASSUME NEW b \in Branches, LeaveNode(b) PROVE TypeOK'
  BY <1>5 DEF LeaveNode, Forget
<1>6. ASSUME NEW b \in Branches, Unlock(b) PROVE TypeOK'
  BY <1>6 DEF Unlock
<1>7. ASSUME NEW c \in Builds, Archive(c) PROVE TypeOK'
  BY <1>7 DEF Archive
<1>8. CASE UNCHANGED vars
  BY <1>8 DEF vars
<1> QED
  BY <1>1, <1>2, <1>3, <1>4, <1>5, <1>6, <1>7, <1>8 DEF Next, Branch

\* A step keeps the locks apart: the lock manager gives a resource to one branch only.
LEMMA NextLock == IInv /\ [Next]_vars => LockInv'
<1> SUFFICES ASSUME IInv, [Next]_vars PROVE LockInv'
  OBVIOUS
<1> USE DEF IInv, TypeOK, LockInv
<1>1. ASSUME NEW b \in Branches, Lock(b) PROVE LockInv'
  <2>1. PICK n \in WithLabel(Nodes, LabelOf[b[2]]) :
          ~Locked(n) /\ lock' = [lock EXCEPT ![b] = n]
    BY <1>1 DEF Lock
  <2>2. n # NoNode /\ LabelOf[b[2]] \in labelsOf[n] /\ \A a \in Branches : lock[a] # n
    BY <2>1, NodesAssumption DEF WithLabel, NoNode, Locked
  <2>3. pc' = [pc EXCEPT ![b] = "locked"] /\ UNCHANGED labelsOf
    BY <1>1 DEF Lock
  <2> QED BY <2>1, <2>2, <2>3
<1>2. ASSUME NEW b \in Branches, Occupy(b) PROVE LockInv'
  <2>1. /\ UNCHANGED <<labelsOf, lock>> /\ pc[b] = "locked"
        /\ \A a \in Branches : pc'[a] = pc[a] \/ (a = b /\ pc'[a] \in {"assigned", "leaving"})
    BY <1>2 DEF Occupy
  <2> QED BY <2>1
<1>3. ASSUME NEW b \in Branches, EnterNode(b) \/ RunTest(b) \/ LeaveNode(b)
      PROVE  LockInv'
  <2>1. /\ UNCHANGED <<labelsOf, lock>> /\ pc[b] \in {"assigned", "testing", "left"}
        /\ \A a \in Branches : pc'[a] = pc[a] \/ (a = b /\ pc'[a] \in {"testing", "left", "leaving"})
    BY <1>3 DEF EnterNode, RunTest, LeaveNode
  <2> QED BY <2>1
<1>4. ASSUME NEW b \in Branches, Unlock(b) PROVE LockInv'
  BY <1>4 DEF Unlock
<1>5. CASE UNCHANGED <<labelsOf, pc, lock>>
  BY <1>5
<1> QED
  BY <1>1, <1>2, <1>3, <1>4, <1>5 DEF Next, Branch, Archive, vars

\* What a choice does to the nodes and to the list, if there is something to choose.
LEMMA Chosen ==
  ASSUME TypeOK, NEW b \in Branches, Occupy(b), Available(b[1], LabelOf[b[2]]) # {}
  PROVE  \E n \in Nodes :
           /\ n # NoNode /\ LabelOf[b[2]] \in labelsOf[n] /\ n \notin used[b[1]]
           /\ used' = [used EXCEPT ![b[1]] = @ \union {n}]
           /\ node' = [node EXCEPT ![b] = n]
           /\ pc' = [pc EXCEPT ![b] = "assigned"]
           /\ UNCHANGED labelsOf
BY AvailableNode DEF Occupy

\* A step keeps the nodes with the branches that are on them.
LEMMA NextNode == IInv /\ [Next]_vars => NodeInv'
<1> SUFFICES ASSUME IInv, [Next]_vars PROVE NodeInv'
  OBVIOUS
<1> USE DEF IInv, TypeOK, NodeInv
<1>1. ASSUME NEW b \in Branches, Occupy(b) PROVE NodeInv'
  <2>1. CASE Available(b[1], LabelOf[b[2]]) # {}
    BY <1>1, <2>1, Chosen
  <2>2. CASE Available(b[1], LabelOf[b[2]]) = {}
    BY <1>1, <2>2 DEF Occupy
  <2> QED BY <2>1, <2>2
<1>2. ASSUME NEW b \in Branches, Lock(b) PROVE NodeInv'
  BY <1>2 DEF Lock
<1>3. ASSUME NEW b \in Branches, EnterNode(b) \/ RunTest(b) PROVE NodeInv'
  BY <1>3 DEF EnterNode, RunTest
<1>4. ASSUME NEW b \in Branches, LeaveNode(b) PROVE NodeInv'
  BY <1>4 DEF LeaveNode
<1>5. ASSUME NEW b \in Branches, Unlock(b) PROVE NodeInv'
  BY <1>5 DEF Unlock
<1>6. CASE UNCHANGED <<labelsOf, pc, node>>
  BY <1>6
<1> QED
  BY <1>1, <1>2, <1>3, <1>4, <1>5, <1>6 DEF Next, Branch, Archive, vars

\* The nodes of a build's tests after the node of one of its branches has changed.
LEMMA NodeChanges ==
  ASSUME NEW b \in Branches, NEW n,
         \A a \in Branches : node'[a] = IF a = b THEN n ELSE node[a]
  PROVE  \A c \in Builds : \A t \in TestsOf[c] :
           node'[<<c, t>>] = IF c = b[1] /\ t = b[2] THEN n ELSE node[<<c, t>>]
<1>1. b = <<b[1], b[2]>>
  BY BranchPairs
<1>2. ASSUME NEW c \in Builds, NEW t \in TestsOf[c]
      PROVE  node'[<<c, t>>] = IF c = b[1] /\ t = b[2] THEN n ELSE node[<<c, t>>]
  <2>1. <<c, t>> \in Branches
    BY BranchPairs
  <2>2. node'[<<c, t>>] = IF <<c, t>> = b THEN n ELSE node[<<c, t>>]
    BY <2>1
  <2>3. <<c, t>> = b <=> c = b[1] /\ t = b[2]
    BY <1>1
  <2> QED BY <2>2, <2>3, Zenon
<1> QED
  BY <1>2, Zenon

\* A value joins what a function takes its arguments to when one gets it whose value
\* was NoNode (a branch chooses its node).
LEMMA ImageGrows ==
  ASSUME NEW T, NEW s \in T, NEW f, NEW g, NEW n, n # NoNode, f[s] = NoNode,
         \A t \in T : g[t] = IF t = s THEN n ELSE f[t]
  PROVE  {g[t] : t \in T} \ {NoNode} = ({f[t] : t \in T} \ {NoNode}) \union {n}
OBVIOUS

\* A value leaves what a function takes its arguments to when the only argument that
\* has it gets NoNode (a branch leaves its node).
LEMMA ImageShrinks ==
  ASSUME NEW T, NEW s \in T, NEW f, NEW g, NEW n, f[s] = n,
         \A t \in T : t # s => f[t] # n,
         \A t \in T : g[t] = IF t = s THEN NoNode ELSE f[t]
  PROVE  {g[t] : t \in T} \ {NoNode} = ({f[t] : t \in T} \ {NoNode}) \ {n}
OBVIOUS

\* A step keeps siblings apart and the list exact.  The two need each other: a choice
\* avoids what is on the list, and a branch that leaves takes its node off the list,
\* which no sibling has.
LEMMA NextUsed == IInv /\ [Next]_vars => SiblingsApart' /\ UsedIsInUse'
<1> SUFFICES ASSUME IInv, [Next]_vars PROVE SiblingsApart' /\ UsedIsInUse'
  OBVIOUS
<1> DEFINE f(c) == [t \in TestsOf[c] |-> node[<<c, t>>]]
           g(c) == [t \in TestsOf[c] |-> node'[<<c, t>>]]
           In(h, c) == {h[t] : t \in TestsOf[c]} \ {NoNode}
<1>1. node \in [Branches -> Nodes \union {NoNode}]
  BY DEF IInv, TypeOK
<1>2. used \in [Builds -> SUBSET Nodes]
  BY DEF IInv, TypeOK
<1>3. ASSUME NEW c \in Builds PROVE used[c] = In(f(c), c)
  BY DEF IInv, UsedIsInUse
<1>4. ASSUME \A c \in Builds : used'[c] = In(g(c), c) PROVE UsedIsInUse'
  BY <1>4 DEF UsedIsInUse
<1>5. ASSUME NEW c \in Builds, \A t \in TestsOf[c] : g(c)[t] = f(c)[t],
             used'[c] = used[c]
      PROVE  used'[c] = In(g(c), c)
  <2> HIDE DEF f, g
  <2>1. In(g(c), c) = In(f(c), c)
    BY <1>5
  <2> QED BY <1>3, <1>5, <2>1
<1>6. ASSUME NEW b \in Branches, NEW n \in Nodes,
             n # NoNode, n \notin used[b[1]], node[b] = NoNode,
             used' = [used EXCEPT ![b[1]] = @ \union {n}], node' = [node EXCEPT ![b] = n]
      PROVE  SiblingsApart' /\ UsedIsInUse'
  <2>0. \A a \in Branches : node'[a] = IF a = b THEN n ELSE node[a]
    BY <1>1, <1>6
  <2>1. \A c \in Builds : \A t \in TestsOf[c] :
          node'[<<c, t>>] = IF c = b[1] /\ t = b[2] THEN n ELSE node[<<c, t>>]
    BY <2>0, NodeChanges
  <2>2. \A c \in Builds : used'[c] = IF c = b[1] THEN used[c] \union {n} ELSE used[c]
    BY <1>2, <1>6
  <2>3. b[1] \in Builds /\ b[2] \in TestsOf[b[1]] /\ node[<<b[1], b[2]>>] = NoNode
    BY <1>6, BranchPairs
  <2>4. \A t \in TestsOf[b[1]] : node[<<b[1], t>>] # n
    BY <1>6, <2>3 DEF IInv, UsedIsInUse
  <2>5. SiblingsApart'
    BY <1>6, <2>1, <2>3, <2>4 DEF IInv, SiblingsApart
  <2>6. ASSUME NEW c \in Builds, c = b[1] PROVE used'[c] = In(g(c), c)
    <3>1. \A t \in TestsOf[c] : g(c)[t] = IF t = b[2] THEN n ELSE f(c)[t]
      BY <2>1, <2>6
    <3>2. b[2] \in TestsOf[c] /\ f(c)[b[2]] = NoNode /\ n # NoNode
      BY <1>6, <2>3, <2>6
    <3> HIDE DEF f, g
    <3>3. In(g(c), c) = In(f(c), c) \union {n}
      BY <3>1, <3>2, ImageGrows
    <3> QED BY <1>3, <2>2, <2>6, <3>3
  <2>7. ASSUME NEW c \in Builds, c # b[1] PROVE used'[c] = In(g(c), c)
    BY <1>5, <2>1, <2>2, <2>7
  <2> QED BY <1>4, <2>5, <2>6, <2>7
<1>7. ASSUME NEW b \in Branches, Occupy(b) PROVE SiblingsApart' /\ UsedIsInUse'
  <2>1. CASE Available(b[1], LabelOf[b[2]]) # {}
    <3>1. node[b] = NoNode
      BY <1>7 DEF Occupy, IInv, NodeInv
    <3>2. PICK n \in Nodes :
            /\ n # NoNode /\ n \notin used[b[1]]
            /\ used' = [used EXCEPT ![b[1]] = @ \union {n}]
            /\ node' = [node EXCEPT ![b] = n]
      BY <1>7, <2>1, Chosen DEF IInv
    <3> QED BY <1>6, <3>1, <3>2
  <2>2. CASE Available(b[1], LabelOf[b[2]]) = {}
    BY <1>7, <2>2 DEF Occupy, IInv, SiblingsApart, UsedIsInUse
  <2> QED BY <2>1, <2>2
<1>8. ASSUME NEW b \in Branches, LeaveNode(b) PROVE SiblingsApart' /\ UsedIsInUse'
  <2>0. \A a \in Branches : node'[a] = IF a = b THEN NoNode ELSE node[a]
    BY <1>1, <1>8 DEF LeaveNode
  <2>1. \A c \in Builds : \A t \in TestsOf[c] :
          node'[<<c, t>>] = IF c = b[1] /\ t = b[2] THEN NoNode ELSE node[<<c, t>>]
    BY <2>0, NodeChanges
  <2>2. \A c \in Builds :
          used'[c] = IF c = b[1] THEN used[c] \ {node[b]} ELSE used[c]
    BY <1>2, <1>8 DEF LeaveNode, Forget
  <2>3. b[1] \in Builds /\ b[2] \in TestsOf[b[1]] /\ b = <<b[1], b[2]>>
    BY BranchPairs
  <2>4. node[b] # NoNode
    BY <1>8 DEF LeaveNode, IInv, NodeInv
  <2>5. \A t \in TestsOf[b[1]] : t # b[2] => node[<<b[1], t>>] # node[<<b[1], b[2]>>]
    BY <2>3, <2>4 DEF IInv, SiblingsApart
  <2>6. SiblingsApart'
    BY <2>1 DEF IInv, SiblingsApart
  <2>7. ASSUME NEW c \in Builds, c = b[1] PROVE used'[c] = In(g(c), c)
    <3>1. \A t \in TestsOf[c] : g(c)[t] = IF t = b[2] THEN NoNode ELSE f(c)[t]
      BY <2>1, <2>7
    <3>2. /\ b[2] \in TestsOf[c] /\ f(c)[b[2]] = node[b]
          /\ \A t \in TestsOf[c] : t # b[2] => f(c)[t] # node[b]
      BY <2>3, <2>5, <2>7
    <3> HIDE DEF f, g
    <3>3. In(g(c), c) = In(f(c), c) \ {node[b]}
      BY <3>1, <3>2, ImageShrinks
    <3> QED BY <1>3, <2>2, <2>7, <3>2, <3>3
  <2>8. ASSUME NEW c \in Builds, c # b[1] PROVE used'[c] = In(g(c), c)
    BY <1>5, <2>1, <2>2, <2>8
  <2> QED BY <1>4, <2>6, <2>7, <2>8
<1>9. CASE UNCHANGED <<used, node>>
  BY <1>9 DEF IInv, SiblingsApart, UsedIsInUse
<1> QED
  BY <1>7, <1>8, <1>9
  DEF Next, Branch, Lock, EnterNode, RunTest, Unlock, Archive, vars

-----------------------------------------------------------------------------

\* The inductive invariant holds of every behaviour of the builds.
THEOREM NodesInvariant == Spec => []IInv
<1>1. IInv /\ [Next]_vars => IInv'
  BY NextTypeOK, NextLock, NextNode, NextUsed DEF IInv
<1> QED
  BY InitIInv, <1>1, PTL DEF Spec

\* Every variable keeps its type; a branch past its choice has a node that exists.
THEOREM TypeCorrect == Spec => []TypeOK
BY NodesInvariant, PTL DEF IInv

\* Two tests of a build never have the same node, whatever the labels.
THEOREM SiblingsStayApart == Spec => []SiblingsApart
BY NodesInvariant, PTL DEF IInv

\* used_resources is exactly what is in use: no node is lost to the tests to come.
THEOREM UsedStaysExact == Spec => []UsedIsInUse
BY NodesInvariant, PTL DEF IInv

-----------------------------------------------------------------------------
(* A granted lock is enough.                                               *)

\* Where labels do not overlap, a branch that has just got its lock finds a resource
\* that no sibling uses.  If it did not, each resource that the build holds under the
\* label would be the node of a sibling with the same label; but there are fewer
\* siblings with a node than branches with a lock.
LEMMA EnoughInEveryState == IInv => LockIsEnough
<1> SUFFICES ASSUME IInv, LabelsDisjoint, NEW b \in Branches, pc[b] = "locked",
                    Available(b[1], LabelOf[b[2]]) = {}
             PROVE  FALSE
  BY DEF LockIsEnough
<1> DEFINE c == b[1]
           l == LabelOf[b[2]]
           Lockers == {t \in TestsOf[c] : LabelOf[t] = l /\ lock[<<c, t>>] # NoNode}
           Users == {t \in Lockers : node[<<c, t>>] # NoNode}
           f == [s \in Lockers |->
                   CHOOSE t \in Users : node[<<c, t>>] = lock[<<c, s>>]]
<1>1. c \in Builds /\ b[2] \in TestsOf[c] /\ b = <<c, b[2]>>
  BY BranchPairs
<1>2. \A t \in TestsOf[c] : <<c, t>> \in Branches /\ t \in Tests
  BY <1>1, BranchPairs, NodesAssumption
<1>3. ASSUME NEW s \in Lockers
      PROVE  \E t \in Users : node[<<c, t>>] = lock[<<c, s>>]
  <2>1. /\ <<c, s>> \in Branches /\ lock[<<c, s>>] # NoNode /\ LabelOf[s] = l
        /\ <<c, s>>[2] = s
    BY <1>2
  <2>2. lock[<<c, s>>] \in Nodes /\ l \in labelsOf[lock[<<c, s>>]]
    BY <2>1 DEF IInv, TypeOK, LockInv
  <2>3. lock[<<c, s>>] \in HeldBy(c)
    BY <2>1 DEF HeldBy
  <2>4. lock[<<c, s>>] \in used[c]
    BY <2>2, <2>3 DEF Available, WithLabel
  <2>5. PICK t \in TestsOf[c] : node[<<c, t>>] = lock[<<c, s>>]
    BY <1>1, <2>4 DEF IInv, UsedIsInUse
  <2>6. <<c, t>> \in Branches /\ <<c, t>>[2] = t /\ node[<<c, t>>] # NoNode
    BY <1>2, <2>1, <2>5
  <2>7. LabelOf[t] \in labelsOf[node[<<c, t>>]]
    BY <2>6 DEF IInv, NodeInv
  <2>8. LabelOf[t] = l
    BY <1>2, <2>1, <2>2, <2>5, <2>7 DEF LabelsDisjoint
  <2>9. lock[<<c, t>>] # NoNode
    BY <2>6 DEF IInv, NodeInv, LockInv
  <2> QED BY <2>5, <2>6, <2>8, <2>9
<1>4. f \in [Lockers -> Users] /\ \A s \in Lockers : node[<<c, f[s]>>] = lock[<<c, s>>]
  BY <1>3
<1>5. b[2] \in Lockers /\ b[2] \notin Users
  BY <1>1 DEF IInv, LockInv, NodeInv
<1>6. IsFiniteSet(Lockers) /\ IsFiniteSet(Users)
  <2>1. Lockers \in SUBSET Tests /\ Users \in SUBSET Tests
    BY <1>2
  <2> QED BY <2>1, FS_Subset, NodesAssumption
<1>7. Cardinality(Users) < Cardinality(Lockers)
  <2>1. Users \in SUBSET Lockers /\ Users # Lockers
    BY <1>5
  <2>2. Cardinality(Users) <= Cardinality(Lockers) /\ Cardinality(Users) # Cardinality(Lockers)
    BY <1>6, <2>1, FS_Subset
  <2> QED BY <1>6, <2>2, FS_CardinalityType
<1>8. PICK x, y \in Lockers : x # y /\ f[x] = f[y]
  <2> HIDE DEF Lockers, Users, f
  <2> QED BY <1>4, <1>6, <1>7, FS_PigeonHole
<1>9. lock[<<c, x>>] = lock[<<c, y>>]
  BY <1>4, <1>8
<1>10. <<c, x>> \in Branches /\ <<c, y>> \in Branches /\ <<c, x>> # <<c, y>>
  BY <1>2, <1>8
<1>11. lock[<<c, x>>] # NoNode
  OBVIOUS
<1> QED
  BY <1>9, <1>10, <1>11 DEF IInv, LockInv

\* A branch with a lock never gets the answer "There is no available resources", if
\* labels do not overlap.
THEOREM LockStaysEnough == Spec => []LockIsEnough
BY NodesInvariant, EnoughInEveryState, PTL
=============================================================================
