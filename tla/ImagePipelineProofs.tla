------------------------- MODULE ImagePipelineProofs -------------------------
(***************************************************************************)
(* Proofs about the image pipeline, for any builds, images, docker nodes,  *)
(* versions, tries and executors.                                          *)
(***************************************************************************)
EXTENDS ImagePipeline, FiniteSetTheorems, WellFoundedInduction, TLAPS

Active == {"images", "post_test", "publish"}

\* Where a branch has directories.
Working == {"entered", "locked", "create", "upload", "release", "hangs"}

\* A build in one of the stages has a docker node for itself.
HeldInv ==
  /\ \A b \in Builds : stage[b] \in Active => dockerNode[b] \in DockerNodes
  /\ \A b, c \in Builds : dockerNode[b] = dockerNode[c] => b = c \/ dockerNode[b] = "none"

\* A branch is in one directory or two.
OneOrTwo(D) == \E x, y \in Dirs : D = {x, y}

DirsInv ==
  /\ tries \in [Builds -> [Images -> Nat]]
  /\ \A b \in Builds : \A i \in Images :
       /\ at[b][i] \in Working => OneOrTwo(dirs[b][i])
       /\ dirs[b][i] = {} \/ OneOrTwo(dirs[b][i])

\* From the end of its docker build to the push, the daemon has the images of the build.
DaemonInv ==
  \A b \in Builds :
    /\ stage[b] = "lock" => at[b]["docker"] = "start"
    /\ stage[b] = "images" /\ at[b]["docker"] = "ok" => daemon[dockerNode[b]] = b
    /\ stage[b] = "post_test" => daemon[dockerNode[b]] = b
    /\ stage[b] = "publish" /\ at[b]["docker"] \notin {"ok", "failed"} =>
         daemon[dockerNode[b]] = b

\* What a build has tested is of its version, and its docker images are its own.
TestedInv ==
  \A b \in Builds : \A i \in Images :
    /\ tested[b][i] # Nobody =>
         /\ VersionOf[tested[b][i]] = VersionOf[b]
         /\ i = "docker" => tested[b][i] = b
    /\ stage[b] = "post_test" /\ at[b][i] = "ok" => tested[b][i] # Nobody
    /\ stage[b] \in {"publish", "done"} => tested[b][i] # Nobody

\* What is published is of builds that have tested everything.
OriginInv ==
  /\ \A v \in BoxVersions : \A i \in Images :
       atlas[v].box # Nobody => tested[atlas[v].box][i] # Nobody
  /\ \A p \in hub : p[2] = p[1] /\ tested[p[1]]["docker"] # Nobody

\* A branch that has published has published.
PublishedInv ==
  /\ \A b \in Builds :
       /\ stage[b] = "publish" /\ at[b]["docker"] = "ok" => <<b, b>> \in hub
       /\ "vagrant" \in Images /\ stage[b] = "publish" /\ at[b]["vagrant"] = "ok" =>
            atlas[BoxVersionOf[b]].released
  /\ DoneIsPublished

IInv ==
  /\ TypeOK /\ HeldInv /\ DirsInv /\ DaemonInv /\ TestedInv /\ OriginInv /\ PublishedInv

-----------------------------------------------------------------------------

\* A set of numbers that is not empty has a least one.
LEMMA MinIsElement ==
  ASSUME NEW S \in SUBSET Nat, S # {}
  PROVE  Min(S) \in S
<1> DEFINE less == {p \in Nat \X Nat : p[1] < p[2]}
<1>1. IsWellFoundedOn(less, Nat)
  BY NatLessThanWellFounded DEF OpToRel
<1>2. PICK x \in S : \A y \in S : <<y, x>> \notin less
  BY <1>1, WFMin
<1>3. ASSUME NEW y \in S PROVE x <= y
  <2>1. ~ (y < x)
    BY <1>2
  <2> QED BY <2>1
<1> QED
  BY <1>3 DEF Min

\* The last of one or two directories is one of them.
LEMMA MaxIsElement ==
  ASSUME NEW D, OneOrTwo(D)
  PROVE  Max(D) \in D /\ D \subseteq Dirs
<1>1. PICK x, y \in Dirs : D = {x, y}
  BY DEF OneOrTwo
<1>2. x \in Nat /\ y \in Nat
  BY PipelineAssumption DEF Dirs
<1>3. \E z \in D : \A w \in D : z >= w
  BY <1>1, <1>2
<1> QED
  BY <1>1, <1>3 DEF Max

\* The branches on a node are in at most twice as many directories.
LEMMA DirsOfBranches ==
  ASSUME NEW n, DirsInv
  PROVE  /\ IsFiniteSet(Inside(n)) /\ Cardinality(Inside(n)) \in Nat
         /\ LET U == UNION {dirs[c[1]][c[2]] : c \in Inside(n)}
            IN  U \subseteq Dirs /\ IsFiniteSet(U) /\ Cardinality(U) <= 2 * Cardinality(Inside(n))
<1> DEFINE I == Inside(n)
           U == UNION {dirs[c[1]][c[2]] : c \in I}
           lo == [c \in I |-> CHOOSE x \in Dirs : \E y \in Dirs : dirs[c[1]][c[2]] = {x, y}]
           hi == [c \in I |-> CHOOSE y \in Dirs : dirs[c[1]][c[2]] = {lo[c], y}]
           L == {lo[c] : c \in I}
           H == {hi[c] : c \in I}
<1>1. IsFiniteSet(I)
  <2>1. IsFiniteSet(Images)
    <3>1. IsFiniteSet({"vagrant", "ova", "docker"})
      <4>1. IsFiniteSet({} \union {"vagrant"})
        BY FS_EmptySet, FS_AddElement
      <4>2. IsFiniteSet(({} \union {"vagrant"}) \union {"ova"})
        BY <4>1, FS_AddElement
      <4>3. IsFiniteSet((({} \union {"vagrant"}) \union {"ova"}) \union {"docker"})
        BY <4>2, FS_AddElement
      <4>4. {"vagrant", "ova", "docker"} =
              (({} \union {"vagrant"}) \union {"ova"}) \union {"docker"}
        OBVIOUS
      <4> QED
        BY <4>3, <4>4
    <3> QED
      BY <3>1, FS_Subset, PipelineAssumption
  <2>2. IsFiniteSet(Branches)
    BY <2>1, FS_Product, PipelineAssumption DEF Branches
  <2> QED
    BY <2>2, FS_Subset DEF Inside
<1>2. Cardinality(I) \in Nat
  BY <1>1, FS_CardinalityType
<1>3. ASSUME NEW c \in I
      PROVE  lo[c] \in Dirs /\ hi[c] \in Dirs /\ dirs[c[1]][c[2]] = {lo[c], hi[c]}
  <2>1. OneOrTwo(dirs[c[1]][c[2]])
    BY DEF Inside, Branches, DirsInv
  <2>2. \E x \in Dirs : \E y \in Dirs : dirs[c[1]][c[2]] = {x, y}
    BY <2>1 DEF OneOrTwo
  <2>3. lo[c] \in Dirs /\ \E y \in Dirs : dirs[c[1]][c[2]] = {lo[c], y}
    BY <2>2
  <2> QED
    BY <2>3
<1> HIDE DEF lo, hi, I
<1>4. U \subseteq L \union H /\ L \union H \subseteq Dirs
  BY <1>3
<1>5. /\ DOMAIN lo = I /\ DOMAIN hi = I
      /\ lo = [c \in I |-> lo[c]] /\ hi = [c \in I |-> hi[c]]
  BY DEF lo, hi
<1>6. lo \in Surjection(I, L) /\ hi \in Surjection(I, H)
  BY <1>5 DEF Surjection
<1>7. /\ IsFiniteSet(L) /\ Cardinality(L) <= Cardinality(I)
      /\ IsFiniteSet(H) /\ Cardinality(H) <= Cardinality(I)
  BY <1>1, <1>6, FS_Surjection
<1>8. IsFiniteSet(L \union H) /\ Cardinality(L \union H) <= 2 * Cardinality(I)
  <2> HIDE DEF L, H
  <2>1. IsFiniteSet(L \cap H)
    BY <1>7, FS_Subset
  <2>2. /\ Cardinality(L) \in Nat /\ Cardinality(H) \in Nat /\ Cardinality(L \cap H) \in Nat
    BY <1>7, <2>1, FS_CardinalityType
  <2> QED
    BY <1>2, <1>7, <2>2, FS_Union
<1>9. IsFiniteSet(U) /\ Cardinality(U) <= Cardinality(L \union H)
  <2> HIDE DEF U, L, H
  <2> QED
    BY <1>4, <1>8, FS_Subset
<1>10. Cardinality(U) \in Nat /\ Cardinality(L \union H) \in Nat
  BY <1>8, <1>9, FS_CardinalityType
<1> QED
  BY <1>1, <1>2, <1>4, <1>8, <1>9, <1>10 DEF I

\* Where a branch may enter a node there are two directories for it, and it takes one or
\* both.
LEMMA TakenType ==
  ASSUME DirsInv, NEW b, NEW i, Cardinality(Inside(NodeOf(b, i))) < Executors
  PROVE  OneOrTwo(Taken(b, i))
<1> DEFINE n == NodeOf(b, i)
           U == UNION {dirs[c[1]][c[2]] : c \in Inside(n)}
           more == Free(n) \ {Min(Free(n))}
<1>1. /\ U \subseteq Dirs /\ IsFiniteSet(U) /\ Cardinality(U) <= 2 * Cardinality(Inside(n))
      /\ Cardinality(Inside(n)) \in Nat
  BY DirsOfBranches
<1>2. Executors \in Nat /\ 2 * Executors \in Nat
  BY PipelineAssumption
<1>3. IsFiniteSet(Dirs) /\ Cardinality(Dirs) = 2 * Executors /\ Dirs \subseteq Nat
  <2>1. 2 * Executors \in Int /\ 1 \in Int /\ 2 * Executors >= 1
    BY <1>2, PipelineAssumption
  <2> QED
    BY <2>1, FS_Interval DEF Dirs
<1>4. Free(n) = Dirs \ U /\ Free(n) \subseteq Nat
  BY <1>3 DEF Free
<1> HIDE DEF n, U
<1>5. IsFiniteSet(Free(n)) /\ Cardinality(Free(n)) \in Nat
  BY <1>3, <1>4, FS_Subset, FS_CardinalityType
<1>6. Cardinality(Free(n)) >= 2
  <2>1. Dirs = Free(n) \union U /\ Free(n) \cap U = {}
    BY <1>1, <1>4
  <2>2. Cardinality(Dirs) = Cardinality(Free(n)) + Cardinality(U) - Cardinality(Free(n) \cap U)
    BY <1>1, <1>5, <2>1, FS_Union
  <2>3. Cardinality(Free(n) \cap U) = 0
    BY <2>1, FS_EmptySet
  <2>4. Cardinality(U) \in Nat
    BY <1>1, FS_CardinalityType
  <2> QED
    BY <1>1, <1>2, <1>3, <1>5, <2>2, <2>3, <2>4 DEF n
<1>7. Free(n) # {} /\ Min(Free(n)) \in Free(n)
  BY <1>4, <1>6, FS_EmptySet, MinIsElement
<1>8. more # {} /\ Min(more) \in more
  <2>1. IsFiniteSet(more) /\ Cardinality(more) = Cardinality(Free(n)) - 1
    BY <1>5, <1>7, FS_RemoveElement
  <2>2. more # {}
    BY <1>5, <1>6, <2>1, FS_EmptySet
  <2> QED
    BY <1>4, <2>2, MinIsElement
<1>9. Min(Free(n)) \in Dirs /\ Min(more) \in Dirs
  BY <1>4, <1>7, <1>8
<1>10. Taken(b, i) = {Min(Free(n))} \/ Taken(b, i) = {Min(Free(n)), Min(more)}
  BY DEF Taken, n
<1> QED
  BY <1>9, <1>10 DEF OneOrTwo

-----------------------------------------------------------------------------

LEMMA DockerIsAnImage == "docker" \in Images /\ Images \subseteq {"vagrant", "ova", "docker"}
BY PipelineAssumption

\* No build is Nobody, and no docker node is the node of another image, or none.
LEMMA ConstantTypes ==
  /\ Nobody \notin Builds
  /\ "none" \notin DockerNodes /\ Images \cap DockerNodes \subseteq {"docker"}
BY PipelineAssumption DEF Nobody

\* The branches of a build in one of the stages are on nodes there are.
LEMMA NodeType ==
  ASSUME HeldInv, NEW b \in Builds, NEW i \in Images, stage[b] \in Active
  PROVE  dockerNode[b] \in DockerNodes /\ NodeOf(b, i) \in Nodes
BY DEF HeldInv, NodeOf, Nodes

\* The directory that a branch works in.
LEMMA WorkspaceType ==
  ASSUME DirsInv, NEW b \in Builds, NEW i \in Images, at[b][i] \in Working
  PROVE  Workspace(b, i) \in Dirs
BY MaxIsElement DEF DirsInv, Workspace

\* Nobody else has a part in the docker node of a build.
LEMMA OwnNode ==
  ASSUME HeldInv, NEW b \in Builds, NEW c \in Builds, stage[b] \in Active,
         dockerNode[c] = dockerNode[b]
  PROVE  c = b
BY ConstantTypes DEF HeldInv

\* The builds start with nothing built.
LEMMA Initially == Init => IInv
<1> SUFFICES ASSUME Init PROVE IInv
  OBVIOUS
<1>1. TypeOK
  <2>1. atlas \in [BoxVersions -> [exists : BOOLEAN, box : Builds \union {Nobody},
                                   released : BOOLEAN]]
    BY DEF Init, Unknown
  <2>2. \A b \in Builds, i \in Images : 1 \in 1..MaxTries[b][i]
    BY PipelineAssumption
  <2>3. /\ DOMAIN tries = Builds /\ \A b \in Builds : DOMAIN tries[b] = Images
        /\ \A b \in Builds, i \in Images : tries[b][i] \in 1..MaxTries[b][i]
    BY <2>2 DEF Init
  <2>4. files \in [Nodes -> [Dirs -> Builds \union {Nobody}]]
    BY DEF Init
  <2>5. dirs \in [Builds -> [Images -> SUBSET Dirs]]
    BY DEF Init
  <2>6. path \in [Builds -> [Images -> Dirs \union {0}]]
    BY DEF Init
  <2>7. tested \in [Builds -> [Images -> Builds \union {Nobody}]]
    BY DEF Init
  <2>8. daemon \in [DockerNodes -> Builds \union {Nobody}]
    BY DEF Init
  <2> QED
    BY <2>1, <2>3, <2>4, <2>5, <2>6, <2>7, <2>8 DEF Init, TypeOK
<1>2. HeldInv /\ DirsInv /\ DaemonInv
  BY DockerIsAnImage DEF Init, HeldInv, DirsInv, DaemonInv, Active, Working
<1>3. TestedInv
  BY DEF Init, TestedInv
<1>4. OriginInv
  BY DEF Init, OriginInv, Unknown
<1>5. PublishedInv
  BY DEF Init, PublishedInv, DoneIsPublished
<1> QED
  BY <1>1, <1>2, <1>3, <1>4, <1>5 DEF IInv

\* A branch that moves, to anywhere but its end, and publishes and tests nothing, leaves
\* these parts as they are.
LEMMA BranchMoves ==
  ASSUME IInv, NEW b \in Builds, NEW i \in Images, NEW ACTION p,
         stage[b] \in Active, p # "ok", at[b][i] \notin {"ok", "failed"},
         At(b, i, p), UNCHANGED <<stage, dockerNode, tested, atlas, hub>>,
         IF i = "docker" /\ stage[b] = "images"
         THEN \E c \in Builds \union {Nobody} : daemon' = [daemon EXCEPT ![dockerNode[b]] = c]
         ELSE UNCHANGED daemon
  PROVE  HeldInv' /\ DaemonInv' /\ TestedInv' /\ OriginInv' /\ PublishedInv'
<1> USE DEF IInv, At
<1>1. /\ at' = [at EXCEPT ![b][i] = p]
      /\ stage' = stage /\ dockerNode' = dockerNode /\ tested' = tested
      /\ atlas' = atlas /\ hub' = hub
  OBVIOUS
<1>2. ASSUME NEW c \in Builds, NEW j \in Images
      PROVE  /\ at'[c][j] = IF c = b /\ j = i THEN p ELSE at[c][j]
             /\ at'[c][j] = "ok" => at[c][j] = "ok"
  BY <1>1 DEF TypeOK
<1>3. HeldInv'
  BY <1>1 DEF HeldInv
<1>4. DaemonInv'
  <2>1. ASSUME NEW c \in Builds, stage[c] \in Active,
               ~ (c = b /\ i = "docker" /\ stage[b] = "images")
        PROVE  daemon'[dockerNode[c]] = daemon[dockerNode[c]]
    <3>1. CASE i = "docker" /\ stage[b] = "images"
      <4>1. dockerNode[c] # dockerNode[b]
        BY <2>1, <3>1, OwnNode
      <4>2. dockerNode[c] \in DockerNodes
        BY <2>1, DockerIsAnImage, NodeType
      <4>3. PICK image \in Builds \union {Nobody} :
              daemon' = [daemon EXCEPT ![dockerNode[b]] = image]
        BY <3>1
      <4> QED
        BY <4>1, <4>2, <4>3 DEF TypeOK
    <3> QED
      BY <3>1
  <2>2. ASSUME NEW c \in Builds
        PROVE  /\ stage[c] = "lock" => at'[c]["docker"] = at[c]["docker"]
               /\ at'[c]["docker"] = "ok" => at[c]["docker"] = "ok" /\ ~(c = b /\ i = "docker")
               /\ at'[c]["docker"] \notin {"ok", "failed"} =>
                    at[c]["docker"] \notin {"ok", "failed"}
    BY <1>2, DockerIsAnImage DEF Active
  <2> QED
    BY <1>1, <2>1, <2>2 DEF DaemonInv, Active
<1>5. TestedInv'
  BY <1>1, <1>2 DEF TestedInv
<1>6. OriginInv'
  BY <1>1 DEF OriginInv
<1>7. PublishedInv'
  BY <1>1, <1>2, DockerIsAnImage DEF PublishedInv, DoneIsPublished
<1> QED
  BY <1>3, <1>4, <1>5, <1>6, <1>7

\* The directories of one branch change.
LEMMA DirsChange ==
  ASSUME IInv, NEW b \in Builds, NEW i \in Images, NEW ACTION p, NEW ACTION D,
         At(b, i, p), dirs' = [dirs EXCEPT ![b][i] = D],
         tries' \in [Builds -> [Images -> Nat]],
         OneOrTwo(D) \/ (D = {} /\ p \notin Working)
  PROVE  DirsInv'
<1>1. ASSUME NEW c \in Builds, NEW j \in Images
      PROVE  /\ at'[c][j] = IF c = b /\ j = i THEN p ELSE at[c][j]
             /\ dirs'[c][j] = IF c = b /\ j = i THEN D ELSE dirs[c][j]
  BY DEF IInv, TypeOK, At
<1>2. ASSUME NEW c \in Builds, NEW j \in Images
      PROVE  /\ at'[c][j] \in Working => OneOrTwo(dirs'[c][j])
             /\ dirs'[c][j] = {} \/ OneOrTwo(dirs'[c][j])
  BY <1>1 DEF IInv, DirsInv
<1> QED
  BY <1>2 DEF DirsInv, OneOrTwo

\* One build takes a docker node.
LEMMA LockDockerStep ==
  ASSUME IInv, NEW b \in Builds, LockDocker(b), UNCHANGED labelled
  PROVE  IInv'
<1> DEFINE n == CHOOSE m \in DockerNodes : DockerFree(m)
<1>1. n \in DockerNodes /\ \A c \in Builds : dockerNode[c] # n
  BY DEF LockDocker, DockerFree
<1>2. /\ stage[b] = "lock" /\ stage' = [stage EXCEPT ![b] = "images"]
      /\ dockerNode' = [dockerNode EXCEPT ![b] = n]
      /\ UNCHANGED <<place, path, files, daemon, tested, atlas, hub>>
  BY DEF LockDocker
<1> HIDE DEF n
<1>3. ASSUME NEW c \in Builds, c # b
      PROVE  stage'[c] = stage[c] /\ dockerNode'[c] = dockerNode[c]
  BY <1>2, <1>3 DEF IInv, TypeOK
<1>4. stage'[b] = "images" /\ dockerNode'[b] = n
  BY <1>2 DEF IInv, TypeOK
<1>5. /\ at' = at /\ tries' = tries /\ dirs' = dirs /\ path' = path /\ files' = files
      /\ daemon' = daemon /\ tested' = tested /\ atlas' = atlas /\ hub' = hub
  BY <1>2 DEF place
<1>6. TypeOK'
  BY <1>1, <1>2, <1>5 DEF IInv, TypeOK
<1>7. HeldInv'
  BY <1>1, <1>3, <1>4 DEF IInv, HeldInv
<1>8. DirsInv'
  BY <1>5 DEF IInv, DirsInv, OneOrTwo
<1>9. DaemonInv'
  BY <1>2, <1>3, <1>4, <1>5 DEF IInv, DaemonInv
<1>10. TestedInv'
  BY <1>3, <1>4, <1>5 DEF IInv, TestedInv
<1>11. OriginInv' /\ PublishedInv'
  BY <1>3, <1>4, <1>5 DEF IInv, OriginInv, PublishedInv, DoneIsPublished
<1> QED
  BY <1>6, <1>7, <1>8, <1>9, <1>10, <1>11 DEF IInv

\* A stage has ended: a build that goes on has done all of it.
LEMMA StageEndsStep ==
  ASSUME IInv, NEW b \in Builds, StageEnds(b), UNCHANGED labelled
  PROVE  IInv'
<1> DEFINE next == IF StageFailed(b) THEN "failed" ELSE After(stage[b])
<1>1. /\ stage[b] \in Active /\ stage' = [stage EXCEPT ![b] = next]
      /\ dockerNode' = IF next \in {"done", "failed"}
                       THEN [dockerNode EXCEPT ![b] = "none"] ELSE dockerNode
      /\ at' = IF next \in {"done", "failed"} THEN at
               ELSE [at EXCEPT ![b] = [i \in Images |-> "start"]]
      /\ tries' = tries /\ dirs' = dirs /\ path' = path /\ files' = files
      /\ daemon' = daemon /\ tested' = tested /\ atlas' = atlas /\ hub' = hub
  BY DEF StageEnds, HeldAfter, Active
<1>2. /\ next \in {"post_test", "publish", "done", "failed"}
      /\ next = "post_test" => stage[b] = "images"
      /\ next = "publish" => stage[b] = "post_test"
      /\ next = "done" => stage[b] = "publish"
  BY <1>1 DEF After, Active
<1>3. ASSUME next # "failed", NEW i \in Images, stage[b] # "publish" \/ i # "ova"
      PROVE  at[b][i] = "ok"
  <2>1. i \in Of(stage[b])
    BY <1>1, <1>3 DEF Of, Active
  <2>2. ~ StageFailed(b)
    BY <1>3
  <2> QED
    BY <2>1, <2>2 DEF StageEnds, StageFailed
<1> HIDE DEF next
<1>4. ASSUME NEW c \in Builds, c # b
      PROVE  stage'[c] = stage[c] /\ dockerNode'[c] = dockerNode[c] /\ at'[c] = at[c]
  BY <1>1, <1>4 DEF IInv, TypeOK
<1>5. /\ stage'[b] = next
      /\ next \in {"done", "failed"} => dockerNode'[b] = "none" /\ at'[b] = at[b]
      /\ next \notin {"done", "failed"} =>
           dockerNode'[b] = dockerNode[b] /\ \A i \in Images : at'[b][i] = "start"
  BY <1>1 DEF IInv, TypeOK
<1>6. TypeOK'
  <2>1. stage' \in [Builds -> {"lock", "images", "post_test", "publish", "done", "failed"}]
    BY <1>1, <1>2 DEF IInv, TypeOK
  <2>2. dockerNode' \in [Builds -> DockerNodes \union {"none"}]
    BY <1>1 DEF IInv, TypeOK
  <2>3. at' \in [Builds -> [Images -> {"start", "entered", "locked", "ok", "failed",
                                        "create", "upload", "release", "hangs"}]]
    BY <1>1 DEF IInv, TypeOK
  <2> QED
    BY <1>1, <2>1, <2>2, <2>3 DEF IInv, TypeOK
<1>7. HeldInv'
  <2>1. \A c \in Builds : stage'[c] \in Active => dockerNode'[c] \in DockerNodes
    BY <1>1, <1>2, <1>4, <1>5 DEF IInv, HeldInv, Active
  <2>2. \A c \in Builds : dockerNode'[c] \in {dockerNode[c], "none"}
    BY <1>4, <1>5
  <2> QED
    BY <2>1, <2>2 DEF IInv, HeldInv
<1>8. DirsInv'
  <2>1. ASSUME NEW c \in Builds, NEW i \in Images, at'[c][i] \in Working
        PROVE  at[c][i] \in Working
    BY <1>4, <1>5, <2>1 DEF Working
  <2> QED
    BY <1>1, <2>1 DEF IInv, DirsInv, OneOrTwo
<1>9. DaemonInv'
  <2>1. ASSUME NEW c \in Builds, c # b
        PROVE  stage'[c] = stage[c] /\ dockerNode'[c] = dockerNode[c] /\ at'[c] = at[c]
    BY <1>4, <2>1
  <2>2. next = "post_test" => daemon[dockerNode[b]] = b
    BY <1>2, <1>3, DockerIsAnImage DEF IInv, DaemonInv
  <2>3. next = "publish" => daemon[dockerNode[b]] = b
    BY <1>2 DEF IInv, DaemonInv
  <2> QED
    BY <1>1, <1>2, <1>5, <2>1, <2>2, <2>3 DEF IInv, DaemonInv
<1>10. TestedInv'
  <2>1. ASSUME NEW i \in Images, next \in {"publish", "done"}
        PROVE  tested[b][i] # Nobody
    BY <1>2, <1>3, <2>1 DEF IInv, TestedInv
  <2>2. ASSUME NEW i \in Images
        PROVE  ~(stage'[b] = "post_test" /\ at'[b][i] = "ok")
    BY <1>5
  <2> QED
    BY <1>1, <1>4, <1>5, <2>1, <2>2 DEF IInv, TestedInv
<1>11. OriginInv'
  BY <1>1 DEF IInv, OriginInv
<1>12. PublishedInv'
  <2>1. ASSUME next = "done"
        PROVE  /\ "vagrant" \in Images => atlas[BoxVersionOf[b]].released
               /\ <<b, b>> \in hub
    BY <1>2, <1>3, <2>1, DockerIsAnImage DEF IInv, PublishedInv
  <2>2. DoneIsPublished'
    BY <1>1, <1>4, <1>5, <2>1 DEF IInv, PublishedInv, DoneIsPublished
  <2>3. ASSUME NEW c \in Builds, NEW i \in Images, stage'[c] = "publish", at'[c][i] = "ok"
        PROVE  c # b
    BY <1>5, <2>3
  <2> QED
    BY <1>1, <1>4, <2>2, <2>3, DockerIsAnImage DEF IInv, PublishedInv
<1> QED
  BY <1>6, <1>7, <1>8, <1>9, <1>10, <1>11, <1>12 DEF IInv

\* A branch enters a node.
LEMMA EnterStep ==
  ASSUME IInv, NEW b \in Builds, NEW i \in Images, Enter(b, i), UNCHANGED labelled
  PROVE  IInv'
<1> DEFINE D == Taken(b, i)
           d == Max(D)
           n == NodeOf(b, i)
<1>1. /\ stage[b] \in Active /\ at[b][i] = "start" /\ dirs' = [dirs EXCEPT ![b][i] = D]
      /\ Cardinality(Inside(n)) < Executors
      /\ UNCHANGED <<stage, dockerNode, tries, path, daemon, tested, atlas, hub>>
  BY DEF Enter, Active
<1>2. /\ OneOrTwo(D)
  BY <1>1, TakenType DEF IInv
<1>3. d \in Dirs /\ D \in SUBSET Dirs
  BY <1>2, MaxIsElement
<1>4. n \in Nodes
  BY <1>1, NodeType DEF IInv
<1>5. PICK p \in {"locked", "entered"} : At(b, i, p)
  BY DEF Enter
<1>6. files' = files \/ files' = [files EXCEPT ![n][d] = Nobody]
  BY DEF Enter, Emptied
<1> HIDE DEF D, d, n
<1>7. TypeOK'
  <2>1. files' \in [Nodes -> [Dirs -> Builds \union {Nobody}]]
    <3>1. CASE files' = files
      BY <3>1 DEF IInv, TypeOK
    <3>2. CASE files' = [files EXCEPT ![n][d] = Nobody]
      BY <1>3, <1>4, <3>2 DEF IInv, TypeOK
    <3> QED
      BY <1>6, <3>1, <3>2
  <2>2. dirs' \in [Builds -> [Images -> SUBSET Dirs]]
    BY <1>1, <1>3 DEF IInv, TypeOK
  <2> QED
    BY <1>1, <1>5, <2>1, <2>2 DEF IInv, TypeOK, At
<1>8. DirsInv'
  BY <1>1, <1>2, <1>5, DirsChange DEF IInv, DirsInv
<1>9. HeldInv' /\ DaemonInv' /\ TestedInv' /\ OriginInv' /\ PublishedInv'
  <2>1. p # "ok" /\ at[b][i] \notin {"ok", "failed"}
    BY <1>1, <1>5
  <2>2. daemon' = [daemon EXCEPT ![dockerNode[b]] = daemon[dockerNode[b]]]
    BY <1>1 DEF IInv, TypeOK
  <2>3. daemon[dockerNode[b]] \in Builds \union {Nobody}
    BY <1>1, NodeType DEF IInv, TypeOK
  <2> QED
    BY <1>1, <1>5, <2>1, <2>2, <2>3, BranchMoves
<1> QED
  BY <1>7, <1>8, <1>9 DEF IInv

\* A branch on a node gets the lock that it waits for.
LEMMA LockStep ==
  ASSUME IInv, NEW b \in Builds, NEW i \in Images, stage[b] \in Active, Lock(b, i), UNCHANGED labelled
  PROVE  IInv'
<1> DEFINE d == Workspace(b, i)
           n == NodeOf(b, i)
<1>1. /\ at[b][i] = "entered" /\ At(b, i, "locked")
      /\ UNCHANGED <<stage, dockerNode, tries, dirs, path, daemon, tested, atlas, hub>>
      /\ files' = files \/ files' = [files EXCEPT ![n][d] = Nobody]
  BY DEF Lock, Emptied
<1>2. d \in Dirs /\ n \in Nodes
  BY <1>1, NodeType, WorkspaceType DEF IInv, Working
<1> HIDE DEF d, n
<1>3. TypeOK'
  <2>1. files' \in [Nodes -> [Dirs -> Builds \union {Nobody}]]
    <3>1. CASE files' = files
      BY <3>1 DEF IInv, TypeOK
    <3>2. CASE files' = [files EXCEPT ![n][d] = Nobody]
      BY <1>2, <3>2 DEF IInv, TypeOK
    <3> QED
      BY <1>1, <3>1, <3>2
  <2> QED
    BY <1>1, <2>1 DEF IInv, TypeOK, At
<1>4. DirsInv'
  <2>1. OneOrTwo(dirs[b][i]) /\ dirs' = [dirs EXCEPT ![b][i] = dirs[b][i]]
    BY <1>1 DEF IInv, TypeOK, DirsInv, Working
  <2> QED
    BY <1>1, <2>1, DirsChange DEF IInv, DirsInv
<1>5. HeldInv' /\ DaemonInv' /\ TestedInv' /\ OriginInv' /\ PublishedInv'
  <2>1. daemon' = [daemon EXCEPT ![dockerNode[b]] = daemon[dockerNode[b]]]
    BY <1>1 DEF IInv, TypeOK
  <2>2. daemon[dockerNode[b]] \in Builds \union {Nobody}
    BY NodeType DEF IInv, TypeOK
  <2> QED
    BY <1>1, <2>1, <2>2, BranchMoves
<1> QED
  BY <1>3, <1>4, <1>5 DEF IInv

\* An image is built: the daemon has the images of the build, if they are docker images.
LEMMA BuildImageStep ==
  ASSUME IInv, NEW b \in Builds, NEW i \in Images, BuildImage(b, i), UNCHANGED labelled
  PROVE  IInv'
<1> DEFINE d == Workspace(b, i)
           n == NodeOf(b, i)
<1>1. /\ stage[b] = "images" /\ at[b][i] = "locked" /\ At(b, i, "ok")
      /\ files' = [files EXCEPT ![n][d] = b] /\ path' = [path EXCEPT ![b][i] = d]
      /\ dirs' = [dirs EXCEPT ![b][i] = {}]
      /\ daemon' = IF i = "docker" THEN [daemon EXCEPT ![dockerNode[b]] = b] ELSE daemon
      /\ UNCHANGED <<stage, dockerNode, tries, tested, atlas, hub>>
  BY DEF BuildImage, Leave
<1>2. d \in Dirs /\ n \in Nodes /\ dockerNode[b] \in DockerNodes
  BY <1>1, NodeType, WorkspaceType DEF IInv, Working, Active
<1> HIDE DEF d, n
<1>3. ASSUME NEW c \in Builds, NEW j \in Images
      PROVE  at'[c][j] = IF c = b /\ j = i THEN "ok" ELSE at[c][j]
  BY <1>1 DEF IInv, TypeOK, At
<1>4. TypeOK'
  <2>1. files' \in [Nodes -> [Dirs -> Builds \union {Nobody}]]
    BY <1>1, <1>2 DEF IInv, TypeOK
  <2>2. path' \in [Builds -> [Images -> Dirs \union {0}]]
    BY <1>1, <1>2 DEF IInv, TypeOK
  <2>3. dirs' \in [Builds -> [Images -> SUBSET Dirs]]
    BY <1>1 DEF IInv, TypeOK
  <2>4. daemon' \in [DockerNodes -> Builds \union {Nobody}]
    BY <1>1 DEF IInv, TypeOK
  <2> QED
    BY <1>1, <2>1, <2>2, <2>3, <2>4 DEF IInv, TypeOK, At
<1>5. HeldInv'
  BY <1>1 DEF IInv, HeldInv
<1>6. DirsInv'
  BY <1>1, DirsChange DEF IInv, DirsInv, Working
<1>7. DaemonInv'
  <2>1. ASSUME NEW c \in Builds, stage[c] \in Active, c # b
        PROVE  daemon'[dockerNode[c]] = daemon[dockerNode[c]]
    <3>1. dockerNode[c] # dockerNode[b] /\ dockerNode[c] \in DockerNodes
      BY <1>1, <2>1, OwnNode, NodeType, DockerIsAnImage DEF IInv, Active
    <3> QED
      BY <1>1, <3>1 DEF IInv, TypeOK
  <2>2. i = "docker" => daemon'[dockerNode[b]] = b
    BY <1>1, <1>2 DEF IInv, TypeOK
  <2>3. i # "docker" => daemon' = daemon
    BY <1>1
  <2> QED
    BY <1>1, <1>3, <2>1, <2>2, <2>3, DockerIsAnImage DEF IInv, DaemonInv, Active
<1>8. TestedInv'
  BY <1>1, <1>3 DEF IInv, TestedInv
<1>9. OriginInv'
  BY <1>1 DEF IInv, OriginInv
<1>10. PublishedInv'
  BY <1>1, <1>3, DockerIsAnImage DEF IInv, PublishedInv, DoneIsPublished
<1> QED
  BY <1>4, <1>5, <1>6, <1>7, <1>8, <1>9, <1>10 DEF IInv

\* A build of an image fails, for good or to be tried again.
LEMMA BuildFailsStep ==
  ASSUME IInv, NEW b \in Builds, NEW i \in Images, BuildFails(b, i), UNCHANGED labelled
  PROVE  IInv'
<1>1. /\ stage[b] = "images" /\ stage[b] \in Active /\ at[b][i] = "locked"
      /\ dirs' = [dirs EXCEPT ![b][i] = {}]
      /\ UNCHANGED <<stage, dockerNode, path, tested, atlas, hub>>
  BY DEF BuildFails, Leave, Active
<1>2. \/ /\ tries[b][i] < MaxTries[b][i] /\ tries' = [tries EXCEPT ![b][i] = @ + 1]
         /\ At(b, i, "start")
      \/ tries' = tries /\ At(b, i, "failed")
  BY DEF BuildFails, Retry
<1>3. PICK p \in {"start", "failed"} : At(b, i, p)
  BY <1>2
<1>4. MaxTries[b][i] \in Nat \ {0}
  BY PipelineAssumption
<1>5. /\ tries' \in [Builds -> [Images -> Nat]]
      /\ \A c \in Builds, j \in Images : tries'[c][j] \in 1..MaxTries[c][j]
  <2>1. CASE tries' = tries
    BY <2>1 DEF IInv, TypeOK, DirsInv
  <2>2. CASE tries[b][i] < MaxTries[b][i] /\ tries' = [tries EXCEPT ![b][i] = @ + 1]
    <3>1. tries[b][i] + 1 \in 1..MaxTries[b][i] /\ tries[b][i] + 1 \in Nat
      BY <1>4, <2>2 DEF IInv, TypeOK
    <3>2. tries' \in [Builds -> [Images -> Nat]]
      BY <2>2, <3>1 DEF IInv, DirsInv
    <3>3. ASSUME NEW c \in Builds, NEW j \in Images
          PROVE  tries'[c][j] = IF c = b /\ j = i THEN tries[b][i] + 1 ELSE tries[c][j]
      BY <2>2 DEF IInv, DirsInv
    <3> QED
      BY <3>1, <3>2, <3>3 DEF IInv, TypeOK
  <2> QED
    BY <1>2, <2>1, <2>2
<1>6. /\ IF i = "docker"
         THEN \E c \in Builds \union {Nobody} : daemon' = [daemon EXCEPT ![dockerNode[b]] = c]
         ELSE UNCHANGED daemon
      /\ daemon' \in [DockerNodes -> Builds \union {Nobody}]
  <2>1. daemon[dockerNode[b]] \in Builds \union {Nobody}
    BY <1>1, NodeType DEF IInv, TypeOK
  <2>2. IF i = "docker"
        THEN \E c \in Builds \union {Nobody} : daemon' = [daemon EXCEPT ![dockerNode[b]] = c]
        ELSE UNCHANGED daemon
    BY <2>1 DEF BuildFails
  <2> QED
    BY <2>2 DEF IInv, TypeOK
<1>7. TypeOK'
  <2>1. dirs' \in [Builds -> [Images -> SUBSET Dirs]]
    BY <1>1 DEF IInv, TypeOK
  <2>2. files' \in [Nodes -> [Dirs -> Builds \union {Nobody}]]
    <3>1. PICK left \in {b, Nobody} :
            files' = [files EXCEPT ![NodeOf(b, i)][Workspace(b, i)] = left]
      BY DEF BuildFails
    <3> QED
      BY <3>1 DEF IInv, TypeOK
  <2> QED
    BY <1>1, <1>3, <1>5, <1>6, <2>1, <2>2 DEF IInv, TypeOK, At
<1>8. DirsInv'
  BY <1>1, <1>3, <1>5, DirsChange DEF Working
<1>9. HeldInv' /\ DaemonInv' /\ TestedInv' /\ OriginInv' /\ PublishedInv'
  BY <1>1, <1>3, <1>6, BranchMoves
<1> QED
  BY <1>7, <1>8, <1>9 DEF IInv

\* A post test passes: docker images are those of the build, and anything else is at
\* least of its version.
LEMMA TestImageStep ==
  ASSUME IInv, NEW b \in Builds, NEW i \in Images, TestImage(b, i), UNCHANGED labelled
  PROVE  IInv'
<1> DEFINE image == Found(b, i)
<1>1. /\ stage[b] = "post_test" /\ at[b][i] = "locked" /\ At(b, i, "ok")
      /\ tested' = [tested EXCEPT ![b][i] = image] /\ dirs' = [dirs EXCEPT ![b][i] = {}]
      /\ image # Nobody /\ (i # "docker" => VersionOf[image] = VersionOf[b])
      /\ UNCHANGED <<stage, dockerNode, tries, path, files, daemon, atlas, hub>>
  BY DEF TestImage, Testable, Leave
<1>2. dockerNode[b] \in DockerNodes /\ NodeOf(b, i) \in Nodes
  BY <1>1, NodeType DEF IInv, Active
<1>3. image \in Builds /\ (i = "docker" => image = b)
  <2> DEFINE there == IF path[b][i] = 0 THEN Nobody ELSE files[NodeOf(b, i)][path[b][i]]
  <2>1. there \in Builds \union {Nobody}
    BY <1>2 DEF IInv, TypeOK
  <2>2. daemon[dockerNode[b]] = b
    BY <1>1 DEF IInv, DaemonInv
  <2>3. image = IF i = "docker" /\ there # Nobody THEN daemon[dockerNode[b]] ELSE there
    BY DEF Found
  <2> HIDE DEF there, image
  <2> QED
    BY <1>1, <2>1, <2>2, <2>3
<1> HIDE DEF image
<1>4. ASSUME NEW c \in Builds, NEW j \in Images
      PROVE  /\ at'[c][j] = IF c = b /\ j = i THEN "ok" ELSE at[c][j]
             /\ tested'[c][j] = IF c = b /\ j = i THEN image ELSE tested[c][j]
  BY <1>1 DEF IInv, TypeOK, At
<1>5. TypeOK'
  <2>1. tested' \in [Builds -> [Images -> Builds \union {Nobody}]]
    BY <1>1, <1>3 DEF IInv, TypeOK
  <2>2. dirs' \in [Builds -> [Images -> SUBSET Dirs]]
    BY <1>1 DEF IInv, TypeOK
  <2> QED
    BY <1>1, <2>1, <2>2 DEF IInv, TypeOK, At
<1>6. HeldInv'
  BY <1>1 DEF IInv, HeldInv
<1>7. DirsInv'
  BY <1>1, DirsChange DEF IInv, DirsInv, Working
<1>8. DaemonInv'
  <2>1. \A c \in Builds : stage[c] # "post_test" => at'[c]["docker"] = at[c]["docker"]
    BY <1>1, <1>4, DockerIsAnImage
  <2> QED
    BY <1>1, <2>1 DEF IInv, DaemonInv
<1>9. TestedInv'
  BY <1>1, <1>3, <1>4 DEF IInv, TestedInv
<1>10. \A c \in Builds, j \in Images : tested[c][j] # Nobody => tested'[c][j] # Nobody
  BY <1>1, <1>4
<1>11. OriginInv'
  <2>1. \A v \in BoxVersions : atlas[v].box \in Builds \union {Nobody}
    BY DEF IInv, TypeOK
  <2>2. \A p \in hub : p[1] \in Builds
    BY DEF IInv, TypeOK
  <2> QED
    BY <1>1, <1>10, <2>1, <2>2, DockerIsAnImage DEF IInv, OriginInv
<1>12. PublishedInv'
  BY <1>1, <1>4, DockerIsAnImage DEF IInv, PublishedInv, DoneIsPublished
<1> QED
  BY <1>5, <1>6, <1>7, <1>8, <1>9, <1>11, <1>12 DEF IInv

\* A branch ends that has failed and done nothing else.
LEMMA BranchFailsStep ==
  ASSUME IInv, NEW b \in Builds, NEW i \in Images, stage[b] \in {"post_test", "publish"},
         at[b][i] = "locked", At(b, i, "failed"), Leave(b, i),
         UNCHANGED <<labelled, stage, dockerNode, tries, path, files, daemon, tested, atlas, hub>>
  PROVE  IInv'
<1>1. dirs' = [dirs EXCEPT ![b][i] = {}]
  BY DEF Leave
<1>2. TypeOK'
  <2>1. dirs' \in [Builds -> [Images -> SUBSET Dirs]]
    BY <1>1 DEF IInv, TypeOK
  <2> QED
    BY <2>1 DEF IInv, TypeOK, At
<1>3. DirsInv'
  BY <1>1, DirsChange DEF IInv, DirsInv, Working
<1>4. HeldInv' /\ DaemonInv' /\ TestedInv' /\ OriginInv' /\ PublishedInv'
  BY BranchMoves DEF Active
<1> QED
  BY <1>2, <1>3, <1>4 DEF IInv

\* What Atlas has of one box version.
AtlasEntry == [exists : BOOLEAN, box : Builds \union {Nobody}, released : BOOLEAN]

\* A step of the publication of a box: what is released stays so, and a new box is the
\* one of the build.
LEMMA AtlasStep ==
  ASSUME IInv, NEW b \in Builds, "vagrant" \in Images, NEW here, NEW there, NEW entry,
         Atlas(b, here, there, entry), UNCHANGED labelled,
         here \in Working, there \in Working \union {"ok", "failed"},
         entry \in AtlasEntry, entry.box \in {b, Entry(b).box},
         Entry(b).released => entry.released, there = "ok" => entry.released
  PROVE  IInv'
<1> DEFINE v == BoxVersionOf[b]
<1>1. /\ stage[b] = "publish" /\ at[b]["vagrant"] = here /\ At(b, "vagrant", there)
      /\ atlas' = [atlas EXCEPT ![v] = entry]
      /\ UNCHANGED <<stage, dockerNode, tries, path, files, daemon, tested, hub>>
      /\ IF there \in {"ok", "failed"} THEN dirs' = [dirs EXCEPT ![b]["vagrant"] = {}]
         ELSE UNCHANGED dirs
  BY DEF Atlas, Leave
<1>2. v \in BoxVersions
  BY DEF BoxVersions
<1>3. ASSUME NEW c \in Builds, NEW j \in Images
      PROVE  at'[c][j] = IF c = b /\ j = "vagrant" THEN there ELSE at[c][j]
  BY <1>1 DEF IInv, TypeOK, At
<1>4. ASSUME NEW w \in BoxVersions
      PROVE  /\ atlas'[w] = IF w = v THEN entry ELSE atlas[w]
             /\ atlas[w].released => atlas'[w].released
  BY <1>1, <1>2 DEF IInv, TypeOK, Entry
<1>5. TypeOK'
  <2>1. atlas' \in [BoxVersions -> AtlasEntry]
    BY <1>1, <1>2 DEF IInv, TypeOK, AtlasEntry
  <2>2. dirs' \in [Builds -> [Images -> SUBSET Dirs]]
    <3>1. CASE there \in {"ok", "failed"}
      <4>1. dirs' = [dirs EXCEPT ![b]["vagrant"] = {}]
        BY <1>1, <3>1
      <4> QED
        BY <4>1 DEF IInv, TypeOK
    <3>2. CASE there \notin {"ok", "failed"}
      BY <1>1, <3>2 DEF IInv, TypeOK
    <3> QED
      BY <3>1, <3>2
  <2>3. at' \in [Builds -> [Images -> {"start", "entered", "locked", "ok", "failed",
                                        "create", "upload", "release", "hangs"}]]
    BY <1>1 DEF IInv, TypeOK, At, Working
  <2> QED
    BY <1>1, <2>1, <2>2, <2>3 DEF IInv, TypeOK, AtlasEntry
<1>6. HeldInv'
  BY <1>1 DEF IInv, HeldInv
<1>7. DirsInv'
  <2>1. OneOrTwo(dirs[b]["vagrant"])
    BY <1>1 DEF IInv, DirsInv
  <2>2. tries' \in [Builds -> [Images -> Nat]]
    BY <1>1 DEF IInv, DirsInv
  <2>3. CASE there \in {"ok", "failed"}
    BY <1>1, <2>2, <2>3, DirsChange DEF Working
  <2>4. CASE there \notin {"ok", "failed"}
    <3>1. dirs' = [dirs EXCEPT ![b]["vagrant"] = dirs[b]["vagrant"]]
      BY <1>1, <2>4 DEF IInv, TypeOK
    <3> QED
      BY <1>1, <2>1, <2>2, <3>1, DirsChange
  <2> QED
    BY <2>3, <2>4
<1>8. DaemonInv'
  <2>1. \A c \in Builds : at'[c]["docker"] = at[c]["docker"]
    BY <1>3, DockerIsAnImage
  <2> QED
    BY <1>1, <2>1 DEF IInv, DaemonInv
<1>9. TestedInv'
  BY <1>1, <1>3 DEF IInv, TestedInv
<1>10. OriginInv'
  <2>1. \A i \in Images : tested[b][i] # Nobody
    BY <1>1 DEF IInv, TestedInv
  <2>2. ASSUME NEW i \in Images, entry.box # Nobody
        PROVE  tested[entry.box][i] # Nobody
    BY <1>2, <2>1, <2>2 DEF IInv, OriginInv, Entry
  <2> QED
    BY <1>1, <1>4, <2>2 DEF IInv, OriginInv
<1>11. PublishedInv'
  <2>1. \A c \in Builds : BoxVersionOf[c] \in BoxVersions
    BY DEF BoxVersions
  <2>2. \A c \in Builds : at'[c]["docker"] = at[c]["docker"]
    BY <1>3, DockerIsAnImage
  <2>3. ASSUME NEW c \in Builds, stage[c] = "publish", at'[c]["vagrant"] = "ok"
        PROVE  atlas'[BoxVersionOf[c]].released
    BY <1>3, <1>4, <2>1, <2>3 DEF IInv, PublishedInv
  <2>4. DoneIsPublished'
    BY <1>1, <1>4, <2>1 DEF IInv, PublishedInv, DoneIsPublished
  <2> QED
    BY <1>1, <2>2, <2>3, <2>4 DEF IInv, PublishedInv
<1> QED
  BY <1>5, <1>6, <1>7, <1>8, <1>9, <1>10, <1>11 DEF IInv

\* A step of the publication of a box.
LEMMA PublishVagrantStep ==
  ASSUME IInv, NEW b \in Builds, PublishVagrant(b), UNCHANGED labelled
  PROVE  IInv'
<1> DEFINE e == Entry(b)
<1>1. "vagrant" \in Images
  BY DEF PublishVagrant
<1>2. e \in AtlasEntry
  BY DEF IInv, TypeOK, Entry, BoxVersions, AtlasEntry
<1>3. /\ [e EXCEPT !.exists = TRUE] \in AtlasEntry
      /\ [e EXCEPT !.box = b] \in AtlasEntry
      /\ [e EXCEPT !.released = TRUE] \in AtlasEntry
      /\ [e EXCEPT !.exists = TRUE].box = e.box
      /\ [e EXCEPT !.exists = TRUE].released = e.released
      /\ [e EXCEPT !.box = b].box = b
      /\ [e EXCEPT !.box = b].released = e.released
      /\ [e EXCEPT !.released = TRUE].box = e.box
      /\ [e EXCEPT !.released = TRUE].released = TRUE
  BY <1>2 DEF AtlasEntry
<1>4. ASSUME NEW here \in Working, NEW there \in Working \union {"ok", "failed"},
             NEW entry \in AtlasEntry, entry.box \in {b, e.box}, e.released => entry.released,
             there = "ok" => entry.released, Atlas(b, here, there, entry)
      PROVE  IInv'
  BY <1>1, <1>4, AtlasStep
<1> HIDE DEF e
<1>5. /\ {"locked", "create", "upload", "release", "hangs"} \subseteq Working
      /\ "ok" \notin Working
  BY DEF Working
<1>6. ASSUME VersionExist(b) PROVE IInv'
  <2>1. Atlas(b, "locked", "upload", e) \/ Atlas(b, "locked", "create", e)
    BY <1>6 DEF VersionExist, e
  <2> QED
    BY <1>2, <1>4, <1>5, <2>1
<1>7. ASSUME CreateVersion(b) PROVE IInv'
  <2>1. \/ Atlas(b, "create", "upload", [e EXCEPT !.exists = TRUE])
        \/ Atlas(b, "create", "failed", e)
    BY <1>7 DEF CreateVersion, e
  <2> QED
    BY <1>2, <1>3, <1>4, <1>5, <2>1
<1>8. ASSUME UploadBox(b) PROVE IInv'
  <2>1. \/ Atlas(b, "upload", "release", [e EXCEPT !.box = b])
        \/ Atlas(b, "upload", "release", e)
        \/ Atlas(b, "upload", "failed", e)
    BY <1>8 DEF UploadBox, e
  <2> QED
    BY <1>2, <1>3, <1>4, <1>5, <2>1
<1>9. ASSUME ReleaseBox(b) PROVE IInv'
  <2>1. \/ Atlas(b, "release", "ok", [e EXCEPT !.released = TRUE])
        \/ Atlas(b, "release", "failed", e)
    BY <1>9 DEF ReleaseBox, e
  <2> QED
    BY <1>2, <1>3, <1>4, <1>5, <2>1
<1>10. ASSUME ReleaseHangs(b) PROVE IInv'
  <2>1. PICK here \in {"locked", "create", "upload", "release"} : Atlas(b, here, "hangs", e)
    BY <1>10 DEF ReleaseHangs, e
  <2> QED
    BY <1>2, <1>4, <1>5, <2>1
<1> QED
  BY <1>6, <1>7, <1>8, <1>9, <1>10 DEF PublishVagrant

\* A build pushes the docker images of the daemon, which are its own.
LEMMA PushDockerStep ==
  ASSUME IInv, NEW b \in Builds, PushDocker(b), UNCHANGED labelled
  PROVE  IInv'
<1> DEFINE n == dockerNode[b]
<1>1. /\ stage[b] = "publish" /\ at[b]["docker"] = "locked"
      /\ hub' = hub \union {<<b, daemon[n]>>} /\ dirs' = [dirs EXCEPT ![b]["docker"] = {}]
      /\ \/ At(b, "docker", "ok") /\ daemon' = [daemon EXCEPT ![n] = Nobody]
         \/ At(b, "docker", "failed") /\ UNCHANGED daemon
      /\ UNCHANGED <<stage, dockerNode, tries, path, files, tested, atlas>>
  BY DEF PushDocker, Leave
<1>2. PICK p \in {"ok", "failed"} : At(b, "docker", p)
  BY <1>1
<1>3. daemon[n] = b /\ n \in DockerNodes
  BY <1>1, NodeType, DockerIsAnImage DEF IInv, DaemonInv, Active
<1>4. hub' = hub \union {<<b, b>>}
  BY <1>1, <1>3
<1> HIDE DEF n
<1>5. ASSUME NEW c \in Builds, NEW j \in Images
      PROVE  at'[c][j] = IF c = b /\ j = "docker" THEN p ELSE at[c][j]
  BY <1>2 DEF IInv, TypeOK, At
<1>6. TypeOK'
  <2>1. daemon' \in [DockerNodes -> Builds \union {Nobody}]
    BY <1>1 DEF IInv, TypeOK
  <2>2. dirs' \in [Builds -> [Images -> SUBSET Dirs]]
    BY <1>1 DEF IInv, TypeOK
  <2>3. hub' \subseteq (Builds \X Builds)
    BY <1>4 DEF IInv, TypeOK
  <2> QED
    BY <1>1, <1>2, <2>1, <2>2, <2>3 DEF IInv, TypeOK, At
<1>7. HeldInv'
  BY <1>1 DEF IInv, HeldInv
<1>8. DirsInv'
  <2>1. tries' \in [Builds -> [Images -> Nat]]
    BY <1>1 DEF IInv, DirsInv
  <2> QED
    BY <1>1, <1>2, <2>1, DirsChange, DockerIsAnImage DEF Working
<1>9. DaemonInv'
  <2>1. ASSUME NEW c \in Builds, stage[c] \in Active, c # b
        PROVE  daemon'[dockerNode[c]] = daemon[dockerNode[c]]
    <3>1. dockerNode[c] # n /\ dockerNode[c] \in DockerNodes
      BY <1>1, <2>1, OwnNode, NodeType, DockerIsAnImage DEF IInv, Active, n
    <3> QED
      BY <1>1, <3>1 DEF IInv, TypeOK
  <2>2. at'[b]["docker"] \in {"ok", "failed"}
    BY <1>5, DockerIsAnImage
  <2>3. \A c \in Builds : c # b => at'[c]["docker"] = at[c]["docker"]
    BY <1>5, DockerIsAnImage
  <2> QED
    BY <1>1, <2>1, <2>2, <2>3 DEF IInv, DaemonInv, Active
<1>10. TestedInv'
  BY <1>1, <1>5 DEF IInv, TestedInv
<1>11. OriginInv'
  <2>1. tested[b]["docker"] # Nobody
    BY <1>1, DockerIsAnImage DEF IInv, TestedInv
  <2> QED
    BY <1>1, <1>4, <2>1 DEF IInv, OriginInv
<1>12. PublishedInv'
  <2>1. \A c \in Builds : "vagrant" \in Images => at'[c]["vagrant"] = at[c]["vagrant"]
    BY <1>5
  <2>2. \A c \in Builds : c # b => at'[c]["docker"] = at[c]["docker"]
    BY <1>5, DockerIsAnImage
  <2> QED
    BY <1>1, <1>4, <2>1, <2>2 DEF IInv, PublishedInv, DoneIsPublished
<1> QED
  BY <1>6, <1>7, <1>8, <1>9, <1>10, <1>11, <1>12 DEF IInv

\* Every step keeps the invariant.
LEMMA Preserved == IInv /\ [Next]_vars => IInv'
<1> SUFFICES ASSUME IInv, [Next]_vars PROVE IInv'
  OBVIOUS
<1>1. ASSUME NEW b \in Builds, LockDocker(b), UNCHANGED labelled
      PROVE  IInv'
  BY <1>1, LockDockerStep
<1>2. ASSUME NEW b \in Builds, StageEnds(b), UNCHANGED labelled
      PROVE  IInv'
  BY <1>2, StageEndsStep
<1>3. ASSUME NEW b \in Builds, NEW i \in Of(stage[b]), Branch(b, i), UNCHANGED labelled
      PROVE  IInv'
  <2>1. i \in Images /\ stage[b] \in Active
    BY <1>3 DEF Of, Active
  <2>2. CASE Enter(b, i)
    BY <1>3, <2>1, <2>2, EnterStep
  <2>3. CASE Lock(b, i)
    BY <1>3, <2>1, <2>3, LockStep
  <2>4. CASE BuildImage(b, i)
    BY <1>3, <2>1, <2>4, BuildImageStep
  <2>5. CASE BuildFails(b, i)
    BY <1>3, <2>1, <2>5, BuildFailsStep
  <2>6. CASE TestImage(b, i)
    BY <1>3, <2>1, <2>6, TestImageStep
  <2>7. CASE TestFails(b, i)
    BY <1>3, <2>1, <2>7, BranchFailsStep DEF TestFails
  <2> QED
    BY <1>3, <2>2, <2>3, <2>4, <2>5, <2>6, <2>7 DEF Branch
<1>4. ASSUME NEW b \in Builds, PublishVagrant(b), UNCHANGED labelled
      PROVE  IInv'
  BY <1>4, PublishVagrantStep
<1>5. ASSUME NEW b \in Builds, PublishDocker(b), UNCHANGED labelled
      PROVE  IInv'
  <2>1. CASE PushDocker(b)
    BY <1>5, <2>1, PushDockerStep
  <2>2. CASE PushFails(b)
    BY <1>5, <2>2, BranchFailsStep, DockerIsAnImage DEF PushFails
  <2> QED
    BY <1>5, <2>1, <2>2 DEF PublishDocker
<1>6. CASE UNCHANGED vars
  <2>1. /\ labelled' = labelled /\ stage' = stage /\ dockerNode' = dockerNode
        /\ at' = at /\ tries' = tries /\ dirs' = dirs /\ path' = path /\ files' = files /\ daemon' = daemon
        /\ tested' = tested /\ atlas' = atlas /\ hub' = hub
    BY <1>6 DEF vars, place
  <2>2. TypeOK' /\ HeldInv'
    BY <2>1 DEF IInv, TypeOK, HeldInv
  <2>3. DirsInv' /\ DaemonInv'
    BY <2>1 DEF IInv, DirsInv, OneOrTwo, DaemonInv
  <2>4. TestedInv' /\ OriginInv'
    BY <2>1 DEF IInv, TestedInv, OriginInv
  <2>5. PublishedInv'
    BY <2>1 DEF IInv, PublishedInv, DoneIsPublished
  <2> QED
    BY <2>2, <2>3, <2>4, <2>5 DEF IInv
<1> QED
  BY <1>1, <1>2, <1>3, <1>4, <1>5, <1>6 DEF Next

\* The parts of the invariant say what the runs check.
LEMMA InvariantIsEnough ==
  ASSUME IInv
  PROVE  TypeOK /\ PushedIsTested /\ BoxVersionIsTested /\ DoneIsPublished
<1>1. PushedIsTested
  <2>1. ASSUME NEW p \in hub PROVE p[2] = p[1] /\ tested[p[1]]["docker"] = p[1]
    <3>1. p[1] \in Builds
      BY DEF IInv, TypeOK
    <3> QED
      BY <3>1, DockerIsAnImage DEF IInv, OriginInv, TestedInv
  <2> QED
    BY <2>1 DEF PushedIsTested
<1>2. BoxVersionIsTested
  <2>1. ASSUME NEW v \in BoxVersions, atlas[v].box # Nobody, NEW i \in Images
        PROVE  /\ tested[atlas[v].box][i] # Nobody
               /\ VersionOf[tested[atlas[v].box][i]] = VersionOf[atlas[v].box]
    <3>1. atlas[v].box \in Builds
      BY <2>1 DEF IInv, TypeOK
    <3> QED
      BY <2>1, <3>1 DEF IInv, OriginInv, TestedInv
  <2> QED
    BY <2>1 DEF BoxVersionIsTested
<1> QED
  BY <1>1, <1>2 DEF IInv, PublishedInv

-----------------------------------------------------------------------------

\* The inductive invariant holds in every state of the pipeline.
THEOREM PipelineInvariant == Spec => []IInv
<1>1. Init => IInv
  BY Initially
<1>2. IInv /\ [Next]_vars => IInv'
  BY Preserved
<1> QED
  BY <1>1, <1>2, PTL DEF Spec

\* Everything has its type, and no branch uses more tries than retry() gives it:
\* where Executors branches may be on a node, there are directories for all of them.
THEOREM TypeCorrect == Spec => []TypeOK
<1>1. IInv => TypeOK
  BY InvariantIsEnough
<1> QED
  BY <1>1, PipelineInvariant, PTL

\* buildAndPublish pushes docker images only of the build itself, which its own post
\* test has passed, although all builds use the same tags.
THEOREM PushedImagesAreTested == Spec => []PushedIsTested
<1>1. IInv => PushedIsTested
  BY InvariantIsEnough
<1> QED
  BY <1>1, PipelineInvariant, PTL

\* A box in Atlas is of a build that has tested an image of its version of every kind.
THEOREM BoxesAreTested == Spec => []BoxVersionIsTested
<1>1. IInv => BoxVersionIsTested
  BY InvariantIsEnough
<1> QED
  BY <1>1, PipelineInvariant, PTL

\* A build that has succeeded has released its box and pushed its docker images.
THEOREM DoneBuildsArePublished == Spec => []DoneIsPublished
<1>1. IInv => DoneIsPublished
  BY InvariantIsEnough
<1> QED
  BY <1>1, PipelineInvariant, PTL

=============================================================================
