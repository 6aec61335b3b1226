---------------------------- MODULE ImagePipeline ----------------------------
(***************************************************************************)
(* From the packages to the published images: buildAndPublish of           *)
(* jobs/ShareMethod.groovy after the stage "Packages Build", for several   *)
(* builds of the same release job at a time.                               *)
(*                                                                         *)
(* A build locks a docker node, builds a vagrant box, an OVA and the       *)
(* docker images in parallel branches, tests each of them in a second      *)
(* parallel stage, and publishes in a third.  A stage waits for all of its *)
(* branches and fails if one of them has failed.                           *)
(*                                                                         *)
(* The stages find each other's files by path: a build remembers the       *)
(* directory in which it built an image, leaves the node, and comes back   *)
(* to that directory to test the image.  Jenkins gives each node block the *)
(* first directory of the job that no other block on the node is in.       *)
(* The docker images are in the docker daemon of the node, under tags such *)
(* as "nightly" that every build uses.  The box is published from a stash. *)
(***************************************************************************)
EXTENDS Naturals, FiniteSets, FiniteSetsExt

CONSTANTS
  Builds,
  Images,      \* the images that are built: a subset of {"vagrant", "ova", "docker"}
  DockerNodes, \* the nodes whose resource may have the label docker
  VersionOf,   \* RACKHD_VERSION of a build
  BoxVersionOf,\* atlas_version of a build: the release, or month and day
  MaxTries,    \* retry_times, one number in the code; runs may bound branches apart
  Executors    \* executors of a node

ASSUME PipelineAssumption ==
  /\ Builds \subseteq Nat \ {0} /\ IsFiniteSet(Builds)
  /\ Images \subseteq {"vagrant", "ova", "docker"} /\ "docker" \in Images
  /\ DockerNodes \cap {"vagrant", "ova", "none"} = {}
  /\ MaxTries \in [Builds -> [Images -> Nat \ {0}]] /\ Executors \in Nat \ {0}

Nobody == 0
Nodes == (Images \ {"docker"}) \union DockerNodes
BoxVersions == {BoxVersionOf[b] : b \in Builds}

\* Every node block takes a directory, and ws takes another.
Dirs == 1..(2 * Executors)

VARIABLES
  labelled,    \* the docker nodes whose resource has the label, which does not change
  stage,       \* stage of each build
  dockerNode,  \* build_docker_node of each build: the docker resource it holds
  at,          \* for each build and image: where the branch is
  tries,       \* which try of retry() the branch is in
  dirs,        \* the directories the branch is in; the last one is its workspace
  path,        \* VAGRANT_WORKSPACE, OVA_WORKSPACE, DOCKER_WORKSPACE, or 0
  files,       \* for each node and directory: the build whose image (for docker:
               \* whose build_record) is there
  daemon,      \* for each docker node: the build whose images have the common tags
  tested,      \* for each build and image: the build whose image it has tested
  atlas,       \* for each box version: what Atlas has of it
  hub          \* the docker images pushed: <<build that pushed, build of the images>>

place == <<at, tries, dirs>>
vars == <<labelled, stage, dockerNode, place, path, files, daemon, tested, atlas, hub>>

Unknown == [exists |-> FALSE, box |-> Nobody, released |-> FALSE]

Init ==
  /\ labelled \in (SUBSET DockerNodes) \ {{}}
  /\ stage = [b \in Builds |-> "lock"]
  /\ dockerNode = [b \in Builds |-> "none"]
  /\ at = [b \in Builds |-> [i \in Images |-> "start"]]
  /\ tries = [b \in Builds |-> [i \in Images |-> 1]]
  /\ dirs = [b \in Builds |-> [i \in Images |-> {}]]
  /\ path = [b \in Builds |-> [i \in Images |-> 0]]
  /\ files = [n \in Nodes |-> [d \in Dirs |-> Nobody]]
  /\ daemon = [n \in DockerNodes |-> Nobody]
  /\ tested = [b \in Builds |-> [i \in Images |-> Nobody]]
  /\ atlas = [v \in BoxVersions |-> Unknown]
  /\ hub = {}

Branches == Builds \X Images

At(b, i, place2) == at' = [at EXCEPT ![b][i] = place2]

-----------------------------------------------------------------------------
(* Nodes, directories and locks                                            *)

NodeOf(b, i) == IF i = "docker" THEN dockerNode[b] ELSE i

Inside(n) == {c \in Branches : dirs[c[1]][c[2]] # {} /\ NodeOf(c[1], c[2]) = n}

Free(n) == Dirs \ UNION {dirs[c[1]][c[2]] : c \in Inside(n)}

\* build_ova.groovy and release_vagrant.groovy do their work in ws{}.
InWs(s, i) == <<s, i>> \in {<<"images", "ova">>, <<"publish", "vagrant">>}

\* The directories of a node block.
Taken(b, i) ==
  LET free == Free(NodeOf(b, i))
      more == free \ {Min(free)}
  IN  IF InWs(stage[b], i) THEN {Min(free), Min(more)} ELSE {Min(free)}

Workspace(b, i) == Max(dirs[b][i])

\* lock("packer_usa"), lock("packer_bri")
LockOf(s, i) ==
  IF i = "docker" \/ s = "publish" THEN "none"
  ELSE IF i = "vagrant" /\ s = "images" THEN "packer_usa" ELSE "packer_bri"

Holders(lock) ==
  {c \in Branches : at[c[1]][c[2]] = "locked" /\ LockOf(stage[c[1]], c[2]) = lock}

After(s) ==
  IF s = "images" THEN "post_test" ELSE IF s = "post_test" THEN "publish" ELSE "done"

\* The images that the branches of a stage are about: there is no branch that
\* publishes the OVA.
Of(s) == {i \in Images : s \in {"images", "post_test"} \/ (s = "publish" /\ i # "ova")}

-----------------------------------------------------------------------------
(* Seeded faults                                                           *)

\* The docker node is locked while the images are built, not while they are tested
\* and pushed.
DockerFreeUnlessBuilt(n) ==
  n \in labelled /\ \A b \in Builds : ~(dockerNode[b] = n /\ stage[b] = "images")

\* checkRackHDVersion is left out.
TestableAny(b, i, image) == image # Nobody

\* A stage fails when all of its branches have.
StageFailedAll(b) == \A i \in Of(stage[b]) : at[b][i] = "failed"

\* A build that fails keeps its docker node.
HeldAfterDone(b, next) ==
  IF next = "done" THEN [dockerNode EXCEPT ![b] = "none"] ELSE dockerNode

\* One try too many.
RetryOnceMore(b, i) ==
  IF tries[b][i] <= MaxTries[b][i]
  THEN tries' = [tries EXCEPT ![b][i] = @ + 1] /\ At(b, i, "start")
  ELSE At(b, i, "failed") /\ UNCHANGED tries

-----------------------------------------------------------------------------
(* The stages                                                              *)

DockerFree(n) == n \in labelled /\ \A b \in Builds : dockerNode[b] # n

\* lock(label:"docker",quantity:1): "lock a docker resource from build to release".
\* The nodes are alike, so which of the free ones it is makes no difference.
LockDocker(b) ==
  /\ stage[b] = "lock"
  /\ \E n \in DockerNodes : DockerFree(n)
  /\ dockerNode' = [dockerNode EXCEPT ![b] = CHOOSE n \in DockerNodes : DockerFree(n)]
  /\ stage' = [stage EXCEPT ![b] = "images"]
  /\ UNCHANGED <<place, path, files, daemon, tested, atlas, hub>>

StageFailed(b) == \E i \in Images : at[b][i] = "failed"

\* The end of the lock block, however it is reached, frees the docker node.
HeldAfter(b, next) ==
  IF next \in {"done", "failed"} THEN [dockerNode EXCEPT ![b] = "none"] ELSE dockerNode

\* All branches of parallel have ended.
StageEnds(b) ==
  /\ stage[b] \in {"images", "post_test", "publish"}
  /\ \A i \in Of(stage[b]) : at[b][i] \in {"ok", "failed"}
  /\ LET next == IF StageFailed(b) THEN "failed" ELSE After(stage[b])
     IN  /\ stage' = [stage EXCEPT ![b] = next]
         /\ dockerNode' = HeldAfter(b, next)
         /\ at' = IF next \in {"done", "failed"} THEN at
                  ELSE [at EXCEPT ![b] = [i \in Images |-> "start"]]
  /\ UNCHANGED <<tries, dirs, path, files, daemon, tested, atlas, hub>>

-----------------------------------------------------------------------------
(* Images Build and Post Test                                              *)

\* Building an image and publishing the box start with deleteDir().
Emptied(b, i, d) ==
  IF stage[b] = "images" \/ InWs(stage[b], i)
  THEN [files EXCEPT ![NodeOf(b, i)][d] = Nobody] ELSE files

\* node(...), and then lock(...), if there is one
Enter(b, i) ==
  /\ stage[b] \in {"images", "post_test", "publish"}
  /\ at[b][i] = "start"
  /\ Cardinality(Inside(NodeOf(b, i))) < Executors
  /\ dirs' = [dirs EXCEPT ![b][i] = Taken(b, i)]
  /\ IF LockOf(stage[b], i) = "none"
     THEN At(b, i, "locked") /\ files' = Emptied(b, i, Max(Taken(b, i)))
     ELSE At(b, i, "entered") /\ UNCHANGED files
  /\ UNCHANGED <<stage, dockerNode, tries, path, daemon, tested, atlas, hub>>

Lock(b, i) ==
  /\ at[b][i] = "entered"
  /\ Holders(LockOf(stage[b], i)) = {}
  /\ At(b, i, "locked")
  /\ files' = Emptied(b, i, Workspace(b, i))
  /\ UNCHANGED <<stage, dockerNode, tries, dirs, path, daemon, tested, atlas, hub>>

Leave(b, i) == dirs' = [dirs EXCEPT ![b][i] = {}]

\* The image is there, and so is its path in the environment of the build.  (The
\* build of the box goes on after errors, but stash fails without a box.)
BuildImage(b, i) ==
  /\ stage[b] = "images"
  /\ at[b][i] = "locked"
  /\ At(b, i, "ok")
  /\ files' = [files EXCEPT ![NodeOf(b, i)][Workspace(b, i)] = b]
  /\ path' = [path EXCEPT ![b][i] = Workspace(b, i)]
  /\ daemon' = IF i = "docker" THEN [daemon EXCEPT ![dockerNode[b]] = b] ELSE daemon
  /\ Leave(b, i)
  /\ UNCHANGED <<stage, dockerNode, tries, tested, atlas, hub>>

Retry(b, i) ==
  IF tries[b][i] < MaxTries[b][i]
  THEN tries' = [tries EXCEPT ![b][i] = @ + 1] /\ At(b, i, "start")
  ELSE At(b, i, "failed") /\ UNCHANGED tries

\* A build that fails may leave its image (or build_record) in the directory, which is
\* not remembered then; a docker build may have tagged images.
BuildFails(b, i) ==
  /\ stage[b] = "images"
  /\ at[b][i] = "locked"
  /\ Retry(b, i)
  /\ IF i = "docker" THEN \E c \in {b, daemon[dockerNode[b]]} :
                            daemon' = [daemon EXCEPT ![dockerNode[b]] = c]
     ELSE UNCHANGED daemon
  /\ \E left \in {b, Nobody} :
       files' = [files EXCEPT ![NodeOf(b, i)][Workspace(b, i)] = left]
  /\ Leave(b, i)
  /\ UNCHANGED <<stage, dockerNode, path, tested, atlas, hub>>

\* What a post test finds: docker images by the build_record at the path, in the
\* daemon; a box or an OVA at the path.
Found(b, i) ==
  LET there == IF path[b][i] = 0 THEN Nobody ELSE files[NodeOf(b, i)][path[b][i]]
  IN  IF i = "docker" /\ there # Nobody THEN daemon[dockerNode[b]] ELSE there

\* The name of the file has the version in it, and checkRackHDVersion compares it with
\* the one installed; "no way available to check" it of docker images.
Testable(b, i, image) ==
  image # Nobody /\ (i # "docker" => VersionOf[image] = VersionOf[b])

TestImage(b, i) ==
  /\ stage[b] = "post_test"
  /\ at[b][i] = "locked"
  /\ Testable(b, i, Found(b, i))
  /\ At(b, i, "ok")
  /\ tested' = [tested EXCEPT ![b][i] = Found(b, i)]
  /\ Leave(b, i)
  /\ UNCHANGED <<stage, dockerNode, tries, path, files, daemon, atlas, hub>>

\* A post test has one try only.
TestFails(b, i) ==
  /\ stage[b] = "post_test"
  /\ at[b][i] = "locked"
  /\ At(b, i, "failed")
  /\ Leave(b, i)
  /\ UNCHANGED <<stage, dockerNode, tries, path, files, daemon, tested, atlas, hub>>

-----------------------------------------------------------------------------
(* Publish Vagrant: Atlas.upload_handler                                   *)

\* Step of the branch that publishes the box, from here to there.
Atlas(b, here, there, entry) ==
  /\ stage[b] = "publish"
  /\ at[b]["vagrant"] = here
  /\ At(b, "vagrant", there)
  /\ atlas' = [atlas EXCEPT ![BoxVersionOf[b]] = entry]
  /\ IF there \in {"ok", "failed"} THEN Leave(b, "vagrant") ELSE UNCHANGED dirs
  /\ UNCHANGED <<stage, dockerNode, tries, path, files, daemon, tested, hub>>

Entry(b) == atlas[BoxVersionOf[b]]

\* A question that fails is taken for the answer no.
VersionExist(b) ==
  \/ Entry(b).exists /\ Atlas(b, "locked", "upload", Entry(b))
  \/ Atlas(b, "locked", "create", Entry(b))

\* The version and its provider.  Atlas refuses to create what is there, for one that
\* somebody else has created.
CreateVersion(b) ==
  \/ /\ ~Entry(b).exists
     /\ Atlas(b, "create", "upload", [Entry(b) EXCEPT !.exists = TRUE])
  \/ Atlas(b, "create", "failed", Entry(b))

\* Without an address to upload to, upload_box does nothing, and the release goes on.
UploadBox(b) ==
  \/ Atlas(b, "upload", "release", [Entry(b) EXCEPT !.box = b])
  \/ Atlas(b, "upload", "release", Entry(b))
  \/ Atlas(b, "upload", "failed", Entry(b))

ReleaseBox(b) ==
  \/ Atlas(b, "release", "ok", [Entry(b) EXCEPT !.released = TRUE])
  \/ Atlas(b, "release", "failed", Entry(b))

\* release_vagrant.groovy has no timeout: a request to Atlas that is never answered
\* leaves the branch on its node for good.
ReleaseHangs(b) ==
  \E here \in {"locked", "create", "upload", "release"} : Atlas(b, here, "hangs", Entry(b))

-----------------------------------------------------------------------------
(* Publish Docker                                                          *)

\* release_docker.sh pushes what build_record of its own workspace names, and then
\* removes all images from the node.
PushDocker(b) ==
  LET n == dockerNode[b]
  IN  /\ stage[b] = "publish"
      /\ at[b]["docker"] = "locked"
      /\ files[n][Workspace(b, "docker")] # Nobody
      /\ hub' = hub \union {<<b, daemon[n]>>}
      /\ \/ At(b, "docker", "ok") /\ daemon' = [daemon EXCEPT ![n] = Nobody]
         \/ At(b, "docker", "failed") /\ UNCHANGED daemon
      /\ Leave(b, "docker")
      /\ UNCHANGED <<stage, dockerNode, tries, path, files, tested, atlas>>

PushFails(b) ==
  /\ stage[b] = "publish"
  /\ at[b]["docker"] = "locked"
  /\ At(b, "docker", "failed")
  /\ Leave(b, "docker")
  /\ UNCHANGED <<stage, dockerNode, tries, path, files, daemon, tested, atlas, hub>>

-----------------------------------------------------------------------------

Branch(b, i) ==
  Enter(b, i) \/ Lock(b, i) \/ BuildImage(b, i) \/ BuildFails(b, i)
    \/ TestImage(b, i) \/ TestFails(b, i)

PublishVagrant(b) ==
  /\ "vagrant" \in Images
  /\ VersionExist(b) \/ CreateVersion(b) \/ UploadBox(b) \/ ReleaseBox(b) \/ ReleaseHangs(b)

PublishDocker(b) == PushDocker(b) \/ PushFails(b)

Next ==
  /\ \E b \in Builds :
       \/ LockDocker(b) \/ StageEnds(b)
       \/ \E i \in Of(stage[b]) : Branch(b, i)
       \/ PublishVagrant(b) \/ PublishDocker(b)
  /\ UNCHANGED labelled

\* While some build can go on, some build does: the nodes and the lock manager serve
\* those who wait in any order.  A script on a node comes to an end because a timeout
\* surrounds it (the builds of images, the post tests, release_docker.groovy) or
\* hangs (release_vagrant.groovy).
Spec == Init /\ [][Next]_vars /\ WF_vars(Next)

-----------------------------------------------------------------------------
(* Properties                                                              *)

\* Everything has its type; no branch uses more tries than retry() gives it.
TypeOK ==
  /\ labelled \in (SUBSET DockerNodes) \ {{}}
  /\ stage \in [Builds -> {"lock", "images", "post_test", "publish", "done", "failed"}]
  /\ dockerNode \in [Builds -> DockerNodes \union {"none"}]
  /\ at \in [Builds -> [Images -> {"start", "entered", "locked", "ok", "failed",
       "create", "upload", "release", "hangs"}]]
  /\ DOMAIN tries = Builds /\ \A b \in Builds : DOMAIN tries[b] = Images
  /\ \A b \in Builds, i \in Images : tries[b][i] \in 1..MaxTries[b][i]
  /\ dirs \in [Builds -> [Images -> SUBSET Dirs]]
  /\ path \in [Builds -> [Images -> Dirs \union {0}]]
  /\ files \in [Nodes -> [Dirs -> Builds \union {Nobody}]]
  /\ daemon \in [DockerNodes -> Builds \union {Nobody}]
  /\ tested \in [Builds -> [Images -> Builds \union {Nobody}]]
  /\ atlas \in [BoxVersions -> [exists : BOOLEAN, box : Builds \union {Nobody},
                                released : BOOLEAN]]
  /\ hub \subseteq (Builds \X Builds)

\* The docker images that a build pushes are the ones that it has built and that have
\* passed its post test, though all builds use the same tags in the same daemons.
PushedIsTested ==
  \A p \in hub : p[2] = p[1] /\ tested[p[1]]["docker"] = p[1]

\* A box in Atlas is of a build that has tested an OVA and a box of its own version and
\* its docker images, though another build may have put its own files in the place of
\* those it was to test.
BoxVersionIsTested ==
  \A v \in BoxVersions : atlas[v].box # Nobody =>
    LET b == atlas[v].box
    IN  \A i \in Images : /\ tested[b][i] # Nobody
                          /\ VersionOf[tested[b][i]] = VersionOf[b]

\* A build that has succeeded has its box version released and its images pushed.
DoneIsPublished ==
  \A b \in Builds : stage[b] = "done" =>
    /\ "vagrant" \in Images => atlas[BoxVersionOf[b]].released
    /\ <<b, b>> \in hub

\* Unless the publication of a box hangs, every build ends, and all docker nodes are free
\* again: the executors that branches hold while they wait for packer_usa or packer_bri,
\* and the docker nodes that builds hold while their branches wait for executors, never
\* form a circle.
PipelinesEnd ==
  [](\A b \in Builds, i \in Images : at[b][i] # "hangs") =>
    <>[](\A b \in Builds : stage[b] \in {"done", "failed"} /\ dockerNode[b] = "none")
=============================================================================
