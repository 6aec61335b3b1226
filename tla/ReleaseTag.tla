----------------------------- MODULE ReleaseTag ------------------------------
(***************************************************************************)
(* Tagging the repositories of a release and publishing its manifest.      *)
(*                                                                         *)
(* Sprint tag (jobs/SprintTag/create_tag.{groovy,sh}): one script, tried   *)
(* three times, clones all repositories at the head of the branch, makes a *)
(* manifest of what it has cloned, tags the clones, and uploads the        *)
(* manifest.                                                               *)
(*                                                                         *)
(* Sprint release (jobs/SprintRelease/): checks out a given manifest,      *)
(* commits and pushes the new version (jump_version.py), uploads a         *)
(* manifest of the resulting commits, and tags these, each with three      *)
(* tries of its own.                                                       *)
(*                                                                         *)
(* Both tag through set_repo_tagname of lib/RepositoryOperator.py, which   *)
(* leaves a repository alone when its clone knows the tag.                 *)
(*                                                                         *)
(* Branch (reprove.py, actions checkout and branch), started by hand and   *)
(* without retries: checks out a given manifest, creates a branch in each  *)
(* repository, and pushes to the branches a change that makes the          *)
(* repositories refer to each other's branches.                            *)
(*                                                                         *)
(* Developers push all the time, and a push or an upload may fail before   *)
(* or after it has taken effect.  The commits of a repository's main       *)
(* branch are numbered from 1.                                             *)
(***************************************************************************)
EXTENDS Naturals, FiniteSets

CONSTANTS
  Repos,
  Dependents, \* the repositories whose package.json refers to others
  MaxTries,   \* retry_times
  MaxCommit,  \* bound: the developers stop at this commit
  LastDay     \* bound: how many days the clock runs over

ASSUME TagAssumption ==
  /\ Dependents \subseteq Repos
  /\ MaxTries \in Nat \ {0}
  /\ MaxCommit \in Nat /\ MaxCommit >= 2 /\ LastDay \in Nat \ {0}

VARIABLES
  flow,      \* "tag", "release", "release_no_jump" (JUMP_VERSION not true), or "branch"
  before,    \* the repositories that had the tag before the job
  head,      \* for each repository: the head of its branch on GitHub
  tag,       \* for each repository: the commit its tag is at on GitHub, or 0
  branch,    \* for each repository: the new branch on GitHub
  jumped,    \* for each repository: the first commit with the new version, or 0; 1 where
             \* there is neither package.json nor debian/, and so no version to change
  today,
  step,      \* where the job is
  try,       \* which try of the current retry block this is
  todo,      \* the repositories the loop of the current step has still to visit
  clone,     \* the clones in the build directory
  files,     \* the days in the names of the manifests in the workspace
  published  \* the manifest in Bintray

github == <<head, tag, branch, jumped>>
given == <<flow, before>>
vars == <<given, github, today, step, try, todo, clone, files, published>>

\* A clone: its HEAD is commit "at", with an unpushed commit on top if "ahead"; the
\* branch of its origin was at "origin" when it was last seen; "tag" says whether the
\* tag was there when it was cloned; "free" that the new branch is not, as far as is known.
NoClone == [at |-> 0, ahead |-> FALSE, origin |-> 0, tag |-> FALSE, free |-> FALSE]

\* A branch: the commit it starts from, whether the references are changed on it, and
\* how many commits others have pushed to it.
NoBranch == [from |-> 0, references |-> FALSE, others |-> 0]

NoManifest == [r \in Repos |-> 0]

\* The first step of each of the retry blocks.
FirstStep ==
  IF flow = "tag" THEN "clone_heads"
  ELSE IF flow = "release_no_jump" THEN "checkout_tag" ELSE "checkout"

Init ==
  /\ flow \in {"tag", "release", "release_no_jump", "branch"}
  /\ before \in SUBSET IF flow = "branch" THEN {} ELSE Repos
  /\ head = [r \in Repos |-> 2]
  /\ tag = [r \in Repos |-> IF r \in before THEN 1 ELSE 0]
  /\ IF flow = "branch"
     THEN /\ branch \in [Repos -> {NoBranch, [NoBranch EXCEPT !.from = 1]}]
          /\ jumped = [r \in Repos |-> 0]
     ELSE branch = [r \in Repos |-> NoBranch] /\ jumped \in [Repos -> {0, 1}]
  /\ today = 1
  /\ step = FirstStep
  /\ try = 1
  /\ todo = Repos
  /\ clone = [r \in Repos |-> NoClone]
  /\ files = {}
  /\ IF flow = "tag" THEN published = NoManifest
     ELSE published \in [Repos -> {1, 2}]

-----------------------------------------------------------------------------
(* Developers and the clock                                                *)

Push(r) ==
  /\ step \notin {"done", "failed"}
  /\ head[r] < MaxCommit
  /\ head' = [head EXCEPT ![r] = @ + 1]
  /\ UNCHANGED <<given, tag, branch, jumped, today, step, try, todo, clone, files, published>>

\* Others create the branch, or push to it.
OthersBranch(r) ==
  /\ flow = "branch" /\ step \notin {"done", "failed"}
  /\ branch[r].others = 0
  /\ IF branch[r] = NoBranch
     THEN \E c \in 1..head[r] : branch' = [branch EXCEPT ![r].from = c]
     ELSE branch' = [branch EXCEPT ![r].others = 1]
  /\ UNCHANGED <<given, head, tag, jumped, today, step, try, todo, clone, files,
                 published>>

Midnight ==
  /\ step \notin {"done", "failed"}
  /\ today < LastDay
  /\ today' = today + 1
  /\ UNCHANGED <<given, github, step, try, todo, clone, files, published>>

-----------------------------------------------------------------------------
(* Steps and tries                                                         *)

\* Where retry() starts again.
RetryFrom ==
  IF flow = "tag" THEN "clone_heads"
  ELSE IF step \in {"checkout_tag", "tag"} THEN "checkout_tag" ELSE step

\* Removes the build directory (--force) where the block starts with a checkout; the
\* blocks "jump" and "upload" go on with the clones as they are, here c.
Restart(c) ==
  /\ step' = RetryFrom
  /\ todo' = Repos
  /\ clone' = IF RetryFrom \in {"jump", "upload"} THEN c
              ELSE [r \in Repos |-> NoClone]

\* Seeded faults: one try too many; the tries are not counted.
FailOnceMore(c) ==
  IF try <= MaxTries THEN Restart(c) /\ try' = try + 1
  ELSE step' = "failed" /\ UNCHANGED <<try, todo, clone>>

FailUncounted(c) == Restart(c) /\ UNCHANGED try

\* A step of the script fails and leaves the clones as c.
Fail(c) ==
  IF try < MaxTries /\ flow # "branch" THEN Restart(c) /\ try' = try + 1
  ELSE step' = "failed" /\ UNCHANGED <<try, todo, clone>>

Visit(r) == todo' = todo \ {r} /\ UNCHANGED <<step, try>>

\* Anything may fail before it takes effect: the network, or the timeout() around the
\* script.
Interrupted ==
  /\ step \notin {"done", "failed"}
  /\ Fail(clone)
  /\ UNCHANGED <<given, github, today, files, published>>

-----------------------------------------------------------------------------
(* The steps                                                               *)

\* git clone -b branch, and with a manifest git reset --hard commit-id.
Cloned(r, commit) ==
  [clone EXCEPT ![r] =
     [at |-> commit, ahead |-> FALSE, origin |-> head[r], tag |-> tag[r] # 0,
      free |-> FALSE]]

CloneHead(r) ==
  /\ step = "clone_heads" /\ r \in todo
  /\ clone' = Cloned(r, head[r])
  /\ Visit(r)
  /\ UNCHANGED <<given, github, today, files, published>>

\* The manifest is named after the day, and `find` hands every manifest in the
\* workspace to reprove.py, which takes only one.
GenerateManifest ==
  /\ step = "clone_heads" /\ todo = {}
  /\ files' = files \union {today}
  /\ IF Cardinality(files') = 1
     THEN step' = "tag" /\ todo' = Repos /\ UNCHANGED <<try, clone>>
     ELSE Fail(clone)
  /\ UNCHANGED <<given, github, today, published>>

\* reprove.py checkout
CheckOut(r) ==
  /\ step \in {"checkout", "checkout_tag"} /\ r \in todo
  /\ clone' = Cloned(r, published[r])
  /\ Visit(r)
  /\ UNCHANGED <<given, github, today, files, published>>

CheckedOut ==
  /\ step \in {"checkout", "checkout_tag"} /\ todo = {}
  /\ todo' = Repos
  /\ \/ flow = "branch" /\ step' = "branch" /\ UNCHANGED try
     \/ flow = "release" /\ step = "checkout" /\ step' = "jump" /\ try' = 1
     \/ step = "checkout_tag" /\ step' = "tag" /\ UNCHANGED try
  /\ UNCHANGED <<given, github, today, clone, files, published>>

\* jump_version.py finds nothing to change in a commit.
HasVersion(r, commit) == jumped[r] # 0 /\ commit >= jumped[r]

\* push_repo_changes: commits unless the version was there already, and pushes unless
\* there is nothing to commit and the clone is where its origin was.  GitHub takes a
\* push that is ahead of nothing but the branch's head.
Commits(r) == clone[r].ahead \/ ~HasVersion(r, clone[r].at)

NothingToPush(r) == ~Commits(r) /\ clone[r].at = clone[r].origin

JumpNothing(r) ==
  /\ step = "jump" /\ r \in todo
  /\ NothingToPush(r)
  /\ Visit(r)
  /\ UNCHANGED <<given, github, today, clone, files, published>>

\* The clone and GitHub after the push, of which the clone may not hear.
Pushed(r) ==
  /\ head[r] = clone[r].at
  /\ IF Commits(r)
     THEN /\ head' = [head EXCEPT ![r] = @ + 1]
          /\ jumped' = [jumped EXCEPT ![r] = head'[r]]
     ELSE UNCHANGED <<head, jumped>>
  /\ UNCHANGED <<tag, branch>>

JumpVersion(r) ==
  /\ step = "jump" /\ r \in todo
  /\ ~NothingToPush(r)
  /\ Pushed(r)
  /\ clone' = [clone EXCEPT ![r].at = head'[r], ![r].ahead = FALSE,
                            ![r].origin = head'[r]]
  /\ Visit(r)
  /\ UNCHANGED <<given, today, files, published>>

\* The push is refused or its answer lost, and the script ends.  The commit stays in
\* the clone.
JumpFails(r) ==
  /\ step = "jump" /\ r \in todo
  /\ ~NothingToPush(r)
  /\ \/ /\ Pushed(r)
        /\ Fail([clone EXCEPT ![r].at = head'[r], ![r].ahead = FALSE])
     \/ /\ UNCHANGED github
        /\ Fail([clone EXCEPT ![r].ahead = Commits(r)])
  /\ UNCHANGED <<given, today, files, published>>

Jumped ==
  /\ step = "jump" /\ todo = {}
  /\ step' = "upload" /\ try' = 1 /\ todo' = Repos
  /\ UNCHANGED <<given, github, today, clone, files, published>>

\* set_repo_tagname
TagKnown(r) ==
  /\ step = "tag" /\ r \in todo
  /\ clone[r].tag
  /\ Visit(r)
  /\ UNCHANGED <<given, github, today, clone, files, published>>

\* Seeded fault: what git push says is not looked at.
TagCloneUnchecked(r) ==
  /\ step = "tag" /\ r \in todo
  /\ ~clone[r].tag
  /\ tag[r] = 0
  /\ \E t \in {0, clone[r].at} : tag' = [tag EXCEPT ![r] = t]
  /\ Visit(r)
  /\ clone' = [clone EXCEPT ![r].tag = TRUE]
  /\ UNCHANGED <<given, head, branch, jumped, today, files, published>>

\* git tag -a in the clone, then git push origin --tags, of which the clone may not
\* hear.
TagClone(r) ==
  /\ step = "tag" /\ r \in todo
  /\ ~clone[r].tag
  /\ tag[r] = 0
  /\ tag' = [tag EXCEPT ![r] = clone[r].at]
  /\ \/ Visit(r) /\ clone' = [clone EXCEPT ![r].tag = TRUE]
     \/ Fail([clone EXCEPT ![r].tag = TRUE])
  /\ UNCHANGED <<given, head, branch, jumped, today, files, published>>

\* Where the job goes on from a loop that has tagged all.
Tagged ==
  /\ step = "tag" /\ todo = {}
  /\ step' = IF flow = "tag" THEN "upload" ELSE "done"
  /\ UNCHANGED <<given, github, today, try, todo, clone, files, published>>

\* Seeded fault: the manifest is made of the branches.
ManifestOfHeads == head

\* The manifest of the clones, generate_manifest.py: for the sprint tag it was made
\* before the tags, of the same clones.
ManifestOfClones == [r \in Repos |-> clone[r].at]

\* mv, pushToBintray.sh, and asking Bintray for the manifest until it is there.  The
\* mv leaves no manifest named after a day.
Upload ==
  /\ step = "upload"
  /\ files' = {}
  /\ \/ /\ published' = ManifestOfClones
        /\ IF flow = "tag" THEN step' = "done" /\ UNCHANGED <<try, todo, clone>>
           ELSE /\ step' = "checkout_tag" /\ try' = 1 /\ todo' = Repos
                /\ clone' = [r \in Repos |-> NoClone]
     \/ /\ published' \in {published, ManifestOfClones}
        /\ Fail(clone)
  /\ UNCHANGED <<given, github, today>>

\* create_repo_branch asks GitHub for the branch, and takes no answer for none.
AskForBranch(r) ==
  /\ step = "branch" /\ r \in todo
  /\ ~clone[r].free
  /\ \E answer \in BOOLEAN :
       IF answer /\ branch[r] # NoBranch THEN Fail(clone)
       ELSE clone' = [clone EXCEPT ![r].free = TRUE] /\ UNCHANGED <<step, try, todo>>
  /\ UNCHANGED <<given, github, today, files, published>>

\* GitHub takes a push of a branch that is new, or goes on where the old one ends.
TakesBranch(r) ==
  \/ branch[r] = NoBranch
  \/ branch[r].from <= clone[r].at /\ ~branch[r].references /\ branch[r].others = 0

\* Seeded fault: what git push says is not looked at.
CreateBranchUnchecked(r) ==
  /\ step = "branch" /\ r \in todo
  /\ clone[r].free
  /\ branch' = IF TakesBranch(r) THEN [branch EXCEPT ![r].from = clone[r].at] ELSE branch
  /\ Visit(r) /\ UNCHANGED clone
  /\ UNCHANGED <<given, head, tag, jumped, today, files, published>>

\* git branch and git push -u origin, of which the clone may not hear.
CreateBranch(r) ==
  /\ step = "branch" /\ r \in todo
  /\ clone[r].free
  /\ IF TakesBranch(r)
     THEN /\ branch' = [branch EXCEPT ![r].from = clone[r].at]
          /\ (Visit(r) /\ UNCHANGED clone) \/ Fail(clone)
     ELSE UNCHANGED branch /\ Fail(clone)
  /\ UNCHANGED <<given, head, tag, jumped, today, files, published>>

Branched ==
  /\ step = "branch" /\ todo = {}
  /\ step' = "references" /\ todo' = Repos
  /\ UNCHANGED <<given, github, today, try, clone, files, published>>

\* update_repo_package_list and push_repo_changes on the branch, which GitHub takes if
\* nobody has pushed to it.
PushReferences(r) ==
  /\ step = "references" /\ r \in todo
  /\ IF r \notin Dependents
     THEN UNCHANGED branch /\ Visit(r) /\ UNCHANGED clone
     ELSE IF branch[r].others = 0
     THEN /\ branch' = [branch EXCEPT ![r].references = TRUE]
          /\ (Visit(r) /\ UNCHANGED clone) \/ Fail(clone)
     ELSE UNCHANGED branch /\ Fail(clone)
  /\ UNCHANGED <<given, head, tag, jumped, today, files, published>>

ReferencesPushed ==
  /\ step = "references" /\ todo = {}
  /\ step' = "done"
  /\ UNCHANGED <<given, github, today, try, todo, clone, files, published>>

Job ==
  \/ \E r \in Repos :
       \/ CloneHead(r) \/ CheckOut(r)
       \/ JumpNothing(r) \/ JumpVersion(r) \/ JumpFails(r)
       \/ TagKnown(r) \/ TagClone(r)
       \/ AskForBranch(r) \/ CreateBranch(r) \/ PushReferences(r)
  \/ GenerateManifest \/ CheckedOut \/ Jumped \/ Tagged \/ Upload
  \/ Branched \/ ReferencesPushed
  \/ Interrupted

Next == Job \/ Midnight \/ \E r \in Repos : Push(r) \/ OthersBranch(r)

\* Jenkins carries the job out, and ends what takes too long.
Spec == Init /\ [][Next]_vars /\ WF_vars(Job)
-----------------------------------------------------------------------------
(* Properties                                                              *)

Commit == 1..(MaxCommit + 1)

\* Everything has its type; no attempt is made after the last one retry() gives.
TypeOK ==
  /\ flow \in {"tag", "release", "release_no_jump", "branch"} /\ before \subseteq Repos
  /\ head \in [Repos -> Commit]
  /\ tag \in [Repos -> Commit \union {0}] /\ jumped \in [Repos -> Commit \union {0}]
  /\ branch \in [Repos -> [from : Commit \union {0}, references : BOOLEAN, others : 0..1]]
  /\ today \in 1..LastDay /\ files \subseteq 1..LastDay
  /\ step \in {"clone_heads", "checkout", "jump", "upload", "checkout_tag", "tag",
               "branch", "references", "done", "failed"}
  /\ try \in 1..MaxTries /\ todo \subseteq Repos
  /\ clone \in [Repos -> [at : Commit \union {0}, ahead : BOOLEAN,
                          origin : Commit \union {0}, tag : BOOLEAN, free : BOOLEAN]]
  /\ published \in [Repos -> Commit \union {0}]

\* A tagging job that succeeds leaves the tag on every repository on GitHub, whichever
\* pushes were lost on the way; what a release has tagged bears the new version, if it
\* is of a repository that has a version at all.
AllTagged ==
  step = "done" /\ flow # "branch" =>
    \A r \in Repos :
      /\ tag[r] # 0
      /\ flow = "release" /\ r \notin before => HasVersion(r, tag[r])

\* A release whose job succeeds has the tags at the commits of the manifest in Bintray,
\* however often it was retried and whatever developers pushed; so has a sprint tag
\* that succeeds at the first try, and after a retry no repository is older in the
\* manifest than its tag.  (Repositories that had the tag before aside.)
ManifestMatchesTags ==
  step = "done" /\ flow # "branch" =>
    \A r \in Repos :
      /\ r \notin before /\ (flow = "tag" => try = 1) => published[r] = tag[r]
      /\ flow = "tag" => published[r] >= tag[r]

\* A run of the branch action that succeeds leaves the branch in every repository, from
\* the manifest's commit on and with its references changed, though GitHub may not have
\* answered when it was asked, and others create branches and push to them.
BranchesComplete ==
  step = "done" /\ flow = "branch" =>
    \A r \in Repos :
      /\ branch[r].from = published[r]
      /\ r \in Dependents => branch[r].references

\* The job ends.
JobEnds == <>(step \in {"done", "failed"})
=============================================================================
