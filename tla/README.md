# Verification of on-build-config

on-build-config is the build system of RackHD: Python 2 programs that check repositories out,
build, version, tag and publish them (`build-release-tools/`), and the Jenkins pipelines and
shell scripts that string the programs together (`jobs/`). The repository has no tests. Its
bugs are of the kind that shows once a month: two builds on one machine, a retry of a script
that had half succeeded, midnight between two steps, a pull request merged while a parser
reads it, a clean-up that deletes while another job uploads. That is what the modules in this directory are about.

Paths below are relative to `src/`; `lib/` and `application/` are in `build-release-tools/`.


## 1. Inventory

| Part | State it keeps | Operations | Talks to | Hard because |
|---|---|---|---|---|
| Task pool, `lib/ParallelTasks.py` | queue with a count of unfinished tasks, shared results, child processes | `add_task`, `_run_task_queue`, `finish`, `get_results` | `RepoCloner`, `Builder` subclass it | processes interleave; a child may die holding a task |
| Checkout, `lib/RepositoryOperator.py`, `lib/manifest.py`, `application/reprove.py` | build directory, manifest | clone, fetch, reset, tag, push, branch | pool, Git, GitHub | some of many repositories fail; results judged by what they record; a branch run that is asked, answered and overtaken |
| Debian build, `application/make_debian_packages.py`, `release_debian_packages.py`, `update_dependencies.py`, `version_generator.py`, `lib/DebianBuilder.py`, `lib/Builder.py` | workspace, version files, RackHD's control file, packages | filter, build components, pin versions, build RackHD, upload | checkout, pool, Bintray, `retry` of Jenkins | versions computed three times, the clock in a version, retries in an emptied workspace |
| Test machines, `jobs/ShareMethod.groovy`, `jobs/FunctionTest/`, `jobs/UnitTest/` | locks, `used_resources`, stashes | lock, choose a node, run, give back, archive | lockable-resources plugin, Jenkins nodes | parallel branches of several builds |
| Pull request gate, `jobs/pr_gate/`, `application/pr_parser.py`, `commit_status_setter.py` | pull requests found, links between repositories, manifest | crawl, judge, fill the manifest, test, write back | GitHub, unit and function tests | circles of dependencies, changes meanwhile, partial failures |
| Sprint tag and release, `jobs/SprintTag/`, `jobs/SprintRelease/`, `application/jump_version.py`, `lib/ManifestGenerator.py` | clones, tags, manifest in Bintray | generate a manifest, jump versions, tag, upload | GitHub, Bintray | retries over half-done work, developers who push, lost answers, midnight |
| Tag monitor, `application/tag_change_monitor.py` | history file | list tags, report one, rewrite history | GitHub, a downstream job | killed between two writes |
| Images, `jobs/build_*`, `jobs/release/`, `lib/PlatformClients.py`, `post_test.sh`, `docker_build.sh` | directories on nodes, docker daemons, Atlas versions | build, test, publish in parallel stages | nodes, locks, Atlas, docker hub | several builds share directories, daemons and versions |
| Nightly clean-up, `application/nightly_build_clean_up.py`, `lib/PlatformClients.py` | none of its own: a list in memory | list what was uploaded in a range, select by name, delete one by one | Bintray, Atlas, docker hub; the jobs that publish there | works on a list while others upload; pages; what looks overdue may be in use |
| npm publication, `application/release_npm_packages.py`, `lib/npm.py` | the registry, which never replaces a version | compute versions, write dependencies, publish one by one | checkout, npm, version generator | a build stops half way; versions shared by builds |
| Manifest synchronisation, `application/update_manifest.py` | none | read, update, validate, write | Bintray, manifest | one process, start to end |
| Results, configuration, deployment, provisioning | - | single commands, reports | - | input and output only |

What makes each of them correct: the pool performs each task once and says it is finished only
when every result is there; a package build that succeeds has put every package where its users
will look for it; no two tests are on one machine and every build ends; the gate tests exactly
the pull requests that belong together and gives a status to no other; the manifest of a release
lists the commits that were tagged; no tag is swallowed by the monitor; what is published has
been tested; what is deleted was a nightly build that nobody needs; what can be installed from npm
or Bintray finds its dependencies there. `PROJECT.json` lists every component with what is left out of it, and every hazard at
its line.


## 2. Modules

| Module | Code | State and actions |
|---|---|---|
| `TaskResults` | `_run_task_queue` (the result of a task) | How a call of `do_one_task` may end and what `get_results()` then holds. |
| `TaskBatch` | the promise of `ParallelTasks` | Abstract: a result for each task, and whether the batch has ended. `Complete`, `Join`. |
| `ParallelTasks` | `lib/ParallelTasks.py` | Parent (`main`, `added`), queue and count, for each child what it is about to do (`at`), the task it holds and its local result, the shared dictionary. One action for each step another process can come between: `AddTask`, `Get`, `DoOneTask`, `Store`, `TaskDone`, `Die`, `CallFinish`, `Join`, `Terminate`, `FinishReturns`. |
| `DebianBuild` | the stage "Packages Build" | `step` is the place in the script, `ws` the workspace that a retry throws away, `attempt` the try, `today` the clock, `released` and `uploaded` the two Bintray repositories. |
| `TestNodes` | `functionTest`, `unitTest`, `occupyAvailableLockedResource` | For each branch `pc`, `lock` (what its lock step holds) and `node` (what it runs on); for each build `used` and `stashed`. |
| `PrGate` | `pr_parser.py` to `commit_status_setter.py` | The crawl (`level`, `found`, `prs`, `links`), the manifest, the statuses; `pull` is GitHub and changes under way. |
| `ReleaseTag` | the scripts of both tagging jobs, and the actions checkout and branch of `reprove.py` | GitHub (`head`, `tag`, `branch`, `jumped`), the clones, the manifests in the workspace and in Bintray, the step and its try. `flow` says which job it is. |
| `TagMonitor` | `tag_change_monitor.py` | The history file, the variables of a run, what has been reported. |
| `ImagePipeline` | `buildAndPublish` after the packages | For each build its stage and docker node; for each branch its place, try and directories; `files`, `daemon`, `atlas`, `hub` are what builds share. |
| `NightlyCleanUp` | `nightly_build_clean_up.py`, and what publishes to the same places | `store` is the platform, the variables of `run` the clean-up (the package it is at, the names still to be asked about, the page, the list), those of `nightly` the build that filters, builds and uploads packages; images and boxes are pushed without a filter. |
| `NpmRelease` | `release_npm_packages.py`, `npm.py` | For each build its manifest, step, starts and `todo`; `registry` is what npm keeps under each version, its dependencies included. |

How they fit together. `ParallelTasks` implements `TaskBatch` (the property
`PerformsEachTaskOnce`, an `INSTANCE ... WITH` whose `results` is the shared dictionary seen by
task and whose `joined` is that `join()` has returned). `DebianBuild` builds on the promise and
not on the pool: both its batches take one step that gives every task of the batch some result
that its body can leave, which is what `TaskBatch` allows when it has ended. `TaskResults` is what
the two share. `ReleaseTag` starts where a manifest is wanted, `ImagePipeline` where `DebianBuild`
ends, `NpmRelease` is its branch "Publish NPM", and `NightlyCleanUp` runs against what it publishes
(it repeats the filter of `make_debian_packages.py` in `Missing`, since that filter decides what
is *not* uploaded again). Each `MC...` module gives the constants of its module their values, and each `...Proofs` module
holds the theorems about its module (section 4); `GitHubProofs` those about `PrGate` and `TagMonitor`.

Abstractions that run through all modules: a commit is a number on its branch, a version is what
distinguishes it (the commit's own, or the day), a command is its return code, a file is whose it
is. A service outside (Git, GitHub, Bintray, Atlas, Jenkins nodes, the lock manager) is what the
code can observe of it; the map marks these definitions external. Each retried script may be
interrupted anywhere (`StepFails`, `Interrupted`), because the network may fail and Jenkins may end
it. A `timeout` surrounds the scripts of the two tagging jobs, the builds of images, their post tests, the
tests on machines and the push of docker images; it turns a script that never returns into one that
fails. None surrounds `build_debian.groovy` (and `join()` of the pool has none either) and
`release_vagrant.groovy`: there a lost child, or a command or request that never returns, leaves the build
where it is for good (`Hangs` in `DebianBuild`, `ReleaseHangs` in `ImagePipeline`).


## 3. Runs

| Run | Instance | Shows |
|---|---|---|
| `pool` | two children, three tasks, children may die | `FinishMeansAllStored`: results are complete when `finish()` stops waiting. `LossIsNeverReportedAsEnd`: a lost task is not mistaken for a finished one. `OnlyIdleTerminated`: `terminate()` hits only children waiting on an empty queue. `FinishesUnlessLost`. `PerformsEachTaskOnce`: refinement. |
| `debian_build` | two components and RackHD, two tries, one midnight, any subset of packages in Bintray, any script executable or not, any repository with `debian/` or without | `NothingMissing`: success means that RackHD, and every component with `debian/`, has a package under the version it was given (conditions below). `DownstreamVersionExists`: the version handed to the image builds exists. `PinnedExist`: RackHD depends on versions that exist. `StageEnds`: unless a child is lost or a command never returns, the stage ends. |
| `test_nodes` | a build of three tests and a build of one, three machines with one label or two | `SiblingsApart`, `LockIsEnough`, `UsedIsInUse`, `BuildsEnd`. |
| `pr_gate` | four pull requests, two of one repository and two with the same number; 24 sets of texts; any state of each, one change, GitHub flaky or not | `CrawlIsExact`: no pull request is missing from the crawl, none is in it without a chain from the root. `StatusOnlyInterdependent`: a status needs a chain of two-way dependencies, and while GitHub answers a place in the crawl. `GateEnds`. |
| `release_tag` | both tagging jobs and the branch action, two repositories of which one refers to the other, three tries, up to two commits by developers for each repository, one foreign commit on each new branch, one midnight | `AllTagged`: success means that every repository has the tag, and after a release a tag with the new version. `ManifestMatchesTags`. `BranchesComplete`: a branch run that succeeds has all branches, with their references, where it wanted them. `JobEnds`. |
| `tag_monitor` | three tags on two commits, two edits, one killed run | `NothingSwallowed`, `ReportedOnce`, `EveryTagReported`. |
| `image_pipeline` | two builds of different versions and the same Atlas version; box, OVA and docker images; one executor on each node; a docker node for each build or one for both; two tries of one OVA, one of everything else | `PushedIsTested`, `BoxVersionIsTested`, `DoneIsPublished`. `PipelinesEnd`: branches wait for the executor that the other build's branch holds, for `packer_bri`, which post tests of boxes and both stages of OVAs share, and a build for the docker node that the other holds from build to release; unless a publication hangs, both end. |
| `clean_up` | each platform, a component and RackHD, one clean-up, four ranges, pages of two images, clock from 2 to 3, any nightly builds there before | `OnlyOverdueDeleted`: no release and no build outside the range is deleted. `OverdueAllGone`: a clean-up that ends well has missed none, not even between two pages. |
| `npm_release` | two builds with any manifests over two commits, nightly or official, with or without `di.js`, each started up to twice; three packages that depend on each other; both commits declare one version | `ResolvesUnlessAbandoned`: success means that all packages are there, and the versions they depend on, unless another build published a package with other dependencies and has not succeeded. |

Every run also checks the type invariant of its module, whose one interesting part is named in
its comment (the count never negative, tries never exceeded, no commit-id left blank, a nightly npm version
stands for one commit).

Three runs refute what the code says of itself:

| Run | The code says | What happens |
|---|---|---|
| `debian_result` | `DebianBuilder.py`: "If all the tasks success, then return true" | A `HWIMO-BUILD` that is not executable makes `is_executable` use an undefined name. The task raises, has no return code, and counts as a success: the package is missing from a green build. |
| `node_locked` | `FunctionTest.groovy`: "Occupy an avaliable resource" inside its lock | A branch may choose the machine that its sibling's lock has brought; the sibling ends and frees that lock; another build locks the machine that is still in use. |
| `release_survives` | `nightly_build_clean_up.py`: "The release build will never be deleted by this script." | Atlas versions are taken for nightly builds when their second number is 0: release 2.0.0 is deleted, nightly 0.12.25 stays for ever. |

Four more were found in the same way and are visible in the models, without a run of their own:

- `pr_parser.py`:299 tests the method `pr_group_is_valid`, not its value (which `parse_pr` also sets
  back to 1 for every pull request it reads): unmergeable pull requests are tested like any
  other. In `PrGate`, `WrapManifest` does not look at `conflicted`.
- `pr_parser.py`:191 says that the root is under test, but a dependency on a second pull request of the
  root's repository takes the root's place in the manifest (`WithPrs` takes the last).
- `create_tag.sh` pushes "the manifest of the tag", but a retry makes a new manifest of new heads,
  while the tags pushed by the first try stay where they were (`GenerateManifest`, `TagKnown`).
- `release_npm_packages.py`:200 passes over a package that is "already published", whoever published it.
  A build may publish a package with the versions of its own manifest and fail before it has published
  those; another build passes over the package and succeeds, and nobody can install it (`PublishPackage`;
  without its condition on `InRegistry(b, p).by`, `ResolvesUnlessAbandoned` is violated).

Conditions in properties that hold say where these end:

- `NothingMissing` says nothing of a repository whose clone or build raised without a return code
  (`Slipped`, what `debian_result` shows), and nothing of a component without `debian/`: it gets no version,
  no package, and the stage succeeds. RackHD without `debian/` makes the stage fail. The version of an
  official build is the changelog's alone, so a component that is found in Bintray under its version
  may have been built of another commit; only a nightly version contains the commit.
- `DownstreamVersionExists` excepts a day that begins after the version of RackHD was written.
- `StageEnds` and `PipelinesEnd` are for runs in which nothing hangs. That no try can succeed once RackHD
  has been uploaded the same day is in the model and contradicts neither.
- `ManifestMatchesTags` excepts a sprint tag that needed a second try, the second part of
  `StatusOnlyInterdependent` a GitHub that does not answer, `LockIsEnough` overlapping labels (with which
  "There is no available resources" does occur), `PerformsEachTaskOnce` tasks of one name.
- `OnlyOverdueDeleted` excepts what is uploaded once more while the clean-up runs: the fresh upload is
  deleted with its name.
- `ResolvesUnlessAbandoned` excepts a package that another build has published with other dependencies,
  if that build has not succeeded: it may have stopped before it published them. The two builds have the
  same version of the package and different versions of what it depends on. For this it is enough that the package is at one
  commit in both manifests and a dependency is not, in nightly builds as in official ones; in official
  builds the package may also be at two commits that declare one version.

### Bounds

They are small because the questions are about pairs: two children and a task for each of them
and one more; two repositories, one done and one not; two builds, one in the other's way. Tries:
two tell a retry from the first, three (release) let a try meet the leftovers of a try that met
leftovers. Pages of two images with more than two there let a push come between two pages; there is one
clean-up at a time, since two only make each other fail. One midnight is the only change of day a job of some hours can see. `MaxChanges`,
`MaxEdits`, `MaxKills`, `MaxCommit`, `LastDay`, `LastTime`, `MaxRuns`, `MaxStarts` bound what people, accidents and the clock do;
nothing else is bounded that is not bounded in the code. The pull requests' texts are chosen to
contain each shape: one-way and two-way links, circles of two and three, a diamond, two pull
requests of one repository, ignored pull requests. Images are tried once, except the
OVA of one build, the only image whose tries wait for a lock that other stages wait for as well; a second try
begins like the first. Everything that image builds wait for is scarce in the run: the executors and
`packer_bri` when each build has a docker node, the docker node when there is only one. (Three builds on two
docker nodes, where both happen at once, were too many states.)

`CHECK_DEADLOCK FALSE` is set where the program ends; `TagMonitor`, which runs for ever, is checked
for deadlock.

### Fairness

Liveness assumes only what runs the code: the operating system runs the parent and every child
(`WF` for each process; no child is obliged to die), Jenkins goes on with the script of a build
(`WF` on the job's own steps, not on developers, clocks or failures), and where several builds
wait for locks and executors, only that some build goes on while one can (`WF` on `Next`): nothing
is assumed of the order in which they are served. Fairness of a job's steps also says that a command
which has been started comes back. Where a `timeout` surrounds it this is Jenkins' doing; where nothing does and
the command may take hours, the model has an action for not coming back, and the property is
conditional on it (`StageEnds`, `PipelinesEnd`; `FinishesUnlessLost` for a lost child). The requests of the
pull request gate, of the tag monitor and of the branch action have no timeout either: `GateEnds`,
`EveryTagReported` and, for that action, `JobEnds` are about runs in which each is answered or fails. Killed runs of the tag monitor are bounded, as
a monitor that is always killed reports nothing. `NightlyCleanUp` and `NpmRelease` have no fairness and
no liveness: nobody has to start them, and they may fail at any request without a retry.


## 4. Proofs

`ParallelTasksProofs` proves for any number of children, tasks and names:

| Theorem | States |
|---|---|
| `TypeCorrect` | `Spec => []TypeOK`; the count stays a natural number, so `task_done` never raises |
| `FinishedIsComplete` | `Spec => []FinishMeansAllStored` |
| `LostBatchNeverEnds` | `Spec => []LossIsNeverReportedAsEnd` |
| `TerminatesOnlyIdle` | `Spec => OnlyIdleTerminated` |
| `PoolImplementsTaskBatch` | `DistinctNames` implies `Spec => PerformsEachTaskOnce` |

None of the invariants is inductive: that the count is zero says nothing unless one knows what is
counted. `IInv` adds it: `HoldsInv` (a child holds a task exactly from `get` to `task_done`, or
for ever when it died, and has stored the result by the time it calls `task_done`), `CountInv` (the
count is the length of the queue plus the number of children that hold a task), `AccountedInv` (a
task that was added waits, is held unstored, or has a result) and `ParentInv` (the parent waits only
when it has added everything, goes on at zero only, and nobody is terminated before that).
`ZeroMeansIdle` is the heart of it: at zero the queue is empty and nobody holds anything, so every
task has a result and no dead child holds one. The refinement needs `OnceInv` as well: a task is in
at most one place, and has no result before it is stored; that is where distinct names are
assumed, because tasks of one name overwrite each other's results.

`TestNodesProofs` proves for any builds, tests, machines and labels:

| Theorem | States |
|---|---|
| `TypeCorrect` | `Spec => []TypeOK` |
| `SiblingsStayApart` | `Spec => []SiblingsApart` |
| `UsedStaysExact` | `Spec => []UsedIsInUse` |
| `LockStaysEnough` | `Spec => []LockIsEnough` |

`SiblingsApart` and `UsedIsInUse` need each other: a choice avoids what is on the list, which keeps
siblings apart only if the list misses none of them; a branch that leaves takes its node off the
list, which keeps the list exact only if no sibling has the node. `IInv` adds `LockInv` (a branch
holds a resource with its label from its lock step to the end, and nobody else holds it) and
`NodeInv` (a branch has a node with its label from the choice to the `finally`).
`LockIsEnough` follows from `IInv` by counting (`EnoughInEveryState`). Suppose a branch with a lock
found nothing to choose. Then each resource that its build holds under the label is the node of a
sibling; labels do not overlap, so the siblings have the same label. The resources held are as many
as the branches with locks, and those with nodes are fewer, since the branch itself has none.

`GitHubProofs` holds the proofs of the two components that act on what GitHub answers. For any
repositories, pull requests and texts, and any number of changes, it proves of `PrGate`:

| Theorem | States |
|---|---|
| `GateTypeCorrect` | `Spec => []TypeOK` |
| `TheCrawlIsExact` | `Spec => []CrawlIsExact` |
| `StatusesStayInterdependent` | `Spec => []StatusOnlyInterdependent` |
| `TheCrawlAdvances` | `Spec => [][CrawlAdvances]_vars`: the variant of the crawl's loop |
| `ReachedIsTheClosure` | `Reached(x, R, Cardinality(U))` is the least set with `x` that is closed under `R`, for pairs `R` over a finite set `U` |

`CrawlIsExact` speaks of the end of the crawl, and `GateInv` of its way there. `FrontInv` says how
the three sequences of `get_all_related_prs` fit together (the level is part of what has been found
before, an ignored root leaves nothing at all). `CompleteInv` is what the property becomes half way:
everything that a found pull request asks for is found, unless it is merged or the pull request is
still in the level. `MentionedInv` is the other direction. It survives `NewOnly`, which drops entries
that are known already, and the people, because `Onward` holds of every step: merged stays merged, and no
pull request comes into being. `RefInv` and `UnderTestInv` are needed for the statuses: an entry with
the number of another pull request is one that GitHub has not answered for, and who is under test
is interdependent and has an entry with the commit of the manifest, also when the manifest gives a
repository the last of several entries.

What chains of links lead to is a function of the number of steps, and no library theorem about
induction can be used for it, so the proofs argue by a least counterexample: a set of numbers that is
not empty has a least one (`Least`, which the library gives as well-foundedness). With it,
`RoundsExist` shows that the function is what its definition says, `ReachedIsLeast` that no closed set
is left, `ReachedIsClosed` that as many steps as there are elements are enough (as long as a step
adds something, the set grows), and `NthProperty` that the k-th of a set of indices exists, which is what
`Related` and `NewOnly` are made of. `TheCrawlAdvances` is the part of `GateEnds` that is not about
fairness: a further level takes entries out of a finite set (`FinitelyManyEntries`) or ends the loop.

Of `TagMonitor` it proves, for any tags, any number of commits and any bounds on edits and kills:

| Theorem | States |
|---|---|
| `MonitorTypeCorrect` | `MonitorSpec => []MonitorTypeOK` |
| `NothingIsSwallowed` | `MonitorSpec => []NothingSwallowed` |
| `IsReportedOnce` | `MonitorSpec => []ReportedOnce` |

The names of `TagMonitor` that the gate has too begin with `Monitor`, so that one module can extend both;
no lemma about one uses anything of the other. `MonitorInv` follows a tag through a run:
`OnItsWay` says that what is in the history, or on its way there, has been reported or is what this
run reports; `Remembered` says that without killed runs and removed tags everything reported is still
listed and is in whatever the run holds at that step. That the first new tag exists
(`FirstNewProperty`) needs `Least` again.

`NpmReleaseProofs` proves for any builds, packages, dependencies, commits and declared versions:

| Theorem | States |
|---|---|
| `TypeCorrect` | `Spec => []TypeOK` |
| `SuccessResolves` | `Spec => []ResolvesUnlessAbandoned` |

`IInv` adds `ProgressInv` (what a build no longer has to do is in the registry, and a build that is done
has nothing to do) and `FrozenInv` (whatever is in the registry names the versions that the build
which put it there wanted). Both survive the other builds because the registry only grows
(`RegistryGrows`): what is there is never replaced (`AddedToRegistry`). A package that another build has
published then either names the same version, which this build has published or found, or the other
build is done and has published what it names, or it is not done: the exception in the property.

`ReleaseTagProofs` proves for any repositories, any number of tries, and any bounds on the commits of
others and on the days:

| Theorem | States |
|---|---|
| `TypeCorrect` | `Spec => []TypeOK` |
| `AllAreTagged` | `Spec => []AllTagged` |
| `ManifestIsOfTheTags` | `Spec => []ManifestMatchesTags` |
| `BranchesAreComplete` | `Spec => []BranchesComplete` |

The properties speak of the last step only, so `IInv` says what each step hands to the next.
`FlowInv` lists the steps of each job; `CloneInv` says that a clone that has been made is at the commit of the
manifest (in a sprint tag, which makes the manifest of its clones: between the tag and the head);
`JumpInv` follows the commit with the new version from the clone to GitHub, into the clone of the next
try if a push was done and its answer lost, and into the published manifest; `TagInv` and
`BranchInv` say what the loops have done of the repositories that are no longer in `todo`. What a
failure leaves behind is a lemma of its own (`FailedStep`, `FailedJob`), since most steps may fail,
and so is the push whose answer may be lost (`PushTakesEffect`).

`DebianBuildProofs` proves for any components, tries and days, and any scripts:

| Theorem | States |
|---|---|
| `TypeCorrect` | `Spec => []TypeOK` |
| `NoPackageIsMissing` | `Spec => []NothingMissing` |
| `DownstreamVersionIsThere` | `Spec => []DownstreamVersionExists` |
| `PinnedVersionsAreThere` | `Spec => []PinnedExist` |

`IInv` says what the script knows when it goes on: `ClonedInv` and `BuiltInv` (a task whose results
were accepted has succeeded, or raised without a return code: the exception of the properties, from
`CloneOutcome` and `BuildOutcome`, which go through everything a task can leave behind), `NeedInv`
(what the filter dropped is in Bintray under its version, and RackHD is never dropped), `VersionInv` (which of the
versions computed at three times agree, and where midnight separates them) and `UploadInv`.

`ImagePipelineProofs` proves for any builds, images, docker nodes, versions, tries and executors:

| Theorem | States |
|---|---|
| `TypeCorrect` | `Spec => []TypeOK` |
| `PushedImagesAreTested` | `Spec => []PushedIsTested` |
| `BoxesAreTested` | `Spec => []BoxVersionIsTested` |
| `DoneBuildsArePublished` | `Spec => []DoneIsPublished` |

The lock on the docker node carries the docker images through the three stages: `HeldInv` (nobody
else has the node of a running build) lets `DaemonInv` (from the end of its docker build to its push
the daemon has the build's own images) survive the steps of other builds. For boxes there is no such
lock, and the proof shows what the version check in the post test is good for: `TestedInv` says of
them only that what was tested has the right version. `OriginInv` and `PublishedInv` connect the
stages with Atlas and docker hub. `DirsInv` is there for the types: that a branch always finds a directory
is a count (`DirsOfBranches`, `TakenType`): fewer than `Executors` branches are on the node, each in at
most two of `2 * Executors` directories, so two are free.

`NightlyCleanUpProofs` proves for any packages, ranges, page sizes, numbers of runs and readings of the clock:

| Theorem | States |
|---|---|
| `TypeCorrect` | `Spec => []TypeOK` |
| `OnlyTheOverdueGo` | `Spec => OnlyOverdueDeleted` |
| `TheOverdueAreGone` | `Spec => []OverdueAllGone` |
| `TheNewestInstalls` | `Spec => []NewestInstallable` |

`ChosenInv` says that what is on the list was within the range, or has been uploaded since the run
began; the action property follows, since only `Delete` removes anything (`OnlyDeleted`). `ListedInv` is
about the opposite mistake: what is overdue is on the list, or is a name still to be read, or is at a
position of docker hub's list that is on no page read so far. It survives pushes because what is
pushed comes first, so everything older moves down the list and never up (`PushedFirst`, by comparing
the finite sets of what comes before). `GoneInv` collects it over the packages, and `SoundInv` says of a
nightly build that looked while no clean-up ran that what it does not upload is there. `TheNewestInstalls`
is a statement about the filter of `make_debian_packages.py` and not about the clean-up: a component that
has not changed is not uploaded again, so the RackHD of today may depend on an upload of last month; the
clean-up deletes that, and RackHD cannot be installed until its next nightly build has found the component
missing. It is proved and is no property of a run.

The proofs assume `PoolAssumption` (finitely many children and at least one, tasks named, ways to
end) and `ResultAssumption` (no result is not a result), and of the other modules the kinds of the
constants: `NodesAssumption` (each label has a machine), `GateAssumption` (finitely many repositories
and pull requests, the root among them, and texts that name pull requests), `MonitorAssumption`, `NpmAssumption`,
`TagAssumption`, `BuildAssumption` (no result is not a result), `PipelineAssumption` (the builds are
finitely many, docker nodes are not called like images) and `CleanUpAssumption` (RackHD is one of the
packages, a range is empty or a pair of times). The bounds `MaxCommit` and `LastTime` are at least 2, since that is where the
initial states put the heads and the clock. TLC evaluates the assumptions in the runs of the same modules, and
each inductive invariant was checked by TLC on the instance of the module's run before it was proved.

`GateInv` was checked with every part on its own, and `CrawlAdvances` as an action property.

Only model-checked:

- all liveness (`StageEnds`, `GateEnds`, `JobEnds`, `PipelinesEnd`, `BuildsEnd`, `EveryTagReported`,
  `FinishesUnlessLost`), since TLAPS does not handle fairness and `ENABLED`;
- the three properties that the code violates.

No module uses `RECURSIVE` operators.


## 5. Not modelled

- What commands print, and the text of versions, URLs and credentials.
- The heads of pull requests: the status is written to the latest commit, which need not be the
  one tested. GitHub's `mergeable` may also be unknown (None), which the code takes for unmergeable.
- GitHub's paging of long lists of tags: `get_tags` reads the first page only, the model all tags.
- The difference, in `ReleaseTag`, between a repository that has the new version already and one with neither
  `package.json` nor `debian/`: `jump_version.py` changes nothing in either (`jumped` is 1), and "bears the new
  version" in `AllTagged` says nothing of the second.
- In `ImagePipeline`: the branches that publish Debian and npm packages, which have no timeout either,
  and the checkouts around the scripts. The race to create an Atlas version is in the model; that a
  build which loses it fails is judged by no property.
- A child killed while it waits in `queue.get()`, with the queue's internal lock in its hands.
- The executor of the pipeline itself. The stage "Publish" is in three modules: vagrant and docker in
  `ImagePipeline`, npm in `NpmRelease`, Debian in `NightlyCleanUp` (`PublishPackage`) and, for the
  staging repository, in `DebianBuild`.
- The loop over several boxes in `release_to_atlas.py`: a build makes one box. (With two, or with
  `--atlas-version` as in the header's example, the upload is skipped, because it stands in the branch
  that computes a version; the job passes none.)
- npm's dist-tags (`--tag ci-release`), and packages whose dependencies differ between commits.
- In the clean-up: without `--date-range` it fails on a variable without a value, though the help promises
  the last 14 days, and a wrong `--source-type` ends with 0; both are one step (`Start`, or nothing).
  Release names are taken to have no dash. That docker hub lists the newest tags first is an assumption
  about a service.
- `update_manifest.py`: one process that downloads a manifest, clones a repository, changes an entry with
  `Manifest.update_manifest` (in `PrGate`), validates, and writes files. No job of the repository
  calls it, it shares no state with another process, and it ends at its first error; nothing in it
  depends on an order of events.
- `post-result.py`, `get_downstream_jobs.py`, `parse_test_results.py`: reports on builds that have ended.
- `archive` in `TestNodes` records that one lost stash loses all logs; no property judges it.
- The components marked `not_modelled` in `PROJECT.json`, with the reasons given there.


## 6. Plan

The core came first: the pool, since checkout and build stand on it, the package build, the machines,
the gate, tagging, the monitor, and the images; then the clean-up, the publication to npm and the
branch action. What is left, in this order:

1. *Proofs*: every safety and action property of the passing runs has one. What remains of the proofs
   is liveness, once the prover handles `ENABLED`; `CrawlAdvances` is a variant to start from.
2. *Abstract specifications*: "a release tags what it publishes" for `ReleaseTag`, and a lock abstraction for
   `TestNodes`.
3. *Pull request heads* in `PrGate`, to say under which pushes the commit that is judged is the commit
   that was tested.
