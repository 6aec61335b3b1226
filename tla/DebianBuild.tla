----------------------------- MODULE DebianBuild -----------------------------
(***************************************************************************)
(* The package build of the release pipeline: the stage "Packages Build"   *)
(* of jobs/ShareMethod.groovy retries jobs/build_debian/build_debian.sh,   *)
(* which runs make_debian_packages.py and release_debian_packages.py.      *)
(*                                                                         *)
(* Both the checkout and the two builds hand a batch of tasks to a pool of *)
(* child processes and judge the results when finish() has returned.  The  *)
(* pool appears here as TaskBatch, which ParallelTasks implements: a batch *)
(* that ends has one result for each task, any the task's body can leave.  *)
(* A batch that has lost a child never ends, and nothing here waits with a *)
(* timeout: see Hangs.                                                     *)
(*                                                                         *)
(* A version is a number: 0 is the version that a repository's changelog   *)
(* and commit determine (of an official build the changelog alone, so that *)
(* other commits may bear it too), d > 0 is the one RackHD has on day d,   *)
(* because the build version of RackHD is taken from the clock.  A         *)
(* repository without a debian directory has no version and no package.    *)
(***************************************************************************)
EXTENDS Naturals, Sequences, TaskResults

CONSTANTS
  Components,   \* the repositories of the manifest other than RackHD
  RackHD,
  MaxAttempts,  \* retry_times in buildAndPublish
  LastDay,      \* bound: how many days the clock runs over
  NoResult

\* The return codes of the commands that a task has run.
Reports == {<<>>, <<0>>, <<1>>, <<0, 0>>, <<0, 1>>}

NoVersion == LastDay + 1

ASSUME BuildAssumption ==
  /\ RackHD \notin Components
  /\ MaxAttempts \in Nat \ {0}
  /\ LastDay \in Nat \ {0}
  /\ NoResult \notin [status : {"success", "none", "exception"}, report : Reports]

Repos == Components \union {RackHD}

VARIABLES
  official,  \* --is-official-release
  script,    \* whether a repository's HWIMO-BUILD is executable at its commit
  debian,    \* whether it has debian/, or debianstatic/ with its name, there
  released,  \* package versions in the Bintray repository the filter asks
  today,     \* the clock
  attempt,   \* which try of retry(3) this is
  step,      \* what the job does next
  ws,        \* the workspace and the variables of the running attempt
  uploaded   \* package versions in the continuous-integration Bintray

given == <<official, script, debian, released>>
vars == <<official, script, debian, released, today, attempt, step, ws, uploaded>>

-----------------------------------------------------------------------------
(* Results of tasks                                                        *)

\* A clone runs clone, fetch and reset (every repository of a validated manifest
\* has a commit-id) and stops at the first that fails; fetch and reset fail alike
\* and are one command here.  Anything else that raises (the Git process cannot
\* be started, a credential is malformed) ends the task without a record of a
\* failed command.
CloneBodies ==
  {[ended |-> "return", status |-> "success", report |-> <<0, 0>>]}
    \union {[ended |-> "exception", status |-> "none", report |-> c] :
              c \in {<<1>>, <<0, 1>>, <<>>, <<0>>}}

\* A build runs HWIMO-BUILD of the repository; whatever goes wrong while it runs
\* is recorded as a return code.  When the file is not executable, the search for
\* it along PATH uses an undefined name, and the task raises.
BuildBodies(r) ==
  IF script[r]
  THEN {[ended |-> "return", status |-> "none", report |-> <<rc>>] : rc \in {0, 1}}
  ELSE {[ended |-> "exception", status |-> "none", report |-> <<>>]}

ResultsOf(bodies) == {Collect(b) : b \in bodies}

CommandFailed(res) == \E i \in DOMAIN res.report : res.report[i] # 0

(* Seeded faults *)

\* Only the clone command itself is looked at.
CloneListErrorFirst(results) ==
  \E r \in DOMAIN results : results[r].report # <<>> /\ results[r].report[1] # 0

\* Every nightly version carries the date.
PackageVersionOfDay(r) ==
  IF ~debian[r] THEN NoVersion ELSE IF official THEN 0 ELSE today

\* An official release of RackHD also carries the date.
PackageVersionDated(r) ==
  IF ~debian[r] THEN NoVersion ELSE IF r = RackHD THEN today ELSE 0

(* What the results are taken for *)

\* clone_repo_list raises when print_command_summary finds a failed command.
CloneListError(results) == \E r \in DOMAIN results : CommandFailed(results[r])

\* get_build_result, which is Builder.summarize_results.
BuildResult(results) == \A r \in DOMAIN results : ~CommandFailed(results[r])

\* The repositories whose clone command succeeded, that is, the directories of
\* the build directory.
Directories(results) ==
  {r \in DOMAIN results : results[r].report # <<>> /\ results[r].report[1] = 0}

-----------------------------------------------------------------------------
(* Versions                                                                *)

\* VersionGenerator.generate_package_version; NoVersion is None.
PackageVersion(r) ==
  IF ~debian[r] THEN NoVersion ELSE IF r = RackHD /\ ~official THEN today ELSE 0

Fresh ==
  [cloned |-> [r \in Repos |-> NoResult],
   need |-> {},
   version |-> [r \in Repos |-> NoVersion],
   built |-> [r \in Repos |-> NoResult],
   pinned |-> [r \in Components |-> NoVersion],
   downstream |-> NoVersion]

Init ==
  /\ official \in BOOLEAN
  /\ script \in [Repos -> BOOLEAN]
  /\ debian \in [Repos -> BOOLEAN]
  /\ released \in SUBSET ((Repos \X {0}) \union {<<RackHD, 1>>})
  /\ today = 1
  /\ attempt = 1
  /\ step = "checkout"
  /\ ws = Fresh
  /\ uploaded = {}

\* The packages under the build directory: HWIMO-BUILD makes them of debian/.
Debs(w) == {<<r, w.version[r]>> : r \in {q \in Repos :
              debian[q] /\ w.built[q] # NoResult /\ w.built[q].report = <<0>>}}

-----------------------------------------------------------------------------
(* Seeded faults                                                           *)

\* One try too many.
FailOnceMore ==
  /\ IF attempt <= MaxAttempts
     THEN attempt' = attempt + 1 /\ step' = "checkout"
     ELSE attempt' = attempt /\ step' = "failed"
  /\ ws' = Fresh
  /\ UNCHANGED <<given, today, uploaded>>

\* The tries are not counted.
FailUncounted ==
  /\ step' = "checkout"
  /\ ws' = Fresh
  /\ UNCHANGED <<given, today, attempt, uploaded>>

-----------------------------------------------------------------------------
(* The job                                                                 *)

Final == {"done", "failed", "hangs"}

\* sys.exit with an error, or a traceback: retry() starts over in an emptied
\* workspace until its tries are used up.
Fail ==
  /\ IF attempt < MaxAttempts
     THEN attempt' = attempt + 1 /\ step' = "checkout"
     ELSE attempt' = attempt /\ step' = "failed"
  /\ ws' = Fresh
  /\ UNCHANGED <<given, today, uploaded>>

Go(next, w) ==
  /\ step' = next
  /\ ws' = w
  /\ UNCHANGED <<given, today, attempt, uploaded>>

\* ManifestActions with "checkout" and "packagerefs".
CheckoutRepos ==
  /\ step = "checkout"
  /\ \E results \in [Repos -> ResultsOf(CloneBodies)] :
       IF CloneListError(results)
       THEN Fail
       ELSE Go("filter", [ws EXCEPT !.cloned = results])

\* filter(package_not_exist, all_repos): a repository stays when it has no version,
\* when its version is not in Bintray, or when the question cannot be answered.
FilterRepos ==
  /\ step = "filter"
  /\ \E unanswered \in SUBSET Directories(ws.cloned) :
       Go("version", [ws EXCEPT !.need =
         {r \in Directories(ws.cloned) :
            \/ PackageVersion(r) = NoVersion \/ r \in unanswered
            \/ <<r, PackageVersion(r)>> \notin released}])

\* A version file for each repository that has a version, which is written before
\* repos.remove("RackHD"): that raises when the filter has dropped RackHD.
WriteVersionFiles ==
  /\ step = "version"
  /\ IF RackHD \in ws.need
     THEN Go("components", [ws EXCEPT !.version =
            [r \in Repos |-> IF r \in ws.need THEN PackageVersion(r) ELSE NoVersion]])
     ELSE Fail

\* run_build_scripts on a list of repositories.
RunBuildScripts(repos, next) ==
  \E results \in {f \in [repos -> UNION {ResultsOf(BuildBodies(r)) : r \in repos}] :
                    \A r \in repos : f[r] \in ResultsOf(BuildBodies(r))} :
    IF BuildResult(results)
    THEN Go(next, [ws EXCEPT !.built =
           [r \in Repos |-> IF r \in repos THEN results[r] ELSE ws.built[r]]])
    ELSE Fail

BuildComponents ==
  /\ step = "components"
  /\ RunBuildScripts(ws.need \ {RackHD}, "control")

\* RackHD/debian/control: the package will depend on exactly the versions that the
\* other repositories in the build directory have now, built or not.  Without a
\* version nothing is pinned; without the control file the script ends.
UpdateRackHDControl ==
  /\ step = "control"
  /\ IF debian[RackHD]
     THEN Go("rackhd", [ws EXCEPT !.pinned =
            [r \in Components |-> IF r \in Directories(ws.cloned) THEN PackageVersion(r)
                                  ELSE NoVersion]])
     ELSE Fail

BuildRackHD ==
  /\ step = "rackhd"
  /\ RunBuildScripts({RackHD}, "params")

\* RACKHD_VERSION for the image builds is computed anew.  (It raises when RackHD has
\* no version, but then the script has ended at the control file.)
WriteDownstreamParameters ==
  /\ step = "params"
  /\ Go("upload", [ws EXCEPT !.downstream = PackageVersion(RackHD)])

\* upload_debs: one file after the other, the first failure ends the script.  A
\* file that an earlier attempt has uploaded is overwritten.
UploadDeb ==
  /\ step = "upload"
  /\ \E d \in Debs(ws) \ uploaded :
       /\ uploaded' = uploaded \union {d}
       /\ UNCHANGED <<given, today, attempt, step, ws>>

UploadEnds ==
  /\ step = "upload"
  /\ Debs(ws) \subseteq uploaded
  /\ Go("done", ws)

\* Every step has error paths of its own (the manifest cannot be fetched, a version
\* cannot be computed, the control file of RackHD cannot be updated, a file cannot
\* be uploaded): all of them end the script.
StepFails ==
  /\ step \notin Final
  /\ Fail

\* finish() waits for ever for a child that has been lost with its task, and so does
\* the script for a command that does not return: neither join() nor
\* build_debian.groovy has a timeout, so no further try is made.
Hangs ==
  /\ step \notin Final
  /\ step' = "hangs"
  /\ UNCHANGED <<given, today, attempt, ws, uploaded>>

Midnight ==
  /\ step \notin Final
  /\ today < LastDay
  /\ today' = today + 1
  /\ UNCHANGED <<given, attempt, step, ws, uploaded>>

Build ==
  \/ CheckoutRepos \/ FilterRepos \/ WriteVersionFiles \/ BuildComponents
  \/ UpdateRackHDControl \/ BuildRackHD \/ WriteDownstreamParameters
  \/ UploadDeb \/ UploadEnds \/ StepFails

Next == Build \/ Hangs \/ Midnight

\* Every step of the job is a statement of a script that Jenkins runs to its end,
\* unless one of them never returns.
Spec == Init /\ [][Next]_vars /\ WF_vars(Build)

-----------------------------------------------------------------------------
(* Properties                                                              *)

TaskResult ==
  ResultsOf(CloneBodies) \union (UNION {ResultsOf(BuildBodies(r)) : r \in Repos})
    \union {NoResult}

\* Everything has its type; no attempt is made after the last one retry() gives.
TypeOK ==
  /\ official \in BOOLEAN
  /\ script \in [Repos -> BOOLEAN] /\ debian \in [Repos -> BOOLEAN]
  /\ released \subseteq (Repos \X (0..1))
  /\ today \in 1..LastDay
  /\ attempt \in 1..MaxAttempts
  /\ step \in {"checkout", "filter", "version", "components", "control", "rackhd",
               "params", "upload", "done", "failed", "hangs"}
  /\ ws.cloned \in [Repos -> TaskResult] /\ ws.built \in [Repos -> TaskResult]
  /\ ws.need \subseteq Repos
  /\ ws.version \in [Repos -> 0..NoVersion] /\ ws.downstream \in 0..NoVersion
  /\ ws.pinned \in [Components -> 0..NoVersion]
  /\ uploaded \subseteq (Repos \X (0..LastDay))

RaisedQuietly(res) == res # NoResult /\ res.status = "exception" /\ ~CommandFailed(res)

\* A repository whose clone or build raised without a recorded return code.
Slipped(r) == RaisedQuietly(ws.cloned[r]) \/ RaisedQuietly(ws.built[r])

\* When the stage succeeds, every repository of the manifest that has a version has a
\* package under it: made in this stage of the manifest's commit and uploaded, or, if
\* it is not RackHD, found in the Bintray repository that the filter asks (of
\* an official build perhaps a package of another commit with the same changelog).
\* Repositories without debian/ have no package, and those that slipped through
\* clone_repo_list or get_build_result may have none: nothing is said of them.
NothingMissing ==
  step = "done" =>
    \A r \in Repos :
      \/ <<r, ws.version[r]>> \in uploaded /\ ws.cloned[r].status = "success"
      \/ r # RackHD /\ <<r, 0>> \in released
      \/ r # RackHD /\ ~debian[r]
      \/ Slipped(r)

\* The version the image builds are told to install is in the CI Bintray, unless
\* RackHD slipped through or a new day began after its version was written.
DownstreamVersionExists ==
  step = "done" =>
    \/ <<RackHD, ws.downstream>> \in uploaded
    \/ Slipped(RackHD)
    \/ ~official /\ ws.version[RackHD] < today

\* RackHD can be installed: each version that its package depends on is in one of the
\* two Bintray repositories, though the filter, the version files and the control file
\* have computed it at different times.  (A repository that slipped through aside.)
PinnedExist ==
  step = "done" =>
    \A r \in Components : ws.pinned[r] # NoVersion =>
      <<r, ws.pinned[r]>> \in uploaded \union released \/ Slipped(r)

\* Unless a child of the pool is lost or a command never returns, the stage ends, after
\* no more tries than retry() gives.
StageEnds == [](step # "hangs") => <>(step \in {"done", "failed"})

\* "If all the tasks success, then return true, otherwise return false"
\* (lib/DebianBuilder.py, get_build_result): the script goes on past a batch only
\* when all its tasks succeeded.
BuildSuccess ==
  step \in {"control", "rackhd", "params", "upload", "done"} =>
    \A r \in Repos : ws.built[r] # NoResult =>
      ws.built[r].status # "exception" /\ ~CommandFailed(ws.built[r])
=============================================================================
