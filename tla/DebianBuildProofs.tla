-------------------------- MODULE DebianBuildProofs --------------------------
(***************************************************************************)
(* Proofs about the package build, for any repositories, any number of     *)
(* tries and of days.                                                      *)
(***************************************************************************)
EXTENDS DebianBuild, TLAPS

Workspaces ==
  [cloned : [Repos -> TaskResult], need : SUBSET Repos, version : [Repos -> 0..NoVersion],
   built : [Repos -> TaskResult], pinned : [Components -> 0..NoVersion],
   downstream : 0..NoVersion]

Here == Directories(ws.cloned)

Filtered == {"version", "components", "control", "rackhd", "params", "upload", "done"}
Versioned == Filtered \ {"version"}
ComponentsBuilt == Versioned \ {"components"}

\* A task whose results the script has accepted has succeeded, or raised quietly.
ClonedInv ==
  step \in Filtered \union {"filter"} =>
    \A r \in Repos :
      \/ ws.cloned[r].status = "success" /\ r \in Here
      \/ RaisedQuietly(ws.cloned[r])

BuiltWell(r) ==
  ws.built[r] # NoResult /\ (ws.built[r].report = <<0>> \/ RaisedQuietly(ws.built[r]))

BuiltInv ==
  /\ \A r \in Repos :
       ws.built[r] # NoResult => r \in ws.need /\ step \in ComponentsBuilt \union {"hangs"}
  /\ step \in ComponentsBuilt => \A r \in ws.need \ {RackHD} : BuiltWell(r)
  /\ step \in {"params", "upload", "done"} => BuiltWell(RackHD)

\* What the filter has dropped is in Bintray; without RackHD the script has failed.
NeedInv ==
  /\ step \in Filtered =>
       ws.need \subseteq Here /\ \A r \in Here \ ws.need : r = RackHD \/ <<r, 0>> \in released
  /\ step \in Versioned => RackHD \in ws.need

\* The version of what is built is the one its changelog and commit determine, or that of
\* a day that has begun.  RackHD has one from the control file on.
VersionInv ==
  /\ step \in Versioned =>
       \A r \in ws.need :
         debian[r] =>
           IF r = RackHD /\ ~official THEN ws.version[r] \in 1..today ELSE ws.version[r] = 0
  /\ step \in {"rackhd", "params", "upload", "done"} => debian[RackHD]
  /\ step \in {"upload", "done"} =>
       \/ ws.downstream = ws.version[RackHD]
       \/ ~official /\ ws.version[RackHD] < today
  /\ step \in {"rackhd", "params", "upload", "done"} =>
       \A r \in Components :
         ws.pinned[r] # NoVersion => r \in Here /\ debian[r] /\ ws.pinned[r] = 0

UploadInv == step = "done" => Debs(ws) \subseteq uploaded

IInv ==
  /\ TypeOK /\ ws \in Workspaces
  /\ ClonedInv /\ BuiltInv /\ NeedInv /\ VersionInv /\ UploadInv

-----------------------------------------------------------------------------

\* What a clone leaves behind when no command of it has failed.
LEMMA CloneOutcome ==
  ASSUME NEW res \in ResultsOf(CloneBodies)
  PROVE  /\ res \in TaskResult /\ res # NoResult
         /\ ~CommandFailed(res) =>
              \/ res.status = "success" /\ res.report # <<>> /\ res.report[1] = 0
              \/ RaisedQuietly(res)
<1>1. PICK b \in CloneBodies : res = Collect(b)
  BY DEF ResultsOf
<1>2. res \in TaskResult
  BY <1>1 DEF TaskResult
<1>3. CASE b = [ended |-> "return", status |-> "success", report |-> <<0, 0>>]
  <2>1. res = [status |-> "success", report |-> <<0, 0>>]
    BY <1>1, <1>3 DEF Collect
  <2>2. res \in [status : {"success", "none", "exception"}, report : Reports]
    BY <2>1 DEF Reports
  <2> QED
    BY <1>2, <2>1, <2>2, BuildAssumption
<1>4. ASSUME NEW c \in Reports,
             b = [ended |-> "exception", status |-> "none", report |-> c]
      PROVE  res # NoResult /\ (~CommandFailed(res) => RaisedQuietly(res))
  <2>1. res = [status |-> "exception", report |-> c]
    BY <1>1, <1>4 DEF Collect
  <2>2. res \in [status : {"success", "none", "exception"}, report : Reports]
    BY <2>1, <1>4
  <2> QED
    BY <2>1, <2>2, BuildAssumption DEF RaisedQuietly
<1> QED
  BY <1>1, <1>2, <1>3, <1>4 DEF CloneBodies, Reports

\* What a build leaves behind when no command of it has failed.
LEMMA BuildOutcome ==
  ASSUME NEW r \in Repos, NEW res \in ResultsOf(BuildBodies(r))
  PROVE  /\ res \in TaskResult /\ res # NoResult
         /\ ~CommandFailed(res) => res.report = <<0>> \/ RaisedQuietly(res)
<1>1. PICK b \in BuildBodies(r) : res = Collect(b)
  BY DEF ResultsOf
<1>2. res \in TaskResult
  BY DEF TaskResult
<1>3. ASSUME NEW rc \in {0, 1}, b = [ended |-> "return", status |-> "none", report |-> <<rc>>]
      PROVE  res # NoResult /\ (~CommandFailed(res) => res.report = <<0>>)
  <2>1. res = [status |-> "none", report |-> <<rc>>]
    BY <1>1, <1>3 DEF Collect
  <2>2. res \in [status : {"success", "none", "exception"}, report : Reports]
    BY <2>1 DEF Reports
  <2>3. rc # 0 => CommandFailed(res)
    BY <2>1 DEF CommandFailed
  <2> QED
    BY <2>1, <2>2, <2>3, BuildAssumption
<1>4. CASE b = [ended |-> "exception", status |-> "none", report |-> <<>>]
  <2>1. res = [status |-> "exception", report |-> <<>>]
    BY <1>1, <1>4 DEF Collect
  <2>2. res \in [status : {"success", "none", "exception"}, report : Reports]
    BY <2>1 DEF Reports
  <2> QED
    BY <1>2, <2>1, <2>2, BuildAssumption DEF RaisedQuietly
<1> QED
  BY <1>1, <1>2, <1>3, <1>4 DEF BuildBodies

\* The version of a repository is 0 or a day, if it has one.
LEMMA VersionType ==
  ASSUME TypeOK, NEW r \in Repos
  PROVE  /\ PackageVersion(r) \in 0..NoVersion
         /\ debian[r] <=> PackageVersion(r) # NoVersion
         /\ debian[r] =>
              IF r = RackHD /\ ~official THEN PackageVersion(r) \in 1..today
              ELSE PackageVersion(r) = 0
BY BuildAssumption DEF TypeOK, PackageVersion, NoVersion

LEMMA ConstantTypes ==
  /\ LastDay \in Nat \ {0} /\ MaxAttempts \in Nat \ {0}
  /\ RackHD \notin Components /\ RackHD \in Repos /\ Components \subseteq Repos
  /\ NoVersion \in Nat /\ NoVersion \notin 0..LastDay /\ 0..LastDay \subseteq 0..NoVersion
  /\ NoResult \in TaskResult
<1>1. NoResult \in TaskResult
  BY DEF TaskResult
<1>2. NoVersion \in Nat /\ NoVersion \notin 0..LastDay /\ 0..LastDay \subseteq 0..NoVersion
  BY BuildAssumption DEF NoVersion
<1> QED
  BY <1>1, <1>2, BuildAssumption DEF Repos

\* What a result can be depends on the scripts only, which do not change.
LEMMA SameTypes ==
  ASSUME script' = script
  PROVE  TaskResult' = TaskResult /\ Workspaces' = Workspaces
<1>1. TaskResult' = TaskResult
  BY DEF TaskResult, ResultsOf, BuildBodies
<1> QED
  BY <1>1 DEF Workspaces

\* An emptied workspace.
LEMMA FreshType ==
  /\ Fresh \in Workspaces
  /\ \A r \in Repos : Fresh.built[r] = NoResult
BY ConstantTypes DEF Fresh, Workspaces

\* A step that fails keeps the invariant.
LEMMA FailedStep == IInv /\ Fail => IInv'
<1> SUFFICES ASSUME IInv, Fail PROVE IInv'
  OBVIOUS
<1>1. /\ step' \in {"checkout", "failed"} /\ attempt' \in 1..MaxAttempts
      /\ ws' = Fresh /\ UNCHANGED <<official, script, debian, released, today, uploaded>>
  BY ConstantTypes DEF IInv, TypeOK, Fail, given
<1>2. ws' \in Workspaces /\ \A r \in Repos : ws'.built[r] = NoResult
  BY <1>1, FreshType
<1>3. TypeOK' /\ (ws \in Workspaces)'
  BY <1>1, <1>2, SameTypes DEF IInv, TypeOK, Workspaces
<1>4. ClonedInv' /\ BuiltInv' /\ NeedInv' /\ VersionInv' /\ UploadInv'
  BY <1>1, <1>2
  DEF ClonedInv, BuiltInv, NeedInv, VersionInv, UploadInv, Filtered, Versioned,
      ComponentsBuilt
<1> QED
  BY <1>3, <1>4 DEF IInv

Steps == {"checkout", "filter", "version", "components", "control", "rackhd",
          "params", "upload", "done", "failed", "hangs"}

\* A step that goes on keeps the types.
LEMMA GoType ==
  ASSUME IInv, NEW next \in Steps, NEW w \in Workspaces, Go(next, w)
  PROVE  /\ TypeOK' /\ (ws \in Workspaces)'
         /\ step' = next /\ ws' = w
         /\ UNCHANGED <<official, script, debian, released, today, attempt, uploaded>>
<1>1. /\ step' = next /\ ws' = w
      /\ UNCHANGED <<official, script, debian, released, today, attempt, uploaded>>
  BY DEF Go, given
<1>2. TypeOK' /\ (ws \in Workspaces)'
  BY <1>1, SameTypes DEF IInv, TypeOK, Workspaces, Steps
<1> QED BY <1>1, <1>2

\* The results of builds that the script accepts.
LEMMA BuildsAccepted ==
  ASSUME IInv, NEW repos \in SUBSET Repos, NEW next \in Steps,
         RunBuildScripts(repos, next), ~Fail
  PROVE  \E results \in [repos -> TaskResult] :
           /\ Go(next, [ws EXCEPT !.built =
                          [r \in Repos |-> IF r \in repos THEN results[r] ELSE ws.built[r]]])
           /\ \A r \in repos : /\ results[r] # NoResult
                               /\ results[r].report = <<0>> \/ RaisedQuietly(results[r])
<1>1. PICK results \in {f \in [repos -> UNION {ResultsOf(BuildBodies(r)) : r \in repos}] :
                          \A r \in repos : f[r] \in ResultsOf(BuildBodies(r))} :
        IF BuildResult(results)
        THEN Go(next, [ws EXCEPT !.built =
               [r \in Repos |-> IF r \in repos THEN results[r] ELSE ws.built[r]]])
        ELSE Fail
  BY DEF RunBuildScripts
<1>2. DOMAIN results = repos /\ \A r \in repos : results[r] \in ResultsOf(BuildBodies(r))
  OBVIOUS
<1>3. BuildResult(results)
  BY <1>1
<1>4. \A r \in repos : ~CommandFailed(results[r])
  BY <1>2, <1>3 DEF BuildResult
<1>5. \A r \in repos :
        /\ results[r] \in TaskResult /\ results[r] # NoResult
        /\ results[r].report = <<0>> \/ RaisedQuietly(results[r])
  BY <1>2, <1>4, BuildOutcome
<1>6. results \in [repos -> TaskResult]
  BY <1>2, <1>5
<1> QED
  BY <1>1, <1>3, <1>5, <1>6

-----------------------------------------------------------------------------

\* Nothing has been done at first.
LEMMA Initially == Init => IInv
<1> SUFFICES ASSUME Init PROVE IInv
  OBVIOUS
<1>1. /\ official \in BOOLEAN /\ script \in [Repos -> BOOLEAN]
      /\ debian \in [Repos -> BOOLEAN] /\ today = 1 /\ attempt = 1
      /\ step = "checkout" /\ ws = Fresh /\ uploaded = {}
  BY DEF Init
<1>2. released \subseteq (Repos \X (0..1))
  BY ConstantTypes DEF Init
<1>3. ws \in Workspaces /\ \A r \in Repos : ws.built[r] = NoResult
  BY <1>1, FreshType
<1>4. TypeOK
  BY <1>1, <1>2, <1>3, ConstantTypes DEF TypeOK, Workspaces
<1>5. ClonedInv /\ BuiltInv /\ NeedInv /\ VersionInv /\ UploadInv
  BY <1>1, <1>3
  DEF ClonedInv, BuiltInv, NeedInv, VersionInv, UploadInv, Filtered, Versioned,
      ComponentsBuilt
<1> QED
  BY <1>3, <1>4, <1>5 DEF IInv

\* Every step of the job and every midnight keeps the invariant.
LEMMA Preserved == IInv /\ [Next]_vars => IInv'
<1> SUFFICES ASSUME IInv, [Next]_vars PROVE IInv'
  OBVIOUS
<1> USE DEF Filtered, Versioned, ComponentsBuilt
<1>t. /\ TypeOK /\ ws \in Workspaces
      /\ ClonedInv /\ BuiltInv /\ NeedInv /\ VersionInv /\ UploadInv
  BY DEF IInv
<1>f. Fail => IInv'
  BY FailedStep
<1>1. CASE CheckoutRepos
  <2>1. PICK results \in [Repos -> ResultsOf(CloneBodies)] :
          IF CloneListError(results) THEN Fail ELSE Go("filter", [ws EXCEPT !.cloned = results])
    BY <1>1 DEF CheckoutRepos
  <2>2. CASE ~CloneListError(results)
    <3>1. \A r \in Repos : results[r] \in TaskResult
                           /\ (\/ results[r].status = "success" /\ r \in Directories(results)
                               \/ RaisedQuietly(results[r]))
      BY <2>2, CloneOutcome DEF CloneListError, Directories
    <3> DEFINE w == [ws EXCEPT !.cloned = results]
    <3>2. results \in [Repos -> TaskResult]
      BY <3>1
    <3>3. w \in Workspaces /\ w.cloned = results /\ w.built = ws.built
      BY <1>t, <3>2 DEF Workspaces
    <3>4. Go("filter", w)
      BY <2>1, <2>2
    <3> HIDE DEF w
    <3>5. TypeOK' /\ (ws \in Workspaces)' /\ step' = "filter" /\ ws' = w
      BY <3>3, <3>4, GoType DEF Steps
    <3>6. ClonedInv'
      BY <3>1, <3>3, <3>5 DEF ClonedInv, Here
    <3>7. BuiltInv' /\ NeedInv' /\ VersionInv' /\ UploadInv'
      BY <1>t, <1>1, <3>3, <3>5
      DEF CheckoutRepos, BuiltInv, NeedInv, VersionInv, UploadInv
    <3> QED
      BY <3>5, <3>6, <3>7 DEF IInv
  <2> QED
    BY <1>f, <2>1, <2>2
<1>2. CASE FilterRepos
  <2>1. PICK unanswered \in SUBSET Here :
          Go("version", [ws EXCEPT !.need =
            {r \in Here : \/ PackageVersion(r) = NoVersion \/ r \in unanswered
                         \/ <<r, PackageVersion(r)>> \notin released}])
    BY <1>2 DEF FilterRepos, Here
  <2> DEFINE need == {r \in Here : \/ PackageVersion(r) = NoVersion \/ r \in unanswered
                                  \/ <<r, PackageVersion(r)>> \notin released}
             w == [ws EXCEPT !.need = need]
  <2>2. Here \subseteq Repos
    BY <1>t DEF Here, Directories, Workspaces
  <2>3. w \in Workspaces /\ w.need = need /\ w.cloned = ws.cloned /\ w.built = ws.built
    BY <1>t, <2>2 DEF Workspaces
  <2>4. \A r \in Here \ need : r = RackHD \/ <<r, 0>> \in released
    BY <1>t, <2>2, VersionType
  <2>5. need \subseteq Here
    OBVIOUS
  <2>6. Go("version", w)
    BY <2>1
  <2> HIDE DEF w, need
  <2>7. /\ TypeOK' /\ (ws \in Workspaces)' /\ step' = "version" /\ ws' = w
        /\ released' = released
    BY <2>3, <2>6, GoType DEF Steps
  <2>8. Here' = Here
    BY <2>3, <2>7 DEF Here
  <2>9. ClonedInv' /\ NeedInv'
    BY <1>t, <1>2, <2>3, <2>4, <2>5, <2>7, <2>8 DEF FilterRepos, ClonedInv, NeedInv
  <2>10. BuiltInv' /\ VersionInv' /\ UploadInv'
    BY <1>t, <1>2, <2>3, <2>7 DEF FilterRepos, BuiltInv, VersionInv, UploadInv
  <2> QED
    BY <2>7, <2>9, <2>10 DEF IInv
<1>3. CASE WriteVersionFiles
  <2>1. CASE RackHD \in ws.need
    <3> DEFINE version == [r \in Repos |-> IF r \in ws.need THEN PackageVersion(r)
                                           ELSE NoVersion]
               w == [ws EXCEPT !.version = version]
    <3>1. version \in [Repos -> 0..NoVersion]
      BY <1>t, VersionType, ConstantTypes
    <3>2. \A r \in ws.need : version[r] = PackageVersion(r) /\ r \in Repos
      BY <1>t DEF Workspaces
    <3>3. Go("components", w)
      BY <1>3, <2>1 DEF WriteVersionFiles
    <3> HIDE DEF version
    <3>4. /\ w \in Workspaces /\ w.version = version /\ w.cloned = ws.cloned
          /\ w.built = ws.built /\ w.need = ws.need
      BY <1>t, <3>1 DEF Workspaces
    <3> HIDE DEF w
    <3>5. /\ TypeOK' /\ (ws \in Workspaces)' /\ step' = "components" /\ ws' = w
          /\ UNCHANGED <<official, debian, released, today>>
      BY <3>3, <3>4, GoType DEF Steps
    <3>6. Here' = Here
      BY <3>4, <3>5 DEF Here
    <3>7. ClonedInv' /\ NeedInv'
      BY <1>t, <1>3, <2>1, <3>4, <3>5, <3>6 DEF WriteVersionFiles, ClonedInv, NeedInv
    <3>8. VersionInv'
      BY <1>t, <3>2, <3>4, <3>5, VersionType DEF VersionInv
    <3>9. BuiltInv' /\ UploadInv'
      BY <1>t, <1>3, <3>4, <3>5 DEF WriteVersionFiles, BuiltInv, UploadInv
    <3> QED
      BY <3>5, <3>7, <3>8, <3>9 DEF IInv
  <2>2. CASE RackHD \notin ws.need
    BY <1>f, <1>3, <2>2 DEF WriteVersionFiles
  <2> QED BY <2>1, <2>2
<1>4. CASE BuildComponents
  <2> DEFINE repos == ws.need \ {RackHD}
  <2>1. step = "components" /\ repos \subseteq Repos
    BY <1>t, <1>4 DEF BuildComponents, Workspaces
  <2>2. CASE ~Fail
    <3>1. PICK results \in [repos -> TaskResult] :
            /\ Go("control", [ws EXCEPT !.built =
                   [r \in Repos |-> IF r \in repos THEN results[r] ELSE ws.built[r]]])
            /\ \A r \in repos : /\ results[r] # NoResult
                                /\ results[r].report = <<0>> \/ RaisedQuietly(results[r])
      <4>1. RunBuildScripts(repos, "control") /\ "control" \in Steps
        BY <1>4 DEF BuildComponents, Steps
      <4> QED
        BY <2>1, <2>2, <4>1, BuildsAccepted
    <3> DEFINE built == [r \in Repos |-> IF r \in repos THEN results[r] ELSE ws.built[r]]
               w == [ws EXCEPT !.built = built]
    <3>2. built \in [Repos -> TaskResult]
      BY <1>t DEF Workspaces
    <3>3. /\ \A r \in repos : built[r] = results[r]
          /\ \A r \in Repos \ repos : built[r] = NoResult
      BY <1>t, <2>1 DEF BuiltInv
    <3>4. Go("control", w)
      BY <3>1
    <3> HIDE DEF built
    <3>5. /\ w \in Workspaces /\ w.built = built /\ w.cloned = ws.cloned
          /\ w.need = ws.need /\ w.version = ws.version
      BY <1>t, <3>2 DEF Workspaces
    <3> HIDE DEF w
    <3>6. /\ TypeOK' /\ (ws \in Workspaces)' /\ step' = "control" /\ ws' = w
          /\ UNCHANGED <<official, debian, released, today>>
      BY <3>4, <3>5, GoType DEF Steps
    <3>7. Here' = Here
      BY <3>5, <3>6 DEF Here
    <3>8. ClonedInv' /\ NeedInv'
      BY <1>t, <2>1, <3>5, <3>6, <3>7 DEF ClonedInv, NeedInv
    <3>9. VersionInv' /\ UploadInv'
      BY <1>t, <2>1, <3>5, <3>6 DEF VersionInv, UploadInv
    <3>10. BuiltInv'
      BY <1>t, <2>1, <3>1, <3>3, <3>5, <3>6 DEF BuiltInv, BuiltWell
    <3> QED
      BY <3>6, <3>8, <3>9, <3>10 DEF IInv
  <2> QED BY <1>f, <2>2
<1>5. CASE UpdateRackHDControl
  <2>1. CASE debian[RackHD]
    <3> DEFINE pinned == [r \in Components |-> IF r \in Here THEN PackageVersion(r)
                                               ELSE NoVersion]
               w == [ws EXCEPT !.pinned = pinned]
    <3>1. pinned \in [Components -> 0..NoVersion]
      BY <1>t, VersionType, ConstantTypes
    <3>2. \A r \in Components : pinned[r] # NoVersion =>
                              r \in Here /\ debian[r] /\ pinned[r] = 0
      BY <1>t, VersionType, ConstantTypes
    <3>3. step = "control" /\ Go("rackhd", w)
      BY <1>5, <2>1 DEF UpdateRackHDControl, Here
    <3> HIDE DEF pinned
    <3>4. /\ w \in Workspaces /\ w.pinned = pinned /\ w.cloned = ws.cloned
          /\ w.built = ws.built /\ w.need = ws.need /\ w.version = ws.version
      BY <1>t, <3>1 DEF Workspaces
    <3> HIDE DEF w
    <3>5. /\ TypeOK' /\ (ws \in Workspaces)' /\ step' = "rackhd" /\ ws' = w
          /\ UNCHANGED <<official, debian, released, today>>
      BY <3>3, <3>4, GoType DEF Steps
    <3>6. Here' = Here
      BY <3>4, <3>5 DEF Here
    <3>7. ClonedInv' /\ NeedInv'
      BY <1>t, <3>3, <3>4, <3>5, <3>6 DEF ClonedInv, NeedInv
    <3>8. VersionInv'
      BY <1>t, <2>1, <3>2, <3>3, <3>4, <3>5, <3>6 DEF VersionInv
    <3>9. BuiltInv' /\ UploadInv'
      BY <1>t, <3>3, <3>4, <3>5 DEF BuiltInv, BuiltWell, UploadInv
    <3> QED
      BY <3>5, <3>7, <3>8, <3>9 DEF IInv
  <2>2. CASE ~debian[RackHD]
    BY <1>f, <1>5, <2>2 DEF UpdateRackHDControl
  <2> QED BY <2>1, <2>2
<1>6. CASE BuildRackHD
  <2>1. step = "rackhd" /\ RackHD \in Repos /\ RackHD \in ws.need
    BY <1>t, <1>6, ConstantTypes DEF BuildRackHD, NeedInv
  <2>2. CASE ~Fail
    <3>1. PICK results \in [{RackHD} -> TaskResult] :
            /\ Go("params", [ws EXCEPT !.built =
                   [r \in Repos |-> IF r \in {RackHD} THEN results[r] ELSE ws.built[r]]])
            /\ \A r \in {RackHD} : /\ results[r] # NoResult
                                   /\ results[r].report = <<0>> \/ RaisedQuietly(results[r])
      <4>1. RunBuildScripts({RackHD}, "params") /\ "params" \in Steps
        BY <1>6 DEF BuildRackHD, Steps
      <4> QED
        BY <2>1, <2>2, <4>1, BuildsAccepted
    <3> DEFINE built == [r \in Repos |-> IF r \in {RackHD} THEN results[r] ELSE ws.built[r]]
               w == [ws EXCEPT !.built = built]
    <3>2. built \in [Repos -> TaskResult]
      BY <1>t DEF Workspaces
    <3>3. /\ built[RackHD] = results[RackHD]
          /\ \A r \in Repos \ {RackHD} : built[r] = ws.built[r]
      BY <2>1
    <3>4. Go("params", w)
      BY <3>1
    <3> HIDE DEF built
    <3>5. /\ w \in Workspaces /\ w.built = built /\ w.cloned = ws.cloned
          /\ w.need = ws.need /\ w.version = ws.version /\ w.pinned = ws.pinned
      BY <1>t, <3>2 DEF Workspaces
    <3> HIDE DEF w
    <3>6. /\ TypeOK' /\ (ws \in Workspaces)' /\ step' = "params" /\ ws' = w
          /\ UNCHANGED <<official, debian, released, today>>
      BY <3>4, <3>5, GoType DEF Steps
    <3>7. Here' = Here
      BY <3>5, <3>6 DEF Here
    <3>8. ClonedInv' /\ NeedInv'
      BY <1>t, <2>1, <3>5, <3>6, <3>7 DEF ClonedInv, NeedInv
    <3>9. VersionInv' /\ UploadInv'
      BY <1>t, <2>1, <3>5, <3>6, <3>7 DEF VersionInv, UploadInv
    <3>10. BuiltInv'
      BY <1>t, <2>1, <3>1, <3>3, <3>5, <3>6 DEF BuiltInv, BuiltWell, Workspaces
    <3> QED
      BY <3>6, <3>8, <3>9, <3>10 DEF IInv
  <2> QED BY <1>f, <2>2
<1>7. CASE WriteDownstreamParameters
  <2> DEFINE w == [ws EXCEPT !.downstream = PackageVersion(RackHD)]
  <2>1. step = "params" /\ Go("upload", w)
    BY <1>7 DEF WriteDownstreamParameters
  <2>2. /\ PackageVersion(RackHD) \in 0..NoVersion
        /\ IF ~official THEN PackageVersion(RackHD) = today ELSE PackageVersion(RackHD) = 0
    BY <1>t, <2>1, VersionType, ConstantTypes DEF PackageVersion, VersionInv
  <2>3. /\ w \in Workspaces /\ w.downstream = PackageVersion(RackHD) /\ w.cloned = ws.cloned
        /\ w.built = ws.built /\ w.need = ws.need /\ w.version = ws.version
        /\ w.pinned = ws.pinned
    BY <1>t, <2>2 DEF Workspaces
  <2> HIDE DEF w
  <2>4. /\ TypeOK' /\ (ws \in Workspaces)' /\ step' = "upload" /\ ws' = w
        /\ UNCHANGED <<official, debian, released, today>>
    BY <2>1, <2>3, GoType DEF Steps
  <2>5. Here' = Here
    BY <2>3, <2>4 DEF Here
  <2>6. ClonedInv' /\ NeedInv'
    BY <1>t, <2>1, <2>3, <2>4, <2>5 DEF ClonedInv, NeedInv
  <2>7. VersionInv'
    <3>1. IF ~official THEN ws.version[RackHD] \in 1..today ELSE ws.version[RackHD] = 0
      BY <1>t, <2>1 DEF VersionInv, NeedInv
    <3>2. \/ PackageVersion(RackHD) = ws.version[RackHD]
          \/ ~official /\ ws.version[RackHD] < today
      BY <1>t, <2>2, <3>1, ConstantTypes DEF TypeOK
    <3> QED
      BY <1>t, <2>1, <2>3, <2>4, <2>5, <3>2 DEF VersionInv
  <2>8. BuiltInv' /\ UploadInv'
    BY <1>t, <2>1, <2>3, <2>4 DEF BuiltInv, BuiltWell, UploadInv
  <2> QED
    BY <2>4, <2>6, <2>7, <2>8 DEF IInv
<1>8. CASE UploadDeb
  <2>1. PICK d \in Debs(ws) \ uploaded :
          /\ step = "upload" /\ uploaded' = uploaded \union {d}
          /\ UNCHANGED <<official, script, debian, released, today, attempt, step, ws>>
    BY <1>8 DEF UploadDeb, given
  <2>2. PICK r \in Repos : d = <<r, ws.version[r]>> /\ debian[r] /\ ws.built[r] # NoResult
    BY DEF Debs
  <2>3. r \in ws.need
    BY <1>t, <2>2 DEF BuiltInv
  <2>4. ws.version[r] \in 0..LastDay
    BY <1>t, <2>1, <2>2, <2>3, ConstantTypes DEF VersionInv, TypeOK
  <2>5. TypeOK'
    BY <1>t, <2>1, <2>2, <2>4, SameTypes DEF TypeOK
  <2>6. ClonedInv' /\ BuiltInv' /\ NeedInv' /\ VersionInv' /\ UploadInv'
    BY <1>t, <2>1
    DEF ClonedInv, BuiltInv, BuiltWell, NeedInv, VersionInv, UploadInv, Debs, Here
  <2> QED
    BY <1>t, <2>1, <2>5, <2>6, SameTypes DEF IInv
<1>9. CASE UploadEnds
  <2>1. step = "upload" /\ Debs(ws) \subseteq uploaded /\ Go("done", ws)
    BY <1>9 DEF UploadEnds
  <2>2. /\ TypeOK' /\ (ws \in Workspaces)' /\ step' = "done" /\ ws' = ws
        /\ UNCHANGED <<official, debian, released, today, uploaded>>
    BY <1>t, <2>1, GoType DEF Steps
  <2>3. ClonedInv' /\ BuiltInv' /\ NeedInv' /\ VersionInv'
    BY <1>t, <2>1, <2>2 DEF ClonedInv, BuiltInv, BuiltWell, NeedInv, VersionInv, Here
  <2>4. UploadInv'
    BY <2>1, <2>2 DEF UploadInv, Debs
  <2> QED
    BY <2>2, <2>3, <2>4 DEF IInv
<1>10. CASE StepFails
  BY <1>f, <1>10 DEF StepFails
<1>11. CASE Midnight
  <2>1. /\ today < LastDay /\ today' = today + 1
        /\ UNCHANGED <<official, script, debian, released, attempt, step, ws, uploaded>>
    BY <1>11 DEF Midnight, given
  <2>2. TypeOK' /\ (ws \in Workspaces)'
    BY <1>t, <2>1, ConstantTypes, SameTypes DEF TypeOK
  <2>3. ClonedInv' /\ BuiltInv' /\ NeedInv' /\ UploadInv'
    BY <1>t, <2>1 DEF ClonedInv, BuiltInv, BuiltWell, NeedInv, UploadInv, Debs, Here
  <2>4. VersionInv'
    <3>1. \A n \in Nat : n \in 1..today => n \in 1..today'
      BY <1>t, <2>1 DEF TypeOK
    <3>2. ws.version[RackHD] \in Nat /\ today \in Nat
      BY <1>t, ConstantTypes DEF Workspaces, TypeOK
    <3>3. ws.version[RackHD] < today => ws.version[RackHD] < today'
      BY <2>1, <3>2
    <3>4. ASSUME step \in Versioned, NEW r \in ws.need, debian[r]
          PROVE  IF r = RackHD /\ ~official THEN ws.version[r] \in 1..today'
                 ELSE ws.version[r] = 0
      BY <1>t, <3>1, <3>2, <3>4 DEF VersionInv
    <3> QED
      BY <1>t, <2>1, <3>3, <3>4 DEF VersionInv, Here
  <2> QED
    BY <2>2, <2>3, <2>4 DEF IInv
<1>12. CASE Hangs
  <2>1. step' = "hangs" /\ UNCHANGED <<official, script, debian, released, today, attempt, ws,
                                       uploaded>>
    BY <1>12 DEF Hangs, given
  <2>2. TypeOK' /\ (ws \in Workspaces)'
    BY <1>t, <2>1, SameTypes DEF TypeOK
  <2> QED
    BY <1>t, <2>1, <2>2
    DEF IInv, ClonedInv, BuiltInv, NeedInv, VersionInv, UploadInv
<1>13. CASE UNCHANGED vars
  BY <1>t, <1>13, SameTypes
  DEF vars, given, IInv, TypeOK, ClonedInv, BuiltInv, BuiltWell, NeedInv, VersionInv,
      UploadInv, Debs, Here
<1> QED
  BY <1>1, <1>2, <1>3, <1>4, <1>5, <1>6, <1>7, <1>8, <1>9, <1>10, <1>11, <1>12, <1>13
  DEF Next, Build

\* The invariant says what the run checks.
LEMMA InvariantIsEnough ==
  IInv => TypeOK /\ NothingMissing /\ DownstreamVersionExists /\ PinnedExist
<1> SUFFICES ASSUME IInv
             PROVE  NothingMissing /\ DownstreamVersionExists /\ PinnedExist
  BY DEF IInv
<1> USE DEF Filtered, Versioned, ComponentsBuilt
<1>t. ClonedInv /\ BuiltInv /\ NeedInv /\ VersionInv /\ UploadInv
  BY DEF IInv
<1>1. ASSUME step = "done", NEW r \in Repos
      PROVE  /\ r \in ws.need /\ debian[r] => <<r, ws.version[r]>> \in uploaded \/ Slipped(r)
             /\ r \in Here \ ws.need => r # RackHD /\ <<r, 0>> \in released
             /\ r = RackHD => debian[r]
             /\ r \in Here \/ Slipped(r)
             /\ ws.cloned[r].status = "success" \/ Slipped(r)
  <2>1. /\ r \in Here \/ RaisedQuietly(ws.cloned[r])
        /\ ws.cloned[r].status = "success" \/ RaisedQuietly(ws.cloned[r])
    BY <1>t, <1>1 DEF ClonedInv
  <2>2. ASSUME r \in ws.need, debian[r]
        PROVE  <<r, ws.version[r]>> \in uploaded \/ RaisedQuietly(ws.built[r])
    <3>1. BuiltWell(r)
      BY <1>t, <1>1, <2>2 DEF BuiltInv
    <3>2. ws.built[r].report = <<0>> => <<r, ws.version[r]>> \in Debs(ws)
      BY <2>2, <3>1 DEF BuiltWell, Debs
    <3> QED
      BY <1>t, <1>1, <3>1, <3>2 DEF BuiltWell, UploadInv
  <2>3. /\ r \in Here \ ws.need => r # RackHD /\ <<r, 0>> \in released
        /\ r = RackHD => debian[r]
    BY <1>t, <1>1 DEF NeedInv, VersionInv
  <2> QED
    BY <2>1, <2>2, <2>3 DEF Slipped
<1>2. NothingMissing
  BY <1>1 DEF NothingMissing
<1>3. DownstreamVersionExists
  BY <1>t, <1>1, ConstantTypes DEF DownstreamVersionExists, NeedInv, VersionInv
<1>4. PinnedExist
  <2> SUFFICES ASSUME step = "done", NEW r \in Components, ws.pinned[r] # NoVersion
               PROVE  <<r, ws.pinned[r]>> \in uploaded \union released \/ Slipped(r)
    BY DEF PinnedExist
  <2>1. r \in Repos /\ r # RackHD /\ r \in Here /\ debian[r] /\ ws.pinned[r] = 0
    BY <1>t, ConstantTypes DEF VersionInv
  <2>2. r \in ws.need => ws.version[r] = 0
    BY <1>t, <2>1 DEF VersionInv
  <2> QED
    BY <1>1, <2>1, <2>2
<1> QED BY <1>2, <1>3, <1>4

-----------------------------------------------------------------------------

\* The invariant holds in every state of every job.
THEOREM JobInvariant == Spec => []IInv
BY Initially, Preserved, PTL DEF Spec

\* Everything has its type, and retry() makes no more attempts than it is given.
THEOREM TypeCorrect == Spec => []TypeOK
BY JobInvariant, InvariantIsEnough, PTL

\* When the stage succeeds, each repository that has a debian directory has a package
\* under its version in one of the two Bintray repositories, RackHD's uploaded by the
\* stage itself, unless its task raised and recorded no failed command: clone_repo_list,
\* the filter, the version files and get_build_result of make_debian_packages.py, and
\* upload_debs.
THEOREM NoPackageIsMissing == Spec => []NothingMissing
BY JobInvariant, InvariantIsEnough, PTL

\* The version of RackHD that the image builds are told to install has been uploaded,
\* unless RackHD slipped through or a day began after its version was written.
THEOREM DownstreamVersionIsThere == Spec => []DownstreamVersionExists
BY JobInvariant, InvariantIsEnough, PTL

\* Each version that update_dependencies.py has pinned in RackHD's control file is in
\* one of the two Bintray repositories, unless its repository slipped through.
THEOREM PinnedVersionsAreThere == Spec => []PinnedExist
BY JobInvariant, InvariantIsEnough, PTL
=============================================================================
