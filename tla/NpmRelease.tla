----------------------------- MODULE NpmRelease ------------------------------
(***************************************************************************)
(* The branch "Publish NPM" of the release pipeline                        *)
(* (jobs/release/release_npm.groovy): release_npm_packages.py checks the   *)
(* repositories of a manifest out, gives each package a version, makes the *)
(* packages depend on each other's versions, and publishes one after the   *)
(* other, in whatever order os.listdir gives them.                         *)
(*                                                                         *)
(* The registry takes each version once.  What is published stays as it    *)
(* is, its dependencies included; a second publication is refused, which   *)
(* the script takes for success.  The job has no retry: a build that fails *)
(* half way stays so unless somebody starts it again.  Builds of different *)
(* manifests may be under way at once.                                     *)
(*                                                                         *)
(* A version is <<official, number>>: for a nightly build the number is    *)
(* that of the commit, which its name contains; for a release it is what   *)
(* package.json says at that commit.                                       *)
(***************************************************************************)
EXTENDS Naturals, FiniteSets

CONSTANTS
  Builds,
  Packages,   \* the repositories with a package.json, without di.js
  DependsOn,  \* for each package: those of the others it depends on
  MaxCommit,  \* bound: the commits of each repository are 1..MaxCommit
  Declared,   \* for each commit: the version in its package.json
  MaxStarts,  \* bound: how often a build is started
  Nothing

Commits == 1..MaxCommit
Numbers == Commits \union {Declared[c] : c \in Commits}
Versions == BOOLEAN \X Numbers

\* What the registry keeps of a package: the commit it was made of, the versions it
\* depends on, and the build that published it.
Contents ==
  [commit : Commits, dependencies : [Packages -> Versions \union {Nothing}], by : Builds]

ASSUME NpmAssumption ==
  /\ DependsOn \in [Packages -> SUBSET Packages]
  /\ MaxCommit \in Nat \ {0} /\ MaxStarts \in Nat \ {0}
  /\ Declared \in [Commits -> Nat]
  /\ Nothing \notin Contents

VARIABLES
  manifest,  \* for each build: the commit of each package
  official,  \* for each build: --is-official-release
  diJs,      \* for each build: whether its manifest has di.js
  step,      \* where the build is: "idle", "prepare", "publish", "done", "failed"
  starts,    \* how often it has been started
  todo,      \* the packages it has still to publish
  registry   \* for each package and version: what was published, or Nothing

given == <<manifest, official, diJs>>
vars == <<given, step, starts, todo, registry>>

Init ==
  /\ manifest \in [Builds -> [Packages -> Commits]]
  /\ official \in [Builds -> BOOLEAN]
  /\ diJs \in [Builds -> BOOLEAN]
  /\ step = [b \in Builds |-> "idle"]
  /\ starts = [b \in Builds |-> 0]
  /\ todo = [b \in Builds |-> {}]
  /\ registry = [p \in Packages |-> [v \in Versions |-> Nothing]]

-----------------------------------------------------------------------------
(* Seeded faults                                                           *)

\* The script goes on past a publication that failed.
PublishFailsQuietly(b, p) ==
  /\ step[b] = "publish" /\ p \in todo[b]
  /\ todo' = [todo EXCEPT ![b] = @ \ {p}]
  /\ UNCHANGED <<given, step, starts, registry>>

\* The versions of nightly builds are those of package.json as well.
VersionAtDeclared(b, p) == <<official[b], Declared[manifest[b][p]]>>

-----------------------------------------------------------------------------

Start(b) ==
  /\ step[b] \in {"idle", "failed"}
  /\ starts[b] < MaxStarts
  /\ starts' = [starts EXCEPT ![b] = @ + 1]
  /\ step' = [step EXCEPT ![b] = "prepare"]
  /\ UNCHANGED <<given, todo, registry>>

\* sys.exit, or an exception that nobody catches.
Fail(b) ==
  /\ step' = [step EXCEPT ![b] = "failed"]
  /\ todo' = [todo EXCEPT ![b] = {}]
  /\ UNCHANGED <<given, starts>>

\* VersionGenerator.generate_package_version for npm: of the commit, or of package.json.
VersionAt(b, p) ==
  <<official[b], IF official[b] THEN Declared[manifest[b][p]] ELSE manifest[b][p]>>

\* compute_packages_version, update_packages_version, update_packages_dependency: what
\* package.json says of a package when it is published.
PackageJson(b, p) ==
  [commit |-> manifest[b][p],
   dependencies |-> [q \in Packages |->
                       IF q \in DependsOn[p] THEN VersionAt(b, q) ELSE Nothing],
   by |-> b]

\* checkout_repos and the computations.  npm_packages.remove("di.js") raises when there
\* is no di.js to skip.
Prepare(b) ==
  /\ step[b] = "prepare"
  /\ IF diJs[b]
     THEN /\ step' = [step EXCEPT ![b] = "publish"]
          /\ todo' = [todo EXCEPT ![b] = Packages]
          /\ UNCHANGED <<given, starts>>
     ELSE Fail(b)
  /\ UNCHANGED registry

Published(p, v) == registry[p][v] # Nothing

\* npm publish, with an answer: the package is in the registry, or was there already
\* ("You cannot publish over the previously published version").
PublishPackage(b, p) ==
  /\ step[b] = "publish" /\ p \in todo[b]
  /\ registry' = IF Published(p, VersionAt(b, p)) THEN registry
                 ELSE [registry EXCEPT ![p][VersionAt(b, p)] = PackageJson(b, p)]
  /\ todo' = [todo EXCEPT ![b] = @ \ {p}]
  /\ UNCHANGED <<given, step, starts>>

\* npm publish fails, before or after the registry has taken the package.
PublishFails(b, p) ==
  /\ step[b] = "publish" /\ p \in todo[b]
  /\ \/ UNCHANGED registry
     \/ /\ ~Published(p, VersionAt(b, p))
        /\ registry' = [registry EXCEPT ![p][VersionAt(b, p)] = PackageJson(b, p)]
  /\ Fail(b)

AllPublished(b) ==
  /\ step[b] = "publish" /\ todo[b] = {}
  /\ step' = [step EXCEPT ![b] = "done"]
  /\ UNCHANGED <<given, starts, todo, registry>>

\* The checkout or a computation fails, or Jenkins ends the build.
Interrupted(b) ==
  /\ step[b] \in {"prepare", "publish"}
  /\ Fail(b)
  /\ UNCHANGED registry

Build(b) ==
  \/ Start(b) \/ Prepare(b) \/ AllPublished(b) \/ Interrupted(b)
  \/ \E p \in Packages : PublishPackage(b, p) \/ PublishFails(b, p)

Next == \E b \in Builds : Build(b)

Spec == Init /\ [][Next]_vars

-----------------------------------------------------------------------------
(* Properties                                                              *)

VersionOf(isOfficial, commit) ==
  <<isOfficial, IF isOfficial THEN Declared[commit] ELSE commit>>

\* Everything has its type; what is in the registry under a version was made of a commit
\* that bears it, so a nightly version stands for one commit.
TypeOK ==
  /\ manifest \in [Builds -> [Packages -> Commits]]
  /\ official \in [Builds -> BOOLEAN] /\ diJs \in [Builds -> BOOLEAN]
  /\ step \in [Builds -> {"idle", "prepare", "publish", "done", "failed"}]
  /\ starts \in [Builds -> 0..MaxStarts]
  /\ todo \in [Builds -> SUBSET Packages]
  /\ registry \in [Packages -> [Versions -> Contents \union {Nothing}]]
  /\ \A p \in Packages : \A v \in Versions : Published(p, v) =>
       v = VersionOf(official[registry[p][v].by], registry[p][v].commit)

\* What the registry has under the version of a build, and the version of q it names.
InRegistry(b, p) == registry[p][VersionAt(b, p)]
Needs(b, p, q) == InRegistry(b, p).dependencies[q]

\* The packages of a build that has succeeded are all in the registry, and so is each
\* version they depend on, if it is the version that this build wanted or if the build
\* that published the dependent package has succeeded too: failures and second starts
\* of either do not matter.  Excluded is a package that another build has published with
\* other dependencies and then given up: "already published" counts as a success, so
\* such a package may depend on versions that are never published.  It takes the same
\* commit of the package with another commit of what it depends on, or two commits that
\* declare one official version.
ResolvesUnlessAbandoned ==
  \A b \in Builds : step[b] = "done" =>
    \A p \in Packages :
      /\ Published(p, VersionAt(b, p))
      /\ \A q \in DependsOn[p] :
           Needs(b, p, q) = VersionAt(b, q) \/ step[InRegistry(b, p).by] = "done"
             => Published(q, Needs(b, p, q))
=============================================================================
