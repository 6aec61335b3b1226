-------------------------- MODULE NpmReleaseProofs ---------------------------
(***************************************************************************)
(* Proofs about the publication of npm packages, for any builds, packages, *)
(* dependencies and commits.                                               *)
(***************************************************************************)
EXTENDS NpmRelease, TLAPS

\* A build that publishes has what it no longer has to do in the registry, and one that
\* is done has nothing left to do.
ProgressInv ==
  \A b \in Builds :
    /\ step[b] \in {"publish", "done"} =>
         \A p \in Packages \ todo[b] : Published(p, VersionAt(b, p))
    /\ step[b] = "done" => todo[b] = {}

\* A package depends on what the build that published it wanted.
FrozenInv ==
  \A p \in Packages : \A v \in Versions : Published(p, v) =>
    \A q \in DependsOn[p] :
      registry[p][v].dependencies[q] = VersionAt(registry[p][v].by, q)

IInv == TypeOK /\ ProgressInv /\ FrozenInv

-----------------------------------------------------------------------------

\* The version of a package is a version, and that of its commit.
LEMMA VersionType ==
  ASSUME TypeOK, NEW b \in Builds, NEW p \in Packages
  PROVE  /\ VersionAt(b, p) \in Versions
         /\ VersionAt(b, p) = VersionOf(official[b], manifest[b][p])
<1>1. official[b] \in BOOLEAN /\ manifest[b][p] \in Commits
  BY DEF TypeOK
<1>2. Declared[manifest[b][p]] \in Numbers /\ manifest[b][p] \in Numbers
  BY <1>1 DEF Numbers
<1> QED BY <1>1, <1>2 DEF VersionAt, VersionOf, Versions

\* What a build publishes is something the registry can keep.
LEMMA PackageJsonType ==
  ASSUME TypeOK, NEW b \in Builds, NEW p \in Packages
  PROVE  /\ PackageJson(b, p) \in Contents
         /\ PackageJson(b, p) # Nothing
         /\ PackageJson(b, p).by = b
         /\ PackageJson(b, p).commit = manifest[b][p]
         /\ \A q \in DependsOn[p] : PackageJson(b, p).dependencies[q] = VersionAt(b, q)
<1>1. DependsOn[p] \subseteq Packages
  BY NpmAssumption
<1>2. \A q \in Packages : VersionAt(b, q) \in Versions
  BY VersionType
<1>3. manifest[b][p] \in Commits
  BY DEF TypeOK
<1>4. PackageJson(b, p) \in Contents
  BY <1>2, <1>3 DEF PackageJson, Contents
<1> QED
  BY <1>1, <1>4, NpmAssumption DEF PackageJson

\* What publishing a package does to the registry.
Adds(b, p) ==
  registry' = [registry EXCEPT ![p][VersionAt(b, p)] = PackageJson(b, p)]

\* The registry after a package has been added under a free version: the package is
\* there, and everything else is as it was.
LEMMA AddedToRegistry ==
  ASSUME TypeOK, NEW b \in Builds, NEW p \in Packages,
         ~Published(p, VersionAt(b, p)), Adds(b, p)
  PROVE  /\ registry' \in [Packages -> [Versions -> Contents \union {Nothing}]]
         /\ registry'[p][VersionAt(b, p)] = PackageJson(b, p)
         /\ \A q \in Packages : \A v \in Versions :
              registry'[q][v] # registry[q][v] => q = p /\ v = VersionAt(b, p)
         /\ \A q \in Packages : \A v \in Versions :
              registry[q][v] # Nothing => registry'[q][v] = registry[q][v]
<1>1. VersionAt(b, p) \in Versions /\ PackageJson(b, p) \in Contents
  BY VersionType, PackageJsonType
<1>2. registry \in [Packages -> [Versions -> Contents \union {Nothing}]]
  BY DEF TypeOK
<1> DEFINE w == VersionAt(b, p)
           j == PackageJson(b, p)
<1>3. registry[p][w] = Nothing
  BY DEF Published
<1>4. registry' = [registry EXCEPT ![p][w] = j]
  BY DEF Adds
<1>5. w \in Versions /\ j \in Contents
  BY <1>1
<1> HIDE DEF w, j
<1>6. /\ registry' \in [Packages -> [Versions -> Contents \union {Nothing}]]
      /\ registry'[p][w] = j
      /\ \A q \in Packages : \A v \in Versions :
           registry'[q][v] # registry[q][v] => q = p /\ v = w
  BY <1>2, <1>4, <1>5
<1>7. \A q \in Packages : \A v \in Versions :
        registry[q][v] # Nothing => registry'[q][v] = registry[q][v]
  BY <1>3, <1>6
<1> QED BY <1>6, <1>7 DEF w, j

AddsOne(b) == \E p \in Packages : ~Published(p, VersionAt(b, p)) /\ Adds(b, p)

-----------------------------------------------------------------------------

\* The parts of the invariant that speak of the registry only.
RegistryOK ==
  /\ registry \in [Packages -> [Versions -> Contents \union {Nothing}]]
  /\ \A p \in Packages : \A v \in Versions : Published(p, v) =>
       v = VersionOf(official[registry[p][v].by], registry[p][v].commit)
  /\ FrozenInv

\* Whatever a build does to the registry, it adds one of its packages or nothing: the
\* registry stays as it should be, and loses nothing.
LEMMA RegistryGrows ==
  ASSUME IInv, UNCHANGED given, NEW b \in Builds, UNCHANGED registry \/ AddsOne(b)
  PROVE  /\ RegistryOK'
         /\ \A q \in Packages : \A v \in Versions : Published(q, v) => Published(q, v)'
<1>0. TypeOK /\ RegistryOK
  BY DEF IInv, TypeOK, RegistryOK
<1>a. \A c \in Builds : \A q \in Packages : VersionAt(c, q)' = VersionAt(c, q)
  BY DEF VersionAt, given
<1>1. CASE UNCHANGED registry
  BY <1>0, <1>1, <1>a DEF RegistryOK, FrozenInv, Published, VersionAt, VersionOf, given
<1>2. CASE AddsOne(b)
  <2> PICK p \in Packages : ~Published(p, VersionAt(b, p)) /\ Adds(b, p)
    BY <1>2 DEF AddsOne
  <2> DEFINE w == VersionAt(b, p)
  <2>1. /\ registry' \in [Packages -> [Versions -> Contents \union {Nothing}]]
        /\ registry'[p][w] = PackageJson(b, p)
        /\ \A q \in Packages : \A v \in Versions :
             registry'[q][v] # registry[q][v] => q = p /\ v = w
        /\ \A q \in Packages : \A v \in Versions :
             registry[q][v] # Nothing => registry'[q][v] = registry[q][v]
    BY <1>0, AddedToRegistry
  <2>2. ASSUME NEW q \in Packages, NEW v \in Versions, Published(q, v)'
        PROVE  /\ v = VersionOf(official[registry'[q][v].by], registry'[q][v].commit)
               /\ \A d \in DependsOn[q] :
                    registry'[q][v].dependencies[d] = VersionAt(registry'[q][v].by, d)
    <3>1. CASE q = p /\ v = w
      BY <1>0, <2>1, <3>1, PackageJsonType, VersionType
    <3>2. CASE registry'[q][v] = registry[q][v]
      BY <1>0, <2>2, <3>2 DEF Published, RegistryOK, FrozenInv
    <3> QED BY <2>1, <3>1, <3>2
  <2>3. \A q \in Packages : \A v \in Versions : Published(q, v) => Published(q, v)'
    BY <2>1 DEF Published
  <2>4. \A q \in Packages : \A v \in Versions : Published(q, v)' =>
          v = VersionOf(official'[registry'[q][v].by], registry'[q][v].commit)
    BY <2>2 DEF given
  <2>5. FrozenInv'
    <3>1. \A q \in Packages : \A v \in Versions : Published(q, v)' =>
            \A d \in DependsOn[q] :
              registry'[q][v].dependencies[d] = VersionAt(registry'[q][v].by, d)
      BY <2>2
    <3>2. manifest' = manifest /\ official' = official
      BY DEF given
    <3> QED BY <3>1, <3>2 DEF FrozenInv, VersionAt, Published
  <2> QED BY <2>1, <2>3, <2>4, <2>5 DEF RegistryOK, VersionOf
<1> QED BY <1>1, <1>2

\* What has been published stays so, for the steps that leave the registry alone too.
LEMMA ProgressKept ==
  ASSUME IInv, UNCHANGED given,
         \A q \in Packages : \A v \in Versions : Published(q, v) => Published(q, v)',
         NEW c \in Builds, step'[c] = step[c], todo'[c] = todo[c]
  PROVE  /\ step'[c] \in {"publish", "done"} =>
              \A p \in Packages \ todo'[c] : Published(p, VersionAt(c, p))'
         /\ step'[c] = "done" => todo'[c] = {}
<1>1. \A q \in Packages : VersionAt(c, q)' = VersionAt(c, q) /\ VersionAt(c, q) \in Versions
  BY VersionType DEF VersionAt, given, IInv
<1>2. \A q \in Packages : Published(q, VersionAt(c, q)) => Published(q, VersionAt(c, q))'
  BY <1>1 DEF Published
<1> QED BY <1>2 DEF IInv, ProgressInv

\* A step of build b keeps the invariant when it keeps the types, leaves the other builds
\* alone, adds one of its packages or nothing, and does what ProgressInv says of b.
LEMMA BuildStep ==
  ASSUME IInv, UNCHANGED given, NEW b \in Builds, UNCHANGED registry \/ AddsOne(b),
         step' \in [Builds -> {"idle", "prepare", "publish", "done", "failed"}],
         starts' \in [Builds -> 0..MaxStarts], todo' \in [Builds -> SUBSET Packages],
         \A c \in Builds \ {b} : step'[c] = step[c] /\ todo'[c] = todo[c],
         step'[b] \in {"publish", "done"} =>
           \A q \in Packages \ todo'[b] : Published(q, VersionAt(b, q))',
         step'[b] = "done" => todo'[b] = {}
  PROVE  IInv'
<1>1. /\ RegistryOK'
      /\ \A q \in Packages : \A v \in Versions : Published(q, v) => Published(q, v)'
  BY RegistryGrows
<1>2. TypeOK'
  BY <1>1 DEF IInv, TypeOK, RegistryOK, given
<1>3. ASSUME NEW c \in Builds
      PROVE  /\ step'[c] \in {"publish", "done"} =>
                  \A q \in Packages \ todo'[c] : Published(q, VersionAt(c, q))'
             /\ step'[c] = "done" => todo'[c] = {}
  <2>1. CASE c = b
    BY <2>1
  <2>2. CASE c # b
    BY <1>1, <2>2, ProgressKept
  <2> QED BY <2>1, <2>2
<1>4. ProgressInv'
  BY <1>3 DEF ProgressInv
<1> QED BY <1>1, <1>2, <1>4 DEF IInv, RegistryOK

-----------------------------------------------------------------------------

\* Nothing has been published at first.
LEMMA Initially == Init => IInv
<1> SUFFICES ASSUME Init PROVE IInv
  OBVIOUS
<1>1. \A p \in Packages : \A v \in Versions : registry[p][v] = Nothing
  BY DEF Init
<1>2. registry \in [Packages -> [Versions -> Contents \union {Nothing}]]
  BY DEF Init
<1>3. TypeOK
  BY <1>1, <1>2, NpmAssumption DEF Init, TypeOK, Published
<1>4. ProgressInv /\ FrozenInv
  BY <1>1 DEF Init, ProgressInv, FrozenInv, Published
<1> QED BY <1>3, <1>4 DEF IInv

\* Every step of every build keeps the invariant.
LEMMA Preserved == IInv /\ [Next]_vars => IInv'
<1> SUFFICES ASSUME IInv, [Next]_vars PROVE IInv'
  OBVIOUS
<1>t. /\ step \in [Builds -> {"idle", "prepare", "publish", "done", "failed"}]
      /\ starts \in [Builds -> 0..MaxStarts] /\ todo \in [Builds -> SUBSET Packages]
      /\ TypeOK
  BY DEF IInv, TypeOK
<1>0. CASE UNCHANGED vars
  BY <1>0 DEF IInv, TypeOK, ProgressInv, FrozenInv, Published, VersionAt, VersionOf, vars,
              given
<1>1. ASSUME NEW b \in Builds, Start(b) PROVE IInv'
  <2>1. starts'[b] \in 0..MaxStarts /\ step'[b] = "prepare"
    BY <1>1, <1>t, NpmAssumption DEF Start
  <2> QED BY <1>1, <1>t, <2>1, BuildStep DEF Start
<1>2. ASSUME NEW b \in Builds, Prepare(b) PROVE IInv'
  <2>1. CASE diJs[b]
    <3>1. todo'[b] \ Packages = {} /\ Packages \ todo'[b] = {} /\ step'[b] = "publish"
      BY <1>2, <1>t, <2>1 DEF Prepare
    <3> QED BY <1>2, <1>t, <2>1, <3>1, BuildStep DEF Prepare
  <2>2. CASE ~diJs[b]
    <3>1. step'[b] = "failed"
      BY <1>2, <1>t, <2>2 DEF Prepare, Fail
    <3> QED BY <1>2, <1>t, <2>2, <3>1, BuildStep DEF Prepare, Fail
  <2> QED BY <2>1, <2>2
<1>3. ASSUME NEW b \in Builds, NEW p \in Packages, PublishPackage(b, p) PROVE IInv'
  <2> DEFINE w == VersionAt(b, p)
  <2>1. UNCHANGED registry \/ AddsOne(b)
    BY <1>3 DEF PublishPackage, AddsOne, Adds
  <2>2. UNCHANGED given /\ step' = step /\ starts' = starts
    BY <1>3 DEF PublishPackage
  <2>3. \A q \in Packages : VersionAt(b, q) \in Versions /\ VersionAt(b, q)' = VersionAt(b, q)
    BY <1>t, <2>2, VersionType DEF VersionAt, given
  <2>4. \A q \in Packages : Published(q, VersionAt(b, q)) => Published(q, VersionAt(b, q))'
    <3>1. \A q \in Packages : \A v \in Versions : Published(q, v) => Published(q, v)'
      BY <2>1, <2>2, RegistryGrows
    <3> QED BY <2>3, <3>1 DEF Published
  <2>5. Published(p, VersionAt(b, p))'
    <3>1. CASE Published(p, w)
      BY <2>4, <3>1
    <3>2. CASE ~Published(p, w)
      <4>1. Adds(b, p)
        BY <1>3, <3>2 DEF PublishPackage, Adds
      <4>2. registry'[p][w] = PackageJson(b, p) /\ PackageJson(b, p) # Nothing
        BY <1>t, <3>2, <4>1, AddedToRegistry, PackageJsonType
      <4> QED BY <2>3, <4>2 DEF Published
    <3> QED BY <3>1, <3>2
  <2>6. \A q \in Packages \ todo[b] : Published(q, VersionAt(b, q))
    BY <1>3 DEF PublishPackage, IInv, ProgressInv
  <2>7. todo'[b] = todo[b] \ {p} /\ step'[b] = "publish"
    BY <1>3, <1>t DEF PublishPackage
  <2>8. \A q \in Packages \ todo'[b] : Published(q, VersionAt(b, q))'
    BY <2>4, <2>5, <2>6, <2>7
  <2>9. \A c \in Builds \ {b} : todo'[c] = todo[c]
    BY <1>3, <1>t DEF PublishPackage
  <2>10. todo' \in [Builds -> SUBSET Packages]
    BY <1>3, <1>t DEF PublishPackage
  <2> QED BY <1>t, <2>1, <2>2, <2>7, <2>8, <2>9, <2>10, BuildStep
<1>4. ASSUME NEW b \in Builds, NEW p \in Packages, PublishFails(b, p) PROVE IInv'
  <2>1. UNCHANGED registry \/ AddsOne(b)
    BY <1>4 DEF PublishFails, AddsOne, Adds
  <2>2. step'[b] = "failed"
    BY <1>4, <1>t DEF PublishFails, Fail
  <2> QED BY <1>4, <1>t, <2>1, <2>2, BuildStep DEF PublishFails, Fail
<1>5. ASSUME NEW b \in Builds, AllPublished(b) PROVE IInv'
  <2>1. \A q \in Packages \ todo[b] : Published(q, VersionAt(b, q))'
    BY <1>5 DEF AllPublished, IInv, ProgressInv, Published, VersionAt, given
  <2>2. step'[b] = "done" /\ todo'[b] = {} /\ todo[b] = {}
    BY <1>5, <1>t DEF AllPublished
  <2> QED BY <1>5, <1>t, <2>1, <2>2, BuildStep DEF AllPublished
<1>6. ASSUME NEW b \in Builds, Interrupted(b) PROVE IInv'
  <2>1. step'[b] = "failed"
    BY <1>6, <1>t DEF Interrupted, Fail
  <2> QED BY <1>6, <1>t, <2>1, BuildStep DEF Interrupted, Fail
<1> QED BY <1>0, <1>1, <1>2, <1>3, <1>4, <1>5, <1>6 DEF Next, Build

\* A build that is done has everything in the registry; what a package of it depends on
\* is what the build that published the package wanted, and that is there when that
\* build is done too, or when this one wanted the same.
LEMMA InvariantIsEnough == IInv => ResolvesUnlessAbandoned
<1> SUFFICES ASSUME IInv, NEW b \in Builds, step[b] = "done", NEW p \in Packages
             PROVE  /\ Published(p, VersionAt(b, p))
                    /\ \A q \in DependsOn[p] :
                         Needs(b, p, q) = VersionAt(b, q) \/ step[InRegistry(b, p).by] = "done"
                           => Published(q, Needs(b, p, q))
  BY DEF ResolvesUnlessAbandoned
<1>1. \A c \in Builds : step[c] = "done" =>
        \A q \in Packages : Published(q, VersionAt(c, q))
  BY DEF IInv, ProgressInv
<1>2. Published(p, VersionAt(b, p)) /\ VersionAt(b, p) \in Versions
  BY <1>1, VersionType DEF IInv
<1>3. InRegistry(b, p) \in Contents
  BY <1>2 DEF IInv, TypeOK, Published, InRegistry
<1>4. InRegistry(b, p).by \in Builds
  BY <1>3 DEF Contents
<1>5. ASSUME NEW q \in DependsOn[p],
             Needs(b, p, q) = VersionAt(b, q) \/ step[InRegistry(b, p).by] = "done"
      PROVE  Published(q, Needs(b, p, q))
  <2>1. q \in Packages
    BY NpmAssumption
  <2>2. CASE Needs(b, p, q) = VersionAt(b, q)
    BY <1>1, <2>1, <2>2
  <2>3. CASE step[InRegistry(b, p).by] = "done"
    <3>1. Needs(b, p, q) = VersionAt(InRegistry(b, p).by, q)
      BY <1>2 DEF IInv, FrozenInv, InRegistry, Needs
    <3> QED BY <1>1, <1>4, <2>1, <2>3, <3>1
  <2> QED BY <1>5, <2>2, <2>3
<1> QED BY <1>2, <1>5

-----------------------------------------------------------------------------

\* The invariant holds in every state that builds can bring about.
THEOREM NpmInvariant == Spec => []IInv
<1> QED BY Initially, Preserved, PTL DEF Spec

\* Everything keeps its type, and a nightly version in the registry stands for one
\* commit (release_npm_packages.py, lib/npm.py).
THEOREM TypeCorrect == Spec => []TypeOK
<1>1. IInv => TypeOK
  BY DEF IInv
<1> QED BY <1>1, NpmInvariant, PTL

\* After a success of release_npm_packages.py its packages are in the registry, and what
\* they depend on is, unless another build has published a package with other
\* dependencies and has not succeeded: failures and second starts notwithstanding.
THEOREM SuccessResolves == Spec => []ResolvesUnlessAbandoned
<1> QED BY NpmInvariant, InvariantIsEnough, PTL
=============================================================================
