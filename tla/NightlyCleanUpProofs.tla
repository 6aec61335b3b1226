------------------------ MODULE NightlyCleanUpProofs -------------------------
(***************************************************************************)
(* Proofs about the clean-up of the nightly builds, for any packages, any  *)
(* ranges of time, any size of docker hub's pages, and any number of runs. *)
(***************************************************************************)
EXTENDS NightlyCleanUp, FiniteSetTheorems, TLAPS

NightlyVersions == {Nightly(d) : d \in Dates}

\* Only Bintray is asked about one version after the other.
RunInv == step = "read" => source = "bintray"

\* Only packages and images have versions of packages; Atlas has no packages.
StoreInv ==
  \A p \in Packages : \A v \in Versions :
    Has(p, v) => v \in PackageVersions /\ source # "atlas"

\* A nightly build has something to publish, and only packages are built.
NightInv ==
  night # NoNight =>
    /\ source = "bintray"
    /\ night \in [upload : SUBSET Packages, version : [Packages -> NightlyVersions]]
    /\ night.upload # {}

\* What is on the list was uploaded within the range, or has been uploaded again since.
ChosenInv ==
  CleaningUp =>
    \A p \in Places : p = Here =>
      \A v \in Versions : chosen[v] > 0 /\ Has(p, v) => Within(p, v) \/ store[p][v] >= began

\* What a run is to delete.
Overdue(p, v) == Has(p, v) /\ Within(p, v) /\ store[p][v] < began

\* What is overdue is on the list, or is still to be read.
ListedInv ==
  CleaningUp /\ source # "atlas" =>
    \A p \in Places : p = Here =>
      \A v \in NightlyVersions : Overdue(p, v) =>
        \/ chosen[v] > 0
        \/ step = "read" /\ v \in unread
        \/ step = "list" /\ (source = "dockerhub" => Position(p, v) > (page - 1) * PageSize)

\* The packages before the one the run works on have nothing left that is overdue.
GoneInv ==
  /\ CleaningUp /\ source # "atlas" =>
       \A i \in 1..(place - 1) : \A v \in NightlyVersions : ~Overdue(RACKHD_REPOS[i], v)
  /\ step = "done" => \A p \in Packages : \A v \in NightlyVersions : ~Overdue(p, v)

\* While no run interferes, what a nightly build does not upload is there, and the
\* newest RackHD depends on what is there.
SoundInv ==
  sound =>
    /\ ~CleaningUp
    /\ night # NoNight => \A p \in Components \ night.upload : Has(p, night.version[p])
    /\ night # NoNight /\ RackHD \notin night.upload =>
         \A p \in Components : pins[p] = night.version[p]
    /\ night = NoNight => \A p \in Components : Has(p, pins[p])

IInv ==
  /\ TypeOK /\ RunInv /\ StoreInv /\ NightInv /\ ChosenInv /\ ListedInv /\ GoneInv /\ SoundInv

-----------------------------------------------------------------------------
(* The constants, and the order of docker hub                              *)

LEMMA ConstantTypes ==
  /\ LastTime \in Nat \ {0, 1} /\ PageSize \in Nat \ {0} /\ MaxRuns \in Nat
  /\ RackHD \in Packages /\ Packages \subseteq Places /\ Components \subseteq Packages
  /\ Box \in Places /\ Box \notin Packages
  /\ RACKHD_REPOS \in Seq(Packages) /\ DOMAIN RACKHD_REPOS = 1..Len(RACKHD_REPOS)
  /\ Len(RACKHD_REPOS) \in Nat \ {0}
<1>1. RACKHD_REPOS \in Seq(Packages) /\ RackHD \in Packages
  BY CleanUpAssumption
<1>2. DOMAIN RACKHD_REPOS = 1..Len(RACKHD_REPOS) /\ Len(RACKHD_REPOS) \in Nat
  BY <1>1
<1>3. Len(RACKHD_REPOS) # 0
  BY <1>1, <1>2 DEF Packages
<1> QED
  BY <1>1, <1>2, <1>3, CleanUpAssumption DEF Places, Components

\* The versions of nightly builds are no releases, and the clean-up takes them, and no
\* others, for what they are.
LEMMA NightlyVersion ==
  /\ NightlyVersions \subseteq PackageVersions /\ PackageVersions \subseteq Versions
  /\ \A v \in NightlyVersions : Len(v) = 2 /\ v[2] \in Dates /\ v[2] # Text /\ v \notin Releases
  /\ \A v \in PackageVersions : Len(v) > 1 /\ v[2] # Text => v \in NightlyVersions
<1>1. NightlyVersions \subseteq PackageVersions /\ PackageVersions \subseteq Versions
  BY DEF NightlyVersions, PackageVersions, Versions
<1>2. ASSUME NEW d \in Dates
      PROVE  LET v == Nightly(d)
             IN  Len(v) = 2 /\ v[1] = 1 /\ v[2] = d /\ v[2] # Text
  BY ConstantTypes DEF Nightly, Text, Dates, Base
<1>3. ASSUME NEW d \in Dates
      PROVE  Nightly(d) \notin Releases
  <2>1. Nightly(d) = <<1, d>>
    BY DEF Nightly, Base
  <2>2. <<1, d>> \notin {<<1>>} /\ <<1, d>> \notin {<<0, 16>>, <<2, 0, 0>>, <<2, 1, 0>>}
    OBVIOUS
  <2> QED
    BY <2>1, <2>2 DEF Releases, PackageReleases, BoxReleases, Base
<1>4. ASSUME NEW v \in PackageVersions, Len(v) > 1, v[2] # Text
      PROVE  v \in NightlyVersions
  BY <1>4 DEF PackageVersions, PackageReleases, NightlyVersions
<1> QED
  BY <1>1, <1>2, <1>3, <1>4 DEF NightlyVersions

\* Where the clean-up is.
LEMMA HereType ==
  ASSUME TypeOK
  PROVE  Here \in Places /\ (source # "atlas" => Here \in Packages /\ Here = RACKHD_REPOS[place])
BY ConstantTypes DEF TypeOK, Here

LEMMA VersionsAreFinite == IsFiniteSet(Versions)
<1>1. IsFiniteSet(Dates)
  BY ConstantTypes, FS_Interval DEF Dates
<1> DEFINE N == {Nightly(d) : d \in Dates}
           B == {NightlyBox(d) : d \in Dates}
<1>2. IsFiniteSet(N)
  <2> DEFINE f == [d \in Dates |-> Nightly(d)]
  <2>1. f \in Surjection(Dates, N)
    BY DEF Surjection
  <2> QED
    BY <1>1, <2>1, FS_Surjection
<1>3. IsFiniteSet(B)
  <2> DEFINE f == [d \in Dates |-> NightlyBox(d)]
  <2>1. f \in Surjection(Dates, B)
    BY DEF Surjection
  <2> QED
    BY <1>1, <2>1, FS_Surjection
<1> HIDE DEF N, B
<1>4. IsFiniteSet((N \union {<<Base>>}) \union {<<Base, Text>>})
  BY <1>2, FS_AddElement
<1>5. IsFiniteSet(((B \union {<<0, 16>>}) \union {<<2, 0, 0>>}) \union {<<2, 1, 0>>})
  <2>1. IsFiniteSet(B \union {<<0, 16>>})
    BY <1>3, FS_AddElement
  <2>2. IsFiniteSet((B \union {<<0, 16>>}) \union {<<2, 0, 0>>})
    BY <2>1, FS_AddElement
  <2> QED
    BY <2>2, FS_AddElement
<1>6. PackageVersions = (N \union {<<Base>>}) \union {<<Base, Text>>}
  BY DEF PackageVersions, PackageReleases, N
<1>7. BoxVersions = ((B \union {<<0, 16>>}) \union {<<2, 0, 0>>}) \union {<<2, 1, 0>>}
  BY DEF BoxVersions, BoxReleases, B
<1> QED
  BY <1>4, <1>5, <1>6, <1>7, FS_Union DEF Versions

LEMMA PositionType ==
  ASSUME NEW p, NEW v
  PROVE  Position(p, v) \in Nat \ {0} /\ (Position(p, v) \in Nat \ {0})'
<1>1. ASSUME NEW S \in SUBSET Versions PROVE 1 + Cardinality(S) \in Nat \ {0}
  <2>1. Cardinality(S) \in Nat
    BY VersionsAreFinite, FS_Subset, FS_CardinalityType
  <2> QED
    BY <2>1
<1>2. {u \in Versions : Has(p, u) /\ Before(p, u, v)} \in SUBSET Versions
  OBVIOUS
<1>3. ({u \in Versions : Has(p, u) /\ Before(p, u, v)} \in SUBSET Versions)'
  OBVIOUS
<1> QED
  BY <1>1, <1>2, <1>3 DEF Position

\* What is pushed comes before everything older, which moves down the list.
LEMMA PushedFirst ==
  ASSUME TypeOK, NEW q \in Places, NEW w \in Versions, NEW p \in Places, NEW v \in Versions,
         store' = [store EXCEPT ![q][w] = now], ~ (p = q /\ v = w), store[p][v] < now
  PROVE  Position(p, v)' >= Position(p, v)
<1> DEFINE A == {u \in Versions : Has(p, u) /\ Before(p, u, v)}
<1>1. store[p][v] \in Int /\ now \in Int /\ now # Absent
  BY ConstantTypes DEF TypeOK, Absent
<1>2. store'[p][v] = store[p][v]
  BY DEF TypeOK
<1>3. ASSUME NEW u \in Versions, Has(p, u), Before(p, u, v)
      PROVE  Has(p, u)' /\ Before(p, u, v)'
  <2>1. CASE p = q /\ u = w
    <3>1. store'[p][u] = now
      BY <2>1 DEF TypeOK
    <3> QED
      BY <1>1, <1>2, <3>1 DEF Has, Before
  <2>2. CASE ~ (p = q /\ u = w)
    <3>1. store'[p][u] = store[p][u]
      BY <2>2 DEF TypeOK
    <3> QED
      BY <1>2, <1>3, <3>1 DEF Has, Before
  <2> QED
    BY <2>1, <2>2
<1>4. A \subseteq A' /\ A' \subseteq Versions
  BY <1>3
<1>5. Position(p, v) = 1 + Cardinality(A) /\ Position(p, v)' = 1 + Cardinality(A')
  BY DEF Position
<1> HIDE DEF A
<1>6. IsFiniteSet(A') /\ Cardinality(A) <= Cardinality(A')
  BY <1>4, VersionsAreFinite, FS_Subset
<1>7. IsFiniteSet(A) /\ Cardinality(A) \in Nat /\ Cardinality(A') \in Nat
  BY <1>4, <1>6, FS_Subset, FS_CardinalityType
<1> QED
  BY <1>5, <1>6, <1>7

\* Uploading and deleting make nothing overdue.
LEMMA NothingMoreOverdue ==
  ASSUME TypeOK, NEW q \in Places, NEW w \in Versions, NEW ACTION x, x \in {now, Absent},
         store' = [store EXCEPT ![q][w] = x], window' = window, began' = began,
         NEW p \in Places, NEW v \in Versions, Overdue(p, v)'
  PROVE  Overdue(p, v) /\ ~ (p = q /\ v = w)
<1>1. began \in Int /\ now \in Int /\ began <= now
  BY DEF TypeOK
<1>2. CASE p = q /\ v = w
  <2>1. store'[p][v] = x
    BY <1>2 DEF TypeOK
  <2> QED
    BY <1>1, <2>1 DEF Overdue, Has, Within
<1>3. CASE ~ (p = q /\ v = w)
  <2>1. store'[p][v] = store[p][v]
    BY <1>3 DEF TypeOK
  <2> QED
    BY <1>3, <2>1 DEF Overdue, Has, Within
<1> QED
  BY <1>2, <1>3

\* What is overdue depends on the platform and the run only.
LEMMA SamePlatform ==
  ASSUME store' = store, window' = window, began' = began
  PROVE  \A p, v : /\ Has(p, v)' = Has(p, v) /\ Within(p, v)' = Within(p, v)
                   /\ Overdue(p, v)' = Overdue(p, v)
                   /\ Position(p, v)' = Position(p, v)
BY DEF Has, Within, Overdue, Position, Before

-----------------------------------------------------------------------------
(* The steps                                                               *)

LEMMA NoneType == None \in [Versions -> Nat] /\ \A v \in Versions : None[v] = 0
BY DEF None

LEMMA Initially == Init => IInv
<1> SUFFICES ASSUME Init PROVE IInv
  OBVIOUS
<1>1. PICK maybe \in SUBSET MaybeAtFirst(source) :
        store = [p \in Places |-> [v \in Versions |->
                   IF <<p, v>> \in AtFirst(source) \union maybe THEN 1 ELSE Absent]]
  BY DEF Init
<1>2. 0 \in Dates /\ 1 \in Dates /\ 1 \in 0..LastTime /\ Absent \in 0..LastTime
  BY ConstantTypes DEF Dates, Absent
<1>3. TypeOK
  <2>1. store \in [Places -> [Versions -> 0..LastTime]]
    BY <1>1, <1>2
  <2>2. now \in 1..LastTime /\ began \in 0..now
    BY ConstantTypes DEF Init
  <2>3. runs \in 0..MaxRuns /\ place \in DOMAIN RACKHD_REPOS /\ page \in Nat \ {0}
    BY ConstantTypes DEF Init
  <2>4. pins \in [Components -> Versions] /\ commit \in [Components -> 0..now]
    <3>1. Nightly(1) \in Versions
      BY <1>2, NightlyVersion DEF NightlyVersions
    <3>2. now \in Nat /\ 1 \in 0..now
      BY DEF Init
    <3> QED
      BY <3>1, <3>2 DEF Init
  <2>5. night.upload \subseteq Packages /\ DOMAIN night.version = Packages
    BY DEF Init, NoNight
  <2>6. /\ source \in {"bintray", "dockerhub", "atlas"} /\ step = "idle" /\ ~CleaningUp
        /\ window \in Windows \union {<<>>} /\ unread \subseteq Versions /\ sound \in BOOLEAN
    BY DEF Init, CleaningUp
  <2> QED
    BY <2>1, <2>2, <2>3, <2>4, <2>5, <2>6, NoneType DEF Init, TypeOK
<1>4. step = "idle" /\ ~CleaningUp /\ night = NoNight /\ ~sound
  BY DEF Init, CleaningUp
<1>5. StoreInv
  <2>1. ASSUME NEW p \in Packages, NEW v \in Versions, Has(p, v)
        PROVE  v \in PackageVersions /\ source # "atlas"
    <3>1. <<p, v>> \in AtFirst(source) \union MaybeAtFirst(source)
      BY <1>1, <2>1, ConstantTypes DEF Has, Absent
    <3>2. p # Box
      BY ConstantTypes
    <3>3. {<<Base>>, <<Base, Text>>, Nightly(0), Nightly(1)} \subseteq PackageVersions
      BY <1>2 DEF PackageVersions, PackageReleases
    <3>4. source # "atlas"
      BY <3>1, <3>2 DEF AtFirst, MaybeAtFirst
    <3>5. v \in {<<Base>>, <<Base, Text>>, Nightly(0), Nightly(1)}
      BY <3>1, <3>4 DEF AtFirst, MaybeAtFirst
    <3> QED
      BY <3>3, <3>4, <3>5
  <2> QED
    BY <2>1 DEF StoreInv
<1> QED
  BY <1>3, <1>4, <1>5
  DEF IInv, RunInv, NightInv, ChosenInv, ListedInv, GoneInv, SoundInv

\* The versions that packages have now are those of nightly builds.
LEMMA CurrentType ==
  ASSUME TypeOK
  PROVE  Current \in [Packages -> NightlyVersions]
<1>1. ASSUME NEW p \in Packages
      PROVE  (IF p = RackHD THEN now ELSE commit[p]) \in Dates
  <2>1. CASE p = RackHD
    BY <2>1, ConstantTypes DEF TypeOK, Dates
  <2>2. CASE p # RackHD
    <3>1. commit[p] \in 0..now /\ now \in 1..LastTime
      BY <2>2 DEF TypeOK, Components
    <3> QED
      BY <2>2, <3>1, ConstantTypes DEF Dates
  <2> QED
    BY <2>1, <2>2
<1> QED
  BY <1>1 DEF Current, NightlyVersions

\* An upload keeps what the invariant says of the clean-up.
LEMMA UploadStep ==
  ASSUME IInv, NEW q \in Places, NEW w \in Versions, store' = [store EXCEPT ![q][w] = now],
         q \in Packages => w \in PackageVersions /\ source # "atlas",
         UNCHANGED <<source, now, run>>
  PROVE  /\ store' \in [Places -> [Versions -> 0..LastTime]]
         /\ RunInv' /\ StoreInv' /\ ChosenInv' /\ ListedInv' /\ GoneInv'
         /\ \A p \in Places, v \in Versions : Has(p, v) => Has(p, v)'
         /\ Has(q, w)'
<1> USE DEF IInv
<1>1. /\ source' = source /\ now' = now /\ step' = step /\ runs' = runs /\ began' = began
      /\ window' = window /\ place' = place /\ unread' = unread /\ page' = page
      /\ chosen' = chosen
      /\ Here' = Here /\ CleaningUp' = CleaningUp
  BY DEF run, Here, CleaningUp
<1>2. now \in 1..LastTime /\ began \in 0..now /\ now # Absent /\ now \in Int /\ began \in Int
  BY ConstantTypes DEF TypeOK, Absent
<1>3. store' \in [Places -> [Versions -> 0..LastTime]]
  BY <1>2 DEF TypeOK
<1>4. ASSUME NEW p \in Places, NEW v \in Versions
      PROVE  store'[p][v] = IF p = q /\ v = w THEN now ELSE store[p][v]
  BY DEF TypeOK
<1>5. StoreInv'
  BY <1>1, <1>4, ConstantTypes DEF StoreInv, Has
<1>6. ChosenInv'
  BY <1>1, <1>2, <1>4 DEF ChosenInv, Has, Within
<1>7. ASSUME NEW p \in Places, NEW v \in Versions, Overdue(p, v)'
      PROVE  Overdue(p, v) /\ ~ (p = q /\ v = w)
  BY <1>1, <1>7, NothingMoreOverdue
<1>8. ListedInv'
  <2>1. ASSUME NEW p \in Places, NEW v \in Versions, Overdue(p, v)'
        PROVE  Position(p, v)' >= Position(p, v)
    <3>1. store[p][v] < now
      BY <1>2, <1>7, <2>1 DEF Overdue, TypeOK
    <3> QED
      BY <1>7, <2>1, <3>1, PushedFirst
  <2>2. ASSUME NEW p \in Places, NEW v \in Versions, Overdue(p, v)',
               Position(p, v) > (page - 1) * PageSize
        PROVE  Position(p, v)' > (page' - 1) * PageSize
    <3>1. (page - 1) * PageSize \in Int
      BY ConstantTypes DEF TypeOK
    <3> QED
      BY <1>1, <2>1, <2>2, <3>1, PositionType
  <2> QED
    BY <1>1, <1>7, <2>2, NightlyVersion DEF ListedInv
<1>9. GoneInv'
  <2>1. \A i \in 1..(place - 1) : RACKHD_REPOS[i] \in Places
    BY ConstantTypes DEF TypeOK
  <2> QED
    BY <1>1, <1>7, <2>1, NightlyVersion, ConstantTypes DEF GoneInv
<1>10. RunInv'
  BY <1>1 DEF RunInv
<1> QED
  BY <1>2, <1>3, <1>4, <1>5, <1>6, <1>8, <1>9, <1>10 DEF Has

\* The clock, a commit, and a nightly build that looks or fails, leave the platform and
\* the clean-up as they are.
LEMMA OtherStep ==
  ASSUME IInv, UNCHANGED <<source, store, run>>
  PROVE  RunInv' /\ StoreInv' /\ ChosenInv' /\ ListedInv' /\ GoneInv'
<1>1. /\ source' = source /\ store' = store /\ step' = step /\ runs' = runs /\ began' = began
      /\ window' = window /\ place' = place /\ unread' = unread /\ page' = page
      /\ chosen' = chosen
      /\ Here' = Here /\ CleaningUp' = CleaningUp
  BY DEF run, Here, CleaningUp
<1>2. \A p, v : /\ Has(p, v)' = Has(p, v) /\ Within(p, v)' = Within(p, v)
                /\ Overdue(p, v)' = Overdue(p, v) /\ Position(p, v)' = Position(p, v)
  BY <1>1, SamePlatform
<1> QED
  BY <1>1, <1>2 DEF IInv, RunInv, StoreInv, ChosenInv, ListedInv, GoneInv

LEMMA TickStep ==
  ASSUME IInv, Tick
  PROVE  IInv'
<1>1. /\ now < LastTime /\ now' = now + 1 /\ UNCHANGED <<source, store, run, nightly, sound>>
  BY DEF Tick
<1>2. /\ source' = source /\ store' = store /\ step' = step /\ runs' = runs /\ began' = began
      /\ window' = window /\ place' = place /\ unread' = unread /\ page' = page
      /\ chosen' = chosen /\ commit' = commit /\ night' = night /\ pins' = pins
      /\ sound' = sound /\ CleaningUp' = CleaningUp
  BY <1>1 DEF run, nightly, CleaningUp
<1>3. now' \in 1..LastTime /\ began \in 0..now' /\ 0..now \subseteq 0..now'
  BY <1>1, ConstantTypes DEF IInv, TypeOK
<1>4. TypeOK'
  BY <1>2, <1>3 DEF IInv, TypeOK
<1>5. NightInv' /\ SoundInv'
  BY <1>2 DEF IInv, NightInv, SoundInv, Has
<1> QED
  BY <1>1, <1>4, <1>5, OtherStep DEF IInv

LEMMA CommitStep ==
  ASSUME IInv, NEW p \in Components, Commit(p)
  PROVE  IInv'
<1>1. /\ commit' = [commit EXCEPT ![p] = now]
      /\ UNCHANGED <<source, store, now, run, night, pins, sound>>
  BY DEF Commit
<1>2. /\ source' = source /\ store' = store /\ step' = step /\ runs' = runs /\ began' = began
      /\ window' = window /\ place' = place /\ unread' = unread /\ page' = page
      /\ chosen' = chosen /\ now' = now /\ night' = night /\ pins' = pins
      /\ sound' = sound /\ CleaningUp' = CleaningUp
  BY <1>1 DEF run, CleaningUp
<1>3. commit' \in [Components -> 0..now]
  BY <1>1, ConstantTypes DEF IInv, TypeOK
<1>4. TypeOK'
  BY <1>2, <1>3 DEF IInv, TypeOK
<1>5. NightInv' /\ SoundInv'
  BY <1>2 DEF IInv, NightInv, SoundInv, Has
<1> QED
  BY <1>1, <1>4, <1>5, OtherStep DEF IInv

\* A nightly build looks at what is there: what it leaves out, it has seen.
LEMMA BuildPackagesStep ==
  ASSUME IInv, BuildPackages
  PROVE  IInv'
<1>1. PICK unanswered \in SUBSET Packages :
        /\ RackHD \in Missing \union unanswered
        /\ night' = [upload |-> Missing \union unanswered, version |-> Current]
  BY DEF BuildPackages
<1>2. /\ source = "bintray" /\ sound' = ~CleaningUp
      /\ UNCHANGED <<source, store, now, run, commit, pins>>
  BY DEF BuildPackages
<1>3. /\ source' = source /\ store' = store /\ step' = step /\ runs' = runs /\ began' = began
      /\ window' = window /\ place' = place /\ unread' = unread /\ page' = page
      /\ chosen' = chosen /\ now' = now /\ pins' = pins /\ commit' = commit
      /\ CleaningUp' = CleaningUp
  BY <1>2 DEF run, CleaningUp
<1>4. /\ night'.upload \subseteq Packages /\ RackHD \in night'.upload
      /\ night'.version = Current /\ night'.version \in [Packages -> NightlyVersions]
      /\ night' \in [upload : SUBSET Packages, version : [Packages -> NightlyVersions]]
      /\ Missing \subseteq night'.upload
  BY <1>1, CurrentType DEF IInv, Missing
<1>5. TypeOK'
  BY <1>2, <1>3, <1>4 DEF IInv, TypeOK
<1>6. NightInv'
  BY <1>2, <1>3, <1>4 DEF NightInv
<1>7. SoundInv'
  <2>1. night' # NoNight
    BY <1>4 DEF NoNight
  <2>2. \A p \in Components \ night'.upload : store'[p][night'.version[p]] # Absent
    BY <1>3, <1>4, ConstantTypes DEF Missing, Has
  <2> QED
    BY <1>2, <1>3, <1>4, <2>1, <2>2 DEF SoundInv, Has
<1> QED
  BY <1>2, <1>5, <1>6, <1>7, OtherStep DEF IInv

\* A package of the nightly build is uploaded, and with it, perhaps, the last one.
LEMMA PublishPackageStep ==
  ASSUME IInv, NEW q \in Packages, PublishPackage(q)
  PROVE  IInv'
<1>1. /\ q \in night.upload /\ store' = [store EXCEPT ![q][night.version[q]] = now]
      /\ night' = IF night.upload = {q} THEN NoNight
                  ELSE [night EXCEPT !.upload = @ \ {q}]
      /\ pins' = IF q = RackHD THEN [p \in Components |-> night.version[p]] ELSE pins
      /\ UNCHANGED <<source, now, run, commit, sound>>
  BY DEF PublishPackage
<1>2. night # NoNight
  BY <1>1 DEF NoNight
<1>3. source = "bintray" /\ night.version \in [Packages -> NightlyVersions]
  BY <1>2 DEF IInv, NightInv
<1>4. PICK w \in NightlyVersions : w = night.version[q]
  BY <1>3
<1>5. w \in Versions /\ w \in PackageVersions
  BY NightlyVersion
<1>6. /\ store' \in [Places -> [Versions -> 0..LastTime]]
      /\ RunInv' /\ StoreInv' /\ ChosenInv' /\ ListedInv' /\ GoneInv'
      /\ \A p \in Places, v \in Versions : Has(p, v) => Has(p, v)'
      /\ Has(q, w)'
  <2>1. q \in Places /\ source # "atlas"
    BY <1>3, ConstantTypes
  <2>2. store' = [store EXCEPT ![q][w] = now] /\ UNCHANGED <<source, now, run>>
    BY <1>1, <1>4
  <2> QED
    BY <1>5, <2>1, <2>2, UploadStep
<1>7. /\ source' = source /\ now' = now /\ step' = step /\ runs' = runs /\ began' = began
      /\ window' = window /\ place' = place /\ unread' = unread /\ page' = page
      /\ chosen' = chosen /\ commit' = commit /\ sound' = sound
      /\ CleaningUp' = CleaningUp
  BY <1>1 DEF run, CleaningUp
<1>8. CASE night.upload = {q}
  <2>1. night' = NoNight
    BY <1>1, <1>8
  <2>2. pins' \in [Components -> Versions]
    BY <1>1, <1>3, NightlyVersion, ConstantTypes DEF IInv, TypeOK
  <2>3. night'.upload \subseteq Packages /\ DOMAIN night'.version = Packages
    BY <2>1 DEF NoNight
  <2>4. TypeOK'
    BY <1>6, <1>7, <2>2, <2>3 DEF IInv, TypeOK
  <2>5. ASSUME sound, NEW p \in Components
        PROVE  store'[p][pins'[p]] # Absent
    <3>1. pins'[p] = night.version[p]
      BY <1>1, <1>2, <1>8, <2>5 DEF IInv, SoundInv
    <3>2. p \in Places /\ night.version[p] \in Versions
      BY <1>3, NightlyVersion, ConstantTypes
    <3>3. PICK v \in Versions : v = night.version[p]
      BY <3>2
    <3>4. Has(p, v)'
      <4>1. CASE p = q
        BY <1>4, <1>6, <3>3, <4>1
      <4>2. CASE p # q
        <5>1. Has(p, v)
          BY <1>2, <1>8, <2>5, <3>3, <4>2 DEF IInv, SoundInv, Has
        <5> QED
          BY <1>6, <3>2, <5>1
      <4> QED
        BY <4>1, <4>2
    <3> QED
      BY <3>1, <3>3, <3>4 DEF Has
  <2>6. SoundInv'
    BY <1>7, <2>1, <2>5 DEF IInv, SoundInv, Has
  <2> QED
    BY <1>6, <2>1, <2>4, <2>6 DEF IInv, NightInv
<1>9. CASE night.upload # {q}
  <2>1. /\ night' = [night EXCEPT !.upload = @ \ {q}]
        /\ night.upload \subseteq Packages
    BY <1>1, <1>9 DEF IInv, TypeOK
  <2>2. night.upload \ {q} # {}
    BY <1>1, <1>9
  <2>3. /\ night'.upload = night.upload \ {q} /\ night'.version = night.version
        /\ night' # NoNight
    <3>1. night \in [upload : SUBSET Packages, version : [Packages -> NightlyVersions]]
      BY <1>2 DEF IInv, NightInv
    <3> QED
      BY <2>1, <2>2, <3>1 DEF NoNight
  <2>4. pins' \in [Components -> Versions]
    BY <1>1, <1>3, NightlyVersion, ConstantTypes DEF IInv, TypeOK
  <2>5. TypeOK'
    BY <1>6, <1>7, <2>1, <2>3, <2>4 DEF IInv, TypeOK
  <2>6. NightInv'
    <3>1. night' \in [upload : SUBSET Packages, version : [Packages -> NightlyVersions]]
      BY <1>2, <2>1 DEF IInv, NightInv
    <3> QED
      BY <1>3, <1>7, <2>2, <2>3, <3>1 DEF NightInv
  <2>7. ASSUME sound, NEW p \in Components \ night'.upload
        PROVE  store'[p][night'.version[p]] # Absent
    <3>1. p \in Places /\ night.version[p] \in Versions
      BY <1>3, NightlyVersion, ConstantTypes
    <3>2. PICK v \in Versions : v = night.version[p]
      BY <3>1
    <3>3. Has(p, v)'
      <4>1. CASE p = q
        BY <1>4, <1>6, <3>2, <4>1
      <4>2. CASE p # q
        <5>1. Has(p, v)
          BY <1>2, <2>3, <2>7, <3>2, <4>2 DEF IInv, SoundInv, Has
        <5> QED
          BY <1>6, <3>1, <5>1
      <4> QED
        BY <4>1, <4>2
    <3> QED
      BY <2>3, <3>2, <3>3 DEF Has
  <2>8. ASSUME sound, RackHD \notin night'.upload, NEW p \in Components
        PROVE  pins'[p] = night'.version[p]
    BY <1>1, <1>2, <2>3, <2>8 DEF IInv, SoundInv
  <2>9. SoundInv'
    BY <1>7, <2>3, <2>7, <2>8 DEF IInv, SoundInv, Has
  <2> QED
    BY <1>6, <2>5, <2>6, <2>9 DEF IInv
<1> QED
  BY <1>8, <1>9

LEMMA NightFailsStep ==
  ASSUME IInv, NightFails
  PROVE  IInv'
<1>1. /\ night' = NoNight /\ sound' = FALSE
      /\ UNCHANGED <<source, store, now, run, commit, pins>>
  BY DEF NightFails
<1>2. TypeOK'
  BY <1>1 DEF IInv, TypeOK, run, NoNight, CleaningUp
<1>3. NightInv' /\ SoundInv'
  BY <1>1 DEF NightInv, SoundInv
<1> QED
  BY <1>1, <1>2, <1>3, OtherStep DEF IInv

\* An image or a box is uploaded: nothing that was there is gone.
LEMMA PushStep ==
  ASSUME IInv, NEW q \in Places, NEW w \in Versions, store' = [store EXCEPT ![q][w] = now],
         q \in Packages => w \in PackageVersions /\ source # "atlas",
         UNCHANGED <<source, now, run, nightly, sound>>
  PROVE  IInv'
<1>1. /\ store' \in [Places -> [Versions -> 0..LastTime]]
      /\ RunInv' /\ StoreInv' /\ ChosenInv' /\ ListedInv' /\ GoneInv'
      /\ \A p \in Places, v \in Versions : Has(p, v) => Has(p, v)'
  BY UploadStep
<1>2. /\ source' = source /\ now' = now /\ step' = step /\ runs' = runs /\ began' = began
      /\ window' = window /\ place' = place /\ unread' = unread /\ page' = page
      /\ chosen' = chosen /\ commit' = commit /\ night' = night /\ pins' = pins
      /\ sound' = sound /\ CleaningUp' = CleaningUp
  BY DEF run, nightly, CleaningUp
<1>3. TypeOK'
  BY <1>1, <1>2 DEF IInv, TypeOK
<1>4. NightInv'
  BY <1>2 DEF IInv, NightInv
<1>5. SoundInv'
  <2>1. ASSUME NEW p \in Components, NEW v \in Versions, Has(p, v)
        PROVE  store'[p][v] # Absent
    BY <1>1, <2>1, ConstantTypes DEF Has
  <2>2. night # NoNight => \A p \in Components : night.version[p] \in Versions
    BY NightlyVersion, ConstantTypes DEF IInv, NightInv
  <2>3. \A p \in Components : pins[p] \in Versions
    BY DEF IInv, TypeOK
  <2> QED
    BY <1>2, <2>1, <2>2, <2>3 DEF IInv, SoundInv, Has
<1> QED
  BY <1>1, <1>3, <1>4, <1>5 DEF IInv

LEMMA PushImageStep ==
  ASSUME IInv, NEW p \in Components, PushImage(p)
  PROVE  IInv'
<1>1. Current[p] \in NightlyVersions
  BY CurrentType, ConstantTypes DEF IInv
<1>2. PICK w \in NightlyVersions : w = Current[p]
  BY <1>1
<1>3. /\ source = "dockerhub" /\ store' = [store EXCEPT ![p][w] = now]
      /\ UNCHANGED <<source, now, run, nightly, sound>>
  BY <1>2 DEF PushImage
<1> QED
  BY <1>3, PushStep, NightlyVersion, ConstantTypes

LEMMA UploadBoxStep ==
  ASSUME IInv, UploadBox
  PROVE  IInv'
<1>1. now \in Dates
  BY ConstantTypes DEF IInv, TypeOK, Dates
<1>2. PICK w \in Versions : w = NightlyBox(now)
  BY <1>1 DEF Versions, BoxVersions
<1>3. /\ store' = [store EXCEPT ![Box][w] = now]
      /\ UNCHANGED <<source, now, run, nightly, sound>>
  BY <1>2 DEF UploadBox
<1> QED
  BY <1>3, PushStep, ConstantTypes

\* A run starts with nothing on its list.
LEMMA StartStep ==
  ASSUME IInv, Start
  PROVE  IInv'
<1>1. PICK w \in Windows : window' = w /\ step' = IF ValidRange(w) THEN "list" ELSE "failed"
  BY DEF Start
<1>2. /\ ~CleaningUp /\ runs < MaxRuns /\ runs' = runs + 1 /\ began' = now
      /\ place' = 1 /\ unread' = {} /\ page' = 1 /\ chosen' = None /\ sound' = FALSE
      /\ source' = source /\ store' = store /\ now' = now
      /\ commit' = commit /\ night' = night /\ pins' = pins
  BY DEF Start, nightly
<1>3. /\ step' \in {"list", "failed"} /\ (step' = "list" => ValidRange(window'))
      /\ CleaningUp' <=> step' = "list"
  BY <1>1 DEF CleaningUp
<1>4. TypeOK'
  <2>1. runs' \in 0..MaxRuns /\ now \in 0..now
    BY <1>2, ConstantTypes DEF IInv, TypeOK
  <2>2. 1 \in DOMAIN RACKHD_REPOS
    BY ConstantTypes
  <2>3. CleaningUp' => ValidRange(window')
    BY <1>3
  <2>4. window' \in Windows \union {<<>>} /\ unread' \subseteq Versions
    BY <1>1, <1>2
  <2>5. /\ now' = now /\ now \in 1..LastTime /\ began' = now /\ now \in 0..now
        /\ chosen' \in [Versions -> Nat] /\ place' = 1 /\ page' \in Nat \ {0}
    BY <1>2, <2>1, NoneType DEF IInv, TypeOK
  <2>6. step' \in {"idle", "list", "read", "delete", "done", "failed"} /\ sound' \in BOOLEAN
    BY <1>2, <1>3
  <2> QED
    BY <1>2, <2>1, <2>2, <2>3, <2>4, <2>5, <2>6 DEF IInv, TypeOK
<1>5. RunInv' /\ StoreInv' /\ NightInv' /\ SoundInv'
  BY <1>2, <1>3 DEF IInv, RunInv, StoreInv, NightInv, SoundInv, Has
<1>6. ChosenInv'
  BY <1>2, NoneType DEF ChosenInv
<1>7. ListedInv'
  <2>1. ASSUME NEW p, NEW v PROVE Position(p, v)' > (page' - 1) * PageSize
    <3>1. (page' - 1) * PageSize = 0
      BY <1>2, ConstantTypes
    <3> QED
      BY <3>1, PositionType
  <2> QED
    BY <1>3, <2>1 DEF ListedInv, CleaningUp
<1>8. GoneInv'
  BY <1>2, <1>3 DEF GoneInv
<1> QED
  BY <1>4, <1>5, <1>6, <1>7, <1>8 DEF IInv

\* A run that fails is over.
LEMMA FailStep ==
  ASSUME IInv, CleaningUp, Fail, NEW p \in Places, NEW v \in Versions,
         store' = store \/ store' = [store EXCEPT ![p][v] = Absent],
         UNCHANGED <<source, now, runs, began, window, nightly, sound>>
  PROVE  IInv'
<1>1. /\ step' = "failed" /\ ~CleaningUp'
      /\ place' = 1 /\ unread' = {} /\ page' = 1 /\ chosen' = None
      /\ source' = source /\ now' = now /\ runs' = runs /\ began' = began
      /\ window' = window /\ sound' = sound
      /\ commit' = commit /\ night' = night /\ pins' = pins
  BY DEF Fail, CleaningUp, nightly
<1>2. /\ store' \in [Places -> [Versions -> 0..LastTime]]
      /\ \A q \in Places, u \in Versions : Has(q, u)' => Has(q, u)
  <2>1. CASE store' = store
    BY <2>1 DEF IInv, TypeOK, Has
  <2>2. CASE store' = [store EXCEPT ![p][v] = Absent]
    <3>1. Absent \in 0..LastTime
      BY ConstantTypes DEF Absent
    <3> QED
      BY <2>2, <3>1 DEF IInv, TypeOK, Has
  <2> QED
    BY <2>1, <2>2
<1>3. TypeOK'
  <2>1. 1 \in DOMAIN RACKHD_REPOS /\ unread' \subseteq Versions
    BY <1>1, ConstantTypes
  <2> QED
    BY <1>1, <1>2, <2>1, NoneType DEF IInv, TypeOK
<1>4. StoreInv'
  BY <1>1, <1>2, ConstantTypes DEF IInv, StoreInv
<1>5. ~sound
  BY DEF IInv, SoundInv
<1> QED
  BY <1>1, <1>3, <1>4, <1>5
  DEF IInv, RunInv, NightInv, ChosenInv, ListedInv, GoneInv, SoundInv

\* A step of the lists leaves the platform alone.
LEMMA ListFrame ==
  ASSUME IInv, CleaningUp, CleaningUp' \/ step' = "done",
         step' \in {"list", "read", "delete", "done"},
         UNCHANGED <<source, store, now, runs, began, window, nightly, sound>>,
         place' \in DOMAIN RACKHD_REPOS, unread' \subseteq Versions,
         page' \in Nat \ {0}, chosen' \in [Versions -> Nat]
  PROVE  /\ TypeOK' /\ StoreInv' /\ NightInv' /\ SoundInv'
         /\ \A p, v : /\ Has(p, v)' = Has(p, v) /\ Within(p, v)' = Within(p, v)
                      /\ Overdue(p, v)' = Overdue(p, v) /\ Position(p, v)' = Position(p, v)
<1>1. /\ source' = source /\ store' = store /\ now' = now /\ runs' = runs /\ began' = began
      /\ window' = window /\ commit' = commit /\ night' = night /\ pins' = pins
      /\ sound' = sound
  BY DEF nightly
<1>2. ValidRange(window')
  BY <1>1 DEF IInv, TypeOK
<1>3. TypeOK'
  BY <1>1, <1>2 DEF IInv, TypeOK
<1>4. ~sound
  BY DEF IInv, SoundInv
<1> QED
  BY <1>1, <1>3, <1>4, SamePlatform DEF IInv, StoreInv, NightInv, SoundInv

\* Bintray gives the names: all of them are still to be read.
LEMMA ListNamesStep ==
  ASSUME IInv, ListNames,
         UNCHANGED <<source, store, now, runs, began, window, nightly, sound>>
  PROVE  IInv'
<1>1. /\ source = "bintray" /\ step = "list" /\ step' = "read"
      /\ unread' = {v \in Versions : Has(Here, v)}
      /\ place' = place /\ page' = page /\ chosen' = chosen
      /\ source' = source /\ store' = store /\ began' = began /\ window' = window
  BY DEF ListNames
<1>2. CleaningUp /\ CleaningUp' /\ Here' = Here
  BY <1>1 DEF CleaningUp, Here
<1>3. /\ TypeOK' /\ StoreInv' /\ NightInv' /\ SoundInv'
      /\ \A p, v : /\ Has(p, v)' = Has(p, v) /\ Within(p, v)' = Within(p, v)
                   /\ Overdue(p, v)' = Overdue(p, v)
  <2>1. /\ place' \in DOMAIN RACKHD_REPOS /\ unread' \subseteq Versions
        /\ page' \in Nat \ {0} /\ chosen' \in [Versions -> Nat]
    BY <1>1 DEF IInv, TypeOK
  <2> QED
    BY <1>1, <1>2, <2>1, ListFrame
<1>4. RunInv' /\ ChosenInv' /\ GoneInv'
  BY <1>1, <1>2, <1>3 DEF IInv, RunInv, ChosenInv, GoneInv
<1>5. ListedInv'
  <2>1. ASSUME NEW p \in Places, p = Here, NEW v \in NightlyVersions, Overdue(p, v)
        PROVE  v \in unread'
    BY <1>1, <2>1, NightlyVersion DEF Overdue
  <2> QED
    BY <1>1, <1>2, <1>3, <2>1 DEF ListedInv
<1> QED
  BY <1>3, <1>4, <1>5 DEF IInv

\* A version that is read is on the list, if it is within the range.
LEMMA ReadVersionStep ==
  ASSUME IInv, NEW w \in Versions, ReadVersion(w),
         UNCHANGED <<source, store, now, runs, began, window, nightly, sound>>
  PROVE  IInv'
<1>1. CASE Has(Here, w)
  <2>1. /\ step = "read" /\ w \in unread /\ unread' = unread \ {w}
        /\ chosen' = IF Within(Here, w) THEN [chosen EXCEPT ![w] = 1] ELSE chosen
        /\ step' = step /\ place' = place /\ page' = page
        /\ source' = source /\ store' = store /\ began' = began /\ window' = window
    BY <1>1 DEF ReadVersion
  <2>2. CleaningUp /\ CleaningUp' /\ Here' = Here
    BY <2>1 DEF CleaningUp, Here
  <2>3. ASSUME NEW v \in Versions
        PROVE  /\ v # w => chosen'[v] = chosen[v]
               /\ chosen'[w] = IF Within(Here, w) THEN 1 ELSE chosen[w]
    BY <2>1 DEF IInv, TypeOK
  <2>4. /\ TypeOK' /\ StoreInv' /\ NightInv' /\ SoundInv'
        /\ \A p, v : /\ Has(p, v)' = Has(p, v) /\ Within(p, v)' = Within(p, v)
                     /\ Overdue(p, v)' = Overdue(p, v)
    <3>1. chosen' \in [Versions -> Nat]
      BY <2>1 DEF IInv, TypeOK
    <3>2. /\ place' \in DOMAIN RACKHD_REPOS /\ unread' \subseteq Versions
          /\ page' \in Nat \ {0}
      BY <2>1 DEF IInv, TypeOK
    <3> QED
      BY <2>1, <2>2, <3>1, <3>2, ListFrame
  <2>5. RunInv' /\ GoneInv'
    BY <2>1, <2>2, <2>4 DEF IInv, RunInv, GoneInv
  <2>6. ChosenInv'
    <3>1. ASSUME NEW p \in Places, p = Here, NEW v \in Versions, chosen'[v] > 0, Has(p, v)
          PROVE  Within(p, v) \/ store[p][v] >= began
      BY <2>2, <2>3, <3>1 DEF IInv, ChosenInv
    <3> QED
      BY <2>1, <2>2, <2>4, <3>1 DEF ChosenInv
  <2>7. ListedInv'
    <3>1. ASSUME NEW p \in Places, p = Here, NEW v \in NightlyVersions, Overdue(p, v),
                 source # "atlas"
          PROVE  chosen'[v] > 0 \/ v \in unread'
      <4>1. v \in Versions /\ Within(p, v)
        BY <3>1, NightlyVersion DEF Overdue
      <4>2. chosen[v] > 0 \/ v \in unread
        BY <2>1, <2>2, <3>1 DEF IInv, ListedInv
      <4> QED
        BY <2>1, <2>3, <3>1, <4>1, <4>2
    <3> QED
      BY <2>1, <2>2, <2>4, <3>1 DEF ListedInv
  <2> QED
    BY <2>4, <2>5, <2>6, <2>7 DEF IInv
<1>2. CASE ~ Has(Here, w)
  <2>1. step = "read" /\ Fail
    BY <1>2 DEF ReadVersion
  <2>2. CleaningUp
    BY <2>1 DEF CleaningUp
  <2> QED
    BY <2>1, <2>2, FailStep, ConstantTypes
<1> QED
  BY <1>1, <1>2

\* A step of the lists to the deletion, or to the next page, keeps the invariant, if the
\* list is the better for it.
LEMMA ListStep ==
  ASSUME IInv, CleaningUp, NEW next \in {"list", "delete"}, step' = next,
         UNCHANGED <<source, store, now, runs, began, window, nightly, sound>>,
         place' = place, unread' \subseteq Versions,
         page' \in Nat \ {0}, chosen' \in [Versions -> Nat],
         \A p \in Places : p = Here =>
           \A v \in Versions : chosen'[v] > 0 => chosen[v] > 0 \/ Within(p, v),
         source # "atlas" =>
           \A p \in Places : p = Here =>
             \A v \in NightlyVersions : Overdue(p, v) =>
               \/ chosen'[v] > 0
               \/ next = "list" /\ Position(p, v) > (page' - 1) * PageSize
  PROVE  IInv'
<1>1. CleaningUp' /\ Here' = Here /\ source' = source /\ store' = store /\ began' = began
  BY DEF CleaningUp, Here
<1>2. /\ TypeOK' /\ StoreInv' /\ NightInv' /\ SoundInv'
      /\ \A p, v : /\ Has(p, v)' = Has(p, v) /\ Within(p, v)' = Within(p, v)
                   /\ Overdue(p, v)' = Overdue(p, v) /\ Position(p, v)' = Position(p, v)
  <2>1. place' \in DOMAIN RACKHD_REPOS
    BY DEF IInv, TypeOK
  <2> QED
    BY <1>1, <2>1, ListFrame
<1>3. RunInv' /\ GoneInv'
  BY <1>1, <1>2 DEF IInv, RunInv, GoneInv
<1>4. ChosenInv'
  BY <1>1, <1>2 DEF IInv, ChosenInv
<1>5. ListedInv'
  BY <1>1, <1>2 DEF ListedInv
<1> QED
  BY <1>2, <1>3, <1>4, <1>5 DEF IInv

LEMMA AllReadStep ==
  ASSUME IInv, AllRead,
         UNCHANGED <<source, store, now, runs, began, window, nightly, sound>>
  PROVE  IInv'
<1>1. /\ step = "read" /\ unread = {} /\ step' = "delete"
      /\ place' = place /\ unread' = unread /\ page' = page /\ chosen' = chosen
  BY DEF AllRead
<1>2. CleaningUp
  BY <1>1 DEF CleaningUp
<1>3. unread' \subseteq Versions /\ page' \in Nat \ {0} /\ chosen' \in [Versions -> Nat]
  BY <1>1 DEF IInv, TypeOK
<1>4. source # "atlas" =>
        \A p \in Places : p = Here =>
          \A v \in NightlyVersions : Overdue(p, v) => chosen[v] > 0
  BY <1>1, <1>2 DEF IInv, ListedInv
<1> QED
  BY <1>1, <1>2, <1>3, <1>4, ListStep

\* What is overdue and not on the list is on a page that has not been asked for: pushes
\* move it down the list, never up.
LEMMA ListPageStep ==
  ASSUME IInv, ListPage,
         UNCHANGED <<source, store, now, runs, began, window, nightly, sound>>
  PROVE  IInv'
<1>1. /\ source = "dockerhub" /\ step = "list" /\ place' = place /\ unread' = unread
      /\ chosen' = [v \in Versions |->
           IF v \in OnPage(Here) /\ Within(Here, v) THEN chosen[v] + 1 ELSE chosen[v]]
      /\ IF MorePages(Here) THEN page' = page + 1 /\ step' = step
         ELSE step' = "delete" /\ page' = page
  BY DEF ListPage
<1>2. PICK next \in {"list", "delete"} : step' = next
  BY <1>1
<1>3. CleaningUp
  BY <1>1 DEF CleaningUp
<1>4. /\ page \in Nat \ {0} /\ page' \in Nat \ {0} /\ (next = "list" => page' - 1 = page)
      /\ unread' \subseteq Versions /\ chosen' \in [Versions -> Nat]
  BY <1>1, <1>2 DEF IInv, TypeOK
<1>5. ASSUME NEW p \in Places, p = Here, NEW v \in Versions, chosen'[v] > 0
      PROVE  chosen[v] > 0 \/ Within(p, v)
  BY <1>1, <1>5
<1>6. ASSUME NEW p \in Places, p = Here, NEW v \in NightlyVersions, Overdue(p, v)
      PROVE  \/ chosen'[v] > 0
             \/ next = "list" /\ Position(p, v) > (page' - 1) * PageSize
  <2>1. v \in Versions /\ Has(p, v) /\ Within(p, v) /\ chosen[v] \in Nat
    BY <1>6, NightlyVersion DEF IInv, TypeOK, Overdue
  <2>2. CASE chosen[v] > 0
    BY <1>1, <2>1, <2>2
  <2>3. CASE v \in OnPage(p)
    BY <1>1, <1>6, <2>1, <2>3
  <2>4. CASE chosen[v] = 0 /\ v \notin OnPage(p)
    <3> DEFINE first == (page - 1) * PageSize
               last == page * PageSize
    <3>1. first \in Nat /\ last \in Nat
      BY <1>4, ConstantTypes
    <3>2. Position(p, v) \in Nat
      BY PositionType
    <3>3. Position(p, v) > first
      BY <1>1, <1>3, <1>6, <2>4 DEF IInv, ListedInv
    <3>4. Position(p, v) \notin (first + 1)..last
      BY <2>1, <2>4 DEF OnPage
    <3> HIDE DEF first
    <3>5. Position(p, v) > last
      BY <3>1, <3>2, <3>3, <3>4
    <3>6. MorePages(p)
      BY <2>1, <3>5 DEF MorePages
    <3>7. next = "list"
      BY <1>1, <1>2, <1>6, <3>6
    <3> QED
      BY <1>4, <3>5, <3>7
  <2> QED
    BY <2>1, <2>2, <2>3, <2>4
<1> QED
  BY <1>1, <1>2, <1>3, <1>4, <1>5, <1>6, ListStep

LEMMA ListBoxesStep ==
  ASSUME IInv, ListBoxes,
         UNCHANGED <<source, store, now, runs, began, window, nightly, sound>>
  PROVE  IInv'
<1>1. /\ source = "atlas" /\ step = "list" /\ step' = "delete"
      /\ chosen' = [v \in Versions |-> IF Has(Here, v) /\ Within(Here, v) THEN 1 ELSE 0]
      /\ place' = place /\ unread' = unread /\ page' = page
  BY DEF ListBoxes
<1>2. CleaningUp
  BY <1>1 DEF CleaningUp
<1>3. unread' \subseteq Versions /\ page' \in Nat \ {0} /\ chosen' \in [Versions -> Nat]
  BY <1>1 DEF IInv, TypeOK
<1>4. ASSUME NEW p \in Places, p = Here, NEW v \in Versions, chosen'[v] > 0
      PROVE  Within(p, v)
  BY <1>1, <1>4
<1> QED
  BY <1>1, <1>2, <1>3, <1>4, ListStep

\* The list is empty of nightly builds: nothing that was overdue is left of the package.
LEMMA PackageDoneStep ==
  ASSUME IInv, PackageDone,
         UNCHANGED <<source, store, now, runs, began, window, nightly, sound>>
  PROVE  IInv'
<1>1. /\ step = "delete" /\ ToDelete = {} /\ chosen' = None /\ unread' = unread
      /\ step' = IF LastPackage THEN "done" ELSE "list"
      /\ place' = IF LastPackage THEN 1 ELSE place + 1
      /\ page' = 1
      /\ source' = source
  BY DEF PackageDone, NextPackage
<1>2. CleaningUp /\ (CleaningUp' <=> step' = "list") /\ step' \in {"list", "done"}
  BY <1>1 DEF CleaningUp
<1>3. place' \in DOMAIN RACKHD_REPOS
  <2>1. CASE LastPackage
    BY <1>1, <2>1, ConstantTypes
  <2>2. CASE ~ LastPackage
    BY <1>1, <2>2, ConstantTypes DEF LastPackage, IInv, TypeOK
  <2> QED
    BY <2>1, <2>2
<1>4. /\ TypeOK' /\ StoreInv' /\ NightInv' /\ SoundInv'
      /\ \A p, v : Overdue(p, v)' = Overdue(p, v)
  <2>1. unread' \subseteq Versions /\ page' \in Nat \ {0} /\ chosen' \in [Versions -> Nat]
    BY <1>1, NoneType DEF IInv, TypeOK
  <2> QED
    BY <1>2, <1>3, <2>1, ListFrame
<1>5. RunInv' /\ ChosenInv'
  BY <1>1, NoneType DEF RunInv, ChosenInv
<1>6. ListedInv'
  <2>1. ASSUME NEW p, NEW v PROVE Position(p, v)' > (page' - 1) * PageSize
    <3>1. (page' - 1) * PageSize = 0
      BY <1>1, ConstantTypes
    <3> QED
      BY <3>1, PositionType
  <2> QED
    BY <1>2, <2>1 DEF ListedInv
<1>7. ASSUME source # "atlas", NEW v \in NightlyVersions
      PROVE  ~ Overdue(RACKHD_REPOS[place], v)
  <2>1. PICK p \in Packages : p = RACKHD_REPOS[place] /\ p = Here
    BY <1>7, HereType DEF IInv
  <2>2. ~ (chosen[v] > 0)
    <3>1. v \in Versions /\ IsNightlyBuild(v)
      BY <1>7, NightlyVersion DEF IsNightlyBuild
    <3> QED
      BY <1>1, <3>1 DEF ToDelete
  <2>3. p \in Places
    BY ConstantTypes
  <2> QED
    BY <1>1, <1>2, <1>7, <2>1, <2>2, <2>3 DEF IInv, ListedInv
<1>8. ASSUME source # "atlas", NEW i \in 1..place, NEW v \in NightlyVersions
      PROVE  ~ Overdue(RACKHD_REPOS[i], v)
  <2>1. i = place \/ i \in 1..(place - 1)
    BY ConstantTypes DEF IInv, TypeOK
  <2> QED
    BY <1>2, <1>7, <1>8, <2>1 DEF IInv, GoneInv
<1>9. GoneInv'
  <2>1. CASE ~ LastPackage
    <3>1. step' = "list" /\ place' - 1 = place
      BY <1>1, <2>1, ConstantTypes DEF IInv, TypeOK
    <3> QED
      BY <1>1, <1>4, <1>8, <3>1 DEF GoneInv
  <2>2. CASE LastPackage
    <3>1. step' = "done" /\ ~ CleaningUp'
      BY <1>1, <1>2, <2>2
    <3>2. ASSUME NEW p \in Packages, NEW v \in NightlyVersions PROVE ~ Overdue(p, v)
      <4>1. CASE source = "atlas"
        BY <4>1, NightlyVersion DEF IInv, StoreInv, Overdue
      <4>2. CASE source # "atlas"
        <5>1. place = Len(RACKHD_REPOS)
          BY <2>2, <4>2 DEF LastPackage
        <5>2. PICK i \in 1..place : p = RACKHD_REPOS[i]
          BY <5>1, ConstantTypes DEF Packages
        <5> QED
          BY <1>8, <4>2, <5>2
      <4> QED
        BY <4>1, <4>2
    <3> QED
      BY <1>4, <3>1, <3>2 DEF GoneInv
  <2> QED
    BY <2>1, <2>2
<1> QED
  BY <1>4, <1>5, <1>6, <1>9 DEF IInv

\* A version is deleted, and goes off the list.
LEMMA DeleteStep ==
  ASSUME IInv, NEW w \in Versions, Delete(w)
  PROVE  IInv'
<1>1. /\ step = "delete" /\ w \in ToDelete /\ store' = [store EXCEPT ![Here][w] = Absent]
      /\ UNCHANGED <<source, now, runs, began, window, nightly, sound>>
  BY DEF Delete
<1>2. CleaningUp
  BY <1>1 DEF CleaningUp
<1>3. PICK h \in Places : h = Here
  BY HereType DEF IInv
<1>4. CASE Fail
  BY <1>1, <1>2, <1>3, <1>4, FailStep
<1>5. ASSUME ~ Fail PROVE IInv'
  <2>1. /\ chosen' = [chosen EXCEPT ![w] = @ - 1]
        /\ step' = step /\ place' = place /\ unread' = unread /\ page' = page
    BY <1>5 DEF Delete
  <2>2. /\ source' = source /\ now' = now /\ runs' = runs /\ began' = began
        /\ window' = window /\ sound' = sound
        /\ commit' = commit /\ night' = night /\ pins' = pins
        /\ CleaningUp' /\ Here' = Here
    BY <1>1, <1>2, <2>1 DEF nightly, CleaningUp, Here
  <2>3. ASSUME NEW p \in Places, NEW v \in Versions
        PROVE  store'[p][v] = IF p = h /\ v = w THEN Absent ELSE store[p][v]
    BY <1>1, <1>3 DEF IInv, TypeOK
  <2>4. ASSUME NEW v \in Versions
        PROVE  chosen'[v] = IF v = w THEN chosen[w] - 1 ELSE chosen[v]
    BY <2>1 DEF IInv, TypeOK
  <2>5. chosen[w] \in Nat /\ chosen[w] > 0 /\ chosen' \in [Versions -> Nat]
    BY <1>1, <2>1 DEF IInv, TypeOK, ToDelete
  <2>6. store' \in [Places -> [Versions -> 0..LastTime]]
    <3>1. Absent \in 0..LastTime
      BY ConstantTypes DEF Absent
    <3> QED
      BY <1>1, <1>3, <3>1 DEF IInv, TypeOK
  <2>7. TypeOK'
    BY <1>2, <2>1, <2>2, <2>5, <2>6 DEF IInv, TypeOK
  <2>8. ~ sound
    BY <1>2 DEF IInv, SoundInv
  <2>9. RunInv' /\ StoreInv' /\ NightInv' /\ SoundInv'
    BY <2>1, <2>2, <2>3, <2>8, ConstantTypes
    DEF IInv, RunInv, StoreInv, NightInv, SoundInv, Has
  <2>10. ChosenInv'
    <3>1. ASSUME NEW p \in Places, p = Here, NEW v \in Versions, chosen'[v] > 0,
                 store'[p][v] # Absent
          PROVE  Within(p, v) \/ store[p][v] >= began
      BY <1>2, <2>3, <2>4, <1>3, <3>1 DEF IInv, ChosenInv, Has
    <3> QED
      BY <1>3, <2>2, <2>3, <3>1 DEF ChosenInv, Has, Within
  <2>11. ASSUME NEW p \in Places, NEW v \in Versions, Overdue(p, v)'
         PROVE  Overdue(p, v) /\ ~ (p = h /\ v = w)
    BY <1>1, <1>3, <2>2, <2>11, NothingMoreOverdue DEF IInv
  <2>12. ListedInv'
    <3>1. ASSUME NEW p \in Places, p = Here, source # "atlas", NEW v \in NightlyVersions,
                 Overdue(p, v)'
          PROVE  chosen'[v] > 0
      <4>1. v \in Versions
        BY NightlyVersion
      <4>2. Overdue(p, v) /\ v # w
        BY <1>3, <2>11, <3>1, <4>1
      <4>3. chosen[v] > 0
        BY <1>1, <1>2, <3>1, <4>2 DEF IInv, ListedInv
      <4> QED
        BY <2>4, <4>1, <4>2, <4>3
    <3> QED
      BY <2>2, <3>1 DEF ListedInv
  <2>13. GoneInv'
    <3>1. \A i \in 1..(place - 1) : RACKHD_REPOS[i] \in Places
      BY ConstantTypes DEF IInv, TypeOK
    <3>2. step' # "done"
      BY <1>1, <2>1
    <3> QED
      BY <1>2, <2>1, <2>2, <2>11, <3>1, <3>2, NightlyVersion DEF IInv, GoneInv
  <2> QED
    BY <2>7, <2>9, <2>10, <2>12, <2>13 DEF IInv
<1> QED
  BY <1>4, <1>5

\* Every step keeps the invariant.
LEMMA Preserved == IInv /\ [Next]_vars => IInv'
<1> SUFFICES ASSUME IInv, [Next]_vars PROVE IInv'
  OBVIOUS
<1>1. CASE Start
  BY <1>1, StartStep
<1>2. CASE List
  <2>1. UNCHANGED <<source, store, now, runs, began, window, nightly, sound>>
    BY <1>2 DEF List
  <2>2. CASE ListNames
    BY <2>1, <2>2, ListNamesStep
  <2>3. ASSUME NEW v \in Versions, ReadVersion(v) PROVE IInv'
    BY <2>1, <2>3, ReadVersionStep
  <2>4. CASE AllRead
    BY <2>1, <2>4, AllReadStep
  <2>5. CASE ListPage
    BY <2>1, <2>5, ListPageStep
  <2>6. CASE ListBoxes
    BY <2>1, <2>6, ListBoxesStep
  <2>7. CASE PackageDone
    BY <2>1, <2>7, PackageDoneStep
  <2> QED
    BY <1>2, <2>2, <2>3, <2>4, <2>5, <2>6, <2>7 DEF List
<1>3. ASSUME NEW v \in Versions, Delete(v) PROVE IInv'
  BY <1>3, DeleteStep
<1>4. CASE RequestFails
  <2>1. /\ CleaningUp /\ Fail /\ store' = store
        /\ UNCHANGED <<source, now, runs, began, window, nightly, sound>>
    BY <1>4 DEF RequestFails
  <2>2. PICK v \in Versions : v = <<Base>>
    BY DEF Versions, PackageVersions, PackageReleases
  <2> QED
    BY <2>1, <2>2, FailStep, ConstantTypes
<1>5. CASE BuildPackages
  BY <1>5, BuildPackagesStep
<1>6. CASE NightFails
  BY <1>6, NightFailsStep
<1>7. CASE UploadBox
  BY <1>7, UploadBoxStep
<1>8. ASSUME NEW p \in Packages, PublishPackage(p) PROVE IInv'
  BY <1>8, PublishPackageStep
<1>9. ASSUME NEW p \in Components, PushImage(p) PROVE IInv'
  BY <1>9, PushImageStep
<1>10. CASE Tick
  BY <1>10, TickStep
<1>11. ASSUME NEW p \in Components, Commit(p) PROVE IInv'
  BY <1>11, CommitStep
<1>12. CASE UNCHANGED vars
  <2>1. UNCHANGED <<source, store, run>>
    BY <1>12 DEF vars
  <2>2. TypeOK' /\ NightInv' /\ SoundInv'
    BY <1>12 DEF vars, run, nightly, CleaningUp, IInv, TypeOK, NightInv, SoundInv, Has
  <2> QED
    BY <2>1, <2>2, OtherStep DEF IInv
<1> QED
  BY <1>1, <1>2, <1>3, <1>4, <1>5, <1>6, <1>7, <1>8, <1>9, <1>10, <1>11, <1>12
  DEF Next, CleanUp, Publish

\* A version goes only when it is deleted.
LEMMA OnlyDeleted ==
  ASSUME IInv, [Next]_vars, NEW p \in Packages, NEW v \in Versions, Has(p, v), ~ Has(p, v)'
  PROVE  CleaningUp /\ p = Here /\ v \in ToDelete
<1> USE DEF IInv
<1>1. p \in Places /\ now # Absent
  BY ConstantTypes DEF TypeOK, Absent
<1>2. ASSUME NEW q, NEW w, store' = [store EXCEPT ![q][w] = now] PROVE FALSE
  BY <1>1, <1>2 DEF TypeOK, Has
<1>3. store' # store
  BY DEF Has
<1>4. ASSUME NEW w \in Versions, Delete(w) PROVE CleaningUp /\ p = Here /\ v \in ToDelete
  <2>1. /\ step = "delete" /\ w \in ToDelete /\ store' = [store EXCEPT ![Here][w] = Absent]
    BY <1>4 DEF Delete
  <2>2. p = Here /\ v = w
    BY <1>1, <2>1 DEF TypeOK, Has
  <2> QED
    BY <2>1, <2>2 DEF CleaningUp
<1>5. ~ Start /\ ~ List /\ ~ RequestFails /\ ~ BuildPackages /\ ~ NightFails /\ ~ Tick
      /\ ~ (\E q \in Components : Commit(q)) /\ ~ (UNCHANGED vars)
  BY <1>3 DEF Start, List, RequestFails, BuildPackages, NightFails, Tick, Commit, vars
<1>6. ~ UploadBox
  <2>1. ASSUME UploadBox PROVE FALSE
    <3>1. store' = [store EXCEPT ![Box][NightlyBox(now)] = now]
      BY <2>1 DEF UploadBox
    <3> QED
      BY <1>1, <3>1 DEF TypeOK, Has
  <2> QED
    BY <2>1
<1>7. ASSUME NEW q \in Packages, PublishPackage(q) PROVE FALSE
  <2>1. store' = [store EXCEPT ![q][night.version[q]] = now]
    BY <1>7 DEF PublishPackage
  <2> QED
    BY <1>1, <2>1 DEF TypeOK, Has
<1>8. ASSUME NEW q \in Components, PushImage(q) PROVE FALSE
  <2>1. store' = [store EXCEPT ![q][Current[q]] = now]
    BY <1>8 DEF PushImage
  <2> QED
    BY <1>1, <2>1 DEF TypeOK, Has
<1> QED
  BY <1>4, <1>5, <1>6, <1>7, <1>8 DEF Next, CleanUp, Publish

\* What goes is overdue, or has come again since the run began.
LEMMA OverdueGoes ==
  ASSUME IInv, [Next]_vars, NEW p \in Packages, NEW v \in Versions, Has(p, v), ~ Has(p, v)'
  PROVE  /\ v \notin Releases /\ v[2] \in Dates
         /\ \/ window[1] < store[p][v] /\ store[p][v] < window[2]
            \/ store[p][v] >= began
<1>1. CleaningUp /\ p = Here /\ v \in ToDelete /\ p \in Places
  BY OnlyDeleted, ConstantTypes
<1>2. chosen[v] > 0 /\ IsNightlyBuild(v)
  BY <1>1 DEF ToDelete
<1>3. v \in NightlyVersions
  <2>1. v \in PackageVersions /\ source # "atlas"
    BY DEF IInv, StoreInv
  <2>2. Len(v) > 1 /\ v[2] # Text
    BY <1>2, <2>1 DEF IsNightlyBuild
  <2> QED
    BY <2>1, <2>2, NightlyVersion
<1>4. Within(p, v) \/ store[p][v] >= began
  BY <1>1, <1>2 DEF IInv, ChosenInv
<1> QED
  BY <1>3, <1>4, NightlyVersion DEF Within

\* The parts of the invariant say what the runs check.
LEMMA InvariantIsEnough ==
  ASSUME IInv
  PROVE  TypeOK /\ OverdueAllGone /\ NewestInstallable
<1>1. OverdueAllGone
  <2>1. ASSUME step = "done", NEW p \in Packages, NEW d \in Dates,
               store[p][Nightly(d)] # Absent, window[1] < store[p][Nightly(d)],
               store[p][Nightly(d)] < window[2]
        PROVE  store[p][Nightly(d)] >= began
    <3>1. Nightly(d) \in NightlyVersions /\ Nightly(d) \in Versions
      BY NightlyVersion DEF NightlyVersions
    <3>2. ~ Overdue(p, Nightly(d))
      BY <2>1, <3>1 DEF IInv, GoneInv
    <3>3. store[p][Nightly(d)] \in Int /\ began \in Int
      BY <3>1, ConstantTypes DEF IInv, TypeOK
    <3> QED
      BY <2>1, <3>2, <3>3 DEF Overdue, Has, Within
  <2> QED
    BY <2>1 DEF OverdueAllGone
<1>2. NewestInstallable
  BY DEF IInv, SoundInv, NewestInstallable
<1> QED
  BY <1>1, <1>2 DEF IInv

-----------------------------------------------------------------------------

\* The inductive invariant holds in every state of nightly_build_clean_up.py and of what
\* publishes meanwhile.
THEOREM CleanUpInvariant == Spec => []IInv
<1>1. Init => IInv
  BY Initially
<1>2. IInv /\ [Next]_vars => IInv'
  BY Preserved
<1> QED
  BY <1>1, <1>2, PTL DEF Spec

\* Everything has its type; a run under way has a package to work on and a range.
THEOREM TypeCorrect == Spec => []TypeOK
<1>1. IInv => TypeOK
  BY InvariantIsEnough
<1> QED
  BY <1>1, CleanUpInvariant, PTL

\* del_package_version and del_package_tag delete only packages and images of nightly
\* builds that were uploaded within the range or since the run began: no release, and
\* nothing that is older or newer than the range.
THEOREM OnlyTheOverdueGo == Spec => OnlyOverdueDeleted
<1>1. ASSUME IInv, [Next]_vars
      PROVE  \A p \in Packages : \A v \in Versions : Has(p, v) /\ ~Has(p, v)' =>
               /\ v \notin Releases /\ v[2] \in Dates
               /\ \/ window[1] < store[p][v] /\ store[p][v] < window[2]
                  \/ store[p][v] >= began
  BY <1>1, OverdueGoes
<1> QED
  BY <1>1, CleanUpInvariant, PTL DEF Spec, OnlyOverdueDeleted

\* A run of nightly_build_clean_up.py that ends without an error has left no package and
\* no image that was overdue when it began, although docker hub's pages shift while they
\* are read.
THEOREM TheOverdueAreGone == Spec => []OverdueAllGone
<1>1. IInv => OverdueAllGone
  BY InvariantIsEnough
<1> QED
  BY <1>1, CleanUpInvariant, PTL

\* The newest RackHD depends on what is there, as long as no clean-up has run since its
\* nightly build looked.
THEOREM TheNewestInstalls == Spec => []NewestInstallable
<1>1. IInv => NewestInstallable
  BY InvariantIsEnough
<1> QED
  BY <1>1, CleanUpInvariant, PTL

=============================================================================
