--------------------------- MODULE NightlyCleanUp ----------------------------
(***************************************************************************)
(* application/nightly_build_clean_up.py, with the classes of              *)
(* lib/PlatformClients.py that it uses, against the nightly builds that    *)
(* publish meanwhile.                                                      *)
(*                                                                         *)
(* A run of the clean-up works on one platform.  For each package it lists *)
(* the versions that were uploaded within a given range of time, and then  *)
(* deletes one by one those whose names are names of nightly builds.  How  *)
(* the platforms are listed differs: Bintray gives names, and for each     *)
(* name a second answer gives the time; docker hub gives tags in pages;    *)
(* Atlas gives everything at once.                                         *)
(*                                                                         *)
(* A version is the sequence of the numbers in its name: what stands       *)
(* between dashes for packages and images, between dots for Atlas boxes.   *)
(* Packages and images of a nightly build are <<base, date>> (the hash of  *)
(* the commit left out), those of a release <<base>>.  Dates and times of  *)
(* upload are readings of one clock.                                       *)
(***************************************************************************)
EXTENDS Integers, Sequences, FiniteSets

CONSTANTS
  RACKHD_REPOS,  \* the packages, in the order in which they are cleaned
  RackHD,        \* the package that depends on the others
  Box,           \* the one box in Atlas
  Windows,       \* the values of --date-range: <<>> or <<begin, end>>
  PageSize,      \* of docker hub's lists
  MaxRuns,       \* bound: how often somebody starts the clean-up
  LastTime       \* bound: the clock stops here

Packages == {RACKHD_REPOS[i] : i \in DOMAIN RACKHD_REPOS}
Places == Packages \union {Box}
Components == Packages \ {RackHD}

ASSUME CleanUpAssumption ==
  /\ RACKHD_REPOS \in Seq(Packages) /\ RackHD \in Packages /\ Box \notin Packages
  /\ \A w \in Windows : w = <<>> \/ w \in Nat \X Nat
  /\ PageSize \in Nat \ {0} /\ MaxRuns \in Nat /\ LastTime \in Nat \ {0, 1}

Base == 1
Text == -1  \* a segment that is no number
Absent == 0

Nightly(date) == <<Base, date>>
NightlyBox(date) == <<0, 1, date>>  \* 0.month.day

PackageReleases == {<<Base>>}
BoxReleases == {<<0, 16>>, <<2, 0, 0>>, <<2, 1, 0>>}
Releases == PackageReleases \union BoxReleases

Dates == 0..LastTime
PackageVersions ==
  PackageReleases \union {<<Base, Text>>} \union {Nightly(d) : d \in Dates}
BoxVersions == BoxReleases \union {NightlyBox(d) : d \in Dates}
Versions == PackageVersions \union BoxVersions

VARIABLES
  source,    \* --source-type
  store,     \* for each package and version: when it was uploaded, or Absent
  now,       \* the clock
  step,      \* what the clean-up does next
  runs,      \* how often it has been started
  began,     \* when
  window,    \* date_range
  place,     \* the package it works on, by number
  unread,    \* Bintray: the versions that have not been asked about
  page,      \* docker hub: the page that is asked for next
  chosen,    \* how often each version is on the list of those within the range
  commit,    \* for each component: the date of its commit, which is in its version
  night,     \* the nightly build: what it still has to publish
  pins,      \* the versions that the newest RackHD in Bintray depends on
  sound      \* the newest nightly build has published everything, and no clean-up has
             \* been under way since it asked what was there

run == <<step, runs, began, window, place, unread, page, chosen>>
nightly == <<commit, night, pins>>
vars == <<source, store, now, run, nightly, sound>>

\* A nightly build: the packages it still has to publish, and the version of each.
NoNight == [upload |-> {}, version |-> [p \in Packages |-> Base]]

None == [v \in Versions |-> 0]

\* What has been uploaded before, and what may have been: the images have no rackhd.
AtFirst(s) ==
  IF s = "atlas" THEN {Box} \X BoxReleases
  ELSE (IF s = "bintray" THEN Packages ELSE Components) \X {<<Base>>, <<Base, Text>>}

MaybeAtFirst(s) ==
  IF s = "atlas" THEN {<<Box, NightlyBox(1)>>}
  ELSE (IF s = "bintray" THEN Packages ELSE Components) \X {Nightly(0), Nightly(1)}

Init ==
  /\ source \in {"bintray", "dockerhub", "atlas"}
  /\ now = 2
  /\ \E maybe \in SUBSET MaybeAtFirst(source) :
       store = [p \in Places |-> [v \in Versions |->
                  IF <<p, v>> \in AtFirst(source) \union maybe THEN 1 ELSE Absent]]
  /\ step = "idle" /\ runs = 0 /\ began = 0
  /\ window = <<>> /\ place = 1 /\ unread = {} /\ page = 1 /\ chosen = None
  /\ commit = [p \in Components |-> 1]
  /\ night = NoNight
  /\ pins = [p \in Components |-> Nightly(1)]
  /\ sound = FALSE

-----------------------------------------------------------------------------
(* Nightly builds                                                          *)

\* Somebody commits to a component: its next version has a new date.
Commit(p) ==
  /\ source # "atlas"
  /\ commit[p] < now
  /\ commit' = [commit EXCEPT ![p] = now]
  /\ UNCHANGED <<source, store, now, run, night, pins, sound>>

Tick ==
  /\ now < LastTime
  /\ now' = now + 1
  /\ UNCHANGED <<source, store, run, nightly, sound>>

Has(p, v) == store[p][v] # Absent

CleaningUp == step \in {"list", "read", "delete"}

\* The version a package has today: the commit's date, for RackHD the day's.
Current == [p \in Packages |-> Nightly(IF p = RackHD THEN now ELSE commit[p])]

\* The filter of make_debian_packages.py: what Bintray does not have.
Missing == {p \in Packages : ~Has(p, Current[p])}

\* A package about which Bintray does not answer is built as well.  Without RackHD on
\* the list the build fails.
BuildPackages ==
  /\ source = "bintray"
  /\ night = NoNight
  /\ \E unanswered \in SUBSET Packages :
       /\ RackHD \in Missing \union unanswered
       /\ night' = [upload |-> Missing \union unanswered, version |-> Current]
  /\ sound' = ~CleaningUp
  /\ UNCHANGED <<source, store, now, run, commit, pins>>

\* release_debian_packages.py, one package at a time, hours later.
PublishPackage(p) ==
  /\ p \in night.upload
  /\ store' = [store EXCEPT ![p][night.version[p]] = now]
  /\ night' = IF night.upload = {p} THEN NoNight ELSE [night EXCEPT !.upload = @ \ {p}]
  /\ pins' = IF p = RackHD THEN [q \in Components |-> night.version[q]] ELSE pins
  /\ UNCHANGED <<source, now, run, commit, sound>>

\* The tests fail, or the upload does.
NightFails ==
  /\ night # NoNight
  /\ night' = NoNight
  /\ sound' = FALSE
  /\ UNCHANGED <<source, store, now, run, commit, pins>>

\* release_docker.sh pushes what was built, whether docker hub has it or not.
PushImage(p) ==
  /\ source = "dockerhub"
  /\ store' = [store EXCEPT ![p][Current[p]] = now]
  /\ UNCHANGED <<source, now, run, nightly, sound>>

\* release_to_atlas.py
UploadBox ==
  /\ source = "atlas"
  /\ store' = [store EXCEPT ![Box][NightlyBox(now)] = now]
  /\ UNCHANGED <<source, now, run, nightly, sound>>

-----------------------------------------------------------------------------
(* Seeded faults                                                           *)

\* The date in the name is compared instead of the time of the upload.
WithinByName(p, v) == v[Len(v)] > window[1] /\ v[Len(v)] < window[2]

\* The first page is taken for the whole list.
MorePagesNever(p) == FALSE

\* The loop does not see its end.
LastPackageLate == place > Len(RACKHD_REPOS)

-----------------------------------------------------------------------------
(* The clean-up                                                            *)

\* Without a range, get_date_range uses a variable that has no value; a range that ends
\* before it begins is refused by the first list.
ValidRange(w) == w # <<>> /\ w[1] <= w[2]

Start ==
  /\ ~CleaningUp
  /\ runs < MaxRuns
  /\ runs' = runs + 1
  /\ began' = now
  /\ \E w \in Windows :
       window' = w /\ step' = IF ValidRange(w) THEN "list" ELSE "failed"
  /\ place' = 1 /\ unread' = {} /\ page' = 1 /\ chosen' = None
  /\ sound' = FALSE
  /\ UNCHANGED <<source, store, now, nightly>>

Here == IF source = "atlas" THEN Box ELSE RACKHD_REPOS[place]

Within(p, v) == window[1] < store[p][v] /\ store[p][v] < window[2]

\* sys.exit(1), and what the run knew is gone.
Fail ==
  /\ step' = "failed"
  /\ place' = 1 /\ unread' = {} /\ page' = 1 /\ chosen' = None

\* get_package_versions
ListNames ==
  /\ source = "bintray"
  /\ step = "list"
  /\ unread' = {v \in Versions : Has(Here, v)}
  /\ step' = "read"
  /\ UNCHANGED <<place, page, chosen>>

\* get_package_version_object, for one of the names; a version that is gone by now ends
\* the run.
ReadVersion(v) ==
  /\ step = "read"
  /\ v \in unread
  /\ IF Has(Here, v)
     THEN /\ unread' = unread \ {v}
          /\ chosen' = IF Within(Here, v) THEN [chosen EXCEPT ![v] = 1] ELSE chosen
          /\ UNCHANGED <<step, place, page>>
     ELSE Fail

AllRead ==
  /\ step = "read"
  /\ unread = {}
  /\ step' = "delete"
  /\ UNCHANGED <<place, unread, page, chosen>>

\* Docker hub lists what was pushed last first.
Before(p, u, v) ==
  \/ store[p][u] > store[p][v]
  \/ /\ store[p][u] = store[p][v]
     /\ \/ Len(u) < Len(v)
        \/ Len(u) = Len(v) /\ u[Len(u)] < v[Len(v)]

Position(p, v) == 1 + Cardinality({u \in Versions : Has(p, u) /\ Before(p, u, v)})

OnPage(p) ==
  {v \in Versions :
     Has(p, v) /\ Position(p, v) \in ((page - 1) * PageSize + 1)..(page * PageSize)}

MorePages(p) == \E v \in Versions : Has(p, v) /\ Position(p, v) > page * PageSize

\* __get_package_tags_objects, one page.  What is pushed between two pages moves the
\* others down the list, and some appear on both pages.
ListPage ==
  /\ source = "dockerhub"
  /\ step = "list"
  /\ chosen' = [v \in Versions |->
       IF v \in OnPage(Here) /\ Within(Here, v) THEN chosen[v] + 1 ELSE chosen[v]]
  /\ IF MorePages(Here) THEN page' = page + 1 /\ UNCHANGED step
     ELSE step' = "delete" /\ UNCHANGED page
  /\ UNCHANGED <<place, unread>>

\* get_box_versions_between_upload_time_range
ListBoxes ==
  /\ source = "atlas"
  /\ step = "list"
  /\ chosen' = [v \in Versions |-> IF Has(Here, v) /\ Within(Here, v) THEN 1 ELSE 0]
  /\ step' = "delete"
  /\ UNCHANGED <<place, unread, page>>

\* is_nightly_build for packages and images, the loop's own tests for boxes.
IsNightlyBuild(v) ==
  IF source = "atlas" THEN Len(v) >= 3 /\ v[2] = 0
  ELSE Len(v) > 1 /\ v[2] # Text

ToDelete == {v \in Versions : chosen[v] > 0 /\ IsNightlyBuild(v)}

\* The next package, if there is one.
LastPackage == source = "atlas" \/ place = Len(RACKHD_REPOS)

NextPackage ==
  /\ step' = IF LastPackage THEN "done" ELSE "list"
  /\ place' = IF LastPackage THEN 1 ELSE place + 1
  /\ page' = 1

PackageDone ==
  /\ step = "delete"
  /\ ToDelete = {}
  /\ NextPackage
  /\ chosen' = None
  /\ UNCHANGED unread

List ==
  /\ \/ ListNames
     \/ \E v \in Versions : ReadVersion(v)
     \/ AllRead
     \/ ListPage
     \/ ListBoxes
     \/ PackageDone
  /\ UNCHANGED <<source, store, now, runs, began, window, nightly, sound>>

\* del_package_version, del_package_tag, del_box_version: deleting what is not there
\* ends the run, and so does an answer that is lost.
Delete(v) ==
  /\ step = "delete"
  /\ v \in ToDelete
  /\ store' = [store EXCEPT ![Here][v] = Absent]
  /\ \/ /\ Has(Here, v)
        /\ chosen' = [chosen EXCEPT ![v] = @ - 1]
        /\ UNCHANGED <<step, place, unread, page>>
     \/ Fail
  /\ UNCHANGED <<source, now, runs, began, window, nightly, sound>>

RequestFails ==
  /\ CleaningUp
  /\ Fail
  /\ UNCHANGED <<source, store, now, runs, began, window, nightly, sound>>

CleanUp == List \/ (\E v \in Versions : Delete(v)) \/ RequestFails

Publish ==
  \/ BuildPackages \/ NightFails \/ UploadBox
  \/ \E p \in Packages : PublishPackage(p)
  \/ \E p \in Components : PushImage(p)

Next ==
  \/ Start \/ CleanUp \/ Publish \/ Tick
  \/ \E p \in Components : Commit(p)

Spec == Init /\ [][Next]_vars

-----------------------------------------------------------------------------
(* Properties                                                              *)

\* Everything has its type; while a run is under way there is a package it works on.
TypeOK ==
  /\ source \in {"bintray", "dockerhub", "atlas"}
  /\ store \in [Places -> [Versions -> 0..LastTime]] /\ now \in 1..LastTime
  /\ step \in {"idle", "list", "read", "delete", "done", "failed"}
  /\ runs \in 0..MaxRuns /\ began \in 0..now
  /\ window \in Windows \union {<<>>} /\ (CleaningUp => ValidRange(window))
  /\ place \in DOMAIN RACKHD_REPOS
  /\ unread \subseteq Versions /\ page \in Nat \ {0} /\ chosen \in [Versions -> Nat]
  /\ commit \in [Components -> 0..now]
  /\ night.upload \subseteq Packages /\ DOMAIN night.version = Packages
  /\ pins \in [Components -> Versions]
  /\ sound \in BOOLEAN

\* A package or image that is deleted is one of a nightly build, and was uploaded within
\* the range, unless it has been uploaded once more since the run began: neither a
\* release nor a build outside the range is lost, whatever is published while the run
\* lists and deletes.  (For boxes see ReleaseNeverDeleted.)
OnlyOverdueDeleted ==
  [][\A p \in Packages : \A v \in Versions : Has(p, v) /\ ~Has(p, v)' =>
       /\ v \notin Releases /\ v[2] \in Dates
       /\ \/ window[1] < store[p][v] /\ store[p][v] < window[2]
          \/ store[p][v] >= began]_vars

\* A run that ends without an error has left no package and no image of a nightly build
\* that was uploaded within the range before it began: what is pushed while docker hub
\* is read page by page makes the run miss none of them.
OverdueAllGone ==
  step = "done" =>
    \A p \in Packages : \A d \in Dates :
      LET at == store[p][Nightly(d)]
      IN  at # Absent /\ window[1] < at /\ at < window[2] => at >= began

\* The newest RackHD can be installed once its nightly build has published everything,
\* though unchanged components are not uploaded again.  This is a promise of the filter
\* of make_debian_packages.py only, and it ends where a clean-up starts: that one may
\* delete an unchanged component as overdue, until the next build finds it missing.
NewestInstallable ==
  sound /\ night = NoNight => \A p \in Components : Has(p, pins[p])

\* "The release build will never be deleted by this script."  (the header of
\* nightly_build_clean_up.py)
ReleaseNeverDeleted ==
  [][\A p \in Places : \A v \in Releases : Has(p, v) => Has(p, v)']_vars
=============================================================================
