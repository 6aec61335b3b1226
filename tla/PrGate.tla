------------------------------- MODULE PrGate --------------------------------
(***************************************************************************)
(* The pull request gate, jobs/pr_gate/Jenkinsfile.                        *)
(*                                                                         *)
(* pr_parser.py starts from the pull request (PR) that has triggered the   *)
(* build, follows "Jenkins: depend on <url> ..." from PR to PR, and writes *)
(* a manifest in which every PR found replaces the branch of its           *)
(* repository.  PRs that depend on each other are under test together; a   *)
(* one-way dependency is used but not judged.  The tests run on that       *)
(* manifest, and commit_status_setter.py writes the result to the PRs that *)
(* the manifest marks as under test.                                       *)
(*                                                                         *)
(* Meanwhile people merge PRs or make them conflict, and GitHub may fail   *)
(* to answer a single question.                                            *)
(***************************************************************************)
EXTENDS Integers, Sequences, FiniteSets, FiniteSetsExt

CONSTANTS
  Repos,        \* repositories a PR text may name
  Known,        \* the repositories of manifest-pr-gate.json
  PRs,          \* pull requests: <<repository, number>>
  Root,         \* the PR that triggers the build (ghprbPullLink)
  Texts,        \* what the texts and comments of all PRs may say
  MaxChanges    \* bound: how often a PR is merged or made to conflict

ASSUME GateAssumption ==
  /\ IsFiniteSet(Repos) /\ Known \subseteq Repos
  /\ PRs \subseteq Repos \X (Nat \ {0}) /\ IsFiniteSet(PRs)
  /\ Root \in PRs
  /\ \A t \in Texts : t \in [PRs -> [deps : Seq(PRs), ignore : BOOLEAN]]
  /\ MaxChanges \in Nat

VARIABLES
  text,       \* for each PR: the PRs it depends on in order, up to a "Jenkins: ignore"
  pull,       \* for each PR: "open", "conflict", "merged", or "missing": no such PR
  flaky,      \* whether a question to GitHub may fail
  changes,
  step,       \* where the build is
  level,      \* base_pr: what is left of the level that is being parsed
  found,      \* _tmp_pr: the dependencies the level has given so far
  prs,        \* all_prs: the tuples (repo, sha, number) in the order found
  links,      \* the pairs that __pr_connectivity_map holds as True
  conflicted, \* the PRs reported as unmergeable; nothing that is done depends on it
  manifest,   \* for each repository of the manifest: commit-id and under-test
  result,     \* currentBuild.result
  status      \* the commit statuses written: <<PR, result>>

environment == <<text, pull, flaky, changes>>
crawl == <<level, found, prs, links, conflicted>>
vars == <<environment, step, crawl, manifest, result, status>>

\* A tuple of all_prs; "ref" is the number in sha = "origin/pr/<number>/merge".
Entry(pr, ref) == [repo |-> pr[1], ref |-> ref, number |-> pr[2]]
PrOf(e) == <<e.repo, e.number>>

Blank == [commit |-> 0, under |-> FALSE]   \* "commit-id": ""
BranchHead == -1                           \* the latest commit of the branch

PullStates == {"open", "conflict", "merged", "missing"}

Init ==
  /\ text \in Texts
  /\ pull \in [PRs -> PullStates]
  /\ pull[Root] \in {"open", "conflict"}
  /\ flaky \in BOOLEAN
  /\ changes = 0
  /\ step = "crawl"
  /\ level = <<Entry(Root, Root[2])>>
  /\ found = <<>>
  /\ prs = <<Entry(Root, Root[2])>>
  /\ links = {}
  /\ conflicted = {}
  /\ manifest = [r \in Known |-> Blank]
  /\ result = "none"
  /\ status = {}

ToSet(s) == {s[i] : i \in DOMAIN s}

\* The k-th of a set of indices.
Nth(I, k) == CHOOSE i \in I : Cardinality({j \in I : j <= i}) = k

\* What n steps along the pairs of R lead to from x.
Reached(x, R, n) ==
  LET within[k \in 0..n] ==
        IF k = 0 THEN {x}
        ELSE LET near == within[k - 1]
             IN  near \union {p[2] : p \in {q \in R : q[1] \in near}}
  IN  within[n]

-----------------------------------------------------------------------------
(* People                                                                  *)

Change(pr) ==
  /\ changes < MaxChanges
  /\ pull[pr] = "open"
  /\ \E s \in {"conflict", "merged"} : pull' = [pull EXCEPT ![pr] = s]
  /\ changes' = changes + 1
  /\ UNCHANGED <<text, flaky, step, crawl, manifest, result, status>>

-----------------------------------------------------------------------------
(* parse_pr                                                                *)

\* The dependencies that are asked for, one by one: a dependency answers with its
\* state, or the question fails, as it does when there is no such PR.
Answers(deps) ==
  {a \in [DOMAIN deps -> {"open", "conflict", "merged", "error"}] :
     \A i \in DOMAIN deps :
       \/ a[i] = pull[deps[i]]
       \/ a[i] = "error" /\ (flaky \/ pull[deps[i]] = "missing")}

\* A merged dependency is skipped.  One that cannot be read is not.
Kept(answer, i) == answer[i] # "merged"

\* The dependencies up to the i-th that have set the variable sha.  A question that
\* fails leaves sha as the dependency before has set it.
SetSha(answer, i) == {j \in 1..i : answer[j] \in {"open", "conflict"}}

\* sha is read before it has a value.
Unbound(answer) ==
  \E i \in DOMAIN answer : answer[i] = "error" /\ SetSha(answer, i) = {}

-----------------------------------------------------------------------------
(* Seeded faults                                                           *)

\* The link back is entered as True.
LinkBoth(base, related) ==
  {<<base[1], e.repo>> : e \in ToSet(related)} \union
  {<<e.repo, base[1]>> : e \in ToSet(related)}

\* A level that repeats a PR found before is dropped as a whole.
NewOrNone(s) == IF \E i \in DOMAIN s : s[i] \in ToSet(prs) THEN <<>> ELSE s

\* Only the repositories under test are filled in.
FilledPartly(m) ==
  [r \in Known |-> IF m[r].commit = 0 /\ m[r].under
                   THEN [m[r] EXCEPT !.commit = BranchHead] ELSE m[r]]

-----------------------------------------------------------------------------
(* The tuples that parse_pr returns                                        *)

Ref(deps, answer, i) == deps[Max(SetSha(answer, i))][2]

KeptIndices(answer) == {i \in DOMAIN answer : Kept(answer, i)}

\* related_prs
Related(deps, answer) ==
  LET kept == KeptIndices(answer)
  IN  [k \in 1..Cardinality(kept) |->
         Entry(deps[Nth(kept, k)], Ref(deps, answer, Nth(kept, k)))]

-----------------------------------------------------------------------------
(* get_all_related_prs                                                     *)

Link(base, related) == {<<base[1], e.repo>> : e \in ToSet(related)}

\* One call of parse_pr for the next PR of the level.  What it has found when it comes
\* to "Jenkins: ignore" is dropped, but the links that it has entered stay.  An
\* ignored root leaves no PR at all.
ParsePr ==
  /\ step = "crawl"
  /\ level # <<>>
  /\ LET base == PrOf(Head(level))
         deps == text[base].deps
     IN  \E answer \in Answers(deps) :
           IF pull[base] = "missing" \/ Unbound(answer)
           THEN /\ step' = "rejected"
                /\ UNCHANGED <<found, prs, links, conflicted>>
           ELSE LET related == Related(deps, answer)
                IN  /\ found' = IF text[base].ignore THEN found ELSE found \o related
                    /\ prs' = IF text[base].ignore /\ Len(prs) = 1 THEN <<>> ELSE prs
                    /\ links' = links \union Link(base, related)
                    /\ conflicted' = conflicted \union
                         {deps[i] : i \in {j \in DOMAIN deps : answer[j] = "conflict"}}
                    /\ UNCHANGED step
  /\ level' = Tail(level)
  /\ UNCHANGED <<environment, manifest, result, status>>

\* "avoid endless loop": what all_prs holds already is not parsed again.  What a
\* level has found twice stays twice.
NewOnly(s) ==
  LET new == {i \in DOMAIN s : s[i] \notin ToSet(prs)}
  IN  [k \in 1..Cardinality(new) |-> s[Nth(new, k)]]

NextLevel ==
  /\ step = "crawl"
  /\ level = <<>>
  /\ found # <<>>
  /\ level' = NewOnly(found)
  /\ prs' = prs \o NewOnly(found)
  /\ found' = <<>>
  /\ UNCHANGED <<environment, step, links, conflicted, manifest, result, status>>

\* Any other failure of pr_parser.py: the PR itself or a branch cannot be read, its text
\* is empty (body is None), or names a PR by something that is not a URL.
ParserFails ==
  /\ step = "crawl"
  /\ step' = "rejected"
  /\ UNCHANGED <<environment, crawl, manifest, result, status>>

-----------------------------------------------------------------------------
(* The manifest                                                            *)

\* get_under_test_prs, which works on repositories: the root's, and those linked both
\* ways with one that is under test.
Mutual == {p \in links : <<p[2], p[1]>> \in links}

Interdependent == Reached(Root[1], Mutual, Cardinality(Repos))

\* Manifest.update_manifest for the tuples in turn: a later PR of the same repository
\* replaces the commit-id of an earlier one, under-test is never taken back.
WithPrs ==
  [r \in Known |->
     LET mine == {i \in DOMAIN prs : prs[i].repo = r}
     IN  IF mine = {} THEN manifest[r]
         ELSE [commit |-> prs[Max(mine)].ref, under |-> r \in Interdependent]]

\* A blank commit-id becomes the latest commit of the target branch.
Filled(m) ==
  [r \in Known |-> IF m[r].commit = 0 THEN [m[r] EXCEPT !.commit = BranchHead] ELSE m[r]]

\* wrap_manifest_file.  The test of pr_group_is_valid that follows it in main is of
\* the method, not of its value, and lets everything pass.
WrapManifest ==
  /\ step = "crawl"
  /\ level = <<>> /\ found = <<>>
  /\ IF \A i \in DOMAIN prs : prs[i].repo \in Known
     THEN manifest' = Filled(WithPrs) /\ step' = "test"
     ELSE step' = "rejected" /\ UNCHANGED manifest
  /\ UNCHANGED <<environment, crawl, result, status>>

-----------------------------------------------------------------------------
(* The rest of the build                                                   *)

\* The stages Unit Test and Function Test.
RunTests ==
  /\ step = "test"
  /\ \E r \in {"success", "failure"} : result' = r
  /\ step' = "write back"
  /\ UNCHANGED <<environment, crawl, manifest, status>>

\* The finally of the job archives the logs before the stage Write Back.  It never comes
\* there when archiving raises, or when it uses the variable unit_test unset, which is so
\* when pr_parser.py, or the stage Unit Test before it has set it, has failed.
GiveUp ==
  /\ step \in {"rejected", "test"}
  /\ result' = "failure"
  /\ step' = "ended"
  /\ UNCHANGED <<environment, crawl, manifest, status>>

\* get_target_pr_list_from_manifest
Targets == {<<r, manifest[r].commit>> : r \in {q \in Known : manifest[q].under}}

Exists(pr) == pr \in PRs /\ pull[pr] # "missing"

\* A seeded fault: a status that cannot be written is tried again for ever.
SetStatusRetried ==
  /\ step = "write back"
  /\ \E pr \in Targets \ {s[1] : s \in status} :
       IF Exists(pr) THEN status' = status \union {<<pr, result>>} ELSE UNCHANGED status
  /\ UNCHANGED <<environment, step, crawl, manifest, result>>

\* set_commit_status for one PR after the other; the first error ends the script.
SetStatus ==
  /\ step = "write back"
  /\ \E pr \in Targets \ {s[1] : s \in status} :
       \/ /\ Exists(pr)
          /\ status' = status \union {<<pr, result>>}
          /\ UNCHANGED step
       \/ /\ flaky \/ ~Exists(pr)
          /\ step' = "ended"
          /\ UNCHANGED status
  /\ UNCHANGED <<environment, crawl, manifest, result>>

BuildEnds ==
  /\ step = "write back"
  /\ Targets \subseteq {s[1] : s \in status}
  /\ step' = "ended"
  /\ UNCHANGED <<environment, crawl, manifest, result, status>>

Build ==
  ParsePr \/ NextLevel \/ ParserFails \/ WrapManifest \/ RunTests \/ GiveUp
    \/ SetStatus \/ BuildEnds

Next == Build \/ \E pr \in PRs : Change(pr)

\* The build is a sequence of script statements that Jenkins carries out.
Spec == Init /\ [][Next]_vars /\ WF_vars(Build)

-----------------------------------------------------------------------------
(* Properties                                                              *)

Entries == [repo : Repos, ref : Nat \ {0}, number : Nat \ {0}]

Parsed == step \in {"test", "write back"} \/ status # {}

\* The parser writes a manifest in which no commit-id is blank.
TypeOK ==
  /\ text \in Texts
  /\ pull \in [PRs -> PullStates]
  /\ flaky \in BOOLEAN /\ changes \in 0..MaxChanges
  /\ step \in {"crawl", "rejected", "test", "write back", "ended"}
  /\ ToSet(level) \union ToSet(found) \union ToSet(prs) \subseteq Entries
  /\ links \subseteq Repos \X Repos
  /\ conflicted \subseteq PRs
  /\ \A r \in Known : /\ manifest[r].commit \in Nat \union {BranchHead}
                      /\ Parsed => manifest[r].commit # 0
                      /\ manifest[r].under \in BOOLEAN
  /\ result \in {"none", "success", "failure"}
  /\ status \subseteq (PRs \X {"success", "failure"})

CrawledPrs == {PrOf(prs[i]) : i \in DOMAIN prs}

\* Which PR asks for which: <<PR, dependency>>.
Dependencies ==
  {p \in PRs \X PRs : ~text[p[1]].ignore /\ p[2] \in ToSet(text[p[1]].deps)}

\* The PRs that the texts lead to from the root, whatever their state.
Mentioned == Reached(Root, Dependencies, Cardinality(PRs))

\* The manifest is made of the PRs that the root's dependencies lead to, and lacks
\* none of them that is not merged or only reached through a merged one: the crawl
\* survives cycles, diamonds, and changes and failed questions under way.
CrawlIsExact ==
  Parsed =>
    /\ CrawledPrs \subseteq Mentioned
    /\ prs # <<>> => Root \in CrawledPrs
    /\ \A p \in CrawledPrs : ~text[p].ignore =>
         \A d \in ToSet(text[p].deps) : d \in CrawledPrs \/ pull[d] = "merged"

\* The repositories that some mentioned PR of repository r depends on.
DependsOn(r) ==
  {d[1] : d \in UNION {ToSet(text[p].deps) :
                         p \in {q \in Mentioned : q[1] = r}}}

\* A PR of another repository gets a status only if a chain of repositories leads to
\* it from the root in which each two neighbours depend on each other.  While GitHub
\* answers, it is a PR that was found and used in the tests, never one that merely has
\* the number of another.
StatusOnlyInterdependent ==
  \A s \in status :
    /\ \A S \in SUBSET Repos :
         (/\ Root[1] \in S
          /\ \A r \in S, q \in Repos \ S : ~(q \in DependsOn(r) /\ r \in DependsOn(q)))
           => s[1][1] \in S
    /\ ~flaky => s[1] \in CrawledPrs

\* The build ends: no circle of dependencies keeps the parser going.
GateEnds == <>(step = "ended")
=============================================================================
