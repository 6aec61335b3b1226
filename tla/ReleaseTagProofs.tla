-------------------------- MODULE ReleaseTagProofs --------------------------
(***************************************************************************)
(* Proofs about tagging and branching, for any repositories, any number of *)
(* tries, and any bounds on developers and on the clock.                   *)
(***************************************************************************)
EXTENDS ReleaseTag, TLAPS

Flows == {"tag", "release", "release_no_jump", "branch"}
Releasing == flow \in {"release", "release_no_jump"}

\* The steps that each of the jobs comes to.
FlowInv ==
  /\ flow \in Flows
  /\ flow = "tag" => step \in {"clone_heads", "tag", "upload", "done", "failed"}
  /\ flow = "release" =>
       step \in {"checkout", "jump", "upload", "checkout_tag", "tag", "done", "failed"}
  /\ flow = "release_no_jump" => step \in {"checkout_tag", "tag", "done", "failed"}
  /\ flow = "branch" => step \in {"checkout", "branch", "references", "done", "failed"}

\* There is room for the commit with the new version, which is made once.
HeadInv == \A r \in Repos : head[r] \in Nat /\ (jumped[r] <= 1 => head[r] <= MaxCommit)

\* Only the sprint tag starts without a manifest.
PublishedInv == flow # "tag" => \A r \in Repos : published[r] \in Commit

\* A clone that is to be tagged or branched is at the commit of the manifest; in a
\* sprint tag, which makes the manifest of it, it is no older than the tag.
Sound(r) ==
  IF flow = "tag"
  THEN clone[r].at \in Commit /\ tag[r] <= clone[r].at /\ clone[r].at <= head[r]
  ELSE clone[r].at = published[r]

\* The clones that have been made are sound, and stay so in the steps that use them.
CloneInv ==
  \A r \in Repos :
    /\ step \in {"clone_heads", "checkout", "checkout_tag"} /\ r \notin todo => Sound(r)
    /\ step \in {"tag", "branch", "references"} => Sound(r)
    /\ flow = "tag" /\ step \in {"upload", "done"} => Sound(r)
    /\ step \in {"jump", "upload"} => clone[r].at \in Commit
    /\ clone[r].tag => tag[r] # 0

\* From the step "jump" on, what is passed from step to step bears the new version; a
\* commit that waits in a clone is the only one that will.
JumpInv ==
  \A r \in Repos :
    /\ clone[r].ahead => step = "failed" \/ (step = "jump" /\ jumped[r] = 0)
    /\ flow = "release" =>
         /\ step = "checkout" => jumped[r] \in {0, 1}
         /\ step = "jump" /\ jumped[r] # 0 => clone[r].at >= jumped[r]
         /\ step = "jump" /\ r \notin todo => ~clone[r].ahead /\ HasVersion(r, clone[r].at)
         /\ step = "upload" => HasVersion(r, clone[r].at)
         /\ step \in {"checkout_tag", "tag", "done"} => HasVersion(r, published[r])

\* What has been visited is tagged; what a release tags is the commit of the manifest,
\* what the first try of a sprint tag does is that of the clone.
TagInv ==
  \A r \in Repos :
    /\ step = "tag" /\ r \notin todo => tag[r] # 0
    /\ flow = "tag" /\ step = "upload" => tag[r] # 0
    /\ flow # "branch" /\ step = "done" => tag[r] # 0
    /\ Releasing /\ r \notin before /\ tag[r] # 0 =>
         step \in {"checkout_tag", "tag", "done", "failed"} /\ tag[r] = published[r]
    /\ flow = "tag" =>
         /\ tag[r] <= head[r]
         /\ step = "done" => published[r] = clone[r].at
         /\ try = 1 /\ r \notin before /\ tag[r] # 0 =>
              step # "clone_heads" /\ (step # "failed" => tag[r] = clone[r].at)

\* What has been visited has the branch, and then its references.
BranchInv ==
  flow = "branch" =>
    \A r \in Repos :
      /\ step = "branch" /\ r \notin todo => branch[r].from = published[r]
      /\ step \in {"references", "done"} => branch[r].from = published[r]
      /\ r \in Dependents /\ step = "references" /\ r \notin todo => branch[r].references
      /\ r \in Dependents /\ step = "done" => branch[r].references

IInv ==
  /\ TypeOK /\ FlowInv /\ HeadInv /\ PublishedInv
  /\ CloneInv /\ JumpInv /\ TagInv /\ BranchInv

-----------------------------------------------------------------------------

Clones == [at : Commit \union {0}, ahead : BOOLEAN, origin : Commit \union {0},
           tag : BOOLEAN, free : BOOLEAN]

Steps == {"clone_heads", "checkout", "jump", "upload", "checkout_tag", "tag",
          "branch", "references", "done", "failed"}

\* The types of what is not the state of the script.
WorldOK ==
  /\ head \in [Repos -> Commit]
  /\ tag \in [Repos -> Commit \union {0}] /\ jumped \in [Repos -> Commit \union {0}]
  /\ branch \in [Repos -> [from : Commit \union {0}, references : BOOLEAN, others : 0..1]]
  /\ today \in 1..LastDay /\ files \subseteq 1..LastDay
  /\ published \in [Repos -> Commit \union {0}]

\* A job that fails goes back to the first step of its block, or ends.
LEMMA FailedStep ==
  ASSUME TypeOK, FlowInv, NEW ACTION c, c \in [Repos -> Clones], Fail(c),
         step \notin {"done", "failed"}, flow' = flow
  PROVE  /\ FlowInv' /\ step' \in Steps \ {"done"}
         /\ todo' \subseteq Repos /\ try' \in 1..MaxTries /\ clone' \in [Repos -> Clones]
         /\ \/ step' = "failed" /\ clone' = clone
            \/ /\ flow # "branch" /\ step' = RetryFrom /\ todo' = Repos /\ try' = try + 1
               /\ clone' = IF RetryFrom \in {"jump", "upload"} THEN c
                           ELSE [r \in Repos |-> NoClone]
<1>1. MaxTries \in Nat \ {0} /\ try \in 1..MaxTries /\ todo \subseteq Repos
  BY TagAssumption DEF TypeOK
<1>2. clone \in [Repos -> Clones] /\ NoClone \in Clones
  BY DEF TypeOK, Clones, NoClone
<1>3. CASE try < MaxTries /\ flow # "branch"
  <2>1. /\ step' = RetryFrom /\ todo' = Repos /\ try' = try + 1
        /\ clone' = IF RetryFrom \in {"jump", "upload"} THEN c
                    ELSE [r \in Repos |-> NoClone]
    BY <1>3 DEF Fail, Restart
  <2>2. try' \in 1..MaxTries /\ todo' \subseteq Repos
    BY <1>1, <1>3, <2>1
  <2>3. RetryFrom \in Steps \ {"done", "failed"}
    BY <1>3 DEF FlowInv, Flows, RetryFrom, Steps
  <2>4. FlowInv'
    BY <1>3, <2>1 DEF FlowInv, Flows, RetryFrom
  <2>5. clone' \in [Repos -> Clones]
    BY <1>2, <2>1
  <2> QED
    BY <1>3, <2>1, <2>2, <2>3, <2>4, <2>5
<1>4. CASE ~(try < MaxTries /\ flow # "branch")
  <2>1. step' = "failed" /\ UNCHANGED <<try, todo, clone>>
    BY <1>4 DEF Fail
  <2> QED
    BY <1>1, <1>2, <2>1 DEF FlowInv, Flows, Steps
<1> QED BY <1>3, <1>4

\* What a failing step leaves behind when it leaves the clones as c: tags do not vanish,
\* only a push changes what is known of the version and only an upload the manifest, and
\* a block that goes on with the clones finds them as it left them.
Leaves(c) ==
  \A r \in Repos :
    /\ c[r].tag \/ clone[r].tag => tag'[r] # 0
    /\ Releasing /\ r \notin before /\ tag'[r] # 0 =>
         step \in {"checkout_tag", "tag"} /\ tag'[r] = published'[r]
    /\ flow = "tag" => tag'[r] <= head'[r]
    /\ step # "jump" => jumped'[r] = jumped[r]
    /\ step = "jump" =>
         /\ c[r].at \in Commit
         /\ c[r].ahead => jumped'[r] = 0
         /\ jumped'[r] # 0 => c[r].at >= jumped'[r]
    /\ step # "upload" => published'[r] = published[r]
    /\ step = "upload" => c[r] = clone[r]

\* A step that fails so keeps the invariant.
LEMMA FailedJob ==
  ASSUME IInv, NEW ACTION c, c \in [Repos -> Clones], Fail(c), Leaves(c),
         step \notin {"done", "failed"}, UNCHANGED given,
         WorldOK', HeadInv', PublishedInv'
  PROVE  IInv'
<1>1. /\ TypeOK /\ FlowInv /\ CloneInv /\ JumpInv
      /\ flow' = flow /\ before' = before
  BY DEF IInv, given
<1>2. /\ FlowInv' /\ step' \in Steps \ {"done"}
      /\ todo' \subseteq Repos /\ try' \in 1..MaxTries /\ clone' \in [Repos -> Clones]
      /\ \/ step' = "failed" /\ clone' = clone
         \/ /\ flow # "branch" /\ step' = RetryFrom /\ todo' = Repos /\ try' = try + 1
            /\ clone' = IF RetryFrom \in {"jump", "upload"} THEN c
                        ELSE [r \in Repos |-> NoClone]
  BY <1>1, FailedStep
<1>3. TypeOK'
  BY <1>1, <1>2 DEF TypeOK, WorldOK, Steps, Clones
<1>4. BranchInv'
  BY <1>1, <1>2 DEF BranchInv
<1>5. CASE step' = "failed" /\ clone' = clone
  <2>1. CloneInv'
    BY <1>1, <1>5 DEF CloneInv, Leaves
  <2>2. JumpInv'
    BY <1>5 DEF JumpInv
  <2>3. TagInv'
    BY <1>1, <1>5 DEF TagInv, Leaves, Releasing
  <2> QED
    BY <1>2, <1>3, <1>4, <2>1, <2>2, <2>3 DEF IInv
<1>6. CASE flow # "branch" /\ step' = RetryFrom /\ todo' = Repos /\ try' = try + 1
  <2>1. /\ flow = "tag" => step' = "clone_heads"
        /\ Releasing /\ step \in {"checkout_tag", "tag"} => step' = "checkout_tag"
        /\ Releasing /\ step \notin {"checkout_tag", "tag"} => step' = step
        /\ step' \in {"clone_heads", "checkout", "jump", "upload", "checkout_tag"}
        /\ step' \in {"jump", "upload"} => flow = "release"
    BY <1>1, <1>6 DEF RetryFrom, FlowInv, Flows, Releasing
  <2>2. \A r \in Repos :
          /\ step' \in {"jump", "upload"} => step' = step /\ clone'[r] = c[r]
          /\ step' \notin {"jump", "upload"} => clone'[r] = NoClone
    BY <1>1, <1>2, <1>6, <2>1 DEF RetryFrom, FlowInv, Flows
  <2>3. CloneInv'
    BY <1>1, <1>6, <2>1, <2>2 DEF CloneInv, Leaves, NoClone
  <2>4. JumpInv'
    BY <1>1, <1>6, <2>1, <2>2 DEF JumpInv, Leaves, NoClone, HasVersion, Releasing
  <2>5. TagInv'
    <3>1. try' # 1
      BY <1>1, <1>6, TagAssumption DEF TypeOK
    <3> QED
      BY <1>1, <1>6, <2>1, <3>1 DEF TagInv, Leaves, Releasing
  <2> QED
    BY <1>2, <1>3, <1>4, <2>3, <2>4, <2>5 DEF IInv
<1> QED BY <1>2, <1>5, <1>6

-----------------------------------------------------------------------------

\* What GitHub has of a repository after a push of the new version.
LEMMA PushTakesEffect ==
  ASSUME IInv, NEW r \in Repos, step = "jump", Pushed(r)
  PROVE  /\ head' \in [Repos -> Commit] /\ jumped' \in [Repos -> Commit \union {0}]
         /\ HeadInv'
         /\ \A q \in Repos \ {r} : head'[q] = head[q] /\ jumped'[q] = jumped[q]
         /\ jumped'[r] # 0 /\ jumped'[r] <= head'[r]
<1>1. TypeOK /\ HeadInv /\ JumpInv /\ flow = "release"
  BY DEF IInv, FlowInv, Flows
<1>2. head[r] \in Commit /\ MaxCommit \in Nat /\ clone[r].at = head[r]
  BY <1>1, TagAssumption DEF TypeOK, Pushed
<1>3. CASE Commits(r)
  <2>1. jumped[r] = 0
    BY <1>1, <1>2, <1>3 DEF JumpInv, Commits, HasVersion, TypeOK, Commit
  <2>2. head[r] <= MaxCommit
    BY <1>1, <2>1 DEF HeadInv
  <2>3. head' = [head EXCEPT ![r] = @ + 1] /\ jumped' = [jumped EXCEPT ![r] = head'[r]]
    BY <1>3 DEF Pushed
  <2>4. head' \in [Repos -> Commit] /\ head'[r] = head[r] + 1 /\ head'[r] > 1
    BY <1>1, <1>2, <2>2, <2>3 DEF TypeOK, Commit
  <2>5. jumped' \in [Repos -> Commit \union {0}] /\ jumped'[r] = head'[r]
    BY <1>1, <2>3, <2>4 DEF TypeOK
  <2>6. \A q \in Repos \ {r} : head'[q] = head[q] /\ jumped'[q] = jumped[q]
    BY <1>1, <2>3 DEF TypeOK
  <2> QED
    BY <1>1, <2>4, <2>5, <2>6 DEF HeadInv, Commit
<1>4. CASE ~Commits(r)
  BY <1>1, <1>2, <1>4 DEF Commits, HasVersion, Pushed, TypeOK, Commit, HeadInv
<1> QED BY <1>3, <1>4

\* The parts of the types.
LEMMA TypeParts ==
  /\ TypeOK => WorldOK /\ clone \in [Repos -> Clones]
  /\ WorldOK' /\ (flow \in Flows)' /\ before' \subseteq Repos /\ step' \in Steps
     /\ try' \in 1..MaxTries /\ todo' \subseteq Repos /\ clone' \in [Repos -> Clones]
     => TypeOK'
BY DEF TypeOK, WorldOK, Clones, Steps, Flows

\* Every step keeps the invariant.
LEMMA Preserved == IInv /\ [Next]_vars => IInv'
<1> SUFFICES ASSUME IInv, [Next]_vars PROVE IInv'
  OBVIOUS
<1>t. /\ TypeOK /\ FlowInv /\ HeadInv /\ PublishedInv /\ CloneInv /\ JumpInv /\ TagInv
      /\ BranchInv
  BY DEF IInv
<1>1. ASSUME NEW r \in Repos, CloneHead(r) PROVE IInv'
  <2>1. TypeOK'
    BY <1>t, <1>1, TagAssumption DEF CloneHead, Visit, given, github, Cloned, TypeOK,
      Commit
  <2>2. FlowInv'
    BY <1>t, <1>1 DEF CloneHead, Visit, given, github, Cloned, FlowInv, Flows
  <2>3. HeadInv'
    BY <1>t, <1>1, TagAssumption DEF CloneHead, Visit, given, github, Cloned, HeadInv,
      TypeOK, Commit
  <2>4. PublishedInv'
    BY <1>t, <1>1 DEF CloneHead, Visit, given, github, Cloned, PublishedInv
  <2>5. CloneInv'
    BY <1>t, <1>1 DEF CloneHead, Visit, given, github, Cloned, CloneInv, Sound, TypeOK,
      Commit, FlowInv, HeadInv, PublishedInv, TagInv
  <2>6. JumpInv'
    BY <1>t, <1>1 DEF CloneHead, Visit, given, github, Cloned, JumpInv, HasVersion,
      CloneInv, TypeOK, Sound, Commit, FlowInv
  <2>7. TagInv'
    BY <1>t, <1>1 DEF CloneHead, Visit, given, github, Cloned, TagInv, CloneInv, Sound,
      TypeOK, Commit, Releasing, FlowInv, HeadInv
  <2>8. BranchInv'
    BY <1>t, <1>1 DEF CloneHead, Visit, given, github, Cloned, BranchInv, CloneInv,
      Sound, NoBranch, TypeOK, FlowInv, PublishedInv, Commit
  <2> QED
    BY <2>1, <2>2, <2>3, <2>4, <2>5, <2>6, <2>7, <2>8 DEF IInv
<1>2. ASSUME NEW r \in Repos, CheckOut(r) PROVE IInv'
  <2>1. TypeOK'
    BY <1>t, <1>2, TagAssumption DEF CheckOut, Visit, given, github, Cloned, TypeOK,
      Commit
  <2>2. FlowInv'
    BY <1>t, <1>2 DEF CheckOut, Visit, given, github, Cloned, FlowInv, Flows
  <2>3. HeadInv'
    BY <1>t, <1>2, TagAssumption DEF CheckOut, Visit, given, github, Cloned, HeadInv,
      TypeOK, Commit
  <2>4. PublishedInv'
    BY <1>t, <1>2 DEF CheckOut, Visit, given, github, Cloned, PublishedInv
  <2>5. CloneInv'
    BY <1>t, <1>2 DEF CheckOut, Visit, given, github, Cloned, CloneInv, Sound, TypeOK,
      Commit, FlowInv, HeadInv, PublishedInv
  <2>6. JumpInv'
    BY <1>t, <1>2 DEF CheckOut, Visit, given, github, Cloned, JumpInv, HasVersion,
      CloneInv, TypeOK, Sound, Commit, FlowInv
  <2>7. TagInv'
    BY <1>t, <1>2 DEF CheckOut, Visit, given, github, Cloned, TagInv, CloneInv, Sound,
      TypeOK, Commit, Releasing, FlowInv, HeadInv
  <2>8. BranchInv'
    BY <1>t, <1>2 DEF CheckOut, Visit, given, github, Cloned, BranchInv, CloneInv,
      Sound, NoBranch, TypeOK, FlowInv, PublishedInv, Commit
  <2> QED
    BY <2>1, <2>2, <2>3, <2>4, <2>5, <2>6, <2>7, <2>8 DEF IInv
<1>3. ASSUME NEW r \in Repos, JumpNothing(r) PROVE IInv'
  <2>1. TypeOK'
    BY <1>t, <1>3, TagAssumption DEF JumpNothing, Visit, given, github, NothingToPush,
      Commits, HasVersion, TypeOK, Commit
  <2>2. FlowInv'
    BY <1>t, <1>3 DEF JumpNothing, Visit, given, github, NothingToPush, Commits,
      HasVersion, FlowInv, Flows
  <2>3. HeadInv'
    BY <1>t, <1>3, TagAssumption DEF JumpNothing, Visit, given, github, NothingToPush,
      Commits, HasVersion, HeadInv, TypeOK, Commit
  <2>4. PublishedInv'
    BY <1>t, <1>3 DEF JumpNothing, Visit, given, github, NothingToPush, Commits,
      HasVersion, PublishedInv
  <2>5. CloneInv'
    BY <1>t, <1>3 DEF JumpNothing, Visit, given, github, NothingToPush, Commits,
      HasVersion, CloneInv, Sound, TypeOK, Commit, FlowInv, HeadInv, PublishedInv
  <2>6. JumpInv'
    BY <1>t, <1>3 DEF JumpNothing, Visit, given, github, NothingToPush, Commits,
      HasVersion, JumpInv, HasVersion, CloneInv, TypeOK, Sound, Commit, FlowInv
  <2>7. TagInv'
    BY <1>t, <1>3 DEF JumpNothing, Visit, given, github, NothingToPush, Commits,
      HasVersion, TagInv, CloneInv, Sound, TypeOK, Commit, Releasing, FlowInv, HeadInv
  <2>8. BranchInv'
    BY <1>t, <1>3 DEF JumpNothing, Visit, given, github, NothingToPush, Commits,
      HasVersion, BranchInv, CloneInv, Sound, NoBranch, TypeOK, FlowInv, PublishedInv,
      Commit
  <2> QED
    BY <2>1, <2>2, <2>3, <2>4, <2>5, <2>6, <2>7, <2>8 DEF IInv
<1>4. ASSUME NEW r \in Repos, JumpVersion(r) PROVE IInv'
  <2>1. /\ step = "jump" /\ flow = "release" /\ r \in todo /\ Pushed(r) /\ Visit(r)
        /\ UNCHANGED <<flow, before, tag, branch, today, files, published>>
    BY <1>t, <1>4 DEF JumpVersion, Pushed, given, FlowInv, Flows
  <2>2. /\ head' \in [Repos -> Commit] /\ jumped' \in [Repos -> Commit \union {0}]
        /\ HeadInv'
        /\ \A q \in Repos \ {r} : head'[q] = head[q] /\ jumped'[q] = jumped[q]
        /\ jumped'[r] # 0 /\ jumped'[r] <= head'[r]
    BY <2>1, PushTakesEffect
  <2>3. WorldOK' /\ PublishedInv' /\ clone \in [Repos -> Clones]
    BY <1>t, <2>1, <2>2, TypeParts DEF WorldOK, PublishedInv, Commit
  <2>4. step' = step /\ todo' = todo \ {r} /\ try' = try
    BY <2>1 DEF Visit
  <2>5. clone' = [clone EXCEPT ![r].at = head'[r], ![r].ahead = FALSE,
                               ![r].origin = head'[r]]
    BY <1>4 DEF JumpVersion
  <2>6. /\ clone' \in [Repos -> Clones]
        /\ clone'[r].at = head'[r] /\ clone'[r].ahead = FALSE
        /\ clone'[r].tag = clone[r].tag
        /\ \A q \in Repos \ {r} : clone'[q] = clone[q]
    <3>1. head'[r] \in Commit
      BY <2>2
    <3>2. clone'[r] = [clone[r] EXCEPT !.at = head'[r], !.ahead = FALSE, !.origin = head'[r]]
      BY <2>3, <2>5
    <3>3. clone'[r] \in Clones
      BY <2>3, <3>1, <3>2 DEF Clones
    <3> QED
      BY <2>3, <2>5, <3>2, <3>3 DEF Clones
  <2>7. TypeOK'
    BY <1>t, <2>1, <2>3, <2>4, <2>6, TypeParts DEF TypeOK, Steps, Flows
  <2>8. FlowInv' /\ BranchInv'
    BY <1>t, <2>1, <2>4 DEF FlowInv, Flows, BranchInv
  <2>9. CloneInv'
    BY <1>t, <2>1, <2>2, <2>4, <2>6 DEF CloneInv
  <2>10. JumpInv'
    BY <1>t, <2>1, <2>2, <2>4, <2>6 DEF JumpInv, HasVersion
  <2>11. TagInv'
    BY <1>t, <2>1, <2>4, <2>6 DEF TagInv, Releasing
  <2> QED
    BY <2>2, <2>3, <2>7, <2>8, <2>9, <2>10, <2>11 DEF IInv
<1>5. ASSUME NEW r \in Repos, JumpFails(r) PROVE IInv'
  <2>1. step = "jump" /\ flow = "release"
    BY <1>t, <1>5 DEF JumpFails, FlowInv, Flows
  <2>2. UNCHANGED <<flow, before, tag, branch, today, files, published>>
    BY <1>5 DEF JumpFails, Pushed, given, github
  <2>3. clone \in [Repos -> Clones] /\ WorldOK /\ PublishedInv'
    BY <1>t, <2>2, TypeParts DEF PublishedInv, Commit
  <2>4. ASSUME NEW q \in Repos
        PROVE  /\ clone[q].tag => tag[q] # 0
               /\ ~(Releasing /\ q \notin before /\ tag[q] # 0)
               /\ clone[q].at \in Commit
               /\ clone[q].ahead => jumped[q] = 0
               /\ jumped[q] # 0 => clone[q].at >= jumped[q]
    BY <1>t, <2>1 DEF CloneInv, JumpInv, TagInv
  <2>5. CASE Pushed(r) /\ Fail([clone EXCEPT ![r].at = head'[r], ![r].ahead = FALSE])
    <3> DEFINE c == [clone EXCEPT ![r].at = head'[r], ![r].ahead = FALSE]
    <3>1. /\ head' \in [Repos -> Commit] /\ jumped' \in [Repos -> Commit \union {0}]
          /\ HeadInv'
          /\ \A q \in Repos \ {r} : head'[q] = head[q] /\ jumped'[q] = jumped[q]
          /\ jumped'[r] # 0 /\ jumped'[r] <= head'[r]
      BY <2>1, <2>5, PushTakesEffect
    <3>2. WorldOK'
      BY <2>2, <2>3, <3>1 DEF WorldOK, Commit
    <3>3. /\ c \in [Repos -> Clones]
          /\ c[r].at = head'[r] /\ c[r].ahead = FALSE /\ c[r].tag = clone[r].tag
          /\ \A q \in Repos \ {r} : c[q] = clone[q]
      BY <2>3, <3>1 DEF Clones
    <3>4. Fail(c)
      BY <2>5
    <3> HIDE DEF c
    <3>5. Leaves(c)
      BY <2>1, <2>2, <2>4, <3>1, <3>3 DEF Leaves, Commit
    <3> QED
      BY <2>1, <2>2, <2>3, <3>1, <3>2, <3>3, <3>4, <3>5, FailedJob DEF given
  <2>6. CASE UNCHANGED github /\ Fail([clone EXCEPT ![r].ahead = Commits(r)])
    <3> DEFINE c == [clone EXCEPT ![r].ahead = Commits(r)]
    <3>1. Commits(r) \in BOOLEAN /\ (Commits(r) => jumped[r] = 0)
      BY <1>t, <2>1, <2>4 DEF Commits, HasVersion, TypeOK, Commit
    <3>2. WorldOK' /\ HeadInv' /\ UNCHANGED <<head, jumped>>
      BY <1>t, <2>2, <2>3, <2>6 DEF WorldOK, HeadInv, github, Commit
    <3>3. /\ c \in [Repos -> Clones]
          /\ c[r].ahead = Commits(r) /\ c[r].at = clone[r].at /\ c[r].tag = clone[r].tag
          /\ \A q \in Repos \ {r} : c[q] = clone[q]
      BY <2>3, <3>1 DEF Clones
    <3>4. Fail(c)
      BY <2>6
    <3> HIDE DEF c
    <3>5. Leaves(c)
      BY <2>1, <2>2, <2>4, <3>1, <3>2, <3>3 DEF Leaves
    <3> QED
      BY <2>1, <2>2, <2>3, <3>2, <3>3, <3>4, <3>5, FailedJob DEF given
  <2> QED
    BY <1>5, <2>5, <2>6 DEF JumpFails
<1>6. ASSUME NEW r \in Repos, TagKnown(r) PROVE IInv'
  <2>1. TypeOK'
    BY <1>t, <1>6, TagAssumption DEF TagKnown, Visit, given, github, TypeOK, Commit
  <2>2. FlowInv'
    BY <1>t, <1>6 DEF TagKnown, Visit, given, github, FlowInv, Flows
  <2>3. HeadInv'
    BY <1>t, <1>6, TagAssumption DEF TagKnown, Visit, given, github, HeadInv, TypeOK,
      Commit
  <2>4. PublishedInv'
    BY <1>t, <1>6 DEF TagKnown, Visit, given, github, PublishedInv
  <2>5. CloneInv'
    BY <1>t, <1>6 DEF TagKnown, Visit, given, github, CloneInv, Sound, TypeOK, Commit,
      FlowInv, HeadInv, PublishedInv
  <2>6. JumpInv'
    BY <1>t, <1>6 DEF TagKnown, Visit, given, github, JumpInv, HasVersion, CloneInv,
      TypeOK, Sound, Commit, FlowInv
  <2>7. TagInv'
    BY <1>t, <1>6 DEF TagKnown, Visit, given, github, TagInv, CloneInv, Sound, TypeOK,
      Commit, Releasing, FlowInv, HeadInv
  <2>8. BranchInv'
    BY <1>t, <1>6 DEF TagKnown, Visit, given, github, BranchInv, CloneInv, Sound,
      NoBranch, TypeOK, FlowInv, PublishedInv, Commit
  <2> QED
    BY <2>1, <2>2, <2>3, <2>4, <2>5, <2>6, <2>7, <2>8 DEF IInv
<1>7. ASSUME NEW r \in Repos, TagClone(r) PROVE IInv'
  <2>1. /\ step = "tag" /\ r \in todo /\ tag[r] = 0 /\ ~clone[r].tag
        /\ tag' = [tag EXCEPT ![r] = clone[r].at]
        /\ UNCHANGED <<flow, before, head, branch, jumped, today, files, published>>
    BY <1>7 DEF TagClone, given
  <2> DEFINE c == [clone EXCEPT ![r].tag = TRUE]
  <2>2. clone \in [Repos -> Clones] /\ WorldOK /\ Sound(r)
    BY <1>t, <2>1, TypeParts DEF CloneInv
  <2>3. HeadInv' /\ PublishedInv'
    BY <1>t, <2>1 DEF HeadInv, PublishedInv, Commit
  <2>4. /\ c \in [Repos -> Clones]
        /\ c[r].at = clone[r].at /\ c[r].tag = TRUE /\ c[r].ahead = clone[r].ahead
        /\ \A q \in Repos \ {r} : c[q] = clone[q]
    BY <2>2 DEF Clones
  <2> HIDE DEF c
  <2>5. /\ WorldOK'
        /\ tag'[r] = clone[r].at /\ \A q \in Repos \ {r} : tag'[q] = tag[q]
    BY <2>1, <2>2 DEF WorldOK, Clones, Commit
  <2>6. flow # "branch" /\ tag'[r] # 0
    BY <1>t, <2>1, <2>2, <2>5
    DEF FlowInv, Flows, Sound, PublishedInv, Commit
  <2>7. CASE Visit(r) /\ clone' = c
    <3>1. step' = step /\ todo' = todo \ {r} /\ try' = try
      BY <2>7 DEF Visit
    <3>2. TypeOK'
      BY <1>t, <2>1, <2>4, <2>5, <2>7, <3>1, TypeParts DEF TypeOK, Steps, Flows
    <3>3. FlowInv' /\ BranchInv'
      BY <1>t, <2>1, <2>6, <3>1 DEF FlowInv, Flows, BranchInv
    <3>4. CloneInv'
      BY <1>t, <2>1, <2>4, <2>5, <2>6, <2>7, <3>1 DEF CloneInv, Sound, Commit
    <3>5. JumpInv'
      BY <1>t, <2>1, <2>4, <2>7, <3>1 DEF JumpInv, HasVersion
    <3>6. TagInv'
      BY <1>t, <2>1, <2>2, <2>4, <2>5, <2>6, <2>7, <3>1
      DEF TagInv, Sound, Releasing, Commit
    <3> QED
      BY <2>3, <3>2, <3>3, <3>4, <3>5, <3>6 DEF IInv
  <2>8. CASE Fail(c)
    <3>1. Leaves(c)
      BY <1>t, <2>1, <2>2, <2>4, <2>5, <2>6
      DEF Leaves, CloneInv, TagInv, Sound, Releasing, Commit
    <3> QED
      BY <2>1, <2>3, <2>4, <2>5, <2>8, <3>1, FailedJob DEF given
  <2> QED
    BY <1>7, <2>7, <2>8 DEF TagClone, c
<1>8. ASSUME NEW r \in Repos, AskForBranch(r) PROVE IInv'
  <2>1. /\ step = "branch" /\ flow = "branch"
        /\ UNCHANGED <<flow, before, head, tag, branch, jumped, today, files, published>>
    BY <1>t, <1>8 DEF AskForBranch, given, github, FlowInv, Flows
  <2>2. WorldOK' /\ HeadInv' /\ PublishedInv' /\ clone \in [Repos -> Clones]
    BY <1>t, <2>1, TypeParts DEF WorldOK, HeadInv, PublishedInv, Commit
  <2>3. CASE clone' = [clone EXCEPT ![r].free = TRUE] /\ UNCHANGED <<step, try, todo>>
    <3>1. /\ clone' \in [Repos -> Clones]
          /\ \A q \in Repos : /\ clone'[q].at = clone[q].at /\ clone'[q].tag = clone[q].tag
                              /\ clone'[q].ahead = clone[q].ahead
      BY <2>2, <2>3 DEF Clones
    <3>2. TypeOK'
      BY <1>t, <2>1, <2>2, <2>3, <3>1, TypeParts DEF TypeOK, Steps, Flows
    <3>3. FlowInv' /\ BranchInv'
      BY <1>t, <2>1, <2>3 DEF FlowInv, Flows, BranchInv
    <3>4. CloneInv'
      BY <1>t, <2>1, <2>3, <3>1 DEF CloneInv, Sound
    <3>5. JumpInv' /\ TagInv'
      BY <1>t, <2>1, <2>3, <3>1 DEF JumpInv, TagInv, Releasing
    <3> QED
      BY <2>2, <3>2, <3>3, <3>4, <3>5 DEF IInv
  <2>4. CASE Fail(clone)
    <3>1. Leaves(clone)
      BY <1>t, <2>1 DEF Leaves, CloneInv, Releasing
    <3> QED
      BY <2>1, <2>2, <2>4, <3>1, FailedJob DEF given
  <2> QED
    BY <1>8, <2>3, <2>4 DEF AskForBranch
<1>9. ASSUME NEW r \in Repos, CreateBranch(r) PROVE IInv'
  <2>1. /\ step = "branch" /\ r \in todo /\ flow = "branch"
        /\ UNCHANGED <<flow, before, head, tag, jumped, today, files, published>>
    BY <1>t, <1>9 DEF CreateBranch, given, FlowInv, Flows
  <2>2. clone \in [Repos -> Clones] /\ WorldOK /\ clone[r].at = published[r]
    BY <1>t, <2>1, TypeParts DEF CloneInv, Sound
  <2>3. HeadInv' /\ PublishedInv'
    BY <1>t, <2>1 DEF HeadInv, PublishedInv, Commit
  <2>4. WorldOK'
    <3>1. branch' = branch \/ branch' = [branch EXCEPT ![r].from = clone[r].at]
      BY <1>9 DEF CreateBranch
    <3>2. branch' \in [Repos -> [from : Commit \union {0}, references : BOOLEAN,
                                 others : 0..1]]
      BY <2>2, <3>1 DEF WorldOK, Clones
    <3> QED
      BY <2>1, <2>2, <3>2 DEF WorldOK, Commit
  <2>5. CASE Visit(r) /\ UNCHANGED clone
    <3>1. step' = step /\ todo' = todo \ {r} /\ try' = try
      BY <2>5 DEF Visit
    <3>2. TypeOK'
      BY <1>t, <2>1, <2>2, <2>4, <2>5, <3>1, TypeParts DEF TypeOK, Steps, Flows
    <3>3. FlowInv' /\ CloneInv'
      BY <1>t, <2>1, <2>5, <3>1 DEF FlowInv, Flows, CloneInv, Sound
    <3>4. JumpInv' /\ TagInv'
      BY <1>t, <2>1, <2>5, <3>1 DEF JumpInv, TagInv, Releasing
    <3>5. BranchInv'
      <4>1. branch' = [branch EXCEPT ![r].from = clone[r].at]
        BY <1>9, <2>5, <3>1, <2>1 DEF CreateBranch, Fail
      <4> QED
        BY <1>t, <2>1, <2>2, <3>1, <4>1 DEF BranchInv, WorldOK
    <3> QED
      BY <2>3, <3>2, <3>3, <3>4, <3>5 DEF IInv
  <2>6. CASE Fail(clone)
    <3>1. Leaves(clone)
      BY <1>t, <2>1 DEF Leaves, CloneInv, Releasing
    <3> QED
      BY <2>1, <2>2, <2>3, <2>4, <2>6, <3>1, FailedJob DEF given
  <2> QED
    BY <1>9, <2>5, <2>6 DEF CreateBranch
<1>10. ASSUME NEW r \in Repos, PushReferences(r) PROVE IInv'
  <2>1. /\ step = "references" /\ r \in todo /\ flow = "branch"
        /\ UNCHANGED <<flow, before, head, tag, jumped, today, files, published>>
    BY <1>t, <1>10 DEF PushReferences, given, FlowInv, Flows
  <2>2. clone \in [Repos -> Clones] /\ WorldOK /\ clone[r].at = published[r]
    BY <1>t, <2>1, TypeParts DEF CloneInv, Sound
  <2>3. HeadInv' /\ PublishedInv'
    BY <1>t, <2>1 DEF HeadInv, PublishedInv, Commit
  <2>4. WorldOK'
    <3>1. branch' = branch \/ branch' = [branch EXCEPT ![r].references = TRUE]
      BY <1>10 DEF PushReferences
    <3>2. branch' \in [Repos -> [from : Commit \union {0}, references : BOOLEAN,
                                 others : 0..1]]
      BY <2>2, <3>1 DEF WorldOK, Clones
    <3> QED
      BY <2>1, <2>2, <3>2 DEF WorldOK, Commit
  <2>5. CASE Visit(r) /\ UNCHANGED clone
    <3>1. step' = step /\ todo' = todo \ {r} /\ try' = try
      BY <2>5 DEF Visit
    <3>2. TypeOK'
      BY <1>t, <2>1, <2>2, <2>4, <2>5, <3>1, TypeParts DEF TypeOK, Steps, Flows
    <3>3. FlowInv' /\ CloneInv'
      BY <1>t, <2>1, <2>5, <3>1 DEF FlowInv, Flows, CloneInv, Sound
    <3>4. JumpInv' /\ TagInv'
      BY <1>t, <2>1, <2>5, <3>1 DEF JumpInv, TagInv, Releasing
    <3>5. BranchInv'
      <4>1. \/ r \notin Dependents /\ branch' = branch
            \/ branch' = [branch EXCEPT ![r].references = TRUE]
        BY <1>10, <2>5, <3>1, <2>1 DEF PushReferences, Fail
      <4> QED
        BY <1>t, <2>1, <2>2, <3>1, <4>1 DEF BranchInv, WorldOK
    <3> QED
      BY <2>3, <3>2, <3>3, <3>4, <3>5 DEF IInv
  <2>6. CASE Fail(clone)
    <3>1. Leaves(clone)
      BY <1>t, <2>1 DEF Leaves, CloneInv, Releasing
    <3> QED
      BY <2>1, <2>2, <2>3, <2>4, <2>6, <3>1, FailedJob DEF given
  <2> QED
    BY <1>10, <2>5, <2>6 DEF PushReferences
<1>11. ASSUME NEW r \in Repos, Push(r) PROVE IInv'
  <2>1. TypeOK'
    BY <1>t, <1>11, TagAssumption DEF Push, given, github, TypeOK, Commit
  <2>2. FlowInv'
    BY <1>t, <1>11 DEF Push, given, github, FlowInv, Flows
  <2>3. HeadInv'
    BY <1>t, <1>11, TagAssumption DEF Push, given, github, HeadInv, TypeOK, Commit
  <2>4. PublishedInv'
    BY <1>t, <1>11 DEF Push, given, github, PublishedInv
  <2>5. CloneInv'
    BY <1>t, <1>11 DEF Push, given, github, CloneInv, Sound, TypeOK, Commit, FlowInv,
      HeadInv, PublishedInv
  <2>6. JumpInv'
    BY <1>t, <1>11 DEF Push, given, github, JumpInv, HasVersion, CloneInv, TypeOK,
      Sound, Commit, FlowInv
  <2>7. TagInv'
    BY <1>t, <1>11 DEF Push, given, github, TagInv, CloneInv, Sound, TypeOK, Commit,
      Releasing, FlowInv, HeadInv
  <2>8. BranchInv'
    BY <1>t, <1>11 DEF Push, given, github, BranchInv, CloneInv, Sound, NoBranch,
      TypeOK, FlowInv, PublishedInv, Commit
  <2> QED
    BY <2>1, <2>2, <2>3, <2>4, <2>5, <2>6, <2>7, <2>8 DEF IInv
<1>12. ASSUME NEW r \in Repos, OthersBranch(r) PROVE IInv'
  <2>1. TypeOK'
    BY <1>t, <1>12, TagAssumption DEF OthersBranch, given, github, TypeOK, Commit
  <2>2. FlowInv'
    BY <1>t, <1>12 DEF OthersBranch, given, github, FlowInv, Flows
  <2>3. HeadInv'
    BY <1>t, <1>12, TagAssumption DEF OthersBranch, given, github, HeadInv, TypeOK,
      Commit
  <2>4. PublishedInv'
    BY <1>t, <1>12 DEF OthersBranch, given, github, PublishedInv
  <2>5. CloneInv'
    BY <1>t, <1>12 DEF OthersBranch, given, github, CloneInv, Sound, TypeOK, Commit,
      FlowInv, HeadInv, PublishedInv
  <2>6. JumpInv'
    BY <1>t, <1>12 DEF OthersBranch, given, github, JumpInv, HasVersion, CloneInv,
      TypeOK, Sound, Commit, FlowInv
  <2>7. TagInv'
    BY <1>t, <1>12 DEF OthersBranch, given, github, TagInv, CloneInv, Sound, TypeOK,
      Commit, Releasing, FlowInv, HeadInv
  <2>8. BranchInv'
    BY <1>t, <1>12 DEF OthersBranch, given, github, BranchInv, CloneInv, Sound,
      NoBranch, TypeOK, FlowInv, PublishedInv, Commit
  <2> QED
    BY <2>1, <2>2, <2>3, <2>4, <2>5, <2>6, <2>7, <2>8 DEF IInv
<1>13. CASE GenerateManifest
  <2>1. /\ step = "clone_heads" /\ todo = {} /\ files' = files \union {today}
        /\ UNCHANGED <<flow, before, head, tag, branch, jumped, today, published>>
    BY <1>13 DEF GenerateManifest, given, github
  <2>2. WorldOK' /\ HeadInv' /\ PublishedInv' /\ clone \in [Repos -> Clones]
    BY <1>t, <2>1, TypeParts DEF WorldOK, HeadInv, PublishedInv, Commit
  <2>3. CASE Cardinality(files') = 1
    <3>1. step' = "tag" /\ todo' = Repos /\ UNCHANGED <<try, clone>>
      BY <1>13, <2>3 DEF GenerateManifest
    <3>2. TypeOK'
      BY <1>t, <2>1, <2>2, <3>1, TypeParts DEF TypeOK, Steps, Flows
    <3>3. FlowInv' /\ BranchInv'
      BY <1>t, <2>1, <3>1 DEF FlowInv, Flows, BranchInv
    <3>4. CloneInv'
      BY <1>t, <2>1, <3>1 DEF CloneInv, Sound
    <3>5. JumpInv' /\ TagInv'
      BY <1>t, <2>1, <3>1 DEF JumpInv, TagInv, FlowInv, Flows, Releasing
    <3> QED
      BY <2>2, <3>2, <3>3, <3>4, <3>5 DEF IInv
  <2>4. CASE Cardinality(files') # 1
    <3>1. Leaves(clone)
      BY <1>t, <2>1 DEF Leaves, CloneInv, TagInv, FlowInv, Flows, Releasing
    <3>2. Fail(clone) /\ UNCHANGED given
      BY <1>13, <2>4 DEF GenerateManifest
    <3> QED
      BY <2>1, <2>2, <3>1, <3>2, FailedJob
  <2> QED BY <2>3, <2>4
<1>14. CASE CheckedOut
  <2>1. TypeOK'
    BY <1>t, <1>14, TagAssumption DEF CheckedOut, given, github, TypeOK, Commit
  <2>2. FlowInv'
    BY <1>t, <1>14 DEF CheckedOut, given, github, FlowInv, Flows
  <2>3. HeadInv'
    BY <1>t, <1>14, TagAssumption DEF CheckedOut, given, github, HeadInv, TypeOK, Commit
  <2>4. PublishedInv'
    BY <1>t, <1>14 DEF CheckedOut, given, github, PublishedInv
  <2>5. CloneInv'
    BY <1>t, <1>14 DEF CheckedOut, given, github, CloneInv, Sound, TypeOK, Commit,
      FlowInv, HeadInv, PublishedInv
  <2>6. JumpInv'
    BY <1>t, <1>14 DEF CheckedOut, given, github, JumpInv, HasVersion, CloneInv, TypeOK,
      Sound, Commit, FlowInv, PublishedInv
  <2>7. TagInv'
    BY <1>t, <1>14 DEF CheckedOut, given, github, TagInv, CloneInv, Sound, TypeOK,
      Commit, Releasing, FlowInv, HeadInv
  <2>8. BranchInv'
    BY <1>t, <1>14 DEF CheckedOut, given, github, BranchInv, CloneInv, Sound, NoBranch,
      TypeOK, FlowInv, PublishedInv, Commit
  <2> QED
    BY <2>1, <2>2, <2>3, <2>4, <2>5, <2>6, <2>7, <2>8 DEF IInv
<1>15. CASE Jumped
  <2>1. TypeOK'
    BY <1>t, <1>15, TagAssumption DEF Jumped, given, github, TypeOK, Commit
  <2>2. FlowInv'
    BY <1>t, <1>15 DEF Jumped, given, github, FlowInv, Flows
  <2>3. HeadInv'
    BY <1>t, <1>15, TagAssumption DEF Jumped, given, github, HeadInv, TypeOK, Commit
  <2>4. PublishedInv'
    BY <1>t, <1>15 DEF Jumped, given, github, PublishedInv
  <2>5. CloneInv'
    BY <1>t, <1>15 DEF Jumped, given, github, CloneInv, Sound, TypeOK, Commit, FlowInv,
      HeadInv, PublishedInv
  <2>6. JumpInv'
    BY <1>t, <1>15 DEF Jumped, given, github, JumpInv, HasVersion, CloneInv, TypeOK,
      Sound, Commit, FlowInv
  <2>7. TagInv'
    BY <1>t, <1>15 DEF Jumped, given, github, TagInv, CloneInv, Sound, TypeOK, Commit,
      Releasing, FlowInv, HeadInv
  <2>8. BranchInv'
    BY <1>t, <1>15 DEF Jumped, given, github, BranchInv, CloneInv, Sound, NoBranch,
      TypeOK, FlowInv, PublishedInv, Commit
  <2> QED
    BY <2>1, <2>2, <2>3, <2>4, <2>5, <2>6, <2>7, <2>8 DEF IInv
<1>16. CASE Tagged
  <2>1. TypeOK'
    BY <1>t, <1>16, TagAssumption DEF Tagged, given, github, TypeOK, Commit
  <2>2. FlowInv'
    BY <1>t, <1>16 DEF Tagged, given, github, FlowInv, Flows
  <2>3. HeadInv'
    BY <1>t, <1>16, TagAssumption DEF Tagged, given, github, HeadInv, TypeOK, Commit
  <2>4. PublishedInv'
    BY <1>t, <1>16 DEF Tagged, given, github, PublishedInv
  <2>5. CloneInv'
    BY <1>t, <1>16 DEF Tagged, given, github, CloneInv, Sound, TypeOK, Commit, FlowInv,
      HeadInv, PublishedInv
  <2>6. JumpInv'
    BY <1>t, <1>16 DEF Tagged, given, github, JumpInv, HasVersion, CloneInv, TypeOK,
      Sound, Commit, FlowInv
  <2>7. TagInv'
    BY <1>t, <1>16 DEF Tagged, given, github, TagInv, CloneInv, Sound, TypeOK, Commit,
      Releasing, FlowInv, HeadInv
  <2>8. BranchInv'
    BY <1>t, <1>16 DEF Tagged, given, github, BranchInv, CloneInv, Sound, NoBranch,
      TypeOK, FlowInv, PublishedInv, Commit
  <2> QED
    BY <2>1, <2>2, <2>3, <2>4, <2>5, <2>6, <2>7, <2>8 DEF IInv
<1>17. CASE Upload
  <2>1. /\ step = "upload" /\ files' = {} /\ flow \in {"tag", "release"}
        /\ UNCHANGED <<flow, before, head, tag, branch, jumped, today>>
    BY <1>t, <1>17 DEF Upload, given, github, FlowInv, Flows
  <2>2. clone \in [Repos -> Clones] /\ WorldOK
    BY <1>t, TypeParts
  <2>3. \A r \in Repos : clone[r].at \in Commit /\ ManifestOfClones[r] = clone[r].at
    BY <1>t, <2>1 DEF CloneInv, ManifestOfClones
  <2>4. published' = ManifestOfClones \/ published' = published
    BY <1>17 DEF Upload
  <2>5. WorldOK' /\ HeadInv'
    BY <1>t, <2>1, <2>2, <2>3, <2>4 DEF WorldOK, HeadInv, ManifestOfClones, Commit
  <2>6. PublishedInv'
    BY <1>t, <2>1, <2>3, <2>4 DEF PublishedInv, Commit
  <2>7. CASE flow = "tag" /\ published' = ManifestOfClones
             /\ step' = "done" /\ UNCHANGED <<try, todo, clone>>
    <3>1. TypeOK'
      BY <1>t, <2>1, <2>2, <2>5, <2>7, TypeParts DEF TypeOK, Steps, Flows
    <3>2. FlowInv' /\ BranchInv' /\ JumpInv'
      BY <1>t, <2>1, <2>7 DEF FlowInv, Flows, BranchInv, JumpInv
    <3>3. CloneInv' /\ TagInv'
      BY <1>t, <2>1, <2>3, <2>7 DEF CloneInv, TagInv, Sound, Releasing
    <3> QED
      BY <2>5, <2>6, <3>1, <3>2, <3>3 DEF IInv
  <2>8. CASE flow # "tag" /\ published' = ManifestOfClones
             /\ step' = "checkout_tag" /\ try' = 1 /\ todo' = Repos
             /\ clone' = [r \in Repos |-> NoClone]
    <3>1. clone' \in [Repos -> Clones] /\ \A r \in Repos : clone'[r] = NoClone
      BY <2>8 DEF NoClone, Clones
    <3>2. TypeOK'
      BY <1>t, <2>1, <2>5, <2>8, <3>1, TypeParts, TagAssumption DEF TypeOK, Steps, Flows
    <3>3. FlowInv' /\ BranchInv'
      BY <1>t, <2>1, <2>8 DEF FlowInv, Flows, BranchInv
    <3>4. CloneInv'
      BY <2>8, <3>1 DEF CloneInv, NoClone
    <3>5. JumpInv'
      BY <1>t, <2>1, <2>3, <2>8, <3>1 DEF JumpInv, HasVersion, NoClone
    <3>6. TagInv'
      BY <1>t, <2>1, <2>8 DEF TagInv, Releasing
    <3> QED
      BY <2>5, <2>6, <3>2, <3>3, <3>4, <3>5, <3>6 DEF IInv
  <2>9. CASE Fail(clone)
    <3>1. Leaves(clone)
      BY <1>t, <2>1 DEF Leaves, CloneInv, TagInv, Releasing
    <3> QED
      BY <2>1, <2>2, <2>5, <2>6, <2>9, <3>1, FailedJob DEF given
  <2> QED
    BY <1>17, <2>7, <2>8, <2>9 DEF Upload
<1>18. CASE Branched
  <2>1. TypeOK'
    BY <1>t, <1>18, TagAssumption DEF Branched, given, github, TypeOK, Commit
  <2>2. FlowInv'
    BY <1>t, <1>18 DEF Branched, given, github, FlowInv, Flows
  <2>3. HeadInv'
    BY <1>t, <1>18, TagAssumption DEF Branched, given, github, HeadInv, TypeOK, Commit
  <2>4. PublishedInv'
    BY <1>t, <1>18 DEF Branched, given, github, PublishedInv
  <2>5. CloneInv'
    BY <1>t, <1>18 DEF Branched, given, github, CloneInv, Sound, TypeOK, Commit,
      FlowInv, HeadInv, PublishedInv
  <2>6. JumpInv'
    BY <1>t, <1>18 DEF Branched, given, github, JumpInv, HasVersion, CloneInv, TypeOK,
      Sound, Commit, FlowInv
  <2>7. TagInv'
    BY <1>t, <1>18 DEF Branched, given, github, TagInv, CloneInv, Sound, TypeOK, Commit,
      Releasing, FlowInv, HeadInv
  <2>8. BranchInv'
    BY <1>t, <1>18 DEF Branched, given, github, BranchInv, CloneInv, Sound, NoBranch,
      TypeOK, FlowInv, PublishedInv, Commit
  <2> QED
    BY <2>1, <2>2, <2>3, <2>4, <2>5, <2>6, <2>7, <2>8 DEF IInv
<1>19. CASE ReferencesPushed
  <2>1. TypeOK'
    BY <1>t, <1>19, TagAssumption DEF ReferencesPushed, given, github, TypeOK, Commit
  <2>2. FlowInv'
    BY <1>t, <1>19 DEF ReferencesPushed, given, github, FlowInv, Flows
  <2>3. HeadInv'
    BY <1>t, <1>19, TagAssumption DEF ReferencesPushed, given, github, HeadInv, TypeOK,
      Commit
  <2>4. PublishedInv'
    BY <1>t, <1>19 DEF ReferencesPushed, given, github, PublishedInv
  <2>5. CloneInv'
    BY <1>t, <1>19 DEF ReferencesPushed, given, github, CloneInv, Sound, TypeOK, Commit,
      FlowInv, HeadInv, PublishedInv
  <2>6. JumpInv'
    BY <1>t, <1>19 DEF ReferencesPushed, given, github, JumpInv, HasVersion, CloneInv,
      TypeOK, Sound, Commit, FlowInv
  <2>7. TagInv'
    BY <1>t, <1>19 DEF ReferencesPushed, given, github, TagInv, CloneInv, Sound, TypeOK,
      Commit, Releasing, FlowInv, HeadInv
  <2>8. BranchInv'
    BY <1>t, <1>19 DEF ReferencesPushed, given, github, BranchInv, CloneInv, Sound,
      NoBranch, TypeOK, FlowInv, PublishedInv, Commit
  <2> QED
    BY <2>1, <2>2, <2>3, <2>4, <2>5, <2>6, <2>7, <2>8 DEF IInv
<1>20. CASE Interrupted
  <2>1. WorldOK' /\ HeadInv' /\ PublishedInv' /\ clone \in [Repos -> Clones]
    BY <1>t, <1>20, TypeParts
    DEF Interrupted, WorldOK, HeadInv, PublishedInv, given, github, Commit
  <2>2. Leaves(clone)
    BY <1>t, <1>20
    DEF Interrupted, Leaves, given, github, CloneInv, JumpInv, TagInv, FlowInv, Flows,
        Releasing
  <2> QED
    BY <1>20, <2>1, <2>2, FailedJob DEF Interrupted
<1>21. CASE Midnight
  <2>1. TypeOK'
    BY <1>t, <1>21, TagAssumption DEF Midnight, given, github, TypeOK, Commit
  <2>2. FlowInv'
    BY <1>t, <1>21 DEF Midnight, given, github, FlowInv, Flows
  <2>3. HeadInv'
    BY <1>t, <1>21, TagAssumption DEF Midnight, given, github, HeadInv, TypeOK, Commit
  <2>4. PublishedInv'
    BY <1>t, <1>21 DEF Midnight, given, github, PublishedInv
  <2>5. CloneInv'
    BY <1>t, <1>21 DEF Midnight, given, github, CloneInv, Sound, TypeOK, Commit,
      FlowInv, HeadInv, PublishedInv
  <2>6. JumpInv'
    BY <1>t, <1>21 DEF Midnight, given, github, JumpInv, HasVersion, CloneInv, TypeOK,
      Sound, Commit, FlowInv
  <2>7. TagInv'
    BY <1>t, <1>21 DEF Midnight, given, github, TagInv, CloneInv, Sound, TypeOK, Commit,
      Releasing, FlowInv, HeadInv
  <2>8. BranchInv'
    BY <1>t, <1>21 DEF Midnight, given, github, BranchInv, CloneInv, Sound, NoBranch,
      TypeOK, FlowInv, PublishedInv, Commit
  <2> QED
    BY <2>1, <2>2, <2>3, <2>4, <2>5, <2>6, <2>7, <2>8 DEF IInv
<1>22. CASE UNCHANGED vars
  BY <1>t, <1>22 DEF IInv, vars, given, github, TypeOK, FlowInv, HeadInv, PublishedInv,
    CloneInv, JumpInv, TagInv, BranchInv, Sound, HasVersion, Releasing
<1> QED
  BY <1>1, <1>2, <1>3, <1>4, <1>5, <1>6, <1>7, <1>8, <1>9, <1>10, <1>11, <1>12, <1>13,
    <1>14, <1>15, <1>16, <1>17, <1>18, <1>19, <1>20, <1>21, <1>22 DEF Next, Job

\* The invariant says what the runs check.
LEMMA InvariantIsEnough ==
  IInv => TypeOK /\ AllTagged /\ ManifestMatchesTags /\ BranchesComplete
<1> SUFFICES ASSUME IInv PROVE AllTagged /\ ManifestMatchesTags /\ BranchesComplete
  BY DEF IInv
<1>t. TypeOK /\ FlowInv /\ CloneInv /\ JumpInv /\ TagInv /\ BranchInv
  BY DEF IInv
<1>1. AllTagged
  BY <1>t DEF AllTagged, FlowInv, Flows, JumpInv, TagInv, Releasing
<1>2. ManifestMatchesTags
  BY <1>t DEF ManifestMatchesTags, FlowInv, Flows, CloneInv, Sound, TagInv, Releasing
<1>3. BranchesComplete
  BY <1>t DEF BranchesComplete, BranchInv
<1> QED BY <1>1, <1>2, <1>3

-----------------------------------------------------------------------------

\* The job starts with the tags and the manifest of an earlier one, if any.
LEMMA Initially == Init => IInv
<1> SUFFICES ASSUME Init PROVE IInv
  OBVIOUS
<1>1. /\ flow \in Flows /\ before \subseteq Repos
      /\ step = FirstStep /\ try = 1 /\ todo = Repos /\ files = {} /\ today = 1
      /\ clone = [r \in Repos |-> NoClone]
  BY DEF Init, Flows
<1>2. MaxCommit \in Nat /\ MaxCommit >= 2 /\ LastDay \in Nat \ {0} /\ MaxTries \in Nat \ {0}
  BY TagAssumption
<1>3. /\ head \in [Repos -> Commit] /\ \A r \in Repos : head[r] = 2
      /\ tag \in [Repos -> Commit \union {0}]
      /\ \A r \in Repos : tag[r] = IF r \in before THEN 1 ELSE 0
  BY <1>2 DEF Init, Commit
<1>4. jumped \in [Repos -> {0, 1}]
  BY DEF Init
<1>5. branch \in [Repos -> [from : Commit \union {0}, references : BOOLEAN, others : 0..1]]
  <2>1. NoBranch \in [from : Commit \union {0}, references : BOOLEAN, others : 0..1]
    BY DEF NoBranch
  <2>2. 1 \in Commit
    BY <1>2 DEF Commit
  <2>3. [NoBranch EXCEPT !.from = 1]
          \in [from : Commit \union {0}, references : BOOLEAN, others : 0..1]
    BY <2>1, <2>2
  <2> QED
    BY <2>1, <2>3 DEF Init
<1>6. /\ published \in [Repos -> Commit \union {0}]
      /\ flow # "tag" => \A r \in Repos : published[r] \in Commit
  BY <1>2 DEF Init, NoManifest, Commit
<1>7. clone \in [Repos -> Clones] /\ \A r \in Repos : clone[r] = NoClone
  BY <1>1 DEF Clones, NoClone
<1>8. FlowInv
  BY <1>1 DEF FlowInv, Flows, FirstStep
<1>9. TypeOK
  BY <1>1, <1>2, <1>3, <1>4, <1>5, <1>6, <1>7
  DEF TypeOK, FirstStep, Clones, Flows, Commit
<1>10. HeadInv /\ PublishedInv
  BY <1>2, <1>3, <1>6 DEF HeadInv, PublishedInv
<1>11. CloneInv
  BY <1>1, <1>7 DEF CloneInv, FirstStep, NoClone
<1>12. JumpInv
  BY <1>1, <1>4, <1>7, <1>8 DEF JumpInv, FirstStep, NoClone
<1>13. TagInv /\ BranchInv
  BY <1>1, <1>3 DEF TagInv, BranchInv, FirstStep, Releasing
<1> QED
  BY <1>8, <1>9, <1>10, <1>11, <1>12, <1>13 DEF IInv

\* The invariant holds in every state of every job.
THEOREM JobInvariant == Spec => []IInv
BY Initially, Preserved, PTL DEF Spec

\* Everything has its type, and retry() makes no more attempts than it is given.
THEOREM TypeCorrect == Spec => []TypeOK
BY JobInvariant, InvariantIsEnough, PTL

\* A tagging job that succeeds has tagged every repository on GitHub, whichever pushes
\* were lost, and what a release has tagged bears the new version: set_repo_tagname and
\* push_repo_changes under the retries of create_tag.groovy.
THEOREM AllAreTagged == Spec => []AllTagged
BY JobInvariant, InvariantIsEnough, PTL

\* A release that succeeds has the tags at the commits of the manifest it has uploaded,
\* and so has a sprint tag at its first try; after retries no repository is older in the
\* manifest than its tag.
THEOREM ManifestIsOfTheTags == Spec => []ManifestMatchesTags
BY JobInvariant, InvariantIsEnough, PTL

\* A run of the branch action that succeeds has the branch in every repository, from the
\* manifest's commit on and with its references, whatever others do to the branches.
THEOREM BranchesAreComplete == Spec => []BranchesComplete
BY JobInvariant, InvariantIsEnough, PTL
=============================================================================
