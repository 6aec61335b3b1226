---------------------------- MODULE GitHubProofs -----------------------------
(***************************************************************************)
(* Proofs about the two components that act on what GitHub answers: the    *)
(* pull request gate (first part) and the tag monitor (second part).  Both *)
(* follow data that people write: the gate what the texts of pull requests *)
(* ask for, the monitor which tags there are.  Both proofs rest on the     *)
(* lemma that a set of numbers has a least element, which takes the place  *)
(* of an induction over the data: a least counterexample is refuted.       *)
(*                                                                         *)
(* The gate's invariant needs more than what the properties say.  The      *)
(* crawl holds three sequences, and what is complete at its end is, on the *)
(* way, complete but for the PRs that are still to be parsed               *)
(* (CompleteInv).  An entry with the number of another PR is one that      *)
(* GitHub has not answered for (RefInv).  Who is under test was            *)
(* interdependent when the manifest was made, and still is (UnderTestInv). *)
(***************************************************************************)
EXTENDS PrGate, TagMonitor, FiniteSetTheorems, WellFoundedInduction, TLAPS

Numbers == {p[2] : p \in PRs}

\* The entries of the crawl are of pull requests, and refer to the number of one.
PrEntries == {e \in Entries : PrOf(e) \in PRs /\ e.ref \in Numbers}

\* The crawl has not been broken off.
Sound == step = "crawl" \/ Parsed

\* The sequences of the crawl: a level is part of what has been found before, and only an
\* ignored root leaves nothing.
FrontInv ==
  /\ level \in Seq(PrEntries) /\ found \in Seq(PrEntries) /\ prs \in Seq(PrEntries)
  /\ Len(level) <= Len(prs) /\ ToSet(level) \subseteq ToSet(prs)
  /\ prs = <<>> \/ (Len(prs) = 1 /\ level # <<>>) => found = <<>>
  /\ prs # <<>> => Root \in CrawledPrs
  /\ Parsed => level = <<>> /\ found = <<>>

\* No result before the tests, no status before the result, and nobody under test before
\* the manifest is made.
StageInv ==
  /\ status # {} => step \in {"write back", "ended"}
  /\ step = "write back" => result # "none"
  /\ manifest \in [Known -> [commit : Nat \union {BranchHead}, under : BOOLEAN]]
  /\ step \in {"crawl", "rejected"} => \A r \in Known : ~manifest[r].under

\* What is found is mentioned, and each link is a dependency that a text asks for.
MentionedInv ==
  /\ \A e \in ToSet(prs) \union ToSet(found) : PrOf(e) \in Mentioned
  /\ \A p \in links : p[2] \in DependsOn(p[1])

\* What a PR asks for is found, unless it is merged or the PR is still to be parsed.
CompleteInv ==
  Sound =>
    \A e \in ToSet(prs) :
      \/ e \in ToSet(level)
      \/ text[PrOf(e)].ignore
      \/ \A d \in ToSet(text[PrOf(e)].deps) :
           \/ \E g \in ToSet(prs) \union ToSet(found) : PrOf(g) = d
           \/ pull[d] = "merged"

\* While GitHub answers, only a PR that does not exist is entered with the number of
\* another, and the parser stops when it comes to it.
RefInv ==
  ~flaky =>
    /\ \A e \in ToSet(prs) \union ToSet(found) :
         e.ref = e.number \/ pull[PrOf(e)] = "missing"
    /\ Sound => \A e \in ToSet(prs) : pull[PrOf(e)] = "missing" => e \in ToSet(level)

\* Who is under test is interdependent with the root and used under the number of an
\* entry; who has a status is under test.
UnderTestInv ==
  /\ \A r \in Known : manifest[r].under =>
       /\ r \in Interdependent
       /\ \E e \in ToSet(prs) : e.repo = r /\ e.ref = manifest[r].commit
  /\ \A s \in status : s[1] \in Targets

GateInv ==
  /\ TypeOK /\ FrontInv /\ StageInv
  /\ MentionedInv /\ CompleteInv /\ RefInv /\ UnderTestInv

-----------------------------------------------------------------------------

\* A set of numbers that is not empty has a least one.
LEMMA Least ==
  ASSUME NEW S, S \subseteq Nat, S # {}
  PROVE  \E x \in S : \A y \in S : x =< y
<1> DEFINE R == {p \in Nat \X Nat : p[1] < p[2]}
<1>1. IsWellFoundedOn(R, Nat)
  BY NatLessThanWellFounded DEF OpToRel
<1>2. PICK x \in S : \A y \in S : <<y, x>> \notin R
  BY <1>1, WFMin
<1>3. ASSUME NEW y \in S PROVE x =< y
  <2>1. <<y, x>> \in Nat \X Nat /\ <<y, x>> \notin R
    BY <1>2
  <2>2. ~ (y < x)
    BY <2>1
  <2> QED BY <2>2
<1> QED
  BY <1>3

\* A set of indices that is not empty has a greatest one.
LEMMA Greatest ==
  ASSUME NEW n \in Nat, NEW S, S \subseteq 1..n, S # {}
  PROVE  Max(S) \in S /\ \A y \in S : y <= Max(S)
<1> DEFINE above == {m \in 1..n : \A y \in S : y <= m}
<1>1. n \in above /\ above \subseteq Nat
  <2>1. PICK y \in S : y \in 1..n
    OBVIOUS
  <2> QED BY <2>1
<1>2. PICK m \in above : \A a \in above : m <= a
  <2> HIDE DEF above
  <2> QED BY <1>1, Least
<1>3. m \in S
  <2> SUFFICES ASSUME m \notin S PROVE FALSE
    OBVIOUS
  <2>1. \A y \in S : y <= m - 1
    BY <1>2
  <2>2. PICK y \in S : TRUE
    OBVIOUS
  <2>3. m - 1 \in above
    BY <2>1, <2>2
  <2> QED BY <2>3, <1>2
<1>4. \E x \in S : \A y \in S : x >= y
  BY <1>2, <1>3
<1> QED
  BY <1>4 DEF Max

\* Nth numbers a set of indices: each number gives one of them, each of them has one.
LEMMA NthProperty ==
  ASSUME NEW n \in Nat, NEW I, I \subseteq 1..n
  PROVE  /\ Cardinality(I) \in Nat
         /\ \A k \in 1..Cardinality(I) : Nth(I, k) \in I
         /\ \A i \in I : \E k \in 1..Cardinality(I) : Nth(I, k) = i
<1> DEFINE upTo(i) == {j \in I : j <= i}
           N == Cardinality(I)
           place == [i \in I |-> Cardinality(upTo(i))]
<1>1. IsFiniteSet(I) /\ N \in Nat
  <2>1. IsFiniteSet(1..n)
    BY FS_Interval
  <2> QED BY <2>1, FS_Subset, FS_CardinalityType
<1>2. ASSUME NEW i \in I
      PROVE  IsFiniteSet(upTo(i)) /\ Cardinality(upTo(i)) \in 1..N
  <2>1. upTo(i) \in SUBSET I /\ i \in upTo(i)
    OBVIOUS
  <2>2. IsFiniteSet(upTo(i)) /\ Cardinality(upTo(i)) <= N
    BY <1>1, <2>1, FS_Subset
  <2>3. Cardinality(upTo(i)) \in Nat /\ Cardinality(upTo(i)) # 0
    BY <2>1, <2>2, FS_CardinalityType, FS_EmptySet
  <2> HIDE DEF upTo, N
  <2> QED BY <1>1, <2>2, <2>3
<1>3. ASSUME NEW i \in I, NEW j \in I, i < j
      PROVE  Cardinality(upTo(i)) # Cardinality(upTo(j))
  <2>1. i \in Int /\ j \in Int /\ I \subseteq Int
    OBVIOUS
  <2>2. ASSUME NEW x \in upTo(i) PROVE x \in upTo(j)
    BY <1>3, <2>1
  <2>3. j \notin upTo(i) /\ j \in upTo(j)
    BY <1>3, <2>1
  <2>4. upTo(i) \in SUBSET upTo(j) /\ upTo(i) # upTo(j)
    BY <2>2, <2>3
  <2> HIDE DEF upTo
  <2> QED BY <1>2, <2>4, FS_Subset
<1>4. place \in [I -> 1..N]
  <2> HIDE DEF upTo, N
  <2> QED BY <1>2
<1>5. ASSUME NEW i \in I, NEW j \in I, place[i] = place[j]
      PROVE  i = j
  <2>1. ~(i < j) /\ ~(j < i)
    <3> HIDE DEF upTo
    <3> QED BY <1>3, <1>5
  <2> QED BY <2>1
<1>6. \A k \in 1..N : \E i \in I : place[i] = k
  <2> HIDE DEF place, N
  <2>1. place \in Injection(I, 1..N)
    BY <1>4, <1>5 DEF Injection, IsInjective
  <2>2. IsFiniteSet(1..N) /\ Cardinality(1..N) = N
    BY <1>1, FS_Interval
  <2>3. place \in Surjection(I, 1..N)
    BY <2>1, <2>2, FS_Injection DEF N
  <2> QED BY <2>3 DEF Surjection
<1>7. ASSUME NEW k \in 1..N
      PROVE  Nth(I, k) \in I /\ place[Nth(I, k)] = k
  <2>1. PICK i \in I : Cardinality(upTo(i)) = k
    BY <1>6
  <2> QED BY <2>1 DEF Nth
<1>8. ASSUME NEW i \in I
      PROVE  \E k \in 1..N : Nth(I, k) = i
  <2>1. place[i] \in 1..N
    BY <1>4
  <2>2. Nth(I, place[i]) \in I /\ place[Nth(I, place[i])] = place[i]
    BY <1>7, <2>1
  <2>3. Nth(I, place[i]) = i
    <3> HIDE DEF place
    <3> QED BY <1>5, <2>2
  <2> HIDE DEF place, N
  <2> QED BY <2>1, <2>3
<1> QED
  BY <1>1, <1>7, <1>8

\* The rounds of Reached exist: the first has x, each other adds what the one before it
\* leads to.
Round(R, S) == S \union {p[2] : p \in {q \in R : q[1] \in S}}

IsRounds(f, x, R, n) ==
  f = [k \in 0..n |-> IF k = 0 THEN {x} ELSE Round(R, f[k - 1])]

LEMMA RoundsExist ==
  ASSUME NEW x, NEW R, NEW n \in Nat
  PROVE  \E f : IsRounds(f, x, R, n)
<1> DEFINE Rounds(f, m) == f = [k \in 0..m |-> IF k = 0 THEN {x} ELSE Round(R, f[k - 1])]
           missing == {m \in Nat : ~ \E f : Rounds(f, m)}
<1>1. missing = {}
  <2> SUFFICES ASSUME missing # {} PROVE FALSE
    OBVIOUS
  <2>1. PICK m \in missing : \A l \in missing : m <= l
    <3>1. missing \subseteq Nat
      OBVIOUS
    <3> HIDE DEF missing
    <3> QED BY <3>1, Least
  <2>2. m \in Nat /\ ~ \E f : Rounds(f, m)
    BY <2>1
  <2>3. m # 0
    <3> SUFFICES ASSUME m = 0 PROVE FALSE
      OBVIOUS
    <3> DEFINE f == [k \in 0..0 |-> {x}]
    <3>1. Rounds(f, 0)
      OBVIOUS
    <3> QED BY <2>2, <3>1
  <2>4. m - 1 \in Nat /\ m - 1 \notin missing
    <3> HIDE DEF missing
    <3>1. m - 1 \in Nat /\ ~(m <= m - 1)
      BY <2>2, <2>3
    <3> QED BY <2>1, <3>1
  <2>5. PICK f : Rounds(f, m - 1)
    BY <2>4
  <2> DEFINE g == [k \in 0..m |-> IF k = m THEN Round(R, f[m - 1]) ELSE f[k]]
             h == [k \in 0..m |-> IF k = 0 THEN {x} ELSE Round(R, g[k - 1])]
  <2>6. ASSUME NEW k \in 0..m PROVE g[k] = h[k]
    <3>1. CASE k = m
      <4>1. g[m - 1] = f[m - 1] /\ k # 0
        BY <2>2, <2>3, <3>1
      <4> QED BY <2>2, <3>1, <4>1
    <3>2. CASE k # m
      <4>1. k \in 0..(m - 1)
        BY <2>2, <3>2
      <4>2. k # 0 => k - 1 \in 0..m /\ k - 1 # m
        BY <2>2, <4>1
      <4>3. k # 0 => g[k - 1] = f[k - 1]
        BY <4>2
      <4>4. f[k] = IF k = 0 THEN {x} ELSE Round(R, f[k - 1])
        BY <2>5, <4>1
      <4>5. g[k] = f[k]
        BY <3>2
      <4> QED BY <4>3, <4>4, <4>5
    <3> QED BY <3>1, <3>2
  <2>7. g = h
    BY <2>6
  <2> QED BY <2>2, <2>7
<1> QED
  BY <1>1 DEF IsRounds

\* Reached is the last round of a function that is what its definition says.
InRounds(f, x, R, n) ==
  /\ f[0] = {x}
  /\ \A k \in 1..n : f[k] = Round(R, f[k - 1])
  /\ Reached(x, R, n) = f[n]

LEMMA ReachedRounds ==
  ASSUME NEW x, NEW R, NEW n \in Nat
  PROVE  \E f : InRounds(f, x, R, n)
<1> DEFINE f == CHOOSE f : IsRounds(f, x, R, n)
<1>1. IsRounds(f, x, R, n)
  BY RoundsExist
<1>2. Reached(x, R, n) = f[n]
  BY DEF Reached, Round, IsRounds
<1> HIDE DEF f
<1>3. f[0] = {x}
  BY <1>1 DEF IsRounds
<1>4. ASSUME NEW k \in 1..n PROVE f[k] = Round(R, f[k - 1])
  <2>1. k \in 0..n /\ k # 0
    OBVIOUS
  <2> QED BY <1>1, <2>1 DEF IsRounds
<1> QED
  BY <1>2, <1>3, <1>4 DEF InRounds

\* What is reached is in every set that has x and is closed under R.
LEMMA ReachedIsLeast ==
  ASSUME NEW x, NEW R, NEW n \in Nat, NEW S, x \in S,
         \A p \in R : p[1] \in S => p[2] \in S
  PROVE  Reached(x, R, n) \subseteq S
<1>0. PICK f : InRounds(f, x, R, n)
  BY ReachedRounds
<1>1. /\ f[0] = {x}
      /\ \A k \in 1..n : f[k] = Round(R, f[k - 1])
      /\ Reached(x, R, n) = f[n]
  BY <1>0 DEF InRounds
<1> DEFINE outside == {k \in 0..n : ~(f[k] \subseteq S)}
<1>2. outside = {}
  <2> SUFFICES ASSUME outside # {} PROVE FALSE
    OBVIOUS
  <2>1. PICK k \in outside : \A l \in outside : k <= l
    <3>1. outside \subseteq Nat
      OBVIOUS
    <3> HIDE DEF outside
    <3> QED BY <3>1, Least
  <2>2. k \in 0..n /\ ~(f[k] \subseteq S)
    BY <2>1
  <2>3. k \in 1..n
    BY <1>1, <2>2
  <2>4. k - 1 \in 0..n /\ k - 1 \notin outside
    <3> HIDE DEF outside
    <3>1. k - 1 \in 0..n /\ ~(k <= k - 1)
      BY <2>3
    <3> QED BY <2>1, <3>1
  <2>5. f[k - 1] \subseteq S
    BY <2>4
  <2>6. Round(R, f[k - 1]) \subseteq S
    BY <2>5 DEF Round
  <2> QED BY <1>1, <2>2, <2>3, <2>6
<1> QED
  BY <1>1, <1>2

\* As many rounds as there are elements are enough: what is reached is closed under R.
LEMMA ReachedIsClosed ==
  ASSUME NEW U, IsFiniteSet(U), NEW x \in U, NEW R, R \subseteq U \X U,
         NEW n \in Nat, n = Cardinality(U)
  PROVE  /\ x \in Reached(x, R, n)
         /\ \A p \in R : p[1] \in Reached(x, R, n) => p[2] \in Reached(x, R, n)
<1>0. PICK f : InRounds(f, x, R, n)
  BY ReachedRounds
<1>2. /\ f[0] = {x}
      /\ \A k \in 1..n : f[k] = Round(R, f[k - 1])
      /\ Reached(x, R, n) = f[n]
  BY <1>0 DEF InRounds
<1> DEFINE bad == {k \in 0..n : ~(x \in f[k] /\ f[k] \subseteq U)}
<1>3. bad = {}
  <2> SUFFICES ASSUME bad # {} PROVE FALSE
    OBVIOUS
  <2>1. PICK k \in bad : \A l \in bad : k <= l
    <3>1. bad \subseteq Nat
      OBVIOUS
    <3> HIDE DEF bad
    <3> QED BY <3>1, Least
  <2>2. k \in 0..n /\ ~(x \in f[k] /\ f[k] \subseteq U)
    BY <2>1
  <2>3. k \in 1..n
    BY <1>2, <2>2
  <2>4. k - 1 \in 0..n /\ k - 1 \notin bad
    <3> HIDE DEF bad
    <3>1. k - 1 \in 0..n /\ ~(k <= k - 1)
      BY <2>3
    <3> QED BY <2>1, <3>1
  <2>5. x \in f[k - 1] /\ f[k - 1] \subseteq U
    BY <2>4
  <2>6. x \in Round(R, f[k - 1]) /\ Round(R, f[k - 1]) \subseteq U
    BY <2>5 DEF Round
  <2> QED BY <1>2, <2>2, <2>3, <2>6
<1> DEFINE closed(S) == \A p \in R : p[1] \in S => p[2] \in S
\* A round either adds something or finds everything closed.
<1>4. ASSUME NEW k \in 1..n
      PROVE  /\ f[k - 1] \subseteq f[k]
             /\ f[k] = f[k - 1] => closed(f[k - 1])
             /\ closed(f[k - 1]) => f[k] = f[k - 1]
  <2>1. f[k] = Round(R, f[k - 1])
    BY <1>2
  <2>2. f[k - 1] \subseteq f[k]
    BY <2>1 DEF Round
  <2>3. ASSUME f[k] = f[k - 1], NEW p \in R, p[1] \in f[k - 1]
        PROVE  p[2] \in f[k - 1]
    <3>1. p[2] \in Round(R, f[k - 1])
      BY <2>3 DEF Round
    <3> QED BY <2>1, <2>3, <3>1
  <2>4. ASSUME closed(f[k - 1]) PROVE f[k] = f[k - 1]
    BY <2>1, <2>4 DEF Round
  <2> QED BY <2>2, <2>3, <2>4
\* Rounds that have not ended have as many elements at least as their number says.
<1> DEFINE few == {k \in 0..n : ~(closed(f[k]) \/ Cardinality(f[k]) >= k + 1)}
<1>5. few = {}
  <2> SUFFICES ASSUME few # {} PROVE FALSE
    OBVIOUS
  <2>1. PICK k \in few : \A l \in few : k <= l
    <3>1. few \subseteq Nat
      OBVIOUS
    <3> HIDE DEF few
    <3> QED BY <3>1, Least
  <2>2. k \in 0..n /\ ~closed(f[k]) /\ ~(Cardinality(f[k]) >= k + 1)
    BY <2>1
  <2>3. k # 0
    <3> SUFFICES ASSUME k = 0 PROVE FALSE
      OBVIOUS
    <3>1. Cardinality(f[0]) = 1
      BY <1>2, FS_Singleton
    <3> QED BY <2>2, <3>1
  <2>4. k \in 1..n /\ k - 1 \in 0..n /\ k - 1 \notin few
    <3> HIDE DEF few, closed
    <3>1. k \in 1..n /\ k - 1 \in 0..n /\ ~(k <= k - 1)
      BY <2>2, <2>3
    <3> QED BY <2>1, <3>1
  <2>5. closed(f[k - 1]) \/ Cardinality(f[k - 1]) >= (k - 1) + 1
    BY <2>4
  <2> HIDE DEF few, closed
  <2>6. f[k - 1] \subseteq f[k] /\ f[k] # f[k - 1] /\ ~closed(f[k - 1])
    BY <1>4, <2>2, <2>4
  <2>7. f[k] \subseteq U /\ IsFiniteSet(f[k]) /\ Cardinality(f[k]) \in Nat
    BY <1>3, <2>2, FS_Subset, FS_CardinalityType
  <2>8. IsFiniteSet(f[k - 1]) /\ Cardinality(f[k - 1]) \in Nat
    BY <2>6, <2>7, FS_Subset, FS_CardinalityType
  <2>9. Cardinality(f[k - 1]) <= Cardinality(f[k]) /\ Cardinality(f[k - 1]) # Cardinality(f[k])
    BY <2>6, <2>7, FS_Subset
  <2> QED BY <2>2, <2>4, <2>5, <2>6, <2>7, <2>8, <2>9
<1>6. n \in 0..n /\ f[n] \subseteq U /\ x \in f[n]
  BY <1>3
<1>7. Cardinality(f[n]) <= n /\ Cardinality(f[n]) \in Nat
  BY <1>6, FS_Subset, FS_CardinalityType
<1>8. closed(f[n])
  <2>1. ~(Cardinality(f[n]) >= n + 1)
    BY <1>7
  <2>2. n \notin few
    BY <1>5
  <2> HIDE DEF closed
  <2> QED BY <1>6, <2>1, <2>2
<1> QED
  BY <1>2, <1>6, <1>8

-----------------------------------------------------------------------------

\* A PR is its repository and its number, and an entry for it says which it is.
LEMMA EntryProperty ==
  ASSUME NEW pr \in PRs, NEW n \in Numbers
  PROVE  /\ Entry(pr, n) \in PrEntries /\ PrOf(Entry(pr, n)) = pr
         /\ pr[1] \in Repos /\ pr[2] \in Nat \ {0} /\ n \in Nat \ {0}
         /\ Entry(pr, n).repo = pr[1] /\ Entry(pr, n).ref = n /\ Entry(pr, n).number = pr[2]
<1>1. pr \in Repos \X (Nat \ {0})
  BY GateAssumption
<1>2. /\ pr = <<pr[1], pr[2]>> /\ pr[1] \in Repos /\ pr[2] \in Nat \ {0}
      /\ n \in Nat \ {0}
  BY <1>1, GateAssumption DEF Numbers
<1>3. /\ Entry(pr, n).repo = pr[1] /\ Entry(pr, n).ref = n /\ Entry(pr, n).number = pr[2]
      /\ Entry(pr, n) \in Entries
  BY <1>2 DEF Entry, Entries
<1>4. PrOf(Entry(pr, n)) = pr
  BY <1>2, <1>3 DEF PrOf
<1> QED
  BY <1>2, <1>3, <1>4 DEF PrEntries

\* What a PR asks for are PRs.
LEMMA TextProperty ==
  ASSUME text \in Texts, NEW p \in PRs
  PROVE  text[p].deps \in Seq(PRs) /\ text[p].ignore \in BOOLEAN
BY GateAssumption

\* A concatenation has the elements of both sequences.
LEMMA ConcatSet ==
  ASSUME NEW S, NEW s \in Seq(S), NEW t \in Seq(S)
  PROVE  s \o t \in Seq(S) /\ ToSet(s \o t) = ToSet(s) \union ToSet(t)
<1>1. /\ s \o t \in Seq(S) /\ Len(s \o t) = Len(s) + Len(t)
      /\ \A i \in 1..Len(s \o t) :
           (s \o t)[i] = IF i <= Len(s) THEN s[i] ELSE t[i - Len(s)]
  OBVIOUS
<1>2. ASSUME NEW e \in ToSet(s) PROVE e \in ToSet(s \o t)
  <2>1. PICK i \in 1..Len(s) : e = s[i]
    BY DEF ToSet
  <2>2. i \in 1..Len(s \o t) /\ (s \o t)[i] = e
    BY <1>1, <2>1
  <2> QED BY <1>1, <2>2 DEF ToSet
<1>3. ASSUME NEW e \in ToSet(t) PROVE e \in ToSet(s \o t)
  <2>1. PICK i \in 1..Len(t) : e = t[i]
    BY DEF ToSet
  <2>2. Len(s) + i \in 1..Len(s \o t) /\ ~(Len(s) + i <= Len(s)) /\ Len(s) + i - Len(s) = i
    BY <1>1, <2>1
  <2>3. (s \o t)[Len(s) + i] = e
    BY <1>1, <2>1, <2>2
  <2> QED BY <1>1, <2>2, <2>3 DEF ToSet
<1>4. ASSUME NEW e \in ToSet(s \o t) PROVE e \in ToSet(s) \union ToSet(t)
  <2>1. PICK i \in 1..Len(s \o t) : e = (s \o t)[i]
    BY <1>1 DEF ToSet
  <2>2. CASE i <= Len(s)
    BY <1>1, <2>1, <2>2 DEF ToSet
  <2>3. CASE ~(i <= Len(s))
    <3>1. i - Len(s) \in 1..Len(t) /\ e = t[i - Len(s)]
      BY <1>1, <2>1, <2>3
    <3> QED BY <3>1 DEF ToSet
  <2> QED BY <2>2, <2>3
<1> QED
  BY <1>1, <1>2, <1>3, <1>4

\* A sequence that is not empty has its head, the elements of its tail, and no others.
LEMMA HeadTailSet ==
  ASSUME NEW S, NEW s \in Seq(S), s # <<>>
  PROVE  /\ Head(s) \in S /\ Tail(s) \in Seq(S) /\ Len(Tail(s)) = Len(s) - 1
         /\ ToSet(s) = {Head(s)} \union ToSet(Tail(s))
<1>1. /\ Head(s) = s[1] /\ Head(s) \in S /\ Tail(s) \in Seq(S)
      /\ Len(Tail(s)) = Len(s) - 1 /\ Len(s) \in Nat /\ Len(s) >= 1
      /\ \A i \in 1..Len(Tail(s)) : Tail(s)[i] = s[i + 1]
  OBVIOUS
<1>2. ASSUME NEW e \in ToSet(s) PROVE e = Head(s) \/ e \in ToSet(Tail(s))
  <2>1. PICK i \in 1..Len(s) : e = s[i]
    BY DEF ToSet
  <2>2. CASE i = 1
    BY <1>1, <2>1, <2>2
  <2>3. CASE i # 1
    <3>1. i - 1 \in 1..Len(Tail(s)) /\ Tail(s)[i - 1] = s[i]
      BY <1>1, <2>1, <2>3
    <3>2. i - 1 \in DOMAIN Tail(s)
      BY <1>1, <3>1
    <3> QED BY <2>1, <3>1, <3>2 DEF ToSet
  <2> QED BY <2>2, <2>3
<1>3. ASSUME NEW e \in ToSet(Tail(s)) PROVE e \in ToSet(s)
  <2>1. PICK i \in 1..Len(Tail(s)) : e = Tail(s)[i]
    BY <1>1 DEF ToSet
  <2>2. i + 1 \in 1..Len(s) /\ e = s[i + 1]
    BY <1>1, <2>1
  <2> QED BY <2>2 DEF ToSet
<1>4. Head(s) \in ToSet(s)
  BY <1>1 DEF ToSet
<1> QED
  BY <1>1, <1>2, <1>3, <1>4

\* The elements of a sequence over S are in S.
LEMMA ElementsOf ==
  ASSUME NEW S, NEW s \in Seq(S)
  PROVE  ToSet(s) \subseteq S
BY DEF ToSet

\* NewOnly keeps what all_prs does not hold.
LEMMA NewOnlyProperty ==
  ASSUME NEW S, NEW s \in Seq(S)
  PROVE  NewOnly(s) \in Seq(S) /\ ToSet(NewOnly(s)) = ToSet(s) \ ToSet(prs)
<1> DEFINE new == {i \in DOMAIN s : s[i] \notin ToSet(prs)}
           N == Cardinality(new)
<1>1. Len(s) \in Nat /\ DOMAIN s = 1..Len(s) /\ \A i \in 1..Len(s) : s[i] \in S
  OBVIOUS
<1>2. /\ N \in Nat
      /\ \A k \in 1..N : Nth(new, k) \in new
      /\ \A i \in new : \E k \in 1..N : Nth(new, k) = i
  <2>1. new \subseteq 1..Len(s)
    BY <1>1
  <2> HIDE DEF new
  <2> QED BY <1>1, <2>1, NthProperty DEF N
<1>3. NewOnly(s) = [k \in 1..N |-> s[Nth(new, k)]]
  BY DEF NewOnly
<1> HIDE DEF N
<1>4. ASSUME NEW k \in 1..N
      PROVE  /\ s[Nth(new, k)] \in S
             /\ s[Nth(new, k)] \in ToSet(s) \ ToSet(prs)
  <2>1. Nth(new, k) \in new
    BY <1>2
  <2> QED BY <1>1, <2>1 DEF ToSet
<1>5. ASSUME NEW e \in ToSet(s) \ ToSet(prs)
      PROVE  \E k \in 1..N : s[Nth(new, k)] = e
  <2>1. PICK i \in DOMAIN s : e = s[i]
    BY DEF ToSet
  <2>2. i \in new
    BY <2>1
  <2> QED BY <1>2, <2>1, <2>2
<1> HIDE DEF new
<1>6. NewOnly(s) \in Seq(S)
  BY <1>2, <1>3, <1>4
<1>7. ToSet(NewOnly(s)) = {s[Nth(new, k)] : k \in 1..N}
  BY <1>3 DEF ToSet
<1> QED
  BY <1>4, <1>5, <1>6, <1>7

\* What parse_pr returns: PRs that the text asks for, all but the merged ones.  One with
\* the number of another is one that GitHub has not answered for.
LEMMA RelatedProperty ==
  ASSUME pull \in [PRs -> PullStates], NEW deps \in Seq(PRs),
         NEW answer \in Answers(deps), ~Unbound(answer)
  PROVE  /\ Related(deps, answer) \in Seq(PrEntries)
         /\ \A e \in ToSet(Related(deps, answer)) :
              /\ PrOf(e) \in ToSet(deps)
              /\ e.ref = e.number \/ flaky \/ pull[PrOf(e)] = "missing"
         /\ \A d \in ToSet(deps) :
              \/ \E e \in ToSet(Related(deps, answer)) : PrOf(e) = d
              \/ pull[d] = "merged"
<1> DEFINE kept == KeptIndices(answer)
           N == Cardinality(kept)
           E(i) == Entry(deps[i], Ref(deps, answer, i))
<1>1. /\ Len(deps) \in Nat /\ DOMAIN deps = 1..Len(deps)
      /\ \A i \in 1..Len(deps) : deps[i] \in PRs
  OBVIOUS
<1>2. /\ answer \in [1..Len(deps) -> {"open", "conflict", "merged", "error"}]
      /\ \A i \in 1..Len(deps) :
           \/ answer[i] = pull[deps[i]]
           \/ answer[i] = "error" /\ (flaky \/ pull[deps[i]] = "missing")
  BY <1>1 DEF Answers
<1>3. /\ N \in Nat
      /\ \A k \in 1..N : Nth(kept, k) \in kept
      /\ \A i \in kept : \E k \in 1..N : Nth(kept, k) = i
  <2>1. kept \subseteq 1..Len(deps)
    BY <1>2 DEF KeptIndices
  <2> HIDE DEF kept
  <2> QED BY <1>1, <2>1, NthProperty DEF N
<1>4. Related(deps, answer) = [k \in 1..N |-> E(Nth(kept, k))]
  BY DEF Related
<1>5. ASSUME NEW i \in kept
      PROVE  /\ i \in 1..Len(deps)
             /\ E(i) \in PrEntries /\ PrOf(E(i)) = deps[i] /\ deps[i] \in PRs
             /\ E(i).ref = E(i).number \/ flaky \/ pull[PrOf(E(i))] = "missing"
  <2>1. i \in 1..Len(deps) /\ answer[i] \in {"open", "conflict", "error"}
    BY <1>2 DEF KeptIndices, Kept
  <2>2. SetSha(answer, i) \subseteq 1..i /\ i \in Nat
    BY <2>1 DEF SetSha
  <2>3. SetSha(answer, i) # {}
    <3>1. CASE answer[i] = "error"
      BY <1>2, <2>1, <3>1 DEF Unbound
    <3>2. CASE answer[i] \in {"open", "conflict"}
      <4>1. i \in SetSha(answer, i)
        BY <2>1, <3>2 DEF SetSha
      <4> QED BY <4>1
    <3> QED BY <2>1, <3>1, <3>2
  <2>4. /\ Max(SetSha(answer, i)) \in SetSha(answer, i)
        /\ \A j \in SetSha(answer, i) : j <= Max(SetSha(answer, i))
    BY <2>2, <2>3, Greatest
  <2>5. Max(SetSha(answer, i)) \in 1..Len(deps) /\ Max(SetSha(answer, i)) <= i
    BY <1>1, <2>1, <2>2, <2>4
  <2>6. deps[i] \in PRs /\ deps[Max(SetSha(answer, i))] \in PRs
    BY <1>1, <2>1, <2>5
  <2>7. Ref(deps, answer, i) \in Numbers
    BY <2>6 DEF Ref, Numbers
  <2>8. /\ E(i) \in PrEntries /\ PrOf(E(i)) = deps[i]
        /\ E(i).ref = Ref(deps, answer, i) /\ E(i).number = deps[i][2]
    BY <2>6, <2>7, EntryProperty
  <2>9. CASE answer[i] = "error"
    <3>1. pull[deps[i]] # "error"
      BY <2>6 DEF PullStates
    <3>2. flaky \/ pull[deps[i]] = "missing"
      BY <1>2, <2>1, <2>9, <3>1
    <3> QED BY <2>1, <2>6, <2>8, <3>2
  <2>10. CASE answer[i] \in {"open", "conflict"}
    <3>1. i \in SetSha(answer, i)
      BY <2>1, <2>10 DEF SetSha
    <3>2. Max(SetSha(answer, i)) = i
      BY <2>2, <2>4, <2>5, <3>1
    <3> QED BY <2>1, <2>6, <2>8, <3>2 DEF Ref
  <2> QED BY <2>1, <2>9, <2>10
<1> HIDE DEF kept, N, E
<1>6. Related(deps, answer) \in Seq(PrEntries)
  BY <1>3, <1>4, <1>5
<1>7. ToSet(Related(deps, answer)) = {E(Nth(kept, k)) : k \in 1..N}
  BY <1>4 DEF ToSet
<1>8. ASSUME NEW e \in ToSet(Related(deps, answer))
      PROVE  PrOf(e) \in ToSet(deps) /\ (e.ref = e.number \/ flaky \/ pull[PrOf(e)] = "missing")
  <2>1. PICK k \in 1..N : e = E(Nth(kept, k))
    BY <1>7
  <2>2. Nth(kept, k) \in kept
    BY <1>3
  <2> QED BY <1>1, <1>5, <2>1, <2>2 DEF ToSet
<1>9. ASSUME NEW d \in ToSet(deps), pull[d] # "merged"
      PROVE  \E e \in ToSet(Related(deps, answer)) : PrOf(e) = d
  <2>1. PICK i \in 1..Len(deps) : d = deps[i]
    BY <1>1 DEF ToSet
  <2>2. i \in kept
    BY <1>2, <1>9, <2>1 DEF kept, KeptIndices, Kept
  <2>3. PICK k \in 1..N : Nth(kept, k) = i
    BY <1>3, <2>2
  <2>4. E(i) \in ToSet(Related(deps, answer)) /\ PrOf(E(i)) = d
    BY <1>5, <1>7, <2>1, <2>2, <2>3
  <2> QED BY <2>4
<1> QED
  BY <1>6, <1>8, <1>9

\* What the texts lead to from the root includes the root, and with a PR all that it asks
\* for unless it is ignored.
LEMMA MentionedProperty ==
  ASSUME text \in Texts
  PROVE  /\ Root \in Mentioned
         /\ \A p \in Mentioned \intersect PRs : ~text[p].ignore =>
              ToSet(text[p].deps) \subseteq Mentioned
<1>1. /\ IsFiniteSet(PRs) /\ Root \in PRs /\ Dependencies \subseteq PRs \X PRs
      /\ Cardinality(PRs) \in Nat
  BY GateAssumption, FS_CardinalityType DEF Dependencies
<1>2. /\ Root \in Mentioned
      /\ \A p \in Dependencies : p[1] \in Mentioned => p[2] \in Mentioned
  BY <1>1, ReachedIsClosed DEF Mentioned
<1>3. ASSUME NEW p \in PRs, ~text[p].ignore, NEW d \in ToSet(text[p].deps)
      PROVE  <<p, d>> \in Dependencies
  <2>1. d \in PRs
    BY TextProperty, ElementsOf
  <2> QED BY <1>3, <2>1 DEF Dependencies
<1>4. ASSUME NEW p \in Mentioned \intersect PRs, ~text[p].ignore,
             NEW d \in ToSet(text[p].deps)
      PROVE  d \in Mentioned
  <2>1. <<p, d>> \in Dependencies
    BY <1>3, <1>4
  <2> QED BY <1>2, <2>1
<1> QED
  BY <1>2, <1>4

\* Where links go both ways only, nobody is reached who is not interdependent.
LEMMA InterdependentIsLeast ==
  ASSUME NEW S, Root[1] \in S,
         \A p \in links : p[1] \in S /\ <<p[2], p[1]>> \in links => p[2] \in S
  PROVE  Interdependent \subseteq S
<1>1. Cardinality(Repos) \in Nat
  BY GateAssumption, FS_CardinalityType
<1>2. \A p \in Mutual : p[1] \in S => p[2] \in S
  BY DEF Mutual
<1> QED
  BY <1>1, <1>2, ReachedIsLeast DEF Interdependent

\* What is built from texts stays as long as they do.
LEMMA SameTexts ==
  ASSUME UNCHANGED text
  PROVE  Mentioned' = Mentioned /\ (\A r : DependsOn(r)' = DependsOn(r))
<1>1. Dependencies' = Dependencies
  BY DEF Dependencies
<1>2. Mentioned' = Mentioned
  BY <1>1 DEF Mentioned
<1> QED
  BY <1>2 DEF DependsOn

\* So does what is built from links and entries.
LEMMA SameCrawl ==
  ASSUME UNCHANGED <<links, prs>>
  PROVE  Interdependent' = Interdependent /\ CrawledPrs' = CrawledPrs
<1>1. Mutual' = Mutual
  BY DEF Mutual
<1>2. Interdependent' = Interdependent
  BY <1>1 DEF Interdependent
<1> QED
  BY <1>2 DEF CrawledPrs

\* A PR has been crawled when there is an entry for it.
LEMMA CrawledProperty ==
  ASSUME NEW p
  PROVE  p \in CrawledPrs <=> \E e \in ToSet(prs) : PrOf(e) = p
BY DEF CrawledPrs, ToSet

-----------------------------------------------------------------------------

\* The build starts with the root to parse.
LEMMA InitGateInv == Init => GateInv
<1> SUFFICES ASSUME Init PROVE GateInv
  OBVIOUS
<1> DEFINE root == Entry(Root, Root[2])
<1>1. /\ Root \in PRs /\ Root[2] \in Nat \ {0}
      /\ root \in PrEntries /\ PrOf(root) = Root /\ root.ref = root.number
  <2>1. Root \in PRs /\ Root[2] \in Numbers
    BY GateAssumption DEF Numbers
  <2> QED BY <2>1, EntryProperty
<1>2. /\ level = <<root>> /\ prs = <<root>> /\ found = <<>>
      /\ ToSet(level) = {root} /\ ToSet(prs) = {root} /\ ToSet(found) = {}
      /\ Len(level) = 1 /\ Len(prs) = 1
  <2> HIDE DEF root
  <2>1. level = <<root>> /\ prs = <<root>> /\ found = <<>>
    BY DEF Init, root
  <2> QED BY <2>1 DEF ToSet
<1>3. /\ level \in Seq(PrEntries) /\ found \in Seq(PrEntries) /\ prs \in Seq(PrEntries)
  BY <1>1, <1>2
<1>4. /\ step = "crawl" /\ status = {} /\ links = {} /\ text \in Texts
      /\ \A r \in Known : manifest[r] = Blank
      /\ manifest \in [Known -> [commit : Nat \union {BranchHead}, under : BOOLEAN]]
  BY DEF Init, Blank
<1> HIDE DEF root
<1>5. ~Parsed
  BY <1>4 DEF Parsed
<1>6. TypeOK
  <2>1. ToSet(level) \union ToSet(found) \union ToSet(prs) \subseteq Entries
    BY <1>1, <1>2 DEF PrEntries
  <2>2. \A r \in Known : /\ manifest[r].commit \in Nat \union {BranchHead}
                         /\ manifest[r].under \in BOOLEAN
    BY <1>4
  <2>3. changes \in 0..MaxChanges
    BY GateAssumption DEF Init
  <2>4. /\ text \in Texts /\ pull \in [PRs -> PullStates] /\ flaky \in BOOLEAN
        /\ step \in {"crawl", "rejected", "test", "write back", "ended"}
        /\ links \subseteq Repos \X Repos /\ conflicted \subseteq PRs
        /\ result \in {"none", "success", "failure"}
        /\ status \subseteq (PRs \X {"success", "failure"})
    BY DEF Init
  <2> QED BY <1>5, <2>1, <2>2, <2>3, <2>4 DEF TypeOK
<1>7. FrontInv
  <2>1. Root \in CrawledPrs
    BY <1>1, <1>2, CrawledProperty
  <2> QED BY <1>2, <1>3, <1>5, <2>1 DEF FrontInv
<1>8. StageInv
  BY <1>4 DEF StageInv, Blank
<1>9. MentionedInv
  BY <1>1, <1>2, <1>4, MentionedProperty DEF MentionedInv
<1>10. CompleteInv
  BY <1>2 DEF CompleteInv
<1>11. RefInv
  BY <1>1, <1>2 DEF RefInv
<1>12. UnderTestInv
  BY <1>4 DEF UnderTestInv, Blank
<1> QED
  BY <1>6, <1>7, <1>8, <1>9, <1>10, <1>11, <1>12 DEF GateInv

\* The entries of the crawl are of PRs.
LEMMA CrawledArePRs ==
  ASSUME GateInv, NEW e \in ToSet(prs) \union ToSet(found)
  PROVE  /\ e \in PrEntries /\ PrOf(e) \in PRs
         /\ text[PrOf(e)].deps \in Seq(PRs) /\ ToSet(text[PrOf(e)].deps) \subseteq PRs
<1>1. e \in PrEntries
  BY ElementsOf DEF GateInv, FrontInv
<1>2. PrOf(e) \in PRs
  BY <1>1 DEF PrEntries
<1>3. text[PrOf(e)].deps \in Seq(PRs)
  BY <1>2, TextProperty DEF GateInv, TypeOK
<1> QED
  BY <1>1, <1>2, <1>3, ElementsOf

\* What people do to the PRs undoes nothing: merged stays merged, and no PR comes into being.
Onward ==
  \A p \in PRs : /\ pull[p] = "merged" => pull'[p] = "merged"
                 /\ pull[p] = "missing" <=> pull'[p] = "missing"

\* A step that leaves the crawl alone keeps what is said of it.
LEMMA QuietCrawl ==
  ASSUME GateInv, UNCHANGED <<text, flaky, level, found, prs, links>>,
         Sound' => Sound, Onward
  PROVE  MentionedInv' /\ CompleteInv' /\ RefInv'
<1>1. MentionedInv'
  BY SameTexts DEF GateInv, MentionedInv
<1>2. CompleteInv'
  <2> SUFFICES ASSUME Sound', NEW e \in ToSet(prs), e \notin ToSet(level),
                      ~text[PrOf(e)].ignore, NEW d \in ToSet(text[PrOf(e)].deps),
                      pull'[d] # "merged"
               PROVE  \E g \in ToSet(prs) \union ToSet(found) : PrOf(g) = d
    BY DEF CompleteInv
  <2>1. d \in PRs
    BY CrawledArePRs
  <2>2. pull[d] # "merged"
    BY <2>1 DEF Onward
  <2> QED BY <2>2 DEF GateInv, CompleteInv
<1>3. RefInv'
  <2>1. ASSUME NEW e \in ToSet(prs) \union ToSet(found)
        PROVE  pull[PrOf(e)] = "missing" <=> pull'[PrOf(e)] = "missing"
    BY CrawledArePRs DEF Onward
  <2> QED BY <2>1 DEF GateInv, RefInv
<1> QED
  BY <1>1, <1>2, <1>3

\* A step that leaves the manifest and the crawl alone keeps who is under test.
LEMMA QuietManifest ==
  ASSUME GateInv, UNCHANGED <<prs, links, manifest, status>>
  PROVE  UnderTestInv'
BY SameCrawl DEF GateInv, UnderTestInv, Targets

\* A step that leaves the crawl and what comes of it alone.
LEMMA QuietFront ==
  ASSUME GateInv, UNCHANGED <<level, found, prs>>, Parsed' => Parsed
  PROVE  FrontInv'
BY DEF GateInv, FrontInv, CrawledPrs

\* People merge a PR or make it conflict.
LEMMA NextChange == ASSUME GateInv, NEW pr \in PRs, Change(pr) PROVE GateInv'
<1>1. /\ UNCHANGED <<text, flaky, step, level, found, prs, links, conflicted>>
      /\ UNCHANGED <<manifest, result, status>>
      /\ changes' = changes + 1 /\ changes < MaxChanges
      /\ pull[pr] = "open"
  BY DEF Change, crawl
<1>2. PICK s \in {"conflict", "merged"} : pull' = [pull EXCEPT ![pr] = s]
  BY DEF Change
<1>3. (Parsed' <=> Parsed) /\ (Sound' <=> Sound)
  BY <1>1 DEF Parsed, Sound
<1>4. pull \in [PRs -> PullStates]
  BY DEF GateInv, TypeOK
<1>5. Onward /\ pull' \in [PRs -> PullStates]
  BY <1>1, <1>2, <1>4 DEF Onward, PullStates
<1>6. TypeOK'
  <2>1. changes' \in 0..MaxChanges
    <3>1. changes \in 0..MaxChanges /\ MaxChanges \in Nat
      BY GateAssumption DEF GateInv, TypeOK
    <3> QED BY <1>1, <3>1
  <2> QED BY <1>1, <1>3, <1>5, <2>1 DEF GateInv, TypeOK
<1>7. StageInv'
  BY <1>1 DEF GateInv, StageInv
<1> QED
  BY <1>1, <1>3, <1>5, <1>6, <1>7, QuietCrawl, QuietManifest, QuietFront DEF GateInv

\* A step of the build that leaves the crawl and the PRs alone: the types that it has to
\* keep are those of the step, the manifest, the result and the statuses.
LEMMA QuietTypes ==
  ASSUME GateInv, UNCHANGED <<environment, crawl>>,
         step' \in {"crawl", "rejected", "test", "write back", "ended"},
         \A r \in Known : /\ manifest'[r].commit \in Nat \union {BranchHead}
                          /\ Parsed' => manifest'[r].commit # 0
                          /\ manifest'[r].under \in BOOLEAN,
         result' \in {"none", "success", "failure"},
         status' \subseteq (PRs \X {"success", "failure"})
  PROVE  TypeOK' /\ Onward
BY DEF GateInv, TypeOK, environment, crawl, Onward

\* The parser fails.
LEMMA NextParserFails == ASSUME GateInv, ParserFails PROVE GateInv'
<1>1. /\ UNCHANGED <<environment, crawl, manifest, result, status>>
      /\ UNCHANGED <<text, flaky, pull, level, found, prs, links>>
      /\ step = "crawl" /\ step' = "rejected"
  BY DEF ParserFails, environment, crawl
<1>2. ~Parsed' /\ ~Sound'
  BY <1>1 DEF Parsed, Sound, GateInv, StageInv
<1>3. TypeOK' /\ Onward
  BY <1>1, <1>2, QuietTypes DEF GateInv, TypeOK
<1>4. StageInv'
  BY <1>1 DEF GateInv, StageInv
<1> QED
  BY <1>1, <1>2, <1>3, <1>4, QuietCrawl, QuietManifest, QuietFront DEF GateInv

\* The job ends without a status: the parser, the tests or the archiving have failed.
LEMMA NextGiveUp == ASSUME GateInv, GiveUp PROVE GateInv'
<1>1. /\ UNCHANGED <<environment, crawl, manifest, status>>
      /\ UNCHANGED <<text, flaky, pull, level, found, prs, links>>
      /\ step \in {"rejected", "test"} /\ step' = "ended" /\ result' = "failure"
  BY DEF GiveUp, environment, crawl
<1>2. ~Parsed' /\ ~Sound'
  BY <1>1 DEF Parsed, Sound, GateInv, StageInv
<1>3. TypeOK' /\ Onward
  BY <1>1, <1>2, QuietTypes DEF GateInv, TypeOK
<1>4. StageInv'
  BY <1>1 DEF GateInv, StageInv
<1> QED
  BY <1>1, <1>2, <1>3, <1>4, QuietCrawl, QuietManifest, QuietFront DEF GateInv

\* The tests run.
LEMMA NextRunTests == ASSUME GateInv, RunTests PROVE GateInv'
<1>1. /\ UNCHANGED <<environment, crawl, manifest, status>>
      /\ UNCHANGED <<text, flaky, pull, level, found, prs, links>>
      /\ step = "test" /\ step' = "write back" /\ result' \in {"success", "failure"}
  BY DEF RunTests, environment, crawl
<1>2. Parsed /\ Parsed' /\ Sound /\ Sound'
  BY <1>1 DEF Parsed, Sound
<1>3. TypeOK' /\ Onward
  BY <1>1, <1>2, QuietTypes DEF GateInv, TypeOK
<1>4. StageInv'
  BY <1>1 DEF GateInv, StageInv
<1> QED
  BY <1>1, <1>2, <1>3, <1>4, QuietCrawl, QuietManifest, QuietFront DEF GateInv

\* Every PR under test has its status.
LEMMA NextBuildEnds == ASSUME GateInv, BuildEnds PROVE GateInv'
<1>1. /\ UNCHANGED <<environment, crawl, manifest, result, status>>
      /\ UNCHANGED <<text, flaky, pull, level, found, prs, links>>
      /\ step = "write back" /\ step' = "ended"
  BY DEF BuildEnds, environment, crawl
<1>2. Parsed /\ Sound
  BY <1>1 DEF Parsed, Sound
<1>3. TypeOK' /\ Onward
  BY <1>1, <1>2, QuietTypes DEF GateInv, TypeOK
<1>4. StageInv'
  BY <1>1 DEF GateInv, StageInv
<1> QED
  BY <1>1, <1>2, <1>3, <1>4, QuietCrawl, QuietManifest, QuietFront DEF GateInv

\* One status is written, or cannot be.
LEMMA NextSetStatus == ASSUME GateInv, SetStatus PROVE GateInv'
<1>1. /\ UNCHANGED <<environment, crawl, manifest, result>>
      /\ UNCHANGED <<text, flaky, pull, level, found, prs, links>>
      /\ step = "write back"
  BY DEF SetStatus, environment, crawl
<1>2. PICK pr \in Targets :
        \/ Exists(pr) /\ status' = status \union {<<pr, result>>} /\ step' = step
        \/ step' = "ended" /\ status' = status
  BY DEF SetStatus
<1>3. Parsed /\ Sound /\ result \in {"success", "failure"}
  BY <1>1 DEF Parsed, Sound, GateInv, StageInv, TypeOK
<1>4. status' \subseteq (PRs \X {"success", "failure"})
  <2>1. status \subseteq (PRs \X {"success", "failure"})
    BY DEF GateInv, TypeOK
  <2>2. Exists(pr) => <<pr, result>> \in PRs \X {"success", "failure"}
    BY <1>3 DEF Exists
  <2> QED BY <1>2, <2>1, <2>2
<1>5. step' \in {"write back", "ended"}
  BY <1>1, <1>2
<1>6. TypeOK' /\ Onward
  BY <1>1, <1>3, <1>4, <1>5, QuietTypes DEF GateInv, TypeOK
<1>7. StageInv'
  BY <1>1, <1>2, <1>5 DEF GateInv, StageInv
<1>8. UnderTestInv'
  <2>1. Interdependent' = Interdependent
    BY <1>1, SameCrawl
  <2>2. Targets' = Targets
    BY <1>1 DEF Targets
  <2>3. \A s \in status' : s[1] \in Targets
    BY <1>2 DEF GateInv, UnderTestInv
  <2> QED BY <1>1, <2>1, <2>2, <2>3 DEF GateInv, UnderTestInv
<1> QED
  BY <1>1, <1>3, <1>6, <1>7, <1>8, QuietCrawl, QuietFront DEF GateInv

\* The manifest is made when the crawl is over.
LEMMA NextWrapManifest == ASSUME GateInv, WrapManifest PROVE GateInv'
<1>1. /\ UNCHANGED <<environment, crawl, result, status>>
      /\ UNCHANGED <<text, flaky, pull, level, found, prs, links>>
      /\ step = "crawl" /\ level = <<>> /\ found = <<>>
      /\ \/ manifest' = Filled(WithPrs) /\ step' = "test"
         \/ manifest' = manifest /\ step' = "rejected"
  BY DEF WrapManifest, environment, crawl
<1>2. /\ status = {} /\ status' = {} /\ Sound
      /\ manifest \in [Known -> [commit : Nat \union {BranchHead}, under : BOOLEAN]]
      /\ \A r \in Known : ~manifest[r].under
  BY <1>1 DEF GateInv, StageInv, Sound
<1>3. ASSUME manifest' = Filled(WithPrs), NEW r \in Known
      PROVE  /\ manifest'[r] \in [commit : Nat \union {BranchHead}, under : BOOLEAN]
             /\ manifest'[r].commit # 0
             /\ manifest'[r].under =>
                  /\ r \in Interdependent
                  /\ \E e \in ToSet(prs) : e.repo = r /\ e.ref = manifest'[r].commit
  <2> DEFINE mine == {i \in DOMAIN prs : prs[i].repo = r}
             filled(m) == IF m.commit = 0 THEN [m EXCEPT !.commit = BranchHead] ELSE m
  <2>1. manifest'[r] = filled(WithPrs[r])
    BY <1>3 DEF Filled
  <2>2. CASE mine = {}
    <3>1. WithPrs[r] = manifest[r]
      BY <2>2 DEF WithPrs
    <3> QED BY <1>2, <2>1, <3>1 DEF BranchHead
  <2>3. CASE mine # {}
    <3>1. /\ Len(prs) \in Nat /\ DOMAIN prs = 1..Len(prs)
          /\ \A i \in 1..Len(prs) : prs[i] \in Entries
      BY DEF GateInv, FrontInv, PrEntries
    <3>2. Max(mine) \in mine
      <4>1. mine \subseteq 1..Len(prs)
        BY <3>1
      <4> HIDE DEF mine
      <4> QED BY <2>3, <3>1, <4>1, Greatest
    <3>3. WithPrs[r] = [commit |-> prs[Max(mine)].ref, under |-> r \in Interdependent]
      BY <2>3 DEF WithPrs
    <3>4. /\ prs[Max(mine)] \in ToSet(prs) /\ prs[Max(mine)].repo = r
          /\ prs[Max(mine)].ref \in Nat \ {0}
      BY <3>1, <3>2 DEF ToSet, Entries
    <3> HIDE DEF mine
    <3>5. manifest'[r] = WithPrs[r]
      BY <2>1, <3>3, <3>4
    <3>6. (r \in Interdependent) \in BOOLEAN
      OBVIOUS
    <3>7. /\ manifest'[r].commit = prs[Max(mine)].ref
          /\ manifest'[r].under = (r \in Interdependent)
      BY <3>3, <3>5
    <3>8. manifest'[r] \in [commit : Nat \union {BranchHead}, under : BOOLEAN]
      BY <3>3, <3>4, <3>5, <3>6
    <3> QED BY <3>4, <3>7, <3>8
  <2> QED BY <2>2, <2>3
<1>4. manifest' \in [Known -> [commit : Nat \union {BranchHead}, under : BOOLEAN]]
  <2>1. CASE manifest' = Filled(WithPrs)
    <3>1. DOMAIN manifest' = Known /\ manifest' = [r \in Known |-> manifest'[r]]
      BY <2>1 DEF Filled
    <3> QED BY <1>3, <2>1, <3>1
  <2> QED BY <1>1, <1>2, <2>1
<1>5. Parsed' => manifest' = Filled(WithPrs)
  BY <1>1, <1>2 DEF Parsed
<1>6. TypeOK' /\ Onward
  <2>1. \A r \in Known : /\ manifest'[r].commit \in Nat \union {BranchHead}
                         /\ Parsed' => manifest'[r].commit # 0
                         /\ manifest'[r].under \in BOOLEAN
    BY <1>3, <1>4, <1>5
  <2> QED BY <1>1, <1>2, <2>1, QuietTypes DEF GateInv, TypeOK
<1>7. FrontInv'
  BY <1>1 DEF GateInv, FrontInv, CrawledPrs
<1>8. StageInv'
  BY <1>1, <1>2, <1>4 DEF StageInv
<1>9. UnderTestInv'
  <2>1. Interdependent' = Interdependent
    BY <1>1, SameCrawl
  <2>2. CASE manifest' = Filled(WithPrs)
    BY <1>1, <1>2, <1>3, <2>1, <2>2 DEF UnderTestInv
  <2>3. CASE manifest' = manifest
    BY <1>1, <1>2, <2>1, <2>3 DEF UnderTestInv
  <2> QED BY <1>1, <2>2, <2>3
<1> QED
  BY <1>1, <1>2, <1>6, <1>7, <1>8, <1>9, QuietCrawl DEF GateInv

\* The next level is what is new of what the level has found.
LEMMA NextNextLevel == ASSUME GateInv, NextLevel PROVE GateInv'
<1> DEFINE new == NewOnly(found)
<1>1. /\ UNCHANGED <<environment, step, links, conflicted, manifest, result, status>>
      /\ UNCHANGED <<text, flaky, pull>>
      /\ step = "crawl" /\ level = <<>> /\ found # <<>>
      /\ level' = new /\ prs' = prs \o new /\ found' = <<>>
  BY DEF NextLevel, environment
<1>2. /\ level \in Seq(PrEntries) /\ found \in Seq(PrEntries) /\ prs \in Seq(PrEntries)
      /\ prs # <<>> /\ Root \in CrawledPrs
  BY <1>1 DEF GateInv, FrontInv
<1>3. new \in Seq(PrEntries) /\ ToSet(new) = ToSet(found) \ ToSet(prs)
  BY <1>2, NewOnlyProperty
<1> HIDE DEF new
<1>4. /\ prs' \in Seq(PrEntries) /\ ToSet(prs') = ToSet(prs) \union ToSet(found)
      /\ Len(prs') = Len(prs) + Len(new) /\ Len(new) \in Nat /\ Len(prs) \in Nat
      /\ prs' # <<>>
  <2>1. prs' \in Seq(PrEntries) /\ ToSet(prs') = ToSet(prs) \union ToSet(new)
    BY <1>1, <1>2, <1>3, ConcatSet
  <2>2. Len(prs') = Len(prs) + Len(new) /\ Len(new) \in Nat /\ Len(prs) \in Nat /\ Len(prs) # 0
    BY <1>1, <1>2, <1>3
  <2> QED BY <1>3, <2>1, <2>2
<1>5. ToSet(found') = {} /\ ToSet(level) = {} /\ ToSet(level') = ToSet(found) \ ToSet(prs)
  <2>1. ToSet(<<>>) = {}
    BY DEF ToSet
  <2> QED BY <1>1, <1>3, <2>1
<1>6. ~Parsed /\ ~Parsed' /\ Sound /\ Sound'
  BY <1>1 DEF Parsed, Sound, GateInv, StageInv
<1>7. TypeOK'
  <2>1. ToSet(level') \union ToSet(found') \union ToSet(prs') \subseteq Entries
    BY <1>4, <1>5 DEF GateInv, TypeOK
  <2> QED BY <1>1, <1>6, <2>1 DEF GateInv, TypeOK, environment
<1>8. FrontInv'
  <2>1. Root \in CrawledPrs'
    <3>1. PICK e \in ToSet(prs) : PrOf(e) = Root
      BY <1>2, CrawledProperty
    <3>2. \E i \in DOMAIN prs' : PrOf(prs'[i]) = Root
      BY <1>4, <3>1 DEF ToSet
    <3> QED BY <3>2 DEF CrawledPrs
  <2>2. Len(level') <= Len(prs') /\ level' \in Seq(PrEntries) /\ found' \in Seq(PrEntries)
    BY <1>1, <1>3, <1>4
  <2> QED BY <1>1, <1>4, <1>5, <1>6, <2>1, <2>2 DEF FrontInv
<1>9. StageInv'
  BY <1>1 DEF GateInv, StageInv
<1>10. MentionedInv'
  BY <1>1, <1>4, <1>5, SameTexts DEF GateInv, MentionedInv
<1>11. CompleteInv'
  <2> SUFFICES ASSUME NEW e \in ToSet(prs'), e \notin ToSet(level'),
                      ~text[PrOf(e)].ignore, NEW d \in ToSet(text[PrOf(e)].deps),
                      pull[d] # "merged"
               PROVE  \E g \in ToSet(prs') : PrOf(g) = d
    BY <1>1 DEF CompleteInv
  <2>1. e \in ToSet(prs) /\ e \notin ToSet(level)
    BY <1>4, <1>5
  <2> QED BY <1>4, <1>6, <2>1 DEF GateInv, CompleteInv
<1>12. RefInv'
  <2> SUFFICES ASSUME ~flaky
               PROVE  \A e \in ToSet(prs') :
                        /\ e.ref = e.number \/ pull[PrOf(e)] = "missing"
                        /\ pull[PrOf(e)] = "missing" => e \in ToSet(level')
    BY <1>1, <1>5 DEF RefInv
  <2> QED BY <1>4, <1>5, <1>6 DEF GateInv, RefInv
<1>13. UnderTestInv'
  BY <1>1 DEF GateInv, StageInv, UnderTestInv
<1> QED
  BY <1>7, <1>8, <1>9, <1>10, <1>11, <1>12, <1>13 DEF GateInv

\* One PR of the level is parsed.
LEMMA NextParsePr == ASSUME GateInv, ParsePr PROVE GateInv'
<1> DEFINE head == Head(level)
           base == PrOf(head)
           deps == text[base].deps
<1>1. /\ UNCHANGED <<environment, manifest, result, status>>
      /\ UNCHANGED <<text, flaky, pull>>
      /\ step = "crawl" /\ level # <<>> /\ level' = Tail(level)
  BY DEF ParsePr, environment
<1>2. PICK answer \in Answers(deps) :
        IF pull[base] = "missing" \/ Unbound(answer)
        THEN step' = "rejected" /\ UNCHANGED <<found, prs, links, conflicted>>
        ELSE /\ found' = IF text[base].ignore THEN found
                         ELSE found \o Related(deps, answer)
             /\ prs' = IF text[base].ignore /\ Len(prs) = 1 THEN <<>> ELSE prs
             /\ links' = links \union Link(base, Related(deps, answer))
             /\ conflicted' = conflicted \union
                  {deps[i] : i \in {j \in DOMAIN deps : answer[j] = "conflict"}}
             /\ UNCHANGED step
  BY DEF ParsePr
<1>3. /\ level \in Seq(PrEntries) /\ found \in Seq(PrEntries) /\ prs \in Seq(PrEntries)
      /\ Len(level) <= Len(prs) /\ ToSet(level) \subseteq ToSet(prs)
      /\ pull \in [PRs -> PullStates] /\ text \in Texts
  BY DEF GateInv, FrontInv, TypeOK
<1>4. /\ head \in PrEntries /\ head \in ToSet(level) /\ head \in ToSet(prs)
      /\ level' \in Seq(PrEntries) /\ Len(level') = Len(level) - 1
      /\ ToSet(level) = {head} \union ToSet(level')
      /\ Len(level) \in Nat /\ Len(prs) \in Nat /\ Len(level) >= 1
  <2>1. Len(level) \in Nat /\ Len(prs) \in Nat /\ Len(level) >= 1
    BY <1>1, <1>3
  <2> QED BY <1>1, <1>3, <2>1, HeadTailSet
<1>5. base \in PRs /\ deps \in Seq(PRs) /\ ToSet(deps) \subseteq PRs
  <2>1. base \in PRs
    BY <1>4 DEF PrEntries
  <2> HIDE DEF base
  <2>2. deps \in Seq(PRs)
    BY <1>3, <2>1, TextProperty
  <2> HIDE DEF deps
  <2> QED BY <2>1, <2>2, ElementsOf
<1>6. /\ ~Parsed /\ ~Parsed' /\ Sound /\ status = {}
      /\ Sound' => step' = "crawl"
      /\ \A r \in Known : ~manifest[r].under
  <2>1. status = {} /\ status' = {} /\ step' \in {"crawl", "rejected"}
    BY <1>1, <1>2 DEF GateInv, StageInv
  <2> QED BY <1>1, <2>1 DEF Parsed, Sound, GateInv, StageInv
<1>7. StageInv'
  BY <1>1, <1>2, <1>6 DEF GateInv, StageInv
<1>8. UnderTestInv'
  BY <1>1, <1>6 DEF GateInv, UnderTestInv
<1> HIDE DEF head, base, deps
\* The parser fails: nothing has been added.
<1>9. CASE pull[base] = "missing" \/ Unbound(answer)
  <2>1. step' = "rejected" /\ UNCHANGED <<found, prs, links, conflicted>>
    BY <1>2, <1>9
  <2>2. ~Sound'
    BY <1>6, <2>1
  <2>3. TypeOK'
    BY <1>1, <1>4, <1>6, <2>1 DEF GateInv, TypeOK, environment
  <2>4. FrontInv'
    <3>1. CrawledPrs' = CrawledPrs
      BY <2>1 DEF CrawledPrs
    <3>2. Len(level') <= Len(prs')
      BY <1>3, <1>4, <2>1
    <3>3. prs = <<>> \/ (Len(prs) = 1 /\ level' # <<>>) => found = <<>>
      BY <1>1 DEF GateInv, FrontInv
    <3> QED BY <1>3, <1>4, <1>6, <2>1, <3>1, <3>2, <3>3 DEF GateInv, FrontInv
  <2>5. MentionedInv'
    BY <1>1, <2>1, SameTexts DEF GateInv, MentionedInv
  <2>6. CompleteInv' /\ RefInv'
    BY <1>1, <2>1, <2>2 DEF GateInv, CompleteInv, RefInv
  <2> QED BY <1>7, <1>8, <2>3, <2>4, <2>5, <2>6 DEF GateInv
\* The PR is parsed: what it asks for is found, unless it is to be ignored.
<1>10. CASE ~(pull[base] = "missing" \/ Unbound(answer))
  <2> DEFINE related == Related(deps, answer)
  <2>1. /\ found' = IF text[base].ignore THEN found ELSE found \o related
        /\ prs' = IF text[base].ignore /\ Len(prs) = 1 THEN <<>> ELSE prs
        /\ links' = links \union Link(base, related)
        /\ conflicted' = conflicted \union
             {deps[i] : i \in {j \in DOMAIN deps : answer[j] = "conflict"}}
        /\ step' = "crawl"
    BY <1>1, <1>2, <1>10
  <2>2. /\ related \in Seq(PrEntries)
        /\ \A e \in ToSet(related) :
             /\ PrOf(e) \in ToSet(deps)
             /\ e.ref = e.number \/ flaky \/ pull[PrOf(e)] = "missing"
        /\ \A d \in ToSet(deps) :
             (\E e \in ToSet(related) : PrOf(e) = d) \/ pull[d] = "merged"
    BY <1>3, <1>5, <1>10, RelatedProperty
  <2> HIDE DEF related
  <2>3. /\ found' \in Seq(PrEntries)
        /\ ToSet(found') = IF text[base].ignore THEN ToSet(found)
                           ELSE ToSet(found) \union ToSet(related)
    BY <1>3, <2>1, <2>2, ConcatSet
  <2>4. /\ prs' \in Seq(PrEntries) /\ ToSet(prs') \subseteq ToSet(prs)
        /\ prs' # <<>> => prs' = prs
        /\ prs' = <<>> => text[base].ignore /\ Len(prs) = 1
    <3>1. prs # <<>>
      BY <1>3, <1>4
    <3>2. ToSet(<<>>) = {} /\ <<>> \in Seq(PrEntries)
      BY DEF ToSet
    <3> QED BY <1>3, <2>1, <3>1, <3>2
  <2>5. ToSet(related) \subseteq Entries /\ \A e \in ToSet(related) : PrOf(e) \in PRs
    BY <1>5, <2>2, ElementsOf DEF PrEntries
  <2>6. \A p \in Link(base, related) :
          /\ p \in Repos \X Repos
          /\ \E d \in ToSet(deps) : p[1] = base[1] /\ p[2] = d[1]
    <3> SUFFICES ASSUME NEW e \in ToSet(related)
                 PROVE  /\ <<base[1], e.repo>> \in Repos \X Repos
                        /\ \E d \in ToSet(deps) : e.repo = d[1]
      BY DEF Link
    <3>1. e.repo = PrOf(e)[1] /\ e \in Entries
      BY <2>5 DEF PrOf
    <3>2. base[1] \in Repos
      BY <1>5, GateAssumption
    <3> QED BY <2>2, <3>1, <3>2 DEF Entries
  <2>7. TypeOK'
    <3>1. ToSet(level') \union ToSet(found') \union ToSet(prs') \subseteq Entries
      BY <1>4, <2>3, <2>4, <2>5 DEF GateInv, TypeOK
    <3>2. links' \subseteq Repos \X Repos
      BY <2>1, <2>6 DEF GateInv, TypeOK
    <3>3. conflicted' \subseteq PRs
      <4>1. \A i \in DOMAIN deps : deps[i] \in PRs
        BY <1>5 DEF ToSet
      <4> QED BY <2>1, <4>1 DEF GateInv, TypeOK
    <3> QED BY <1>1, <1>6, <2>1, <3>1, <3>2, <3>3 DEF GateInv, TypeOK, environment
  <2>8. FrontInv'
    <3>1. ToSet(level') \subseteq ToSet(prs') /\ Len(level') <= Len(prs')
      <4>1. CASE prs' = <<>>
        <5>1. level' \in Seq(PrEntries) /\ Len(level') = 0
          BY <1>3, <1>4, <2>4, <4>1
        <5>2. level' = <<>>
          BY <5>1
        <5> QED BY <4>1, <5>2
      <4>2. CASE prs' = prs
        BY <1>3, <1>4, <4>2
      <4> QED BY <2>4, <4>1, <4>2
    <3>2. prs' = <<>> \/ (Len(prs') = 1 /\ level' # <<>>) => found' = <<>>
      <4>1. Len(prs) = 1 => found = <<>> /\ Len(level') = 0
        BY <1>1, <1>3, <1>4 DEF GateInv, FrontInv
      <4>2. Len(level') = 0 => level' = <<>>
        BY <1>4
      <4> QED BY <2>1, <2>4, <4>1, <4>2
    <3>3. prs' # <<>> => Root \in CrawledPrs'
      <4>1. prs' = prs => CrawledPrs' = CrawledPrs
        BY DEF CrawledPrs
      <4>2. prs # <<>>
        BY <1>3, <1>4
      <4> QED BY <2>4, <4>1, <4>2 DEF GateInv, FrontInv
    <3> QED BY <1>4, <1>6, <2>3, <2>4, <3>1, <3>2, <3>3 DEF FrontInv
  <2>9. MentionedInv'
    <3>1. base \in Mentioned
      BY <1>4 DEF GateInv, MentionedInv, base
    <3>2. ~text[base].ignore => ToSet(deps) \subseteq Mentioned
      BY <1>3, <1>5, <3>1, MentionedProperty DEF deps
    <3>3. \A e \in ToSet(prs') \union ToSet(found') : PrOf(e) \in Mentioned
      BY <2>2, <2>3, <2>4, <3>2 DEF GateInv, MentionedInv
    <3>4. \A d \in ToSet(deps) : d[1] \in DependsOn(base[1])
      BY <3>1 DEF DependsOn, deps
    <3>5. \A p \in links' : p[2] \in DependsOn(p[1])
      BY <2>1, <2>6, <3>4 DEF GateInv, MentionedInv
    <3> QED BY <1>1, <3>3, <3>5, SameTexts DEF MentionedInv
  <2>10. CompleteInv'
    <3> SUFFICES ASSUME NEW e \in ToSet(prs'), e \notin ToSet(level'),
                        ~text[PrOf(e)].ignore, NEW d \in ToSet(text[PrOf(e)].deps),
                        pull[d] # "merged"
                 PROVE  \E g \in ToSet(prs') \union ToSet(found') : PrOf(g) = d
      BY <1>1 DEF CompleteInv
    <3>1. e \in ToSet(prs) /\ prs' = prs
      <4>1. ToSet(<<>>) = {}
        BY DEF ToSet
      <4> QED BY <2>4, <4>1
    <3>2. CASE e = head
      <4>1. ~text[base].ignore /\ d \in ToSet(deps)
        BY <3>2 DEF base, deps
      <4> QED BY <2>2, <2>3, <4>1
    <3>3. CASE e # head
      <4>1. e \notin ToSet(level)
        BY <1>4, <3>3
      <4>2. PICK g \in ToSet(prs) \union ToSet(found) : PrOf(g) = d
        BY <1>6, <3>1, <4>1 DEF GateInv, CompleteInv
      <4> QED BY <2>3, <3>1, <4>2
    <3> QED BY <3>2, <3>3
  <2>11. RefInv'
    <3> SUFFICES ASSUME ~flaky
                 PROVE  /\ \A e \in ToSet(prs') \union ToSet(found') :
                             e.ref = e.number \/ pull[PrOf(e)] = "missing"
                        /\ \A e \in ToSet(prs') :
                             pull[PrOf(e)] = "missing" => e \in ToSet(level')
      BY <1>1 DEF RefInv
    <3>1. \A e \in ToSet(prs') \union ToSet(found') :
            e.ref = e.number \/ pull[PrOf(e)] = "missing"
      BY <2>2, <2>3, <2>4 DEF GateInv, RefInv
    <3>2. ASSUME NEW e \in ToSet(prs'), pull[PrOf(e)] = "missing" PROVE e \in ToSet(level')
      <4>1. e \in ToSet(level)
        BY <1>6, <2>4, <3>2 DEF GateInv, RefInv
      <4>2. e # head
        BY <1>10, <3>2 DEF base
      <4> QED BY <1>4, <4>1, <4>2
    <3> QED BY <3>1, <3>2
  <2> QED BY <1>7, <1>8, <2>7, <2>8, <2>9, <2>10, <2>11 DEF GateInv
<1> QED
  BY <1>9, <1>10

-----------------------------------------------------------------------------

\* Every step of the build, and every change that people make, keeps the invariant.
LEMMA StepGateInv == GateInv /\ [Next]_vars => GateInv'
<1> SUFFICES ASSUME GateInv, [Next]_vars PROVE GateInv'
  OBVIOUS
<1>1. CASE UNCHANGED vars
  <2>1. /\ UNCHANGED <<text, pull, flaky, changes, step, level, found, prs, links>>
        /\ UNCHANGED <<conflicted, manifest, result, status>>
        /\ UNCHANGED <<environment, crawl>>
    BY <1>1 DEF vars, environment, crawl
  <2>2. (Parsed' <=> Parsed) /\ (Sound' <=> Sound)
    BY <2>1 DEF Parsed, Sound
  <2>3. TypeOK' /\ Onward
    BY <2>1, <2>2, QuietTypes DEF GateInv, TypeOK
  <2>4. StageInv'
    BY <2>1 DEF GateInv, StageInv
  <2> QED BY <2>1, <2>2, <2>3, <2>4, QuietCrawl, QuietManifest, QuietFront DEF GateInv
<1>2. CASE Next
  BY <1>2, NextChange, NextParsePr, NextNextLevel, NextParserFails, NextWrapManifest,
     NextRunTests, NextGiveUp, NextSetStatus, NextBuildEnds DEF Next, Build
<1> QED
  BY <1>1, <1>2

\* Once the parser has come to its end, the crawl is complete.
LEMMA ExactByInv == GateInv => CrawlIsExact
<1> SUFFICES ASSUME GateInv, Parsed PROVE
        /\ CrawledPrs \subseteq Mentioned
        /\ prs # <<>> => Root \in CrawledPrs
        /\ \A p \in CrawledPrs : ~text[p].ignore =>
             \A d \in ToSet(text[p].deps) : d \in CrawledPrs \/ pull[d] = "merged"
  BY DEF CrawlIsExact
<1>1. Sound /\ level = <<>> /\ found = <<>>
  BY DEF GateInv, FrontInv, Sound
<1>2. ToSet(level) = {} /\ ToSet(found) = {}
  BY <1>1 DEF ToSet
<1>3. CrawledPrs \subseteq Mentioned
  BY CrawledProperty DEF GateInv, MentionedInv
<1>4. prs # <<>> => Root \in CrawledPrs
  BY DEF GateInv, FrontInv
<1>5. ASSUME NEW p \in CrawledPrs, ~text[p].ignore, NEW d \in ToSet(text[p].deps),
             pull[d] # "merged"
      PROVE  d \in CrawledPrs
  <2>1. PICK e \in ToSet(prs) : PrOf(e) = p
    BY CrawledProperty
  <2>2. PICK g \in ToSet(prs) : PrOf(g) = d
    BY <1>1, <1>2, <1>5, <2>1 DEF GateInv, CompleteInv
  <2> QED BY <2>2, CrawledProperty
<1> QED
  BY <1>3, <1>4, <1>5

\* Who gets a status is under test: the links both ways are dependencies both ways, and
\* while GitHub answers the number is that of an entry.
LEMMA InterdependentByInv == GateInv => StatusOnlyInterdependent
<1> SUFFICES ASSUME GateInv, NEW s \in status PROVE
        /\ \A S \in SUBSET Repos :
             (/\ Root[1] \in S
              /\ \A r \in S, q \in Repos \ S : ~(q \in DependsOn(r) /\ r \in DependsOn(q)))
               => s[1][1] \in S
        /\ ~flaky => s[1] \in CrawledPrs
  BY DEF StatusOnlyInterdependent
<1>1. PICK r \in Known : manifest[r].under /\ s[1] = <<r, manifest[r].commit>>
  BY DEF GateInv, UnderTestInv, Targets
<1>2. /\ r \in Interdependent
      /\ \E e \in ToSet(prs) : e.repo = r /\ e.ref = manifest[r].commit
  BY <1>1 DEF GateInv, UnderTestInv
<1>3. s[1][1] = r
  BY <1>1
<1>4. ASSUME NEW S \in SUBSET Repos, Root[1] \in S,
             \A x \in S, q \in Repos \ S : ~(q \in DependsOn(x) /\ x \in DependsOn(q))
      PROVE  r \in S
  <2>1. ASSUME NEW p \in links, p[1] \in S, <<p[2], p[1]>> \in links PROVE p[2] \in S
    <3>1. p[2] \in DependsOn(p[1])
      BY DEF GateInv, MentionedInv
    <3>2. <<p[2], p[1]>>[2] \in DependsOn(<<p[2], p[1]>>[1])
      BY <2>1 DEF GateInv, MentionedInv
    <3>3. p[1] \in DependsOn(p[2])
      BY <3>2
    <3>4. p[2] \in Repos
      BY DEF GateInv, TypeOK
    <3> QED BY <1>4, <2>1, <3>1, <3>3, <3>4
  <2>2. Interdependent \subseteq S
    BY <1>4, <2>1, InterdependentIsLeast
  <2> QED BY <1>2, <2>2
<1>5. ASSUME ~flaky PROVE s[1] \in CrawledPrs
  <2>1. Sound /\ ToSet(level) = {}
    <3>1. Parsed
      BY DEF Parsed
    <3>2. Sound /\ level = <<>>
      BY <3>1 DEF GateInv, FrontInv, Sound
    <3> QED BY <3>2 DEF ToSet
  <2>2. PICK e \in ToSet(prs) : e.repo = r /\ e.ref = manifest[r].commit
    BY <1>2
  <2>3. e.ref = e.number
    BY <1>5, <2>1 DEF GateInv, RefInv
  <2>4. PrOf(e) = s[1]
    BY <1>1, <2>2, <2>3 DEF PrOf
  <2> QED BY <2>4, CrawledProperty
<1> QED
  BY <1>3, <1>4, <1>5

-----------------------------------------------------------------------------
(* The crawl ends: what GateEnds needs of it besides fairness.                 *)

\* There are finitely many entries that a crawl may hold.
LEMMA FinitelyManyEntries == IsFiniteSet(PrEntries)
<1> DEFINE number == [p \in PRs |-> p[2]]
           key == [e \in PrEntries |-> <<PrOf(e), e.ref>>]
<1>1. IsFiniteSet(Numbers)
  <2>1. number \in Surjection(PRs, Numbers)
    BY DEF Surjection, Numbers
  <2> HIDE DEF number
  <2> QED BY <2>1, GateAssumption, FS_Surjection
<1>2. IsFiniteSet(PRs \X Numbers)
  BY <1>1, GateAssumption, FS_Product
<1>3. key \in Injection(PrEntries, PRs \X Numbers)
  <2>1. key \in [PrEntries -> PRs \X Numbers]
    BY DEF PrEntries
  <2>2. ASSUME NEW e \in PrEntries, NEW g \in PrEntries, key[e] = key[g] PROVE e = g
    <3>1. e.repo = g.repo /\ e.number = g.number /\ e.ref = g.ref
      BY <2>2 DEF PrOf
    <3>2. e \in Entries /\ g \in Entries
      BY DEF PrEntries
    <3> QED BY <3>1, <3>2 DEF Entries
  <2> HIDE DEF key
  <2> QED BY <2>1, <2>2 DEF Injection, IsInjective
<1> HIDE DEF key
<1> QED
  BY <1>2, <1>3, FS_Injection

\* How many entries the crawl does not hold yet.
Left == Cardinality(PrEntries \ ToSet(prs))

\* Each call of parse_pr takes one PR off the level, each further level takes entries that
\* were not held before, and a level without any ends the loop.
CrawlAdvances ==
  /\ Left \in Nat
  /\ ParsePr => /\ Len(level') = Len(level) - 1
                /\ Left' = Left \/ (level' = <<>> /\ found' = <<>>)
  /\ NextLevel => Left' < Left \/ (level' = <<>> /\ found' = <<>>)

LEMMA AdvanceByInv == GateInv /\ GateInv' => CrawlAdvances
<1> SUFFICES ASSUME GateInv, GateInv' PROVE CrawlAdvances
  OBVIOUS
<1>1. /\ level \in Seq(PrEntries) /\ found \in Seq(PrEntries) /\ prs \in Seq(PrEntries)
      /\ Len(level) <= Len(prs)
  BY DEF GateInv, FrontInv
<1>2. IsFiniteSet(PrEntries \ ToSet(prs)) /\ Left \in Nat
  BY FinitelyManyEntries, FS_Difference, FS_CardinalityType DEF Left
<1>3. ASSUME ParsePr
      PROVE  /\ Len(level') = Len(level) - 1
             /\ Left' = Left \/ (level' = <<>> /\ found' = <<>>)
  <2>1. level # <<>> /\ level' = Tail(level)
    BY <1>3 DEF ParsePr
  <2>2. Len(level') = Len(level) - 1 /\ Len(level) \in Nat /\ Len(level) >= 1
    BY <1>1, <2>1
  <2>3. \/ prs' = prs
        \/ text[PrOf(Head(level))].ignore /\ Len(prs) = 1 /\ found' = found
    BY <1>3 DEF ParsePr
  <2>4. CASE prs' = prs
    BY <2>2, <2>4 DEF Left
  <2>5. CASE Len(prs) = 1 /\ found' = found
    <3>1. found' = <<>>
      BY <2>1, <2>5 DEF GateInv, FrontInv
    <3>2. Len(level') = 0 /\ level' \in Seq(PrEntries)
      BY <1>1, <2>1, <2>2, <2>5
    <3> QED BY <2>2, <3>1, <3>2
  <2> QED BY <2>3, <2>4, <2>5
<1>4. ASSUME NextLevel PROVE Left' < Left \/ (level' = <<>> /\ found' = <<>>)
  <2> DEFINE new == NewOnly(found)
  <2>1. level' = new /\ prs' = prs \o new /\ found' = <<>>
    BY <1>4 DEF NextLevel
  <2>2. new \in Seq(PrEntries) /\ ToSet(new) = ToSet(found) \ ToSet(prs)
    BY <1>1, NewOnlyProperty
  <2> HIDE DEF new
  <2>3. ToSet(prs') = ToSet(prs) \union ToSet(new)
    BY <1>1, <2>1, <2>2, ConcatSet
  <2>4. CASE new = <<>>
    BY <2>1, <2>4
  <2>5. CASE new # <<>>
    <3>1. Head(new) \in ToSet(new)
      BY <2>2, <2>5, HeadTailSet
    <3>2. Head(new) \in PrEntries \ ToSet(prs) /\ Head(new) \notin PrEntries \ ToSet(prs')
      BY <2>2, <2>3, <3>1, ElementsOf
    <3>3. PrEntries \ ToSet(prs') \subseteq PrEntries \ ToSet(prs)
      BY <2>3
    <3>4. /\ Cardinality(PrEntries \ ToSet(prs')) <= Cardinality(PrEntries \ ToSet(prs))
          /\ Cardinality(PrEntries \ ToSet(prs')) # Cardinality(PrEntries \ ToSet(prs))
      BY <1>2, <3>2, <3>3, FS_Subset
    <3>5. Cardinality(PrEntries \ ToSet(prs')) \in Nat
      BY FinitelyManyEntries, FS_Difference, FS_CardinalityType
    <3> QED BY <1>2, <3>4, <3>5 DEF Left
  <2> QED BY <2>4, <2>5
<1> QED
  BY <1>2, <1>3, <1>4 DEF CrawlAdvances

-----------------------------------------------------------------------------

\* In every reachable state the crawl has lost nothing and made up nothing, whatever the
\* texts say, GitHub fails to answer and people merge meanwhile.
THEOREM GateInvariant == Spec => []GateInv
<1> QED
  BY InitGateInv, StepGateInv, PTL DEF Spec

\* The variables keep their types: above all, no commit-id of the manifest that the tests
\* run on is blank.
THEOREM GateTypeCorrect == Spec => []TypeOK
<1>1. GateInv => TypeOK
  BY DEF GateInv
<1> QED
  BY <1>1, GateInvariant, PTL

\* The manifest is made of the PRs that the root's dependencies lead to, and lacks none
\* that is not merged: the level-by-level loop of get_all_related_prs survives cycles,
\* diamonds, changes and failed questions for every set of texts.
THEOREM TheCrawlIsExact == Spec => []CrawlIsExact
<1> QED
  BY ExactByInv, GateInvariant, PTL

\* commit_status_setter.py writes only to PRs of repositories that a chain of mutual
\* dependencies ties to the root's, and, while GitHub answers, only to PRs that were found.
THEOREM StatusesStayInterdependent == Spec => []StatusOnlyInterdependent
<1> QED
  BY InterdependentByInv, GateInvariant, PTL

\* The loop of get_all_related_prs cannot run for ever, whatever circles the texts make:
\* each level makes a natural number smaller, and each call makes the level shorter.
THEOREM TheCrawlAdvances == Spec => [][CrawlAdvances]_vars
<1>1. GateInv /\ GateInv' /\ [Next]_vars => [CrawlAdvances]_vars
  BY AdvanceByInv
<1> QED
  BY <1>1, GateInvariant, PTL DEF Spec

\* What Reached computes, for any pairs over any finite set: the least set that has x and
\* that the pairs do not lead out of.  It is what get_under_test_prs makes of the links and
\* what the crawl is measured by.
THEOREM ReachedIsTheClosure ==
  ASSUME NEW U, IsFiniteSet(U), NEW x \in U, NEW R, R \subseteq U \X U
  PROVE  LET reached == Reached(x, R, Cardinality(U))
         IN  /\ x \in reached
             /\ \A p \in R : p[1] \in reached => p[2] \in reached
             /\ \A S : x \in S /\ (\A p \in R : p[1] \in S => p[2] \in S)
                         => reached \subseteq S
<1>1. Cardinality(U) \in Nat
  BY FS_CardinalityType
<1>2. ASSUME NEW S, x \in S, \A p \in R : p[1] \in S => p[2] \in S
      PROVE  Reached(x, R, Cardinality(U)) \subseteq S
  BY <1>1, <1>2, ReachedIsLeast
<1> QED
  BY <1>1, <1>2, ReachedIsClosed

-----------------------------------------------------------------------------
(* The tag monitor.                                                            *)

\* What is in the history, or on its way there, has been reported or is about to be.
OnItsWay ==
  /\ history \subseteq reported /\ known \subseteq reported
  /\ stage = "property" => newHistory \subseteq reported \union change
  /\ stage \in {"open", "write"} => newHistory \subseteq reported

\* As long as no run is killed and no tag removed, what has been reported is still
\* listed, and the run remembers it wherever it is.
Remembered ==
  kills = 0 /\ removals = 0 =>
    /\ reported \subseteq Listed
    /\ stage = "idle" => reported \subseteq history
    /\ stage \in {"get", "property"} => reported \subseteq known
    /\ stage = "property" => reported \subseteq newHistory /\ change \subseteq newHistory
    /\ stage = "property" => change \intersect known = {} /\ change \subseteq Listed
    /\ stage \in {"open", "write"} => reported \subseteq newHistory

MonitorInv == MonitorTypeOK /\ OnItsWay /\ Remembered

-----------------------------------------------------------------------------

\* What is listed are pairs.
LEMMA ListedPairs == MonitorTypeOK => Listed \subseteq Pairs
BY DEF MonitorTypeOK, Listed, Pairs

\* The first new tag is one that is listed and not known, and there is only one.
LEMMA FirstNewProperty ==
  ASSUME MonitorTypeOK
  PROVE  /\ FirstNew \subseteq Listed \ known
         /\ \A p, q \in FirstNew : p = q
<1> DEFINE new == Listed \ known
           places == {p[2] : p \in new}
           first == CHOOSE p \in new : \A q \in new : p[2] <= q[2]
<1>1. CASE new = {}
  BY <1>1 DEF FirstNew
<1>2. CASE new # {}
  <2>1. places \subseteq Nat /\ places # {}
    BY <1>2, ListedPairs, MonitorAssumption DEF Pairs
  <2>2. \E x \in places : \A y \in places : x =< y
    <3> HIDE DEF places
    <3> QED BY <2>1, Least
  <2>3. \E p \in new : \A q \in new : p[2] <= q[2]
    BY <2>2
  <2>4. first \in new
    BY <2>3
  <2>5. FirstNew = {first}
    BY <1>2 DEF FirstNew
  <2> QED BY <2>4, <2>5
<1> QED
  BY <1>1, <1>2

\* The monitor starts with an empty history and nothing reported.
LEMMA InitMonitorInv == MonitorInit => MonitorInv
<1> SUFFICES ASSUME MonitorInit PROVE MonitorInv
  OBVIOUS
<1>1. MonitorTypeOK
  BY MonitorAssumption DEF MonitorInit, MonitorTypeOK
<1> QED
  BY <1>1 DEF MonitorInit, MonitorInv, OnItsWay, Remembered

\* A step keeps the types: the change is the first new tag or what it was.
LEMMA NextMonitorTypeOK ==
  MonitorTypeOK /\ [MonitorNext]_monitorVars => MonitorTypeOK'
<1> SUFFICES ASSUME MonitorTypeOK, [MonitorNext]_monitorVars PROVE MonitorTypeOK'
  OBVIOUS
<1> USE MonitorAssumption DEF MonitorTypeOK
<1>1. ASSUME NEW t \in Tags, Edit(t) PROVE MonitorTypeOK'
  BY <1>1 DEF Edit, run
<1>2. CASE Start
  BY <1>2 DEF Start, counts
<1>3. CASE GetTags
  <2>1. /\ FirstNew \subseteq Pairs /\ NewHistory \subseteq Pairs
        /\ \A p, q \in FirstNew : p = q
    BY FirstNewProperty, ListedPairs DEF NewHistory
  <2> QED BY <1>3, <2>1 DEF GetTags, counts
<1>4. CASE WritePropertyFile
  BY <1>4 DEF WritePropertyFile, run, counts
<1>5. CASE OpenHistoryFile \/ WriteHistoryFile
  BY <1>5 DEF OpenHistoryFile, WriteHistoryFile, run, counts
<1>6. CASE Killed
  BY <1>6 DEF Killed, run
<1>7. CASE UNCHANGED monitorVars
  BY <1>7 DEF monitorVars, run, counts
<1> QED
  BY <1>1, <1>2, <1>3, <1>4, <1>5, <1>6, <1>7 DEF MonitorNext, Run

\* A step keeps the order in which a tag is reported first and entered then.
LEMMA NextOnItsWay ==
  MonitorInv /\ [MonitorNext]_monitorVars => OnItsWay'
<1> SUFFICES ASSUME MonitorInv, [MonitorNext]_monitorVars
             PROVE  OnItsWay'
  OBVIOUS
<1> USE DEF MonitorInv, OnItsWay
<1>1. CASE GetTags
  <2>1. NewHistory \subseteq known \union FirstNew
    BY DEF NewHistory
  <2>2. FirstNew = {} => NewHistory \subseteq known
    BY <2>1
  <2> QED BY <1>1, <2>1, <2>2 DEF GetTags
<1>2. CASE Start
  BY <1>2 DEF Start
<1>3. CASE WritePropertyFile
  BY <1>3 DEF WritePropertyFile, run
<1>4. CASE OpenHistoryFile
  BY <1>4 DEF OpenHistoryFile, run
<1>5. CASE WriteHistoryFile
  BY <1>5 DEF WriteHistoryFile, run
<1>6. CASE Killed
  BY <1>6 DEF Killed, run
<1>7. CASE UNCHANGED <<history, stage, run, reported>>
  BY <1>7 DEF run
<1> QED
  BY <1>1, <1>2, <1>3, <1>4, <1>5, <1>6, <1>7 DEF MonitorNext, Run, Edit, monitorVars

\* A step keeps what a run remembers, unless it kills the run or removes a tag.
LEMMA NextRemembered ==
  MonitorInv /\ [MonitorNext]_monitorVars => Remembered'
<1> SUFFICES ASSUME MonitorInv, [MonitorNext]_monitorVars, kills' = 0, removals' = 0
             PROVE  Remembered'
  BY DEF Remembered
<1> USE DEF MonitorInv, Remembered
<1>1. ASSUME NEW t \in Tags, Edit(t) PROVE Remembered'
  <2>1. at[t] = 0 /\ removals = 0 /\ kills = 0
    BY <1>1 DEF Edit, MonitorTypeOK
  <2>2. \A u \in Tags : at[u] # 0 => at'[u] = at[u]
    BY <1>1, <2>1 DEF Edit, MonitorTypeOK
  <2>3. Listed \subseteq Listed'
    BY <2>2 DEF Listed
  <2> QED BY <1>1, <2>1, <2>3 DEF Edit, run
<1>2. CASE Start
  BY <1>2 DEF Start, counts, Listed
<1>3. CASE GetTags
  <2>1. FirstNew \subseteq Listed \ known
    BY FirstNewProperty
  <2>2. /\ kills = 0 /\ removals = 0 /\ stage = "get"
        /\ change' = FirstNew /\ newHistory' = NewHistory
        /\ stage' \in {"property", "open"}
        /\ UNCHANGED <<at, known, reported>>
    BY <1>3 DEF GetTags, counts
  <2>3. reported \subseteq Listed \intersect known
    BY <2>2
  <2>4. reported \subseteq NewHistory /\ FirstNew \subseteq NewHistory
    BY <2>3 DEF NewHistory
  <2>5. Listed' = Listed
    BY <2>2 DEF Listed
  <2> QED BY <2>1, <2>2, <2>3, <2>4, <2>5
<1>4. CASE WritePropertyFile
  BY <1>4 DEF WritePropertyFile, run, counts, Listed
<1>5. CASE OpenHistoryFile \/ WriteHistoryFile
  BY <1>5 DEF OpenHistoryFile, WriteHistoryFile, run, counts, Listed
<1>6. CASE Killed
  BY <1>6 DEF Killed, MonitorTypeOK
<1>7. CASE UNCHANGED monitorVars
  BY <1>7 DEF monitorVars, run, counts, Listed
<1> QED
  BY <1>1, <1>2, <1>3, <1>4, <1>5, <1>6, <1>7 DEF MonitorNext, Run

-----------------------------------------------------------------------------

\* The inductive invariant holds of every behaviour of the monitor.
THEOREM MonitorInvariant == MonitorSpec => []MonitorInv
<1>1. MonitorInit => MonitorInv
  BY InitMonitorInv
<1>2. MonitorInv /\ [MonitorNext]_monitorVars => MonitorInv'
  BY NextMonitorTypeOK, NextOnItsWay, NextRemembered DEF MonitorInv
<1> QED
  BY <1>1, <1>2, PTL DEF MonitorSpec

\* Every variable keeps its type, and a run never has more than one tag to report.
THEOREM MonitorTypeCorrect == MonitorSpec => []MonitorTypeOK
<1>1. MonitorInv => MonitorTypeOK
  BY DEF MonitorInv
<1> QED
  BY MonitorInvariant, <1>1, PTL

\* No tag is entered in the history without having been reported, wherever a run is
\* killed and whatever people do to the tags.
THEOREM NothingIsSwallowed == MonitorSpec => []NothingSwallowed
<1>1. MonitorInv => NothingSwallowed
  BY DEF MonitorInv, OnItsWay, NothingSwallowed
<1> QED
  BY MonitorInvariant, <1>1, PTL

\* Without killed runs and removed tags, a pair is reported once.
THEOREM IsReportedOnce == MonitorSpec => []ReportedOnce
<1>1. MonitorInv => ReportedOnce
  BY DEF MonitorInv, Remembered, ReportedOnce
<1> QED
  BY MonitorInvariant, <1>1, PTL
=============================================================================
