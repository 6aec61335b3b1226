----------------------------- MODULE TagMonitor ------------------------------
(***************************************************************************)
(* application/tag_change_monitor.py: a job that runs again and again and  *)
(* hands the new tags of a repository, one for each run, to a downstream   *)
(* job.  What it has handed over it remembers in a history file.  A run    *)
(* may be killed between any two steps; people create, move and delete     *)
(* tags at any time.                                                       *)
(*                                                                         *)
(* A tag is a number, its place in the list that GitHub gives; a pair is   *)
(* <<commit, tag>>, as in the history file.                                *)
(***************************************************************************)
EXTENDS Naturals

CONSTANTS
  Tags, Commits,
  MaxEdits,    \* bound: how often people create, move or delete a tag
  MaxKills     \* bound: how often a run is killed

ASSUME MonitorAssumption ==
  /\ Tags \subseteq Nat \ {0}
  /\ Commits \subseteq Nat \ {0}
  /\ MaxEdits \in Nat /\ MaxKills \in Nat

VARIABLES
  at,         \* for each tag: the commit it is at, or 0
  history,    \* the history file: its pairs
  stage,      \* what the run does next; "idle" between two runs
  known,      \* self.history
  change,     \* self.change
  newHistory, \* self.new_history
  reported,   \* the pairs that have ever been in the property file
  edits, removals, kills

run == <<known, change, newHistory>>
counts == <<edits, removals, kills>>
monitorVars == <<at, history, stage, run, reported, counts>>

Pairs == Commits \X Tags

MonitorInit ==
  /\ at \in [Tags -> Commits \union {0}]
  /\ history = {}
  /\ stage = "idle"
  /\ known = {} /\ change = {} /\ newHistory = {}
  /\ reported = {}
  /\ edits = 0 /\ removals = 0 /\ kills = 0

\* What GitHub lists.
Listed == {<<at[t], t>> : t \in {u \in Tags : at[u] # 0}}

-----------------------------------------------------------------------------
(* Seeded faults                                                           *)

\* Once a new tag has been seen, all the others are entered as well.
NewHistoryAll == Listed

\* The tag that is reported is not entered.
NewHistoryOld == Listed \intersect known

\* All new tags are reported at once.
AllNew == Listed \ known

-----------------------------------------------------------------------------

Edit(t) ==
  /\ edits < MaxEdits
  /\ \E c \in Commits \union {0} :
       /\ c # at[t]
       /\ at' = [at EXCEPT ![t] = c]
       /\ removals' = IF at[t] # 0 THEN removals + 1 ELSE removals
  /\ edits' = edits + 1
  /\ UNCHANGED <<history, stage, run, reported, kills>>

\* __init__: reads the history file, or creates an empty one.
Start ==
  /\ stage = "idle"
  /\ known' = history
  /\ stage' = "get"
  /\ UNCHANGED <<at, history, change, newHistory, reported, counts>>

\* parse_tag_info: the first tag of the list that is not in the history.
FirstNew ==
  LET new == Listed \ known
  IN  IF new = {} THEN {} ELSE {CHOOSE p \in new : \A q \in new : p[2] <= q[2]}

\* The tags that are listed, without the new ones that have not been reported.
NewHistory == (Listed \intersect known) \union FirstNew

GetTags ==
  /\ stage = "get"
  /\ change' = FirstNew
  /\ newHistory' = NewHistory
  /\ stage' = IF FirstNew # {} THEN "property" ELSE "open"
  /\ UNCHANGED <<at, history, known, reported, counts>>

WritePropertyFile ==
  /\ stage = "property"
  /\ reported' = reported \union change
  /\ stage' = "open"
  /\ UNCHANGED <<at, history, run, counts>>

\* Opening the history file for writing empties it.
OpenHistoryFile ==
  /\ stage = "open"
  /\ history' = {}
  /\ stage' = "write"
  /\ UNCHANGED <<at, run, reported, counts>>

WriteHistoryFile ==
  /\ stage = "write"
  /\ history' = newHistory
  /\ stage' = "idle"
  /\ UNCHANGED <<at, run, reported, counts>>

\* A run is killed, or ends because GitHub does not answer.  Killed while it writes the
\* history, it leaves some of the lines.
Killed ==
  /\ stage # "idle"
  /\ kills < MaxKills
  /\ kills' = kills + 1
  /\ history' \in IF stage = "write" THEN SUBSET newHistory ELSE {history}
  /\ stage' = "idle"
  /\ UNCHANGED <<at, run, reported, edits, removals>>

Run == Start \/ GetTags \/ WritePropertyFile \/ OpenHistoryFile \/ WriteHistoryFile

MonitorNext == Run \/ Killed \/ \E t \in Tags : Edit(t)

\* The job is started again and again, and goes on unless it is killed.
MonitorSpec == MonitorInit /\ [][MonitorNext]_monitorVars /\ WF_monitorVars(Run)

-----------------------------------------------------------------------------
(* Properties                                                              *)

\* A run reports one tag at most: the property file has room for one.
MonitorTypeOK ==
  /\ at \in [Tags -> Commits \union {0}]
  /\ history \subseteq Pairs /\ known \subseteq Pairs /\ newHistory \subseteq Pairs
  /\ change \subseteq Pairs /\ \A p, q \in change : p = q
  /\ stage \in {"idle", "get", "property", "open", "write"}
  /\ reported \subseteq Pairs
  /\ edits \in 0..MaxEdits /\ removals \in 0..edits /\ kills \in 0..MaxKills

\* What the history file holds has been handed over: no tag is entered without being
\* reported, wherever a run is killed.
NothingSwallowed == history \subseteq reported

\* A pair is handed over a second time only if a run has been killed or somebody has
\* moved or deleted a tag.
ReportedOnce ==
  stage = "property" /\ kills = 0 /\ removals = 0 => change \intersect reported = {}

\* A tag that stays is handed over at last, though each run takes only one and some
\* runs are killed.
EveryTagReported ==
  \A p \in Pairs : <>[](p \in Listed) => <>(p \in reported)
=============================================================================
