---------------------------- MODULE NightlyGate ----------------------------
(***************************************************************************)
(* The nightly NLP check: the gate of scripts/nlp_nightly_gate.py inside   *)
(* the workflow .github/workflows/nlp-nightly.yml that calls it.           *)
(*                                                                         *)
(* Two cron entries fire every night, one for each UTC offset of New York; *)
(* the gate lets exactly one of them act, and lets it run the suite only   *)
(* if the NLP surface differs from that of the last commit whose suite     *)
(* passed.  That commit is the baseline: the newest marker artifact, which *)
(* only a passing suite uploads.  Runs of the workflow are serialized by a *)
(* concurrency group that holds one running and one waiting run, and a     *)
(* newer run takes the place of the waiting one.                           *)
(*                                                                         *)
(* A commit is what the gate can tell apart: the content of the files it   *)
(* watches whole, of the lines that mention Groq in the files it watches   *)
(* by keyword, and of everything else.                                     *)
(***************************************************************************)
EXTENDS Naturals

CONSTANTS
  Commits,     \* the trees main may have, records with the fields
               \*   watched: content of the files in WATCHED_PATHS
               \*   groq:    content of the Groq lines of KEYWORD_WATCHED files
               \*   rest:    content of everything else
  None,        \* no run, no baseline
  MaxCommits,  \* bound: pushes to main
  MaxManual    \* bound: runs a person asks for, dispatches and re-runs

ASSUME NightlyAssumption == MaxCommits \in Nat /\ MaxManual \in Nat

(* What the suite's verdict is about. *)
Surface(c) == <<c.watched, c.groq>>
Surfaces == {Surface(c) : c \in Commits}

Entries == {"EDT", "EST"}    \* the two cron entries, 07:00 and 08:00 UTC
Hours == {6, 7, 8, 9}        \* UTC; 9 stands for the rest of the day
DueAt(e) == IF e = "EDT" THEN 7 ELSE 8

(* "dispatch" is workflow_dispatch; the two others are scheduled events.   *)
Triggers == Entries \union {"dispatch"}
Phases == {"queued", "based", "decided", "red", "green"}
Verdicts == {"none", "run", "twin", "unchanged"}
Runs == [entry : Triggers, head : Commits, base : Commits \union {None},
         again : BOOLEAN, phase : Phases, verdict : Verdicts]
Ended == [entry : Triggers, head : Commits]    \* what a re-run repeats

ASSUME NoneIsNothing == None \notin Commits /\ None \notin Runs /\ None \notin Ended

VARIABLES
  offset,     \* the UTC offset in effect in New York, as the entry for it
  hour,       \* UTC
  due,        \* tonight's entries that GitHub has not queued yet
  running,    \* the run that holds the concurrency group, or None
  waiting,    \* the run that waits for it, or None
  finished,   \* the last finished run, which a person may re-run, or None
  head,       \* the commit at the tip of main
  marker,     \* the commit of the newest marker artifact, or None
  commits,    \* pushes so far
  manual,     \* dispatches and re-runs so far
  passed,     \* history: surfaces on which a suite has passed
  acted,      \* history: tonight's entries that stood for tonight
  displaced   \* history: one of tonight's entries lost its place, or the
              \* night began before the workflow was there

clock == <<offset, hour>>
group == <<running, waiting, finished>>
world == <<head, commits, manual>>
vars == <<clock, due, group, world, marker, passed, acted, displaced>>

Init ==
  /\ offset \in Entries /\ hour = 9 /\ due = {}
  /\ running = None /\ waiting = None /\ finished = None
  /\ head \in Commits /\ marker = None
  /\ commits = 0 /\ manual = 0
  /\ passed = {} /\ acted = {} /\ displaced = TRUE

----------------------------------------------------------------------------
(* The gate, as functions of a run.                                        *)

(* expected_cron *)
ExpectedCron(o) == o

(* is_tonights_cron *)
SlipIsTonight(entry, o) == entry = ExpectedCron(o) /\ hour = DueAt(entry)
IsTonight(entry, o) == entry = ExpectedCron(o)

SlipMatched(base, tip, keywordDiffFails) ==
  base.watched # tip.watched \/ (keywordDiffFails /\ base # tip)

(* watched_changes and resolve_keyword_hits over the files that differ     *)
(* between two commits.  hunk_mentions looks at the lines that moved; a    *)
(* diff that fails counts as a hit, but only for a file that changed.      *)
Matched(base, tip, keywordDiffFails) ==
  \/ base.watched # tip.watched
  \/ base.groq # tip.groq
  \/ keywordDiffFails /\ base # tip

(* decide, after resolve_changed_files: usable is FALSE when the baseline  *)
(* has left the repository or the diff fails.                              *)
Decide(entry, o, base, tip, usable, keywordDiffFails) ==
  IF entry = "dispatch" THEN "run"
  ELSE IF ~IsTonight(entry, o) THEN "twin"
  ELSE IF base = None \/ ~usable THEN "run"
  ELSE IF Matched(base, tip, keywordDiffFails) THEN "run"
  ELSE "unchanged"

----------------------------------------------------------------------------
(* The clock and the scheduler.                                            *)

(* The offset changes at 06:00 UTC in autumn and at 07:00 UTC in spring.   *)
(* LagBound: the runs of a night are over by 06:00 UTC of the next one,    *)
(* 22 hours after they fall due; their jobs are bounded by minutes.        *)
Quiet == due = {} /\ running = None /\ waiting = None

Tick ==
  /\ hour = 9 => Quiet
  /\ hour' = IF hour = 9 THEN 6 ELSE hour + 1
  /\ offset' \in IF (hour' = 6 /\ offset = "EDT") \/ (hour' = 7 /\ offset = "EST")
                 THEN Entries ELSE {offset}
  /\ due' = due \union {e \in Entries : DueAt(e) = hour'}
  /\ IF hour' = 6 THEN acted' = {} /\ displaced' = FALSE
                  ELSE UNCHANGED <<acted, displaced>>
  /\ UNCHANGED <<group, world, marker, passed>>

(* A run joins the concurrency group: it starts if nothing runs, and takes *)
(* the waiting place otherwise.                                            *)
Enqueue(r) ==
  IF running = None THEN /\ running' = r
                         /\ UNCHANGED <<waiting, displaced>>
  ELSE /\ waiting' = r
       /\ displaced' = (displaced \/ (waiting # None /\ waiting.entry \in Entries
                                      /\ ~waiting.again))
       /\ UNCHANGED running

NewRun(entry, tip, again) ==
  [entry |-> entry, head |-> tip, base |-> None,
   again |-> again, phase |-> "queued", verdict |-> "none"]

(* GitHub queues a due entry, however late, at the tip of main.            *)
Fire(e) ==
  /\ e \in due
  /\ due' = due \ {e}
  /\ Enqueue(NewRun(e, head, FALSE))
  /\ UNCHANGED <<clock, finished, world, marker, passed, acted>>

Dispatch ==
  /\ manual < MaxManual
  /\ manual' = manual + 1
  /\ Enqueue(NewRun("dispatch", head, FALSE))
  /\ finished' = IF manual' < MaxManual THEN finished ELSE None
  /\ UNCHANGED <<clock, due, head, commits, marker, passed, acted>>

(* A re-run keeps the commit and the event of the run it repeats.          *)
Rerun ==
  /\ manual < MaxManual /\ finished # None
  /\ manual' = manual + 1
  /\ Enqueue(NewRun(finished.entry, finished.head, TRUE))
  /\ finished' = IF manual' < MaxManual THEN finished ELSE None
  /\ UNCHANGED <<clock, due, head, commits, marker, passed, acted>>

----------------------------------------------------------------------------
(* The jobs of the run that holds the group.                               *)

(* "Find the last validated commit": the newest marker, or none when the   *)
(* artifacts cannot be listed.                                             *)
FindBaseline ==
  /\ running # None /\ running.phase = "queued"
  /\ \E b \in {marker, None} :
       running' = [running EXCEPT !.base = b, !.phase = "based"]
  /\ UNCHANGED <<clock, due, waiting, finished, world, marker, passed, acted, displaced>>

(* main: the decision, with the offset in effect now.                      *)
Gate ==
  /\ running # None /\ running.phase = "based"
  /\ \E usable, keywordDiffFails \in BOOLEAN :
       running' = [running EXCEPT
                     !.phase = "decided", !.base = None,
                     !.verdict = Decide(running.entry, offset, running.base,
                                        running.head, usable, keywordDiffFails)]
  /\ acted' = IF running.entry \in Entries /\ ~running.again
                 /\ IsTonight(running.entry, offset)
              THEN acted \union {running.entry} ELSE acted
  /\ UNCHANGED <<clock, due, waiting, finished, world, marker, passed, displaced>>

(* The suite passes, and the last step of its job uploads the marker.      *)
SuitePasses ==
  /\ running # None /\ running.phase = "decided" /\ running.verdict = "run"
  /\ running' = [running EXCEPT !.phase = "green"]
  /\ marker' = running.head
  /\ passed' = passed \union {Surface(running.head)}
  /\ UNCHANGED <<clock, due, waiting, finished, world, acted, displaced>>

(* The suite fails, or its job does before the marker is written.          *)
SuiteFails ==
  /\ running # None /\ running.phase = "decided" /\ running.verdict = "run"
  /\ running' = [running EXCEPT !.phase = "red"]
  /\ UNCHANGED <<clock, due, waiting, finished, world, marker, passed, acted, displaced>>

SlipIdleFinish ==
  /\ running # None
  /\ running.phase \in {"red", "green"} \/ running.verdict \in {"twin", "unchanged"}
  /\ running' = None /\ finished' = None
  /\ UNCHANGED <<clock, due, waiting, world, marker, passed, acted, displaced>>

SlipFinish ==
  /\ running # None
  /\ running.phase \in {"red", "green"} \/ running.verdict \in {"twin", "unchanged"}
  /\ marker' = IF running.phase # "red" THEN running.head ELSE marker
  /\ running' = waiting /\ waiting' = None /\ finished' = None
  /\ UNCHANGED <<clock, due, world, passed, acted, displaced>>

(* The run ends and hands the group to the waiting one.  A run the gate    *)
(* turned down ends green without a suite.  Once MaxManual is used up no    *)
(* run is worth remembering.                                               *)
Finish ==
  /\ running # None
  /\ \/ running.phase \in {"red", "green"}
     \/ running.phase = "decided" /\ running.verdict # "run"
  /\ finished' = IF manual < MaxManual THEN [entry |-> running.entry, head |-> running.head]
                                      ELSE None
  /\ running' = waiting
  /\ waiting' = None
  /\ UNCHANGED <<clock, due, world, marker, passed, acted, displaced>>

----------------------------------------------------------------------------
(* The repository.                                                         *)

Push ==
  /\ commits < MaxCommits
  /\ commits' = commits + 1
  /\ head' \in Commits \ {head}
  /\ UNCHANGED <<clock, due, group, manual, marker, passed, acted, displaced>>

(* The marker ages out of its 90 days of retention.                        *)
Expire ==
  /\ marker # None
  /\ marker' = None
  /\ UNCHANGED <<clock, due, group, world, passed, acted, displaced>>

Schedule == Tick \/ \E e \in Entries : Fire(e)
Job == FindBaseline \/ Gate \/ SuitePasses \/ SuiteFails \/ Finish
Next == Schedule \/ Job \/ Dispatch \/ Rerun \/ Push \/ Expire

(* Nights go by, GitHub queues what is due, runners take what is queued.   *)
(* Nothing makes a suite pass, and nobody has to push or dispatch.         *)
Fairness ==
  /\ WF_vars(Tick) /\ \A e \in Entries : WF_vars(Fire(e))
  /\ WF_vars(FindBaseline) /\ WF_vars(Gate) /\ WF_vars(Finish)
  /\ WF_vars(SuitePasses \/ SuiteFails)

Spec == Init /\ [][Next]_vars /\ Fairness

----------------------------------------------------------------------------
(* Properties.                                                             *)

TypeOK ==
  /\ offset \in Entries /\ hour \in Hours /\ due \subseteq Entries
  /\ running \in Runs \union {None} /\ waiting \in Runs \union {None}
  /\ running = None => waiting = None
  /\ finished \in Ended \union {None}
  /\ head \in Commits /\ marker \in Commits \union {None}
  /\ commits \in 0 .. MaxCommits /\ manual \in 0 .. MaxManual
  /\ passed \subseteq Surfaces /\ acted \subseteq Entries /\ displaced \in BOOLEAN

(* A night the gate calls off for want of changes is a night whose NLP     *)
(* surface has been seen to pass, whatever decoys, red nights, re-runs of  *)
(* older commits, expired markers and reverts came before.                 *)
CalledOffIsValidated ==
  running # None /\ running.verdict = "unchanged" => Surface(running.head) \in passed

(* Of the two entries of a night at most one acts, however late each is    *)
(* and whatever the night does to the offset; and unless one lost its      *)
(* place in the group, one of them did by the end of the night.            *)
OneTwinActs ==
  /\ acted # Entries
  /\ (hour = 9 /\ Quiet /\ ~displaced) => acted # {}

(* A change to the surface that no suite has passed is run against the     *)
(* live model: a red night is followed by another until it is green, or    *)
(* main has moved on.                                                      *)
UnvalidatedHeadIsRun ==
  \A s \in Surfaces :
    (Surface(head) = s /\ s \notin passed)
      ~> \/ Surface(head) # s
         \/ running # None /\ running.verdict = "run" /\ Surface(running.head) = s
=============================================================================
