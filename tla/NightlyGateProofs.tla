-------------------------- MODULE NightlyGateProofs -------------------------
(***************************************************************************)
(* Proofs about NightlyGate, for any set of trees and any number of        *)
(* pushes, dispatches and re-runs.                                         *)
(***************************************************************************)
EXTENDS NightlyGate, TLAPS

(* Before a night's first entry is due nobody has acted for it, and no run *)
(* of the night before is left.                                            *)
Tonights(r) == r # None /\ r.entry \in Entries /\ ~r.again

DawnIsEmpty ==
  hour = 6 => due = {} /\ acted = {} /\ ~Tonights(running) /\ ~Tonights(waiting)

ActedIsExpected == acted \subseteq {offset}

(* A run that waits has not looked at anything yet. *)
WaitingIsFresh ==
  waiting # None =>
    waiting.phase = "queued" /\ waiting.base = None /\ waiting.verdict = "none"

(* The marker names a commit whose suite passed, and so does the baseline  *)
(* that a run has read from it, even if the marker has expired since.      *)
MarkerIsTrue ==
  /\ marker # None => Surface(marker) \in passed
  /\ running # None /\ running.base # None => Surface(running.base) \in passed

(* The entry that stands for tonight is still to be queued, on its way to  *)
(* the gate, past it, or displaced.                                        *)
OnItsWay(r) ==
  r # None /\ r.entry = offset /\ ~r.again /\ r.phase \in {"queued", "based"}

NightIsCovered ==
  hour # 6 /\ DueAt(offset) <= hour =>
    \/ offset \in due \/ OnItsWay(running) \/ OnItsWay(waiting)
    \/ offset \in acted \/ displaced

Inv ==
  /\ TypeOK /\ DawnIsEmpty /\ ActedIsExpected /\ WaitingIsFresh
  /\ MarkerIsTrue /\ NightIsCovered /\ CalledOffIsValidated
-----------------------------------------------------------------------------
(* The fields of a run; a run is not None. *)
LEMMA RunFields ==
  ASSUME NEW r \in Runs
  PROVE  /\ r # None /\ r.entry \in Triggers /\ r.head \in Commits
         /\ r.base \in Commits \union {None} /\ r.again \in BOOLEAN
         /\ r.phase \in Phases /\ r.verdict \in Verdicts
BY NoneIsNothing DEF Runs

(* What calling a run off takes: a baseline with the same surface. *)
LEMMA CallingOffComparesSurfaces ==
  ASSUME NEW e, NEW o, NEW b, NEW c, NEW u, NEW k,
         Decide(e, o, b, c, u, k) = "unchanged"
  PROVE  b # None /\ Surface(b) = Surface(c)
<1>1. b # None /\ ~Matched(b, c, k)
  BY DEF Decide
<1> QED
  BY <1>1 DEF Matched, Surface

LEMMA DecideType ==
  ASSUME NEW e, NEW o, NEW b, NEW c, NEW u, NEW k
  PROVE  Decide(e, o, b, c, u, k) \in Verdicts
BY DEF Decide, Verdicts

LEMMA StepCases ==
  ASSUME Next
  PROVE  \/ Tick \/ (\E e \in Entries : Fire(e))
         \/ FindBaseline \/ Gate \/ SuitePasses \/ SuiteFails \/ Finish
         \/ Dispatch \/ Rerun \/ Push \/ Expire
BY DEF Next, Schedule, Job
-----------------------------------------------------------------------------
(* A run that joins the group: what Fire, Dispatch and Rerun share. *)
LEMMA EnqueueKeeps ==
  ASSUME Inv, NEW r \in Runs, Enqueue(r), r.phase = "queued", r.base = None,
         r.verdict = "none", UNCHANGED <<offset, hour, marker, passed, acted>>,
         hour = 6 => ~Tonights(r)
  PROVE  /\ running' \in Runs \union {None} /\ waiting' \in Runs \union {None}
         /\ (running = None => waiting = None)'
         /\ displaced' \in BOOLEAN
         /\ hour = 6 => ~Tonights(running)' /\ ~Tonights(waiting)'
         /\ WaitingIsFresh' /\ MarkerIsTrue' /\ CalledOffIsValidated'
         /\ OnItsWay(running) => OnItsWay(running)'
         /\ OnItsWay(waiting) => OnItsWay(waiting)' \/ displaced'
         /\ displaced => displaced'
         /\ (r.entry = offset /\ ~r.again) => OnItsWay(running)' \/ OnItsWay(waiting)'
<1>0. r # None
  BY RunFields
<1>1. CASE running = None
  <2>1. running' = r /\ waiting' = waiting /\ displaced' = displaced /\ waiting = None
    BY <1>1 DEF Enqueue, Inv, TypeOK
  <2> QED
    BY <1>0, <1>1, <2>1 DEF Inv, TypeOK, DawnIsEmpty, Tonights, WaitingIsFresh,
       MarkerIsTrue, CalledOffIsValidated, OnItsWay
<1>2. CASE running # None
  <2>1. /\ waiting' = r /\ running' = running
        /\ displaced' = (displaced \/ (waiting # None /\ waiting.entry \in Entries
                                      /\ ~waiting.again))
    BY <1>2 DEF Enqueue
  <2>2. OnItsWay(waiting) => displaced'
    BY <2>1 DEF OnItsWay, Inv, TypeOK
  <2> QED
    BY <1>0, <1>2, <2>1, <2>2 DEF Inv, TypeOK, DawnIsEmpty, Tonights, WaitingIsFresh,
       MarkerIsTrue, CalledOffIsValidated, OnItsWay
<1> QED
  BY <1>1, <1>2

(* The invariant is inductive. *)
LEMMA Initially == ASSUME Init PROVE Inv
BY NightlyAssumption, NoneIsNothing
   DEF Init, Inv, TypeOK, Hours, DawnIsEmpty, ActedIsExpected, WaitingIsFresh,
       MarkerIsTrue, NightIsCovered, CalledOffIsValidated

LEMMA TickKeeps == ASSUME Inv, Tick PROVE Inv'
<1> USE DEF Inv
<1>1. hour' \in Hours /\ offset' \in Entries /\ due' \subseteq Entries
      /\ acted' \subseteq Entries /\ displaced' \in BOOLEAN
  <2>1. hour \in Hours /\ offset \in Entries /\ due \subseteq Entries
        /\ acted \subseteq Entries /\ displaced \in BOOLEAN
    BY DEF TypeOK
  <2>2. hour' \in Hours
    BY <2>1 DEF Tick, Hours
  <2>3. offset' \in Entries
    BY <2>1 DEF Tick
  <2>4. due' \subseteq Entries
    BY <2>1 DEF Tick
  <2>5. acted' \subseteq Entries /\ displaced' \in BOOLEAN
    <3>1. CASE hour' = 6
      BY <3>1 DEF Tick
    <3>2. CASE hour' # 6
      BY <2>1, <3>2 DEF Tick
    <3> QED
      BY <3>1, <3>2
  <2> QED
    BY <2>2, <2>3, <2>4, <2>5
<1>2. TypeOK'
  BY <1>1 DEF Tick, TypeOK, group, world
<1>3. DawnIsEmpty'
  <2> SUFFICES ASSUME hour' = 6
               PROVE  due' = {} /\ acted' = {} /\ ~Tonights(running)' /\ ~Tonights(waiting)'
    BY DEF DawnIsEmpty
  <2>1. hour = 9 /\ Quiet
    BY DEF Tick, TypeOK, Hours
  <2>2. \A e \in Entries : DueAt(e) # hour'
    BY DEF DueAt
  <2>3. due' = {}
    BY <2>1, <2>2 DEF Tick, Quiet
  <2>4. acted' = {} /\ running' = None /\ waiting' = None
    BY <2>1 DEF Tick, Quiet, group
  <2> QED
    BY <2>3, <2>4 DEF Tonights
<1>4. ActedIsExpected'
  <2>1. CASE hour' = 6
    BY <2>1 DEF Tick, ActedIsExpected
  <2>2. CASE hour' # 6
    <3>1. acted' = acted /\ (hour' = 7 => hour = 6)
      BY <2>2 DEF Tick, TypeOK, Hours
    <3>2. hour' # 7 => offset' = offset
      BY <2>2 DEF Tick, TypeOK, Entries
    <3> QED
      BY <3>1, <3>2 DEF ActedIsExpected, DawnIsEmpty
  <2> QED
    BY <2>1, <2>2
<1>5. WaitingIsFresh' /\ MarkerIsTrue' /\ CalledOffIsValidated'
  BY DEF Tick, WaitingIsFresh, MarkerIsTrue, CalledOffIsValidated, group
<1>6. NightIsCovered'
  <2> SUFFICES ASSUME hour' # 6, DueAt(offset') <= hour',
                      offset' \notin due'
               PROVE  \/ OnItsWay(running)' \/ OnItsWay(waiting)'
                      \/ offset' \in acted' \/ displaced'
    BY DEF NightIsCovered
  <2>1. hour \in {6, 7, 8} /\ hour' = hour + 1
    BY DEF Tick, TypeOK, Hours
  <2>2. DueAt(offset') # hour' /\ offset' \in Entries /\ offset' \notin due
    BY <1>1 DEF Tick
  <2>3. hour' # 7
    BY <2>2 DEF DueAt, Entries
  <2>4. offset' = offset /\ hour # 6 /\ DueAt(offset) <= hour
    BY <2>1, <2>2, <2>3 DEF Tick, TypeOK, Entries, DueAt
  <2>5. OnItsWay(running) \/ OnItsWay(waiting) \/ offset \in acted \/ displaced
    BY <2>2, <2>4 DEF NightIsCovered
  <2>6. UNCHANGED <<running, waiting, acted, displaced>>
    BY DEF Tick, group
  <2> QED
    BY <2>4, <2>5, <2>6 DEF OnItsWay
<1> QED
  BY <1>2, <1>3, <1>4, <1>5, <1>6

LEMMA FireKeeps == ASSUME Inv, NEW e \in Entries, Fire(e) PROVE Inv'
<1> DEFINE r == NewRun(e, head, FALSE)
<1>1. r \in Runs /\ r.entry = e /\ r.again = FALSE /\ r.base = None
      /\ r.phase = "queued" /\ r.verdict = "none"
  <2>1. e \in Triggers /\ head \in Commits /\ FALSE \in BOOLEAN
    BY DEF Inv, TypeOK, Triggers
  <2> QED
    BY <2>1 DEF NewRun, Runs, Phases, Verdicts
<1>2. hour # 6
  BY DEF Fire, Inv, DawnIsEmpty
<1>3. Enqueue(r) /\ UNCHANGED <<offset, hour, marker, passed, acted>>
  BY DEF Fire, clock
<1> HIDE DEF r
<1>4. /\ running' \in Runs \union {None} /\ waiting' \in Runs \union {None}
      /\ (running = None => waiting = None)' /\ displaced' \in BOOLEAN
      /\ WaitingIsFresh' /\ MarkerIsTrue' /\ CalledOffIsValidated'
      /\ OnItsWay(running) => OnItsWay(running)'
      /\ OnItsWay(waiting) => OnItsWay(waiting)' \/ displaced'
      /\ displaced => displaced'
      /\ r.entry = offset => OnItsWay(running)' \/ OnItsWay(waiting)'
  BY <1>1, <1>2, <1>3, EnqueueKeeps
<1>5. TypeOK'
  BY <1>4 DEF Fire, Inv, TypeOK, clock, world
<1>6. DawnIsEmpty' /\ ActedIsExpected'
  BY <1>2, <1>3 DEF Inv, DawnIsEmpty, ActedIsExpected
<1>7. NightIsCovered'
  BY <1>1, <1>3, <1>4 DEF Fire, Inv, NightIsCovered
<1> QED
  BY <1>4, <1>5, <1>6, <1>7 DEF Inv

(* A run that a person asks for does not stand for tonight. *)
LEMMA ManualKeeps ==
  ASSUME Inv, NEW r \in Runs, r.entry = "dispatch" \/ r.again,
         r.phase = "queued", r.base = None, r.verdict = "none", Enqueue(r),
         manual' \in 0 .. MaxManual, finished' \in Ended \union {None},
         UNCHANGED <<clock, due, head, commits, marker, passed, acted>>
  PROVE  Inv'
<1>1. ~Tonights(r)
  BY DEF Tonights, Entries
<1>2. UNCHANGED <<offset, hour, due, marker, passed, acted>>
  BY DEF clock
<1>3. /\ running' \in Runs \union {None} /\ waiting' \in Runs \union {None}
      /\ (running = None => waiting = None)' /\ displaced' \in BOOLEAN
      /\ hour = 6 => ~Tonights(running)' /\ ~Tonights(waiting)'
      /\ WaitingIsFresh' /\ MarkerIsTrue' /\ CalledOffIsValidated'
      /\ OnItsWay(running) => OnItsWay(running)'
      /\ OnItsWay(waiting) => OnItsWay(waiting)' \/ displaced'
      /\ displaced => displaced'
  BY <1>1, <1>2, EnqueueKeeps
<1>4. TypeOK'
  BY <1>2, <1>3 DEF Inv, TypeOK
<1>5. DawnIsEmpty' /\ ActedIsExpected'
  BY <1>2, <1>3 DEF Inv, DawnIsEmpty, ActedIsExpected
<1>6. NightIsCovered'
  BY <1>2, <1>3 DEF Inv, NightIsCovered
<1> QED
  BY <1>3, <1>4, <1>5, <1>6 DEF Inv

LEMMA DispatchKeeps == ASSUME Inv, Dispatch PROVE Inv'
<1>1. /\ NewRun("dispatch", head, FALSE) \in Runs
      /\ NewRun("dispatch", head, FALSE).entry = "dispatch"
      /\ NewRun("dispatch", head, FALSE).base = None
      /\ NewRun("dispatch", head, FALSE).phase = "queued"
      /\ NewRun("dispatch", head, FALSE).verdict = "none"
  <2>1. "dispatch" \in Triggers /\ head \in Commits /\ FALSE \in BOOLEAN
    BY DEF Inv, TypeOK, Triggers
  <2> QED
    BY <2>1 DEF NewRun, Runs, Phases, Verdicts
<1>2. manual' \in 0 .. MaxManual /\ finished' \in Ended \union {None}
  BY NightlyAssumption DEF Dispatch, Inv, TypeOK
<1> QED
  BY <1>1, <1>2, ManualKeeps DEF Dispatch

LEMMA RerunKeeps == ASSUME Inv, Rerun PROVE Inv'
<1> DEFINE r == NewRun(finished.entry, finished.head, TRUE)
<1>1. finished.entry \in Triggers /\ finished.head \in Commits
  BY DEF Rerun, Inv, TypeOK, Ended
<1>2. r \in Runs /\ r.again = TRUE /\ r.base = None /\ r.phase = "queued" /\ r.verdict = "none"
  <2>1. TRUE \in BOOLEAN
    OBVIOUS
  <2> QED
    BY <1>1, <2>1 DEF NewRun, Runs, Phases, Verdicts
<1>3. manual' \in 0 .. MaxManual /\ finished' \in Ended \union {None}
  BY NightlyAssumption DEF Rerun, Inv, TypeOK
<1>4. Enqueue(r) /\ UNCHANGED <<clock, due, head, commits, marker, passed, acted>>
  BY DEF Rerun
<1> HIDE DEF r
<1> QED
  BY <1>2, <1>3, <1>4, ManualKeeps

(* The steps of the run that holds the group. *)
LEMMA FindBaselineKeeps == ASSUME Inv, FindBaseline PROVE Inv'
<1>1. PICK b \in {marker, None} :
        running' = [running EXCEPT !.base = b, !.phase = "based"]
  BY DEF FindBaseline
<1>2. running \in Runs /\ running.phase = "queued"
  BY DEF FindBaseline, Inv, TypeOK
<1>3. b \in Commits \union {None} /\ (b # None => Surface(b) \in passed)
  BY DEF Inv, TypeOK, MarkerIsTrue
<1>4. /\ running' \in Runs /\ running'.base = b /\ running'.phase = "based"
      /\ running'.entry = running.entry /\ running'.again = running.again
      /\ running'.head = running.head /\ running'.verdict = running.verdict
  BY <1>1, <1>2, <1>3 DEF Runs, Phases
<1>5. running # None /\ running' # None
  BY <1>2, <1>4, RunFields
<1>6. UNCHANGED <<offset, hour, due, waiting, finished, head, commits, manual,
                  marker, passed, acted, displaced>>
  BY DEF FindBaseline, clock, world
<1>7. TypeOK'
  BY <1>4, <1>5, <1>6 DEF Inv, TypeOK
<1>8. DawnIsEmpty' /\ ActedIsExpected' /\ WaitingIsFresh'
  BY <1>4, <1>5, <1>6 DEF Inv, DawnIsEmpty, Tonights, ActedIsExpected, WaitingIsFresh
<1>9. MarkerIsTrue' /\ CalledOffIsValidated'
  BY <1>3, <1>4, <1>5, <1>6 DEF Inv, MarkerIsTrue, CalledOffIsValidated
<1>10. NightIsCovered'
  BY <1>2, <1>4, <1>5, <1>6 DEF Inv, NightIsCovered, OnItsWay
<1> QED
  BY <1>7, <1>8, <1>9, <1>10 DEF Inv

LEMMA GateKeeps == ASSUME Inv, Gate PROVE Inv'
<1>1. PICK usable, keywordDiffFails \in BOOLEAN :
        running' = [running EXCEPT
                     !.phase = "decided", !.base = None,
                     !.verdict = Decide(running.entry, offset, running.base,
                                        running.head, usable, keywordDiffFails)]
  BY DEF Gate
<1> DEFINE v == Decide(running.entry, offset, running.base,
                       running.head, usable, keywordDiffFails)
<1>2. running \in Runs /\ running # None /\ running.phase = "based"
  BY DEF Gate, Inv, TypeOK
<1>3. v \in Verdicts
  BY DecideType
<1>4. v = "unchanged" => running.base # None /\ Surface(running.base) = Surface(running.head)
  BY CallingOffComparesSurfaces
<1>5. running' = [running EXCEPT !.phase = "decided", !.base = None, !.verdict = v]
  BY <1>1
<1> HIDE DEF v
<1>6. /\ running' \in Runs /\ running'.base = None /\ running'.verdict = v
      /\ running'.entry = running.entry /\ running'.again = running.again
      /\ running'.head = running.head
  BY <1>2, <1>3, <1>5 DEF Runs, Phases
<1>7. running' # None
  BY <1>6, RunFields
<1>8. UNCHANGED <<offset, hour, due, waiting, finished, head, commits, manual,
                  marker, passed, displaced>>
  BY DEF Gate, clock, world
<1>9. /\ Tonights(running) /\ running.entry = offset => acted' = acted \union {offset}
      /\ acted' = acted \/ (Tonights(running) /\ running.entry = offset
                            /\ acted' = acted \union {offset})
  <2>1. running.entry \in Entries => (IsTonight(running.entry, offset) <=> running.entry = offset)
    BY DEF IsTonight, ExpectedCron, Entries
  <2>2. acted' = IF running.entry \in Entries /\ ~running.again
                    /\ IsTonight(running.entry, offset)
                 THEN acted \union {running.entry} ELSE acted
    BY DEF Gate
  <2> QED
    BY <1>2, <2>1, <2>2 DEF Tonights
<1>10. offset \in Entries
  BY DEF Inv, TypeOK
<1>11. TypeOK'
  BY <1>6, <1>7, <1>8, <1>9, <1>10 DEF Inv, TypeOK
<1>12. DawnIsEmpty' /\ ActedIsExpected' /\ WaitingIsFresh'
  BY <1>2, <1>6, <1>7, <1>8, <1>9 DEF Inv, DawnIsEmpty, Tonights, ActedIsExpected, WaitingIsFresh
<1>13. MarkerIsTrue' /\ CalledOffIsValidated'
  BY <1>2, <1>4, <1>6, <1>7, <1>8 DEF Inv, MarkerIsTrue, CalledOffIsValidated
<1>14. NightIsCovered'
  BY <1>8, <1>9, <1>10 DEF Inv, NightIsCovered, OnItsWay, Tonights
<1> QED
  BY <1>11, <1>12, <1>13, <1>14 DEF Inv

(* The suite's verdict: only a pass moves the marker, to a surface that    *)
(* has passed from then on.                                                *)
LEMMA SuiteKeeps == ASSUME Inv, SuitePasses \/ SuiteFails PROVE Inv'
<1>1. PICK p \in {"green", "red"} : running' = [running EXCEPT !.phase = p]
  BY DEF SuitePasses, SuiteFails
<1>2. running \in Runs /\ running # None /\ running.phase = "decided"
      /\ running.verdict = "run" /\ running.head \in Commits
  BY RunFields DEF SuitePasses, SuiteFails, Inv, TypeOK
<1>3. /\ running' \in Runs /\ running'.base = running.base /\ running'.verdict = "run"
      /\ running'.entry = running.entry /\ running'.again = running.again
      /\ running'.head = running.head
  BY <1>1, <1>2 DEF Runs, Phases
<1>4. running' # None
  BY <1>3, RunFields
<1>5. UNCHANGED <<offset, hour, due, waiting, finished, head, commits, manual, acted, displaced>>
  BY DEF SuitePasses, SuiteFails, clock, world
<1>6. /\ passed \subseteq passed' /\ passed' \subseteq Surfaces
      /\ marker' \in Commits \union {None}
      /\ marker' # None => Surface(marker') \in passed'
  BY <1>2 DEF SuitePasses, SuiteFails, Inv, TypeOK, MarkerIsTrue, Surfaces
<1>7. TypeOK'
  BY <1>3, <1>4, <1>5, <1>6 DEF Inv, TypeOK
<1>8. DawnIsEmpty' /\ ActedIsExpected' /\ WaitingIsFresh'
  BY <1>2, <1>3, <1>4, <1>5 DEF Inv, DawnIsEmpty, Tonights, ActedIsExpected, WaitingIsFresh
<1>9. MarkerIsTrue' /\ CalledOffIsValidated'
  BY <1>2, <1>3, <1>4, <1>6 DEF Inv, MarkerIsTrue, CalledOffIsValidated
<1>10. NightIsCovered'
  BY <1>2, <1>5 DEF Inv, NightIsCovered, OnItsWay
<1> QED
  BY <1>7, <1>8, <1>9, <1>10 DEF Inv

LEMMA FinishKeeps == ASSUME Inv, Finish PROVE Inv'
<1>1. running \in Runs /\ running # None /\ running.phase \notin {"queued", "based"}
  BY DEF Finish, Inv, TypeOK
<1>2. /\ running' = waiting /\ waiting' = None
      /\ UNCHANGED <<offset, hour, due, head, commits, manual, marker, passed, acted, displaced>>
  BY DEF Finish, clock, world
<1>3. finished' \in Ended \union {None}
  BY <1>1, RunFields DEF Finish, Ended
<1>4. TypeOK'
  BY <1>2, <1>3 DEF Inv, TypeOK
<1>5. DawnIsEmpty' /\ ActedIsExpected' /\ WaitingIsFresh'
  BY <1>2 DEF Inv, DawnIsEmpty, Tonights, ActedIsExpected, WaitingIsFresh
<1>6. MarkerIsTrue' /\ CalledOffIsValidated'
  BY <1>2 DEF Inv, WaitingIsFresh, MarkerIsTrue, CalledOffIsValidated
<1>7. NightIsCovered'
  BY <1>1, <1>2 DEF Inv, NightIsCovered, OnItsWay
<1> QED
  BY <1>4, <1>5, <1>6, <1>7 DEF Inv

LEMMA RepositoryKeeps == ASSUME Inv, Push \/ Expire PROVE Inv'
<1>1. /\ UNCHANGED <<offset, hour, due, running, waiting, finished, manual, passed,
                     acted, displaced>>
      /\ marker' \in {marker, None}
  BY DEF Push, Expire, clock, group, world
<1>2. head' \in Commits /\ commits' \in 0 .. MaxCommits
  BY NightlyAssumption DEF Push, Expire, Inv, TypeOK, world
<1>3. TypeOK'
  BY <1>1, <1>2 DEF Inv, TypeOK
<1>4. DawnIsEmpty' /\ ActedIsExpected' /\ WaitingIsFresh'
  BY <1>1 DEF Inv, DawnIsEmpty, Tonights, ActedIsExpected, WaitingIsFresh
<1>5. MarkerIsTrue' /\ CalledOffIsValidated' /\ NightIsCovered'
  BY <1>1 DEF Inv, MarkerIsTrue, CalledOffIsValidated, NightIsCovered, OnItsWay
<1> QED
  BY <1>3, <1>4, <1>5 DEF Inv

LEMMA StepKeeps == ASSUME Inv, [Next]_vars PROVE Inv'
<1>1. CASE Next
  BY <1>1, StepCases, TickKeeps, FireKeeps, DispatchKeeps, RerunKeeps, FindBaselineKeeps,
     GateKeeps, SuiteKeeps, FinishKeeps, RepositoryKeeps, Zenon
<1>2. CASE UNCHANGED vars
  BY <1>2 DEF vars, clock, group, world, Inv, TypeOK, DawnIsEmpty, Tonights, ActedIsExpected,
     WaitingIsFresh, MarkerIsTrue, NightIsCovered, OnItsWay, CalledOffIsValidated
<1> QED
  BY <1>1, <1>2
-----------------------------------------------------------------------------
(* The inductive invariant holds for every repository. *)
THEOREM InvCorrect == Spec => []Inv
BY Initially, StepKeeps, PTL DEF Spec

(* Every variable keeps its type. *)
THEOREM TypeCorrect == Spec => []TypeOK
<1>1. Inv => TypeOK
  BY DEF Inv
<1> QED
  BY <1>1, InvCorrect, PTL

(* No night is called off over a surface that no suite has passed. *)
THEOREM CalledOffCorrect == Spec => []CalledOffIsValidated
<1>1. Inv => CalledOffIsValidated
  BY DEF Inv
<1> QED
  BY <1>1, InvCorrect, PTL

(* One of the night's two entries acts for it, and never both. *)
THEOREM OneTwinCorrect == Spec => []OneTwinActs
<1>1. Inv => OneTwinActs
  <2> SUFFICES ASSUME Inv PROVE OneTwinActs
    OBVIOUS
  <2>1. acted # Entries
    BY DEF Inv, ActedIsExpected, Entries
  <2>2. hour = 9 /\ Quiet /\ ~displaced => offset \in acted
    BY DEF Inv, TypeOK, NightIsCovered, Quiet, OnItsWay, DueAt, Entries
  <2> QED
    BY <2>1, <2>2 DEF OneTwinActs
<1> QED
  BY <1>1, InvCorrect, PTL
=============================================================================
