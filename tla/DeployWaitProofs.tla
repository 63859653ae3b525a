-------------------------- MODULE DeployWaitProofs --------------------------
(***************************************************************************)
(* Proofs about DeployWait, for any number of deployments and jobs, any    *)
(* length of the list, any timeout and any tolerance for errors.           *)
(***************************************************************************)
EXTENDS DeployWait, TLAPS

(* The last n polls of d's script failed. *)
FailedLast(d, n) ==
  /\ Len(polls[d]) >= n
  /\ \A i \in Len(polls[d]) - n + 1 .. Len(polls[d]) : ~polls[d][i]

LiveHasLanded == \A d \in Deployments : status[d] = "live" => d \in landed

(* Only deployments that exist have a status, and only those a script. *)
NumberedInOrder ==
  \A d \in Deployments :
    /\ status[d] # "absent" <=> d <= created
    /\ wait[d] # "none" => d <= created

(* The script's count is that of the failures since the last success, and  *)
(* it goes on only below the tolerance.                                    *)
CountIsTrue ==
  \A d \in Deployments :
    wait[d] \in {"none", "waiting"} =>
      FailedLast(d, consecutive_errors[d]) /\ consecutive_errors[d] < MaxPollErrors

(* A script fails on a run of failures, on time, for want of approval, or  *)
(* because the deployment is over for good.                                *)
RedHasAReason ==
  \A d \in Deployments :
    wait[d] = "red" =>
      \/ FailedLast(d, MaxPollErrors)
      \/ elapsed[d] = MaxPolls
      \/ last_status[d] = "approval"
      \/ status[d] \in {"failed", "crashed", "removed"}

Inv ==
  TypeOK /\ LiveHasLanded /\ NumberedInOrder /\ CountIsTrue /\ RedHasAReason /\ GreenIsLiveOrReplaced
-----------------------------------------------------------------------------
LEMMA OutcomeType ==
  ASSUME NEW d \in Deployments, NEW f \in BOOLEAN
  PROVE  Outcome(d, f) \in {"waiting", "green", "red"}
BY DEF Outcome, Verdict

(* What the list says of a deployment, if it is in it, is its status. *)
LEMMA StatusSeen ==
  ASSUME TypeOK, NEW d \in Deployments
  PROVE  /\ StatusOf(d) \in Seen
         /\ StatusOf(d) # "UNKNOWN" => StatusOf(d) = status[d]
BY DEF StatusOf, Payload, Known, Seen, TypeOK

(* A newer deployment in the list is one that Railway lists. *)
LEMMA SupersededByListed ==
  ASSUME NEW d \in Deployments, Superseded(d)
  PROVE  \E e \in Deployments : e > d /\ status[e] \in Listed
BY DEF Superseded, Payload, Known

(* A failed poll lengthens the run of failures. *)
LEMMA OneMoreFailure ==
  ASSUME NEW p \in Seq(BOOLEAN), NEW n \in Nat, Len(p) >= n,
         \A i \in Len(p) - n + 1 .. Len(p) : ~p[i]
  PROVE  LET q == Append(p, FALSE)
         IN /\ q \in Seq(BOOLEAN) /\ Len(q) >= n + 1
            /\ \A i \in Len(q) - (n + 1) + 1 .. Len(q) : ~q[i]
<1> DEFINE q == Append(p, FALSE)
<1>1. Len(q) = Len(p) + 1 /\ q \in Seq(BOOLEAN) /\ q[Len(p) + 1] = FALSE
      /\ \A i \in 1 .. Len(p) : q[i] = p[i]
  OBVIOUS
<1>2. ASSUME NEW i \in Len(q) - (n + 1) + 1 .. Len(q) PROVE ~q[i]
  <2>1. CASE i = Len(p) + 1
    BY <1>1, <2>1
  <2>2. CASE i # Len(p) + 1
    <3>1. i \in Len(p) - n + 1 .. Len(p) /\ i \in 1 .. Len(p)
      BY <1>1, <1>2, <2>2
    <3> QED
      BY <1>1, <3>1
  <2> QED
    BY <2>1, <2>2
<1> QED
  BY <1>1, <1>2

(* What every step of Railway leaves alone, and what it may do to a        *)
(* deployment: nothing, or a move that does not revive what is over.       *)
LEMMA RailwayKeeps ==
  ASSUME Inv, UNCHANGED <<consecutive_errors, last_status, elapsed, polls>>,
         created' \in created .. MaxDeployments,
         status' \in [Deployments -> Statuses],
         landed \subseteq landed', landed' \subseteq Deployments,
         wait' \in [Deployments -> Verdicts],
         \A d \in Deployments :
           /\ wait'[d] # wait[d] => wait[d] = "none" /\ wait'[d] = "waiting" /\ d <= created'
           /\ status[d] \in {"failed", "crashed", "removed"} =>
                status'[d] \in {"failed", "crashed", "removed"}
           /\ status[d] = "removed" => status'[d] = "removed"
           /\ status[d] \in Listed => status'[d] \in Listed
           /\ status'[d] = "live" => d \in landed'
           /\ status'[d] # "absent" <=> d <= created'
  PROVE  Inv'
<1>1. TypeOK'
  BY DeployAssumption DEF Inv, TypeOK
<1>2. LiveHasLanded'
  BY DEF LiveHasLanded
<1>3. NumberedInOrder'
  <2> SUFFICES ASSUME NEW d \in Deployments, wait'[d] # "none" PROVE d <= created'
    BY DEF NumberedInOrder
  <2>1. d \in Nat /\ created \in Nat /\ created' \in Nat /\ created <= created'
    BY DeployAssumption DEF Inv, TypeOK, Deployments
  <2>2. CASE wait'[d] # wait[d]
    BY <2>2
  <2>3. CASE wait'[d] = wait[d]
    BY <2>1, <2>3 DEF Inv, NumberedInOrder
  <2> QED
    BY <2>2, <2>3
<1>4. CountIsTrue'
  BY DEF Inv, CountIsTrue, FailedLast
<1>5. RedHasAReason'
  BY DEF Inv, RedHasAReason, FailedLast
<1>6. GreenIsLiveOrReplaced'
  BY DEF Inv, GreenIsLiveOrReplaced
<1> QED
  BY <1>1, <1>2, <1>3, <1>4, <1>5, <1>6 DEF Inv

LEMMA UploadKeeps == ASSUME Inv, Upload PROVE Inv'
<1>1. created' \in created .. MaxDeployments /\ created' = created + 1 /\ created' \in Deployments
      /\ created \in Nat
  BY DeployAssumption DEF Upload, Inv, TypeOK, Deployments
<1>2. status' = [status EXCEPT ![created'] = "unlisted"] /\ status[created'] = "absent"
  BY DEF Upload, Move
<1>3. /\ status' \in [Deployments -> Statuses]
      /\ \A d \in Deployments : status'[d] = IF d = created' THEN "unlisted" ELSE status[d]
  BY <1>1, <1>2 DEF Inv, TypeOK, Statuses
<1>4. /\ wait' \in [Deployments -> Verdicts]
      /\ \A d \in Deployments : wait'[d] # wait[d] => d = created' /\ wait'[d] = "waiting"
  BY <1>1 DEF Upload, Inv, TypeOK, Verdicts
<1>5. UNCHANGED <<landed, consecutive_errors, last_status, elapsed, polls>>
  BY DEF Upload
<1>6. ASSUME NEW d \in Deployments PROVE status'[d] # "absent" <=> d <= created'
  BY <1>1, <1>3 DEF Inv, NumberedInOrder, Deployments
<1>7. wait[created'] = "none"
  BY <1>1 DEF Inv, NumberedInOrder
<1>8. ASSUME NEW d \in Deployments
      PROVE  /\ wait'[d] # wait[d] =>
                  wait[d] = "none" /\ wait'[d] = "waiting" /\ d <= created'
             /\ status[d] \in {"failed", "crashed", "removed"} =>
                  status'[d] \in {"failed", "crashed", "removed"}
             /\ status[d] = "removed" => status'[d] = "removed"
             /\ status[d] \in Listed => status'[d] \in Listed
             /\ status'[d] = "live" => d \in landed'
             /\ status'[d] # "absent" <=> d <= created'
  BY <1>1, <1>2, <1>3, <1>4, <1>5, <1>6, <1>7 DEF Inv, LiveHasLanded, Listed
<1>9. landed \subseteq landed' /\ landed' \subseteq Deployments
  BY <1>5 DEF Inv, TypeOK
<1> QED
  BY <1>1, <1>3, <1>4, <1>5, <1>8, <1>9, RailwayKeeps

LEMMA AdvanceKeeps == ASSUME Inv, NEW d \in Deployments, Advance(d) \/ Remove(d) PROVE Inv'
<1>1. PICK to \in {"building", "approval", "failed", "crashed", "removed"} :
        /\ status' = [status EXCEPT ![d] = to]
        /\ status[d] \in {"unlisted", "approval", "building", "live"}
  <2>1. CASE Advance(d)
    BY <2>1 DEF Advance, Move
  <2>2. CASE Remove(d)
    BY <2>2 DEF Remove, Move
  <2> QED
    BY <2>1, <2>2
<1>2. UNCHANGED <<created, landed, wait, consecutive_errors, last_status, elapsed, polls>>
  BY DEF Advance, Remove, script
<1>3. /\ status' \in [Deployments -> Statuses]
      /\ \A e \in Deployments : status'[e] = IF e = d THEN to ELSE status[e]
  BY <1>1 DEF Inv, TypeOK, Statuses, Listed
<1>4. ASSUME NEW e \in Deployments
      PROVE  /\ wait'[e] # wait[e] =>
                  wait[e] = "none" /\ wait'[e] = "waiting" /\ e <= created'
             /\ status[e] \in {"failed", "crashed", "removed"} =>
                  status'[e] \in {"failed", "crashed", "removed"}
             /\ status[e] = "removed" => status'[e] = "removed"
             /\ status[e] \in Listed => status'[e] \in Listed
             /\ status'[e] = "live" => e \in landed'
             /\ status'[e] # "absent" <=> e <= created'
  BY <1>1, <1>2, <1>3 DEF Inv, LiveHasLanded, NumberedInOrder, Listed
<1>5. /\ created' \in created .. MaxDeployments /\ wait' \in [Deployments -> Verdicts]
      /\ landed \subseteq landed' /\ landed' \subseteq Deployments
  BY <1>2, DeployAssumption DEF Inv, TypeOK
<1> QED
  BY <1>2, <1>3, <1>4, <1>5, RailwayKeeps

LEMMA GoLiveKeeps == ASSUME Inv, NEW d \in Deployments, GoLive(d) PROVE Inv'
<1>1. /\ status' \in [Deployments -> Statuses]
      /\ \A e \in Deployments :
           status'[e] = IF e = d THEN "live"
                        ELSE IF status[e] = "live" THEN "removed" ELSE status[e]
  BY DEF GoLive, Inv, TypeOK, Statuses, Listed
<1>2. /\ UNCHANGED <<created, wait, consecutive_errors, last_status, elapsed, polls>>
      /\ landed' = landed \union {d} /\ status[d] = "building"
  BY DEF GoLive, script
<1>3. ASSUME NEW e \in Deployments
      PROVE  /\ wait'[e] # wait[e] =>
                  wait[e] = "none" /\ wait'[e] = "waiting" /\ e <= created'
             /\ status[e] \in {"failed", "crashed", "removed"} =>
                  status'[e] \in {"failed", "crashed", "removed"}
             /\ status[e] = "removed" => status'[e] = "removed"
             /\ status[e] \in Listed => status'[e] \in Listed
             /\ status'[e] = "live" => e \in landed'
             /\ status'[e] # "absent" <=> e <= created'
  BY <1>1, <1>2 DEF Inv, NumberedInOrder, Listed
<1>4. /\ created' \in created .. MaxDeployments /\ wait' \in [Deployments -> Verdicts]
      /\ landed \subseteq landed' /\ landed' \subseteq Deployments
  BY <1>2, DeployAssumption DEF Inv, TypeOK
<1> QED
  BY <1>1, <1>2, <1>3, <1>4, RailwayKeeps

(* One pass of the loop: its verdict has one of the reasons. *)
LEMMA PollKeeps == ASSUME Inv, NEW d \in Deployments, Poll(d) PROVE Inv'
<1>1. PICK failed \in BOOLEAN, now \in elapsed[d] + 1 .. MaxPolls :
       /\ consecutive_errors' = [consecutive_errors EXCEPT ![d] = Errors(d, failed)]
       /\ last_status' = [last_status EXCEPT ![d] = IF failed THEN @ ELSE StatusOf(d)]
       /\ elapsed' = [elapsed EXCEPT ![d] = now]
       /\ wait' = [wait EXCEPT ![d] = IF Outcome(d, failed) # "waiting" THEN Outcome(d, failed)
                                      ELSE IF now = MaxPolls THEN "red" ELSE "waiting"]
       /\ polls' = [polls EXCEPT ![d] = Append(@, ~failed)]
  BY DEF Poll
<1> USE DeployAssumption
<1>2. wait[d] = "waiting" /\ UNCHANGED <<created, status, landed>>
  BY DEF Poll, railway
<1>3. /\ consecutive_errors[d] \in Nat /\ consecutive_errors[d] < MaxPollErrors
      /\ FailedLast(d, consecutive_errors[d]) /\ polls[d] \in Seq(BOOLEAN)
      /\ elapsed[d] \in Nat /\ now \in 0 .. MaxPolls
  BY <1>1, <1>2 DEF Inv, TypeOK, CountIsTrue
<1> PICK n \in Nat : n = consecutive_errors[d]
  BY <1>3
<1>4. Errors(d, failed) \in 0 .. MaxPollErrors
  BY <1>3 DEF Errors
<1>5. /\ consecutive_errors'[d] = Errors(d, failed) /\ elapsed'[d] = now
      /\ last_status'[d] = IF failed THEN last_status[d] ELSE StatusOf(d)
      /\ wait'[d] = IF Outcome(d, failed) # "waiting" THEN Outcome(d, failed)
                    ELSE IF now = MaxPolls THEN "red" ELSE "waiting"
      /\ polls'[d] = Append(polls[d], ~failed)
  BY <1>1 DEF Inv, TypeOK
<1>6. \A e \in Deployments \ {d} :
        /\ consecutive_errors'[e] = consecutive_errors[e] /\ elapsed'[e] = elapsed[e]
        /\ last_status'[e] = last_status[e] /\ wait'[e] = wait[e] /\ polls'[e] = polls[e]
  BY <1>1 DEF Inv, TypeOK
<1>7. TypeOK'
  <2>1. StatusOf(d) \in Seen /\ Outcome(d, failed) \in {"waiting", "green", "red"}
    BY StatusSeen, OutcomeType DEF Inv
  <2>2. consecutive_errors' \in [Deployments -> 0 .. MaxPollErrors]
    BY <1>1, <1>4 DEF Inv, TypeOK
  <2>3. last_status' \in [Deployments -> Seen]
    BY <1>1, <2>1 DEF Inv, TypeOK
  <2>4. elapsed' \in [Deployments -> 0 .. MaxPolls]
    BY <1>1, <1>3 DEF Inv, TypeOK
  <2>5. wait' \in [Deployments -> Verdicts]
    BY <1>1, <2>1 DEF Inv, TypeOK, Verdicts
  <2>6. polls' \in [Deployments -> Seq(BOOLEAN)]
    BY <1>1, <1>3 DEF Inv, TypeOK
  <2> QED
    BY <1>2, <2>2, <2>3, <2>4, <2>5, <2>6 DEF Inv, TypeOK
<1>8. LiveHasLanded' /\ NumberedInOrder'
  BY <1>2, <1>6 DEF Inv, LiveHasLanded, NumberedInOrder
<1>9. failed => FailedLast(d, n + 1)'
  <2> SUFFICES ASSUME failed PROVE FailedLast(d, n + 1)'
    OBVIOUS
  <2>1. Len(polls[d]) >= n /\ \A i \in Len(polls[d]) - n + 1 .. Len(polls[d]) : ~polls[d][i]
    BY <1>3 DEF FailedLast
  <2>2. polls'[d] = Append(polls[d], FALSE)
    BY <1>5
  <2> QED
    BY <1>3, <2>1, <2>2, OneMoreFailure DEF FailedLast
<1>10. FailedLast(d, consecutive_errors[d])'
  <2>1. CASE failed
    BY <1>5, <1>9, <2>1 DEF Errors, FailedLast
  <2>2. CASE ~failed
    <3>1. consecutive_errors'[d] = 0 /\ polls'[d] \in Seq(BOOLEAN)
      BY <1>5, <1>7, <2>2 DEF Errors, TypeOK
    <3> QED
      BY <3>1 DEF FailedLast
  <2> QED
    BY <2>1, <2>2
<1>11. CountIsTrue'
  <2>1. wait'[d] = "waiting" => consecutive_errors'[d] < MaxPollErrors
    <3>1. wait'[d] = "waiting" => Outcome(d, failed) = "waiting"
      BY <1>5
    <3>2. failed /\ Outcome(d, failed) = "waiting" => ~(Errors(d, failed) >= MaxPollErrors)
      BY DEF Outcome
    <3>3. ~failed => Errors(d, failed) = 0
      BY DEF Errors
    <3> QED
      BY <1>4, <1>5, <3>1, <3>2, <3>3
  <2>2. wait'[d] # "none"
    BY <1>5, OutcomeType
  <2> QED
    BY <1>6, <1>10, <2>1, <2>2 DEF Inv, CountIsTrue, FailedLast
<1>12. GreenIsLiveOrReplaced'
  <2>1. wait'[d] = "green" =>
          \/ d \in landed
          \/ status[d] = "removed" /\ \E e \in Deployments : e > d /\ status[e] \in Listed
    <3> SUFFICES ASSUME wait'[d] = "green"
                 PROVE  \/ d \in landed
                        \/ /\ status[d] = "removed"
                           /\ \E e \in Deployments : e > d /\ status[e] \in Listed
      OBVIOUS
    <3>1. Verdict(d) = "green"
      BY <1>5 DEF Outcome
    <3>2. CASE StatusOf(d) = "live"
      BY <3>2, StatusSeen DEF Inv, LiveHasLanded
    <3>3. CASE StatusOf(d) = "removed" /\ Superseded(d)
      BY <3>3, StatusSeen, SupersededByListed DEF Inv
    <3> QED
      BY <3>1, <3>2, <3>3 DEF Verdict
  <2> QED
    BY <1>2, <1>6, <2>1 DEF Inv, GreenIsLiveOrReplaced
<1>13. RedHasAReason'
  <2>1. ASSUME wait'[d] = "red"
        PROVE  \/ FailedLast(d, MaxPollErrors)' \/ elapsed'[d] = MaxPolls
               \/ last_status'[d] = "approval"
               \/ status'[d] \in {"failed", "crashed", "removed"}
    <3>1. CASE Outcome(d, failed) = "red" /\ failed
      <4>1. Errors(d, failed) >= MaxPollErrors /\ Errors(d, failed) = n + 1
        BY <3>1 DEF Outcome, Errors
      <4>2. n + 1 = MaxPollErrors
        BY <1>3, <4>1
      <4> QED
        BY <1>9, <3>1, <4>2 DEF FailedLast
    <3>2. CASE Outcome(d, failed) = "red" /\ ~failed
      <4>1. StatusOf(d) \in {"failed", "crashed", "approval", "removed"}
        BY <3>2 DEF Outcome, Verdict
      <4>2. StatusOf(d) = status[d]
        BY <4>1, StatusSeen DEF Inv
      <4> QED
        BY <1>2, <1>5, <3>2, <4>1, <4>2
    <3>3. CASE Outcome(d, failed) # "red"
      BY <1>5, <2>1, <3>3
    <3> QED
      BY <3>1, <3>2, <3>3
  <2> QED
    BY <1>2, <1>6, <2>1 DEF Inv, RedHasAReason, FailedLast
<1> QED
  BY <1>7, <1>8, <1>11, <1>12, <1>13 DEF Inv

LEMMA Initially == ASSUME Init PROVE Inv
<1>1. TypeOK
  BY DeployAssumption DEF Init, TypeOK, Statuses, Verdicts, Seen
<1>2. CountIsTrue
  BY DeployAssumption DEF Init, CountIsTrue, FailedLast
<1> QED
  BY <1>1, <1>2, DeployAssumption DEF Init, Inv, LiveHasLanded, NumberedInOrder, RedHasAReason,
     GreenIsLiveOrReplaced, Deployments

LEMMA StepKeeps == ASSUME Inv, [Next]_vars PROVE Inv'
<1>1. CASE Next
  BY <1>1, UploadKeeps, AdvanceKeeps, GoLiveKeeps, PollKeeps, Zenon DEF Next, Railway
<1>2. CASE UNCHANGED vars
  BY <1>2 DEF vars, railway, script, Inv, TypeOK, LiveHasLanded, NumberedInOrder, CountIsTrue,
     RedHasAReason, GreenIsLiveOrReplaced, FailedLast
<1> QED
  BY <1>1, <1>2
-----------------------------------------------------------------------------
(* The inductive invariant: numbering, the truth of the error count, and a *)
(* reason for every verdict.                                               *)
THEOREM InvCorrect == Spec => []Inv
BY Initially, StepKeeps, PTL DEF Spec

(* Every variable keeps its type. *)
THEOREM TypeCorrect == Spec => []TypeOK
<1>1. Inv => TypeOK
  BY DEF Inv
<1> QED
  BY <1>1, InvCorrect, PTL

(* GreenIsLiveOrReplaced: a job is green only for what went live, or was   *)
(* removed beside a newer deployment, whatever became of that.             *)
THEOREM GreenCorrect == Spec => []GreenIsLiveOrReplaced
<1>1. Inv => GreenIsLiveOrReplaced
  BY DEF Inv
<1> QED
  BY <1>1, InvCorrect, PTL

(* No job fails over a healthy deployment for scattered errors. *)
THEOREM HealthyCorrect == Spec => []HealthyNeverFails
<1>1. Inv => HealthyNeverFails
  BY DEF Inv, RedHasAReason, HealthyNeverFails, FailedLast
<1> QED
  BY <1>1, InvCorrect, PTL
=============================================================================
