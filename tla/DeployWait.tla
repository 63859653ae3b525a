------------------------------ MODULE DeployWait ------------------------------
(***************************************************************************)
(* scripts/wait_for_railway_deployment.sh: the step of a CI job that waits *)
(* for a deployment to reach a terminal status, against Railway, other     *)
(* pushes and the people with access to its dashboard.                     *)
(*                                                                         *)
(* Deployments are numbered in the order of their createdAt.  The CLI of a *)
(* CI job creates some of them; Railway's own GitHub integration and the   *)
(* dashboard create others, which nobody waits for.                        *)
(***************************************************************************)
EXTENDS Integers, Sequences, FiniteSets

CONSTANTS
  MaxPollErrors,   \* RAILWAY_DEPLOY_MAX_POLL_ERRORS
  MaxPolls,        \* the timeout, in units of the poll interval
  ListLimit,       \* --limit of the list the script reads
  MaxDeployments,  \* bound: deployments
  Jobs             \* those of them a CI job creates and waits for

ASSUME DeployAssumption ==
  /\ MaxPollErrors \in Nat \ {0} /\ MaxPolls \in Nat \ {0}
  /\ ListLimit \in Nat \ {0} /\ MaxDeployments \in Nat
  /\ Jobs \subseteq 1 .. MaxDeployments

Deployments == 1 .. MaxDeployments

(* "building" stands for every status the script waits out: BUILDING,      *)
(* DEPLOYING, INITIALIZING, QUEUED, WAITING, and those it does not know.   *)
(* "live" is SUCCESS and SLEEPING; "removed" is SKIPPED, REMOVED and       *)
(* REMOVING.                                                               *)
Listed == {"building", "approval", "live", "failed", "crashed", "removed"}
Statuses == {"absent", "unlisted"} \union Listed
Seen == Listed \union {"none", "UNKNOWN"}
Verdicts == {"none", "waiting", "green", "red"}

VARIABLES
  created,             \* deployments so far: 1 .. created
  status,              \* of each deployment, at Railway
  landed,              \* history: deployments that have been live
  wait,                \* the script that waits for each, if one does
  consecutive_errors,  \* of that script
  last_status,         \* of that script
  elapsed,             \* of that script, in poll intervals
  polls                \* history: whether each of its polls succeeded

railway == <<created, status, landed>>
script == <<wait, consecutive_errors, last_status, elapsed, polls>>
vars == <<railway, script>>

Init ==
  /\ created = 0 /\ landed = {}
  /\ status = [d \in Deployments |-> "absent"]
  /\ wait = [d \in Deployments |-> "none"]
  /\ consecutive_errors = [d \in Deployments |-> 0]
  /\ last_status = [d \in Deployments |-> "none"]
  /\ elapsed = [d \in Deployments |-> 0]
  /\ polls = [d \in Deployments |-> <<>>]

----------------------------------------------------------------------------
(* Railway and the people who use it.                                      *)

Move(d, from, to) == status[d] \in from /\ status' = [status EXCEPT ![d] = to]

(* A deployment of a CI job, which then starts the script, or of nobody's. *)
Upload ==
  /\ created < MaxDeployments
  /\ created' = created + 1
  /\ Move(created', {"absent"}, "unlisted")
  /\ wait' = [wait EXCEPT ![created'] = IF created' \in Jobs THEN "waiting" ELSE @]
  /\ UNCHANGED <<landed, consecutive_errors, last_status, elapsed, polls>>

(* It appears in the list a moment later, and may need a human first.      *)
Advance(d) ==
  /\ \/ Move(d, {"unlisted"}, "building") \/ Move(d, {"unlisted"}, "approval")
     \/ Move(d, {"approval"}, "building") \/ Move(d, {"building"}, "failed")
     \/ Move(d, {"live"}, "crashed")
  /\ UNCHANGED <<created, landed, script>>

(* Its health check passes, and it takes over from the older ones.         *)
GoLive(d) ==
  /\ status[d] = "building" /\ \A e \in Deployments : e > d => status[e] # "live"
  /\ status' = [e \in Deployments |->
                  IF e = d THEN "live" ELSE IF status[e] = "live" THEN "removed" ELSE status[e]]
  /\ landed' = landed \union {d}
  /\ UNCHANGED <<created, script>>

(* Superseded by a newer one before it got there, or removed by hand.      *)
Remove(d) ==
  /\ Move(d, {"building", "approval", "live"}, "removed")
  /\ UNCHANGED <<created, landed, script>>

----------------------------------------------------------------------------
(* The script.                                                             *)

(* `railway deployment list`: the newest of those it knows.                *)
Known == {d \in Deployments : status[d] \in Listed}
Payload == {d \in Known : Cardinality({e \in Known : e > d}) < ListLimit}
StatusOf(d) == IF d \in Payload THEN status[d] ELSE "UNKNOWN"

SlipSuperseded(d) == \E e \in Payload : e # d

(* A deployment in the list with a later createdAt than ours.              *)
Superseded(d) == \E e \in Payload : e > d

(* The case statement over the status of a poll that succeeded.            *)
Verdict(d) ==
  IF StatusOf(d) = "live" \/ (StatusOf(d) = "removed" /\ Superseded(d)) THEN "green"
  ELSE IF StatusOf(d) \in {"failed", "crashed", "approval", "removed"} THEN "red"
  ELSE "waiting"

SlipErrors(d, failed) == IF failed THEN consecutive_errors[d] + 1 ELSE consecutive_errors[d]

(* The count of failed polls.                                              *)
Errors(d, failed) == IF failed THEN consecutive_errors[d] + 1 ELSE 0

SlipOutcome(d, failed) ==
  IF ~failed THEN Verdict(d)
  ELSE IF Errors(d, failed) > MaxPollErrors THEN "red" ELSE "waiting"

(* What one pass of the loop comes to, up to the check of the deadline.    *)
Outcome(d, failed) ==
  IF ~failed THEN Verdict(d)
  ELSE IF Errors(d, failed) >= MaxPollErrors THEN "red" ELSE "waiting"

SlipPoll(d) ==
  /\ wait[d] = "waiting"
  /\ \E failed \in BOOLEAN, now \in elapsed[d] .. MaxPolls :
       /\ consecutive_errors' = [consecutive_errors EXCEPT ![d] = Errors(d, failed)]
       /\ last_status' = [last_status EXCEPT ![d] = IF failed THEN @ ELSE StatusOf(d)]
       /\ elapsed' = [elapsed EXCEPT ![d] = now]
       /\ wait' = [wait EXCEPT ![d] = Outcome(d, failed)]
       /\ polls' = polls
  /\ UNCHANGED railway

(* One pass of the loop: the poll, the verdict, the deadline and the       *)
(* sleep.  A slow poll may use up more than an interval.                   *)
Poll(d) ==
  /\ wait[d] = "waiting"
  /\ \E failed \in BOOLEAN, now \in elapsed[d] + 1 .. MaxPolls :
       /\ consecutive_errors' = [consecutive_errors EXCEPT ![d] = Errors(d, failed)]
       /\ last_status' = [last_status EXCEPT ![d] = IF failed THEN @ ELSE StatusOf(d)]
       /\ elapsed' = [elapsed EXCEPT ![d] = now]
       /\ wait' = [wait EXCEPT ![d] = IF Outcome(d, failed) # "waiting" THEN Outcome(d, failed)
                                      ELSE IF now = MaxPolls THEN "red" ELSE "waiting"]
       /\ polls' = [polls EXCEPT ![d] = Append(@, ~failed)]
  /\ UNCHANGED railway

Railway == Upload \/ \E d \in Deployments : Advance(d) \/ GoLive(d) \/ Remove(d)
Next == Railway \/ \E d \in Deployments : Poll(d)

(* The script's loop goes on as long as it has not exited.  Nothing is     *)
(* assumed of Railway, and a poll may fail forever.                        *)
Spec == Init /\ [][Next]_vars /\ \A d \in Deployments : WF_vars(Poll(d))

----------------------------------------------------------------------------
(* Properties.                                                             *)

TypeOK ==
  /\ created \in 0 .. MaxDeployments /\ landed \subseteq Deployments
  /\ status \in [Deployments -> Statuses]
  /\ wait \in [Deployments -> Verdicts]
  /\ consecutive_errors \in [Deployments -> 0 .. MaxPollErrors]
  /\ last_status \in [Deployments -> Seen]
  /\ elapsed \in [Deployments -> 0 .. MaxPolls]
  /\ polls \in [Deployments -> Seq(BOOLEAN)]

(* A job is green only for a deployment that went live, or was removed     *)
(* while Railway listed a newer one; never for one that failed, crashed or *)
(* waits for approval, and never for the newest unless that went live.     *)
(* What became of the newer one is not asked: it may have failed or never  *)
(* go live itself, so that a revision removed by hand which never served   *)
(* is green, against lines 20-21 and 161-163 of the script.                *)
GreenIsLiveOrReplaced ==
  \A d \in Deployments :
    wait[d] = "green" =>
      \/ d \in landed
      \/ status[d] = "removed" /\ \E e \in Deployments : e > d /\ status[e] \in Listed

(* A transient error never fails a healthy deployment: if the job of one   *)
(* that is live failed, then the last MaxPollErrors polls all did, or time *)
(* was up, or a human was asked to approve it first.                       *)
HealthyNeverFails ==
  \A d \in Deployments :
    (status[d] = "live" /\ wait[d] = "red") =>
      \/ /\ Len(polls[d]) >= MaxPollErrors
         /\ \A i \in Len(polls[d]) - MaxPollErrors + 1 .. Len(polls[d]) : ~polls[d][i]
      \/ elapsed[d] = MaxPolls
      \/ last_status[d] = "approval"

(* Every job comes to a verdict, even if its deployment never shows up in  *)
(* the list, or was pushed out of it.                                      *)
WaitsEnd == \A d \in Deployments : wait[d] = "waiting" ~> wait[d] \in {"green", "red"}
=============================================================================
