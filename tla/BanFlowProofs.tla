---------------------------- MODULE BanFlowProofs ----------------------------
(***************************************************************************)
(* Proofs about BanFlow, for any users, any break-glass list, any number   *)
(* of clicks and any number of submissions.                                *)
(***************************************************************************)
EXTENDS BanFlow, TLAPS

(* What a click stashed, unless it did not fit, is the request without the *)
(* menu; only what was stashed is in the edits.                            *)
StashIsWhole(c) == stash[c] = NoBlocks \/ (stash[c].request /\ ~stash[c].menu)
EditsAreWhole == \A s \in edits : click[s[1]] # "idle" /\ stash[s[1]] # NoBlocks
PostIsWhole ==
  /\ PostSurvives
  /\ \A c \in Clicks : StashIsWhole(c)
  /\ EditsAreWhole

(* How far a submission is says what became of its ban. *)
BanMatchesHandler(s) ==
  /\ pc[s] # "idle" => s[2] <= submits[s[1]]
  /\ pc[s] # "idle" => click[s[1]] # "idle"
  /\ pc[s] \in {"idle", "authorizing", "authorized", "unauthorized", "refusing"} =>
       s \notin requests \cup landed
  /\ pc[s] \in {"acking", "annotating"} => s \in landed
  /\ outcome[s] = "ok" => s \in landed
  /\ told[s] = "banned" => s \in landed
  /\ told[s] = "refused" \/ answer[s] = "reason_errors" =>
       pc[s] = "done" /\ s \notin requests \cup landed

(* So does the phase of the call, and no ban is processed twice. *)
PhaseMatches(s) ==
  /\ pc[s] = "idle" <=> phase[s] = "idle"
  /\ pc[s] \in {"authorizing", "authorized", "unauthorized", "banning"} <=> phase[s] = "open"
  /\ pc[s] \in {"acking", "annotating"} => phase[s] = "done"
  /\ phase[s] = "done" => s \in landed
  /\ phase[s] = "refused" => s \notin requests \cup landed
  /\ s \in requests => s \notin landed

(* Footers come from bans that were stored, wherever they are. *)
FootersAreReal ==
  /\ blocks.footers \subseteq landed /\ edits \subseteq landed
  /\ \A c \in Clicks : stash[c].footers \subseteq landed

(* While a handler has yet to read the roster, whoever is authorized now   *)
(* is known to have been.  Slack waits only on behalf of a modal.          *)
ClickIsAdmitted(c) ==
  /\ awaited[c] # 0 => modal[c] # "none"
  /\ modal[c] # "none" => click[c] # "idle"
  /\ click[c] = "opening" \/ modal[c] # "none" => c \in admitted
  /\ click[c] = "authorizing" /\ owner[c] \in BreakGlass \cup roster => c \in admitted

SubmissionIsEntitled(s) ==
  /\ pc[s] = "authorizing" /\ owner[s[1]] \in BreakGlass \cup roster => s \in entitled
  /\ pc[s] = "authorized" => s \in entitled

Inv ==
  /\ TypeOK
  /\ PostIsWhole
  /\ \A s \in Submissions : BanMatchesHandler(s) /\ PhaseMatches(s) /\ SubmissionIsEntitled(s)
  /\ FootersAreReal
  /\ \A c \in Clicks : ClickIsAdmitted(c)
  /\ requests \cup landed \subseteq entitled
-----------------------------------------------------------------------------
(* The components of a submission, and the one that Submit starts. *)
LEMMA SubmissionParts ==
  ASSUME NEW s \in Submissions
  PROVE  s[1] \in Clicks /\ s[2] \in 1..MaxSubmits /\ s = <<s[1], s[2]>>
BY DEF Submissions

LEMMA NewSubmission ==
  ASSUME TypeOK, NEW c \in Clicks, submits[c] < MaxSubmits
  PROVE  <<c, submits[c] + 1>> \in Submissions
BY BanFlowConstants DEF TypeOK, Submissions

(* What a handler changes when it returns, and what it may tell the user. *)
LEMMA ReturnType ==
  ASSUME TypeOK, NEW s \in Submissions, NEW a \in {"ok", "error", "reason_errors"}, Return(s, a)
  PROVE  /\ pc' \in [Submissions -> {"idle", "authorizing", "authorized", "unauthorized",
                                    "refusing", "banning", "reporting", "acking", "annotating", "done"}]
         /\ answer' \in [Submissions -> {"none", "ok", "error", "reason_errors"}]
         /\ awaited' \in [Clicks -> 0..MaxSubmits]
         /\ modal' \in [Clicks -> {"none", "open", "closed"}]
<1>1. s[1] \in Clicks
  BY SubmissionParts
<1>2. /\ pc' = [pc EXCEPT ![s] = "done"]
      /\ answer' = [answer EXCEPT ![s] = a]
  BY DEF Return
<1>3. awaited' = awaited \/ awaited' = [awaited EXCEPT ![s[1]] = 0]
  BY DEF Return
<1>4. modal' = modal \/ modal' = [modal EXCEPT ![s[1]] = "closed"]
  BY DEF Return
<1>5. 0 \in 0..MaxSubmits
  BY BanFlowConstants
<1>6. awaited' \in [Clicks -> 0..MaxSubmits]
  BY <1>1, <1>3, <1>5 DEF TypeOK
<1>7. modal' \in [Clicks -> {"none", "open", "closed"}]
  BY <1>1, <1>4 DEF TypeOK
<1> QED
  BY <1>2, <1>6, <1>7 DEF TypeOK

LEMMA TellType ==
  ASSUME TypeOK, NEW s \in Submissions, NEW text \in {"refused", "failed", "banned"}, Tell(s, text)
  PROVE  told' \in [Submissions -> {"nothing", "refused", "failed", "banned"}]
BY DEF TypeOK, Tell

(* The blocks of the post that a click stashes, and those that an edit     *)
(* puts in their place.                                                    *)
LEMMA SomeBlocks ==
  /\ NoBlocks \in Blocks
  /\ [request |-> TRUE, menu |-> TRUE, footers |-> {}] \in Blocks
BY DEF Blocks, NoBlocks

LEMMA StashedBlocks ==
  ASSUME TypeOK
  PROVE  /\ Stashed(blocks) \in Blocks
         /\ Stashed(blocks).footers \subseteq blocks.footers
         /\ blocks.request =>
              Stashed(blocks) = NoBlocks \/ (Stashed(blocks).request /\ ~Stashed(blocks).menu)
BY DEF TypeOK, Stashed, Blocks, NoBlocks

LEMMA EditedBlocks ==
  ASSUME TypeOK, NEW s \in Submissions
  PROVE  /\ UpdatedBlocks(s) \in Blocks
         /\ UpdatedBlocks(s).request = stash[s[1]].request
         /\ UpdatedBlocks(s).menu = stash[s[1]].menu
         /\ UpdatedBlocks(s).footers = stash[s[1]].footers \cup {s}
<1>1. stash[s[1]] \in Blocks
  BY SubmissionParts DEF TypeOK
<1> QED
  BY <1>1 DEF UpdatedBlocks, Blocks

(* A step that stashes, edits and sends no blocks. *)
LEMMA PostKept ==
  ASSUME TypeOK, PostIsWhole, FootersAreReal,
         UNCHANGED <<blocks, stash>>, edits' \subseteq edits, landed \subseteq landed',
         \A c \in Clicks : click[c] # "idle" => click'[c] # "idle"
  PROVE  PostIsWhole' /\ FootersAreReal'
<1>1. PostSurvives' /\ FootersAreReal'
  BY DEF PostIsWhole, PostSurvives, FootersAreReal
<1>2. \A c \in Clicks : StashIsWhole(c)'
  BY DEF PostIsWhole, StashIsWhole
<1>3. EditsAreWhole'
  BY SubmissionParts DEF TypeOK, PostIsWhole, EditsAreWhole
<1> QED
  BY <1>1, <1>2, <1>3 DEF PostIsWhole

(* The steps of Next, as the proofs split them. *)
LEMMA StepCases ==
  ASSUME Next
  PROVE  \/ \E c \in Clicks : Click(c)
         \/ \E c \in Clicks : AuthorizeClick(c)
         \/ \E c \in Clicks : ClickNotified(c) \/ OpenEnds(c)
         \/ \E c \in Clicks : Submit(c)
         \/ \E c \in Clicks : SlackGivesUp(c) \/ Cancel(c)
         \/ \E s \in Submissions : AuthorizeSubmission(s)
         \/ \E s \in Submissions : Decide(s)
         \/ \E s \in Submissions : BanReturns(s) \/ BanTimesOut(s)
         \/ \E s \in Submissions : Refused(s)
         \/ \E s \in Submissions : Acknowledged(s) \/ AcknowledgeRaises(s)
         \/ \E s \in Submissions : AnnotateEnds(s)
         \/ \E s \in edits : ServeEdit(s)
         \/ \E s \in requests : ServeBan(s)
         \/ \E s \in requests : RejectBan(s)
         \/ \E ids \in Rosters : ChangeRoster(ids)
         \/ Restart
BY Zenon DEF Next, HandleClick, HandleSubmission

(* Every variable keeps its type. *)
THEOREM TypeCorrect == Spec => []TypeOK
<1> USE BanFlowConstants DEF TypeOK
<1>1. Init => TypeOK
  BY SomeBlocks DEF Init
<1>2. TypeOK /\ [Next]_vars => TypeOK'
  <2> SUFFICES ASSUME TypeOK, [Next]_vars PROVE TypeOK'
    OBVIOUS
  <2> USE DEF post, clicks, shown, service, rights, history
  <2>1. ASSUME NEW c \in Clicks, Click(c) PROVE TypeOK'
    BY <2>1, StashedBlocks DEF Click
  <2>2. ASSUME NEW c \in Clicks, AuthorizeClick(c) PROVE TypeOK'
    BY <2>2 DEF AuthorizeClick
  <2>3. ASSUME NEW c \in Clicks, ClickNotified(c) \/ OpenEnds(c) PROVE TypeOK'
    BY <2>3 DEF ClickNotified, OpenEnds, EndClick
  <2>4. ASSUME NEW c \in Clicks, Submit(c) PROVE TypeOK'
    <3>1. <<c, submits[c] + 1>> \in Submissions
      BY <2>4, NewSubmission DEF Submit
    <3>2. submits[c] + 1 \in 0..MaxSubmits
      BY <2>4 DEF Submit
    <3> QED
      BY <2>4, <3>1, <3>2 DEF Submit
  <2>5. ASSUME NEW c \in Clicks, SlackGivesUp(c) \/ Cancel(c) PROVE TypeOK'
    BY <2>5 DEF SlackGivesUp, Cancel
  <2>6. ASSUME NEW s \in Submissions, AuthorizeSubmission(s) PROVE TypeOK'
    BY <2>6 DEF AuthorizeSubmission
  <2>17. ASSUME NEW s \in Submissions, Decide(s) PROVE TypeOK'
    <3>1. CASE Return(s, "reason_errors")
      BY <2>17, <3>1, ReturnType DEF Decide
    <3>2. CASE ~Return(s, "reason_errors")
      BY <2>17, <3>2 DEF Decide
    <3> QED
      BY <2>17, <3>1, <3>2 DEF Decide
  <2>7. ASSUME NEW s \in Submissions, BanReturns(s) \/ BanTimesOut(s) PROVE TypeOK'
    BY <2>7 DEF BanReturns, BanTimesOut, BanEnds
  <2>8. ASSUME NEW s \in Submissions, Refused(s) PROVE TypeOK'
    <3>1. told' \in [Submissions -> {"nothing", "refused", "failed", "banned"}]
      BY <2>8, TellType DEF Refused
    <3>2. PICK a \in {"ok", "error"} : Return(s, a)
      BY <2>8 DEF Refused
    <3> QED
      BY <2>8, <3>1, <3>2, ReturnType DEF Refused
  <2>9. ASSUME NEW s \in Submissions, Acknowledged(s) \/ AcknowledgeRaises(s) PROVE TypeOK'
    <3>1. told' \in [Submissions -> {"nothing", "refused", "failed", "banned"}]
      BY <2>9, TellType DEF Acknowledged, AcknowledgeRaises
    <3>2. ASSUME NEW a \in {"ok", "error"}, Return(s, a), UNCHANGED edits PROVE TypeOK'
      BY <2>9, <3>1, <3>2, ReturnType DEF Acknowledged, AcknowledgeRaises
    <3>3. CASE Acknowledged(s) /\ CanAnnotate(s)
      BY <3>1, <3>3 DEF Acknowledged
    <3> QED
      BY <2>9, <3>2, <3>3 DEF Acknowledged, AcknowledgeRaises
  <2>10. ASSUME NEW s \in Submissions, AnnotateEnds(s) PROVE TypeOK'
    <3>1. PICK a \in {"ok", "error"} : Return(s, a)
      BY <2>10 DEF AnnotateEnds
    <3> QED
      BY <2>10, <3>1, ReturnType DEF AnnotateEnds
  <2>11. ASSUME NEW s \in edits, ServeEdit(s) PROVE TypeOK'
    BY <2>11, EditedBlocks DEF ServeEdit
  <2>12. ASSUME NEW s \in requests, ServeBan(s) PROVE TypeOK'
    BY <2>12 DEF ServeBan, Reply
  <2>13. ASSUME NEW s \in requests, RejectBan(s) PROVE TypeOK'
    BY <2>13 DEF RejectBan, Reply
  <2>14. ASSUME NEW ids \in Rosters, ChangeRoster(ids) PROVE TypeOK'
    BY <2>14 DEF ChangeRoster
  <2>15. CASE Restart
    BY <2>15 DEF Restart
  <2>16. CASE UNCHANGED vars
    BY <2>16 DEF vars
  <2> QED
    BY StepCases, <2>1, <2>2, <2>3, <2>4, <2>5, <2>6, <2>7, <2>8, <2>9, <2>10, <2>11,
       <2>12, <2>13, <2>14, <2>15, <2>16, <2>17
<1> QED
  BY <1>1, <1>2, PTL DEF Spec
-----------------------------------------------------------------------------
(* Inv is inductive. *)
THEOREM InvCorrect == Spec => []Inv
<1>1. Init => Inv
  <2> SUFFICES ASSUME Init PROVE Inv
    OBVIOUS
  <2>1. TypeOK
    BY BanFlowConstants, SomeBlocks DEF Init, TypeOK
  <2>2. PostIsWhole /\ FootersAreReal /\ requests \cup landed \subseteq entitled
    BY DEF Init, PostIsWhole, PostSurvives, StashIsWhole, EditsAreWhole, FootersAreReal, NoBlocks
  <2>3. \A s \in Submissions : BanMatchesHandler(s) /\ PhaseMatches(s) /\ SubmissionIsEntitled(s)
    BY DEF Init, BanMatchesHandler, PhaseMatches, SubmissionIsEntitled
  <2>4. \A c \in Clicks : ClickIsAdmitted(c)
    BY DEF Init, ClickIsAdmitted
  <2> QED
    BY <2>1, <2>2, <2>3, <2>4 DEF Inv
<1>2. Inv /\ TypeOK' /\ [Next]_vars => Inv'
  <2> SUFFICES ASSUME Inv, TypeOK', [Next]_vars PROVE Inv'
    OBVIOUS
  <2> DEFINE
       Posts == PostIsWhole' /\ FootersAreReal'
       Bans == (\A t \in Submissions : BanMatchesHandler(t) /\ PhaseMatches(t))'
       Rights == /\ (\A t \in Submissions : SubmissionIsEntitled(t))'
                 /\ (\A d \in Clicks : ClickIsAdmitted(d))'
                 /\ (requests \cup landed \subseteq entitled)'
  <2> SUFFICES Posts /\ Bans /\ Rights
    BY DEF Inv
  <2> USE DEF post, clicks, shown, service, rights, history, Inv
  <2>1. ASSUME NEW c \in Clicks, Click(c) PROVE Posts /\ Bans /\ Rights
    <3>1. Posts
      <4>1. /\ UNCHANGED <<blocks, edits, landed>>
            /\ click[c] = "idle"
            /\ stash' = [stash EXCEPT ![c] = Stashed(blocks)]
            /\ click' = [click EXCEPT ![c] = "authorizing"]
        BY <2>1 DEF Click
      <4>2. /\ stash'[c] = Stashed(blocks)
            /\ \A d \in Clicks \ {c} : stash'[d] = stash[d] /\ click'[d] = click[d]
        BY <4>1 DEF TypeOK
      <4>3. \A d \in Clicks : StashIsWhole(d)'
        BY <4>2, StashedBlocks DEF PostIsWhole, PostSurvives, StashIsWhole
      <4>4. \A d \in Clicks : stash'[d].footers \subseteq landed'
        BY <4>1, <4>2, StashedBlocks DEF FootersAreReal
      <4>5. EditsAreWhole'
        BY <4>1, <4>2, SubmissionParts DEF TypeOK, PostIsWhole, EditsAreWhole
      <4> QED
        BY <4>1, <4>3, <4>4, <4>5 DEF PostIsWhole, PostSurvives, FootersAreReal
    <3>2. Bans
      BY <2>1 DEF TypeOK, Click, BanMatchesHandler, PhaseMatches
    <3>3. Rights
      BY <2>1 DEF TypeOK, Click, SubmissionIsEntitled, ClickIsAdmitted, BanMatchesHandler
    <3> QED
      BY <3>1, <3>2, <3>3
  <2>2. ASSUME NEW c \in Clicks, AuthorizeClick(c) PROVE Posts /\ Bans /\ Rights
    <3>1. Posts
      BY <2>2, PostKept DEF TypeOK, AuthorizeClick
    <3>2. Bans
      BY <2>2 DEF TypeOK, AuthorizeClick, AuthorizedUsers, BanMatchesHandler, PhaseMatches
    <3>3. Rights
      BY <2>2 DEF TypeOK, AuthorizeClick, AuthorizedUsers, SubmissionIsEntitled, ClickIsAdmitted, BanMatchesHandler
    <3> QED
      BY <3>1, <3>2, <3>3
  <2>3. ASSUME NEW c \in Clicks, ClickNotified(c) \/ OpenEnds(c) PROVE Posts /\ Bans /\ Rights
    <3>1. Posts
      BY <2>3, PostKept DEF TypeOK, ClickNotified, OpenEnds, EndClick
    <3>2. Bans
      <4>1. \A d \in Clicks : click[d] # "idle" => click'[d] # "idle"
        BY <2>3 DEF TypeOK, ClickNotified, OpenEnds, EndClick
      <4>2. UNCHANGED <<landed, requests, submits, pc, outcome, told, answer, phase>>
        BY <2>3 DEF ClickNotified, OpenEnds
      <4> QED
        BY <4>1, <4>2, SubmissionParts DEF BanMatchesHandler, PhaseMatches
    <3>3. Rights
      BY <2>3 DEF TypeOK, ClickNotified, OpenEnds, EndClick, SubmissionIsEntitled, ClickIsAdmitted, BanMatchesHandler
    <3> QED
      BY <3>1, <3>2, <3>3
  <2>4. ASSUME NEW c \in Clicks, Submit(c) PROVE Posts /\ Bans /\ Rights
    <3>1. Posts
      BY <2>4, PostKept DEF TypeOK, Submit
    <3>2. Bans
      <4>0. PICK s \in Submissions : s = <<c, submits[c] + 1>>
        BY <2>4, NewSubmission DEF Submit
      <4>1. s[1] = c /\ s[2] = submits[c] + 1
        BY <4>0
      <4>2. pc[s] = "idle"
        BY <4>1 DEF TypeOK, BanMatchesHandler
      <4>3. \A t \in Submissions : submits[t[1]] <= submits'[t[1]]
        BY <2>4, SubmissionParts DEF TypeOK, Submit
      <4>4. /\ pc' = [pc EXCEPT ![s] = "authorizing"] /\ submits'[c] = submits[c] + 1
            /\ phase' = [phase EXCEPT ![s] = "open"]
        BY <2>4, <4>0 DEF TypeOK, Submit
      <4>5. BanMatchesHandler(s)' /\ PhaseMatches(s)'
        <5>1. pc'[s] = "authorizing" /\ phase'[s] = "open"
          BY <4>4 DEF TypeOK
        <5>2. click'[s[1]] # "idle"
          BY <2>4, <4>1 DEF Submit, ClickIsAdmitted
        <5> QED
          BY <2>4, <4>1, <4>2, <4>4, <5>1, <5>2 DEF TypeOK, Submit, BanMatchesHandler, PhaseMatches
      <4>6. ASSUME NEW t \in Submissions, t # s PROVE BanMatchesHandler(t)' /\ PhaseMatches(t)'
        <5>1. /\ submits[t[1]] \in Nat /\ submits'[t[1]] \in Nat /\ t[2] \in Nat
              /\ submits[t[1]] <= submits'[t[1]]
          BY <4>3, SubmissionParts, BanFlowConstants DEF TypeOK
        <5>2. pc'[t] = pc[t] /\ phase'[t] = phase[t]
          BY <4>4, <4>6 DEF TypeOK
        <5> QED
          BY <2>4, <5>1, <5>2 DEF Submit, BanMatchesHandler, PhaseMatches
      <4> QED
        BY <4>5, <4>6
    <3>3. Rights
      BY <2>4, NewSubmission, BanFlowConstants DEF TypeOK, Submit, SubmissionIsEntitled, ClickIsAdmitted, BanMatchesHandler
    <3> QED
      BY <3>1, <3>2, <3>3
  <2>5. ASSUME NEW c \in Clicks, SlackGivesUp(c) \/ Cancel(c) PROVE Posts /\ Bans /\ Rights
    <3>1. Posts
      BY <2>5, PostKept DEF TypeOK, SlackGivesUp, Cancel
    <3>2. Bans
      BY <2>5 DEF TypeOK, SlackGivesUp, Cancel, BanMatchesHandler, PhaseMatches
    <3>3. Rights
      BY <2>5 DEF TypeOK, SlackGivesUp, Cancel, SubmissionIsEntitled, ClickIsAdmitted, BanMatchesHandler
    <3> QED
      BY <3>1, <3>2, <3>3
  <2>6. ASSUME NEW s \in Submissions, AuthorizeSubmission(s) PROVE Posts /\ Bans /\ Rights
    <3>1. Posts
      BY <2>6, PostKept DEF TypeOK, AuthorizeSubmission
    <3>2. Bans
      BY <2>6, SubmissionParts DEF TypeOK, AuthorizeSubmission, AuthorizedUsers, BanMatchesHandler, PhaseMatches
    <3>3. Rights
      BY <2>6, SubmissionParts DEF TypeOK, AuthorizeSubmission, AuthorizedUsers, SubmissionIsEntitled, ClickIsAdmitted, BanMatchesHandler
    <3> QED
      BY <3>1, <3>2, <3>3
  <2>17. ASSUME NEW s \in Submissions, Decide(s) PROVE Posts /\ Bans /\ Rights
    <3>1. Posts
      BY <2>17, PostKept DEF TypeOK, Decide
    <3>2. Bans
      BY <2>17, SubmissionParts DEF TypeOK, Decide, Return, BanMatchesHandler, PhaseMatches
    <3>3. Rights
      BY <2>17, SubmissionParts DEF TypeOK, Decide, Return, SubmissionIsEntitled, ClickIsAdmitted, BanMatchesHandler
    <3> QED
      BY <3>1, <3>2, <3>3
  <2>7. ASSUME NEW s \in Submissions, BanReturns(s) \/ BanTimesOut(s) PROVE Posts /\ Bans /\ Rights
    <3>1. Posts
      BY <2>7, PostKept DEF TypeOK, BanReturns, BanTimesOut, BanEnds, Succeeded
    <3>2. Bans
      BY <2>7, SubmissionParts DEF TypeOK, BanReturns, BanTimesOut, BanEnds, Succeeded, BanMatchesHandler, PhaseMatches
    <3>3. Rights
      BY <2>7, SubmissionParts DEF TypeOK, BanReturns, BanTimesOut, BanEnds, Succeeded, SubmissionIsEntitled, ClickIsAdmitted, BanMatchesHandler
    <3> QED
      BY <3>1, <3>2, <3>3
  <2>8. ASSUME NEW s \in Submissions, Refused(s) PROVE Posts /\ Bans /\ Rights
    <3>1. Posts
      BY <2>8, PostKept DEF TypeOK, Refused
    <3>2. Bans
      BY <2>8, SubmissionParts DEF TypeOK, Refused, Tell, Return, BanMatchesHandler, PhaseMatches
    <3>3. Rights
      BY <2>8, SubmissionParts DEF TypeOK, Refused, Tell, Return, SubmissionIsEntitled, ClickIsAdmitted, BanMatchesHandler
    <3> QED
      BY <3>1, <3>2, <3>3
  <2>9. ASSUME NEW s \in Submissions, Acknowledged(s) \/ AcknowledgeRaises(s) PROVE Posts /\ Bans /\ Rights
    <3>1. Posts
      <4>1. UNCHANGED <<blocks, stash, click, landed>>
        BY <2>9 DEF Acknowledged, AcknowledgeRaises
      <4>2. CASE edits' \subseteq edits
        BY <4>1, <4>2, PostKept
      <4>3. CASE edits' = edits \cup {s} /\ CanAnnotate(s)
        <5>1. s \in landed /\ click[s[1]] # "idle"
          BY <2>9 DEF Acknowledged, AcknowledgeRaises, BanMatchesHandler
        <5>2. EditsAreWhole'
          BY <4>1, <4>3, <5>1 DEF CanAnnotate, PostIsWhole, EditsAreWhole
        <5>3. FootersAreReal'
          BY <4>1, <4>3, <5>1 DEF FootersAreReal
        <5>4. PostSurvives' /\ \A c \in Clicks : StashIsWhole(c)'
          BY <4>1 DEF PostIsWhole, PostSurvives, StashIsWhole
        <5> QED
          BY <5>2, <5>3, <5>4 DEF PostIsWhole
      <4> QED
        BY <2>9, <4>2, <4>3 DEF Acknowledged, AcknowledgeRaises
    <3>2. Bans
      BY <2>9, SubmissionParts DEF TypeOK, Acknowledged, AcknowledgeRaises, Tell, Return, CanAnnotate, BanMatchesHandler, PhaseMatches
    <3>3. Rights
      BY <2>9, SubmissionParts DEF TypeOK, Acknowledged, AcknowledgeRaises, Tell, Return, CanAnnotate, SubmissionIsEntitled, ClickIsAdmitted, BanMatchesHandler
    <3> QED
      BY <3>1, <3>2, <3>3
  <2>10. ASSUME NEW s \in Submissions, AnnotateEnds(s) PROVE Posts /\ Bans /\ Rights
    <3>1. Posts
      BY <2>10, PostKept DEF TypeOK, AnnotateEnds
    <3>2. Bans
      BY <2>10, SubmissionParts DEF TypeOK, AnnotateEnds, Return, BanMatchesHandler, PhaseMatches
    <3>3. Rights
      BY <2>10, SubmissionParts DEF TypeOK, AnnotateEnds, Return, SubmissionIsEntitled, ClickIsAdmitted, BanMatchesHandler
    <3> QED
      BY <3>1, <3>2, <3>3
  <2>11. ASSUME NEW s \in edits, ServeEdit(s) PROVE Posts /\ Bans /\ Rights
    <3>1. Posts
      <4>1. s \in Submissions /\ s \in landed /\ s[1] \in Clicks
        BY <2>11, SubmissionParts DEF TypeOK, FootersAreReal
      <4>2. /\ blocks' = UpdatedBlocks(s) /\ edits' = edits \ {s}
            /\ UNCHANGED <<stash, click, landed>>
        BY <2>11 DEF ServeEdit
      <4>3. /\ stash[s[1]] # NoBlocks
            /\ StashIsWhole(s[1])
        BY <2>11, <4>1 DEF PostIsWhole, EditsAreWhole
      <4>4. PostSurvives'
        BY <4>1, <4>2, <4>3, EditedBlocks DEF StashIsWhole, PostSurvives
      <4>5. EditsAreWhole' /\ \A c \in Clicks : StashIsWhole(c)'
        BY <4>2 DEF PostIsWhole, EditsAreWhole, StashIsWhole
      <4>6. FootersAreReal'
        BY <4>1, <4>2, EditedBlocks DEF FootersAreReal
      <4> QED
        BY <4>4, <4>5, <4>6 DEF PostIsWhole
    <3>2. Bans
      BY <2>11, SubmissionParts DEF TypeOK, ServeEdit, UpdatedBlocks, BanMatchesHandler, PhaseMatches
    <3>3. Rights
      BY <2>11, SubmissionParts DEF TypeOK, ServeEdit, UpdatedBlocks, SubmissionIsEntitled, ClickIsAdmitted, BanMatchesHandler
    <3> QED
      BY <3>1, <3>2, <3>3
  <2>12. ASSUME NEW s \in requests, ServeBan(s) PROVE Posts /\ Bans /\ Rights
    <3>1. Posts
      BY <2>12, PostKept DEF TypeOK, ServeBan
    <3>2. Bans
      BY <2>12, SubmissionParts DEF TypeOK, ServeBan, Reply, BanMatchesHandler, PhaseMatches
    <3>3. Rights
      BY <2>12, SubmissionParts DEF TypeOK, ServeBan, Reply, SubmissionIsEntitled, ClickIsAdmitted, BanMatchesHandler
    <3> QED
      BY <3>1, <3>2, <3>3
  <2>13. ASSUME NEW s \in requests, RejectBan(s) PROVE Posts /\ Bans /\ Rights
    <3>1. Posts
      BY <2>13, PostKept DEF TypeOK, RejectBan
    <3>2. Bans
      BY <2>13, SubmissionParts DEF TypeOK, RejectBan, Reply, BanMatchesHandler, PhaseMatches
    <3>3. Rights
      BY <2>13, SubmissionParts DEF TypeOK, RejectBan, Reply, SubmissionIsEntitled, ClickIsAdmitted, BanMatchesHandler
    <3> QED
      BY <3>1, <3>2, <3>3
  <2>14. ASSUME NEW ids \in Rosters, ChangeRoster(ids) PROVE Posts /\ Bans /\ Rights
    <3>1. Posts
      BY <2>14, PostKept DEF TypeOK, ChangeRoster
    <3>2. Bans
      BY <2>14 DEF TypeOK, ChangeRoster, BanMatchesHandler, PhaseMatches
    <3>3. Rights
      BY <2>14 DEF TypeOK, ChangeRoster, SubmissionIsEntitled, ClickIsAdmitted, BanMatchesHandler
    <3> QED
      BY <3>1, <3>2, <3>3
  <2>15. ASSUME Restart PROVE Posts /\ Bans /\ Rights
    <3>1. Posts
      BY <2>15, PostKept DEF TypeOK, Restart
    <3>2. Bans
      <4>1. \A d \in Clicks : click[d] # "idle" => click'[d] # "idle"
        BY <2>15 DEF TypeOK, Restart
      <4>2. UNCHANGED <<landed, requests, submits, told, answer>>
        BY <2>15 DEF Restart
      <4>3. ASSUME NEW s \in Submissions PROVE BanMatchesHandler(s)' /\ PhaseMatches(s)'
        <5>1. /\ pc'[s] = IF pc[s] = "idle" THEN "idle" ELSE "done"
              /\ phase'[s] = IF phase[s] = "open" THEN "abandoned" ELSE phase[s]
              /\ outcome'[s] = "none"
          BY <2>15 DEF Restart
        <5> QED
          BY <4>1, <4>2, <5>1, SubmissionParts DEF TypeOK, BanMatchesHandler, PhaseMatches
      <4> QED
        BY <4>3
    <3>3. Rights
      BY <2>15 DEF TypeOK, Restart, SubmissionIsEntitled, ClickIsAdmitted, BanMatchesHandler
    <3> QED
      BY <3>1, <3>2, <3>3
  <2>16. ASSUME UNCHANGED vars PROVE Posts /\ Bans /\ Rights
    <3>1. Posts
      BY <2>16, PostKept DEF TypeOK, vars
    <3>2. Bans
      BY <2>16 DEF TypeOK, vars, BanMatchesHandler, PhaseMatches
    <3>3. Rights
      BY <2>16 DEF TypeOK, vars, SubmissionIsEntitled, ClickIsAdmitted, BanMatchesHandler
    <3> QED
      BY <3>1, <3>2, <3>3
  <2> QED
    BY StepCases, <2>1, <2>2, <2>3, <2>4, <2>5, <2>6, <2>7, <2>8, <2>9, <2>10, <2>11,
       <2>12, <2>13, <2>14, <2>15, <2>16, <2>17
<1> QED
  BY <1>1, <1>2, TypeCorrect, PTL DEF Spec
-----------------------------------------------------------------------------
(* However edits overtake each other, the post keeps the request, and the  *)
(* menu until a ban is shown.                                              *)
THEOREM PostsSurvive == Spec => []PostSurvives
<1>1. Inv => PostSurvives
  BY DEF Inv, PostIsWhole
<1> QED
  BY <1>1, InvCorrect, PTL

(* What the channel and the moderators are told of bans is true. *)
THEOREM AnnouncementsTrue == Spec => []AnnouncementsAreTrue
<1>1. Inv => AnnouncementsAreTrue
  BY DEF Inv, BanMatchesHandler, FootersAreReal, AnnouncementsAreTrue
<1> QED
  BY <1>1, InvCorrect, PTL

(* Modals open and bans are sent only for moderators. *)
THEOREM ModeratorsOnly == Spec => []OnlyModeratorsAct
<1>1. Inv => OnlyModeratorsAct
  BY DEF Inv, ClickIsAdmitted, OnlyModeratorsAct
<1> QED
  BY <1>1, InvCorrect, PTL
-----------------------------------------------------------------------------
(* What each submission is shown of the row. *)
Shown == [s \in Submissions |-> IF phase[s] = "done" THEN s ELSE None]

(* A step that opens, decides and stores nothing is no step of the table. *)
LEMMA Stutter ==
  ASSUME UNCHANGED <<row, landed, phase>>
  PROVE  UNCHANGED Table!vars
BY DEF Table!vars

(* A ban from Slack is a call of the table: the submission starts it, the  *)
(* handler refuses, finishes or abandons it, a restart abandons all that   *)
(* are open, and Backend-Service's processing is its effect.               *)
THEOREM TableImplemented == Spec => ImplementsTable
<1>1. Init => Table!Init
  BY DEF Init, Table!Init
<1>2. Inv /\ Inv' /\ [Next]_vars => [Table!Next]_Table!vars
  <2> SUFFICES ASSUME Inv, Inv', [Next]_vars PROVE Table!Next \/ UNCHANGED Table!vars
    OBVIOUS
  <2> USE DEF post, clicks, shown, service, rights, history
  <2>t. TypeOK /\ TypeOK'
    BY DEF Inv
  <2>m. \A s \in Submissions : /\ BanMatchesHandler(s) /\ PhaseMatches(s)
                                /\ BanMatchesHandler(s)' /\ PhaseMatches(s)'
    BY DEF Inv
  <2>1. ASSUME NEW c \in Clicks, Submit(c) PROVE Table!Next
    <3>1. PICK s \in Submissions : s = <<c, submits[c] + 1>>
      BY <2>1, <2>t, NewSubmission DEF Submit
    <3>2. s[1] = c /\ s[2] = submits[c] + 1 /\ submits[c] \in Nat
      BY <3>1, <2>t, BanFlowConstants DEF TypeOK
    <3>3. phase[s] = "idle"
      BY <2>m, <3>2 DEF BanMatchesHandler, PhaseMatches
    <3>4. phase' = [phase EXCEPT ![s] = "open"] /\ UNCHANGED <<row, landed>>
      BY <2>1, <3>1 DEF Submit
    <3>5. Table!Start(s)
      BY <3>3, <3>4, <2>t DEF Table!Start, TypeOK
    <3> QED
      BY <3>5 DEF Table!Next
  <2>2. ASSUME NEW s \in Submissions, Decide(s)
        PROVE  Table!Next \/ UNCHANGED Table!vars
    <3>1. /\ phase[s] = "open" /\ s \notin landed /\ UNCHANGED <<row, landed>>
      BY <2>2, <2>m DEF Decide, BanMatchesHandler, PhaseMatches
    <3>2. CASE phase' = [phase EXCEPT ![s] = "refused"]
      <4>1. Table!Refuse(s)
        BY <3>1, <3>2, <2>t DEF Table!Refuse, TypeOK
      <4> QED
        BY <4>1 DEF Table!Next
    <3>3. CASE UNCHANGED phase
      BY <3>1, <3>3, Stutter
    <3> QED
      BY <2>2, <3>2, <3>3 DEF Decide
  <2>3. ASSUME NEW s \in Submissions, NEW a \in {"none", "ok", "error"}, BanEnds(s, a) PROVE Table!Next
    <3>1. phase[s] = "open" /\ UNCHANGED <<row, landed>>
      BY <2>3, <2>m DEF BanEnds, PhaseMatches
    <3>2. CASE phase' = [phase EXCEPT ![s] = "done"]
      <4>1. phase'[s] = "done" /\ s \in landed
        BY <3>1, <3>2, <2>m, <2>t DEF TypeOK, PhaseMatches
      <4>2. \A t \in Submissions \ {s} : phase'[t] = phase[t]
        BY <3>2, <2>t DEF TypeOK
      <4>3. Shown' = [Shown EXCEPT ![s] = s]
        BY <4>1, <4>2 DEF Shown
      <4>4. Table!Finish(s)
        BY <3>1, <3>2, <4>1, <4>3, BanFlowConstants DEF Table!Finish, Shown
      <4> QED
        BY <4>4 DEF Table!Next
    <3>3. CASE phase' = [phase EXCEPT ![s] = "abandoned"]
      <4>1. /\ phase'[s] = "abandoned"
            /\ \A t \in Submissions \ {s} : phase'[t] = phase[t]
        BY <3>3, <2>t DEF TypeOK
      <4>2. phase' = [t \in Submissions |-> IF t \in {s} THEN "abandoned" ELSE phase[t]]
        BY <4>1, <2>t DEF TypeOK
      <4>3. Shown' = Shown
        BY <3>1, <4>1 DEF Shown
      <4>4. Table!Abandon({s})
        BY <3>1, <4>2, <4>3 DEF Table!Abandon, Shown
      <4> QED
        BY <4>4 DEF Table!Next
    <3> QED
      BY <2>3, <3>2, <3>3 DEF BanEnds
  <2>4. ASSUME NEW s \in Submissions, BanReturns(s) \/ BanTimesOut(s) PROVE Table!Next
    BY <2>3, <2>4, <2>t DEF TypeOK, BanReturns, BanTimesOut
  <2>5. ASSUME NEW s \in requests, ServeBan(s) PROVE Table!Next
    <3>1. s \in Submissions /\ s \notin landed /\ phase[s] \in {"open", "abandoned"}
      BY <2>5, <2>m, <2>t DEF TypeOK, BanMatchesHandler, PhaseMatches
    <3>2. UNCHANGED phase /\ row' = s /\ landed' = landed \cup {s}
      BY <2>5 DEF ServeBan
    <3>3. Table!Take(s)
      BY <3>1, <3>2 DEF Table!Take, Table!Effect
    <3> QED
      BY <3>1, <3>3 DEF Table!Next
  <2>6. ASSUME Restart PROVE Table!Next
    <3> DEFINE cut == {s \in Submissions : phase[s] = "open"}
    <3>1. /\ UNCHANGED <<row, landed>>
          /\ phase' = [s \in Submissions |-> IF phase[s] = "open" THEN "abandoned" ELSE phase[s]]
      BY <2>6 DEF Restart
    <3>2. Table!Abandon(cut)
      BY <3>1 DEF Table!Abandon
    <3> QED
      BY <3>2 DEF Table!Next
  <2>7. ASSUME NEW c \in Clicks, \/ Click(c) \/ AuthorizeClick(c) \/ ClickNotified(c) \/ OpenEnds(c)
                                 \/ SlackGivesUp(c) \/ Cancel(c)
        PROVE  UNCHANGED Table!vars
    BY <2>7, Stutter DEF Click, AuthorizeClick, ClickNotified, OpenEnds, EndClick, SlackGivesUp, Cancel
  <2>8. ASSUME NEW s \in Submissions,
               AuthorizeSubmission(s) \/ Refused(s) \/ Acknowledged(s) \/ AcknowledgeRaises(s) \/ AnnotateEnds(s)
        PROVE  UNCHANGED Table!vars
    BY <2>8, Stutter DEF AuthorizeSubmission, Refused, Acknowledged, AcknowledgeRaises, AnnotateEnds
  <2>9. ASSUME NEW s, \/ ServeEdit(s) \/ RejectBan(s) \/ \E ids \in Rosters : ChangeRoster(ids)
        PROVE  UNCHANGED Table!vars
    BY <2>9, Stutter DEF ServeEdit, RejectBan, ChangeRoster
  <2>10. CASE UNCHANGED vars
    BY <2>10, Stutter DEF vars
  <2> QED
    BY StepCases, <2>1, <2>2, <2>4, <2>5, <2>6, <2>7, <2>8, <2>9, <2>10
<1> QED
  BY <1>1, <1>2, InvCorrect, PTL DEF Spec, ImplementsTable, Table!Spec
=============================================================================
