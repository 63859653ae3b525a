--------------------------- MODULE ModeratorRoster ---------------------------
(***************************************************************************)
(* Editing the ban-moderator roster from Slack: /request-mods opens a      *)
(* modal (routers/slack_commands.py), its submission saves it              *)
(* (routers/slack_interactivity.py), the roster itself is a table in       *)
(* Backend-Service reached through services/moderator_client.py.           *)
(*                                                                         *)
(* A session is one invocation of the command and the modal it may open.   *)
(* The program is one asyncio process: other handlers run only while a     *)
(* handler awaits, so an action below is the code between two awaits.  The *)
(* modal (and the roster it was built from, in its private_metadata) lives *)
(* in Slack, so it outlives both the command's handler and the process.    *)
(*                                                                         *)
(* A PUT whose client has timed out stays in "puts": Backend-Service may   *)
(* still apply it, now or much later.                                      *)
(***************************************************************************)
EXTENDS Naturals

CONSTANTS
  Users,       \* ids of Slack users, in any spelling
  Upper,       \* [Users -> Users], str.upper
  BreakGlass,  \* parse_authorized_users(SLACK_BAN_AUTHORIZED_USERS)
  Sessions,    \* invocations of /request-mods
  MaxSaves,    \* bound: submissions of one modal
  Unread,      \* a roster that has not been read
  Operator     \* edits the table directly in Backend-Service

ASSUME ModeratorConstants ==
  /\ Upper \in [Users -> Users] /\ \A u \in Users : Upper[Upper[u]] = Upper[u]
  /\ BreakGlass \subseteq Users
  /\ \A ids \in SUBSET Users : ids # Unread
  /\ Operator \notin Users
  /\ MaxSaves \in Nat

VARIABLES
  roster,      \* Backend-Service: the stored roster
  writer,      \* Backend-Service: who changed it last
  cmd,         \* [Sessions -> where the command's handler is]
  owner,       \* [Sessions -> the user who typed the command]
  moderators,  \* [Sessions -> the roster the command read, then private_metadata]
  dropped,     \* [Sessions -> private_metadata.initial_users_dropped]
  shown,       \* [Sessions -> who the modal's picker opened with]
  modal,       \* [Sessions -> the modal as Slack shows it]
  save,        \* [Sessions -> where the submission's handler is]
  attempt,     \* [Sessions -> submissions so far]
  selected,    \* [Sessions -> selected_users of the last submission]
  fresh,       \* [Sessions -> the roster re-read to authorize the submission]
  puts,        \* PUT requests Backend-Service has not processed
  answer,      \* [Sessions -> Backend-Service's answer to the current PUT]
  told,        \* [Sessions -> what the user was told last]
  applied,     \* history: [Sessions -> attempts whose PUT was applied]
  othersEdited \* history: [Sessions -> whether anything but this modal changed
               \* the roster since the session read it]

vars == <<roster, writer, cmd, owner, moderators, dropped, shown, modal, save,
          attempt, selected, fresh, puts, answer, told, applied, othersEdited>>
bs == <<roster, writer, applied, othersEdited>>
view == <<owner, moderators, dropped, shown>>
submission == <<save, attempt, selected, fresh, puts, answer>>

(* Slack spells an id in capitals; the table and the settings need not.    *)
SlackUsers == {u \in Users : Upper[u] = u}
Rosters == SUBSET Users
Refusals == {"unauthorized", "degraded", "empty_refused", "conflict"}
Told == Refusals \cup {"nothing", "refused", "opened", "saved", "not_saved", "no_answer"}
Opening == {"opening", "reopening"}
Put == [session : Sessions, attempt : 0..MaxSaves, actor : Users,
        new : Rosters, expected : {Unread} \cup Rosters]

Init ==
  /\ roster \in Rosters
  /\ writer = Operator
  /\ cmd = [s \in Sessions |-> "idle"]
  /\ owner \in [Sessions -> SlackUsers]
  /\ moderators = [s \in Sessions |-> Unread]
  /\ dropped = [s \in Sessions |-> FALSE]
  /\ shown = [s \in Sessions |-> Unread]
  /\ modal = [s \in Sessions |-> "none"]
  /\ save = [s \in Sessions |-> "idle"]
  /\ attempt = [s \in Sessions |-> 0]
  /\ selected = [s \in Sessions |-> {}]
  /\ fresh = [s \in Sessions |-> Unread]
  /\ puts = {}
  /\ answer = [s \in Sessions |-> "none"]
  /\ told = [s \in Sessions |-> "nothing"]
  /\ applied = [s \in Sessions |-> {}]
  /\ othersEdited = [s \in Sessions |-> FALSE]
-----------------------------------------------------------------------------
(* Operators of the code.  "Slip" names a way to get the next one wrong,   *)
(* which the checks are tried against; the specification uses none.        *)

IsAuthorized(u, users) == u \in users

(* initial_users: the retry view opens with an empty picker. *)
Picker(retry, ids) == IF retry THEN {} ELSE ids

(* The modal's private_metadata.  The marker is set only when there was    *)
(* something to drop; the roster it carries is the one the command read.   *)
SlipNeverMarked(retry, ids) == FALSE
Dropped(retry, ids) == retry /\ ids # {}

(* As sets, order and duplicates are gone already; the spelling is left.   *)
normalize_slack_user_ids(ids) == {u \in Users : \E id \in ids : Upper[id] = u}

(* What the PUT carries: the user's selection, and as expectedCurrent the  *)
(* roster of the modal, not the one read to authorize the submission.      *)
SlipExpectFresh(s) == IF fresh[s] = Unread THEN moderators[s] ELSE fresh[s]
ExpectedCurrent(s) == moderators[s]
SlipSentVerbatim(s) ==
  [session |-> s, attempt |-> attempt[s], actor |-> owner[s],
   new |-> selected[s], expected |-> ExpectedCurrent(s)]
ReplaceModerators(s) ==
  [session |-> s, attempt |-> attempt[s], actor |-> owner[s],
   new |-> normalize_slack_user_ids(selected[s]),
   expected |-> normalize_slack_user_ids(ExpectedCurrent(s))]

(* An empty save from a picker that opened empty is refused. *)
EmptyByDefault(s) == selected[s] = {} /\ dropped[s]

(* The answer given for a save whose PUT ended with the given answer.      *)
(* "ok" is a well-formed 2xx; "error" any other failure, a malformed 2xx   *)
(* included, and "none" a transport failure or a timeout.                  *)
SlipErrorPassedOn(a) == IF a = "ok" THEN "saved" ELSE a
SlipClosesUnlessConflict(a) == IF a = "conflict" THEN "conflict" ELSE "saved"
SaveReply(a) ==
  IF a = "ok" THEN "saved" ELSE IF a = "conflict" THEN "conflict" ELSE "not_saved"
-----------------------------------------------------------------------------
(* The slash command. *)

SlashCommand(s) ==
  /\ cmd[s] = "idle"
  /\ cmd' = [cmd EXCEPT ![s] = "listing"]
  /\ UNCHANGED <<bs, view, modal, submission, told>>

(* Backend-Service answers list_moderators. *)
ServeList(s) ==
  /\ cmd[s] = "listing" /\ moderators[s] = Unread
  /\ moderators' = [moderators EXCEPT ![s] = roster]
  /\ UNCHANGED <<bs, cmd, owner, dropped, shown, modal, submission, told>>

(* The answer to the command: an empty 200 once the modal is open, or an   *)
(* ephemeral message saying why it is not.                                 *)
EndCommand(s, reply) ==
  /\ cmd' = [cmd EXCEPT ![s] = "ended"]
  /\ told' = [told EXCEPT ![s] = reply]

(* ModeratorClientError: timeout, transport failure, non-2xx or a body     *)
(* that is not a roster.                                                   *)
ListFails(s) ==
  /\ cmd[s] = "listing"
  /\ EndCommand(s, "refused")
  /\ UNCHANGED <<bs, view, modal, submission>>

(* The one read both authorizes the invoker and fills the modal. *)
SlipOpenToAll(s) ==
  /\ cmd[s] = "listing" /\ moderators[s] # Unread
  /\ cmd' = [cmd EXCEPT ![s] = "opening"]
  /\ UNCHANGED <<bs, view, modal, submission, told>>

Listed(s) ==
  /\ cmd[s] = "listing" /\ moderators[s] # Unread
  /\ IF IsAuthorized(owner[s], BreakGlass \cup moderators[s])
       THEN cmd' = [cmd EXCEPT ![s] = "opening"] /\ UNCHANGED told
       ELSE EndCommand(s, "refused")
  /\ UNCHANGED <<bs, view, modal, submission>>

(* Slack shows the modals of the given sessions. *)
Show(opened) ==
  /\ modal' = [s \in Sessions |-> IF s \in opened THEN "open" ELSE modal[s]]
  /\ shown' = [s \in Sessions |-> IF s \in opened
                 THEN Picker(cmd[s] = "reopening", moderators[s]) ELSE shown[s]]
  /\ dropped' = [s \in Sessions |-> IF s \in opened
                   THEN Dropped(cmd[s] = "reopening", moderators[s]) ELSE dropped[s]]

ViewOpened(s) ==
  /\ cmd[s] \in Opening
  /\ Show({s})
  /\ EndCommand(s, "opened")
  /\ UNCHANGED <<bs, owner, moderators, submission>>

(* Slack rejects the pre-selection: one retry without it, if enough of the *)
(* slash command's three seconds is left.                                  *)
ViewRejected(s) ==
  /\ cmd[s] = "opening"
  /\ cmd' = [cmd EXCEPT ![s] = "reopening"]
  /\ UNCHANGED <<bs, view, modal, submission, told>>

(* Any other failure, or no time for the retry.  After a timeout the modal *)
(* may be on screen all the same.                                          *)
ViewFails(s) ==
  /\ cmd[s] \in Opening
  /\ Show({}) \/ Show({s})
  /\ EndCommand(s, "refused")
  /\ UNCHANGED <<bs, owner, moderators, submission>>
-----------------------------------------------------------------------------
(* The submission of the modal. *)

Submit(s, ids) ==
  /\ modal[s] = "open" /\ save[s] = "idle"
  /\ attempt[s] < MaxSaves
  /\ attempt' = [attempt EXCEPT ![s] = @ + 1]
  /\ selected' = [selected EXCEPT ![s] = ids]
  /\ save' = [save EXCEPT ![s] = "authorizing"]
  /\ told' = [told EXCEPT ![s] = "nothing"]
  /\ UNCHANGED <<bs, cmd, view, modal, fresh, puts, answer>>

(* Backend-Service answers the read of resolve_authorized_users. *)
ServeAuthorization(s) ==
  /\ save[s] = "authorizing" /\ fresh[s] = Unread
  /\ fresh' = [fresh EXCEPT ![s] = roster]
  /\ UNCHANGED <<bs, cmd, view, modal, save, attempt, selected, puts, answer, told>>

(* The handler returns. *)
Return(s, reply) ==
  /\ save' = [save EXCEPT ![s] = "idle"]
  /\ answer' = [answer EXCEPT ![s] = "none"]
  /\ told' = [told EXCEPT ![s] = reply]

(* _roster_error: the modal stays open and shows why. *)
RosterError(s, reply) == Return(s, reply) /\ UNCHANGED <<modal, puts>>

SendPut(s) ==
  /\ puts' = puts \cup {ReplaceModerators(s)}
  /\ save' = [save EXCEPT ![s] = "saving"]
  /\ UNCHANGED <<modal, answer, told>>

(* What was selected and what was read are not used again. *)
Decide(s, users, degraded) ==
  /\ IF ~IsAuthorized(owner[s], users)
       THEN RosterError(s, IF degraded THEN "degraded" ELSE "unauthorized")
       ELSE IF EmptyByDefault(s) THEN RosterError(s, "empty_refused") ELSE SendPut(s)
  /\ selected' = [selected EXCEPT ![s] = {}]
  /\ fresh' = [fresh EXCEPT ![s] = Unread]
  /\ UNCHANGED <<bs, cmd, view, attempt>>

Authorize(s) ==
  /\ save[s] = "authorizing" /\ fresh[s] # Unread
  /\ Decide(s, BreakGlass \cup fresh[s], FALSE)

(* The read failed: authorize off the break-glass list alone. *)
AuthorizeDegraded(s) ==
  /\ save[s] = "authorizing"
  /\ Decide(s, BreakGlass, TRUE)

(* The PUT returns, with an answer or with an exception. *)
FinishSave(s, a) ==
  /\ save[s] = "saving"
  /\ a \in {answer[s], "none"}
  /\ IF SaveReply(a) = "saved"
       THEN modal' = [modal EXCEPT ![s] = "closed"] /\ Return(s, "saved") /\ UNCHANGED puts
       ELSE RosterError(s, SaveReply(a))
  /\ UNCHANGED <<bs, cmd, view, attempt, selected, fresh>>

PutReturns(s) == answer[s] # "none" /\ FinishSave(s, answer[s])
SlipNoTimeout(s) == answer[s] # "none" /\ FinishSave(s, answer[s])
PutTimesOut(s) == FinishSave(s, "none")

Cancel(s) ==
  /\ modal[s] = "open" /\ save[s] = "idle"
  /\ modal' = [modal EXCEPT ![s] = "closed"]
  /\ UNCHANGED <<bs, cmd, view, submission, told>>
-----------------------------------------------------------------------------
(* Backend-Service. *)

StoreRoster(new, who, editors) ==
  /\ roster' = new
  /\ writer' = who
  /\ othersEdited' = [s \in Sessions |->
       othersEdited[s] \/ (s \notin editors /\ moderators[s] # Unread /\ new # roster)]

(* The answer reaches the handler only if it still waits for this PUT. *)
Answer(p, a) ==
  answer' = IF save[p.session] = "saving" /\ attempt[p.session] = p.attempt
              THEN [answer EXCEPT ![p.session] = a] ELSE answer

(* Compare and set, whatever the spelling.  A 2xx whose body is not a      *)
(* roster is an error.                                                     *)
ServePut(p) ==
  /\ puts' = puts \ {p}
  /\ IF normalize_slack_user_ids(roster) = p.expected
       THEN /\ StoreRoster(p.new, p.actor, {p.session})
            /\ applied' = [applied EXCEPT ![p.session] = @ \cup {p.attempt}]
            /\ \E a \in {"ok", "error"} : Answer(p, a)
       ELSE Answer(p, "conflict") /\ UNCHANGED bs
  /\ UNCHANGED <<cmd, view, modal, save, attempt, selected, fresh, told>>

(* 400, 401, 5xx: refused without a change. *)
RejectPut(p) ==
  /\ puts' = puts \ {p}
  /\ Answer(p, "error")
  /\ UNCHANGED <<bs, cmd, view, modal, save, attempt, selected, fresh, told>>

OperatorEdit(ids) ==
  /\ StoreRoster(ids, Operator, {})
  /\ UNCHANGED <<applied, cmd, view, modal, submission, told>>

(* The process is replaced: every handler dies where it is; Slack may have *)
(* received any of the views.open calls in flight.                         *)
Restart ==
  /\ \E late \in SUBSET {s \in Sessions : cmd[s] \in Opening} : Show(late)
  /\ cmd' = [s \in Sessions |-> IF cmd[s] = "idle" THEN "idle" ELSE "ended"]
  /\ save' = [s \in Sessions |-> "idle"]
  /\ selected' = [s \in Sessions |-> {}]
  /\ fresh' = [s \in Sessions |-> Unread]
  /\ answer' = [s \in Sessions |-> "none"]
  /\ told' = [s \in Sessions |->
                IF cmd[s] \notin {"idle", "ended"} \/ save[s] # "idle"
                  THEN "no_answer" ELSE told[s]]
  /\ UNCHANGED <<bs, owner, moderators, attempt, puts>>

Command(s) == Listed(s) \/ ListFails(s) \/ ViewOpened(s) \/ ViewRejected(s) \/ ViewFails(s)
Submission(s) == Authorize(s) \/ AuthorizeDegraded(s) \/ PutReturns(s) \/ PutTimesOut(s)

Next ==
  \/ \E s \in Sessions :
       \/ SlashCommand(s) \/ ServeList(s) \/ Command(s)
       \/ \E ids \in SUBSET SlackUsers : Submit(s, ids)
       \/ ServeAuthorization(s) \/ Submission(s) \/ Cancel(s)
  \/ \E p \in puts : ServePut(p) \/ RejectPut(p)
  \/ \E ids \in Rosters : OperatorEdit(ids)
  \/ Restart

Spec == Init /\ [][Next]_vars

(* A handler that runs is scheduled again, and every call it awaits ends:  *)
(* each has a timeout.  Nothing obliges users, Slack or Backend-Service.   *)
Fairness == \A s \in Sessions : WF_vars(Command(s)) /\ WF_vars(Submission(s))
FairSpec == Spec /\ Fairness
-----------------------------------------------------------------------------
TypeOK ==
  /\ roster \in Rosters
  /\ writer \in Users \cup {Operator}
  /\ cmd \in [Sessions -> {"idle", "listing", "ended"} \cup Opening]
  /\ owner \in [Sessions -> SlackUsers]
  /\ moderators \in [Sessions -> {Unread} \cup Rosters]
  /\ dropped \in [Sessions -> BOOLEAN]
  /\ shown \in [Sessions -> {Unread} \cup Rosters]
  /\ modal \in [Sessions -> {"none", "open", "closed"}]
  /\ save \in [Sessions -> {"idle", "authorizing", "saving"}]
  /\ attempt \in [Sessions -> 0..MaxSaves]
  /\ selected \in [Sessions -> Rosters]
  /\ fresh \in [Sessions -> {Unread} \cup Rosters]
  /\ puts \subseteq Put
  /\ answer \in [Sessions -> {"none", "ok", "conflict", "error"}]
  /\ told \in [Sessions -> Told]
  /\ applied \in [Sessions -> SUBSET (0..MaxSaves)]
  /\ othersEdited \in [Sessions -> BOOLEAN]

(* A step in which a user's save changes the stored roster. *)
UserEdit == roster' # roster /\ writer' # Operator

(* Two rosters with the same people in them, however they are spelled. *)
SamePeople(ids, others) ==
  normalize_slack_user_ids(ids) = normalize_slack_user_ids(others)

(* No lost update: whatever timed out, was retried or arrived late, a save *)
(* changes the roster only while it has the people in it that were there   *)
(* when the modal was opened.                                              *)
EditBuildsOnWhatWasShown ==
  UserEdit => \E p \in puts : /\ p.actor = writer' /\ p.new = roster'
                             /\ SamePeople(moderators[p.session], roster)

(* A save takes effect only if, at that instant, the stored roster or the  *)
(* break-glass list authorizes the person who saved: neither the roster    *)
(* read for the command nor the one re-read for the submission need be     *)
(* current by then, and the compare-and-set makes up for it, up to the     *)
(* spelling of the stored ids.                                             *)
EditorIsAuthorized ==
  UserEdit => writer' \in normalize_slack_user_ids(roster) \cup BreakGlass

(* Only a picker that opened with every stored moderator in it can remove  *)
(* them all: saving a retry view, which opens empty, never empties the     *)
(* roster, however the marker, the re-read and the PUT interleave.         *)
EmptyingIsDeliberate ==
  UserEdit /\ roster' = {} =>
    \E p \in puts : /\ p.actor = writer' /\ p.new = {}
                   /\ SamePeople(shown[p.session], roster)

NoLostUpdate == [][EditBuildsOnWhatWasShown]_vars
OnlyAuthorizedEdits == [][EditorIsAuthorized]_vars
OnlyDeliberateEmptying == [][EmptyingIsDeliberate]_vars

(* The modal says "saved" (by closing) only if Backend-Service applied     *)
(* that very submission, and it gives a refusal only if it did not.  Only  *)
(* "could not save" leaves the outcome open.                               *)
RepliesAreTruthful ==
  \A s \in Sessions :
    /\ told[s] = "saved" => attempt[s] \in applied[s]
    /\ told[s] \in Refusals => attempt[s] \notin applied[s]

(* A conflict is reported only if the roster did change after the command  *)
(* read it, and then by somebody else or by an earlier submission of this  *)
(* very modal, which landed although its user was told that it had not     *)
(* been saved, or nothing: the first submission never conflicts with       *)
(* itself, nor any with a roster nobody touched or merely respelled.  (The *)
(* modal says "someone else changed the moderator list" in both cases.)    *)
ConflictIsReal ==
  \A s \in Sessions : told[s] = "conflict" =>
    othersEdited[s] \/ \E n \in applied[s] : n < attempt[s]

(* Every command and every submission is answered, whatever Slack and      *)
(* Backend-Service do.                                                     *)
EveryInteractionAnswered ==
  \A s \in Sessions :
    /\ cmd[s] = "listing" ~> cmd[s] = "ended"
    /\ save[s] # "idle" ~> save[s] = "idle"

(* The whole flow implements the register of RosterRegister: the people on *)
(* the roster, and for a session those its command read.                   *)
SeenPeople(s) == IF moderators[s] = Unread THEN Unread
                 ELSE normalize_slack_user_ids(moderators[s])
Register == INSTANCE RosterRegister
  WITH roster <- normalize_slack_user_ids(roster), seen <- [s \in Sessions |-> SeenPeople(s)]
ImplementsRegister == Register!Spec
=============================================================================
