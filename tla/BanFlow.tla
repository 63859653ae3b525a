------------------------------- MODULE BanFlow -------------------------------
(***************************************************************************)
(* Banning a listener from Slack (routers/slack_interactivity.py): the     *)
(* menu on a request's post opens a modal, its submission writes the ban   *)
(* to Backend-Service, tells the moderator and edits the post.             *)
(*                                                                         *)
(* One post, of one device, and several clicks on its menu.  A submission  *)
(* <<c, n>> is the n-th time the modal of click c is submitted: Slack      *)
(* gives up on a handler after three seconds and lets the user submit      *)
(* again, but the handler goes on (BanAdminClient alone may take ten).     *)
(***************************************************************************)
EXTENDS Naturals, FiniteSets

CONSTANTS
  Users,       \* Slack users
  BreakGlass,  \* parse_authorized_users(SLACK_BAN_AUTHORIZED_USERS)
  Clicks,      \* clicks on the post's menu
  MaxSubmits,  \* bound: submissions of all modals together
  NoBan, None  \* the device is not banned; no ban, yet

Submissions == Clicks \X (1..MaxSubmits)

ASSUME BanFlowConstants ==
  /\ BreakGlass \subseteq Users
  /\ MaxSubmits \in Nat
  /\ NoBan \notin Submissions /\ None \notin Submissions

VARIABLES
  roster,    \* Backend-Service: the stored moderators not in BreakGlass,
             \* where it makes no difference that they are stored too
  row,       \* Backend-Service: the submission whose ban is in force, or NoBan
  requests,  \* bans sent to Backend-Service and not processed
  long,      \* the post does not fit in private_metadata
  tagged,    \* the post carries a fingerprint
  blocks,    \* the blocks of the post: the request, the menu and the footers
             \* "Banned by ..." that submissions left on it
  edits,     \* chat.update calls sent to Slack and not processed
  click,     \* [Clicks -> where the click's handler is]
  owner,     \* [Clicks -> the user who clicked]
  stash,     \* [Clicks -> the blocks in the modal's private_metadata]
  modal,     \* [Clicks -> the modal as Slack shows it]
  awaited,   \* [Clicks -> the submission Slack waits for, or 0]
  submits,   \* [Clicks -> submissions so far]
  pc,        \* [Submissions -> where the handler is]
  outcome,   \* [Submissions -> Backend-Service's answer, while it is waited for]
  told,      \* [Submissions -> the ephemeral the user got]
  answer,    \* [Submissions -> the HTTP answer]
  phase,     \* history: [Submissions -> how far its call of Backend-Service is]
  landed,    \* history: submissions whose ban was stored
  admitted,  \* history: the clicks, and
  entitled   \* the submissions, whose user was authorized at some moment
             \* between their arrival and their read of the roster

vars == <<roster, row, requests, long, tagged, blocks, edits, click, owner, stash,
          modal, awaited, submits, pc, outcome, told, answer, phase, landed,
          admitted, entitled>>
post == <<long, tagged, blocks>>
clicks == <<click, owner, stash>>
shown == <<modal, awaited, submits>>
service == <<roster, row, landed>>
rights == <<admitted, entitled>>
history == <<phase, rights>>

Rosters == SUBSET (Users \ BreakGlass)
Blocks == [request : BOOLEAN, menu : BOOLEAN, footers : SUBSET Submissions]
NoBlocks == [request |-> FALSE, menu |-> FALSE, footers |-> {}]

Init ==
  /\ roster \in Rosters
  /\ row = NoBan
  /\ requests = {} /\ edits = {}
  /\ long \in BOOLEAN /\ tagged \in BOOLEAN
  /\ blocks = [request |-> TRUE, menu |-> TRUE, footers |-> {}]
  /\ click = [c \in Clicks |-> "idle"]
  /\ owner \in [Clicks -> Users]
  /\ stash = [c \in Clicks |-> NoBlocks]
  /\ modal = [c \in Clicks |-> "none"]
  /\ awaited = [c \in Clicks |-> 0]
  /\ submits = [c \in Clicks |-> 0]
  /\ pc = [s \in Submissions |-> "idle"]
  /\ outcome = [s \in Submissions |-> "none"]
  /\ told = [s \in Submissions |-> "nothing"]
  /\ answer = [s \in Submissions |-> "none"]
  /\ phase = [s \in Submissions |-> "idle"]
  /\ landed = {} /\ admitted = {} /\ entitled = {}
-----------------------------------------------------------------------------
(* Operators of the code.  "Slip" names a way to get the next one wrong,   *)
(* which the checks are tried against; the specification uses none.        *)

(* resolve_authorized_users: the union, or the break-glass list alone when *)
(* the roster cannot be read.                                              *)
AuthorizedUsers == {BreakGlass \cup roster, BreakGlass}

(* What a click stashes of the blocks it came with: all but the menu, or   *)
(* nothing where that does not fit.                                        *)
SlipKeepsMenu(bs) == IF long THEN NoBlocks ELSE bs
Stashed(bs) == IF long THEN NoBlocks ELSE [bs EXCEPT !.menu = FALSE]

(* The post is edited only if its own blocks were stashed. *)
SlipAlwaysAnnotates(s) == TRUE
CanAnnotate(s) == stash[s[1]] # NoBlocks

(* What chat.update puts in place of the post's blocks: the stashed ones   *)
(* and a footer.                                                           *)
UpdatedBlocks(s) == [stash[s[1]] EXCEPT !.footers = @ \cup {s}]

SlipTimeoutIsSuccess(a) == a # "error"
Succeeded(a) == a = "ok"
-----------------------------------------------------------------------------
(* The click. *)

Click(c) ==
  /\ click[c] = "idle" /\ blocks.menu
  /\ click' = [click EXCEPT ![c] = "authorizing"]
  /\ stash' = [stash EXCEPT ![c] = Stashed(blocks)]
  /\ admitted' = IF owner[c] \in BreakGlass \cup roster THEN admitted \cup {c} ELSE admitted
  /\ UNCHANGED <<service, requests, post, edits, owner, shown, pc, outcome, told, answer, phase, entitled>>

(* An ephemeral refusal, or one that there is no device to ban, or the     *)
(* modal.                                                                  *)
AuthorizeClick(c) ==
  /\ click[c] = "authorizing"
  /\ \E users \in AuthorizedUsers :
       click' = [click EXCEPT ![c] =
                   IF owner[c] \in users /\ tagged THEN "opening" ELSE "notifying"]
  /\ UNCHANGED <<service, requests, post, edits, owner, stash, shown, pc, outcome, told, answer, history>>

EndClick(c) == click' = [click EXCEPT ![c] = "ended"]

(* Delivered or not, the click is over. *)
ClickNotified(c) ==
  /\ click[c] = "notifying"
  /\ EndClick(c)
  /\ UNCHANGED <<service, requests, post, edits, owner, stash, shown, pc, outcome, told, answer, history>>

(* views.open succeeds, fails, or times out with the modal on screen. *)
OpenEnds(c) ==
  /\ click[c] = "opening"
  /\ EndClick(c)
  /\ modal' = [modal EXCEPT ![c] = "open"] \/ UNCHANGED modal
  /\ UNCHANGED <<service, requests, post, edits, owner, stash, awaited, submits, pc, outcome,
                 told, answer, history>>
-----------------------------------------------------------------------------
(* The submission. *)

Submit(c) ==
  /\ modal[c] = "open" /\ awaited[c] = 0 /\ submits[c] < MaxSubmits
  /\ Cardinality({s \in Submissions : pc[s] # "idle"}) < MaxSubmits
  /\ LET s == <<c, submits[c] + 1>> IN
       /\ submits' = [submits EXCEPT ![c] = @ + 1]
       /\ awaited' = [awaited EXCEPT ![c] = submits[c] + 1]
       /\ pc' = [pc EXCEPT ![s] = "authorizing"]
       /\ phase' = [phase EXCEPT ![s] = "open"]
       /\ entitled' = IF owner[c] \in BreakGlass \cup roster THEN entitled \cup {s} ELSE entitled
  /\ UNCHANGED <<service, requests, post, edits, clicks, modal, outcome, told, answer, admitted>>

(* The handler returns; the modal closes on a 200, if Slack still waits. *)
Return(s, a) ==
  /\ pc' = [pc EXCEPT ![s] = "done"]
  /\ answer' = [answer EXCEPT ![s] = a]
  /\ IF awaited[s[1]] = s[2]
       THEN /\ awaited' = [awaited EXCEPT ![s[1]] = 0]
            /\ modal' = IF a = "ok" THEN [modal EXCEPT ![s[1]] = "closed"] ELSE modal
       ELSE UNCHANGED <<awaited, modal>>

(* The roster is read again for the same user: the server's read, which    *)
(* the handler learns of later.                                            *)
SlipTrustsTheClick(s) ==
  /\ pc[s] = "authorizing"
  /\ pc' = [pc EXCEPT ![s] = "authorized"]
  /\ UNCHANGED <<service, requests, post, edits, clicks, shown, outcome, told, answer, history>>

AuthorizeSubmission(s) ==
  /\ pc[s] = "authorizing"
  /\ \E users \in AuthorizedUsers :
       pc' = [pc EXCEPT ![s] = IF owner[s[1]] \in users THEN "authorized" ELSE "unauthorized"]
  /\ UNCHANGED <<service, requests, post, edits, clicks, shown, outcome, told, answer, history>>

(* The handler goes on with what was read: it refuses the user, rejects    *)
(* the reason, or sends the ban.                                           *)
Decide(s) ==
  /\ \/ /\ pc[s] = "unauthorized"
        /\ pc' = [pc EXCEPT ![s] = "refusing"]
        /\ phase' = [phase EXCEPT ![s] = "refused"]
        /\ UNCHANGED <<requests, awaited, modal, answer>>
     \/ /\ pc[s] = "authorized"
        /\ Return(s, "reason_errors")
        /\ phase' = [phase EXCEPT ![s] = "refused"]
        /\ UNCHANGED requests
     \/ /\ pc[s] = "authorized"
        /\ requests' = requests \cup {s}
        /\ pc' = [pc EXCEPT ![s] = "banning"]
        /\ UNCHANGED <<phase, awaited, modal, answer>>
  /\ UNCHANGED <<service, post, edits, clicks, submits, outcome, told, rights>>

(* BanAdminClient.ban returns, or raises: an error answer, a body that is  *)
(* no JSON, or no answer in time.                                          *)
BanEnds(s, a) ==
  /\ pc[s] = "banning"
  /\ pc' = [pc EXCEPT ![s] = IF Succeeded(a) THEN "acking" ELSE "reporting"]
  /\ phase' = [phase EXCEPT ![s] = IF Succeeded(a) THEN "done" ELSE "abandoned"]
  /\ outcome' = [outcome EXCEPT ![s] = "none"]
  /\ UNCHANGED <<service, requests, post, edits, clicks, shown, told, answer, rights>>

BanReturns(s) == outcome[s] # "none" /\ BanEnds(s, outcome[s])

SlipResends(s) ==
  /\ pc[s] = "banning" /\ requests' = requests \cup {s}
  /\ UNCHANGED <<service, post, edits, clicks, shown, pc, outcome, told, answer, history>>

BanTimesOut(s) == BanEnds(s, "none")

(* _notify_slack: what the user is told may or may not arrive; only a body *)
(* that is no JSON escapes it, as a 500.                                   *)
Tell(s, text) ==
  \/ told' = [told EXCEPT ![s] = text]
  \/ UNCHANGED told

Refused(s) ==
  /\ pc[s] = "refusing" \/ pc[s] = "reporting"
  /\ Tell(s, IF pc[s] = "refusing" THEN "refused" ELSE "failed")
  /\ Return(s, "ok") \/ Return(s, "error")
  /\ UNCHANGED <<service, requests, post, edits, clicks, submits, outcome, history>>

Acknowledged(s) ==
  /\ pc[s] = "acking"
  /\ Tell(s, "banned")
  /\ IF CanAnnotate(s)
       THEN /\ pc' = [pc EXCEPT ![s] = "annotating"]
            /\ edits' = edits \cup {s}
            /\ UNCHANGED <<answer, awaited, modal>>
       ELSE Return(s, "ok") /\ UNCHANGED edits
  /\ UNCHANGED <<service, requests, post, clicks, submits, outcome, history>>

AcknowledgeRaises(s) ==
  /\ pc[s] = "acking"
  /\ Tell(s, "banned")
  /\ Return(s, "error")
  /\ UNCHANGED <<service, requests, post, edits, clicks, submits, outcome, history>>

(* chat.update returns or fails; after a timeout it may yet be processed. *)
AnnotateEnds(s) ==
  /\ pc[s] = "annotating"
  /\ edits' \in {edits, edits \ {s}}
  /\ Return(s, "ok") \/ Return(s, "error")
  /\ UNCHANGED <<service, requests, post, clicks, submits, outcome, told, history>>

SlackGivesUp(c) ==
  /\ awaited[c] # 0
  /\ awaited' = [awaited EXCEPT ![c] = 0]
  /\ UNCHANGED <<service, requests, post, edits, clicks, modal, submits, pc, outcome, told, answer, history>>

Cancel(c) ==
  /\ modal[c] = "open" /\ awaited[c] = 0
  /\ modal' = [modal EXCEPT ![c] = "closed"]
  /\ UNCHANGED <<service, requests, post, edits, clicks, awaited, submits, pc, outcome, told, answer, history>>
-----------------------------------------------------------------------------
(* Slack and Backend-Service. *)

ServeEdit(s) ==
  /\ edits' = edits \ {s}
  /\ blocks' = UpdatedBlocks(s)
  /\ UNCHANGED <<service, requests, long, tagged, clicks, shown, pc, outcome, told, answer, history>>

Reply(s, a) == outcome' = IF pc[s] = "banning" THEN [outcome EXCEPT ![s] = a] ELSE outcome

(* The upsert is idempotent. *)
ServeBan(s) ==
  /\ requests' = requests \ {s}
  /\ row' = s /\ landed' = landed \cup {s}
  /\ Reply(s, "ok") \/ Reply(s, "error")
  /\ UNCHANGED <<roster, post, edits, clicks, shown, pc, told, answer, history>>

RejectBan(s) ==
  /\ requests' = requests \ {s}
  /\ Reply(s, "error")
  /\ UNCHANGED <<service, post, edits, clicks, shown, pc, told, answer, history>>

(* Another moderator's save of the roster. *)
ChangeRoster(ids) ==
  /\ roster' = ids
  /\ admitted' = admitted \cup {c \in Clicks : click[c] = "authorizing" /\ owner[c] \in ids}
  /\ entitled' = entitled \cup {s \in Submissions : pc[s] = "authorizing" /\ owner[s[1]] \in ids}
  /\ UNCHANGED <<requests, post, edits, clicks, shown, pc, outcome, told, answer, row, phase, landed>>

(* The process is replaced.  Slack shows an error in every modal it waits  *)
(* for, and may open a modal that was on its way.                          *)
Restart ==
  /\ \E late \in SUBSET {c \in Clicks : click[c] = "opening"} :
       modal' = [c \in Clicks |-> IF c \in late THEN "open" ELSE modal[c]]
  /\ click' = [c \in Clicks |-> IF click[c] = "idle" THEN "idle" ELSE "ended"]
  /\ pc' = [s \in Submissions |-> IF pc[s] = "idle" THEN "idle" ELSE "done"]
  /\ awaited' = [c \in Clicks |-> 0]
  /\ outcome' = [s \in Submissions |-> "none"]
  /\ phase' = [s \in Submissions |-> IF phase[s] = "open" THEN "abandoned" ELSE phase[s]]
  /\ UNCHANGED <<service, requests, post, edits, owner, stash, submits, told, answer, rights>>

HandleClick(c) == AuthorizeClick(c) \/ ClickNotified(c) \/ OpenEnds(c)
HandleSubmission(s) ==
  AuthorizeSubmission(s) \/ Decide(s) \/ BanReturns(s) \/ BanTimesOut(s) \/ Refused(s)
  \/ Acknowledged(s) \/ AcknowledgeRaises(s) \/ AnnotateEnds(s)

Next ==
  \/ \E c \in Clicks : Click(c) \/ HandleClick(c) \/ Submit(c) \/ SlackGivesUp(c) \/ Cancel(c)
  \/ \E s \in Submissions : HandleSubmission(s)
  \/ \E s \in edits : ServeEdit(s)
  \/ \E s \in requests : ServeBan(s) \/ RejectBan(s)
  \/ \E ids \in Rosters : ChangeRoster(ids)
  \/ Restart

Spec == Init /\ [][Next]_vars
-----------------------------------------------------------------------------
TypeOK ==
  /\ roster \in Rosters
  /\ requests \subseteq Submissions /\ edits \subseteq Submissions
  /\ long \in BOOLEAN /\ tagged \in BOOLEAN /\ blocks \in Blocks
  /\ click \in [Clicks -> {"idle", "authorizing", "notifying", "opening", "ended"}]
  /\ owner \in [Clicks -> Users]
  /\ stash \in [Clicks -> Blocks]
  /\ modal \in [Clicks -> {"none", "open", "closed"}]
  /\ awaited \in [Clicks -> 0..MaxSubmits]
  /\ submits \in [Clicks -> 0..MaxSubmits]
  /\ pc \in [Submissions -> {"idle", "authorizing", "authorized", "unauthorized",
                             "refusing", "banning", "reporting", "acking", "annotating", "done"}]
  /\ outcome \in [Submissions -> {"none", "ok", "error"}]
  /\ told \in [Submissions -> {"nothing", "refused", "failed", "banned"}]
  /\ answer \in [Submissions -> {"none", "ok", "error", "reason_errors"}]
  /\ row \in Submissions \cup {NoBan}
  /\ phase \in [Submissions -> {"idle", "open", "refused", "done", "abandoned"}]
  /\ landed \subseteq Submissions
  /\ admitted \subseteq Clicks /\ entitled \subseteq Submissions

(* chat.update replaces a post wholesale by what a modal stashed, perhaps  *)
(* before other modals were opened and other bans shown.  However such     *)
(* edits overtake each other or are late, the request is still on the      *)
(* post, and the menu is there exactly until a ban is shown: no late edit  *)
(* erases the one, or puts the other back beside a footer.                 *)
PostSurvives ==
  /\ blocks.request
  /\ blocks.menu <=> blocks.footers = {}

(* The channel and the moderator hear of a ban only once Backend-Service   *)
(* has stored that very ban; a refusal is never followed by one.           *)
AnnouncementsAreTrue ==
  /\ blocks.footers \subseteq landed
  /\ \A s \in Submissions :
       /\ told[s] = "banned" => s \in landed
       /\ told[s] = "refused" \/ answer[s] = "reason_errors" => s \notin landed \cup requests

(* The modal, which holds the listener's device, opens only for somebody   *)
(* authorized at some moment since the click, and a ban is sent only for   *)
(* somebody authorized at some moment between that submission and its read *)
(* of the roster: the roster may change before, between and after the two, *)
(* and an unreadable one widens nothing.                                   *)
OnlyModeratorsAct ==
  /\ \A c \in Clicks : modal[c] # "none" => c \in admitted
  /\ requests \cup landed \subseteq entitled

(* A ban from Slack is a call of the table that BanTable specifies: one    *)
(* the handler takes for stored took effect, once, between its start and   *)
(* its answer; a refused one never does; and only one that failed, timed   *)
(* out or was cut short may do so later, or not at all.                    *)
Table == INSTANCE BanTable WITH
  Calls <- Submissions,
  kind <- [s \in Submissions |-> "ban"],
  effect <- [s \in Submissions |-> IF s \in landed THEN s ELSE None],
  shown <- [s \in Submissions |-> IF phase[s] = "done" THEN s ELSE None]
ImplementsTable == Table!Spec

(* docs/admin-bans.md:145: "The Slack actor is recorded in Slack itself    *)
(* instead": the footer that names a moderator who banned stays on the     *)
(* post.                                                                   *)
FootersAreKept == [][blocks.footers \subseteq blocks'.footers]_vars
=============================================================================
