--------------------------- MODULE RequestPipeline ---------------------------
(***************************************************************************)
(* POST /request (routers/request.py): the User-Agent gate, the ban check, *)
(* the parse by Groq, the search by LML and the post to Slack, with every  *)
(* way each of them fails.                                                 *)
(*                                                                         *)
(* All requests come from one listener, known by a device and an account;  *)
(* Backend-Service bans either at any time.  Handlers are coroutines of    *)
(* one process, so an action below is the code between two awaits.         *)
(***************************************************************************)
EXTENDS Naturals

CONSTANTS
  Requests,     \* requests of the listener
  Configs,      \* deployments considered: a subset of Config
  Inputs,       \* requests considered: a subset of Input
  Answers,      \* search results considered: a subset of Answer
  BanSets,      \* bans considered: subsets of Signals
  MaxAttempts,  \* LookupServiceClient.max_attempts
  None,         \* no value yet
  Failed        \* an exception instead of a value

(* What the settings decide.  slack = "off" is every way to have no        *)
(* SlackService; "webhook_key" has to fetch the webhook's address first.   *)
Config == [strict : BOOLEAN, ban_check : {"off", "on", "invalid_url"},
           slack : {"off", "bot", "webhook", "webhook_key"},
           lookup : BOOLEAN, posthog : BOOLEAN]

(* Body and headers.  known_client is is_known_strict_client of the        *)
(* User-Agent; user is the Authorization header: a "stale" token is one    *)
(* Backend-Service does not accept, an "unencodable" one is not ASCII.     *)
Users == {"none", "stale", "valid", "unencodable"}
Input == [empty : BOOLEAN, skip_slack : BOOLEAN, known_client : BOOLEAN,
          device : {"absent", "malformed", "valid"}, user : Users]

(* LookupResponse.  "external" rows are not on WXYC's shelves; "found" is  *)
(* a message that announces rows.  The router reads neither "degraded" nor *)
(* "timeout": any of these may be what LML has of an unfinished search.    *)
Rows == {"shelved", "external"}
Contexts == {"none", "found", "not_found"}
Answer == [results : SUBSET Rows, song_not_found : BOOLEAN,
           found_on_compilation : BOOLEAN, context : Contexts]

(* What the router takes for granted: LML announces no rows it does not    *)
(* send.  Nothing else ties an answer's fields to one another.             *)
Consistent(a) == a.results = {} => a.context # "found" /\ ~a.found_on_compilation

(* names: the parse has both a song and an artist to name. *)
Parsed == [is_request : BOOLEAN, names : BOOLEAN]
Signals == {"device", "user"}

ASSUME PipelineConstants ==
  /\ Configs \subseteq Config /\ Inputs \subseteq Input /\ Answers \subseteq Answer
  /\ BanSets \subseteq SUBSET Signals
  /\ None # Failed
  /\ \A x \in Input \cup Answer \cup Parsed : x # None /\ x # Failed
  /\ MaxAttempts \in Nat \ {0}

VARIABLES
  config,   \* the deployment
  bans,     \* Backend-Service: which of the listener's signals are banned
  webhook,  \* core/dependencies._slack_webhook_url is set
  pc,       \* [Requests -> where the handler is]
  input,    \* [Requests -> what arrived]
  outage,   \* [Requests -> ban_check_degraded]
  parsed,   \* [Requests -> what Groq made of the message]
  attempt,  \* [Requests -> calls of LML so far]
  lookup,   \* [Requests -> what LML answered]
  copies,   \* [Requests -> how often the message is in the channel]
  post,     \* [Requests -> the message as it was posted]
  reply,    \* [Requests -> the HTTP answer]
  event,    \* [Requests -> the PostHog event]
  always,   \* history: [Requests -> what was banned all along, until the verdict]
  ever      \* history: [Requests -> what was banned at some time, until the verdict]

vars == <<config, bans, webhook, pc, input, outage, parsed, attempt, lookup,
          copies, post, reply, event, always, ever>>
world == <<config, bans, webhook, always, ever>>
ended == <<copies, post, reply, event>>

Deciding == {"fetching", "handling", "checking"}
Live == Deciding \cup {"parsing", "searching", "retrying", "posting"}

Init ==
  /\ config \in Configs
  /\ bans \in BanSets
  /\ webhook = FALSE
  /\ pc = [r \in Requests |-> "unsent"]
  /\ input = [r \in Requests |-> None]
  /\ outage = [r \in Requests |-> FALSE]
  /\ parsed = [r \in Requests |-> None]
  /\ attempt = [r \in Requests |-> 0]
  /\ lookup = [r \in Requests |-> None]
  /\ copies = [r \in Requests |-> 0]
  /\ post = [r \in Requests |-> None]
  /\ reply = [r \in Requests |-> None]
  /\ event = [r \in Requests |-> None]
  /\ always = [r \in Requests |-> {}]
  /\ ever = [r \in Requests |-> {}]
-----------------------------------------------------------------------------
(* Operators of the code.  A "Slip" is a way to get the next one wrong,    *)
(* which the checks are tried against; the specification uses none.        *)

(* Only a UUID counts as a fingerprint: normalize_fingerprint. *)
HasFingerprint(i) == i.device = "valid"

UaGateRejects(i) == config.strict /\ ~HasFingerprint(i) /\ i.known_client

(* Whether Backend-Service is asked, and whether it can be: check() raises *)
(* ValueError without a signal, httpx InvalidURL for an address that is    *)
(* not one and UnicodeEncodeError for a header it cannot send, none of     *)
(* which is an httpx.HTTPError.                                            *)
SlipCheckOnPresence(i) == config.ban_check # "off" /\ (i.user # "none" \/ i.device # "absent")
ChecksBans(i) == config.ban_check # "off" /\ (i.user # "none" \/ HasFingerprint(i))
CanAsk(i) ==
  /\ config.ban_check = "on"
  /\ i.user # "unencodable"
  /\ i.user # "none" \/ HasFingerprint(i)

(* The verdict: 401 and 404 are read as "not banned". *)
SlipAccountOnly(i) == i.user = "valid" /\ "user" \in bans
Banned(i) ==
  i.user # "stale" /\ \/ HasFingerprint(i) /\ "device" \in bans
                      \/ i.user = "valid" /\ "user" \in bans

(* What is delivered of an answer: the shelved rows, with what LML said of *)
(* its own rows unless stripping the others left none.                     *)
NotSearched == [results |-> {}, song_not_found |-> FALSE,
                found_on_compilation |-> FALSE, context |-> "none"]
AsSent(a) == [a EXCEPT !.results = @ \ {"external"}]
NotInLibrary(p) ==
  [NotSearched EXCEPT !.song_not_found = TRUE,
                      !.context = IF p.names THEN "not_found" ELSE "none"]
SlipReinterpretsEmpty(p, a) ==
  IF "shelved" \notin a.results THEN NotInLibrary(p) ELSE AsSent(a)
Reconciled(p, a) ==
  IF a.results # {} /\ "shelved" \notin a.results THEN NotInLibrary(p) ELSE AsSent(a)
Delivered(r) ==
  IF lookup[r] \in Answers THEN Reconciled(parsed[r], lookup[r]) ELSE NotSearched

SlipModeIsReason(r) == IF lookup[r] = Failed THEN lookup[r] ELSE "none"
DegradedMode(r) ==
  IF parsed[r] = Failed THEN "parsing_unavailable"
  ELSE IF lookup[r] = Failed THEN "search_unavailable"
  ELSE IF outage[r] THEN "ban_check_unavailable" ELSE "none"

NotARequest(r) == parsed[r] # Failed /\ ~parsed[r].is_request

(* The Slack message: a note in place of what is missing, the shelved      *)
(* rows, and the device as metadata, which the webhook cannot carry.       *)
Metadata(r) == config.slack = "bot" /\ HasFingerprint(input[r])
Note(r) ==
  IF parsed[r] = Failed THEN "parsing_unavailable"
  ELSE IF ~parsed[r].is_request THEN "label"
  ELSE IF lookup[r] = Failed THEN "search_unavailable"
  ELSE IF Delivered(r).results # {} THEN "results" ELSE "no_results"
Message(r) == [note |-> Note(r), results |-> Delivered(r).results, device |-> Metadata(r)]

(* The event.  degraded_reason is an exception's name, or absent.          *)
SlipOutageOnlyAsMode(r) == outage[r] /\ lookup[r] # Failed /\ parsed[r] # Failed
OutageFlag(r) == outage[r]
Telemetry(r) ==
  [name |-> IF NotARequest(r) THEN "request_non_request" ELSE "request_completed",
   degraded_mode |-> DegradedMode(r),
   degraded_reason |-> parsed[r] = Failed \/ lookup[r] = Failed,
   ban_check_degraded |-> OutageFlag(r)]
Blocked == [name |-> "request_blocked", degraded_mode |-> "none",
            degraded_reason |-> FALSE, ban_check_degraded |-> FALSE]

(* The answer.  The statuses are 200 "ok", 400 "empty", 403 "blocked",     *)
(* 502 "slack_failed" and 500 "error".                                     *)
Bare(s) == [status |-> s, degraded_mode |-> "none", found |-> NotSearched]
UnifiedResponse(r) ==
  [status |-> "ok", found |-> Delivered(r),
   degraded_mode |-> IF NotARequest(r) THEN "none" ELSE DegradedMode(r)]
-----------------------------------------------------------------------------
End(r, answer) ==
  /\ pc' = [pc EXCEPT ![r] = "answered"]
  /\ reply' = [reply EXCEPT ![r] = answer]

Goto(r, where) == pc' = [pc EXCEPT ![r] = where]

(* The dependencies of the route: the webhook's address is fetched once.   *)
Arrive(r, i) ==
  /\ pc[r] = "unsent"
  /\ input' = [input EXCEPT ![r] = i]
  /\ always' = [always EXCEPT ![r] = bans]
  /\ ever' = [ever EXCEPT ![r] = bans]
  /\ Goto(r, IF config.slack = "webhook_key" /\ ~webhook THEN "fetching" ELSE "handling")
  /\ UNCHANGED <<config, bans, webhook, outage, parsed, attempt, lookup, ended>>

WebhookFetched(r) ==
  /\ pc[r] = "fetching"
  /\ webhook' = TRUE
  /\ Goto(r, "handling")
  /\ UNCHANGED <<config, bans, always, ever, input, outage, parsed, attempt, lookup, ended>>

(* ServiceInitializationError out of a dependency. *)
WebhookUnavailable(r) ==
  /\ pc[r] = "fetching"
  /\ End(r, Bare("error"))
  /\ UNCHANGED <<world, input, outage, parsed, attempt, lookup, copies, post, event>>

(* request_blocked is captured in a try: the answer is 403 either way. *)
Block(r) ==
  /\ End(r, Bare("blocked"))
  /\ \/ config.posthog /\ event' = [event EXCEPT ![r] = Blocked]
     \/ UNCHANGED event

(* From the first line of the handler to its first await. *)
Gate(r) ==
  /\ pc[r] = "handling"
  /\ IF input[r].empty THEN End(r, Bare("empty")) /\ UNCHANGED event
     ELSE IF UaGateRejects(input[r]) THEN Block(r)
     ELSE /\ Goto(r, IF ChecksBans(input[r]) THEN "checking" ELSE "parsing")
          /\ UNCHANGED <<reply, event>>
  /\ UNCHANGED <<world, input, outage, parsed, attempt, lookup, copies, post>>

BanVerdict(r) ==
  /\ pc[r] = "checking" /\ CanAsk(input[r])
  /\ IF Banned(input[r]) THEN Block(r) ELSE Goto(r, "parsing") /\ UNCHANGED <<reply, event>>
  /\ UNCHANGED <<world, input, outage, parsed, attempt, lookup, copies, post>>

(* BanCheckUnavailableError: transport, timeout, 5xx, other 4xx, a body    *)
(* that is not JSON or an object without "banned".                         *)
BanCheckUnavailable(r) ==
  /\ pc[r] = "checking" /\ CanAsk(input[r])
  /\ outage' = [outage EXCEPT ![r] = TRUE]
  /\ Goto(r, "parsing")
  /\ UNCHANGED <<world, input, parsed, attempt, lookup, ended>>

(* Anything else it raises is not caught: Backend-Service could not be     *)
(* asked, or its body is JSON in which "banned" cannot be looked up.       *)
BanCheckRaises(r) ==
  /\ pc[r] = "checking"
  /\ End(r, Bare("error"))
  /\ UNCHANGED <<world, input, outage, parsed, attempt, lookup, copies, post, event>>

(* Groq classified the message.  Without a lookup client the search has    *)
(* failed before it began.                                                 *)
ParseReturns(r, p) ==
  /\ pc[r] = "parsing"
  /\ parsed' = [parsed EXCEPT ![r] = p]
  /\ IF p.is_request /\ config.lookup
       THEN /\ attempt' = [attempt EXCEPT ![r] = 1]
            /\ Goto(r, "searching")
       ELSE UNCHANGED attempt /\ Goto(r, "posting")
  /\ lookup' = IF p.is_request /\ ~config.lookup THEN [lookup EXCEPT ![r] = Failed] ELSE lookup
  /\ UNCHANGED <<world, input, outage, ended>>

(* Any exception of parse_request. *)
SlipParseFailureContinues(r) ==
  /\ pc[r] = "parsing"
  /\ parsed' = [parsed EXCEPT ![r] = Failed]
  /\ copies' = [copies EXCEPT ![r] = @ + 1]
  /\ Goto(r, "posting")
  /\ UNCHANGED <<world, input, outage, attempt, lookup, post, reply, event>>

ParseFails(r) ==
  /\ pc[r] = "parsing"
  /\ parsed' = [parsed EXCEPT ![r] = Failed]
  /\ Goto(r, "posting")
  /\ UNCHANGED <<world, input, outage, attempt, lookup, ended>>

LookupReturns(r, a) ==
  /\ pc[r] = "searching"
  /\ lookup' = [lookup EXCEPT ![r] = a]
  /\ Goto(r, "posting")
  /\ UNCHANGED <<world, input, outage, parsed, attempt, ended>>

(* ConnectError: the only failure that is retried. *)
LookupUnreachable(r) ==
  /\ pc[r] = "searching" /\ attempt[r] < MaxAttempts
  /\ Goto(r, "retrying")
  /\ UNCHANGED <<world, input, outage, parsed, attempt, lookup, ended>>

SlipRetryUncounted(r) ==
  /\ pc[r] = "retrying"
  /\ Goto(r, "searching")
  /\ UNCHANGED <<world, input, outage, parsed, attempt, lookup, ended>>

Retry(r) ==
  /\ pc[r] = "retrying"
  /\ attempt' = [attempt EXCEPT ![r] = @ + 1]
  /\ Goto(r, "searching")
  /\ UNCHANGED <<world, input, outage, parsed, lookup, ended>>

(* HTTPStatusError, TimeoutException, or ConnectError once more. *)
LookupFails(r) ==
  /\ pc[r] = "searching"
  /\ lookup' = [lookup EXCEPT ![r] = Failed]
  /\ Goto(r, "posting")
  /\ UNCHANGED <<world, input, outage, parsed, attempt, ended>>

(* Anything else: a connection lost midway, a body that is no answer. *)
LookupRaises(r) ==
  /\ pc[r] = "searching"
  /\ lookup' = [lookup EXCEPT ![r] = Failed]
  /\ End(r, Bare("error"))
  /\ UNCHANGED <<world, input, outage, parsed, attempt, copies, post, event>>

(* From the post to the answer.  The capture is not in a try. *)
Complete(r) ==
  \/ /\ event' = IF config.posthog THEN [event EXCEPT ![r] = Telemetry(r)] ELSE event
     /\ End(r, UnifiedResponse(r))
  \/ /\ config.posthog
     /\ End(r, Bare("error")) /\ UNCHANGED event

Wanted(r) == ~input[r].skip_slack /\ config.slack # "off"

Appear(r) ==
  /\ copies' = [copies EXCEPT ![r] = @ + 1]
  /\ post' = [post EXCEPT ![r] = Message(r)]

PostSkipped(r) ==
  /\ pc[r] = "posting" /\ ~Wanted(r)
  /\ Complete(r)
  /\ UNCHANGED <<world, input, outage, parsed, attempt, lookup, copies, post>>

PostAccepted(r) ==
  /\ pc[r] = "posting" /\ Wanted(r)
  /\ Appear(r) /\ Complete(r)
  /\ UNCHANGED <<world, input, outage, parsed, attempt, lookup>>

(* Slack refused, or did not answer in time and may have posted it. *)
PostFails(r) ==
  /\ pc[r] = "posting" /\ Wanted(r)
  /\ Appear(r) \/ UNCHANGED <<copies, post>>
  /\ End(r, Bare("slack_failed"))
  /\ UNCHANGED <<world, input, outage, parsed, attempt, lookup, event>>

(* Backend-Service bans or unbans. *)
SetBans(new) ==
  /\ bans' = new
  /\ always' = [r \in Requests |-> IF pc[r] \in Deciding THEN always[r] \cap new ELSE always[r]]
  /\ ever' = [r \in Requests |-> IF pc[r] \in Deciding THEN ever[r] \cup new ELSE ever[r]]
  /\ UNCHANGED <<config, webhook, pc, input, outage, parsed, attempt, lookup, ended>>

(* The process is replaced; Slack may have a post that was on its way. *)
Restart ==
  /\ webhook' = FALSE
  /\ pc' = [r \in Requests |-> IF pc[r] \in Live THEN "lost" ELSE pc[r]]
  /\ \E late \in SUBSET {r \in Requests : pc[r] = "posting" /\ Wanted(r)} :
       /\ copies' = [r \in Requests |-> IF r \in late THEN copies[r] + 1 ELSE copies[r]]
       /\ post' = [r \in Requests |-> IF r \in late THEN Message(r) ELSE post[r]]
  /\ UNCHANGED <<config, bans, always, ever, input, outage, parsed, attempt, lookup, reply, event>>

Handle(r) ==
  \/ WebhookFetched(r) \/ WebhookUnavailable(r) \/ Gate(r)
  \/ BanVerdict(r) \/ BanCheckUnavailable(r) \/ BanCheckRaises(r)
  \/ \E p \in Parsed : ParseReturns(r, p)
  \/ ParseFails(r)
  \/ \E a \in Answers : LookupReturns(r, a)
  \/ LookupUnreachable(r) \/ Retry(r) \/ LookupFails(r) \/ LookupRaises(r)
  \/ PostSkipped(r) \/ PostAccepted(r) \/ PostFails(r)

Next ==
  \/ \E r \in Requests : Handle(r) \/ \E i \in Inputs : Arrive(r, i)
  \/ \E new \in BanSets : SetBans(new)
  \/ Restart

Spec == Init /\ [][Next]_vars

(* Every call a handler awaits ends: each has a timeout. *)
Fairness == \A r \in Requests : WF_vars(Handle(r))
FairSpec == Spec /\ Fairness
-----------------------------------------------------------------------------
Found == [results : SUBSET Rows, song_not_found : BOOLEAN,
          found_on_compilation : BOOLEAN, context : Contexts]
Modes == {"none", "parsing_unavailable", "search_unavailable", "ban_check_unavailable"}
Notes == {"parsing_unavailable", "search_unavailable", "label", "results", "no_results"}
Reply == [status : {"ok", "empty", "blocked", "slack_failed", "error"},
          degraded_mode : Modes, found : Found]
Event == [name : {"request_blocked", "request_non_request", "request_completed"},
          degraded_mode : Modes, degraded_reason : BOOLEAN, ban_check_degraded : BOOLEAN]

ASSUME ResultConstants == None \notin Modes /\ None \notin Reply

TypeOK ==
  /\ config \in Configs
  /\ bans \in BanSets
  /\ webhook \in BOOLEAN
  /\ pc \in [Requests -> {"unsent", "answered", "lost"} \cup Live]
  /\ input \in [Requests -> {None} \cup Inputs]
  /\ outage \in [Requests -> BOOLEAN]
  /\ parsed \in [Requests -> {None, Failed} \cup Parsed]
  /\ attempt \in [Requests -> Nat]
  /\ lookup \in [Requests -> {None, Failed} \cup Answers]
  /\ copies \in [Requests -> Nat]
  /\ post \in [Requests -> {None} \cup [note : Notes, results : SUBSET Rows, device : BOOLEAN]]
  /\ reply \in [Requests -> {None} \cup Reply]
  /\ event \in [Requests -> {None} \cup Event]
  /\ always \in [Requests -> SUBSET Signals]
  /\ ever \in [Requests -> SUBSET Signals]

Status(r) == IF reply[r] = None THEN "none" ELSE reply[r].status
Presented(i) == {s \in Signals : \/ s = "device" /\ i.device = "valid"
                                 \/ s = "user" /\ i.user = "valid"}

(* A ban in force from the moment a request arrived keeps it out of the    *)
(* channel and away from Groq and LML, whatever else is sent along, unless *)
(* Backend-Service did not answer or did not accept the token; a strict    *)
(* deployment does as much for a known client without a usable             *)
(* fingerprint; and nobody else is turned away who was not banned at some  *)
(* moment of the check.                                                    *)
BansDecide ==
  \A r \in Requests :
    /\ parsed[r] # None /\ config.strict /\ input[r].known_client => input[r].device = "valid"
    /\ parsed[r] # None /\ config.ban_check = "on" /\ ~outage[r] /\ input[r].user # "stale"
         => Presented(input[r]) \cap always[r] = {}
    /\ Status(r) = "blocked" =>
         \/ Presented(input[r]) \cap ever[r] # {}
         \/ config.strict /\ input[r].known_client /\ input[r].device # "valid"

SaysFound(f) == f.context = "found" \/ f.found_on_compilation
SaysMissing(f) == f.context = "not_found" \/ f.song_not_found

(* What is said about the search agrees with the rows delivered: a find is *)
(* announced only over rows, and "not found" is said exactly where LML     *)
(* said it or sent rows of which none is on the shelves.  This holds of an *)
(* unfinished search too: without rows it is never turned into a verdict,  *)
(* as the comment at request.py:818-822 asks; with external rows alone it  *)
(* is, which that comment says never happens.                              *)
VerdictMatchesRows ==
  \A r \in Requests :
    Status(r) = "ok" /\ lookup[r] \in Answers =>
      /\ SaysFound(reply[r].found) => reply[r].found.results # {}
      /\ SaysMissing(reply[r].found) <=>
           SaysMissing(lookup[r]) \/ lookup[r].results = {"external"}

(* No outage is silent: the channel shows that the parse or the search is  *)
(* missing, and the event shows a ban check that was skipped even when a   *)
(* worse outage owns degraded_mode.                                        *)
OutagesAreVisible ==
  \A r \in Requests :
    /\ post[r] # None /\ (parsed[r] = Failed \/ lookup[r] = Failed)
         => post[r].note = DegradedMode(r)
    /\ event[r] # None /\ outage[r]
         => event[r].ban_check_degraded /\ event[r].degraded_mode # "none"

CauseOfError(r) ==
  \/ post[r] = None /\ parsed[r] = None /\ config.slack = "webhook_key"
  \/ /\ post[r] = None /\ parsed[r] = None /\ config.ban_check # "off"
     /\ input[r].user # "none" \/ input[r].device = "valid"
  \/ post[r] = None /\ lookup[r] = Failed /\ config.lookup
  \/ parsed[r] # None /\ config.posthog

(* A 500 has one of four causes, and only the last leaves a message in the *)
(* channel: the webhook's address could not be fetched; the ban check of   *)
(* somebody who sent an account or a usable fingerprint failed in a way    *)
(* nobody foresaw (an address that is none, against the comment at         *)
(* ban_check_client.py:98-102, a header that is not ASCII, a body that is  *)
(* no object); the search did; or the telemetry, of a request that was     *)
(* parsed.  A malformed fingerprint is none of them, whatever it comes     *)
(* with (#224).                                                            *)
ServerErrorsAreKnown ==
  \A r \in Requests : Status(r) = "error" => CauseOfError(r)

(* Every request that arrives is answered, unless the process dies.        *)
EveryRequestAnswered ==
  \A r \in Requests : pc[r] \in Live ~> pc[r] \in {"answered", "lost"}

(* docs/architecture.md:43: "When Groq or LML are unavailable the          *)
(* listener's message still reaches Slack", "The response is 200".         *)
LookupOutageStillPosts ==
  \A r \in Requests :
    Status(r) = "error" /\ ~config.posthog /\ Wanted(r) /\ lookup[r] = Failed => copies[r] = 1

(* The whole handler keeps the promise of ListenerRequest.                 *)
Stage(r) == IF pc[r] = "unsent" THEN "unsent" ELSE IF pc[r] \in Live THEN "live" ELSE "ended"
Promise == INSTANCE ListenerRequest WITH
  stage <- [r \in Requests |-> Stage(r)],
  wanted <- [r \in Requests |-> input[r] # None /\ Wanted(r)],
  status <- [r \in Requests |-> Status(r)]
KeepsPromise == Promise!Spec
=============================================================================
