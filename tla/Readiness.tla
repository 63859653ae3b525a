------------------------------ MODULE Readiness ------------------------------
(***************************************************************************)
(* GET /health/ready (routers/health.py) in one process of the service,    *)
(* with what it shares with requests: the webhook's address, which only a  *)
(* request resolves (get_slack_webhook_url of core/dependencies.py) and    *)
(* the process keeps until it is replaced, while Railway may rotate it.    *)
(* The smoke test of a deployment reads the report.                        *)
(***************************************************************************)
EXTENDS Naturals

CONSTANTS
  Calls,         \* requests that may resolve the address at the same time
  Configs,       \* deployments considered: a subset of Config
  MaxRotations,  \* bound: rotations of the webhook's key
  None           \* no address, no report

(* Settings.  bot_config: SLACK_BOT_TOKEN and SLACK_CHANNEL_ID are set;    *)
(* the others say whether the setting of that name is on, or set.          *)
Config == [enable_slack_integration : BOOLEAN, slack_use_bot_token : BOOLEAN,
           bot_config : BOOLEAN, slack_webhook_url : BOOLEAN,
           groq_api_key : BOOLEAN, lookup_service_url : BOOLEAN]

(* An address is the one of the settings, or that of the k-th key.         *)
FromSettings == 0
Keys == 1 .. MaxRotations + 1
Addresses == {FromSettings} \union Keys

Checks == {"groq", "lookup", "slack"}
Required == {"lookup"}
Results == {"ok", "unavailable", "timeout"}
Reports == [status : {"healthy", "degraded", "unhealthy"}, services : [Checks -> Results]]

ASSUME ReadinessAssumption ==
  /\ Configs \subseteq Config /\ MaxRotations \in Nat
  /\ None \notin Addresses /\ None \notin Reports

VARIABLES
  config,    \* the deployment
  key,       \* the key Railway serves and Slack accepts
  revoked,   \* Slack no longer accepts the bot token
  cache,     \* core/dependencies._slack_webhook_url
  call,      \* [Calls -> what a request's resolution waits for]
  fetched,   \* [Calls -> the address it is about to store, or None]
  check,     \* [Checks -> the state of the probe]
  target,    \* the address the Slack probe posts to, or None
  report,    \* the last report of this process, or None
  resolved,  \* history: a request has resolved the transport in this process
  known,     \* history: so it was when the last report was asked for
  sendable,  \* history: a request would have reached Slack then
  trouble    \* history: since then the key was rotated or Slack did not answer

requests == <<cache, call, fetched, resolved>>
probes == <<check, target, report, known, sendable>>
outside == <<config, key, revoked>>
vars == <<outside, requests, probes, trouble>>

Idle == [c \in Checks |-> "none"]

Init ==
  /\ config \in Configs /\ key = 1 /\ revoked = FALSE
  /\ cache = None /\ call = [c \in Calls |-> "none"] /\ fetched = [c \in Calls |-> None]
  /\ resolved = FALSE
  /\ check = Idle /\ target = None /\ report = None
  /\ known = FALSE /\ sendable = FALSE /\ trouble = FALSE

Accepted(a) == a \in {FromSettings, key}

----------------------------------------------------------------------------
(* get_slack_webhook_url, as a dependency of a request.                    *)

UsesWebhook == config.enable_slack_integration /\ ~config.slack_use_bot_token

(* What a resolution without a fetch leaves in the cache.                  *)
Stored == IF UsesWebhook /\ cache = None /\ config.slack_webhook_url
          THEN FromSettings ELSE cache

SlipResolve(c) ==
  /\ call[c] = "none"
  /\ IF UsesWebhook /\ ~config.slack_webhook_url
     THEN call' = [call EXCEPT ![c] = "fetching"] /\ UNCHANGED <<cache, resolved>>
     ELSE cache' = Stored /\ resolved' = TRUE /\ UNCHANGED call
  /\ UNCHANGED <<outside, fetched, probes, trouble>>

(* Everything but the fetch; in the cases before it nothing is stored.     *)
Resolve(c) ==
  /\ call[c] = "none"
  /\ IF UsesWebhook /\ cache = None /\ ~config.slack_webhook_url
     THEN call' = [call EXCEPT ![c] = "fetching"] /\ UNCHANGED <<cache, resolved>>
     ELSE cache' = Stored /\ resolved' = TRUE /\ UNCHANGED call
  /\ UNCHANGED <<outside, fetched, probes, trouble>>

(* The endpoint of the key answers with the key of that moment.            *)
Serve(c) ==
  /\ call[c] = "fetching"
  /\ call' = [call EXCEPT ![c] = "fetched"]
  /\ fetched' = [fetched EXCEPT ![c] = key]
  /\ UNCHANGED <<outside, cache, resolved, probes, trouble>>

(* The answer arrives; whoever is last overwrites.                         *)
Store(c) ==
  /\ call[c] = "fetched"
  /\ cache' = fetched[c] /\ resolved' = TRUE
  /\ call' = [call EXCEPT ![c] = "none"] /\ fetched' = [fetched EXCEPT ![c] = None]
  /\ UNCHANGED <<outside, probes, trouble>>

(* ServiceInitializationError.                                             *)
FetchFails(c) ==
  /\ call[c] # "none"
  /\ call' = [call EXCEPT ![c] = "none"] /\ fetched' = [fetched EXCEPT ![c] = None]
  /\ UNCHANGED <<outside, cache, resolved, probes, trouble>>

----------------------------------------------------------------------------
(* The probes.                                                             *)

(* Whether Slack would take the message of a request that arrives now.     *)
Sendable ==
  /\ config.enable_slack_integration
  /\ config.slack_use_bot_token => config.bot_config /\ ~revoked
  /\ UsesWebhook /\ cache # None => Accepted(cache)

SlipProbeSlack == IF cache = None THEN "unavailable" ELSE "asked"

(* probe_slack up to its call: the bot transport is not called.            *)
ProbeSlack ==
  IF config.slack_use_bot_token
  THEN IF config.enable_slack_integration /\ config.bot_config THEN "ok" ELSE "unavailable"
  ELSE IF cache = None THEN "unavailable" ELSE "asked"

(* The three probes start together.                                        *)
Ask ==
  /\ check = Idle
  /\ check' = [c \in Checks |->
       IF c = "groq" THEN IF config.groq_api_key THEN "asked" ELSE "unavailable"
       ELSE IF c = "lookup" THEN IF config.lookup_service_url THEN "asked" ELSE "unavailable"
       ELSE ProbeSlack]
  /\ target' = IF check'["slack"] = "asked" THEN cache ELSE None
  /\ known' = resolved /\ sendable' = Sendable /\ trouble' = FALSE
  /\ report' = None
  /\ UNCHANGED <<outside, requests>>

(* Groq lists the pinned model, or LML answers 200, or something else      *)
(* happens, or nothing in time.                                            *)
Answer(c, result) ==
  /\ c # "slack" /\ check[c] = "asked"
  /\ check' = [check EXCEPT ![c] = result]
  /\ UNCHANGED <<outside, requests, target, report, known, sendable, trouble>>

(* Slack refuses the empty message of an address it knows, with a 400 that *)
(* counts as ok, and any of another; or Slack is in trouble.               *)
AnswerSlack ==
  /\ check["slack"] = "asked"
  /\ \E result \in Results :
       /\ result = "ok" => Accepted(target)
       /\ check' = [check EXCEPT !["slack"] = result]
       /\ trouble' = (trouble \/ (result # "ok" /\ Accepted(target)) \/ result = "timeout")
  /\ target' = None
  /\ UNCHANGED <<outside, requests, report, known, sendable>>

(* The shared router: a required check that fails makes it 503.            *)
Status(services) ==
  IF \E c \in Required : services[c] # "ok" THEN "unhealthy"
  ELSE IF \E c \in Checks : services[c] # "ok" THEN "degraded" ELSE "healthy"

SlipRespond ==
  /\ \E c \in Required : check[c] \in Results
  /\ report' = [status |-> Status(check), services |-> check]
  /\ check' = Idle
  /\ UNCHANGED <<outside, requests, target, known, sendable, trouble>>

(* All three have answered.                                                *)
Respond ==
  /\ \A c \in Checks : check[c] \in Results
  /\ report' = [status |-> Status(check), services |-> check]
  /\ check' = Idle
  /\ UNCHANGED <<outside, requests, target, known, sendable, trouble>>

SlipSmokePasses(r) == r.status = "healthy"

(* The deployment's smoke test: curl -f, then the services.                *)
SmokePasses(r) ==
  /\ r.status # "unhealthy"
  /\ r.services["groq"] = "ok"
  /\ \A c \in {"lookup", "slack"} : r.services[c] \in {"ok", "unavailable"}

----------------------------------------------------------------------------
(* Railway.                                                                *)

Rotate ==
  /\ key <= MaxRotations
  /\ key' = key + 1 /\ trouble' = TRUE
  /\ UNCHANGED <<config, revoked, requests, probes>>

(* The app is reinstalled, or its token revoked. *)
Revoke ==
  /\ ~revoked /\ revoked' = TRUE
  /\ UNCHANGED <<config, key, requests, probes, trouble>>

(* The process is replaced.                                                *)
Restart ==
  /\ cache' = None
  /\ call' = [c \in Calls |-> "none"] /\ fetched' = [c \in Calls |-> None]
  /\ resolved' = FALSE
  /\ check' = Idle /\ target' = None /\ report' = None
  /\ known' = FALSE /\ sendable' = FALSE /\ trouble' = FALSE
  /\ UNCHANGED outside

Requesting == \E c \in Calls : Resolve(c) \/ Serve(c) \/ Store(c) \/ FetchFails(c)
Probing == Ask \/ (\E c \in Checks, result \in Results : Answer(c, result))
           \/ AnswerSlack \/ Respond
Next == Requesting \/ Probing \/ Rotate \/ Revoke \/ Restart

Spec == Init /\ [][Next]_vars

----------------------------------------------------------------------------
(* Properties.                                                             *)

TypeOK ==
  /\ config \in Configs /\ key \in Keys /\ cache \in Addresses \union {None}
  /\ call \in [Calls -> {"none", "fetching", "fetched"}]
  /\ fetched \in [Calls -> Keys \union {None}]
  /\ check \in [Checks -> Results \union {"none", "asked"}]
  /\ target \in Addresses \union {None} /\ report \in Reports \union {None}
  /\ revoked \in BOOLEAN /\ resolved \in BOOLEAN
  /\ known \in BOOLEAN /\ sendable \in BOOLEAN /\ trouble \in BOOLEAN

(* The bot transport's answer: its settings are complete. *)
BotConfigured ==
  config.slack_use_bot_token /\ config.enable_slack_integration /\ config.bot_config

(* A report that Slack is unavailable is what requests meet, on either     *)
(* transport: a message would not have got through, unless the process had *)
(* not been told the address, or Slack or the key failed in between.  One  *)
(* that Slack is ok is so only for the webhook; for the bot it says that   *)
(* the settings are complete, and nothing of the token (health.py:125).    *)
SlackReportIsFair ==
  report # None =>
    /\ report.services["slack"] = "ok" => sendable \/ BotConfigured
    /\ (/\ report.services["slack"] = "unavailable" /\ ~trouble
        /\ known \/ config.slack_use_bot_token)
         => ~sendable

(* A deployment's smoke test fails for Groq or LML, or because a process   *)
(* that had an address got no answer of Slack; never because the cache of  *)
(* a new process is empty.                                                 *)
SmokeBlamesOutages ==
  report # None /\ ~SmokePasses(report) =>
    \/ report.services["groq"] # "ok" \/ report.services["lookup"] # "ok"
    \/ report.services["slack"] = "timeout" /\ known

(* A process that has an address fetches no other: it changes only to the  *)
(* answer of a fetch that was under way already when the first was stored. *)
(* That one may be the older, and then stays until the process is replaced *)
(* (the fetches of two first requests across a rotation); nothing else     *)
(* makes a process lose an address, or repairs one that was rotated away.  *)
AddressSettles ==
  [][cache # None =>
       /\ cache' \in {cache, None} \union {fetched[c] : c \in Calls}
       /\ \A c \in Calls : call'[c] # "none" => call[c] # "none"
       /\ cache' = None => \A c \in Calls : call'[c] = "none"]_vars
=============================================================================
