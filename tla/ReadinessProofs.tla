--------------------------- MODULE ReadinessProofs --------------------------
(***************************************************************************)
(* Proofs about Readiness, for any deployments, any number of concurrent   *)
(* requests and any number of rotations.                                   *)
(***************************************************************************)
EXTENDS Readiness, TLAPS

(* The cache is filled exactly by the requests that use the webhook, with  *)
(* a key that has been served.                                             *)
CacheIsResolved ==
  /\ cache # None => resolved /\ UsesWebhook
  /\ resolved /\ UsesWebhook => cache # None
  /\ cache \in Keys => cache <= key

FetchedIsServed == \A c \in Calls : fetched[c] # None => fetched[c] <= key
FetchedIsAKey ==
  \A c \in Calls : /\ call[c] = "fetched" => fetched[c] \in Keys
                   /\ call[c] # "none" => UsesWebhook

(* A probe that waits for Slack asked about the address of a request's     *)
(* resolution; that the address is still accepted says whether a request   *)
(* would have got through, unless something happened since.                *)
ProbeIsFair ==
  check["slack"] = "asked" =>
    /\ known /\ target \in Addresses /\ target <= key
    /\ Accepted(target) => sendable
    /\ sendable /\ ~trouble => Accepted(target)

(* What an answer of the Slack probe means. *)
Fair(answer) ==
  /\ answer = "ok" => sendable \/ BotConfigured
  /\ (answer = "unavailable" /\ ~trouble /\ (known \/ config.slack_use_bot_token)) => ~sendable
  /\ answer = "timeout" => known

AnswersAreFair ==
  /\ Fair(check["slack"])
  /\ report # None => /\ Fair(report.services["slack"])
                      /\ report.status = Status(report.services)

Inv ==
  /\ TypeOK /\ CacheIsResolved /\ FetchedIsServed /\ FetchedIsAKey
  /\ ProbeIsFair /\ AnswersAreFair
-----------------------------------------------------------------------------
LEMMA StatusType ==
  ASSUME NEW s PROVE Status(s) \in {"healthy", "degraded", "unhealthy"}
BY DEF Status

(* What a step that leaves the probes alone needs to keep the invariant.   *)
LEMMA RequestsKeep ==
  ASSUME Inv, UNCHANGED <<config, key, revoked, probes, trouble>>,
         cache' \in Addresses \union {None}, resolved' \in BOOLEAN,
         call' \in [Calls -> {"none", "fetching", "fetched"}],
         fetched' \in [Calls -> Keys \union {None}],
         cache' # None => resolved' /\ UsesWebhook, resolved' /\ UsesWebhook => cache' # None,
         cache' \in Keys => cache' <= key,
         FetchedIsServed', FetchedIsAKey'
  PROVE  Inv'
<1>1. TypeOK'
  BY DEF Inv, TypeOK, probes
<1>2. CacheIsResolved'
  BY DEF Inv, CacheIsResolved, UsesWebhook
<1>3. ProbeIsFair' /\ AnswersAreFair'
  BY DEF Inv, ProbeIsFair, AnswersAreFair, Fair, BotConfigured, Status, Accepted, probes
<1> QED
  BY <1>1, <1>2, <1>3 DEF Inv

LEMMA ResolveKeeps == ASSUME Inv, NEW c \in Calls, Resolve(c) PROVE Inv'
<1>1. UNCHANGED <<config, key, revoked, probes, trouble, fetched>>
  BY DEF Resolve, outside
<1>2. CASE UsesWebhook /\ cache = None /\ ~config.slack_webhook_url
  <2>1. call' = [call EXCEPT ![c] = "fetching"] /\ UNCHANGED <<cache, resolved>>
    BY <1>2 DEF Resolve
  <2>2. call' \in [Calls -> {"none", "fetching", "fetched"}]
        /\ \A d \in Calls : /\ call'[d] = "fetched" => call[d] = "fetched"
                            /\ call'[d] # "none" => call[d] # "none" \/ d = c
    BY <2>1 DEF Inv, TypeOK
  <2>3. FetchedIsServed' /\ FetchedIsAKey'
    BY <1>1, <1>2, <2>2 DEF Inv, FetchedIsServed, FetchedIsAKey, UsesWebhook
  <2> QED
    BY <1>1, <2>1, <2>2, <2>3, RequestsKeep DEF Inv, TypeOK, CacheIsResolved
<1>3. CASE ~(UsesWebhook /\ cache = None /\ ~config.slack_webhook_url)
  <2>1. cache' = Stored /\ resolved' = TRUE /\ call' = call
    BY <1>3 DEF Resolve
  <2>2. FetchedIsServed' /\ FetchedIsAKey'
    BY <1>1, <2>1 DEF Inv, FetchedIsServed, FetchedIsAKey, UsesWebhook
  <2>3. /\ Stored \in Addresses \union {None} /\ (UsesWebhook <=> Stored # None)
        /\ Stored \in Keys => Stored <= key
    BY <1>3, ReadinessAssumption DEF Stored, Addresses, FromSettings, Keys, Inv, TypeOK, CacheIsResolved
  <2> QED
    BY <1>1, <2>1, <2>2, <2>3, RequestsKeep DEF Inv, TypeOK
<1> QED
  BY <1>2, <1>3

LEMMA ServeKeeps == ASSUME Inv, NEW c \in Calls, Serve(c) PROVE Inv'
<1>1. /\ UNCHANGED <<config, key, revoked, probes, trouble, cache, resolved>>
      /\ call' = [call EXCEPT ![c] = "fetched"] /\ fetched' = [fetched EXCEPT ![c] = key]
  BY DEF Serve, outside
<1>2. /\ call' \in [Calls -> {"none", "fetching", "fetched"}]
      /\ fetched' \in [Calls -> Keys \union {None}]
      /\ \A d \in Calls : /\ call'[d] = IF d = c THEN "fetched" ELSE call[d]
                          /\ fetched'[d] = IF d = c THEN key ELSE fetched[d]
  BY <1>1 DEF Inv, TypeOK
<1>3. FetchedIsServed' /\ FetchedIsAKey'
  <2>1. call[c] = "fetching"
    BY DEF Serve
  <2>2. key <= key
    BY DEF Inv, TypeOK, Keys
  <2> QED
    BY <1>1, <1>2, <2>1, <2>2 DEF Inv, TypeOK, FetchedIsServed, FetchedIsAKey, CacheIsResolved, UsesWebhook
<1> QED
  BY <1>1, <1>2, <1>3, RequestsKeep DEF Inv, TypeOK, CacheIsResolved

LEMMA StoreKeeps == ASSUME Inv, NEW c \in Calls, Store(c) \/ FetchFails(c) PROVE Inv'
<1>1. /\ UNCHANGED <<config, key, revoked, probes, trouble>>
      /\ call' = [call EXCEPT ![c] = "none"] /\ fetched' = [fetched EXCEPT ![c] = None]
      /\ \/ call[c] = "fetched" /\ cache' = fetched[c] /\ resolved' = TRUE
         \/ UNCHANGED <<cache, resolved>>
  BY DEF Store, FetchFails, outside
<1>2. /\ call' \in [Calls -> {"none", "fetching", "fetched"}]
      /\ fetched' \in [Calls -> Keys \union {None}]
      /\ \A d \in Calls : /\ call'[d] = IF d = c THEN "none" ELSE call[d]
                          /\ fetched'[d] = IF d = c THEN None ELSE fetched[d]
  BY <1>1 DEF Inv, TypeOK
<1>3. FetchedIsServed' /\ FetchedIsAKey'
  BY <1>1, <1>2 DEF Inv, FetchedIsServed, FetchedIsAKey, UsesWebhook
<1>4. call[c] = "fetched" => fetched[c] \in Keys /\ fetched[c] # None /\ fetched[c] <= key
                            /\ fetched[c] \in Addresses /\ UsesWebhook
  <2> SUFFICES ASSUME call[c] = "fetched"
               PROVE  fetched[c] \in Keys /\ fetched[c] # None /\ fetched[c] <= key /\ UsesWebhook
    BY DEF Addresses
  <2>1. fetched[c] \in Keys /\ UsesWebhook
    BY DEF Inv, FetchedIsAKey, UsesWebhook
  <2>2. fetched[c] # None
    BY <2>1, ReadinessAssumption DEF Addresses
  <2> QED
    BY <2>1, <2>2 DEF Inv, FetchedIsServed
<1>5. CASE call[c] = "fetched" /\ cache' = fetched[c] /\ resolved' = TRUE
  <2>1. /\ cache' \in Addresses \union {None} /\ resolved' \in BOOLEAN /\ cache' <= key
        /\ cache' # None /\ resolved' /\ UsesWebhook
    BY <1>4, <1>5
  <2> QED
    BY <1>1, <1>2, <1>3, <2>1, RequestsKeep
<1>6. CASE UNCHANGED <<cache, resolved>>
  BY <1>1, <1>2, <1>3, <1>6, RequestsKeep DEF Inv, TypeOK, CacheIsResolved
<1> QED
  BY <1>1, <1>5, <1>6

(* The Slack probe's own answers are fair, and so is what it waits for. *)
LEMMA AskKeeps == ASSUME Inv, Ask PROVE Inv'
<1>1. /\ UNCHANGED <<config, key, revoked, cache, call, fetched, resolved>>
      /\ known' = resolved /\ sendable' = Sendable /\ trouble' = FALSE /\ report' = None
  BY DEF Ask, requests, outside
<1>2. /\ check' \in [Checks -> Results \union {"none", "asked"}]
      /\ check'["slack"] = ProbeSlack
      /\ target' = IF ProbeSlack = "asked" THEN cache ELSE None
  BY DEF Ask, Checks, Results, ProbeSlack
<1>3. TypeOK'
  <2>1. sendable' \in BOOLEAN
    BY <1>1 DEF Sendable
  <2> QED
    BY <1>1, <1>2, <2>1 DEF Inv, TypeOK
<1>4. CacheIsResolved' /\ FetchedIsServed' /\ FetchedIsAKey'
  BY <1>1 DEF Inv, CacheIsResolved, FetchedIsServed, FetchedIsAKey, UsesWebhook
<1>5. ProbeIsFair'
  <2> SUFFICES ASSUME check'["slack"] = "asked"
               PROVE  /\ resolved /\ cache \in Addresses /\ cache <= key
                      /\ Accepted(cache) <=> Sendable
    BY <1>1, <1>2 DEF ProbeIsFair, Accepted
  <2>1. ~config.slack_use_bot_token /\ cache # None
    BY <1>2 DEF ProbeSlack
  <2>2. resolved /\ cache \in Addresses
    BY <2>1 DEF Inv, TypeOK, CacheIsResolved
  <2>3. cache <= key
    BY <2>2, ReadinessAssumption DEF Inv, TypeOK, CacheIsResolved, Addresses, FromSettings, Keys
  <2>4. Accepted(cache) => Sendable
    BY <2>1 DEF Sendable, UsesWebhook, Inv, CacheIsResolved
  <2> QED
    BY <2>1, <2>2, <2>3, <2>4 DEF Sendable, UsesWebhook
<1>6. AnswersAreFair'
  <2>1. ProbeSlack = "ok" => BotConfigured
    BY DEF ProbeSlack, BotConfigured
  <2>2. ProbeSlack = "unavailable" /\ (resolved \/ config.slack_use_bot_token) => ~Sendable
    BY DEF ProbeSlack, Sendable, UsesWebhook, Inv, CacheIsResolved
  <2>3. ProbeSlack # "timeout"
    BY DEF ProbeSlack
  <2> QED
    BY <1>1, <1>2, <2>1, <2>2, <2>3 DEF AnswersAreFair, Fair, BotConfigured
<1> QED
  BY <1>3, <1>4, <1>5, <1>6 DEF Inv

LEMMA AnswerKeeps ==
  ASSUME Inv, NEW c \in Checks, NEW result \in Results, Answer(c, result) PROVE Inv'
<1>1. /\ UNCHANGED <<config, key, revoked, cache, call, fetched, resolved,
                     target, report, known, sendable, trouble>>
      /\ check' \in [Checks -> Results \union {"none", "asked"}]
      /\ check'["slack"] = check["slack"]
  BY DEF Answer, requests, Inv, TypeOK, Checks, outside
<1>2. TypeOK'
  BY <1>1 DEF Inv, TypeOK
<1> QED
  BY <1>1, <1>2 DEF Inv, CacheIsResolved, UsesWebhook, FetchedIsServed, FetchedIsAKey,
     ProbeIsFair, AnswersAreFair, Fair, BotConfigured, Status, Accepted

LEMMA AnswerSlackKeeps == ASSUME Inv, AnswerSlack PROVE Inv'
<1>1. PICK result \in Results :
       /\ result = "ok" => Accepted(target)
       /\ check' = [check EXCEPT !["slack"] = result]
       /\ trouble' = (trouble \/ (result # "ok" /\ Accepted(target)) \/ result = "timeout")
  BY DEF AnswerSlack
<1>2. /\ UNCHANGED <<config, key, revoked, cache, call, fetched, resolved, report, known, sendable>>
      /\ check["slack"] = "asked" /\ target' = None
  BY DEF AnswerSlack, requests, outside
<1>3. check' \in [Checks -> Results \union {"none", "asked"}] /\ check'["slack"] = result
  BY <1>1 DEF Inv, TypeOK, Checks
<1>4. trouble' \in BOOLEAN /\ (trouble => trouble')
  BY <1>1 DEF Inv, TypeOK
<1>5. TypeOK'
  BY <1>2, <1>3, <1>4 DEF Inv, TypeOK
<1>6. CacheIsResolved' /\ FetchedIsServed' /\ FetchedIsAKey'
  BY <1>2 DEF Inv, CacheIsResolved, UsesWebhook, FetchedIsServed, FetchedIsAKey
<1>7. ProbeIsFair'
  BY <1>3 DEF ProbeIsFair, Results
<1>8. Fair(check["slack"])'
  <2>1. known /\ (Accepted(target) => sendable) /\ (sendable /\ ~trouble => Accepted(target))
    BY <1>2 DEF Inv, ProbeIsFair
  <2>2. result = "unavailable" /\ ~trouble' => ~sendable
    BY <1>1, <1>4, <2>1
  <2> QED
    BY <1>1, <1>2, <1>3, <2>1, <2>2 DEF Fair, BotConfigured
<1>9. (report # None => /\ Fair(report.services["slack"])
                        /\ report.status = Status(report.services))'
  BY <1>2, <1>4 DEF Inv, AnswersAreFair, Fair, BotConfigured, Status
<1> QED
  BY <1>5, <1>6, <1>7, <1>8, <1>9 DEF Inv, AnswersAreFair

LEMMA RespondKeeps == ASSUME Inv, Respond PROVE Inv'
<1>1. /\ UNCHANGED <<config, key, revoked, cache, call, fetched, resolved,
                     target, known, sendable, trouble>>
      /\ check' = Idle /\ \A c \in Checks : check[c] \in Results
      /\ report' = [status |-> Status(check), services |-> check]
  BY DEF Respond, requests, outside
<1>2. report' \in Reports /\ report'.services = check /\ report'.status = Status(check)
  <2>1. check \in [Checks -> Results]
    BY <1>1 DEF Inv, TypeOK
  <2> QED
    BY <1>1, <2>1, StatusType DEF Reports
<1>3. TypeOK'
  BY <1>1, <1>2 DEF Inv, TypeOK, Idle
<1>4. CacheIsResolved' /\ FetchedIsServed' /\ FetchedIsAKey'
  BY <1>1 DEF Inv, CacheIsResolved, UsesWebhook, FetchedIsServed, FetchedIsAKey
<1>5. check'["slack"] = "none"
  BY <1>1 DEF Idle, Checks
<1>6. ProbeIsFair' /\ AnswersAreFair'
  BY <1>1, <1>2, <1>5 DEF Inv, ProbeIsFair, AnswersAreFair, Fair, BotConfigured, Status
<1> QED
  BY <1>3, <1>4, <1>6 DEF Inv

LEMMA RotateKeeps == ASSUME Inv, Rotate PROVE Inv'
<1>1. /\ UNCHANGED <<config, revoked, cache, call, fetched, resolved, check, target, report, known, sendable>>
      /\ key <= MaxRotations /\ key' = key + 1 /\ trouble' = TRUE
  BY DEF Rotate, probes, requests
<1>2. key \in Nat /\ key' \in Keys /\ key + 1 \in Keys
  BY <1>1, ReadinessAssumption DEF Inv, TypeOK, Keys
<1>3. TypeOK'
  BY <1>1, <1>2 DEF Inv, TypeOK
<1>4. CacheIsResolved' /\ FetchedIsServed' /\ FetchedIsAKey'
  <2>1. \A c \in Calls : fetched[c] # None => fetched[c] \in Nat
    BY DEF Inv, TypeOK, Keys
  <2>2. CacheIsResolved'
    BY <1>1, <1>2 DEF Inv, CacheIsResolved, UsesWebhook, Keys
  <2>3. FetchedIsServed'
    BY <1>1, <1>2, <2>1 DEF Inv, FetchedIsServed
  <2> QED
    BY <1>1, <2>2, <2>3 DEF Inv, UsesWebhook, FetchedIsAKey
<1>5. ProbeIsFair'
  <2> SUFFICES ASSUME check["slack"] = "asked"
               PROVE  known /\ target \in Addresses /\ target <= key' /\ (Accepted(target)' => sendable)
    BY <1>1 DEF ProbeIsFair
  <2>1. known /\ target \in Addresses /\ target <= key /\ (Accepted(target) => sendable)
    BY DEF Inv, ProbeIsFair
  <2>2. target \in Nat
    BY <2>1, ReadinessAssumption DEF Addresses, FromSettings, Keys
  <2>3. target # key'
    BY <1>1, <1>2, <2>1, <2>2
  <2> QED
    BY <1>1, <1>2, <2>1, <2>2, <2>3 DEF Accepted
<1>6. AnswersAreFair'
  BY <1>1 DEF Inv, AnswersAreFair, Fair, BotConfigured, Status
<1> QED
  BY <1>3, <1>4, <1>5, <1>6 DEF Inv

LEMMA RevokeKeeps == ASSUME Inv, Revoke PROVE Inv'
<1>1. /\ UNCHANGED <<config, key, cache, call, fetched, resolved, check, target, report,
                     known, sendable, trouble>>
      /\ revoked' = TRUE
  BY DEF Revoke, probes, requests
<1> QED
  BY <1>1 DEF Inv, TypeOK, CacheIsResolved, UsesWebhook, FetchedIsServed, FetchedIsAKey,
     ProbeIsFair, AnswersAreFair, Fair, BotConfigured, Status, Accepted

LEMMA RestartKeeps == ASSUME Inv, Restart PROVE Inv'
<1>1. /\ UNCHANGED <<config, key, revoked>> /\ cache' = None /\ resolved' = FALSE
      /\ call' = [c \in Calls |-> "none"] /\ fetched' = [c \in Calls |-> None]
      /\ check' = Idle /\ target' = None /\ report' = None
      /\ known' = FALSE /\ sendable' = FALSE /\ trouble' = FALSE
  BY DEF Restart, outside
<1>2. TypeOK'
  BY <1>1 DEF Inv, TypeOK, Idle
<1>3. CacheIsResolved'
  BY <1>1, ReadinessAssumption DEF Inv, TypeOK, CacheIsResolved, Keys, Addresses
<1>4. FetchedIsServed' /\ FetchedIsAKey'
  BY <1>1 DEF FetchedIsServed, FetchedIsAKey
<1>5. check'["slack"] = "none"
  BY <1>1 DEF Idle, Checks
<1>6. ProbeIsFair' /\ AnswersAreFair'
  BY <1>1, <1>5 DEF ProbeIsFair, AnswersAreFair, Fair, BotConfigured
<1> QED
  BY <1>2, <1>3, <1>4, <1>6 DEF Inv

LEMMA Initially == ASSUME Init PROVE Inv
<1>1. check["slack"] = "none"
  BY DEF Init, Idle, Checks
<1>2. TypeOK
  <2>1. 1 \in Keys
    BY ReadinessAssumption DEF Keys
  <2>2. /\ call \in [Calls -> {"none", "fetching", "fetched"}]
        /\ fetched \in [Calls -> Keys \union {None}]
        /\ check \in [Checks -> Results \union {"none", "asked"}]
    BY DEF Init, Idle
  <2> QED
    BY <2>1, <2>2 DEF Init, TypeOK
<1>3. CacheIsResolved
  BY ReadinessAssumption DEF Init, CacheIsResolved, Keys, Addresses
<1> QED
  BY <1>1, <1>2, <1>3 DEF Init, Inv, FetchedIsServed, FetchedIsAKey, ProbeIsFair, AnswersAreFair, Fair, BotConfigured

LEMMA StepKeeps == ASSUME Inv, [Next]_vars PROVE Inv'
<1>1. CASE Next
  <2>1. CASE Requesting
    BY <2>1, ResolveKeeps, ServeKeeps, StoreKeeps, Zenon DEF Requesting
  <2>2. CASE Probing
    BY <2>2, AskKeeps, AnswerKeeps, AnswerSlackKeeps, RespondKeeps, Zenon DEF Probing
  <2> QED
    BY <1>1, <2>1, <2>2, RotateKeeps, RevokeKeeps, RestartKeeps, Zenon DEF Next
<1>2. CASE UNCHANGED vars
  BY <1>2 DEF vars, outside, requests, probes, Inv, TypeOK, CacheIsResolved, UsesWebhook, FetchedIsServed,
     FetchedIsAKey, ProbeIsFair, AnswersAreFair, Fair, BotConfigured, Status, Accepted
<1> QED
  BY <1>1, <1>2
-----------------------------------------------------------------------------
(* The inductive invariant.  A report is fair because every single answer  *)
(* is, against what was true when it was asked for.                        *)
THEOREM InvCorrect == Spec => []Inv
BY Initially, StepKeeps, PTL DEF Spec

(* Every variable keeps its type. *)
THEOREM TypeCorrect == Spec => []TypeOK
<1>1. Inv => TypeOK
  BY DEF Inv
<1> QED
  BY <1>1, InvCorrect, PTL

(* SlackReportIsFair: a report says of Slack what requests meet, or, of    *)
(* the bot transport, that its settings are complete.                      *)
THEOREM ReportCorrect == Spec => []SlackReportIsFair
<1>1. Inv => SlackReportIsFair
  BY DEF Inv, AnswersAreFair, Fair, BotConfigured, SlackReportIsFair
<1> QED
  BY <1>1, InvCorrect, PTL

(* A smoke test never fails for a cold cache. *)
THEOREM SmokeCorrect == Spec => []SmokeBlamesOutages
<1>1. Inv => SmokeBlamesOutages
  <2> SUFFICES ASSUME Inv, report # None, ~SmokePasses(report),
                      report.services["groq"] = "ok", report.services["lookup"] = "ok"
               PROVE  report.services["slack"] = "timeout" /\ known
    BY DEF SmokeBlamesOutages
  <2>1. report \in Reports
    BY DEF Inv, TypeOK
  <2>2. report.status # "unhealthy"
    BY DEF Inv, AnswersAreFair, Status, Required
  <2>3. report.services["slack"] \in Results
    BY <2>1 DEF Reports, Checks
  <2> QED
    BY <2>2, <2>3 DEF SmokePasses, Results, Inv, AnswersAreFair, Fair, BotConfigured
<1> QED
  BY <1>1, InvCorrect, PTL

(* What a step does to an address the process has.                         *)
Settles ==
  cache # None =>
    /\ cache' \in {cache, None} \union {fetched[c] : c \in Calls}
    /\ \A c \in Calls : call'[c] # "none" => call[c] # "none"
    /\ cache' = None => \A c \in Calls : call'[c] = "none"

(* AddressSettles: an address changes only to one whose fetch was under    *)
(* way when the first was stored.                                          *)
THEOREM SettleCorrect == Spec => AddressSettles
<1>1. ASSUME Inv, [Next]_vars PROVE Settles
  <2> SUFFICES ASSUME cache # None PROVE Settles
    BY DEF Settles
  <2>1. ASSUME NEW c \in Calls, Resolve(c) PROVE Settles
    <3>1. cache' = cache /\ call' = call
      BY <2>1 DEF Resolve, Stored
    <3> QED
      BY <3>1 DEF Settles
  <2>2. ASSUME NEW c \in Calls, Serve(c) PROVE Settles
    BY <2>2 DEF Serve, Settles, Inv, TypeOK
  <2>3. ASSUME NEW c \in Calls, Store(c) \/ FetchFails(c) PROVE Settles
    <3>1. \A d \in Calls : call'[d] = IF d = c THEN "none" ELSE call[d]
      <4>1. call' = [call EXCEPT ![c] = "none"]
        BY <2>3 DEF Store, FetchFails
      <4> QED
        BY <1>1, <4>1 DEF Inv, TypeOK
    <3>2. cache' = cache \/ (call[c] = "fetched" /\ cache' = fetched[c])
      BY <2>3 DEF Store, FetchFails
    <3>3. call[c] = "fetched" => fetched[c] # None
      <4>1. call[c] = "fetched" => fetched[c] \in Keys
        BY <1>1 DEF Inv, FetchedIsAKey
      <4> QED
        BY <4>1, ReadinessAssumption DEF Addresses
    <3> QED
      BY <3>1, <3>2, <3>3 DEF Settles
  <2>4. CASE Probing \/ Rotate \/ Revoke \/ UNCHANGED vars
    <3>1. cache' = cache /\ call' = call
      BY <2>4 DEF Probing, Ask, Answer, AnswerSlack, Respond, Rotate, Revoke, vars, requests
    <3> QED
      BY <3>1 DEF Settles
  <2>5. CASE Restart
    BY <2>5 DEF Restart, Settles
  <2> QED
    BY <1>1, <2>1, <2>2, <2>3, <2>4, <2>5, Zenon DEF Next, Requesting
<1>2. Inv /\ [Next]_vars =>
        [cache # None =>
           /\ cache' \in {cache, None} \union {fetched[c] : c \in Calls}
           /\ \A c \in Calls : call'[c] # "none" => call[c] # "none"
           /\ cache' = None => \A c \in Calls : call'[c] = "none"]_vars
  BY <1>1, Zenon DEF Settles
<1> QED
  BY <1>2, InvCorrect, PTL DEF Spec, AddressSettles
=============================================================================
