# request-o-matic: specification and proofs

request-o-matic takes song requests from WXYC's listeners, has Groq parse them,
has library-metadata-lookup (LML) search the library, and posts the result to
the DJs' Slack channel.  Moderators ban listeners from Slack or through an
admin API, and edit the list of moderators from Slack.  The data behind bans
and moderators is in another service, Backend-Service (BS).

This directory specifies the service in TLA+, checks it with TLC and proves
its most important properties with TLAPS.  `PROJECT.json` lists the runs, the
deliberately wrong variants each property is tried against, the source lines
of every definition, the hazards and the theorems.

## 1. The system

One asyncio process serves HTTP.  Handlers are coroutines, so the code between
two `await`s is atomic, and everything hard happens across the awaits: other
handlers run, the other side of a call does its work after the client gave up,
Slack stops waiting, Railway replaces the process.
The process keeps almost no state of its own; its state is what it read a
moment (or, in a modal, minutes) ago.

| Component | State | Operations | Talks to | Hard because | Correct when |
|---|---|---|---|---|---|
| Moderator roster, `/request-mods` (`routers/slack_commands.py`, `routers/slack_interactivity.py`, `services/moderator_client.py`, `services/slack_authorization.py`) | the roster read at the command, carried through a modal as `expectedCurrent` | command, open/update view, submission, PUT | BS (compare-and-set), Slack | stale reads, late PUTs, resubmission, empty picker after a retry | no edit lost, unauthorized or accidental; replies true |
| Request pipeline, `POST /request` (`routers/request.py`) | per request: ban verdict, parse, search result | gate, ban check, parse, search and retry, post, telemetry | BS, Groq, LML, Slack, PostHog | every upstream may fail, and each failure has its own policy (open, degrade, refuse) | one answer; posted exactly once when it says ok; bans decide; no silent outage |
| Banning from Slack (`routers/slack_interactivity.py`, `services/ban_service.py`) | the post's blocks and the device, stashed in the modal | click, submission, ban, acknowledgement, edit of the post | BS, Slack | ten-second calls under a three-second deadline, stale stash, two moderators | the request survives every edit; what is announced is true; only moderators act |
| Ban administration, `/admin/bans` (`routers/admin.py`, `services/ban_admin_client.py`) | none | ban, unban, list | BS | lost answers, late effects, foreign statuses | success and refusal mean what they say |
| Slack transports and webhook cache (`core/dependencies.py`) | the webhook's address, one module variable | resolve, post | Railway, Slack | concurrent first requests, rotation of the key; never refreshed | a request posts at most once; the address settles once a process has one |
| Slack signature (`services/slack_signature.py`) | none | verify | | window in both directions | stale or malformed requests are refused, never a 500 |
| Ban check client, lookup client (`services/`) | none | check, lookup | BS, LML | classification of failures; retry | fail open on outages only; only a refused connection is tried again |
| Parser, album pre-pass, parse endpoint (`services/parser.py`, `routers/parse.py`) | none | parse_request, extract_album_prefix, `POST /parse` | Groq | a cascade of guards over free text | what is peeled off is the album, and at most a courtesy and what follows it is lost |
| User-Agent gate, fingerprint (`services/ua_gate.py`, `services/fingerprint.py`) | none | match, normalize, classify | PostHog | versions of different lengths; two places that classify one header | 3.2 and above is strict; the events agree |
| Readiness (`routers/health.py`, the smoke test of `ci.yml`) | reads the webhook cache | three probes, one report | Groq, LML, Slack | the cache is empty after a restart, stale after a rotation | what the report says of Slack is what requests meet; deployments fail for outages only |
| Server-Timing (`core/server_timing.py`, `routers/request.py`, `scripts/lookup.py`) | none | parse, merge, display | LML | colliding and broken names | every leg once, under its own name |
| Operator scripts (`scripts/lookup.py`, `scripts/repl.py`) | none | print an answer | the service | sections that read different fields of one answer | an outage is never printed as "not in the library" |
| Groq tracing, settings, logging, main, benchmark and dashboard scripts | none | | | | |
| Deployment wait (`scripts/wait_for_railway_deployment.sh`) | counter of failed polls, deadline | poll | Railway | transient failures, superseded deployments | green only if the deployment went live, or was removed while a newer one was listed |
| Nightly NLP gate (`scripts/nlp_nightly_gate.py`, its workflow) | commit of the last green run | decide | GitHub | two cron entries per night, lag, serialized runs, red and skipped nights | no change to the parser goes unvalidated |

Shared state between components: BS's roster (read by the ban flow, written by
the roster flow), BS's bans (written by the ban flow and the admin API, read by
the pipeline), the posts in the channel (written by the pipeline, edited by the
ban flow), the webhook cache (pipeline and readiness).

## 2. Plan and state

The order followed what would hurt most if it were wrong.

| # | Part | Modules | State |
|---|---|---|---|
| 1 | Moderator roster | `RosterRegister` (abstract), `ModeratorRoster`, `MCModeratorRoster`, `ModeratorRosterProofs` | checked, proved, refinement proved |
| 2 | Request pipeline | `ListenerRequest` (abstract), `RequestPipeline`, `MCRequestPipeline`, `RequestPipelineProofs` | checked, proved, refinement proved |
| 3 | Banning from Slack | `BanFlow`, `MCBanFlow`, `BanFlowProofs`; implements `BanTable` | checked, proved, refinement proved |
| 4 | Ban administration | `BanTable` (abstract), `BanAdmin`, `MCBanAdmin`, `BanAdminProofs` | checked, proved, refinement proved |
| 5 | Nightly gate | `NightlyGate`, `MCNightlyGate`, `NightlyGateProofs` | checked, proved |
| 6 | Deployment wait | `DeployWait`, `MCDeployWait`, `DeployWaitProofs` | checked, proved |
| 7 | Readiness and webhook cache | `Readiness`, `MCReadiness`, `ReadinessProofs` | checked, proved |
| 8 | What the service reads | `AlbumPrepass`, `UserAgent`, `ServerTiming`, `RosterPayload`, composed by `Readings`, `MCReadings`, `ReadingsProofs` | checked, proved |
| 9 | What operators see | `OperatorView`, on top of `RequestPipeline` | checked and proved with 2 |

The two ways to ban share one abstract specification: `BanTable` is implemented
by the admin API and by the Slack flow, each on its own.  Not built: a
composition of both with the pipeline.  The three share one datum, the row of a
device; the pipeline is checked against a table that anybody may change at any
time, which is weaker than the others' steps.

## 3. The modules

Conventions.  An action is the code from one `await` to the next, with
everything it assigns.  What another program does (BS, Slack, Railway) is an
action too, called external in the map.  A call is a record (or the number of
its caller) in a set of requests in flight: the external action that serves it
may come before or after the client's timeout, or never.  `Restart` is
Railway's replacement of the process: handlers vanish, calls in flight do not.
Operators called `Slip...` are wrong variants of the definition that follows
them; the specifications never use them, they are what each property is shown
to catch.

**RosterRegister / ModeratorRoster.**  A session is one `/request-mods`: the
command reads the roster and opens a modal, once more with an empty picker if
Slack rejects the pre-selection.  `shown[s]` is what the picker opened with,
`dropped[s]` the marker that the retry leaves in `private_metadata`.  The modal
may be submitted `MaxSaves` times, because a save that failed or timed out
leaves it open.  A submission re-authorizes against
a fresh read and PUTs `expectedCurrent`, the roster the modal was built from.
BS's compare-and-set is external.  Ids are
trimmed and put into capitals before they are sent: `Upper` is that spelling and
`normalize_slack_user_ids` its effect on a roster, so that a table in which an
id is written in small letters is compared, and rewritten, in capitals.
`othersEdited[s]` and `applied[s]` record who changed the roster since session
`s` read it.  The abstract register says only: an edit
takes effect while the roster is still what its author saw, and only by
somebody whom that roster or the break-glass list authorizes.

**ListenerRequest / RequestPipeline.**  `pc[r]` is where the coroutine of
request `r` waits; `input`, `parsed`, `lookup`, `outage` are the handler's
locals; `copies` and `post` are the channel, `reply` the HTTP answer, `event`
the PostHog event.  `Config` is the deployment: strict gate, ban check off, on
or with an unusable address, the four Slack transports, LML, PostHog.  Data is
reduced to what decides: a device header is absent, malformed or valid; an
user's token is absent, stale, valid or not ASCII (httpx cannot encode it); an
answer of LML has rows on or off the shelves, its flags and the kind of its
context message.  Whether LML calls its own answer degraded or timed out is not
among them, because the router reads neither: any answer may be one of a search
that was not finished.  `always` and `ever` record what was banned all along, or
at some moment, until the verdict.  The abstract specification: a request is
answered once, "ok" means posted exactly once if it was to be posted.

**BanFlow.**  One post with one device.  `stash[c]` is what click `c` put in
`private_metadata`.  Of the blocks (`blocks` on the post, and in each stash) it
matters whether the request and the menu are there, and which footers; a post
that does not fit leaves `NoBlocks`.  An edit replaces the post by what its own
modal stashed and one footer (`UpdatedBlocks`), however late.  `long` says that
the post does not fit.  A submission `<<c, n>>` is the n-th one of click `c`'s
modal; several of one modal can be running at once.  `awaited[c]` is the one
Slack still waits for.  A submission's read of the roster and its decision are
two actions, between which other handlers run.  Moderators on the break-glass
list are authorized whatever the read returns, so the roster of the model is
made of the others.  `requests` and `edits` are bans and `chat.update`s that
were sent and not processed. `admitted` and `entitled` record whose author was
authorized at some moment between arrival and the read of the roster, `landed`
which bans were stored, `phase` how far a submission is as a call of `BanTable`:
open until it is refused, done (the client reported a success) or abandoned (it
failed, timed out, or the process died).

**BanTable / BanAdmin.**  Calls on the row of one device.  `Refusal` is the
dependencies and the validation in FastAPI's order, `Answer` the client's and
the router's translation of BS's status.  BS may serve a call and lose or
garble the answer, refuse it, never get it, or be hidden by a proxy; a body is
an object, other JSON or no JSON at all, and a success of the router has the
status of its own route, not BS's.  The
abstract table: a call takes effect at most once; done means it took effect
between its start and its answer; refused means never; anything else leaves it
open.

**OperatorView.**  Extends the pipeline with what `scripts/lookup.py` and
`scripts/repl.py` print of an answer: `Body` is the JSON, one operator per
section, each value named for what the line says.  The property relates the
lines to what happened in the pipeline, not to the answer.

**NightlyGate.**  A commit is what the gate can tell apart: the files it
watches whole, the Groq lines of those it watches by keyword, the rest.  A run
is a record that moves from GitHub's queue through the concurrency group (one
running, one waiting, the waiting one displaced by a newer one) and the steps
of the job.  The gate itself is `Decide`, with the diff that may fail and the
baseline that may be missing as inputs.  The clock knows the hours that matter
and both dates on which the offset changes.  `passed`, `acted` and `displaced`
are history.

**DeployWait.**  Deployments are numbered in the order of their creation;
Railway and people move them between statuses, and the list the script reads
holds only the newest `ListLimit`.  `Poll` is one pass of the loop.

**Readiness.**  `cache` is the module variable, `call` and `fetched` the
requests that are resolving it, `key` what Railway serves.  An address is the
number of its key.  A report is assembled from three probes that end in any
order; the aggregation belongs to `wxyc_fastapi` and is external, and so is
the smoke test, which is a shell step of `ci.yml`.  `revoked` says that Slack no
longer accepts the bot token, `sendable` records whether a request would have
reached Slack, on the transport that is set, when the report was asked for.

**Readings.**  Somebody writes a message, a User-Agent, a Server-Timing header
or a roster, piece by piece, and the service reads it at any point.
`AlbumPrepass` is `extract_album_prefix` over tokens (words, spaces where they
matter, pauses, quotation marks) with the guards in the code's order;
`UserAgent` the comparison of versions and the two places that classify the
fingerprint; `ServerTiming` the merge of LML's legs into the service's and the
order in which `lookup.py` shows them; `RosterPayload` the roster's body and
the union with the break-glass list.

## 4. The runs

| Run | Shows | Bounds |
|---|---|---|
| `roster_two_editors` | no lost, unauthorized or accidental edit and true replies, between two editors | 2 sessions, one submission each, 2 users of whom one is break-glass, symmetric sessions |
| `roster_retries` | the same modal submitted again while the earlier PUT is in flight: conflicts have a cause; every handler ends; refinement of `RosterRegister` | 1 session, 3 submissions |
| `request_one` | ban decision and gate, reconciliation, visibility of outages in the channel, in the event and in the operator's scripts, the causes of a 500, every request answered | 1 request, every combination of device, token and client (a known client always with a valid token), 6 deployments, 2 LML attempts, every answer of LML that does not announce rows it does not send |
| `request_two` | refinement of `ListenerRequest` with a shared webhook cache | 2 requests, 1 attempt, one transport (the one with shared state) |
| `ban_two_moderators` | the request survives on the post and the menu is there until a ban is shown, announcements are true, only moderators act; refinement of `BanTable` | 2 clicks, 2 submissions in all (of two modals, or of one twice), 2 users, symmetric clicks |
| `admin_two_calls` | refinement of `BanTable`, meaning of 401/403, every call answered | 2 calls of any kind, 4 deployments, every status and kind of body |
| `nightly_gate` | no unvalidated change is called off, one of the two entries acts, every unvalidated change is run | 4 trees (another parser, other Groq lines, another rest), 2 pushes, 1 dispatch or re-run, any number of nights |
| `deploy_wait` | no green for what failed, waits, or is the newest and never went live; no red for what is live; every job ends | 4 deployments, a list of 2, 4 polls, 2 tolerated errors |
| `readiness` | the report is fair, the smoke test fails for outages only, the address settles once there is one | 2 concurrent first requests, 2 rotations, a token that may be revoked, every Slack setting, symmetric requests |
| `readings` | what is peeled off a message can be put back; clients are told apart; no leg is lost; a roster counts whole | up to 3 tokens after each of 28 beginnings, 2 products with versions of up to 3 parts, 3 entries of Server-Timing, 4 rows for a limit of 3 |

The bounds reach the interesting cases: every race here is between two
holders of one datum (two editors, two clicks, a handler and its own
resubmission, a call and a later one, two first requests), so two of each is
where they appear; the second attempt of LML is the last one the code makes.
The roster flow is run once with two editors and once with one modal submitted
three times, because the product of both only multiplies the states.  Two
pushes are enough for a revert, which is the hardest history for a baseline;
four deployments are one before ours, ours, and as many after it as push it
out of a list of two.  The readers' guards look at most at a preposition, its
descriptor, the marks of a title and what follows them, which beginnings and
three tokens can spell.  (The tokens of `AlbumPrepass` were also rendered to
text and the result of every message compared with that of
`extract_album_prefix` itself; they agree, up to runs of spaces.)  Runs with
symmetry check safety only.  `CHECK_DEADLOCK FALSE` is said of systems that
stop: a job that has its verdict, a text that has been read.

Runs that find a disagreement between the code and what the repository says of
it (each has a finding in `PROJECT.json`):

| Run | The code | The repository says |
|---|---|---|
| `request_lookup_outage` | a search that dies with a read error or an invalid body is a 500, nothing is posted | when LML is unavailable the message still reaches Slack |
| `ban_second_footer` | the second edit erases the first moderator's footer | the actor is recorded in Slack |

More that were met while modelling.  They have no run of their own; a
property named with one says what the code does do, exceptions included, and is
checked and proved:

- Roster: the modal says that "someone else changed the moderator list"
  (`slack_interactivity.py:549`, `docs/admin-bans.md:271`).  It says so too to
  somebody who submits again after a timeout whose PUT did land.
  `ConflictIsReal` names both cases: others edited the roster, or an earlier
  submission of the same modal was applied.
- Pipeline, ban check: it is to fail open.  An unusable address raises
  `httpx.InvalidURL`, which `ban_check_client.py:98-103` says is covered and is
  not; an `Authorization` header that is not ASCII raises `UnicodeEncodeError`
  when it is forwarded (`:169-180`); a 200 whose body is `null` or a number
  raises `TypeError` (`:216`).  Each is a 500 for a request with a token or a
  usable fingerprint.  `ServerErrorsAreKnown` names these with the other causes.
  Events degraded only by the ban check carry no `degraded_reason` although
  `docs/architecture.md:49` says degraded events do.
- Pipeline, unfinished searches: `request.py:818-822` says that a search LML did
  not finish is never turned into "not found".  LML may send part of its rows
  with such an answer, and when all of them are external, stripping them says
  just that (`request.py:835-839`).  `VerdictMatchesRows` states exactly when
  "not found" is said, this case included.
- Bans: `_notify_slack`, "swallowing any failure", lets the `ValueError` of a
  Slack answer that is no JSON through, as a 500 after the ban was stored
  (`AcknowledgeRaises` of `BanFlow`).  `/admin/bans` reports success for a 2xx of
  a proxy that is no JSON (`routers/admin.py:101`), and answers 500 for a 2xx
  whose JSON is no object.
- Webhook cache: two concurrent first requests across a rotation can leave the
  older address in the cache until the next restart.  `AddressSettles` says
  what is true: once there is an address, only a fetch that was under way by
  then can still change it.
- Readiness: no live call is made for the bot transport (`health.py:125-127`),
  so a revoked token is "ok" while every post fails.  `SlackReportIsFair`
  promises a request that gets through only of the webhook.
- Smoke test: it tolerates `lookup` "unavailable", but `curl -f` has failed on
  the 503 before that; and a Slack "timeout" fails it although Slack is
  optional.
- Deployment wait: a revision that never landed must not report success (script,
  lines 20-21 and 161-163).  A deployment that somebody removes by hand while a
  newer one is listed is green, also if that one has failed.
  `GreenIsLiveOrReplaced` admits that case and no other.  A push that Railway's
  own integration deploys has no job, so "that run gates its own deploy" is not
  true of it; the property is about deployments, not about pushes.
- Nightly gate: `docs/testing.md` calls a red night sticky.  It is for a surface
  that no suite has passed (`UnvalidatedHeadIsRun`); a red dispatch or re-run on
  a surface that passed before is not repeated.
- Parser: the feedback clause is cut (`parser.py:73-83`) before the guard for
  authors looks (`parser.py:415`), so "x on x, please by y" loses its artist.
  `PeelIsFaithful` admits a lost artist behind a pause and a courtesy only.
  "moon pix off of." has the album "of.", because the trailing full stop
  hides the "of" from the guard against "off of"; `parse.py` documents a 503
  that no path produces.
- Scripts: `lookup.py:280` says it skips the library's results of a degraded
  answer, and prints "No results found in library." of a failed search all the
  same, below the section that says so; `repl.py` prints "No results found." of
  a message that is no request.  `OperatorIsNotMisled` covers both sections of
  both scripts, and names these as the only two exceptions.

## 5. Fairness

In the service, liveness is stated only of handlers, and fairness only of their
steps.  It is justified because every await of the modelled handlers is bounded
by an httpx timeout: moderator reads 1.0 s and writes 1.5 s, `views.open` 1.2 s,
the ban check 5 s, LML 20 s per attempt and at most two attempts with one second
between them, the ban admin client 10 s, Groq's SDK its default of a minute per
try and four retries, everything else the shared client's 30 s.  (httpx bounds
each phase and each gap between bytes, not the whole call: the assumption is
that no peer sends its answer a byte at a time forever.)  So from every waiting
state some step of the handler (an answer or the timeout) is taken.  BS, Slack
and users are never assumed to do anything. `DeployWait` assumes that the loop
goes on, so that a poll ends: the CLI has no timeout of its own, and one that
hangs is ended by the job's.  `NightlyGate` assumes that time passes, that
GitHub queues what is due and that jobs end one way or the other; nothing makes
a suite pass. The variants that drop a timeout, or do not count an attempt,
violate the liveness properties.

## 6. What is proved

`ModeratorRosterProofs` proves, for any sets of users and sessions, any
break-glass list and any number of submissions (assumption
`ModeratorConstants`):

- `TypeCorrect`: `Spec => []TypeOK`.
- `InvCorrect`: the inductive invariant.  `RepliesAreTruthful` and the action
  properties are not inductive: they need that a PUT in flight carries what its
  modal was built from (`PutMatchesView`), that a modal is shown only to
  somebody its roster authorizes (`ViewAuthorizes`), that attempts are numbered,
  so that a late PUT of an abandoned attempt is not taken for the current one,
  that a refused attempt is settled (it was not applied and is not in flight),
  and that a roster neither others nor the session itself have edited since it
  was read is still what it read (`UnchangedSinceRead`), which is what a
  conflict contradicts.
- `TruthfulReplies`, `ConflictCorrect`, `LostUpdatesImpossible`,
  `EditsAuthorized`, `EmptyingDeliberate`: the properties of the runs, from that
  invariant.
- `RegisterImplemented`: `Spec => ImplementsRegister`, one step per action.

`RequestPipelineProofs` proves, for any number of concurrent requests, any
deployments, headers, parses, answers and bans (assumptions
`PipelineConstants`, `ResultConstants`):

- `TypeCorrect`, and `InvCorrect`: the inductive invariant is one predicate per
  request, `Good(r)`: `Undecided` (nothing is known before the verdict, nothing
  said before the end, and what was banned all along is still banned),
  `Admitted` (who reaches the parse passed both gates), `Searched` (requests
  are searched and nothing else is), `Posted`, `Answered` and `Captured` (what
  was posted, answered and captured is what the parse and the search still
  say).  It is local to a request, so the proof is that a handler's step
  leaves the others alone (`OthersStay`), that its own request stays good
  (`DecidingIsGood`, `WorkingIsGood`), and that a change of the bans and a
  restart keep all (`SetBansIsGood`, `RestartIsGood`).
- `BansCorrect`, `ErrorsCorrect`, `OutagesCorrect` from it, and `VerdictCorrect`
  and `OperatorCorrect` under the assumption that every answer of LML is
  `Consistent`: one without rows announces none.  Nothing is assumed of an
  answer with rows, nor of one of an unfinished search.
- `PromiseKept`: `Spec => KeepsPromise`.  With `Unposted` (nothing is in the
  channel before the end) every step of a handler either changes nothing the
  listener sees or is one of three ends (`HandleOutcomes`), which are the
  abstract `Refuse`, `Accept` and `Fail`; a restart is `Die`.

`BanFlowProofs` proves, for any users, break-glass list, clicks and
submissions (assumption `BanFlowConstants`):

- `TypeCorrect`, and `InvCorrect`, the inductive invariant: `BanMatchesHandler`
  (where a submission's handler is says whether its ban is unsent, in flight or
  stored), `PhaseMatches` (so does the phase of its call, and a ban in flight is
  not stored yet), `FootersAreReal` (every footer on the post, in a stash or in
  an edit in flight comes from a stored ban), `PostIsWhole` (a stash is the
  request without the menu or nothing, and only the former is in an edit, so
  whatever order edits arrive in the post keeps its request), and
  `ClickIsAdmitted` / `SubmissionIsEntitled` (as long as a handler has yet to
  read the roster, whoever is authorized now is recorded as having been), which
  is what a roster that changes in between needs.
- `PostsSurvive`, `AnnouncementsTrue`, `ModeratorsOnly`: the three invariants of
  the run, from that one.  (The run leaves `TypeOK` to the proof.)
- `TableImplemented`: `Spec => ImplementsTable`.  A submission is `Start`; a
  refusal or a bad reason is `Refuse`; the client's answer is `Finish` or
  `Abandon`, a restart the `Abandon` of all that are open; Backend-Service's
  processing is `Take`; everything about the post and the modal is a stutter.

`BanAdminProofs` proves, for any number of calls and any deployments
(assumption `BanAdminConstants`):

- `TypeCorrect`, and `InvCorrect`: an answer in flight says what
  Backend-Service did (`OutcomeIsTrue`), a row shown is the row the call left
  and a refused call is not in flight (`ReplyIsTrue`).
- `TokenTroubleTrue`, and `TableImplemented`: `Spec => ImplementsTable`, an
  arrival mapped to `Start` or `Refuse`, Backend-Service's processing to
  `Take`, an answer to `Finish`, `Refuse` or `Abandon`, a restart to `Abandon`.

`NightlyGateProofs` proves, for any trees and any number of pushes, dispatches
and re-runs (assumptions `NightlyAssumption`, `NoneIsNothing`): `TypeCorrect`;
`InvCorrect`, whose heart is `MarkerIsTrue` (a marker, and a baseline read from
one, name a commit whose suite passed) and `NightIsCovered` (the entry that
stands for tonight is due, on its way, past the gate or displaced);
`CalledOffCorrect`; `OneTwinCorrect`.

`DeployWaitProofs` proves, for any deployments, jobs, list and limits
(`DeployAssumption`): `TypeCorrect`; `InvCorrect`, with `CountIsTrue` (the
script's count is the failures since the last success) and `RedHasAReason`;
`GreenCorrect`, from `SupersededByListed` (what the script takes for a successor
is a newer deployment on the list, and nothing more); `HealthyCorrect`.

`ReadinessProofs` proves, for any deployments, concurrent requests and
rotations (`ReadinessAssumption`): `TypeCorrect`; `InvCorrect`, with
`CacheIsResolved`, `FetchedIsServed`, `ProbeIsFair` (while the probe waits,
the address it asked about says what a request would have met) and
`AnswersAreFair`; `ReportCorrect`; `SmokeCorrect`; `SettleCorrect`.

`ReadingsProofs` proves, for messages, versions, headers and rosters of any
length (`ReadingsConstants`: messages are made of tokens, versions of natural
numbers, LML's legs of a name and a duration): `PeelCorrect`, `CallersCorrect`,
`TimingCorrect` and `RosterCorrect`.  As an invariant of `Readings` each needs
only that what is written is made of its pieces (`TextOK`); the work is in the
lemmas about the operators.

- The library's induction theorems take an operator, which no prover here can
  instantiate.  `Induction` speaks of a set of numbers instead (0 is in it, and
  n + 1 if n is), and follows from `LeastElement`, which follows from the
  cardinality of an interval; `Recursion` gives a recursive function its
  solution.  `Kept` and `Extra`, the loops of `parse_server_timing` and of the
  merge, are described from there (`KeptFacts`, `KeptOrder`, `ExtraFacts`):
  how many legs, which ones, and what may follow one that is kept.
- `VersionOrder`: Python's order of tuples is the order of versions with their
  missing parts read as zero, as long as the floor does not end in a zero
  ((3, 2) does not; with a floor of (3, 0) a client "3" would pass the gate).
- `PrepositionFacts`, `ClauseFacts`, `TrimFacts`, `QuotedFacts`: where a message
  is split, what may be dropped between the preposition and the title, and that
  the trims cut nothing but a courtesy and what follows it.
  `OnlyBehindCourtesy`: the guard for authors sees the whole clause unless a
  pause and a courtesy cut it.

Only model-checked: liveness (fairness and ENABLED are out of the prover's
reach).

## 7. What is not modelled

- Roster flow: an operator who changes the break-glass list (a redeploy).
- Pipeline: a deployment without a Groq key (every request is a 500 before the
  handler), what Groq extracts, the corrected artist, the wording and layout of
  blocks, the severity of log entries, the budget that is sent to LML (only LML
  reads it).
- Ban flow: payloads Slack does not send (no trigger, malformed metadata), a
  deployment without bot token or ban client (both answer before any effect).
- Admin API: pagination, expiry, the shape of rows; a body that is not JSON at
  all (FastAPI refuses it with 422 before anything else).
- Nightly gate: the model-contract job, which has no state, which file
  counts as watched, and a gate job that fails itself (then nothing runs, and
  the workflow reports it on a schedule).
- Deployment wait: the log it prints of a failed build.
- Readings: how a header's text is cut into products or entries; words are a
  few tokens, so spelling, case and Unicode are left out; what Groq extracts.
- Slack signatures: a digest and one comparison with the clock.  Groq tracing:
  spans without state.  Which status or body of BS becomes which of the three
  outcomes of the ban check: one line each.  The dashboard and the benchmark:
  sequential tools nothing depends on.  The generated models: only the classes
  the pipeline reads are mapped; most of the file describes other services, and
  it is most of what the map does not cover.
- `SlackService.delete_message` and the REPL's commands: nothing calls the
  first, and the second change only what is printed.
