------------------------ MODULE RequestPipelineProofs ------------------------
(***************************************************************************)
(* Proofs about POST /request and what the scripts print of its answers,   *)
(* for any number of requests, any deployments, headers and bans.          *)
(***************************************************************************)
EXTENDS OperatorView, TLAPS

(* What is computed for the channel, PostHog and the listener is typed.    *)
LEMMA ResultsTyped ==
  ASSUME TypeOK, NEW r \in Requests
  PROVE  /\ Delivered(r) \in Found
         /\ Message(r) \in [note : Notes, results : SUBSET Rows, device : BOOLEAN]
         /\ Telemetry(r) \in Event
         /\ UnifiedResponse(r) \in Reply
<1>1. Delivered(r) \in Found
  <2>1. NotSearched \in Found
    BY DEF NotSearched, Found, Contexts, Rows
  <2>2. ASSUME lookup[r] \in Answers PROVE Reconciled(parsed[r], lookup[r]) \in Found
    <3>1. lookup[r] \in Answer
      BY <2>2, PipelineConstants
    <3>2. AsSent(lookup[r]) \in Found
      BY <3>1 DEF AsSent, Found, Answer
    <3>3. NotInLibrary(parsed[r]) \in Found
      BY <2>1 DEF NotInLibrary, NotSearched, Found, Contexts
    <3> QED
      BY <3>2, <3>3 DEF Reconciled
  <2> QED
    BY <2>1, <2>2 DEF Delivered
<1>2. DegradedMode(r) \in Modes
  BY DEF DegradedMode, Modes
<1>3. Note(r) \in Notes
  BY DEF Note, Notes
<1>4. Message(r) \in [note : Notes, results : SUBSET Rows, device : BOOLEAN]
  BY <1>1, <1>3 DEF Message, Found, Metadata, HasFingerprint
<1>5. Telemetry(r) \in Event
  BY <1>2 DEF Telemetry, Event, OutageFlag, TypeOK
<1>6. UnifiedResponse(r) \in Reply
  BY <1>1, <1>2 DEF UnifiedResponse, Reply, Modes
<1> QED
  BY <1>1, <1>4, <1>5, <1>6

LEMMA BareTyped ==
  ASSUME NEW s \in {"ok", "empty", "blocked", "slack_failed", "error"}
  PROVE  Bare(s) \in Reply /\ Blocked \in Event
BY DEF Bare, Reply, NotSearched, Found, Contexts, Modes, Rows, Blocked, Event

(* The cases of a step, one per action. *)
LEMMA StepCases ==
  ASSUME [Next]_vars
  PROVE  \/ UNCHANGED vars
         \/ Restart
         \/ \E new \in BanSets : SetBans(new)
         \/ \E r \in Requests : \E i \in Inputs : Arrive(r, i)
         \/ \E r \in Requests : WebhookFetched(r) \/ WebhookUnavailable(r) \/ Gate(r)
         \/ \E r \in Requests : BanVerdict(r) \/ BanCheckUnavailable(r) \/ BanCheckRaises(r)
         \/ \E r \in Requests : (\E p \in Parsed : ParseReturns(r, p)) \/ ParseFails(r)
         \/ \E r \in Requests : \E a \in Answers : LookupReturns(r, a)
         \/ \E r \in Requests : LookupUnreachable(r) \/ Retry(r) \/ LookupFails(r) \/ LookupRaises(r)
         \/ \E r \in Requests : PostSkipped(r) \/ PostAccepted(r) \/ PostFails(r)
BY Zenon DEF Next, Handle

----------------------------------------------------------------------------
(* Type correctness. *)

(* A coroutine that ends, or that a gate turns away, leaves typed values.  *)
LEMMA BlockTyped ==
  ASSUME TypeOK, NEW r \in Requests, Block(r)
  PROVE  /\ pc' \in [Requests -> {"unsent", "answered", "lost"} \cup Live]
         /\ reply' \in [Requests -> {None} \cup Reply]
         /\ event' \in [Requests -> {None} \cup Event]
<1>1. Bare("blocked") \in Reply /\ Blocked \in Event
  BY BareTyped
<1> QED
  BY <1>1 DEF Block, End, TypeOK

LEMMA CompleteTyped ==
  ASSUME TypeOK, NEW r \in Requests, Complete(r)
  PROVE  /\ pc' \in [Requests -> {"unsent", "answered", "lost"} \cup Live]
         /\ reply' \in [Requests -> {None} \cup Reply]
         /\ event' \in [Requests -> {None} \cup Event]
<1>1. Telemetry(r) \in Event /\ UnifiedResponse(r) \in Reply
  BY ResultsTyped
<1>2. Bare("error") \in Reply
  BY BareTyped
<1> QED
  BY <1>1, <1>2 DEF Complete, End, TypeOK

(* Init establishes the types, and every step keeps them. *)
LEMMA TypeInvariant ==
  /\ Init => TypeOK
  /\ TypeOK /\ [Next]_vars => TypeOK'
<1>1. ASSUME Init PROVE TypeOK
  <2>1. /\ config \in Configs /\ bans \in BanSets /\ webhook \in BOOLEAN
        /\ pc \in [Requests -> {"unsent", "answered", "lost"} \cup Live]
    BY <1>1 DEF Init
  <2>2. /\ input \in [Requests -> {None} \cup Inputs]
        /\ outage \in [Requests -> BOOLEAN]
        /\ parsed \in [Requests -> {None, Failed} \cup Parsed]
        /\ attempt \in [Requests -> Nat]
        /\ lookup \in [Requests -> {None, Failed} \cup Answers]
        /\ copies \in [Requests -> Nat]
    BY <1>1 DEF Init
  <2>3. /\ reply \in [Requests -> {None} \cup Reply]
        /\ event \in [Requests -> {None} \cup Event]
        /\ post \in [Requests -> {None} \cup [note : Notes, results : SUBSET Rows, device : BOOLEAN]]
    BY <1>1 DEF Init
  <2>4. always \in [Requests -> SUBSET Signals] /\ ever \in [Requests -> SUBSET Signals]
    BY <1>1 DEF Init
  <2> QED
    BY <2>1, <2>2, <2>3, <2>4 DEF TypeOK
<1>2. ASSUME TypeOK, [Next]_vars PROVE TypeOK'
  <2> USE <1>2
  <2>1. CASE UNCHANGED vars
    BY <2>1 DEF TypeOK, vars
  <2>2. CASE Restart
    <3>1. PICK late \in SUBSET Requests :
              /\ copies' = [r \in Requests |-> IF r \in late THEN copies[r] + 1 ELSE copies[r]]
              /\ post' = [r \in Requests |-> IF r \in late THEN Message(r) ELSE post[r]]
      BY <2>2 DEF Restart
    <3>2. copies' \in [Requests -> Nat]
      BY <3>1 DEF TypeOK
    <3>3. post' \in [Requests -> {None} \cup [note : Notes, results : SUBSET Rows, device : BOOLEAN]]
      <4>1. \A r \in Requests : Message(r) \in [note : Notes, results : SUBSET Rows, device : BOOLEAN]
        BY ResultsTyped
      <4> QED
        BY <3>1, <4>1 DEF TypeOK
    <3>4. pc' \in [Requests -> {"unsent", "answered", "lost"} \cup Live] /\ webhook' \in BOOLEAN
      BY <2>2 DEF Restart, TypeOK
    <3> QED
      BY <2>2, <3>2, <3>3, <3>4 DEF Restart, TypeOK
  <2>3. CASE \E new \in BanSets : SetBans(new)
    BY <2>3, PipelineConstants DEF SetBans, TypeOK, ended
  <2>4. CASE \E r \in Requests : \E i \in Inputs : Arrive(r, i)
    BY <2>4, PipelineConstants DEF Arrive, Goto, TypeOK, ended, Live, Deciding
  <2>5. ASSUME NEW r \in Requests, WebhookFetched(r) \/ WebhookUnavailable(r) \/ Gate(r) PROVE TypeOK'
    <3>1. CASE WebhookFetched(r)
      BY <3>1 DEF WebhookFetched, Goto, TypeOK, ended, Live, Deciding
    <3>2. CASE WebhookUnavailable(r)
      BY <3>2, BareTyped DEF WebhookUnavailable, End, TypeOK, world
    <3>3. CASE Gate(r)
      <4>1. CASE input[r].empty
        BY <3>3, <4>1, BareTyped DEF Gate, End, TypeOK, world
      <4>2. CASE ~input[r].empty /\ UaGateRejects(input[r])
        BY <3>3, <4>2, BlockTyped DEF Gate, TypeOK, world
      <4>3. CASE ~input[r].empty /\ ~UaGateRejects(input[r])
        BY <3>3, <4>3 DEF Gate, Goto, TypeOK, world, Live, Deciding
      <4> QED
        BY <4>1, <4>2, <4>3
    <3> QED
      BY <2>5, <3>1, <3>2, <3>3
  <2>6. ASSUME NEW r \in Requests, BanVerdict(r) \/ BanCheckUnavailable(r) \/ BanCheckRaises(r) PROVE TypeOK'
    <3>1. CASE BanVerdict(r)
      <4>1. CASE Banned(input[r])
        BY <3>1, <4>1, BlockTyped DEF BanVerdict, TypeOK, world
      <4>2. CASE ~Banned(input[r])
        BY <3>1, <4>2 DEF BanVerdict, Goto, TypeOK, world, Live
      <4> QED
        BY <4>1, <4>2
    <3>2. CASE BanCheckUnavailable(r)
      BY <3>2 DEF BanCheckUnavailable, Goto, TypeOK, world, ended, Live
    <3>3. CASE BanCheckRaises(r)
      BY <3>3, BareTyped DEF BanCheckRaises, End, TypeOK, world
    <3> QED
      BY <2>6, <3>1, <3>2, <3>3
  <2>7. ASSUME NEW r \in Requests, (\E p \in Parsed : ParseReturns(r, p)) \/ ParseFails(r) PROVE TypeOK'
    <3>1. CASE \E p \in Parsed : ParseReturns(r, p)
      BY <3>1 DEF ParseReturns, Goto, TypeOK, world, ended, Live
    <3>2. CASE ParseFails(r)
      BY <3>2 DEF ParseFails, Goto, TypeOK, world, ended, Live
    <3> QED
      BY <2>7, <3>1, <3>2
  <2>8. CASE \E r \in Requests : \E a \in Answers : LookupReturns(r, a)
    BY <2>8 DEF LookupReturns, Goto, TypeOK, world, ended, Live
  <2>9. ASSUME NEW r \in Requests, LookupUnreachable(r) \/ Retry(r) \/ LookupFails(r) \/ LookupRaises(r) PROVE TypeOK'
    <3>1. CASE LookupUnreachable(r) \/ Retry(r) \/ LookupFails(r)
      BY <3>1 DEF LookupUnreachable, Retry, LookupFails, Goto, TypeOK, world, ended, Live
    <3>2. CASE LookupRaises(r)
      BY <3>2, BareTyped DEF LookupRaises, End, TypeOK, world
    <3> QED
      BY <2>9, <3>1, <3>2
  <2>10. ASSUME NEW r \in Requests, PostSkipped(r) \/ PostAccepted(r) \/ PostFails(r) PROVE TypeOK'
    <3>1. CASE PostSkipped(r)
      BY <3>1, CompleteTyped DEF PostSkipped, TypeOK, world
    <3>2. Appear(r) => /\ copies' \in [Requests -> Nat]
                       /\ post' \in [Requests -> {None} \cup [note : Notes, results : SUBSET Rows, device : BOOLEAN]]
      <4>1. Message(r) \in [note : Notes, results : SUBSET Rows, device : BOOLEAN]
        BY ResultsTyped
      <4> QED
        BY <4>1 DEF Appear, TypeOK
    <3>3. CASE PostAccepted(r)
      BY <3>2, <3>3, CompleteTyped DEF PostAccepted, TypeOK, world
    <3>4. CASE PostFails(r)
      BY <3>2, <3>4, BareTyped DEF PostFails, End, TypeOK, world
    <3> QED
      BY <2>10, <3>1, <3>3, <3>4
  <2> QED
    BY <2>1, <2>2, <2>3, <2>4, <2>5, <2>6, <2>7, <2>8, <2>9, <2>10, StepCases
<1> QED
  BY <1>1, <1>2

(* TypeOK, always. *)
THEOREM TypeCorrect == Spec => []TypeOK
  BY TypeInvariant, PTL DEF Spec

----------------------------------------------------------------------------
(* The inductive invariant: what is true of one request.                   *)

(* Nothing is known before the verdict, and nothing is said before the end. *)
Undecided(r) ==
  /\ pc[r] \in {"unsent"} \cup Deciding => parsed[r] = None /\ lookup[r] = None /\ ~outage[r]
  /\ pc[r] \in {"unsent"} \cup Live => reply[r] = None /\ event[r] = None /\ post[r] = None
  /\ pc[r] \in Deciding => always[r] \subseteq bans /\ bans \subseteq ever[r]
  /\ pc[r] = "fetching" => config.slack = "webhook_key"

(* Who is let through to the parse has passed both gates. *)
Admitted(r) ==
  /\ pc[r] # "unsent" => input[r] # None
  /\ pc[r] = "checking" => ChecksBans(input[r]) /\ ~UaGateRejects(input[r])
  /\ pc[r] = "parsing" \/ parsed[r] # None =>
       /\ pc[r] # "unsent"
       /\ ~UaGateRejects(input[r])
       /\ config.ban_check = "on" /\ ~outage[r] /\ input[r].user # "stale"
            => Presented(input[r]) \cap always[r] = {}

IsRequest(r) == parsed[r] \in Parsed /\ parsed[r].is_request

(* Requests are searched, and nothing else is. *)
Searched(r) ==
  /\ lookup[r] # None => IsRequest(r)
  /\ pc[r] \in {"searching", "retrying"} => IsRequest(r) /\ config.lookup
  /\ pc[r] = "parsing" => parsed[r] = None /\ lookup[r] = None
  /\ pc[r] = "posting" => parsed[r] # None /\ (IsRequest(r) => lookup[r] # None)

(* What was posted, answered and captured is what the parse and the search *)
(* still say.                                                              *)
Posted(r) == post[r] # None => post[r].note = Note(r) /\ parsed[r] # None

Answered(r) ==
  /\ Status(r) = "ok" =>
       /\ reply[r] = UnifiedResponse(r) /\ parsed[r] # None
       /\ IsRequest(r) => lookup[r] # None
  /\ Status(r) = "blocked" =>
       \/ Presented(input[r]) \cap ever[r] # {}
       \/ config.strict /\ input[r].known_client /\ input[r].device # "valid"
  /\ Status(r) = "error" => CauseOfError(r)

Captured(r) ==
  event[r] # None => event[r] = Telemetry(r) \/ (event[r] = Blocked /\ ~outage[r])

Good(r) ==
  Undecided(r) /\ Admitted(r) /\ Searched(r) /\ Posted(r) /\ Answered(r) /\ Captured(r)

Inv == TypeOK /\ \A r \in Requests : Good(r)

(* Nothing of a request changed. *)
Same(r) ==
  /\ config' = config /\ bans' = bans /\ pc'[r] = pc[r] /\ input'[r] = input[r]
  /\ outage'[r] = outage[r] /\ parsed'[r] = parsed[r] /\ lookup'[r] = lookup[r]
  /\ post'[r] = post[r] /\ reply'[r] = reply[r] /\ event'[r] = event[r]
  /\ always'[r] = always[r] /\ ever'[r] = ever[r]

(* The results depend on the parse, the search and the outage only. *)
LEMMA ResultsStay ==
  ASSUME NEW r \in Requests, parsed'[r] = parsed[r], lookup'[r] = lookup[r],
         outage'[r] = outage[r]
  PROVE  /\ UnifiedResponse(r)' = UnifiedResponse(r)
         /\ Telemetry(r)' = Telemetry(r)
         /\ Note(r)' = Note(r)
<1>1. Delivered(r)' = Delivered(r)
  BY DEF Delivered, Reconciled, AsSent, NotInLibrary, NotSearched
<1>2. DegradedMode(r)' = DegradedMode(r) /\ NotARequest(r)' = NotARequest(r)
  BY DEF DegradedMode, NotARequest
<1> QED
  BY <1>1, <1>2 DEF UnifiedResponse, Telemetry, OutageFlag, Note

LEMMA SameIsGood ==
  ASSUME NEW r \in Requests, Good(r), Same(r)
  PROVE  Good(r)'
<1>1. Undecided(r)' /\ Admitted(r)' /\ Searched(r)'
  BY DEF Good, Same, Undecided, Admitted, Searched, IsRequest, ChecksBans, HasFingerprint,
         UaGateRejects, Presented
<1>2. Posted(r)' /\ Captured(r)'
  BY ResultsStay DEF Good, Same, Posted, Captured, Blocked
<1>3. Answered(r)'
  BY ResultsStay DEF Good, Same, Answered, Status, IsRequest, Presented, CauseOfError
<1> QED
  BY <1>1, <1>2, <1>3 DEF Good

(* A handler's step is its own request's affair. *)
LEMMA OthersStay ==
  ASSUME TypeOK, NEW r \in Requests, Handle(r) \/ \E i \in Inputs : Arrive(r, i),
         NEW s \in Requests, s # r
  PROVE  Same(s)
<1> USE DEF TypeOK, Same, world, ended
<1>1. CASE \E i \in Inputs : Arrive(r, i)
  BY <1>1 DEF Arrive, Goto
<1>2. CASE WebhookFetched(r) \/ WebhookUnavailable(r)
  BY <1>2 DEF WebhookFetched, WebhookUnavailable, Goto, End
<1>3. CASE Gate(r)
  <2>1. CASE input[r].empty
    BY <1>3, <2>1 DEF Gate, End
  <2>2. CASE ~input[r].empty /\ UaGateRejects(input[r])
    BY <1>3, <2>2 DEF Gate, Block, End
  <2>3. CASE ~input[r].empty /\ ~UaGateRejects(input[r])
    BY <1>3, <2>3 DEF Gate, Goto
  <2> QED
    BY <2>1, <2>2, <2>3
<1>4. CASE BanVerdict(r)
  <2>1. CASE Banned(input[r])
    BY <1>4, <2>1 DEF BanVerdict, Block, End
  <2>2. CASE ~Banned(input[r])
    BY <1>4, <2>2 DEF BanVerdict, Goto
  <2> QED
    BY <2>1, <2>2
<1>5. CASE BanCheckUnavailable(r) \/ BanCheckRaises(r) \/ ParseFails(r)
  BY <1>5 DEF BanCheckUnavailable, BanCheckRaises, ParseFails, Goto, End
<1>6. CASE \E p \in Parsed : ParseReturns(r, p)
  BY <1>6 DEF ParseReturns, Goto
<1>7. CASE \E a \in Answers : LookupReturns(r, a)
  BY <1>7 DEF LookupReturns, Goto
<1>8. CASE LookupUnreachable(r) \/ Retry(r) \/ LookupFails(r) \/ LookupRaises(r)
  BY <1>8 DEF LookupUnreachable, Retry, LookupFails, LookupRaises, Goto, End
<1>9. CASE PostSkipped(r) \/ PostAccepted(r)
  BY <1>9 DEF PostSkipped, PostAccepted, Complete, Appear, End
<1>10. CASE PostFails(r)
  BY <1>10 DEF PostFails, Appear, End
<1> QED
  BY <1>1, <1>2, <1>3, <1>4, <1>5, <1>6, <1>7, <1>8, <1>9, <1>10, Zenon DEF Handle

(* A handler turned away has answered 403 and captured at most that. *)
LEMMA BlockAnswers ==
  ASSUME TypeOK, NEW r \in Requests, Block(r)
  PROVE  /\ pc'[r] = "answered" /\ reply'[r] = Bare("blocked")
         /\ event'[r] = event[r] \/ event'[r] = Blocked
BY DEF Block, End, TypeOK

(* One that has ended normally sent what the results say, or failed there. *)
LEMMA CompleteAnswers ==
  ASSUME TypeOK, NEW r \in Requests, Complete(r)
  PROVE  /\ pc'[r] = "answered"
         /\ reply'[r] = UnifiedResponse(r) \/ (reply'[r] = Bare("error") /\ config.posthog)
         /\ event'[r] = event[r] \/ event'[r] = Telemetry(r)
BY DEF Complete, End, TypeOK

(* Up to the verdict. *)
LEMMA DecidingIsGood ==
  ASSUME Inv, NEW r \in Requests,
         \/ \E i \in Inputs : Arrive(r, i)
         \/ WebhookFetched(r) \/ WebhookUnavailable(r) \/ Gate(r)
         \/ BanVerdict(r) \/ BanCheckUnavailable(r) \/ BanCheckRaises(r)
  PROVE  Good(r)'
<1> USE DEF Inv, Good, Deciding, Live
<1>0. TypeOK /\ config \in Config /\ (input[r] # None => input[r] \in Input)
  BY PipelineConstants DEF TypeOK
<1>a. Undecided(r) /\ Admitted(r) /\ Searched(r) /\ Posted(r) /\ Answered(r) /\ Captured(r)
  OBVIOUS
<1>1. ASSUME NEW i \in Inputs, Arrive(r, i) PROVE Good(r)'
  <2>1. /\ pc[r] = "unsent" /\ pc'[r] \in {"fetching", "handling"}
        /\ pc'[r] = "fetching" => config'.slack = "webhook_key"
        /\ input'[r] = i /\ always'[r] = bans' /\ ever'[r] = bans'
        /\ parsed'[r] = parsed[r] /\ lookup'[r] = lookup[r] /\ outage'[r] = outage[r]
        /\ reply'[r] = reply[r] /\ event'[r] = event[r] /\ post'[r] = post[r]
    BY <1>0, <1>1 DEF Arrive, Goto, TypeOK, ended
  <2>2. i # None
    BY PipelineConstants
  <2>3. parsed[r] = None /\ lookup[r] = None /\ ~outage[r] /\ reply[r] = None /\ event[r] = None /\ post[r] = None
    BY <1>a, <2>1 DEF Undecided
  <2>4. Undecided(r)' /\ Admitted(r)' /\ Searched(r)'
    BY <2>1, <2>2, <2>3 DEF Undecided, Admitted, Searched
  <2>5. Posted(r)' /\ Answered(r)' /\ Captured(r)'
    BY <2>1, <2>3 DEF Posted, Answered, Captured, Status
  <2> QED
    BY <2>4, <2>5
<1>2. CASE WebhookFetched(r)
  <2>1. /\ pc[r] = "fetching" /\ pc'[r] = "handling" /\ config' = config /\ bans' = bans
        /\ input'[r] = input[r] /\ always'[r] = always[r] /\ ever'[r] = ever[r]
        /\ parsed'[r] = parsed[r] /\ lookup'[r] = lookup[r] /\ outage'[r] = outage[r]
        /\ reply'[r] = reply[r] /\ event'[r] = event[r] /\ post'[r] = post[r]
    BY <1>0, <1>2 DEF WebhookFetched, Goto, TypeOK, ended
  <2> QED
    BY <1>a, <2>1 DEF Undecided, Admitted, Searched, Posted, Answered, Captured, Status
<1>3. CASE WebhookUnavailable(r)
  <2>1. /\ pc[r] = "fetching" /\ pc'[r] = "answered" /\ config' = config
        /\ input'[r] = input[r] /\ always'[r] = always[r] /\ ever'[r] = ever[r]
        /\ parsed'[r] = parsed[r] /\ lookup'[r] = lookup[r] /\ outage'[r] = outage[r]
        /\ reply'[r] = Bare("error") /\ event'[r] = event[r] /\ post'[r] = post[r]
    BY <1>0, <1>3 DEF WebhookUnavailable, End, TypeOK, world
  <2> QED
    BY <1>a, <2>1 DEF Undecided, Admitted, Searched, Posted, Answered, Captured, Status, Bare, CauseOfError
<1>4. CASE Gate(r)
  <2>1. /\ pc[r] = "handling" /\ config' = config /\ bans' = bans
        /\ input'[r] = input[r] /\ always'[r] = always[r] /\ ever'[r] = ever[r]
        /\ parsed'[r] = parsed[r] /\ lookup'[r] = lookup[r] /\ outage'[r] = outage[r]
        /\ post'[r] = post[r]
    BY <1>0, <1>4 DEF Gate, TypeOK, world
  <2>2. CASE input[r].empty
    <3>1. pc'[r] = "answered" /\ reply'[r] = Bare("empty") /\ event'[r] = event[r]
      BY <1>0, <1>4, <2>2 DEF Gate, End, TypeOK
    <3> QED
      BY <1>a, <2>1, <3>1 DEF Undecided, Admitted, Searched, Posted, Answered, Captured, Status, Bare, CauseOfError
  <2>3. CASE ~input[r].empty /\ UaGateRejects(input[r])
    <3>1. pc'[r] = "answered" /\ reply'[r] = Bare("blocked") /\ (event'[r] = event[r] \/ event'[r] = Blocked)
      BY <1>0, <1>4, <2>3, BlockAnswers DEF Gate
    <3> QED
      BY <1>a, <2>1, <2>3, <3>1 DEF Undecided, Admitted, Searched, Posted, Answered, Captured, Status,
           Bare, CauseOfError, Blocked, UaGateRejects, HasFingerprint
  <2>4. CASE ~input[r].empty /\ ~UaGateRejects(input[r])
    <3>1. /\ reply'[r] = reply[r] /\ event'[r] = event[r]
          /\ \/ pc'[r] = "checking" /\ ChecksBans(input[r])
             \/ pc'[r] = "parsing" /\ ~ChecksBans(input[r])
      BY <1>0, <1>4, <2>4 DEF Gate, Goto, TypeOK
    <3>2. Undecided(r)' /\ Searched(r)' /\ Posted(r)' /\ Answered(r)' /\ Captured(r)'
      BY <1>a, <2>1, <3>1 DEF Undecided, Searched, Posted, Answered, Captured, Status
    <3>3. ~ChecksBans(input[r]) /\ config.ban_check = "on" => Presented(input[r]) = {}
      BY DEF ChecksBans, Presented, HasFingerprint
    <3>4. Admitted(r)'
      BY <1>a, <2>1, <2>4, <3>1, <3>3 DEF Undecided, Admitted, ChecksBans, UaGateRejects, HasFingerprint
    <3> QED
      BY <3>2, <3>4
  <2> QED
    BY <2>2, <2>3, <2>4
<1>5. CASE BanVerdict(r)
  <2>1. /\ pc[r] = "checking" /\ config' = config /\ bans' = bans
        /\ input'[r] = input[r] /\ always'[r] = always[r] /\ ever'[r] = ever[r]
        /\ parsed'[r] = parsed[r] /\ lookup'[r] = lookup[r] /\ outage'[r] = outage[r]
        /\ post'[r] = post[r]
    BY <1>0, <1>5 DEF BanVerdict, TypeOK, world
  <2>2. CASE Banned(input[r])
    <3>1. pc'[r] = "answered" /\ reply'[r] = Bare("blocked") /\ (event'[r] = event[r] \/ event'[r] = Blocked)
      BY <1>0, <1>5, <2>2, BlockAnswers DEF BanVerdict
    <3>2. Presented(input[r]) \cap ever[r] # {}
      BY <1>a, <2>1, <2>2 DEF Undecided, Banned, HasFingerprint, Presented, Signals
    <3> QED
      BY <1>a, <2>1, <3>1, <3>2 DEF Undecided, Admitted, Searched, Posted, Answered, Captured, Status,
           Bare, CauseOfError, Blocked
  <2>3. CASE ~Banned(input[r])
    <3>1. pc'[r] = "parsing" /\ reply'[r] = reply[r] /\ event'[r] = event[r]
      BY <1>0, <1>5, <2>3 DEF BanVerdict, Goto, TypeOK
    <3>2. input[r].user # "stale" => Presented(input[r]) \cap always[r] = {}
      BY <1>a, <2>1, <2>3 DEF Undecided, Banned, HasFingerprint, Presented, Signals
    <3>3. Undecided(r)' /\ Searched(r)' /\ Posted(r)' /\ Answered(r)' /\ Captured(r)'
      BY <1>a, <2>1, <3>1 DEF Undecided, Searched, Posted, Answered, Captured, Status
    <3>4. Admitted(r)'
      BY <1>a, <2>1, <3>1, <3>2 DEF Admitted, UaGateRejects, HasFingerprint, Presented
    <3> QED
      BY <3>3, <3>4
  <2> QED
    BY <2>2, <2>3
<1>6. CASE BanCheckUnavailable(r)
  <2>1. /\ pc[r] = "checking" /\ pc'[r] = "parsing" /\ config' = config
        /\ input'[r] = input[r] /\ always'[r] = always[r] /\ ever'[r] = ever[r]
        /\ parsed'[r] = parsed[r] /\ lookup'[r] = lookup[r] /\ outage'[r] = TRUE
        /\ reply'[r] = reply[r] /\ event'[r] = event[r] /\ post'[r] = post[r]
    BY <1>0, <1>6 DEF BanCheckUnavailable, Goto, TypeOK, world, ended
  <2> QED
    BY <1>a, <2>1 DEF Undecided, Admitted, Searched, Posted, Answered, Captured, Status,
         UaGateRejects, HasFingerprint
<1>7. CASE BanCheckRaises(r)
  <2>1. /\ pc[r] = "checking" /\ pc'[r] = "answered" /\ config' = config
        /\ input'[r] = input[r] /\ always'[r] = always[r] /\ ever'[r] = ever[r]
        /\ parsed'[r] = parsed[r] /\ lookup'[r] = lookup[r] /\ outage'[r] = outage[r]
        /\ reply'[r] = Bare("error") /\ event'[r] = event[r] /\ post'[r] = post[r]
    BY <1>0, <1>7 DEF BanCheckRaises, End, TypeOK, world
  <2>2. config.ban_check # "off" /\ (input[r].user # "none" \/ input[r].device = "valid")
    BY <1>a, <2>1 DEF Admitted, ChecksBans, HasFingerprint
  <2>3. CauseOfError(r)'
    BY <1>a, <2>1, <2>2 DEF Undecided, CauseOfError
  <2> QED
    BY <1>a, <2>1, <2>3 DEF Undecided, Admitted, Searched, Posted, Answered, Captured, Status, Bare
<1> QED
  BY <1>1, <1>2, <1>3, <1>4, <1>5, <1>6, <1>7

(* From the parse to the answer. *)
LEMMA WorkingIsGood ==
  ASSUME Inv, NEW r \in Requests,
         \/ \E p \in Parsed : ParseReturns(r, p)
         \/ ParseFails(r)
         \/ \E a \in Answers : LookupReturns(r, a)
         \/ LookupUnreachable(r) \/ Retry(r) \/ LookupFails(r) \/ LookupRaises(r)
         \/ PostSkipped(r) \/ PostAccepted(r) \/ PostFails(r)
  PROVE  Good(r)'
<1> USE DEF Inv, Good, Deciding, Live
<1>0. TypeOK /\ Failed # None /\ \A p \in Parsed \cup Answers : p # None /\ p # Failed
  BY PipelineConstants
<1>a. Undecided(r) /\ Admitted(r) /\ Searched(r) /\ Posted(r) /\ Answered(r) /\ Captured(r)
  OBVIOUS
<1>b. /\ config' = config /\ input'[r] = input[r] /\ outage'[r] = outage[r]
      /\ always'[r] = always[r] /\ ever'[r] = ever[r]
  BY DEF ParseReturns, ParseFails, LookupReturns, LookupUnreachable, Retry, LookupFails,
         LookupRaises, PostSkipped, PostAccepted, PostFails, world
<1>1. ASSUME NEW p \in Parsed, ParseReturns(r, p) PROVE Good(r)'
  <2>1. /\ pc[r] = "parsing" /\ parsed'[r] = p
        /\ \/ p.is_request /\ pc'[r] = "searching" /\ lookup'[r] = lookup[r] /\ config.lookup
           \/ p.is_request /\ pc'[r] = "posting" /\ lookup'[r] = Failed
           \/ ~p.is_request /\ pc'[r] = "posting" /\ lookup'[r] = lookup[r]
        /\ reply'[r] = reply[r] /\ event'[r] = event[r] /\ post'[r] = post[r]
    BY <1>0, <1>1 DEF ParseReturns, Goto, TypeOK, ended
  <2>2. parsed[r] = None /\ lookup[r] = None /\ reply[r] = None /\ event[r] = None /\ post[r] = None
    BY <1>a, <2>1 DEF Undecided, Searched
  <2>3. Undecided(r)' /\ Posted(r)' /\ Answered(r)' /\ Captured(r)'
    BY <2>1, <2>2 DEF Undecided, Posted, Answered, Captured, Status
  <2>4. Admitted(r)'
    BY <1>0, <1>a, <1>b, <2>1 DEF Admitted, UaGateRejects, HasFingerprint, Presented
  <2>5. Searched(r)'
    BY <1>0, <1>b, <2>1, <2>2 DEF Searched, IsRequest
  <2> QED
    BY <2>3, <2>4, <2>5
<1>2. CASE ParseFails(r)
  <2>1. /\ pc[r] = "parsing" /\ pc'[r] = "posting" /\ parsed'[r] = Failed /\ lookup'[r] = lookup[r]
        /\ reply'[r] = reply[r] /\ event'[r] = event[r] /\ post'[r] = post[r]
    BY <1>0, <1>2 DEF ParseFails, Goto, TypeOK, ended
  <2>2. parsed[r] = None /\ lookup[r] = None /\ reply[r] = None /\ event[r] = None /\ post[r] = None
    BY <1>a, <2>1 DEF Undecided, Searched
  <2>3. Undecided(r)' /\ Posted(r)' /\ Answered(r)' /\ Captured(r)'
    BY <2>1, <2>2 DEF Undecided, Posted, Answered, Captured, Status
  <2>4. Admitted(r)'
    BY <1>0, <1>a, <1>b, <2>1 DEF Admitted, UaGateRejects, HasFingerprint, Presented
  <2>5. Searched(r)'
    BY <1>0, <2>1, <2>2 DEF Searched, IsRequest
  <2> QED
    BY <2>3, <2>4, <2>5
<1>3. CASE (\E a \in Answers : LookupReturns(r, a)) \/ LookupUnreachable(r) \/ Retry(r)
             \/ LookupFails(r) \/ LookupRaises(r)
  <2>1. /\ pc[r] \in {"searching", "retrying"} /\ parsed'[r] = parsed[r] /\ post'[r] = post[r]
        /\ event'[r] = event[r]
        /\ \/ /\ pc'[r] = "posting" /\ reply'[r] = reply[r]
              /\ lookup'[r] # None
           \/ /\ pc'[r] \in {"searching", "retrying"} /\ reply'[r] = reply[r]
              /\ lookup'[r] = lookup[r]
           \/ /\ pc'[r] = "answered" /\ reply'[r] = Bare("error")
              /\ lookup'[r] = Failed
    <3>1. CASE \E a \in Answers : LookupReturns(r, a)
      BY <1>0, <3>1 DEF LookupReturns, Goto, TypeOK, ended
    <3>2. CASE LookupUnreachable(r)
      BY <1>0, <3>2 DEF LookupUnreachable, Goto, TypeOK, ended
    <3>3. CASE Retry(r)
      BY <1>0, <3>3 DEF Retry, Goto, TypeOK, ended
    <3>4. CASE LookupFails(r)
      BY <1>0, <3>4 DEF LookupFails, Goto, TypeOK, ended
    <3>5. CASE LookupRaises(r)
      BY <1>0, <3>5 DEF LookupRaises, End, TypeOK
    <3> QED
      BY <1>3, <3>1, <3>2, <3>3, <3>4, <3>5
  <2>2. /\ IsRequest(r) /\ reply[r] = None /\ event[r] = None /\ post[r] = None
        /\ parsed[r] # None /\ config.lookup
    BY <1>0, <1>a, <2>1 DEF Undecided, Searched, IsRequest
  <2>3. Undecided(r)' /\ Posted(r)' /\ Answered(r)' /\ Captured(r)'
    BY <1>b, <2>1, <2>2 DEF Undecided, Posted, Answered, Captured, Status, Bare, CauseOfError
  <2>4. Admitted(r)'
    BY <1>a, <1>b, <2>1, <2>2 DEF Admitted, UaGateRejects, HasFingerprint, Presented
  <2>5. Searched(r)'
    BY <1>b, <2>1, <2>2 DEF Searched, IsRequest
  <2> QED
    BY <2>3, <2>4, <2>5
<1>4. CASE PostSkipped(r) \/ PostAccepted(r) \/ PostFails(r)
  <2>1. /\ pc[r] = "posting" /\ parsed'[r] = parsed[r] /\ lookup'[r] = lookup[r]
        /\ post'[r] = post[r] \/ post'[r] = Message(r)
    BY <1>0, <1>4 DEF PostSkipped, PostAccepted, PostFails, Appear, TypeOK
  <2>2. /\ pc'[r] = "answered"
        /\ \/ reply'[r] = UnifiedResponse(r) \/ reply'[r] = Bare("slack_failed")
           \/ reply'[r] = Bare("error") /\ config.posthog
        /\ event'[r] = event[r] \/ event'[r] = Telemetry(r)
    <3>1. CASE PostSkipped(r) \/ PostAccepted(r)
      BY <1>0, <3>1, CompleteAnswers DEF PostSkipped, PostAccepted
    <3>2. CASE PostFails(r)
      BY <1>0, <3>2 DEF PostFails, End, TypeOK
    <3> QED
      BY <1>4, <3>1, <3>2
  <2>3. /\ parsed[r] # None /\ (IsRequest(r) => lookup[r] # None)
        /\ reply[r] = None /\ event[r] = None /\ post[r] = None
    BY <1>a, <2>1 DEF Undecided, Searched
  <2>4. /\ UnifiedResponse(r)' = UnifiedResponse(r) /\ Telemetry(r)' = Telemetry(r)
        /\ Note(r)' = Note(r)
    BY <1>b, <2>1, ResultsStay
  <2>5. Undecided(r)' /\ Searched(r)'
    BY <1>a, <2>1, <2>2, <2>3 DEF Undecided, Searched, IsRequest
  <2>6. Admitted(r)'
    BY <1>a, <1>b, <2>1, <2>2 DEF Admitted, UaGateRejects, HasFingerprint, Presented
  <2>7. Posted(r)' /\ Captured(r)'
    <3>1. Message(r).note = Note(r)
      BY DEF Message
    <3>2. Posted(r)'
      BY <2>1, <2>3, <2>4, <3>1 DEF Posted
    <3>3. Captured(r)'
      BY <2>2, <2>3, <2>4 DEF Captured
    <3> QED
      BY <3>2, <3>3
  <2>8. Answered(r)'
    <3>1. Status(r)' = "ok" => reply'[r] = UnifiedResponse(r)'
      BY <2>2, <2>4 DEF Status, Bare
    <3>2. Status(r)' # "blocked"
      BY <2>2 DEF Status, Bare, UnifiedResponse
    <3>3. Status(r)' = "error" => CauseOfError(r)'
      <4>1. Status(r)' = "error" => config.posthog
        BY <2>2 DEF Status, Bare, UnifiedResponse
      <4> QED
        BY <1>b, <2>1, <2>3, <4>1 DEF CauseOfError
    <3> QED
      BY <2>1, <2>3, <3>1, <3>2, <3>3 DEF Answered, IsRequest
  <2> QED
    BY <2>5, <2>6, <2>7, <2>8
<1> QED
  BY <1>1, <1>2, <1>3, <1>4

(* A ban that is set or lifted is seen by whoever is still being decided.  *)
LEMMA SetBansIsGood ==
  ASSUME Inv, NEW new \in BanSets, SetBans(new), NEW r \in Requests
  PROVE  Good(r)'
<1> USE DEF Inv, Good
<1>1. /\ config' = config /\ bans' = new /\ pc'[r] = pc[r] /\ input'[r] = input[r]
      /\ outage'[r] = outage[r] /\ parsed'[r] = parsed[r] /\ lookup'[r] = lookup[r]
      /\ post'[r] = post[r] /\ reply'[r] = reply[r] /\ event'[r] = event[r]
      /\ always'[r] = IF pc[r] \in Deciding THEN always[r] \cap new ELSE always[r]
      /\ ever'[r] = IF pc[r] \in Deciding THEN ever[r] \cup new ELSE ever[r]
  BY DEF SetBans, TypeOK, ended
<1>2. Undecided(r)' /\ Searched(r)'
  BY <1>1 DEF Undecided, Searched, IsRequest
<1>3. Admitted(r)'
  BY <1>1 DEF Admitted, UaGateRejects, ChecksBans, HasFingerprint, Presented
<1>4. /\ UnifiedResponse(r)' = UnifiedResponse(r) /\ Telemetry(r)' = Telemetry(r)
      /\ Note(r)' = Note(r)
  BY <1>1, ResultsStay
<1>5. Posted(r)' /\ Captured(r)'
  BY <1>1, <1>4 DEF Posted, Captured, Blocked
<1>6. Answered(r)'
  BY <1>1, <1>4 DEF Answered, Status, IsRequest, Presented, CauseOfError
<1> QED
  BY <1>2, <1>3, <1>5, <1>6

(* Whoever is lost was not answered; at most its message is late.          *)
LEMMA RestartIsGood ==
  ASSUME Inv, Restart, NEW r \in Requests
  PROVE  Good(r)'
<1> USE DEF Inv, Good
<1>1. PICK late \in SUBSET {q \in Requests : pc[q] = "posting" /\ Wanted(q)} :
          post' = [q \in Requests |-> IF q \in late THEN Message(q) ELSE post[q]]
  BY DEF Restart
<1>2. /\ config' = config /\ bans' = bans /\ input'[r] = input[r]
      /\ pc'[r] = IF pc[r] \in Live THEN "lost" ELSE pc[r]
      /\ outage'[r] = outage[r] /\ parsed'[r] = parsed[r] /\ lookup'[r] = lookup[r]
      /\ reply'[r] = reply[r] /\ event'[r] = event[r]
      /\ always'[r] = always[r] /\ ever'[r] = ever[r]
  BY DEF Restart, TypeOK
<1>3. post'[r] = post[r] \/ (post'[r] = Message(r) /\ pc[r] = "posting")
  <2>1. r \in late => pc[r] = "posting"
    OBVIOUS
  <2>2. post'[r] = IF r \in late THEN Message(r) ELSE post[r]
    BY <1>1
  <2> QED
    BY <2>1, <2>2
<1>4. Undecided(r)' /\ Searched(r)'
  BY <1>2, <1>3 DEF Undecided, Searched, IsRequest, Live, Deciding
<1>5. Admitted(r)'
  BY <1>2 DEF Admitted, UaGateRejects, ChecksBans, HasFingerprint, Presented, Live, Deciding
<1>6. /\ UnifiedResponse(r)' = UnifiedResponse(r) /\ Telemetry(r)' = Telemetry(r)
      /\ Note(r)' = Note(r)
  BY <1>2, ResultsStay
<1>7. Posted(r)' /\ Captured(r)'
  BY <1>2, <1>3, <1>6 DEF Posted, Captured, Blocked, Message, Searched
<1>8. Answered(r)'
  BY <1>2, <1>3, <1>6 DEF Answered, Status, IsRequest, Presented, CauseOfError, Undecided, Live
<1> QED
  BY <1>4, <1>5, <1>7, <1>8

(* The inductive invariant holds initially and is kept by every step.      *)
THEOREM InvCorrect == Spec => []Inv
<1>1. ASSUME Init PROVE Inv
  <2>1. TypeOK
    BY <1>1, TypeInvariant
  <2>2. ASSUME NEW r \in Requests PROVE Good(r)
    BY <1>1 DEF Init, Good, Undecided, Admitted, Searched, Posted, Answered, Captured, Status,
         Deciding, Live
  <2> QED
    BY <2>1, <2>2 DEF Inv
<1>2. ASSUME Inv, [Next]_vars PROVE Inv'
  <2>1. TypeOK'
    BY <1>2, TypeInvariant DEF Inv
  <2>2. ASSUME NEW r \in Requests PROVE Good(r)'
    <3>1. CASE UNCHANGED vars
      <4>1. Same(r)
        BY <3>1 DEF vars, Same
      <4> QED
        BY <1>2, <4>1, SameIsGood DEF Inv
    <3>2. CASE Restart
      BY <1>2, <3>2, RestartIsGood
    <3>3. CASE \E new \in BanSets : SetBans(new)
      BY <1>2, <3>3, SetBansIsGood
    <3>4. ASSUME NEW s \in Requests, Handle(s) \/ \E i \in Inputs : Arrive(s, i) PROVE Good(r)'
      <4>1. CASE s = r
        <5>1. \/ \E i \in Inputs : Arrive(r, i)
              \/ WebhookFetched(r) \/ WebhookUnavailable(r) \/ Gate(r)
              \/ BanVerdict(r) \/ BanCheckUnavailable(r) \/ BanCheckRaises(r)
              \/ \E p \in Parsed : ParseReturns(r, p)
              \/ ParseFails(r)
              \/ \E a \in Answers : LookupReturns(r, a)
              \/ LookupUnreachable(r) \/ Retry(r) \/ LookupFails(r) \/ LookupRaises(r)
              \/ PostSkipped(r) \/ PostAccepted(r) \/ PostFails(r)
          BY <3>4, <4>1, Zenon DEF Handle
        <5> QED
          BY <1>2, <5>1, DecidingIsGood, WorkingIsGood, Zenon
      <4>2. CASE s # r
        <5>1. Same(r)
          BY <1>2, <3>4, <4>2, OthersStay DEF Inv
        <5> QED
          BY <1>2, <5>1, SameIsGood DEF Inv
      <4> QED
        BY <4>1, <4>2
    <3> QED
      BY <1>2, <3>1, <3>2, <3>3, <3>4, Zenon DEF Next
  <2> QED
    BY <2>1, <2>2 DEF Inv
<1> QED
  BY <1>1, <1>2, PTL DEF Spec

----------------------------------------------------------------------------
(* What follows from it. *)

(* BansDecide: no banned listener is let through, no other is kept out.    *)
THEOREM BansCorrect == Spec => []BansDecide
<1>1. ASSUME Inv PROVE BansDecide
  <2> SUFFICES ASSUME NEW r \in Requests
               PROVE  /\ parsed[r] # None /\ config.strict /\ input[r].known_client
                           => input[r].device = "valid"
                      /\ parsed[r] # None /\ config.ban_check = "on" /\ ~outage[r]
                           /\ input[r].user # "stale" => Presented(input[r]) \cap always[r] = {}
                      /\ Status(r) = "blocked" =>
                           \/ Presented(input[r]) \cap ever[r] # {}
                           \/ config.strict /\ input[r].known_client /\ input[r].device # "valid"
    BY Zenon DEF BansDecide
  <2>1. Admitted(r) /\ Answered(r)
    BY <1>1 DEF Inv, Good
  <2> QED
    BY <2>1 DEF Admitted, Answered, UaGateRejects, HasFingerprint
<1> QED
  BY <1>1, InvCorrect, PTL

(* ServerErrorsAreKnown: every 500 has one of its four causes, and only    *)
(* the telemetry's may leave a message in the channel.                     *)
THEOREM ErrorsCorrect == Spec => []ServerErrorsAreKnown
<1>1. Inv => ServerErrorsAreKnown
  BY DEF Inv, Good, Answered, ServerErrorsAreKnown
<1> QED
  BY <1>1, InvCorrect, PTL

(* OutagesAreVisible: the channel and the event show every outage.         *)
THEOREM OutagesCorrect == Spec => []OutagesAreVisible
<1>1. ASSUME Inv, NEW r \in Requests, post[r] # None, parsed[r] = Failed \/ lookup[r] = Failed
      PROVE  post[r].note = DegradedMode(r)
  <2>1. post[r].note = Note(r) /\ (lookup[r] # None => IsRequest(r))
    BY <1>1 DEF Inv, Good, Posted, Searched
  <2>2. \A p \in Parsed : p # Failed
    BY PipelineConstants
  <2>3. Failed # None
    BY PipelineConstants
  <2> QED
    BY <1>1, <2>1, <2>2, <2>3 DEF Note, DegradedMode, IsRequest
<1>2. ASSUME Inv, NEW r \in Requests, event[r] # None, outage[r]
      PROVE  event[r].ban_check_degraded /\ event[r].degraded_mode # "none"
  <2>1. event[r] = Telemetry(r)
    BY <1>2 DEF Inv, Good, Captured
  <2> QED
    BY <1>2, <2>1 DEF Telemetry, OutageFlag, DegradedMode
<1>3. Inv => OutagesAreVisible
  BY <1>1, <1>2 DEF OutagesAreVisible
<1> QED
  BY <1>3, InvCorrect, PTL

(* What is delivered of an answer announces a find only over rows, has     *)
(* rows just where the answer has shelved ones, and says "not found" just  *)
(* where LML did or all of its rows were stripped.                         *)
LEMMA DeliveredAgrees ==
  ASSUME \A a \in Answers : Consistent(a), NEW r \in Requests, lookup[r] \in Answers
  PROVE  /\ SaysFound(Delivered(r)) => Delivered(r).results # {}
         /\ SaysMissing(Delivered(r)) <=>
              SaysMissing(lookup[r]) \/ lookup[r].results = {"external"}
         /\ Delivered(r).results # {} <=> "shelved" \in lookup[r].results
<1>1. Consistent(lookup[r]) /\ lookup[r] \in Answer
  BY PipelineConstants
<1>2. Delivered(r) = Reconciled(parsed[r], lookup[r]) /\ lookup[r].results \subseteq {"shelved", "external"}
  BY <1>1 DEF Delivered, Answer, Rows
<1>3. CASE lookup[r].results # {} /\ "shelved" \notin lookup[r].results
  <2>1. Delivered(r) = NotInLibrary(parsed[r])
    BY <1>2, <1>3 DEF Reconciled
  <2>2. /\ Delivered(r).results = {} /\ Delivered(r).context # "found"
        /\ ~Delivered(r).found_on_compilation /\ Delivered(r).song_not_found
    BY <2>1 DEF NotInLibrary, NotSearched
  <2>3. lookup[r].results = {"external"}
    BY <1>2, <1>3
  <2> QED
    BY <1>3, <2>2, <2>3 DEF SaysFound, SaysMissing
<1>4. CASE lookup[r].results = {} \/ "shelved" \in lookup[r].results
  <2>1. Delivered(r) = AsSent(lookup[r])
    BY <1>2, <1>4 DEF Reconciled
  <2>2. /\ Delivered(r).results = lookup[r].results \ {"external"}
        /\ Delivered(r).context = lookup[r].context
        /\ Delivered(r).song_not_found = lookup[r].song_not_found
        /\ Delivered(r).found_on_compilation = lookup[r].found_on_compilation
    BY <1>1, <2>1 DEF AsSent, Answer
  <2> QED
    BY <1>1, <1>2, <1>4, <2>2 DEF Consistent, SaysFound, SaysMissing
<1> QED
  BY <1>3, <1>4

(* VerdictMatchesRows: what is said of the search agrees with its rows.    *)
THEOREM VerdictCorrect ==
  ASSUME \A a \in Answers : Consistent(a)
  PROVE  Spec => []VerdictMatchesRows
<1>1. ASSUME Inv PROVE VerdictMatchesRows
  <2>1. ASSUME NEW r \in Requests, Status(r) = "ok" PROVE reply[r].found = Delivered(r)
    <3>1. Answered(r)
      BY <1>1 DEF Inv, Good
    <3>2. reply[r] = UnifiedResponse(r)
      BY <2>1, <3>1 DEF Answered
    <3> QED
      BY <3>2 DEF UnifiedResponse
  <2> QED
    BY <2>1, DeliveredAgrees DEF VerdictMatchesRows
<1> QED
  BY <1>1, InvCorrect, PTL

(* OperatorIsNotMisled: both scripts tell of every outage, and print "no   *)
(* results" without better above it only of a search LML answered.         *)
THEOREM OperatorCorrect ==
  ASSUME \A a \in Answers : Consistent(a)
  PROVE  Spec => []OperatorIsNotMisled
<1>1. ASSUME Inv, NEW r \in Requests, Status(r) = "ok", FromCli(input[r])
      PROVE  LET cli == run_lookup(Body(r))
                 repl == print_result(Body(r))
                 bare == lookup[r] \in Answers /\ "shelved" \notin lookup[r].results
             IN  /\ parsed[r] = Failed \/ lookup[r] = Failed =>
                      /\ cli.search = DegradedMode(r)
                      /\ DegradedMode(r) \in {repl.parsed} \cup repl.library
                 /\ cli.search \in {"compilation", "other_albums", "direct"} =>
                      lookup[r] \in Answers /\ "shelved" \in lookup[r].results
                 /\ cli.search = "no_results" => bare
                 /\ "no_results" \in cli.library => bare \/ cli.search = "search_unavailable"
                 /\ "no_results" \in repl.library => bare \/ repl.parsed = "other"
                 /\ "found" \in cli.library => "rows" \in cli.library
  <2> DEFINE data == Body(r)
             mode == describe_degraded_mode(data)
  <2>1. /\ reply[r] = UnifiedResponse(r) /\ parsed[r] # None
        /\ IsRequest(r) => lookup[r] # None
        /\ lookup[r] # None => IsRequest(r)
        /\ TypeOK
    BY <1>1 DEF Inv, Good, Answered, Searched
  <2>2. /\ Failed # None /\ None \notin Answers /\ Failed \notin Answers
        /\ None \notin Parsed /\ Failed \notin Parsed
    BY PipelineConstants
  <2>3. /\ parsed[r] = Failed \/ parsed[r] \in Parsed
        /\ lookup[r] \in {None, Failed} \cup Answers
    BY <2>1 DEF TypeOK
  <2>4. /\ data.found = Delivered(r)
        /\ data.parsed = IF parsed[r] = Failed THEN "null"
                         ELSE IF parsed[r].is_request THEN "request" ELSE "other"
        /\ data.degraded_mode = IF NotARequest(r) THEN "none" ELSE DegradedMode(r)
    BY <2>1 DEF Body, UnifiedResponse
  <2>5. /\ None \notin Modes
        /\ mode = IF data.degraded_mode = "none" THEN None ELSE data.degraded_mode
    BY ResultConstants DEF describe_degraded_mode
  <2>6. CASE parsed[r] = Failed
    <3>1. data.parsed = "null" /\ mode = "parsing_unavailable" /\ DegradedMode(r) = mode
      BY <2>4, <2>5, <2>6 DEF DegradedMode, NotARequest
    <3>2. mode # None
      BY <2>5, <3>1 DEF Modes
    <3>3. /\ run_lookup(data).search = mode /\ run_lookup(data).library = {}
          /\ print_result(data).parsed = mode /\ print_result(data).library = {}
      BY <3>1, <3>2 DEF run_lookup, print_result, print_parsed_request, print_search_summary
    <3> QED
      BY <3>1, <3>3
  <2>7. CASE parsed[r] \in Parsed /\ parsed[r].is_request /\ lookup[r] = Failed
    <3>1. data.parsed = "request" /\ mode = "search_unavailable" /\ DegradedMode(r) = mode
      BY <2>2, <2>4, <2>5, <2>7 DEF DegradedMode, NotARequest
    <3>2. mode # None
      BY <2>5, <3>1 DEF Modes
    <3>3. data.found.results = {} /\ data.found.context = "none"
      BY <2>2, <2>4, <2>7 DEF Delivered, NotSearched
    <3>4. /\ run_lookup(data).search = mode /\ run_lookup(data).library = {"no_results"}
          /\ print_result(data).library = {mode}
      BY <3>1, <3>2, <3>3 DEF run_lookup, print_result, print_search_summary, print_library_results
    <3> QED
      BY <2>2, <2>7, <3>1, <3>4
  <2>8. CASE parsed[r] \in Parsed /\ parsed[r].is_request /\ lookup[r] \in Answers
    <3>1. /\ data.parsed = "request"
          /\ data.degraded_mode \in {"none", "ban_check_unavailable"}
      BY <2>2, <2>4, <2>8 DEF DegradedMode, NotARequest
    <3>2. /\ data.found.results = {} => data.found.context # "found" /\ ~data.found.found_on_compilation
          /\ data.found.results # {} <=> "shelved" \in lookup[r].results
      BY <2>4, <2>8, DeliveredAgrees DEF SaysFound
    <3>3. /\ run_lookup(data).search = print_search_summary(data)
          /\ run_lookup(data).library = print_library_results(data)
          /\ "no_results" \in print_result(data).library => data.found.results = {}
      BY <2>5, <3>1 DEF run_lookup, print_result
    <3>4. /\ print_search_summary(data) \in {"compilation", "other_albums", "direct"} => data.found.results # {}
          /\ print_search_summary(data) = "no_results" => data.found.results = {}
      BY <2>5, <3>1, <3>2 DEF print_search_summary
    <3>5. data.found \in Found
      BY <2>1, <2>4, ResultsTyped
    <3>6. /\ "found" \in print_library_results(data) => "rows" \in print_library_results(data)
          /\ "no_results" \in print_library_results(data) => data.found.results = {}
      BY <2>4, <3>2, <3>5 DEF print_library_results, Found, Contexts
    <3> QED
      BY <2>2, <2>8, <3>2, <3>3, <3>4, <3>6
  <2>9. CASE parsed[r] \in Parsed /\ ~parsed[r].is_request
    <3>1. NotARequest(r) /\ lookup[r] = None /\ data.parsed = "other" /\ mode = None
      BY <2>1, <2>2, <2>4, <2>5, <2>9 DEF NotARequest, IsRequest
    <3>2. run_lookup(data).search = "not_searched" /\ run_lookup(data).library = {}
      BY <3>1 DEF run_lookup, print_search_summary
    <3>3. print_result(data).parsed = "other"
      BY <3>1 DEF print_result, print_parsed_request
    <3> QED
      BY <2>2, <2>9, <3>1, <3>2, <3>3
  <2>10. parsed[r] \in Parsed /\ parsed[r].is_request => lookup[r] = Failed \/ lookup[r] \in Answers
    BY <2>1, <2>3 DEF IsRequest
  <2> QED
    BY <2>3, <2>6, <2>7, <2>8, <2>9, <2>10
<1>2. Inv => OperatorIsNotMisled
  BY <1>1 DEF OperatorIsNotMisled
<1> QED
  BY <1>2, InvCorrect, PTL

----------------------------------------------------------------------------
(* The pipeline implements ListenerRequest. *)

(* Nothing is in the channel before a request ends. *)
Unposted == \A r \in Requests : pc[r] \in {"unsent"} \cup Live => copies[r] = 0

(* What is posted is posted at the end. *)
LEMMA PostedLast ==
  ASSUME TypeOK, NEW r \in Requests, Handle(r) \/ \E i \in Inputs : Arrive(r, i)
  PROVE  /\ \A s \in Requests \ {r} : copies'[s] = copies[s]
         /\ copies'[r] = copies[r] \/ (pc'[r] = "answered" /\ copies'[r] = copies[r] + 1 /\ Wanted(r))
         /\ config' = config
<1> USE DEF TypeOK, world, ended
<1>1. CASE \E i \in Inputs : Arrive(r, i)
  BY <1>1 DEF Arrive
<1>2. CASE WebhookFetched(r) \/ WebhookUnavailable(r) \/ Gate(r) \/ BanVerdict(r)
  BY <1>2 DEF WebhookFetched, WebhookUnavailable, Gate, BanVerdict
<1>3. CASE BanCheckUnavailable(r) \/ BanCheckRaises(r) \/ ParseFails(r)
  BY <1>3 DEF BanCheckUnavailable, BanCheckRaises, ParseFails
<1>4. CASE \E p \in Parsed : ParseReturns(r, p)
  BY <1>4 DEF ParseReturns
<1>5. CASE \E a \in Answers : LookupReturns(r, a)
  BY <1>5 DEF LookupReturns
<1>6. CASE LookupUnreachable(r) \/ Retry(r) \/ LookupFails(r) \/ LookupRaises(r)
  BY <1>6 DEF LookupUnreachable, Retry, LookupFails, LookupRaises
<1>7. CASE PostSkipped(r)
  BY <1>7 DEF PostSkipped
<1>8. CASE PostAccepted(r)
  <2>1. pc'[r] = "answered"
    BY <1>8, CompleteAnswers DEF PostAccepted
  <2> QED
    BY <1>8, <2>1 DEF PostAccepted, Appear
<1>9. CASE PostFails(r)
  <2>1. pc'[r] = "answered"
    BY <1>9 DEF PostFails, End
  <2> QED
    BY <1>9, <2>1 DEF PostFails, Appear
<1> QED
  BY <1>1, <1>2, <1>3, <1>4, <1>5, <1>6, <1>7, <1>8, <1>9, Zenon DEF Handle

LEMMA UnpostedInvariant ==
  ASSUME Inv, Unposted, [Next]_vars
  PROVE  Unposted'
<1>1. CASE UNCHANGED vars
  BY <1>1 DEF vars, Unposted
<1>2. CASE Restart
  <2>1. ASSUME NEW r \in Requests, pc'[r] \in {"unsent"} \cup Live PROVE copies'[r] = 0
    <3>1. pc'[r] = pc[r] /\ pc[r] \notin Live
      BY <1>2, <2>1 DEF Restart, Live, Deciding
    <3>2. copies'[r] = copies[r]
      BY <1>2, <3>1 DEF Restart, Live
    <3> QED
      BY <2>1, <3>1, <3>2 DEF Unposted
  <2> QED
    BY <2>1 DEF Unposted
<1>3. CASE \E new \in BanSets : SetBans(new)
  BY <1>3 DEF SetBans, ended, Unposted
<1>4. ASSUME NEW s \in Requests, Handle(s) \/ \E i \in Inputs : Arrive(s, i) PROVE Unposted'
  <2>1. ASSUME NEW r \in Requests, pc'[r] \in {"unsent"} \cup Live PROVE copies'[r] = 0
    <3>1. CASE r # s
      BY <1>4, <2>1, <3>1, OthersStay, PostedLast DEF Inv, Same, Unposted
    <3>2. CASE r = s
      <4>1. copies'[r] = copies[r]
        BY <1>4, <2>1, <3>2, PostedLast DEF Inv, Live, Deciding
      <4>2. pc[r] \in {"unsent"} \cup Live
        <5>1. \/ \E i \in Inputs : Arrive(r, i)
              \/ WebhookFetched(r) \/ WebhookUnavailable(r) \/ Gate(r)
              \/ BanVerdict(r) \/ BanCheckUnavailable(r) \/ BanCheckRaises(r)
              \/ \E p \in Parsed : ParseReturns(r, p)
              \/ ParseFails(r)
              \/ \E a \in Answers : LookupReturns(r, a)
              \/ LookupUnreachable(r) \/ Retry(r) \/ LookupFails(r) \/ LookupRaises(r)
              \/ PostSkipped(r) \/ PostAccepted(r) \/ PostFails(r)
          BY <1>4, <3>2, Zenon DEF Handle
        <5> QED
          BY <5>1 DEF Arrive, WebhookFetched, WebhookUnavailable, Gate, BanVerdict,
             BanCheckUnavailable, BanCheckRaises, ParseReturns, ParseFails, LookupReturns,
             LookupUnreachable, Retry, LookupFails, LookupRaises, PostSkipped, PostAccepted,
             PostFails, Live, Deciding
      <4> QED
        BY <4>1, <4>2 DEF Unposted
    <3> QED
      BY <3>1, <3>2
  <2> QED
    BY <2>1 DEF Unposted
<1> QED
  BY <1>1, <1>2, <1>3, <1>4, Zenon DEF Next

(* What a step of a handler is to the listener. *)
Continues(r) ==
  pc'[r] \in Live /\ reply'[r] = reply[r] /\ copies'[r] = copies[r]
TurnsAway(r) ==
  /\ pc'[r] = "answered" /\ copies'[r] = copies[r]
  /\ \E s \in {"empty", "blocked", "error"} : reply'[r] = Bare(s)
Finishes(r) ==
  /\ pc'[r] = "answered"
  /\ copies'[r] = copies[r] + (IF Wanted(r) THEN 1 ELSE 0)
  /\ reply'[r] = UnifiedResponse(r)
Breaks(r) ==
  /\ pc'[r] = "answered"
  /\ copies'[r] = copies[r] \/ (Wanted(r) /\ copies'[r] = copies[r] + 1)
  /\ \E s \in {"error", "slack_failed"} : reply'[r] = Bare(s)

LEMMA HandleOutcomes ==
  ASSUME TypeOK, NEW r \in Requests, Handle(r)
  PROVE  /\ pc[r] \in Live /\ config' = config /\ input' = input
         /\ Continues(r) \/ TurnsAway(r) \/ Finishes(r) \/ Breaks(r)
<1> USE DEF TypeOK, world, ended, Live, Deciding
<1>1. CASE WebhookFetched(r)
  BY <1>1 DEF WebhookFetched, Goto, Continues
<1>2. CASE WebhookUnavailable(r)
  BY <1>2 DEF WebhookUnavailable, End, TurnsAway
<1>3. CASE Gate(r)
  <2>1. CASE input[r].empty
    BY <1>3, <2>1 DEF Gate, End, TurnsAway
  <2>2. CASE ~input[r].empty /\ UaGateRejects(input[r])
    BY <1>3, <2>2, BlockAnswers DEF Gate, TurnsAway
  <2>3. CASE ~input[r].empty /\ ~UaGateRejects(input[r])
    BY <1>3, <2>3 DEF Gate, Goto, Continues
  <2> QED
    BY <2>1, <2>2, <2>3
<1>4. CASE BanVerdict(r)
  <2>1. CASE Banned(input[r])
    BY <1>4, <2>1, BlockAnswers DEF BanVerdict, TurnsAway
  <2>2. CASE ~Banned(input[r])
    BY <1>4, <2>2 DEF BanVerdict, Goto, Continues
  <2> QED
    BY <2>1, <2>2
<1>5. CASE BanCheckUnavailable(r)
  BY <1>5 DEF BanCheckUnavailable, Goto, Continues
<1>6. CASE BanCheckRaises(r)
  BY <1>6 DEF BanCheckRaises, End, TurnsAway
<1>7. CASE \E p \in Parsed : ParseReturns(r, p)
  BY <1>7 DEF ParseReturns, Goto, Continues
<1>8. CASE ParseFails(r)
  BY <1>8 DEF ParseFails, Goto, Continues
<1>9. CASE \E a \in Answers : LookupReturns(r, a)
  BY <1>9 DEF LookupReturns, Goto, Continues
<1>10. CASE LookupUnreachable(r) \/ Retry(r) \/ LookupFails(r)
  BY <1>10 DEF LookupUnreachable, Retry, LookupFails, Goto, Continues
<1>11. CASE LookupRaises(r)
  BY <1>11 DEF LookupRaises, End, TurnsAway
<1>12. CASE PostSkipped(r)
  BY <1>12, CompleteAnswers DEF PostSkipped, Finishes, Breaks
<1>13. CASE PostAccepted(r)
  <2>1. copies'[r] = copies[r] + 1
    BY <1>13 DEF PostAccepted, Appear
  <2> QED
    BY <1>13, <2>1, CompleteAnswers DEF PostAccepted, Finishes, Breaks
<1>14. CASE PostFails(r)
  <2>1. copies'[r] = copies[r] \/ copies'[r] = copies[r] + 1
    BY <1>14 DEF PostFails, Appear
  <2> QED
    BY <1>14, <2>1 DEF PostFails, End, Breaks
<1> QED
  BY <1>1, <1>2, <1>3, <1>4, <1>5, <1>6, <1>7, <1>8, <1>9, <1>10, <1>11, <1>12, <1>13, <1>14,
     Zenon DEF Handle

(* A request that ends here, ends there. *)
LEMMA EndImplemented ==
  ASSUME TypeOK, TypeOK', NEW r \in Requests, NEW answer, NEW n,
         \A s \in Requests \ {r} : Same(s) /\ copies'[s] = copies[s],
         config' = config, input' = input,
         pc[r] \in Live, pc'[r] = "answered", Status(r)' = answer, copies'[r] = n
  PROVE  Promise!End(r, answer, n)
<1>1. /\ Stage(r) = "live" /\ Stage(r)' = "ended"
      /\ \A s \in Requests \ {r} : Stage(s)' = Stage(s)
  BY DEF Stage, Live, Deciding, Same
<1>2. \A s \in Requests \ {r} : Status(s)' = Status(s)
  BY DEF Status, Same
<1>3. \A s \in Requests : (input[s] # None /\ Wanted(s))' = (input[s] # None /\ Wanted(s))
  BY DEF Wanted
<1>4. [s \in Requests |-> Stage(s)]' = [[s \in Requests |-> Stage(s)] EXCEPT ![r] = "ended"]
  BY <1>1
<1>5. [s \in Requests |-> Status(s)]' = [[s \in Requests |-> Status(s)] EXCEPT ![r] = answer]
  BY <1>2
<1>6. copies' = [copies EXCEPT ![r] = n]
  BY DEF TypeOK
<1>7. [s \in Requests |-> input[s] # None /\ Wanted(s)]' = [s \in Requests |-> input[s] # None /\ Wanted(s)]
  BY <1>3
<1> QED
  BY <1>1, <1>4, <1>5, <1>6, <1>7 DEF Promise!End

LEMMA HandleImplemented ==
  ASSUME Inv, TypeOK', Unposted, NEW r \in Requests, Handle(r)
  PROVE  Promise!Next \/ UNCHANGED Promise!vars
<1>1. /\ pc[r] \in Live /\ config' = config /\ input' = input
      /\ Continues(r) \/ TurnsAway(r) \/ Finishes(r) \/ Breaks(r)
  BY HandleOutcomes DEF Inv
<1>2. \A s \in Requests \ {r} : Same(s) /\ copies'[s] = copies[s]
  BY OthersStay, PostedLast DEF Inv
<1>3. copies[r] = 0 /\ input[r] # None
  BY <1>1 DEF Unposted, Inv, Good, Admitted, Live, Deciding
<1>4. CASE Continues(r)
  <2>1. \A s \in Requests : Stage(s)' = Stage(s) /\ Status(s)' = Status(s)
    BY <1>1, <1>2, <1>4 DEF Continues, Stage, Status, Same, Live, Deciding
  <2>2. \A s \in Requests : (input[s] # None /\ Wanted(s))' = (input[s] # None /\ Wanted(s))
    BY <1>1 DEF Wanted
  <2>3. copies' = copies
    BY <1>2, <1>4 DEF Continues, Inv, TypeOK
  <2>4. [s \in Requests |-> Stage(s)]' = [s \in Requests |-> Stage(s)]
    BY <2>1
  <2>5. [s \in Requests |-> Status(s)]' = [s \in Requests |-> Status(s)]
    BY <2>1
  <2>6. [s \in Requests |-> input[s] # None /\ Wanted(s)]' = [s \in Requests |-> input[s] # None /\ Wanted(s)]
    BY <2>2
  <2> QED
    BY <2>3, <2>4, <2>5, <2>6 DEF Promise!vars
<1>5. CASE TurnsAway(r)
  <2>1. PICK s \in {"empty", "blocked", "error"} : reply'[r] = Bare(s)
    BY <1>5 DEF TurnsAway
  <2>2. Status(r)' = s
    BY <2>1, BareTyped, ResultConstants DEF Status, Bare
  <2>3. Promise!End(r, s, 0)
    BY <1>1, <1>2, <1>3, <1>5, <2>2, EndImplemented DEF TurnsAway, Inv
  <2>4. Promise!Refuse(r) \/ Promise!Fail(r)
    BY <2>3 DEF Promise!Refuse, Promise!Fail
  <2> QED
    BY <2>4 DEF Promise!Next
<1>6. CASE Finishes(r)
  <2>1. UnifiedResponse(r) \in Reply
    BY ResultsTyped DEF Inv
  <2>2. Status(r)' = "ok"
    BY <1>6, <2>1, ResultConstants DEF Finishes, Status, UnifiedResponse
  <2>3. Promise!Accept(r)
    <3>1. CASE Wanted(r)
      <4>1. Promise!End(r, "ok", 1)
        BY <1>1, <1>2, <1>3, <1>6, <2>2, <3>1, EndImplemented DEF Finishes, Inv
      <4> QED
        BY <1>3, <3>1, <4>1 DEF Promise!Accept
    <3>2. CASE ~Wanted(r)
      <4>1. Promise!End(r, "ok", 0)
        BY <1>1, <1>2, <1>3, <1>6, <2>2, <3>2, EndImplemented DEF Finishes, Inv
      <4> QED
        BY <1>3, <3>2, <4>1 DEF Promise!Accept
    <3> QED
      BY <3>1, <3>2
  <2> QED
    BY <2>3 DEF Promise!Next
<1>7. CASE Breaks(r)
  <2>1. PICK s \in {"error", "slack_failed"} : reply'[r] = Bare(s)
    BY <1>7 DEF Breaks
  <2>2. Status(r)' = s
    BY <2>1, BareTyped, ResultConstants DEF Status, Bare
  <2>3. CASE copies'[r] = copies[r]
    <3>1. Promise!End(r, s, 0)
      BY <1>1, <1>2, <1>3, <1>7, <2>2, <2>3, EndImplemented DEF Breaks, Inv
    <3>2. Promise!Fail(r)
      BY <3>1 DEF Promise!Fail
    <3> QED
      BY <3>2 DEF Promise!Next
  <2>4. CASE Wanted(r) /\ copies'[r] = copies[r] + 1
    <3>1. Promise!End(r, s, 1)
      BY <1>1, <1>2, <1>3, <1>7, <2>2, <2>4, EndImplemented DEF Breaks, Inv
    <3>2. Promise!Fail(r)
      BY <1>3, <2>4, <3>1 DEF Promise!Fail
    <3> QED
      BY <3>2 DEF Promise!Next
  <2> QED
    BY <1>7, <2>3, <2>4 DEF Breaks
<1> QED
  BY <1>1, <1>4, <1>5, <1>6, <1>7

LEMMA ArriveImplemented ==
  ASSUME Inv, TypeOK', NEW r \in Requests, NEW i \in Inputs, Arrive(r, i)
  PROVE  Promise!Next
<1>1. /\ pc[r] = "unsent" /\ pc'[r] \in Live /\ config' = config /\ input'[r] = i /\ i # None
      /\ copies' = copies /\ reply' = reply
      /\ \A s \in Requests \ {r} : pc'[s] = pc[s] /\ input'[s] = input[s]
  BY PipelineConstants DEF Arrive, Goto, ended, Inv, TypeOK, Live, Deciding
<1>2. \A s \in Requests : Stage(s)' = IF s = r THEN "live" ELSE Stage(s)
  BY <1>1 DEF Stage, Live, Deciding
<1>3. \A s \in Requests : Status(s)' = Status(s)
  BY <1>1 DEF Status
<1>4. \A s \in Requests \ {r} : (input[s] # None /\ Wanted(s))' = (input[s] # None /\ Wanted(s))
  BY <1>1 DEF Wanted
<1>5. PICK w \in BOOLEAN : (input[r] # None /\ Wanted(r))' = w
  OBVIOUS
<1>6. [s \in Requests |-> Stage(s)]' = [[s \in Requests |-> Stage(s)] EXCEPT ![r] = "live"]
  BY <1>2
<1>7. [s \in Requests |-> Status(s)]' = [s \in Requests |-> Status(s)]
  BY <1>3
<1>8. [s \in Requests |-> input[s] # None /\ Wanted(s)]'
        = [[s \in Requests |-> input[s] # None /\ Wanted(s)] EXCEPT ![r] = w]
  BY <1>4, <1>5
<1>9. [s \in Requests |-> Stage(s)][r] = "unsent"
  BY <1>1 DEF Stage
<1>10. Promise!Arrive(r)
  BY <1>1, <1>6, <1>7, <1>8, <1>9 DEF Promise!Arrive
<1> QED
  BY <1>10 DEF Promise!Next

LEMMA RestartImplemented ==
  ASSUME Inv, Unposted, Restart
  PROVE  Promise!Next
<1> DEFINE dead == {r \in Requests : [s \in Requests |-> Stage(s)][r] = "live"}
<1>0. TypeOK /\ (\A r \in Requests : pc[r] # "unsent" => input[r] # None)
  BY DEF Inv, Good, Admitted
<1>1. PICK late \in SUBSET {r \in Requests : pc[r] = "posting" /\ Wanted(r)} :
          copies' = [r \in Requests |-> IF r \in late THEN copies[r] + 1 ELSE copies[r]]
  BY DEF Restart
<1>2. /\ pc' = [r \in Requests |-> IF pc[r] \in Live THEN "lost" ELSE pc[r]]
      /\ config' = config /\ input' = input /\ reply' = reply
  BY DEF Restart
<1>3. \A r \in Requests : r \in dead <=> pc[r] \in Live
  BY <1>0 DEF Stage, TypeOK, Live, Deciding
<1>4. \A r \in Requests : Stage(r)' = IF r \in dead THEN "ended" ELSE [s \in Requests |-> Stage(s)][r]
  BY <1>2, <1>3 DEF Stage, Live, Deciding
<1>5. [s \in Requests |-> Stage(s)]'
        = [r \in Requests |-> IF r \in dead THEN "ended" ELSE [s \in Requests |-> Stage(s)][r]]
  BY <1>4
<1>6. late \in SUBSET {r \in dead : [s \in Requests |-> input[s] # None /\ Wanted(s)][r]}
  BY <1>0, <1>1, <1>3 DEF Live
<1>7. copies' = [r \in Requests |-> IF r \in late THEN 1 ELSE copies[r]]
  <2>1. \A r \in late : copies[r] = 0
    BY <1>1 DEF Unposted, Live
  <2> QED
    BY <1>1, <2>1
<1>8. \A s \in Requests : /\ Status(s)' = Status(s)
                          /\ (input[s] # None /\ Wanted(s))' = (input[s] # None /\ Wanted(s))
  BY <1>2 DEF Status, Wanted
<1>9. [s \in Requests |-> Status(s)]' = [s \in Requests |-> Status(s)]
  BY <1>8
<1>10. [s \in Requests |-> input[s] # None /\ Wanted(s)]' = [s \in Requests |-> input[s] # None /\ Wanted(s)]
  BY <1>8
<1>11. Promise!Die
  <2>1. dead \in SUBSET {r \in Requests : [s \in Requests |-> Stage(s)][r] = "live"}
    OBVIOUS
  <2>2. \E l \in SUBSET {r \in dead : [s \in Requests |-> input[s] # None /\ Wanted(s)][r]} :
          copies' = [r \in Requests |-> IF r \in l THEN 1 ELSE copies[r]]
    BY <1>6, <1>7
  <2> HIDE DEF dead
  <2> QED
    BY <1>5, <1>9, <1>10, <2>1, <2>2 DEF Promise!Die
<1> QED
  BY <1>11 DEF Promise!Next

LEMMA SetBansImplemented ==
  ASSUME NEW new \in BanSets, SetBans(new)
  PROVE  UNCHANGED Promise!vars
<1>1. /\ config' = config /\ input' = input /\ pc' = pc /\ reply' = reply /\ copies' = copies
  BY DEF SetBans, ended
<1>2. \A s \in Requests : /\ Stage(s)' = Stage(s) /\ Status(s)' = Status(s)
                          /\ (input[s] # None /\ Wanted(s))' = (input[s] # None /\ Wanted(s))
  BY <1>1 DEF Stage, Status, Wanted
<1> QED
  BY <1>1, <1>2 DEF Promise!vars

(* KeepsPromise: for any number of concurrent requests, whatever fails, a  *)
(* listener is answered once, and "ok" is in the channel exactly once.     *)
THEOREM PromiseKept == Spec => KeepsPromise
<1>1. ASSUME Init PROVE Promise!Init /\ Unposted
  <2>1. \A r \in Requests : /\ Stage(r) = "unsent" /\ Status(r) = "none"
                            /\ (input[r] # None /\ Wanted(r)) = FALSE
    BY <1>1 DEF Init, Stage, Status
  <2> QED
    BY <1>1, <2>1 DEF Init, Promise!Init, Unposted
<1>2. ASSUME Inv, Inv', Unposted, [Next]_vars PROVE [Promise!Next]_(Promise!vars)
  <2>1. CASE UNCHANGED vars
    <3>1. \A s \in Requests : /\ Stage(s)' = Stage(s) /\ Status(s)' = Status(s)
                              /\ (input[s] # None /\ Wanted(s))' = (input[s] # None /\ Wanted(s))
      BY <2>1 DEF vars, Stage, Status, Wanted
    <3> QED
      BY <2>1, <3>1 DEF vars, Promise!vars
  <2>2. CASE Restart
    BY <1>2, <2>2, RestartImplemented
  <2>3. CASE \E new \in BanSets : SetBans(new)
    BY <2>3, SetBansImplemented
  <2>4. ASSUME NEW r \in Requests, Handle(r) PROVE [Promise!Next]_(Promise!vars)
    BY <1>2, <2>4, HandleImplemented DEF Inv
  <2>5. ASSUME NEW r \in Requests, NEW i \in Inputs, Arrive(r, i) PROVE [Promise!Next]_(Promise!vars)
    BY <1>2, <2>5, ArriveImplemented DEF Inv
  <2> QED
    BY <1>2, <2>1, <2>2, <2>3, <2>4, <2>5, Zenon DEF Next
<1>3. Inv /\ Unposted /\ [Next]_vars => Unposted'
  BY UnpostedInvariant
<1> QED
  BY <1>1, <1>2, <1>3, InvCorrect, PTL DEF Spec, KeepsPromise, Promise!Spec
=============================================================================
