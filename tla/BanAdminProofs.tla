--------------------------- MODULE BanAdminProofs ---------------------------
(***************************************************************************)
(* Proofs about BanAdmin, for any number of calls and any set of           *)
(* deployments.                                                            *)
(***************************************************************************)
EXTENDS BanAdmin, TLAPS

(* What Backend-Service answered is what it did, and it answers a call     *)
(* once.                                                                   *)
OutcomeIsTrue(c) ==
  outcome[c] # None =>
    /\ pc[c] = "waiting" /\ c \notin requests
    /\ outcome[c].status \in Faults => effect[c] = None
    /\ outcome[c].status = 204 => kind[c] = "unban" /\ effect[c] = NoBan
    /\ outcome[c].status \in {200, 201} /\ outcome[c].body = "object" => outcome[c].row = effect[c]

(* An answer that shows a row shows the one the call left; one that        *)
(* refuses settles that the call never takes effect.                       *)
ReplyIsTrue(c) ==
  /\ pc[c] \in {"waiting", "lost"} => reply[c] = None
  /\ Phase(c) = "done" => effect[c] # None /\ reply[c].row = effect[c] /\ c \notin requests
  /\ Phase(c) = "refused" => effect[c] = None /\ c \notin requests

CallIsTracked(c) ==
  /\ pc[c] = "idle" => c \notin requests /\ effect[c] = None /\ reply[c] = None
  /\ c \in requests => effect[c] = None

Inv ==
  /\ TypeOK
  /\ \A c \in Calls : OutcomeIsTrue(c) /\ ReplyIsTrue(c) /\ CallIsTracked(c)
  /\ TokenTroubleIsTheOperators

(* What a handler gets to see: an answer, or none in time. *)
NoAnswer == [status |-> 0, body |-> "text", row |-> None]
-----------------------------------------------------------------------------
(* The statuses an operator can get, and which of them refuse. *)
LEMMA AnswerType ==
  ASSUME NEW c \in Calls, NEW u \in Upstream
  PROVE  /\ Answer(c, u) \in Reply
         /\ Answer(c, u).status \notin {401, 403}
         /\ Answer(c, u).row # None => Succeeded(c, u)
         /\ Answer(c, u).status \notin {0, 200, 201, 204, 500, 502} => u.status \in Faults
  <1> DEFINE S == Answer(c, u).status
  <1>1. u.status \in {0, 200, 201, 204, 500, 302, 400, 401, 403, 404, 429} /\ u.row \in Row \cup {None}
    BY DEF Upstream, Faults
  <1>2. CASE Succeeded(c, u)
    BY <1>1, <1>2 DEF Answer, Statuses, Reply, Row
  <1>3. CASE ~Succeeded(c, u)
    <2>1. Answer(c, u) = [status |-> MapUpstreamError(u.status), row |-> None]
      BY <1>3 DEF Answer
    <2>2. MapUpstreamError(u.status) \in {502, 200, 201, 204, 302, 400, 404}
      BY <1>1 DEF MapUpstreamError
    <2>3. MapUpstreamError(u.status) \in {302, 400, 404} => u.status \in Faults
      BY <1>1 DEF MapUpstreamError, Faults
    <2> QED
      BY <2>1, <2>2, <2>3 DEF Statuses, Reply
  <1> QED
    BY <1>2, <1>3

LEMMA EffectType ==
  ASSUME TypeOK, NEW c \in Calls
  PROVE  Effect(c) \in Row /\ Effect(c) # None
BY BanAdminConstants DEF TypeOK, Effect, Row

(* The steps of Next, as the proofs split them. *)
LEMMA StepCases ==
  ASSUME TypeOK, Next
  PROVE  \/ \E c \in Calls, q \in Request : Arrive(c, q)
         \/ \E c \in Calls, u \in Upstream : End(c, u) /\ u \in {outcome[c], NoAnswer}
         \/ \E c \in requests : Serve(c)
         \/ \E c \in requests : Intercept(c)
         \/ \E c \in requests, s \in Faults \cup {500} : Reject(c, s)
         \/ Restart
<1>1. NoAnswer \in Upstream
  BY DEF NoAnswer, Upstream, Bodies
<1>2. ASSUME NEW c \in Calls, Return(c) \/ TimeOut(c)
      PROVE  \E u \in Upstream : End(c, u) /\ u \in {outcome[c], NoAnswer}
  <2>1. CASE Return(c)
    <3>1. outcome[c] \in Upstream /\ End(c, outcome[c])
      BY <2>1 DEF Return, TypeOK
    <3> QED
      BY <3>1
  <2>2. CASE TimeOut(c)
    BY <1>1, <2>2 DEF TimeOut, NoAnswer
  <2> QED
    BY <1>2, <2>1, <2>2
<1>3. \/ \E c \in Calls : Return(c) \/ TimeOut(c)
      \/ \E c \in Calls, q \in Request : Arrive(c, q)
      \/ \E c \in requests : Serve(c)
      \/ \E c \in requests : Intercept(c)
      \/ \E c \in requests, s \in Faults \cup {500} : Reject(c, s)
      \/ Restart
  BY DEF Next
<1> QED
  BY <1>2, <1>3, Zenon

(* Every variable keeps its type. *)
THEOREM TypeCorrect == Spec => []TypeOK
<1> USE BanAdminConstants
<1>1. Init => TypeOK
  BY DEF Init, TypeOK, Row
<1>2. TypeOK /\ [Next]_vars => TypeOK'
  <2> SUFFICES ASSUME TypeOK, [Next]_vars PROVE TypeOK'
    OBVIOUS
  <2>1. ASSUME NEW c \in Calls, NEW q \in Request, Arrive(c, q) PROVE TypeOK'
    <3>1. Refusal(q) \in Statuses \cup {0}
      BY DEF Refusal, Statuses
    <3>2. CASE Refusal(q) = 0
      BY <2>1, <3>2 DEF Arrive, TypeOK
    <3>3. CASE Refusal(q) # 0
      <4>1. [status |-> Refusal(q), row |-> None] \in Reply
        BY <3>1, <3>3 DEF Reply
      <4> QED
        BY <2>1, <3>3, <4>1 DEF Arrive, TypeOK
    <3> QED
      BY <3>2, <3>3
  <2>2. ASSUME NEW c \in Calls, NEW u \in Upstream, End(c, u) PROVE TypeOK'
    <3>1. Answer(c, u) \in Reply
      BY AnswerType
    <3> QED
      BY <2>2, <3>1 DEF End, TypeOK
  <2>3. ASSUME NEW c \in requests, Serve(c) PROVE TypeOK'
    <3>1. c \in Calls /\ row' \in Row
      BY <2>3, EffectType DEF Serve, TypeOK
    <3>2. PICK status \in Successes(c) \cup {500}, body \in Bodies :
            Deliver(c, [status |-> status, body |-> body, row |-> row'])
      BY <2>3, Zenon DEF Serve
    <3>3. [status |-> status, body |-> body, row |-> row'] \in Upstream
      BY <3>1 DEF Upstream, Successes
    <3>4. outcome' \in [Calls -> Upstream \cup {None}]
      BY <3>1, <3>2, <3>3 DEF Deliver, TypeOK
    <3>5. /\ requests' = requests \ {c} /\ effect' = [effect EXCEPT ![c] = row']
          /\ UNCHANGED <<config, kind, request, pc, reply>>
      BY <2>3, Zenon DEF Serve
    <3> QED
      BY <3>1, <3>4, <3>5 DEF TypeOK
  <2>4. ASSUME NEW c \in requests, Intercept(c) PROVE TypeOK'
    <3>1. \A body \in Bodies : [status |-> 200, body |-> body, row |-> None] \in Upstream
      BY DEF Upstream
    <3> QED
      BY <2>4, <3>1 DEF Intercept, Deliver, TypeOK
  <2>5. ASSUME NEW c \in requests, NEW s \in Faults \cup {500}, Reject(c, s) PROVE TypeOK'
    <3>1. [status |-> s, body |-> "object", row |-> None] \in Upstream
      BY DEF Upstream, Bodies
    <3> QED
      BY <2>5, <3>1 DEF Reject, Deliver, TypeOK
  <2>6. CASE Restart
    BY <2>6 DEF Restart, TypeOK
  <2>7. CASE UNCHANGED vars
    BY <2>7 DEF vars, TypeOK
  <2> QED
    BY StepCases, <2>1, <2>2, <2>3, <2>4, <2>5, <2>6, <2>7
<1> QED
  BY <1>1, <1>2, PTL DEF Spec
-----------------------------------------------------------------------------
(* Inv is inductive.  A step concerns one call; Same says that a call it   *)
(* does not concern is as it was.                                          *)
Same(c) ==
  /\ pc'[c] = pc[c] /\ effect'[c] = effect[c] /\ reply'[c] = reply[c] /\ kind'[c] = kind[c]
  /\ outcome'[c] \in {outcome[c], None}
  /\ c \in requests' => c \in requests

LEMMA SameKept ==
  ASSUME NEW c, OutcomeIsTrue(c), ReplyIsTrue(c), CallIsTracked(c), Same(c)
  PROVE  OutcomeIsTrue(c)' /\ ReplyIsTrue(c)' /\ CallIsTracked(c)'
BY DEF OutcomeIsTrue, ReplyIsTrue, CallIsTracked, Same, Phase, Status

THEOREM InvCorrect == Spec => []Inv
<1> USE BanAdminConstants
<1>1. Init => Inv
  <2> SUFFICES ASSUME Init PROVE Inv
    OBVIOUS
  <2>1. TypeOK
    BY DEF Init, TypeOK, Row
  <2>2. \A c \in Calls : OutcomeIsTrue(c) /\ ReplyIsTrue(c) /\ CallIsTracked(c)
    BY DEF Init, OutcomeIsTrue, ReplyIsTrue, CallIsTracked, Phase
  <2>3. TokenTroubleIsTheOperators
    BY DEF Init, TokenTroubleIsTheOperators, Status
  <2> QED
    BY <2>1, <2>2, <2>3 DEF Inv
<1>2. Inv /\ TypeOK' /\ [Next]_vars => Inv'
  <2> SUFFICES ASSUME Inv, TypeOK', [Next]_vars PROVE Inv'
    OBVIOUS
  <2> DEFINE Kept(d) == OutcomeIsTrue(d)' /\ ReplyIsTrue(d)' /\ CallIsTracked(d)'
  <2> DEFINE Goal == (\A d \in Calls : Kept(d)) /\ TokenTroubleIsTheOperators'
  <2> SUFFICES Goal
    BY DEF Inv
  <2> USE DEF Inv
  <2>1. ASSUME NEW c \in Calls, NEW q \in Request, Arrive(c, q) PROVE Goal
    <3>1. \A d \in Calls \ {c} : Same(d)
      BY <2>1 DEF TypeOK, Arrive, Same
    <3>2. /\ c \notin requests /\ effect[c] = None /\ reply[c] = None /\ outcome[c] = None
          /\ effect' = effect /\ outcome' = outcome
      BY <2>1 DEF Arrive, CallIsTracked, OutcomeIsTrue
    <3>3. CASE Refusal(q) = 0
      <4>1. pc'[c] = "waiting" /\ reply' = reply
        BY <2>1, <3>3 DEF TypeOK, Arrive
      <4>2. Kept(c)
        BY <3>2, <4>1 DEF OutcomeIsTrue, ReplyIsTrue, CallIsTracked, Phase, Status
      <4>3. TokenTroubleIsTheOperators'
        BY <2>1, <3>2, <4>1 DEF TypeOK, Arrive, TokenTroubleIsTheOperators, Status
      <4> QED
        BY <3>1, <4>2, <4>3, SameKept
    <3>4. CASE Refusal(q) # 0
      <4>1. /\ pc'[c] = "answered" /\ requests' = requests
            /\ reply'[c] = [status |-> Refusal(q), row |-> None]
            /\ \A d \in Calls \ {c} : reply'[d] = reply[d]
        BY <2>1, <3>4 DEF TypeOK, Arrive
      <4>2. Refusal(q) \in {401, 403, 422, 503}
        BY <3>4 DEF Refusal
      <4>3. Kept(c)
        BY <3>2, <4>1, <4>2 DEF OutcomeIsTrue, ReplyIsTrue, CallIsTracked, Phase, Status
      <4>4. /\ request'[c] = q /\ config' = config
            /\ \A d \in Calls \ {c} : request'[d] = request[d]
        BY <2>1 DEF TypeOK, Arrive
      <4>5. Refusal(q) \in {401, 403} => ~config.token_set \/ q.token # "right"
        BY DEF Refusal
      <4>6. TokenTroubleIsTheOperators'
        BY <4>1, <4>2, <4>4, <4>5 DEF TokenTroubleIsTheOperators, Status
      <4> QED
        BY <3>1, <4>3, <4>6, SameKept
    <3> QED
      BY <3>3, <3>4
  <2>2. ASSUME NEW c \in Calls, NEW u \in Upstream, End(c, u), u \in {outcome[c], NoAnswer}
        PROVE  Goal
    <3>1. \A d \in Calls \ {c} : Same(d)
      BY <2>2 DEF TypeOK, End, Same
    <3>2. /\ pc[c] = "waiting" /\ pc'[c] = "answered" /\ outcome'[c] = None
          /\ reply'[c] = Answer(c, u)
          /\ UNCHANGED <<config, row, requests, kind, request, effect>>
          /\ \A d \in Calls \ {c} : reply'[d] = reply[d]
      BY <2>2 DEF TypeOK, End
    <3>3. Answer(c, u) # None /\ Answer(c, u).status \in Statuses
      BY AnswerType DEF Reply
    <3>4. CallIsTracked(c)' /\ OutcomeIsTrue(c)'
      BY <3>2 DEF CallIsTracked, OutcomeIsTrue
    <3>5. ReplyIsTrue(c)'
      <4>1. u.status \in Faults \/ Succeeded(c, u) => u = outcome[c] /\ u # None
        BY <2>2 DEF NoAnswer, Faults, Succeeded, Upstream
      <4>2. ASSUME Phase(c)' = "done"
            PROVE  effect[c] # None /\ Answer(c, u).row = effect[c] /\ c \notin requests
        <5>1. Answer(c, u).row # None
          BY <3>2, <4>2 DEF Phase
        <5>2. Succeeded(c, u)
          BY <5>1, AnswerType
        <5>3. /\ Answer(c, u).row = IF kind[c] = "unban" THEN NoBan ELSE u.row
              /\ kind[c] # "unban" => u.body = "object"
          BY <5>1, <5>2 DEF Answer
        <5>4. u = outcome[c] /\ u # None
          BY <4>1, <5>2
        <5>5. u.status \in {200, 201, 204}
          BY <5>2 DEF Succeeded, Upstream, Faults
        <5> QED
          BY <5>1, <5>2, <5>3, <5>4, <5>5 DEF OutcomeIsTrue, Succeeded
      <4>3. ASSUME Phase(c)' = "refused" PROVE effect[c] = None /\ c \notin requests
        <5>1. Answer(c, u).status \notin {0, 200, 201, 500, 502}
          BY <3>2, <3>3, <4>3 DEF Phase, Status
        <5>2. Answer(c, u).status # 204
          <6>1. SUFFICES ASSUME Answer(c, u).status = 204 PROVE FALSE
            OBVIOUS
          <6>2. Answer(c, u).row = None
            BY <3>2, <3>3, <4>3, <6>1 DEF Phase, Status
          <6>3. u.status = 204
            <7>1. ~Succeeded(c, u)
              BY <6>1, <6>2, BanAdminConstants DEF Answer, Row
            <7> QED
              BY <6>1, <7>1 DEF Answer, MapUpstreamError, Upstream, Faults
          <6>4. u = outcome[c] /\ u # None
            BY <2>2, <6>3 DEF NoAnswer, Upstream
          <6>5. kind[c] = "unban"
            BY <6>3, <6>4 DEF OutcomeIsTrue
          <6> QED
            BY <6>2, <6>3, <6>5 DEF Answer, Succeeded, Row
        <5>3. u.status \in Faults
          BY <5>1, <5>2, AnswerType
        <5> QED
          BY <4>1, <5>3 DEF OutcomeIsTrue
      <4> QED
        BY <3>2, <4>2, <4>3 DEF ReplyIsTrue
    <3>6. TokenTroubleIsTheOperators'
      BY <3>2, <3>3, AnswerType DEF TokenTroubleIsTheOperators, Status
    <3> QED
      BY <3>1, <3>4, <3>5, <3>6, SameKept
  <2>3. ASSUME NEW c \in requests, Serve(c) PROVE Goal
    <3>1. c \in Calls /\ row' # None
      BY <2>3, EffectType DEF Serve, TypeOK
    <3>2. PICK status \in Successes(c) \cup {500}, body \in Bodies :
            Deliver(c, [status |-> status, body |-> body, row |-> row'])
      BY <2>3, Zenon DEF Serve
    <3>3. /\ requests' = requests \ {c} /\ effect' = [effect EXCEPT ![c] = row']
          /\ row' = Effect(c) /\ UNCHANGED <<config, kind, request, pc, reply>>
      BY <2>3, Zenon DEF Serve
    <3>4. \A d \in Calls \ {c} : Same(d)
      BY <3>1, <3>2, <3>3 DEF TypeOK, Deliver, Same
    <3>5. /\ outcome[c] = None
          /\ outcome'[c] = IF pc[c] = "waiting"
                             THEN [status |-> status, body |-> body, row |-> row'] ELSE None
      BY <3>1, <3>2 DEF TypeOK, Deliver, OutcomeIsTrue
    <3>6. effect'[c] = row' /\ (kind[c] = "unban" => row' = NoBan)
      BY <3>1, <3>3 DEF TypeOK, Effect
    <3>7. OutcomeIsTrue(c)'
      BY <3>1, <3>3, <3>5, <3>6 DEF OutcomeIsTrue, Faults, Successes
    <3>8. ReplyIsTrue(c)' /\ CallIsTracked(c)'
      BY <3>1, <3>3 DEF ReplyIsTrue, CallIsTracked, Phase, Status
    <3>9. TokenTroubleIsTheOperators'
      BY <3>3 DEF TokenTroubleIsTheOperators, Status
    <3> QED
      BY <3>4, <3>7, <3>8, <3>9, SameKept
  <2>4. ASSUME NEW c \in requests, Intercept(c) PROVE Goal
    <3>1. c \in Calls
      BY DEF TypeOK
    <3>2. \A d \in Calls \ {c} : Same(d)
      BY <2>4, <3>1 DEF TypeOK, Intercept, Deliver, Same
    <3>3. OutcomeIsTrue(c)' 
      BY <2>4, <3>1 DEF TypeOK, Intercept, Deliver, OutcomeIsTrue, Faults
    <3>4. ReplyIsTrue(c)' /\ CallIsTracked(c)'
      BY <2>4, <3>1 DEF Intercept, ReplyIsTrue, CallIsTracked, Phase, Status
    <3>5. TokenTroubleIsTheOperators'
      BY <2>4 DEF Intercept, TokenTroubleIsTheOperators, Status
    <3> QED
      BY <3>2, <3>3, <3>4, <3>5, SameKept
  <2>5. ASSUME NEW c \in requests, NEW s \in Faults \cup {500}, Reject(c, s) PROVE Goal
    <3>1. c \in Calls /\ effect[c] = None
      BY DEF TypeOK, CallIsTracked
    <3>2. \A d \in Calls \ {c} : Same(d)
      BY <2>5, <3>1 DEF TypeOK, Reject, Deliver, Same
    <3>3. OutcomeIsTrue(c)' 
      BY <2>5, <3>1 DEF TypeOK, Reject, Deliver, OutcomeIsTrue, Faults
    <3>4. ReplyIsTrue(c)' /\ CallIsTracked(c)'
      BY <2>5, <3>1 DEF Reject, ReplyIsTrue, CallIsTracked, Phase, Status
    <3>5. TokenTroubleIsTheOperators'
      BY <2>5 DEF Reject, TokenTroubleIsTheOperators, Status
    <3> QED
      BY <3>2, <3>3, <3>4, <3>5, SameKept
  <2>6. ASSUME Restart PROVE Goal
    <3>1. \A d \in Calls : Kept(d)
      BY <2>6 DEF TypeOK, Restart, OutcomeIsTrue, ReplyIsTrue, CallIsTracked, Phase, Status
    <3>2. TokenTroubleIsTheOperators'
      BY <2>6 DEF Restart, TokenTroubleIsTheOperators, Status
    <3> QED
      BY <3>1, <3>2
  <2>7. ASSUME UNCHANGED vars PROVE Goal
    <3>1. \A d \in Calls : Same(d)
      BY <2>7 DEF vars, Same
    <3>2. TokenTroubleIsTheOperators'
      BY <2>7 DEF vars, TokenTroubleIsTheOperators, Status
    <3> QED
      BY <3>1, <3>2, SameKept
  <2> QED
    BY StepCases, <2>1, <2>2, <2>3, <2>4, <2>5, <2>6, <2>7
<1> QED
  BY <1>1, <1>2, TypeCorrect, PTL DEF Spec
-----------------------------------------------------------------------------
(* Only the operator's own token, or a disabled endpoint, is reported as   *)
(* 401 or 403.                                                             *)
THEOREM TokenTroubleTrue == Spec => []TokenTroubleIsTheOperators
<1>1. Inv => TokenTroubleIsTheOperators
  BY DEF Inv
<1> QED
  BY <1>1, InvCorrect, PTL

(* The API implements the table: an arrival starts a call or refuses it,   *)
(* Backend-Service's processing is its effect, and an answer finishes,     *)
(* refuses or abandons it, as what is shown of the row says.               *)
THEOREM TableImplemented == Spec => ImplementsTable
<1> USE BanAdminConstants
<1> DEFINE phase == [c \in Calls |-> Phase(c)]
           shown == [c \in Calls |-> IF reply[c] = None THEN None ELSE reply[c].row]
<1>1. Init => Table!Init
  BY DEF Init, Table!Init, Kinds, Phase
<1>2. Inv /\ Inv' /\ [Next]_vars => [Table!Next]_Table!vars
  <2> SUFFICES ASSUME Inv, Inv', [Next]_vars PROVE Table!Next \/ UNCHANGED Table!vars
    OBVIOUS
  <2>1. ASSUME NEW c \in Calls, NEW q \in Request, Arrive(c, q) PROVE Table!Next
    <3>1. /\ pc[c] = "idle" /\ effect[c] = None /\ reply[c] = None
          /\ UNCHANGED <<row, kind, effect>>
      BY <2>1 DEF Arrive, Inv, CallIsTracked
    <3>2. CASE Refusal(q) = 0
      <4>0. pc' = [pc EXCEPT ![c] = "waiting"] /\ reply' = reply
        BY <2>1, <3>2 DEF Arrive
      <4>1. phase' = [phase EXCEPT ![c] = "open"] /\ UNCHANGED shown
        <5>1. Phase(c)' = "open" /\ \A d \in Calls \ {c} : Phase(d)' = Phase(d)
          BY <4>0 DEF Inv, TypeOK, Phase, Status
        <5> QED
          BY <4>0, <5>1
      <4>2. Table!Start(c)
        BY <3>1, <4>1 DEF Table!Start, Phase
      <4> QED
        BY <4>2 DEF Table!Next
    <3>3. CASE Refusal(q) # 0
      <4>1. Refusal(q) \in {401, 403, 422, 503}
        BY <3>3 DEF Refusal
      <4>2. /\ pc' = [pc EXCEPT ![c] = "answered"]
            /\ reply' = [reply EXCEPT ![c] = [status |-> Refusal(q), row |-> None]]
            /\ [status |-> Refusal(q), row |-> None] # None
        BY <2>1, <3>3, <4>1 DEF Arrive, Reply, Statuses
      <4>3. phase' = [phase EXCEPT ![c] = "refused"] /\ UNCHANGED shown
        <5>1. Phase(c)' = "refused" /\ \A d \in Calls \ {c} : Phase(d)' = Phase(d)
          BY <4>1, <4>2 DEF Inv, TypeOK, Phase, Status
        <5>2. reply'[c].row = None /\ \A d \in Calls \ {c} : reply'[d] = reply[d]
          BY <4>2 DEF Inv, TypeOK
        <5>3. \A d \in Calls : (IF reply[d] = None THEN None ELSE reply[d].row)'
                                = IF reply[d] = None THEN None ELSE reply[d].row
          BY <3>1, <5>2
        <5> QED
          BY <5>1, <5>3
      <4>4. Table!Refuse(c)
        BY <3>1, <4>3 DEF Table!Refuse, Phase
      <4> QED
        BY <4>4 DEF Table!Next
    <3> QED
      BY <3>2, <3>3
  <2>2. ASSUME NEW c \in Calls, NEW u \in Upstream, End(c, u) PROVE Table!Next
    <3>1. /\ pc[c] = "waiting" /\ pc' = [pc EXCEPT ![c] = "answered"]
          /\ reply' = [reply EXCEPT ![c] = Answer(c, u)] /\ reply[c] = None
          /\ UNCHANGED <<row, kind, effect, requests>>
      BY <2>2 DEF End, Inv, ReplyIsTrue
    <3>2. Answer(c, u) \in Reply /\ Answer(c, u) # None
      BY AnswerType
    <3>3. /\ phase' = [phase EXCEPT ![c] = Phase(c)']
          /\ shown' = [shown EXCEPT ![c] = Answer(c, u).row]
      <4>1. \A d \in Calls \ {c} : Phase(d)' = Phase(d)
        BY <3>1 DEF Inv, TypeOK, Phase, Status
      <4>2. reply'[c] = Answer(c, u) /\ \A d \in Calls \ {c} : reply'[d] = reply[d]
        BY <3>1 DEF Inv, TypeOK
      <4> QED
        BY <3>2, <4>1, <4>2
    <3>4. Phase(c)' \in {"done", "abandoned", "refused"} /\ phase[c] = "open"
      BY <3>1 DEF Inv, TypeOK, Phase
    <3>5. CASE Phase(c)' = "done"
      <4>1. effect[c] # None /\ Answer(c, u).row = effect[c]
        BY <3>1, <3>5 DEF Inv, TypeOK, ReplyIsTrue
      <4>2. Table!Finish(c)
        BY <3>1, <3>3, <3>4, <3>5, <4>1 DEF Table!Finish
      <4> QED
        BY <4>2 DEF Table!Next
    <3>6. ASSUME Phase(c)' # "done" PROVE Answer(c, u).row = None
      <4>1. SUFFICES ASSUME Answer(c, u).row # None PROVE FALSE
        OBVIOUS
      <4>2. Succeeded(c, u)
        BY <4>1, AnswerType
      <4>3. Answer(c, u).status \in {200, 204}
        BY <4>1, <4>2 DEF Answer
      <4> QED
        BY <3>1, <3>2, <3>6, <4>1, <4>3 DEF Inv, TypeOK, Phase, Status
    <3>7. CASE Phase(c)' = "refused"
      <4>1. UNCHANGED shown
        BY <3>1, <3>3, <3>6, <3>7 DEF Inv, TypeOK
      <4>2. effect[c] = None
        BY <3>1, <3>7 DEF Inv, ReplyIsTrue
      <4>3. Table!Refuse(c)
        BY <3>1, <3>3, <3>4, <3>7, <4>1, <4>2 DEF Table!Refuse
      <4> QED
        BY <4>3 DEF Table!Next
    <3>8. CASE Phase(c)' = "abandoned"
      <4>1. UNCHANGED shown
        BY <3>1, <3>3, <3>6, <3>8 DEF Inv, TypeOK
      <4>2. phase' = [d \in Calls |-> IF d \in {c} THEN "abandoned" ELSE phase[d]]
        BY <3>3, <3>8
      <4>3. Table!Abandon({c})
        BY <3>1, <3>4, <4>1, <4>2 DEF Table!Abandon
      <4> QED
        BY <4>3 DEF Table!Next
    <3> QED
      BY <3>4, <3>5, <3>7, <3>8
  <2>3. ASSUME NEW c \in requests, Serve(c) PROVE Table!Next
    <3>1. /\ effect' = [effect EXCEPT ![c] = row'] /\ row' = Effect(c)
          /\ UNCHANGED <<kind, pc, reply>>
      BY <2>3, Zenon DEF Serve
    <3>2. c \in Calls /\ effect[c] = None /\ phase[c] \in {"open", "abandoned"}
      <4>1. c \in Calls /\ effect[c] = None /\ pc[c] # "idle"
        BY DEF Inv, TypeOK, CallIsTracked
      <4>2. Phase(c) \notin {"idle", "done", "refused"}
        BY <4>1 DEF Inv, ReplyIsTrue, Phase
      <4> QED
        BY <4>1, <4>2 DEF Phase
    <3>3. UNCHANGED <<phase, shown>>
      BY <3>1 DEF Phase, Status
    <3>4. Table!Take(c)
      BY <3>1, <3>2, <3>3 DEF Table!Take, Table!Effect, Effect
    <3> QED
      BY <3>2, <3>4 DEF Table!Next
  <2>4. ASSUME NEW c \in requests, Intercept(c) PROVE UNCHANGED Table!vars
    BY <2>4 DEF Intercept, Table!vars, Phase, Status
  <2>5. ASSUME NEW c \in requests, NEW s \in Faults \cup {500}, Reject(c, s) PROVE UNCHANGED Table!vars
    BY <2>5 DEF Reject, Table!vars, Phase, Status
  <2>6. ASSUME Restart PROVE Table!Next
    <3> DEFINE cs == {c \in Calls : pc[c] = "waiting"}
    <3>1. \A c \in cs : phase[c] = "open" /\ Phase(c)' = "abandoned"
      BY <2>6 DEF Restart, Inv, ReplyIsTrue, Phase, Status
    <3>2. \A c \in Calls \ cs : Phase(c)' = Phase(c)
      BY <2>6 DEF Restart, Inv, TypeOK, Phase, Status
    <3>3. phase' = [c \in Calls |-> IF c \in cs THEN "abandoned" ELSE phase[c]]
      BY <3>1, <3>2
    <3>4. UNCHANGED <<row, kind, effect, shown>>
      BY <2>6 DEF Restart
    <3>5. Table!Abandon(cs)
      BY <3>1, <3>3, <3>4 DEF Table!Abandon
    <3> QED
      BY <3>5 DEF Table!Next
  <2>7. ASSUME UNCHANGED vars PROVE UNCHANGED Table!vars
    BY <2>7 DEF vars, Table!vars, Phase, Status
  <2> QED
    BY StepCases, <2>1, <2>2, <2>3, <2>4, <2>5, <2>6, <2>7 DEF Inv
<1> QED
  BY <1>1, <1>2, InvCorrect, PTL DEF Spec, ImplementsTable, Table!Spec
=============================================================================
