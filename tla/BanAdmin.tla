------------------------------ MODULE BanAdmin ------------------------------
(***************************************************************************)
(* /admin/bans (routers/admin.py): an operator bans, unbans and lists      *)
(* through services/ban_admin_client.py, which calls Backend-Service once  *)
(* per request and turns what comes back, or does not, into an answer.     *)
(*                                                                         *)
(* One device.  Bans made from Slack and the expiry of a ban are not       *)
(* modelled here: they are changes of the row like a call's own.           *)
(***************************************************************************)
EXTENDS Naturals

CONSTANTS
  Calls,    \* calls of the operators
  Configs,  \* deployments considered: a subset of Config
  NoBan,    \* the device is not banned
  None      \* no value yet

(* token_set: ADMIN_TOKEN; wired: BS_INTERNAL_BANS_URL and BS_INTERNAL_KEY *)
Config == [token_set : BOOLEAN, wired : BOOLEAN]

(* The operator's call.  valid: the UUID, reason, expiry and limit pass    *)
(* the validation of the route.                                            *)
Kinds == {"ban", "unban", "list"}
Request == [token : {"absent", "wrong", "right"}, valid : BOOLEAN]

Row == Calls \cup {NoBan}

(* Backend-Service's answer: its status, its body (a JSON object, other    *)
(* JSON, or text), and the row it tells of.  Status 0 is httpx.HTTPError:  *)
(* no answer.                                                              *)
Faults == {302, 400, 401, 403, 404, 429}
Bodies == {"object", "json", "text"}
Upstream == [status : {0, 200, 201, 204, 500} \cup Faults, body : Bodies, row : Row \cup {None}]

(* The operator's answer: its status and the row it tells of. *)
Statuses == {200, 201, 204, 302, 400, 401, 403, 404, 422, 500, 502, 503}
Reply == [status : Statuses, row : Row \cup {None}]

ASSUME BanAdminConstants ==
  /\ Configs \subseteq Config
  /\ NoBan \notin Calls /\ None \notin Row
  /\ \A x \in Request \cup Upstream \cup Reply : x # None

VARIABLES
  config,    \* the deployment
  row,       \* Backend-Service: the call whose ban is in force, or NoBan
  requests,  \* calls sent to Backend-Service and not processed
  kind,      \* [Calls -> what the operator calls]
  request,   \* [Calls -> the operator's request]
  pc,        \* [Calls -> where the handler is]
  outcome,   \* [Calls -> Backend-Service's answer, while it is waited for]
  reply,     \* [Calls -> the status and the row of the HTTP answer]
  effect     \* history: [Calls -> the row as the call left it, or None]

vars == <<config, row, requests, kind, request, pc, outcome, reply, effect>>

Init ==
  /\ config \in Configs
  /\ row = NoBan
  /\ requests = {}
  /\ kind \in [Calls -> Kinds]
  /\ request = [c \in Calls |-> None]
  /\ pc = [c \in Calls |-> "idle"]
  /\ outcome = [c \in Calls |-> None]
  /\ reply = [c \in Calls |-> None]
  /\ effect = [c \in Calls |-> None]
-----------------------------------------------------------------------------
(* Operators of the code.  "Slip" names a way to get the next one wrong,   *)
(* which the checks are tried against; the specification uses none.        *)

(* require_admin_token, get_ban_admin_client, and the validation, in the   *)
(* order FastAPI runs them; 0: the handler is entered.                     *)
Refusal(q) ==
  IF ~config.token_set THEN 403
  ELSE IF q.token = "absent" THEN 401
  ELSE IF q.token = "wrong" THEN 403
  ELSE IF ~config.wired THEN 503
  ELSE IF ~q.valid THEN 422 ELSE 0

(* BanAdminClient raises unless the answer is a 2xx with a JSON body, or   *)
(* for an unban exactly a 204.                                             *)
Succeeded(c, u) == IF kind[c] = "unban" THEN u.status = 204 ELSE u.status \in 200..299 /\ u.body # "text"

(* _map_upstream_error *)
SlipVerbatim(status) == IF status = 0 \/ status >= 500 THEN 502 ELSE status
SlipNoAnswerForgotten(status) == IF status >= 500 \/ status \in {401, 403, 429} THEN 502 ELSE status
SlipFaultsAreTheOperators(status) == IF status = 0 \/ status >= 500 THEN 400 ELSE status
MapUpstreamError(status) ==
  IF status = 0 \/ status >= 500 \/ status \in {401, 403, 429} THEN 502 ELSE status

(* Each route has its own status for a success, and FastAPI refuses to     *)
(* serialize what the handler says is a dict and is not.                   *)
Answer(c, u) ==
  IF ~Succeeded(c, u) THEN [status |-> MapUpstreamError(u.status), row |-> None]
  ELSE IF kind[c] = "unban" THEN [status |-> 204, row |-> NoBan]
  ELSE IF u.body = "object" THEN [status |-> 200, row |-> u.row]
  ELSE [status |-> 500, row |-> None]
-----------------------------------------------------------------------------
Arrive(c, q) ==
  /\ pc[c] = "idle"
  /\ request' = [request EXCEPT ![c] = q]
  /\ IF Refusal(q) = 0
       THEN /\ pc' = [pc EXCEPT ![c] = "waiting"]
            /\ requests' = requests \cup {c}
            /\ UNCHANGED reply
       ELSE /\ pc' = [pc EXCEPT ![c] = "answered"]
            /\ reply' = [reply EXCEPT ![c] = [status |-> Refusal(q), row |-> None]]
            /\ UNCHANGED requests
  /\ UNCHANGED <<config, row, kind, outcome, effect>>

End(c, u) ==
  /\ pc[c] = "waiting"
  /\ pc' = [pc EXCEPT ![c] = "answered"]
  /\ reply' = [reply EXCEPT ![c] = Answer(c, u)]
  /\ outcome' = [outcome EXCEPT ![c] = None]
  /\ UNCHANGED <<config, row, requests, kind, request, effect>>

Return(c) == outcome[c] # None /\ End(c, outcome[c])

(* Ten seconds passed, or the connection broke. *)
SlipNoTimeout(c) == outcome[c] # None /\ End(c, outcome[c])
TimeOut(c) == End(c, [status |-> 0, body |-> "text", row |-> None])
-----------------------------------------------------------------------------
(* Backend-Service, and a proxy before it. *)

Deliver(c, u) == outcome' = IF pc[c] = "waiting" THEN [outcome EXCEPT ![c] = u] ELSE outcome

Effect(c) == IF kind[c] = "ban" THEN c ELSE IF kind[c] = "unban" THEN NoBan ELSE row

Successes(c) == IF kind[c] = "unban" THEN {204} ELSE {200, 201}

(* Processed; the answer may be garbled, or replaced by a 500. *)
Serve(c) ==
  /\ requests' = requests \ {c}
  /\ row' = Effect(c)
  /\ effect' = [effect EXCEPT ![c] = row']
  /\ \E status \in Successes(c) \cup {500}, body \in Bodies :
       Deliver(c, [status |-> status, body |-> body, row |-> row'])
  /\ UNCHANGED <<config, kind, request, pc, reply>>

(* Not processed. *)
Reject(c, status) ==
  /\ requests' = requests \ {c}
  /\ Deliver(c, [status |-> status, body |-> "object", row |-> None])
  /\ UNCHANGED <<config, row, kind, request, pc, reply, effect>>

(* The proxy answers with a page of its own, of text (_safe_json's case)   *)
(* or of JSON that is no object.                                           *)
Intercept(c) ==
  /\ requests' = requests \ {c}
  /\ \E body \in Bodies \ {"object"} : Deliver(c, [status |-> 200, body |-> body, row |-> None])
  /\ UNCHANGED <<config, row, kind, request, pc, reply, effect>>

Restart ==
  /\ pc' = [c \in Calls |-> IF pc[c] = "waiting" THEN "lost" ELSE pc[c]]
  /\ outcome' = [c \in Calls |-> None]
  /\ UNCHANGED <<config, row, requests, kind, request, reply, effect>>

Next ==
  \/ \E c \in Calls : Return(c) \/ TimeOut(c) \/ \E q \in Request : Arrive(c, q)
  \/ \E c \in requests : Serve(c) \/ Intercept(c) \/ \E s \in Faults \cup {500} : Reject(c, s)
  \/ Restart

Spec == Init /\ [][Next]_vars

(* The one call a handler awaits ends: it has a timeout. *)
FairSpec == Spec /\ \A c \in Calls : WF_vars(Return(c) \/ TimeOut(c))
-----------------------------------------------------------------------------
TypeOK ==
  /\ config \in Configs
  /\ row \in Row
  /\ requests \subseteq Calls
  /\ kind \in [Calls -> Kinds]
  /\ request \in [Calls -> Request \cup {None}]
  /\ pc \in [Calls -> {"idle", "waiting", "answered", "lost"}]
  /\ outcome \in [Calls -> Upstream \cup {None}]
  /\ reply \in [Calls -> Reply \cup {None}]
  /\ effect \in [Calls -> Row \cup {None}]

Status(c) == IF reply[c] = None THEN 0 ELSE reply[c].status

(* An operator is told to look at the token only when it is the operator's *)
(* token (or the endpoint is disabled): trouble with the key between the   *)
(* two services, or with their pace, never looks like the operator's.      *)
TokenTroubleIsTheOperators ==
  \A c \in Calls :
    Status(c) \in {401, 403} => ~config.token_set \/ request[c].token # "right"

(* Every call that reaches Backend-Service is answered, unless the process *)
(* dies.                                                                   *)
EveryCallAnswered == \A c \in Calls : pc[c] = "waiting" ~> pc[c] \in {"answered", "lost"}

(* Success and refusal mean what they say, whatever was lost or came late: *)
(* the API implements the table of BanTable.  What the operator sees as a  *)
(* refusal is any status but a success, an upstream fault, or what becomes *)
(* of a 2xx with a body of the wrong kind: that 2xx for text, which raises *)
(* with its own status, and a 500 for JSON that is no object.              *)
Phase(c) ==
  IF pc[c] = "idle" THEN "idle"
  ELSE IF pc[c] = "waiting" THEN "open"
  ELSE IF Status(c) \in {200, 204} /\ reply[c].row # None THEN "done"
  ELSE IF Status(c) \in {0, 200, 201, 500, 502} THEN "abandoned" ELSE "refused"
Table == INSTANCE BanTable WITH
  phase <- [c \in Calls |-> Phase(c)],
  shown <- [c \in Calls |-> IF reply[c] = None THEN None ELSE reply[c].row]
ImplementsTable == Table!Spec
=============================================================================
