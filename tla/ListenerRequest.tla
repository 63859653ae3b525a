--------------------------- MODULE ListenerRequest ---------------------------
(***************************************************************************)
(* What POST /request promises a listener, without Groq, LML, bans or      *)
(* degraded modes: a request is answered once, and "ok" means that the     *)
(* message is in the DJs' channel exactly once, if it was to be posted.    *)
(***************************************************************************)
EXTENDS Naturals

CONSTANT Requests

VARIABLES
  stage,   \* [Requests -> "unsent", "live" or "ended"]
  wanted,  \* [Requests -> whether the message is to be posted]
  status,  \* [Requests -> the HTTP answer]
  copies   \* [Requests -> how often the message is in the channel]

vars == <<stage, wanted, status, copies>>

Init ==
  /\ stage = [r \in Requests |-> "unsent"]
  /\ wanted = [r \in Requests |-> FALSE]
  /\ status = [r \in Requests |-> "none"]
  /\ copies = [r \in Requests |-> 0]

Arrive(r) ==
  /\ stage[r] = "unsent"
  /\ stage' = [stage EXCEPT ![r] = "live"]
  /\ \E w \in BOOLEAN : wanted' = [wanted EXCEPT ![r] = w]
  /\ UNCHANGED <<status, copies>>

End(r, answer, n) ==
  /\ stage[r] = "live"
  /\ stage' = [stage EXCEPT ![r] = "ended"]
  /\ status' = [status EXCEPT ![r] = answer]
  /\ copies' = [copies EXCEPT ![r] = n]
  /\ UNCHANGED wanted

Accept(r) == End(r, "ok", IF wanted[r] THEN 1 ELSE 0)
Refuse(r) == \E answer \in {"empty", "blocked"} : End(r, answer, 0)

(* An error leaves open whether the message was posted, but it is never    *)
(* there twice.                                                            *)
Fail(r) ==
  \E answer \in {"error", "slack_failed"}, n \in {0, 1} :
    (n = 1 => wanted[r]) /\ End(r, answer, n)

(* The process dies under any number of requests. *)
Die ==
  \E dead \in SUBSET {r \in Requests : stage[r] = "live"} :
    /\ stage' = [r \in Requests |-> IF r \in dead THEN "ended" ELSE stage[r]]
    /\ \E late \in SUBSET {r \in dead : wanted[r]} :
         copies' = [r \in Requests |-> IF r \in late THEN 1 ELSE copies[r]]
    /\ UNCHANGED <<wanted, status>>

Next ==
  \/ \E r \in Requests : Arrive(r) \/ Accept(r) \/ Refuse(r) \/ Fail(r)
  \/ Die

Spec == Init /\ [][Next]_vars
=============================================================================
