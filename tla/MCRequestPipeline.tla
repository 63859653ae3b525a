-------------------------- MODULE MCRequestPipeline --------------------------
(* Values of the constants of RequestPipeline for TLC. *)
EXTENDS OperatorView

CONSTANTS r1, r2

Plain == [strict |-> TRUE, ban_check |-> "on", slack |-> "bot", lookup |-> TRUE, posthog |-> FALSE]

(* Everything on, and each part in its other states. *)
Deployments ==
  {Plain, [Plain EXCEPT !.strict = FALSE, !.ban_check = "off"],
   [Plain EXCEPT !.ban_check = "invalid_url", !.slack = "off"],
   [Plain EXCEPT !.strict = FALSE, !.slack = "webhook_key"],
   [Plain EXCEPT !.posthog = TRUE], [Plain EXCEPT !.posthog = TRUE, !.lookup = FALSE]}
OnlyFetched == {[Plain EXCEPT !.slack = "webhook_key"]}
OnlyPlain == {Plain}

(* A message that announces rows may come with any rows; one that says     *)
(* they are on a compilation always does.                                  *)
LmlAnswers == {a \in Answer : Consistent(a) /\ (a.found_on_compilation => a.context = "found")}
ShelvedOnly == {[results |-> {"shelved"}, song_not_found |-> FALSE,
                 found_on_compilation |-> FALSE, context |-> "none"]}

(* Every combination of headers, a known client with a valid token; the    *)
(* flags of the body by themselves, and what the operator's scripts send.  *)
Usual == [empty |-> FALSE, skip_slack |-> FALSE, known_client |-> FALSE,
          device |-> "valid", user |-> "none"]
Script == [Usual EXCEPT !.skip_slack = TRUE, !.device = "absent"]
AnyHeaders == {i \in Input : ~i.empty /\ ~i.skip_slack /\ (i.known_client => i.user = "valid")}
              \cup {[Usual EXCEPT !.empty = TRUE], [Usual EXCEPT !.skip_slack = TRUE], Script}
OneDevice == {Usual}
TwoKinds == {Usual, [Usual EXCEPT !.skip_slack = TRUE, !.user = "valid"]}

AnyBan == {{}, {"device"}, {"user"}}
DeviceBan == {{}, {"device"}}
Symmetry == {[x \in {r1, r2} |-> x], [x \in {r1, r2} |-> IF x = r1 THEN r2 ELSE r1]}
=============================================================================
