----------------------------- MODULE MCReadiness -----------------------------
(* Every Slack setting with both other services configured, and one        *)
(* deployment without them; two requests may be first, and the key may     *)
(* change twice.                                                           *)
EXTENDS Readiness, TLC

MCConfigs ==
  {c \in Config : \/ c.groq_api_key /\ c.lookup_service_url
                  \/ ~c.groq_api_key /\ ~c.lookup_service_url /\ ~c.slack_use_bot_token
                     /\ c.enable_slack_integration /\ ~c.bot_config}
Symmetry == Permutations(Calls)
=============================================================================
