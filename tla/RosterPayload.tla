---------------------------- MODULE RosterPayload ----------------------------
(***************************************************************************)
(* The roster as Backend-Service sends it, and who may act on it:          *)
(* ModeratorClient.list_moderators (services/moderator_client.py) and      *)
(* resolve_authorized_users (services/slack_authorization.py).             *)
(*                                                                         *)
(* A body is a sequence of rows, each the Slack user id it names or one of *)
(* the rows that name none.                                                *)
(***************************************************************************)
EXTENDS Naturals, Sequences

CONSTANTS
  UserIds,         \* Slack user ids
  MAX_ROSTER_SIZE, \* rows a roster may have
  BreakGlass       \* the ids of SLACK_BAN_AUTHORIZED_USERS

(* A row that is no object, and one whose id is missing, empty or no text. *)
BadRows == {"no_object", "no_id"}

(* No client; or what comes back: a 2xx with an {items} envelope, one      *)
(* without, a 2xx that is no JSON, another status, or nothing.             *)
Envelopes == {"unconfigured", "items", "no_dict", "no_list", "no_json", "refused", "unreachable"}

SlipReadable(envelope, rows) == envelope = "items" /\ Len(rows) <= MAX_ROSTER_SIZE
(* _extract_ids raises for anything else. *)
Readable(envelope, rows) ==
  /\ envelope = "items" /\ Len(rows) <= MAX_ROSTER_SIZE
  /\ \A i \in DOMAIN rows : rows[i] \in UserIds

ExtractIds(rows) == {rows[i] : i \in DOMAIN rows} \intersect UserIds

(* The union of both halves, or the environment's alone. *)
ResolveAuthorizedUsers(envelope, rows) ==
  IF Readable(envelope, rows)
  THEN [users |-> BreakGlass \union ExtractIds(rows), degraded |-> FALSE]
  ELSE [users |-> BreakGlass, degraded |-> TRUE]
=============================================================================
