------------------------------ MODULE UserAgent ------------------------------
(***************************************************************************)
(* What a request's headers say of the client: is_known_strict_client      *)
(* (services/ua_gate.py) reads the User-Agent, routers/request.py          *)
(* classifies X-Device-Fingerprint and tells both to PostHog.              *)
(*                                                                         *)
(* A User-Agent is a sequence of products [product, version]; a version is *)
(* a tuple of numbers.                                                     *)
(***************************************************************************)
EXTENDS Naturals, Sequences

(* _STRICT_CLIENT_REGISTRY; every other product is "other". *)
Floor == <<3, 2>>
Registered == {"WXYC-iOS"}

SlipAtLeast(v, f) == \A i \in DOMAIN f : i \in DOMAIN v /\ v[i] >= f[i]

(* Python's order of tuples: the first difference decides, and of a tuple  *)
(* and its beginning the longer one is the greater.                        *)
AtLeast(v, f) ==
  \/ \E i \in DOMAIN v \intersect DOMAIN f :
       v[i] > f[i] /\ \A j \in 1 .. i - 1 : v[j] = f[j]
  \/ Len(v) >= Len(f) /\ \A i \in DOMAIN f : v[i] = f[i]

is_known_strict_client(agent) ==
  \E i \in DOMAIN agent : agent[i].product \in Registered /\ AtLeast(agent[i].version, Floor)

(* The header: not sent, sent without a UUID in it, or a UUID. *)
Devices == {"absent", "empty", "junk", "uuid"}
Normalizes(device) == device = "uuid"
FingerprintDisposition(device) ==
  IF Normalizes(device) THEN "present" ELSE IF device # "absent" THEN "malformed" ELSE "absent"

(* The events: of a request the gate rejects, and of any other.            *)
Blocked(agent, device, strict) ==
  strict /\ ~Normalizes(device) /\ is_known_strict_client(agent)
RequestBlocked(device) ==
  [event |-> "request_blocked",
   ban_reason |-> IF device = "absent" THEN "ua_gate_missing_fingerprint"
                  ELSE "ua_gate_malformed_fingerprint"]
CallerProperties(device) ==
  [event |-> "request_completed",
   has_fingerprint |-> FingerprintDisposition(device) = "present",
   fingerprint_malformed |-> FingerprintDisposition(device) = "malformed"]
=============================================================================
