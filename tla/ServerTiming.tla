---------------------------- MODULE ServerTiming ----------------------------
(***************************************************************************)
(* The Server-Timing header of POST /request: what LML sent in its own     *)
(* (parse_server_timing of core/server_timing.py) is merged into the legs  *)
(* this service measured (_emit_server_timing_header of                    *)
(* routers/request.py).                                                    *)
(*                                                                         *)
(* An entry of LML's header is [name, dur]; BadName stands for a name that *)
(* is no token, NoDuration for a missing, unreadable, infinite or negative *)
(* duration.                                                               *)
(***************************************************************************)
EXTENDS Naturals, Sequences

BadName == "bad name"
NoDuration == 8
Durations == 0 .. 1

(* telemetry.steps of a request that got as far as LML, and its total.     *)
OwnDuration == 9
Own == [i \in 1 .. 3 |-> [name |-> <<"parse", "lookup_service", "slack_post">>[i],
                          dur |-> OwnDuration]]
Steps == {Own[i].name : i \in DOMAIN Own}
Total == [name |-> "total", dur |-> OwnDuration]

(* The entries at the positions kept, in their order. *)
Kept(header, positions) ==
  LET kept[n \in 0 .. Len(header)] ==
        IF n = 0 THEN <<>>
        ELSE IF n \in positions THEN Append(kept[n - 1], header[n]) ELSE kept[n - 1]
  IN  kept[Len(header)]

Usable(e) == e.name # BadName /\ e.dur # NoDuration
parse_server_timing(header) == Kept(header, {i \in DOMAIN header : Usable(header[i])})

SlipKey(name) == name
Key(name) == IF name = "total" THEN "lml_total" ELSE name

(* extra[key] = dur: a key that is there keeps its place and gets the new  *)
(* value.                                                                  *)
Put(extra, leg) ==
  IF \E i \in DOMAIN extra : extra[i].name = leg.name
  THEN [i \in DOMAIN extra |-> IF extra[i].name = leg.name THEN leg ELSE extra[i]]
  ELSE Append(extra, leg)
Merge(extra, e) ==
  IF Key(e.name) \in Steps THEN extra ELSE Put(extra, [name |-> Key(e.name), dur |-> e.dur])
Extra(header) ==
  LET legs == parse_server_timing(header)
      extra[n \in 0 .. Len(legs)] == IF n = 0 THEN <<>> ELSE Merge(extra[n - 1], legs[n])
  IN  extra[Len(legs)]

(* as_server_timing: the own steps, the extra legs, the total. *)
Merged(header) == Own \o Extra(header) \o <<Total>>

(* scripts/lookup.py, print_server_timing: the roll-ups come last, in the  *)
(* order of their nesting.                                                 *)
ROLLUP_STAGES == {"lookup_service", "lml_wall", "lml_total", "total"}
Displayed(header) ==
  LET legs == parse_server_timing(header)
      of(stage) == Kept(legs, {i \in DOMAIN legs : legs[i].name = stage})
      leaves == Kept(legs, {i \in DOMAIN legs : legs[i].name \notin ROLLUP_STAGES})
  IN  leaves \o of("lookup_service") \o of("lml_wall") \o of("lml_total") \o of("total")
=============================================================================
