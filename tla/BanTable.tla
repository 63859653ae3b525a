------------------------------ MODULE BanTable ------------------------------
(***************************************************************************)
(* What a ban promises whoever asks for it, an operator of /admin/bans or  *)
(* a moderator in Slack, seen from outside: the row of one device, which   *)
(* calls ban, unban or list.  A call takes effect at most once.  One that  *)
(* is done took effect between its start and its answer and shows what it  *)
(* left; one that is refused never takes effect; one that is abandoned (an *)
(* upstream fault, a timeout, a dead process) may take effect at any later *)
(* time, or never.  BanAdmin and BanFlow implement this.                   *)
(***************************************************************************)
CONSTANTS
  Calls,  \* calls of the operators, or of the moderators
  NoBan,  \* the device is not banned
  None    \* no effect, or no answer, yet

VARIABLES
  row,     \* the call whose ban is in force, or NoBan
  kind,    \* [Calls -> "ban", "unban", "list"]
  phase,   \* [Calls -> how far the call is]
  effect,  \* [Calls -> the row as the call left it, or None]
  shown    \* [Calls -> the row its answer tells of, or None]

vars == <<row, kind, phase, effect, shown>>

Init ==
  /\ row = NoBan
  /\ kind \in [Calls -> {"ban", "unban", "list"}]
  /\ phase = [c \in Calls |-> "idle"]
  /\ effect = [c \in Calls |-> None]
  /\ shown = [c \in Calls |-> None]

Start(c) ==
  /\ phase[c] = "idle"
  /\ phase' = [phase EXCEPT ![c] = "open"]
  /\ UNCHANGED <<row, kind, effect, shown>>

Effect(c) == IF kind[c] = "ban" THEN c ELSE IF kind[c] = "unban" THEN NoBan ELSE row

Take(c) ==
  /\ phase[c] \in {"open", "abandoned"} /\ effect[c] = None
  /\ row' = Effect(c)
  /\ effect' = [effect EXCEPT ![c] = row']
  /\ UNCHANGED <<kind, phase, shown>>

Finish(c) ==
  /\ phase[c] = "open" /\ effect[c] # None
  /\ phase' = [phase EXCEPT ![c] = "done"]
  /\ shown' = [shown EXCEPT ![c] = effect[c]]
  /\ UNCHANGED <<row, kind, effect>>

(* Refused at once, or after the call was open for a while. *)
Refuse(c) ==
  /\ phase[c] \in {"idle", "open"} /\ effect[c] = None
  /\ phase' = [phase EXCEPT ![c] = "refused"]
  /\ UNCHANGED <<row, kind, effect, shown>>

Abandon(cs) ==
  /\ \A c \in cs : phase[c] = "open"
  /\ phase' = [c \in Calls |-> IF c \in cs THEN "abandoned" ELSE phase[c]]
  /\ UNCHANGED <<row, kind, effect, shown>>

Next ==
  \/ \E c \in Calls : Start(c) \/ Take(c) \/ Finish(c) \/ Refuse(c)
  \/ \E cs \in SUBSET Calls : Abandon(cs)

Spec == Init /\ [][Next]_vars
=============================================================================
