--------------------------- MODULE RosterRegister ---------------------------
(***************************************************************************)
(* What the moderator roster promises, seen from outside: one register     *)
(* that is edited by people who first looked at it.                        *)
(*                                                                         *)
(* An editor looks at the roster once.  An edit takes effect only while    *)
(* the roster is still what the editor saw, and only if the editor was     *)
(* authorized by it: listed in it, or on the break-glass list of the       *)
(* deployment.  The operator of the database may overwrite it at any time. *)
(* Nothing is said here of commands, modals, timeouts or replies:          *)
(* ModeratorRoster is shown to implement this module.                      *)
(***************************************************************************)
CONSTANTS
  Users,       \* Slack users
  BreakGlass,  \* users authorized by SLACK_BAN_AUTHORIZED_USERS
  Sessions,    \* editors' looks at the roster, each made by one user
  Unread,      \* what a session has seen before it looked
  Operator     \* whoever edits the table behind the program's back

VARIABLES
  roster,  \* the stored roster
  writer,  \* who changed it last
  seen     \* [Sessions -> what the session saw]

Init ==
  /\ roster \in SUBSET Users
  /\ writer = Operator
  /\ seen = [s \in Sessions |-> Unread]

Look(s) ==
  /\ seen[s] = Unread
  /\ seen' = [seen EXCEPT ![s] = roster]
  /\ UNCHANGED <<roster, writer>>

(* u edits in session s: the roster is what s saw, and it authorizes u. *)
Edit(s, u) ==
  /\ seen[s] = roster
  /\ u \in roster \cup BreakGlass
  /\ roster' \in SUBSET Users
  /\ writer' = u
  /\ UNCHANGED seen

Overwrite ==
  /\ roster' \in SUBSET Users
  /\ writer' = Operator
  /\ UNCHANGED seen

Next ==
  \/ \E s \in Sessions : Look(s)
  \/ \E s \in Sessions, u \in Users : Edit(s, u)
  \/ Overwrite

Spec == Init /\ [][Next]_<<roster, writer, seen>>
=============================================================================
