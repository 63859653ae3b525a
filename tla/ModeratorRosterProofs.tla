----------------------- MODULE ModeratorRosterProofs -----------------------
(***************************************************************************)
(* Proofs about ModeratorRoster, for every set of users and sessions, any  *)
(* break-glass list and any number of submissions per modal.               *)
(***************************************************************************)
EXTENDS ModeratorRoster, TLAPS

(* A modal is only ever opened for somebody its roster authorizes, and     *)
(* once it may be on screen its private_metadata is fixed.                 *)
ViewAuthorizes(s) ==
  /\ cmd[s] \in Opening \/ modal[s] # "none" =>
       moderators[s] # Unread /\ owner[s] \in BreakGlass \cup moderators[s]
  /\ modal[s] # "none" => cmd[s] = "ended" /\ (dropped[s] \/ shown[s] = moderators[s])
  /\ save[s] # "idle" => modal[s] = "open"

(* A PUT carries what its modal was built from. *)
PutMatchesView(p) ==
  /\ modal[p.session] # "none"
  /\ p.actor = owner[p.session]
  /\ p.expected = normalize_slack_user_ids(moderators[p.session])
  /\ p.new = {} => shown[p.session] = moderators[p.session]

(* The current attempt of s was not applied, and cannot be any more.       *)
Settled(s) ==
  /\ attempt[s] \notin applied[s]
  /\ \A p \in puts : p.session = s => p.attempt # attempt[s]

(* Attempts are numbered: each is in flight, applied or neither.           *)
AttemptsAreNumbered ==
  /\ \A s \in Sessions : \A n \in applied[s] : n <= attempt[s]
  /\ \A p \in puts : p.attempt <= attempt[p.session] /\ p.attempt \notin applied[p.session]
  /\ \A p, q \in puts : p.session = q.session /\ p.attempt = q.attempt => p = q

(* Somebody edited the roster since s read it, perhaps s itself. *)
Touched(s) == othersEdited[s] \/ applied[s] # {}

AnswerIsTrue(s) ==
  /\ save[s] # "saving" => answer[s] = "none"
  /\ save[s] # "idle" => told[s] = "nothing"
  /\ save[s] = "authorizing" => Settled(s)
  /\ answer[s] = "ok" => attempt[s] \in applied[s]
  /\ answer[s] = "conflict" => Settled(s) /\ Touched(s)
  /\ told[s] = "saved" => attempt[s] \in applied[s]
  /\ told[s] \in Refusals => Settled(s)
  /\ told[s] = "conflict" => Touched(s)

UnchangedSinceRead(s) ==
  moderators[s] # Unread /\ ~Touched(s) => roster = moderators[s]

Inv ==
  /\ TypeOK
  /\ \A s \in Sessions : ViewAuthorizes(s) /\ AnswerIsTrue(s) /\ UnchangedSinceRead(s)
  /\ \A p \in puts : PutMatchesView(p)
  /\ AttemptsAreNumbered
-----------------------------------------------------------------------------
(* The steps of Next, as the proofs split them. *)
LEMMA StepCases ==
  ASSUME TypeOK, Next
  PROVE  \/ \E s \in Sessions : SlashCommand(s) \/ ServeList(s) \/ Listed(s) \/ ListFails(s)
         \/ \E s \in Sessions : ViewOpened(s) \/ ViewRejected(s) \/ ViewFails(s) \/ Cancel(s)
         \/ \E s \in Sessions, ids \in SUBSET SlackUsers : Submit(s, ids)
         \/ \E s \in Sessions : ServeAuthorization(s)
         \/ \E s \in Sessions : Authorize(s) \/ AuthorizeDegraded(s)
         \/ \E s \in Sessions, a \in {"none", "ok", "conflict", "error"} : FinishSave(s, a)
         \/ \E p \in puts : ServePut(p)
         \/ \E p \in puts : RejectPut(p)
         \/ \E ids \in Rosters : OperatorEdit(ids)
         \/ Restart
<1>1. ASSUME NEW s \in Sessions, PutReturns(s) \/ PutTimesOut(s)
      PROVE  \E a \in {"none", "ok", "conflict", "error"} : FinishSave(s, a)
  <2>1. answer[s] \in {"none", "ok", "conflict", "error"}
    BY DEF TypeOK
  <2> QED
    BY <1>1, <2>1 DEF PutReturns, PutTimesOut
<1> QED
  BY <1>1, Zenon DEF Next, Command, Submission

(* Respelled, a roster is one, and has somebody in it if it had before;    *)
(* whoever Slack spells is on it under that name.                          *)
LEMMA Normalized ==
  ASSUME NEW ids
  PROVE  /\ normalize_slack_user_ids(ids) \in Rosters
         /\ ids \in Rosters /\ ids # {} => normalize_slack_user_ids(ids) # {}
         /\ \A u \in SlackUsers : u \in ids => u \in normalize_slack_user_ids(ids)
<1>1. \A u \in ids : u \in Users => Upper[u] \in normalize_slack_user_ids(ids)
  BY ModeratorConstants DEF normalize_slack_user_ids
<1>2. normalize_slack_user_ids(ids) \in Rosters
  BY DEF normalize_slack_user_ids, Rosters
<1> QED
  BY <1>1, <1>2 DEF Rosters, SlackUsers

(* A PUT is well formed. *)
LEMMA PutType ==
  ASSUME TypeOK, NEW s \in Sessions
  PROVE  /\ ReplaceModerators(s) \in Put
         /\ ReplaceModerators(s).new = {} => selected[s] = {}
BY Normalized DEF TypeOK, Put, ReplaceModerators, SlackUsers

(* What a modal Slack shows is well formed, and marked or pre-selected. *)
LEMMA ShowType ==
  ASSUME TypeOK, NEW opened \in SUBSET Sessions, Show(opened)
  PROVE  /\ modal' \in [Sessions -> {"none", "open", "closed"}]
         /\ shown' \in [Sessions -> {Unread} \cup Rosters]
         /\ dropped' \in [Sessions -> BOOLEAN]
         /\ \A s \in opened : dropped'[s] \/ shown'[s] = moderators[s]
         /\ \A s \in Sessions \ opened : /\ modal'[s] = modal[s]
                                        /\ shown'[s] = shown[s]
                                        /\ dropped'[s] = dropped[s]
<1>1. \A s \in Sessions : /\ Dropped(cmd[s] = "reopening", moderators[s]) \in BOOLEAN
                         /\ Picker(cmd[s] = "reopening", moderators[s]) \in {Unread} \cup Rosters
  BY DEF TypeOK, Dropped, Picker, Rosters
<1>2. \A s \in Sessions : \/ Dropped(cmd[s] = "reopening", moderators[s])
                         \/ Picker(cmd[s] = "reopening", moderators[s]) = moderators[s]
  BY DEF TypeOK, Dropped, Picker
<1> QED
  BY <1>1, <1>2 DEF Show, TypeOK

(* Every variable keeps its type. *)
THEOREM TypeCorrect == Spec => []TypeOK
<1> USE ModeratorConstants DEF Rosters, Refusals, Told, Opening, Put, TypeOK, SlackUsers
<1>1. Init => TypeOK
  BY DEF Init
<1>2. TypeOK /\ [Next]_vars => TypeOK'
  <2> SUFFICES ASSUME TypeOK, [Next]_vars PROVE TypeOK'
    OBVIOUS
  <2> USE DEF bs, view, submission
  <2>1. ASSUME NEW s \in Sessions, SlashCommand(s) \/ ServeList(s) \/ Listed(s) \/ ListFails(s)
        PROVE  TypeOK'
    BY <2>1 DEF SlashCommand, ServeList, Listed, ListFails, EndCommand
  <2>2. ASSUME NEW s \in Sessions,
               ViewOpened(s) \/ ViewRejected(s) \/ ViewFails(s) \/ Cancel(s)
        PROVE  TypeOK'
    <3>1. CASE ViewRejected(s) \/ Cancel(s)
      BY <3>1 DEF ViewRejected, Cancel
    <3>2. CASE ViewOpened(s) \/ ViewFails(s)
      <4>1. PICK opened \in SUBSET {s} : Show(opened)
        BY <3>2, {} \in SUBSET {s}, {s} \in SUBSET {s}, Zenon DEF ViewOpened, ViewFails
      <4>2. opened \in SUBSET Sessions
        OBVIOUS
      <4> QED
        BY <3>2, <4>1, <4>2, ShowType DEF ViewOpened, ViewFails, EndCommand
    <3> QED
      BY <2>2, <3>1, <3>2
  <2>3. ASSUME NEW s \in Sessions, NEW ids \in SUBSET SlackUsers, Submit(s, ids)
        PROVE  TypeOK'
    BY <2>3 DEF Submit
  <2>4. ASSUME NEW s \in Sessions, ServeAuthorization(s)
        PROVE  TypeOK'
    BY <2>4 DEF ServeAuthorization
  <2>5. ASSUME NEW s \in Sessions, Authorize(s) \/ AuthorizeDegraded(s)
        PROVE  TypeOK'
    <3>1. ReplaceModerators(s) \in Put
      BY PutType
    <3>2. PICK degraded \in BOOLEAN, users \in SUBSET Users : Decide(s, users, degraded)
      BY <2>5 DEF Authorize, AuthorizeDegraded
    <3>3. CASE SendPut(s)
      BY <3>1, <3>2, <3>3 DEF Decide, SendPut
    <3>4. ASSUME NEW reply \in Refusals, RosterError(s, reply)
          PROVE  TypeOK'
      BY <3>2, <3>4 DEF Decide, RosterError, Return
    <3> QED
      BY <3>2, <3>3, <3>4 DEF Decide
  <2>6. ASSUME NEW s \in Sessions, NEW a \in {"none", "ok", "conflict", "error"}, FinishSave(s, a)
        PROVE  TypeOK'
    <3>1. CASE SaveReply(a) = "saved"
      BY <2>6, <3>1 DEF FinishSave, Return
    <3>2. CASE SaveReply(a) # "saved"
      <4>1. SaveReply(a) \in {"conflict", "not_saved"}
        BY <3>2 DEF SaveReply
      <4> QED
        BY <2>6, <3>2, <4>1 DEF FinishSave, RosterError, Return
    <3> QED
      BY <3>1, <3>2
  <2>7. ASSUME NEW p \in puts, ServePut(p)
        PROVE  TypeOK'
    <3>1. /\ p.session \in Sessions /\ p.attempt \in 0..MaxSaves
          /\ p.actor \in Users /\ p.new \in Rosters
      OBVIOUS
    <3>2. answer' \in [Sessions -> {"none", "ok", "conflict", "error"}]
      BY <2>7, <3>1 DEF ServePut, Answer
    <3>3. CASE normalize_slack_user_ids(roster) = p.expected
      <4>1. othersEdited' \in [Sessions -> BOOLEAN]
        <5>1. othersEdited' = [t \in Sessions |->
                 othersEdited[t] \/ (t \notin {p.session} /\ moderators[t] # Unread /\ p.new # roster)]
          BY <2>7, <3>3 DEF ServePut, StoreRoster
        <5>2. \A t \in Sessions :
                (othersEdited[t] \/ (t \notin {p.session} /\ moderators[t] # Unread /\ p.new # roster))
                  \in BOOLEAN
          BY Zenon
        <5> QED
          BY <5>1, <5>2
      <4>2. applied' \in [Sessions -> SUBSET (0..MaxSaves)]
        BY <2>7, <3>1, <3>3 DEF ServePut
      <4>3. roster' = p.new /\ writer' = p.actor
        BY <2>7, <3>3 DEF ServePut, StoreRoster
      <4> QED
        BY <2>7, <3>1, <3>2, <4>1, <4>2, <4>3 DEF ServePut
    <3>4. CASE normalize_slack_user_ids(roster) # p.expected
      BY <2>7, <3>2, <3>4 DEF ServePut
    <3> QED
      BY <3>3, <3>4
  <2>8. ASSUME NEW p \in puts, RejectPut(p)
        PROVE  TypeOK'
    BY <2>8 DEF RejectPut, Answer
  <2>9. ASSUME NEW ids \in Rosters, OperatorEdit(ids)
        PROVE  TypeOK'
    <3>1. \A t \in Sessions :
            (othersEdited[t] \/ (t \notin {} /\ moderators[t] # Unread /\ ids # roster)) \in BOOLEAN
      BY Zenon
    <3>2. othersEdited' = [t \in Sessions |->
             othersEdited[t] \/ (t \notin {} /\ moderators[t] # Unread /\ ids # roster)]
      BY <2>9 DEF OperatorEdit, StoreRoster
    <3> QED
      BY <2>9, <3>1, <3>2 DEF OperatorEdit, StoreRoster
  <2>10. CASE Restart
    <3>1. PICK late \in SUBSET Sessions : Show(late)
      BY <2>10 DEF Restart
    <3> QED
      BY <2>10, <3>1, ShowType DEF Restart
  <2>11. CASE UNCHANGED vars
    BY <2>11 DEF vars
  <2> QED
    BY <2>1, <2>2, <2>3, <2>4, <2>5, <2>6, <2>7, <2>8, <2>9, <2>10, <2>11, StepCases
<1> QED
  BY <1>1, <1>2, PTL DEF Spec
-----------------------------------------------------------------------------
(* Inv is inductive. *)
THEOREM InvCorrect == Spec => []Inv
<1> USE ModeratorConstants
<1>1. Init => Inv
  <2> SUFFICES ASSUME Init PROVE Inv
    OBVIOUS
  <2>1. TypeOK
    BY DEF Init, TypeOK, Rosters, Told, Refusals, Opening, Put
  <2>2. \A s \in Sessions : ViewAuthorizes(s) /\ UnchangedSinceRead(s)
    BY DEF Init, ViewAuthorizes, UnchangedSinceRead, Opening
  <2>3. \A s \in Sessions : AnswerIsTrue(s)
    BY DEF Init, AnswerIsTrue, Touched, Settled, Refusals
  <2>4. (\A p \in puts : PutMatchesView(p)) /\ AttemptsAreNumbered
    BY DEF Init, AttemptsAreNumbered
  <2> QED
    BY <2>1, <2>2, <2>3, <2>4 DEF Inv
<1>2. Inv /\ TypeOK' /\ [Next]_vars => Inv'
  <2> SUFFICES ASSUME Inv, TypeOK', [Next]_vars
               PROVE  /\ \A t \in Sessions : ViewAuthorizes(t)' /\ AnswerIsTrue(t)' /\ UnchangedSinceRead(t)'
                      /\ (\A q \in puts : PutMatchesView(q))'
                      /\ AttemptsAreNumbered'
    BY DEF Inv
  <2> DEFINE Goal == /\ \A t \in Sessions : ViewAuthorizes(t)' /\ AnswerIsTrue(t)' /\ UnchangedSinceRead(t)'
                     /\ (\A q \in puts : PutMatchesView(q))'
                     /\ AttemptsAreNumbered'
  <2> USE DEF bs, view, submission, Inv
  <2>1. ASSUME NEW s \in Sessions, SlashCommand(s) \/ ServeList(s) \/ Listed(s) \/ ListFails(s)
        PROVE  Goal
    <3>1. \A t \in Sessions : ViewAuthorizes(t)'
      BY <2>1 DEF TypeOK, SlashCommand, ServeList, Listed, ListFails, EndCommand, IsAuthorized, ViewAuthorizes, Opening
    <3>2. \A t \in Sessions : UnchangedSinceRead(t)'
      BY <2>1 DEF TypeOK, SlashCommand, ServeList, Listed, ListFails, EndCommand, IsAuthorized, Touched, UnchangedSinceRead
    <3>3. (\A q \in puts : PutMatchesView(q))'
      BY <2>1 DEF TypeOK, SlashCommand, ServeList, Listed, ListFails, EndCommand, IsAuthorized, PutMatchesView, ViewAuthorizes, Opening, Put
    <3>4. AttemptsAreNumbered'
      BY <2>1 DEF TypeOK, SlashCommand, ServeList, Listed, ListFails, EndCommand, IsAuthorized, AttemptsAreNumbered, AnswerIsTrue, Settled, Put
    <3>5. \A t \in Sessions : AnswerIsTrue(t)'
      BY <2>1 DEF TypeOK, SlashCommand, ServeList, Listed, ListFails, EndCommand, AnswerIsTrue, Touched, Settled, Refusals, ViewAuthorizes, Opening
    <3> QED
      BY <3>1, <3>2, <3>3, <3>4, <3>5
  <2>2. ASSUME NEW s \in Sessions, ViewOpened(s) \/ ViewRejected(s) \/ ViewFails(s) \/ Cancel(s)
        PROVE  Goal
    <3>1. \A t \in Sessions : ViewAuthorizes(t)'
      <4>1. CASE ViewRejected(s) \/ Cancel(s)
        BY <4>1 DEF TypeOK, ViewRejected, Cancel, ViewAuthorizes, Opening
      <4>2. CASE ViewOpened(s) \/ ViewFails(s)
        <5>1. PICK opened \in SUBSET {s} : Show(opened)
          BY <4>2, {} \in SUBSET {s}, {s} \in SUBSET {s}, Zenon DEF ViewOpened, ViewFails
        <5>2. opened \in SUBSET Sessions
          OBVIOUS
        <5> QED
          BY <4>2, <5>1, <5>2, ShowType
             DEF TypeOK, ViewOpened, ViewFails, EndCommand, ViewAuthorizes, Opening
      <4> QED
        BY <2>2, <4>1, <4>2
    <3>2. \A t \in Sessions : UnchangedSinceRead(t)'
      BY <2>2 DEF TypeOK, ViewOpened, ViewRejected, ViewFails, Cancel, EndCommand, Show, Touched, UnchangedSinceRead
    <3>3. (\A q \in puts : PutMatchesView(q))'
      BY <2>2 DEF TypeOK, ViewOpened, ViewRejected, ViewFails, Cancel, EndCommand, Show, PutMatchesView, ViewAuthorizes, Opening, Put
    <3>4. AttemptsAreNumbered'
      BY <2>2 DEF TypeOK, ViewOpened, ViewRejected, ViewFails, Cancel, EndCommand, AttemptsAreNumbered, AnswerIsTrue, Settled, Put
    <3>5. \A t \in Sessions : AnswerIsTrue(t)'
      BY <2>2 DEF TypeOK, ViewOpened, ViewRejected, ViewFails, Cancel, EndCommand, AnswerIsTrue, Touched, Settled, Refusals, ViewAuthorizes, Opening
    <3> QED
      BY <3>1, <3>2, <3>3, <3>4, <3>5
  <2>3. ASSUME NEW s \in Sessions, NEW ids \in SUBSET SlackUsers, Submit(s, ids)
        PROVE  Goal
    <3>1. \A t \in Sessions : ViewAuthorizes(t)'
      BY <2>3 DEF TypeOK, Submit, ViewAuthorizes, Opening
    <3>2. \A t \in Sessions : UnchangedSinceRead(t)'
      BY <2>3 DEF TypeOK, Submit, Touched, UnchangedSinceRead
    <3>3. (\A q \in puts : PutMatchesView(q))'
      BY <2>3 DEF TypeOK, Submit, PutMatchesView, ViewAuthorizes, Opening
    <3>4. AttemptsAreNumbered'
      BY <2>3 DEF TypeOK, Submit, AttemptsAreNumbered, AnswerIsTrue, Settled, Put
    <3>5. \A t \in Sessions : AnswerIsTrue(t)'
      BY <2>3 DEF TypeOK, Submit, AnswerIsTrue, Touched, Settled, Refusals, AttemptsAreNumbered, PutMatchesView, UnchangedSinceRead, Put
    <3> QED
      BY <3>1, <3>2, <3>3, <3>4, <3>5
  <2>4. ASSUME NEW s \in Sessions, ServeAuthorization(s)
        PROVE  Goal
    <3>1. \A t \in Sessions : ViewAuthorizes(t)'
      BY <2>4 DEF TypeOK, ServeAuthorization, ViewAuthorizes, Opening
    <3>2. \A t \in Sessions : UnchangedSinceRead(t)'
      BY <2>4 DEF TypeOK, ServeAuthorization, Touched, UnchangedSinceRead
    <3>3. (\A q \in puts : PutMatchesView(q))'
      BY <2>4 DEF TypeOK, ServeAuthorization, PutMatchesView, ViewAuthorizes, Opening
    <3>4. AttemptsAreNumbered'
      BY <2>4 DEF TypeOK, ServeAuthorization, AttemptsAreNumbered, AnswerIsTrue, Settled, Put
    <3>5. \A t \in Sessions : AnswerIsTrue(t)'
      BY <2>4 DEF TypeOK, ServeAuthorization, AnswerIsTrue, Touched, Settled, Refusals, AttemptsAreNumbered, PutMatchesView, UnchangedSinceRead, Put
    <3> QED
      BY <3>1, <3>2, <3>3, <3>4, <3>5
  <2>5. ASSUME NEW s \in Sessions, Authorize(s) \/ AuthorizeDegraded(s)
        PROVE  Goal
    <3>1. \A t \in Sessions : ViewAuthorizes(t)'
      BY <2>5 DEF TypeOK, Authorize, AuthorizeDegraded, Decide, RosterError, Return, SendPut, ReplaceModerators, ExpectedCurrent, EmptyByDefault, ViewAuthorizes, Opening
    <3>2. \A t \in Sessions : UnchangedSinceRead(t)'
      BY <2>5 DEF TypeOK, Authorize, AuthorizeDegraded, Decide, RosterError, Return, SendPut, ReplaceModerators, ExpectedCurrent, EmptyByDefault, Touched, UnchangedSinceRead
    <3>3. (\A q \in puts : PutMatchesView(q))'
      <4>1. /\ UNCHANGED <<modal, owner, moderators, shown>>
            /\ modal[s] # "none" /\ (dropped[s] \/ shown[s] = moderators[s])
            /\ \/ puts' = puts
               \/ puts' = puts \cup {ReplaceModerators(s)} /\ ~EmptyByDefault(s)
        BY <2>5 DEF TypeOK, Authorize, AuthorizeDegraded, Decide, RosterError, Return, SendPut, ViewAuthorizes
      <4>2. /\ ReplaceModerators(s).session = s /\ ReplaceModerators(s).actor = owner[s]
            /\ ReplaceModerators(s).expected = normalize_slack_user_ids(moderators[s])
        BY DEF ReplaceModerators, ExpectedCurrent
      <4>3. ReplaceModerators(s).new = {} => selected[s] = {}
        BY PutType
      <4>4. ~EmptyByDefault(s) => PutMatchesView(ReplaceModerators(s))
        BY <4>1, <4>2, <4>3 DEF PutMatchesView, EmptyByDefault
      <4> QED
        BY <4>1, <4>4 DEF PutMatchesView
    <3>4. AttemptsAreNumbered'
      BY <2>5 DEF TypeOK, Authorize, AuthorizeDegraded, Decide, RosterError, Return, SendPut, ReplaceModerators, ExpectedCurrent, EmptyByDefault, AttemptsAreNumbered, AnswerIsTrue, Settled, Put
    <3>5. \A t \in Sessions : AnswerIsTrue(t)'
      <4>1. save[s] = "authorizing" /\ Settled(s)
        BY <2>5 DEF Authorize, AuthorizeDegraded, AnswerIsTrue
      <4>2. PICK degraded \in BOOLEAN, users \in SUBSET Users : Decide(s, users, degraded)
        BY <2>5 DEF TypeOK, Rosters, Authorize, AuthorizeDegraded
      <4>3. CASE SendPut(s)
        BY <4>1, <4>2, <4>3 DEF TypeOK, Decide, SendPut, ReplaceModerators, AnswerIsTrue, Touched, Settled, Refusals
      <4>4. ASSUME NEW reply \in Refusals \ {"conflict"}, RosterError(s, reply)
            PROVE  \A t \in Sessions : AnswerIsTrue(t)'
        BY <4>1, <4>2, <4>4 DEF TypeOK, Decide, RosterError, Return, Refusals, AnswerIsTrue, Touched, Settled
      <4> QED
        BY <4>2, <4>3, <4>4 DEF Decide, Refusals
    <3> QED
      BY <3>1, <3>2, <3>3, <3>4, <3>5
  <2>6. ASSUME NEW s \in Sessions, NEW a \in {"none", "ok", "conflict", "error"}, FinishSave(s, a)
        PROVE  Goal
    <3>1. \A t \in Sessions : ViewAuthorizes(t)'
      BY <2>6 DEF TypeOK, FinishSave, RosterError, Return, SaveReply, ViewAuthorizes, Opening
    <3>2. \A t \in Sessions : UnchangedSinceRead(t)'
      BY <2>6 DEF TypeOK, FinishSave, RosterError, Return, SaveReply, Touched, UnchangedSinceRead
    <3>3. (\A q \in puts : PutMatchesView(q))'
      BY <2>6 DEF TypeOK, FinishSave, RosterError, Return, SaveReply, PutMatchesView, ViewAuthorizes, Opening, Put
    <3>4. AttemptsAreNumbered'
      BY <2>6 DEF TypeOK, FinishSave, RosterError, Return, SaveReply, AttemptsAreNumbered, AnswerIsTrue, Settled, Put
    <3>5. \A t \in Sessions : AnswerIsTrue(t)'
      BY <2>6 DEF TypeOK, FinishSave, RosterError, Return, SaveReply, AnswerIsTrue, Touched, Settled, Refusals, AttemptsAreNumbered, PutMatchesView, UnchangedSinceRead, Put
    <3> QED
      BY <3>1, <3>2, <3>3, <3>4, <3>5
  <2>7. ASSUME NEW p \in puts, ServePut(p)
        PROVE  Goal
    <3>1. \A t \in Sessions : ViewAuthorizes(t)'
      BY <2>7 DEF TypeOK, ServePut, StoreRoster, Answer, ViewAuthorizes, Opening
    <3>2. \A t \in Sessions : UnchangedSinceRead(t)'
      <4>1. CASE normalize_slack_user_ids(roster) = p.expected
        <5>1. /\ StoreRoster(p.new, p.actor, {p.session}) /\ moderators' = moderators
              /\ applied' = [applied EXCEPT ![p.session] = @ \cup {p.attempt}]
          BY <2>7, <4>1 DEF ServePut, view
        <5>2. \A t \in Sessions : Touched(t) => Touched(t)'
          BY <5>1 DEF StoreRoster, Touched, TypeOK
        <5>3. \A t \in Sessions : roster' # roster /\ moderators[t] # Unread => Touched(t)'
          BY <5>1 DEF StoreRoster, Touched, TypeOK
        <5> QED
          BY <5>1, <5>2, <5>3 DEF UnchangedSinceRead
      <4>2. CASE normalize_slack_user_ids(roster) # p.expected
        BY <2>7, <4>2 DEF ServePut, Touched, UnchangedSinceRead
      <4> QED
        BY <4>1, <4>2
    <3>3. (\A q \in puts : PutMatchesView(q))'
      BY <2>7 DEF TypeOK, ServePut, StoreRoster, Answer, PutMatchesView, ViewAuthorizes, Opening
    <3>4. AttemptsAreNumbered'
      BY <2>7 DEF TypeOK, ServePut, StoreRoster, Answer, AttemptsAreNumbered, AnswerIsTrue, Settled, Put
    <3>5. \A t \in Sessions : AnswerIsTrue(t)'
      <4>1. /\ p.session \in Sessions /\ p.attempt \notin applied[p.session]
            /\ p.expected = normalize_slack_user_ids(moderators[p.session])
            /\ moderators[p.session] # Unread
        BY DEF TypeOK, Put, AttemptsAreNumbered, PutMatchesView, ViewAuthorizes
      <4>2. \A q \in puts' : q \in puts /\ q # p
        BY <2>7 DEF ServePut
      <4>3. CASE normalize_slack_user_ids(roster) = p.expected
        <5>1. \A t \in Sessions : Touched(t) => Touched(t)'
          BY <2>7, <4>3 DEF TypeOK, ServePut, StoreRoster, Touched
        <5>2. PICK a \in {"ok", "error"} : Answer(p, a)
          BY <2>7, <4>3 DEF ServePut
        <5>3. applied' = [applied EXCEPT ![p.session] = @ \cup {p.attempt}]
          BY <2>7, <4>3 DEF ServePut
        <5> QED
          BY <2>7, <4>1, <4>2, <5>1, <5>2, <5>3
             DEF TypeOK, ServePut, Answer, AnswerIsTrue, Settled, Refusals
      <4>4. CASE normalize_slack_user_ids(roster) # p.expected
        <5>1. Answer(p, "conflict") /\ UNCHANGED <<roster, applied, othersEdited>>
          BY <2>7, <4>4 DEF ServePut
        <5>2. Touched(p.session)
          BY <4>1, <4>4 DEF UnchangedSinceRead
        <5>4. \A t \in Sessions : Touched(t)' = Touched(t)
          BY <5>1 DEF Touched
        <5>3. \A q \in puts' : q.session = p.session => q.attempt # p.attempt
          BY <4>2 DEF AttemptsAreNumbered
        <5> QED
          BY <2>7, <4>1, <4>2, <5>1, <5>2, <5>3, <5>4
             DEF TypeOK, ServePut, Answer, AnswerIsTrue, Settled
      <4> QED
        BY <4>3, <4>4
    <3> QED
      BY <3>1, <3>2, <3>3, <3>4, <3>5
  <2>8. ASSUME NEW p \in puts, RejectPut(p)
        PROVE  Goal
    <3>1. \A t \in Sessions : ViewAuthorizes(t)'
      BY <2>8 DEF TypeOK, RejectPut, Answer, ViewAuthorizes, Opening
    <3>2. \A t \in Sessions : UnchangedSinceRead(t)'
      BY <2>8 DEF TypeOK, RejectPut, Answer, Touched, UnchangedSinceRead
    <3>3. (\A q \in puts : PutMatchesView(q))'
      BY <2>8 DEF TypeOK, RejectPut, Answer, PutMatchesView, ViewAuthorizes, Opening
    <3>4. AttemptsAreNumbered'
      BY <2>8 DEF TypeOK, RejectPut, Answer, AttemptsAreNumbered, AnswerIsTrue, Settled, Put
    <3>5. \A t \in Sessions : AnswerIsTrue(t)'
      BY <2>8 DEF TypeOK, RejectPut, Answer, AnswerIsTrue, Touched, Settled, Refusals, AttemptsAreNumbered, PutMatchesView, UnchangedSinceRead, Put
    <3> QED
      BY <3>1, <3>2, <3>3, <3>4, <3>5
  <2>9. ASSUME NEW ids \in Rosters, OperatorEdit(ids)
        PROVE  Goal
    <3>1. \A t \in Sessions : ViewAuthorizes(t)'
      BY <2>9 DEF TypeOK, OperatorEdit, StoreRoster, ViewAuthorizes, Opening
    <3>2. \A t \in Sessions : UnchangedSinceRead(t)'
      BY <2>9 DEF TypeOK, OperatorEdit, StoreRoster, Touched, UnchangedSinceRead
    <3>3. (\A q \in puts : PutMatchesView(q))'
      BY <2>9 DEF TypeOK, OperatorEdit, StoreRoster, PutMatchesView, ViewAuthorizes, Opening
    <3>4. AttemptsAreNumbered'
      BY <2>9 DEF TypeOK, OperatorEdit, StoreRoster, AttemptsAreNumbered, AnswerIsTrue, Settled, Put
    <3>5. \A t \in Sessions : AnswerIsTrue(t)'
      BY <2>9 DEF TypeOK, OperatorEdit, StoreRoster, AnswerIsTrue, Touched, Settled, Refusals, AttemptsAreNumbered, PutMatchesView, UnchangedSinceRead, Put
    <3> QED
      BY <3>1, <3>2, <3>3, <3>4, <3>5
  <2>10. ASSUME Restart
        PROVE  Goal
    <3>1. \A t \in Sessions : ViewAuthorizes(t)'
      BY <2>10 DEF TypeOK, Restart, Show, Dropped, Picker, ViewAuthorizes, Opening
    <3>2. \A t \in Sessions : UnchangedSinceRead(t)'
      BY <2>10 DEF TypeOK, Restart, Show, Touched, UnchangedSinceRead
    <3>3. (\A q \in puts : PutMatchesView(q))'
      BY <2>10 DEF TypeOK, Restart, Show, PutMatchesView, ViewAuthorizes, Opening, Put
    <3>4. AttemptsAreNumbered'
      BY <2>10 DEF TypeOK, Restart, AttemptsAreNumbered, AnswerIsTrue, Settled, Put
    <3>5. \A t \in Sessions : AnswerIsTrue(t)'
      BY <2>10 DEF TypeOK, Restart, AnswerIsTrue, Touched, Settled, Refusals, AttemptsAreNumbered, PutMatchesView, UnchangedSinceRead, Put
    <3> QED
      BY <3>1, <3>2, <3>3, <3>4, <3>5
  <2>11. ASSUME UNCHANGED vars
        PROVE  Goal
    <3>1. \A t \in Sessions : ViewAuthorizes(t)'
      BY <2>11 DEF TypeOK, vars, ViewAuthorizes, Opening
    <3>2. \A t \in Sessions : UnchangedSinceRead(t)'
      BY <2>11 DEF TypeOK, vars, Touched, UnchangedSinceRead
    <3>3. (\A q \in puts : PutMatchesView(q))'
      BY <2>11 DEF TypeOK, vars, PutMatchesView, ViewAuthorizes, Opening
    <3>4. AttemptsAreNumbered'
      BY <2>11 DEF TypeOK, vars, AttemptsAreNumbered, AnswerIsTrue, Settled, Put
    <3>5. \A t \in Sessions : AnswerIsTrue(t)'
      BY <2>11 DEF TypeOK, vars, AnswerIsTrue, Touched, Settled, Refusals, AttemptsAreNumbered, PutMatchesView, UnchangedSinceRead, Put
    <3> QED
      BY <3>1, <3>2, <3>3, <3>4, <3>5
  <2> QED
    BY <2>1, <2>2, <2>3, <2>4, <2>5, <2>6, <2>7, <2>8, <2>9, <2>10, <2>11, StepCases
<1> QED
  BY <1>1, <1>2, TypeCorrect, PTL DEF Spec
-----------------------------------------------------------------------------
(* Replies are truthful, and a reported conflict is a real one. *)
THEOREM TruthfulReplies == Spec => [](RepliesAreTruthful /\ ConflictIsReal)
<1>1. Inv => RepliesAreTruthful /\ ConflictIsReal
  <2>1. ASSUME Inv, NEW s \in Sessions, told[s] = "conflict"
        PROVE  othersEdited[s] \/ \E n \in applied[s] : n < attempt[s]
    <3>1. Touched(s) /\ attempt[s] \notin applied[s] /\ \A n \in applied[s] : n <= attempt[s]
      BY <2>1 DEF Inv, AnswerIsTrue, Settled, Refusals, AttemptsAreNumbered
    <3>2. attempt[s] \in Nat /\ \A n \in applied[s] : n \in Nat
      BY <2>1, ModeratorConstants DEF Inv, TypeOK
    <3> QED
      BY <3>1, <3>2 DEF Touched
  <2> QED
    BY <2>1 DEF Inv, AnswerIsTrue, Settled, RepliesAreTruthful, ConflictIsReal
<1> QED
  BY <1>1, InvCorrect, PTL

(* ConflictIsReal by itself. *)
THEOREM ConflictCorrect == Spec => []ConflictIsReal
  BY TruthfulReplies, PTL

(* Backend-Service answers the read of a command. *)
Reads(s) == /\ moderators[s] = Unread /\ moderators' = [moderators EXCEPT ![s] = roster]
            /\ UNCHANGED <<roster, writer>>

(* Only a PUT of a user, or the operator, changes what is stored. *)
LEMMA RosterSteps ==
  ASSUME Inv, [Next]_vars
  PROVE  \/ \E s \in Sessions : Reads(s)
         \/ UNCHANGED <<roster, writer, moderators>>
         \/ writer' = Operator /\ roster' \in Rosters /\ UNCHANGED moderators
         \/ \E p \in puts : /\ SamePeople(moderators[p.session], roster)
                            /\ moderators[p.session] # Unread
                            /\ p.actor = writer' /\ p.new = roster'
                            /\ owner[p.session] = p.actor
                            /\ p.actor \in normalize_slack_user_ids(roster) \cup BreakGlass
                            /\ p.new = {} => shown[p.session] = moderators[p.session]
                            /\ UNCHANGED moderators
<1> USE DEF bs, view, submission
<1>1. ASSUME NEW s \in Sessions, SlashCommand(s) \/ ServeList(s) \/ Listed(s) \/ ListFails(s)
      PROVE  Reads(s) \/ UNCHANGED <<roster, writer, moderators>>
  BY <1>1 DEF SlashCommand, ServeList, Listed, ListFails, Reads
<1>2. ASSUME NEW s \in Sessions, ViewOpened(s) \/ ViewRejected(s) \/ ViewFails(s) \/ Cancel(s)
      PROVE  UNCHANGED <<roster, writer, moderators>>
  BY <1>2 DEF ViewOpened, ViewRejected, ViewFails, Cancel
<1>3. ASSUME NEW s \in Sessions, NEW ids \in SUBSET SlackUsers, Submit(s, ids)
      PROVE  UNCHANGED <<roster, writer, moderators>>
  BY <1>3 DEF Submit
<1>4. ASSUME NEW s \in Sessions, ServeAuthorization(s)
      PROVE  UNCHANGED <<roster, writer, moderators>>
  BY <1>4 DEF ServeAuthorization
<1>5. ASSUME NEW s \in Sessions, Authorize(s) \/ AuthorizeDegraded(s)
      PROVE  UNCHANGED <<roster, writer, moderators>>
  BY <1>5 DEF Authorize, AuthorizeDegraded, Decide
<1>6. ASSUME NEW s \in Sessions, NEW a \in {"none", "ok", "conflict", "error"}, FinishSave(s, a)
      PROVE  UNCHANGED <<roster, writer, moderators>>
  BY <1>6 DEF FinishSave
<1>7. ASSUME NEW p \in puts, ServePut(p), normalize_slack_user_ids(roster) # p.expected
      PROVE  UNCHANGED <<roster, writer, moderators>>
  BY <1>7 DEF ServePut
<1>8. ASSUME NEW p \in puts, ServePut(p), normalize_slack_user_ids(roster) = p.expected
      PROVE  /\ SamePeople(moderators[p.session], roster)
             /\ moderators[p.session] # Unread
             /\ p.actor = writer' /\ p.new = roster'
             /\ owner[p.session] = p.actor
             /\ p.actor \in normalize_slack_user_ids(roster) \cup BreakGlass
             /\ p.new = {} => shown[p.session] = moderators[p.session]
             /\ UNCHANGED moderators
  <2>1. /\ p.session \in Sessions /\ PutMatchesView(p) /\ ViewAuthorizes(p.session)
    BY DEF Inv, TypeOK, Put
  <2>2. SamePeople(moderators[p.session], roster)
    BY <1>8, <2>1 DEF PutMatchesView, SamePeople
  <2>3. p.actor \in SlackUsers /\ p.actor \in BreakGlass \cup moderators[p.session]
    BY <2>1 DEF Inv, TypeOK, PutMatchesView, ViewAuthorizes
  <2>4. p.actor \in normalize_slack_user_ids(roster) \cup BreakGlass
    BY <2>2, <2>3, Normalized DEF SamePeople
  <2> QED
    BY <1>8, <2>1, <2>2, <2>4 DEF PutMatchesView, ViewAuthorizes, ServePut, StoreRoster
<1>9. ASSUME NEW p \in puts, RejectPut(p)
      PROVE  UNCHANGED <<roster, writer, moderators>>
  BY <1>9 DEF RejectPut
<1>10. ASSUME NEW ids \in Rosters, OperatorEdit(ids)
       PROVE  writer' = Operator /\ roster' \in Rosters /\ UNCHANGED moderators
  BY <1>10 DEF OperatorEdit, StoreRoster
<1>11. ASSUME Restart \/ UNCHANGED vars
       PROVE  UNCHANGED <<roster, writer, moderators>>
  BY <1>11 DEF Restart, vars
<1>12. CASE UNCHANGED vars
  BY <1>11, <1>12
<1>13. CASE Next
  BY <1>1, <1>2, <1>3, <1>4, <1>5, <1>6, <1>7, <1>8, <1>9, <1>10, <1>11, <1>13, StepCases DEF Inv
<1> QED
  BY <1>12, <1>13

(* A save changes only the roster its modal was opened on. *)
THEOREM LostUpdatesImpossible == Spec => NoLostUpdate
<1>1. Inv /\ [Next]_vars => [EditBuildsOnWhatWasShown]_vars
  BY RosterSteps DEF EditBuildsOnWhatWasShown, UserEdit, Reads
<1> QED
  BY <1>1, InvCorrect, PTL DEF Spec, NoLostUpdate

(* Whoever changes the roster is authorized by it when the change lands. *)
THEOREM EditsAuthorized == Spec => OnlyAuthorizedEdits
<1>1. Inv /\ [Next]_vars => [EditorIsAuthorized]_vars
  BY RosterSteps DEF EditorIsAuthorized, UserEdit, Reads
<1> QED
  BY <1>1, InvCorrect, PTL DEF Spec, OnlyAuthorizedEdits

(* No picker that opened empty removes everybody. *)
THEOREM EmptyingDeliberate == Spec => OnlyDeliberateEmptying
<1>1. Inv /\ [Next]_vars => [EmptyingIsDeliberate]_vars
  BY RosterSteps DEF EmptyingIsDeliberate, UserEdit, Reads
<1> QED
  BY <1>1, InvCorrect, PTL DEF Spec, OnlyDeliberateEmptying

(* The flow implements the register: every step is a look, an edit by     *)
(* somebody whom what they saw authorizes, an operator's overwrite, or     *)
(* invisible.                                                              *)
THEOREM RegisterImplemented == Spec => ImplementsRegister
<1> DEFINE people == normalize_slack_user_ids(roster)
           seen == [s \in Sessions |-> SeenPeople(s)]
<1>1. Init => Register!Init
  BY Normalized DEF Init, Register!Init, Rosters, SeenPeople
<1>2. Inv /\ Inv' /\ [Next]_vars => [Register!Next]_<<people, writer, seen>>
  <2> SUFFICES ASSUME Inv, Inv', [Next]_vars
               PROVE  [Register!Next]_<<people, writer, seen>>
    OBVIOUS
  <2>1. people' \in SUBSET Users
    BY Normalized DEF Rosters
  <2>2. UNCHANGED moderators => UNCHANGED seen
    BY DEF SeenPeople
  <2>3. ASSUME NEW p \in puts, SamePeople(moderators[p.session], roster),
               moderators[p.session] # Unread, p.actor = writer',
               p.actor \in people \cup BreakGlass, UNCHANGED moderators
        PROVE  Register!Next
    <3>1. p.session \in Sessions /\ p.actor \in Users
      BY DEF Inv, TypeOK, Put
    <3>2. seen[p.session] = people
      BY <2>3, <3>1 DEF SeenPeople, SamePeople
    <3>3. Register!Edit(p.session, p.actor)
      BY <2>1, <2>2, <2>3, <3>2 DEF Register!Edit
    <3> QED
      BY <3>1, <3>3 DEF Register!Next
  <2>4. ASSUME writer' = Operator, UNCHANGED moderators
        PROVE  Register!Next
    BY <2>1, <2>2, <2>4 DEF Register!Next, Register!Overwrite
  <2>5. ASSUME NEW s \in Sessions, Reads(s)
        PROVE  Register!Next
    <3>1. \A t \in Sessions : seen'[t] = IF t = s THEN people ELSE seen[t]
      <4>1. roster # Unread
        BY ModeratorConstants DEF Inv, TypeOK, Rosters
      <4>2. moderators'[s] = roster /\ \A t \in Sessions : t # s => moderators'[t] = moderators[t]
        BY <2>5 DEF Reads, Inv, TypeOK
      <4> QED
        BY <4>1, <4>2 DEF SeenPeople
    <3>2. seen' = [seen EXCEPT ![s] = people]
      BY <3>1
    <3>3. Register!Look(s)
      BY <2>5, <3>2 DEF Reads, SeenPeople, Register!Look
    <3> QED
      BY <3>3 DEF Register!Next
  <2> QED
    BY <2>2, <2>3, <2>4, <2>5, RosterSteps
<1> QED
  BY <1>1, <1>2, InvCorrect, PTL DEF Spec, ImplementsRegister, Register!Spec
=============================================================================
