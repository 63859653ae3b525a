------------------------------- MODULE Readings -------------------------------
(***************************************************************************)
(* The service reads what others wrote: a listener's message, a client's   *)
(* User-Agent, LML's Server-Timing header and Backend-Service's roster.    *)
(* Here somebody writes one of them, piece by piece, and the service reads *)
(* it with the rules of AlbumPrepass, UserAgent, ServerTiming and          *)
(* RosterPayload.                                                          *)
(***************************************************************************)
EXTENDS AlbumPrepass, UserAgent, ServerTiming, RosterPayload

CONSTANTS
  Beginnings,   \* messages may begin like this: a set of sequences of Tokens
  Spoken,       \* and go on with these: a subset of Tokens
  Products,     \* a set of [product, version]
  Legs,         \* a set of [name, dur]
  MaxTokens,    \* bound: tokens added to a beginning
  MaxProducts,  \* bound: products of a User-Agent
  MaxLegs,      \* bound: entries of a Server-Timing header
  MaxRows       \* bound: rows of a roster

ASSUME ReadingsConstants ==
  /\ Beginnings \subseteq Seq(Tokens) /\ Spoken \subseteq Tokens
  /\ \A p \in Products : p.version \in Seq(Nat)
  /\ Legs \subseteq [name : STRING, dur : Nat]

VARIABLES
  kind,    \* what is written
  begun,   \* how long it was at the beginning
  text,    \* what is written so far
  result   \* what the service made of it, or None

vars == <<kind, begun, text, result>>
Kinds == {"message", "agent", "timing", "roster"}

Init ==
  /\ kind \in Kinds
  /\ text \in IF kind = "message" THEN Beginnings ELSE {<<>>}
  /\ begun = Len(text)
  /\ result = None

Write(k, pieces, bound) ==
  /\ kind = k /\ result = None /\ Len(text) < begun + bound
  /\ \E p \in pieces : text' = Append(text, p)
  /\ UNCHANGED <<kind, begun, result>>

(* A pause follows a word or a mark, and so does a closing mark a word.    *)
Follows(t) ==
  /\ t \in Pauses => text # <<>> /\ text[Len(text)] \notin Pauses
  /\ t = "close" => text # <<>>
Say == Write("message", {t \in Spoken : Follows(t)}, MaxTokens)
Name == Write("agent", Products, MaxProducts)
Time == Write("timing", Legs, MaxLegs)
List == Write("roster", UserIds \union BadRows, MaxRows)

Read(k, outcomes) ==
  /\ kind = k /\ result = None /\ result' \in outcomes
  /\ UNCHANGED <<kind, begun, text>>

(* POST /parse; Groq answers with the title "x" as the album, or fails.    *)
Parse == Read("message",
  {[status |-> ParseStatus(text, answer), asked |-> Prepass(text).message,
    album |-> IF answer = "parse" THEN Overlay(text, <<"x">>) ELSE <<>>] : answer \in GroqAnswers})

(* The events of POST /request. *)
Gate == Read("agent",
  {[device |-> device, strict |-> strict,
    event |-> IF Blocked(text, device, strict) THEN RequestBlocked(device)
              ELSE CallerProperties(device)] : device \in Devices, strict \in BOOLEAN})

(* The header of POST /request, and what lookup.py shows of it. *)
Emit == Read("timing", {[header |-> Merged(text), shown |-> Displayed(Merged(text))]})
Authorize == Read("roster",
  {[envelope |-> envelope, authorized |-> ResolveAuthorizedUsers(envelope, text)] :
     envelope \in Envelopes})

Next == Say \/ Name \/ Time \/ List \/ Parse \/ Gate \/ Emit \/ Authorize
Spec == Init /\ [][Next]_vars

----------------------------------------------------------------------------
(* Properties.                                                             *)

IsRead(k) == kind = k /\ result # None

(* After n tokens the clause has a courtesy or none, a full stop after it, *)
(* and then nothing, or a pause, a courtesy and whatever follows.          *)
OnlyCourtesies(clause, n) ==
  \E k \in n .. Len(clause) :
    /\ k > n => clause[n + 1] = "please" /\ (k = n + 1 \/ (k = n + 2 /\ clause[k] = "stop"))
    /\ k < Len(clause) => /\ k + 2 <= Len(clause)
                          /\ clause[k + 1] \in Pauses /\ clause[k + 2] = "please"

(* An artist is named in the clause behind a pause and a courtesy only.    *)
ArtistBehindCourtesy(clause) ==
  \E k \in 1 .. Len(clause) - 1 :
    clause[k] \in Pauses /\ clause[k + 1] = "please" /\ ~Has(Before(clause, k), "by")

(* What is peeled off a message can be put back: the message is what Groq  *)
(* is asked to read, with a preposition, at most a descriptor, the album   *)
(* and its marks in between, and nothing else is lost but courtesies at    *)
(* the end, with what was appended to them.  Of an artist named after an   *)
(* album without marks Groq hears, unless the message named one before, or *)
(* unless a pause and a courtesy stand between: the feedback clause is cut *)
(* (parser.py:73-83) before the guard for authors looks (parser.py:415),   *)
(* so "x on x, please by y" is the one shape that loses its artist.        *)
PeelIsFaithful ==
  IsRead("message") /\ result.status = 200 /\ result.asked # text =>
    \E i \in 2 .. Len(text), prep \in SUPPORTED_ALBUM_PREPOSITIONS, d \in 0 .. 2 :
      LET clause == From(text, i + Len(prep) + d)
          rest == From(clause, Len(result.album) + 1)
          before == Before(text, i)
      IN  /\ i + Len(prep) + d + Len(result.album) <= Len(text) + 1
          /\ SubSeq(text, i, i + Len(prep) - 1) = prep
          /\ SubSeq(text, i + Len(prep), i + Len(prep) + d - 1)
               \in {<<>>, <<"album">>, <<"the", "album">>}
          /\ result.album # <<>> /\ before # <<>>
          /\ \/ /\ clause = result.album \o rest
                /\ result.asked = before
                /\ OnlyCourtesies(clause, Len(result.album))
                /\ Has(clause, "by") => RequestSignal(before) \/ ArtistBehindCourtesy(clause)
             \/ /\ Len(clause) >= Len(result.album) + 2
                /\ clause[1] = "open" /\ rest[2] \in Marks
                /\ SubSeq(clause, 2, Len(result.album) + 1) = result.album
                /\ result.asked = before \o From(rest, 3)

(* A part of a version that is missing is read as zero, and a version is   *)
(* below another if it falls short of it in some part before it is ahead   *)
(* in any.                                                                 *)
Part(v, i) == IF i \in DOMAIN v THEN v[i] ELSE 0
NotBelow(v, f) ==
  \A i \in DOMAIN f : Part(v, i) < f[i] => \E j \in 1 .. i - 1 : Part(v, j) > f[j]

(* A version is read part by part as the numbers they are, so 3.10 is      *)
(* newer than 3.2 and 10.0 than both, and with the gate on exactly the     *)
(* clients from 3.2 on are turned away without a fingerprint; and whether  *)
(* a request was blocked or answered, its event tells a missing header     *)
(* from a broken one in the same way.                                      *)
CallersAreToldApart ==
  IsRead("agent") =>
    LET blocked == result.event.event = "request_blocked"
        known == \E i \in DOMAIN text : /\ text[i].product = "WXYC-iOS"
                                        /\ NotBelow(text[i].version, Floor)
    IN  /\ blocked <=> result.strict /\ known /\ result.device # "uuid"
        /\ blocked => (result.event.ban_reason = "ua_gate_missing_fingerprint"
                         <=> result.device = "absent")
        /\ ~blocked => /\ result.event.has_fingerprint <=> result.device = "uuid"
                       /\ result.event.fingerprint_malformed <=> result.device \in {"empty", "junk"}

(* The header has every name once, the service's own durations are its     *)
(* own, and every leg of LML with a name and a duration is there as LML    *)
(* last gave it, unless the service measured a step of that name; and the  *)
(* operator is shown all of them, the service's total last.                *)
TimingKeepsEveryLeg ==
  IsRead("timing") =>
    LET h == result.header
        shown == result.shown
    IN  /\ Len(shown) = Len(h) /\ {shown[i] : i \in DOMAIN shown} = {h[i] : i \in DOMAIN h}
        /\ shown[Len(shown)].name = "total"
        /\ \A i, j \in DOMAIN h : h[i].name = h[j].name => i = j
        /\ \A name \in Steps \union {"total"} :
             \E i \in DOMAIN h : h[i] = [name |-> name, dur |-> OwnDuration]
        /\ \A i \in DOMAIN text :
             LET key == IF text[i].name = "total" THEN "lml_total" ELSE text[i].name
                 usable(j) == text[j].name # BadName /\ text[j].dur # NoDuration
                 same(j) == \/ text[j].name = text[i].name
                           \/ {text[i].name, text[j].name} = {"total", "lml_total"}
                 last == \A j \in i + 1 .. Len(text) : usable(j) => ~same(j)
             IN  usable(i) /\ last /\ key \notin Steps =>
                   \E j \in DOMAIN h : h[j] = [name |-> key, dur |-> text[i].dur]

(* A roster counts whole or not at all: whoever may act and is not in the  *)
(* environment's list is in a roster of which every row was understood,    *)
(* with everybody else it names, and the caller knows when it was not.     *)
RosterCountsWhole ==
  IsRead("roster") =>
    LET users == result.authorized.users
        named == {text[i] : i \in DOMAIN text}
    IN  /\ BreakGlass \subseteq users
        /\ users # BreakGlass => named \subseteq UserIds /\ users = BreakGlass \union named
        /\ ~result.authorized.degraded => users = BreakGlass \union named /\ Len(text) <= MAX_ROSTER_SIZE
=============================================================================
