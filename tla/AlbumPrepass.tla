---------------------------- MODULE AlbumPrepass ----------------------------
(***************************************************************************)
(* extract_album_prefix (services/parser.py): a listener's message is      *)
(* peeled into the album it names and what is left for Groq to read, or    *)
(* left alone (None).                                                      *)
(*                                                                         *)
(* A message is a sequence of tokens, one line of text: words with a space *)
(* between them, pauses and closing marks right after what they follow,    *)
(* opening marks right before what they open.  A pause is a run of commas  *)
(* or of full stops, never one run of both.  The marks are those of one    *)
(* of the two families, and a mark of the other is part of a word.         *)
(***************************************************************************)
EXTENDS Naturals, Sequences, FiniteSets

CONSTANT None

(* "album" is also "record" after "the"; "please" is any courtesy;         *)
(* "spotify" any platform, "tidal" one that is an album's title as well,   *)
(* "vinyl" and "the" heads of idioms, "x" any other word.                  *)
Words == {"x", "by", "on", "from", "off", "of", "the", "album", "please",
          "vinyl", "spotify", "tidal"}
Pauses == {"comma", "stop"}
Marks == {"open", "close"}
Tokens == Words \union Pauses \union Marks

SUPPORTED_ALBUM_PREPOSITIONS == {<<"off", "of">>, <<"off">>, <<"from">>, <<"on">>}
ALBUM_IDIOM_HEADS == {"the", "vinyl"}
STREAMING_PLATFORMS == {"spotify"}
STREAMING_PLATFORMS_TITLE_COLLISION == {"tidal"}

First(positions) == CHOOSE i \in positions : \A j \in positions : i <= j
From(m, i) == SubSeq(m, i, Len(m))
Before(m, i) == SubSeq(m, 1, i - 1)
Has(m, token) == \E i \in DOMAIN m : m[i] = token
SpaceBefore(m, i) == i > 1 /\ m[i] \notin Pauses \union {"close"} /\ m[i - 1] # "open"
IsPrefixAt(m, i, w) ==
  /\ i + Len(w) <= Len(m)
  /\ \A j \in 1 .. Len(w) : m[i + j - 1] = w[j] /\ SpaceBefore(m, i + j - 1)
  /\ SpaceBefore(m, i + Len(w))

(* A preposition that has something before it and something after it; the  *)
(* first one splits the message, "off of" rather than "off".               *)
PrepositionsAt(m, i) == {w \in SUPPORTED_ALBUM_PREPOSITIONS : IsPrefixAt(m, i, w)}
Splits(m) == {i \in 2 .. Len(m) : PrepositionsAt(m, i) # {}}
PrepositionAt(m, i) ==
  CHOOSE w \in PrepositionsAt(m, i) : \A v \in PrepositionsAt(m, i) : Len(v) <= Len(w)

(* The prefix names an artist, or looks as if it did. *)
RequestSignal(prefix) == Has(prefix, "by") \/ Has(prefix, "comma")

(* "the album <title>" and "album <title>", but not "Album of ...".        *)
WithoutDescriptor(a) ==
  IF Len(a) >= 3 /\ a[1] = "the" /\ a[2] = "album" /\ SpaceBefore(a, 2) /\ SpaceBefore(a, 3)
  THEN From(a, 3)
  ELSE IF Len(a) >= 2 /\ a[1] = "album" /\ SpaceBefore(a, 2) /\ a[2] # "of"
  THEN From(a, 2) ELSE a

(* Nothing between the marks: at most one space is left when the marks of  *)
(* both ends are gone.                                                     *)
OnlyMarks(a) ==
  /\ \A i \in DOMAIN a : a[i] \in Marks
  /\ Cardinality({i \in DOMAIN a : SpaceBefore(a, i)}) <= 1

(* _split_quoted_album: the marks that may close a title opened by the     *)
(* first token.  One that is followed by a word opens another.             *)
ClosingMarks(a) ==
  IF a[1] \notin Marks THEN {}
  ELSE {i \in 3 .. Len(a) : /\ a[i] \in Marks
                            /\ a[i] = "open" /\ i < Len(a) => a[i + 1] \notin Words}

(* The trims: an appended clause after a pause, then a last courtesy.      *)
SlipWithoutFeedback(a) ==
  LET cuts == {i \in 2 .. Len(a) : a[i] = "please"}
  IN  IF cuts = {} THEN a ELSE Before(a, First(cuts))
WithoutFeedback(a) ==
  LET cuts == {i \in 1 .. Len(a) - 1 : a[i] \in Pauses /\ a[i + 1] = "please"}
  IN  IF cuts = {} THEN a ELSE Before(a, First(cuts))
WithoutPoliteness(a) ==
  LET end == IF Len(a) > 0 /\ a[Len(a)] = "stop" THEN Len(a) - 1 ELSE Len(a)
  IN  IF end >= 2 /\ a[end] = "please" /\ SpaceBefore(a, end) THEN Before(a, end) ELSE a

(* The first stretch without a space is the head of an idiom and pauses.   *)
IdiomHead(a) ==
  /\ a[1] \in ALBUM_IDIOM_HEADS
  /\ \A i \in 2 .. Len(a) : a[i] \in Pauses \/ \E j \in 2 .. i : SpaceBefore(a, j)

(* _normalize_platform_text: the whole text, but for a last pause. *)
IsOneOf(a, names) ==
  a[1] \in names /\ \A i \in 2 .. Len(a) : a[i] \in Pauses

Peeled(album, message) == [album |-> album, message |-> message]
SlipRejoined(prefix, rest) == prefix
(* What follows a quoted title goes back to the message. *)
Rejoined(prefix, rest) == prefix \o rest

(* The album without marks, as far as the heuristics take it.              *)
Unquoted(prefix, prep, album) ==
  LET a == WithoutPoliteness(WithoutFeedback(album))
  IN  IF \/ a = <<>>
         \/ prep = <<"off">> /\ a = <<"of">>
         \/ IdiomHead(a)
         \/ IsOneOf(a, STREAMING_PLATFORMS)
         \/ prep = <<"on">> /\ IsOneOf(a, STREAMING_PLATFORMS_TITLE_COLLISION)
         \/ Has(a, "by") /\ ~RequestSignal(prefix)
      THEN None ELSE Peeled(a, prefix)

extract_album_prefix(m) ==
  IF Splits(m) = {} THEN None
  ELSE LET i == First(Splits(m))
           prep == PrepositionAt(m, i)
           prefix == Before(m, i)
           album == WithoutDescriptor(From(m, i + Len(prep)))
       IN  IF (prep = <<"from">> /\ ~RequestSignal(prefix)) \/ OnlyMarks(album) THEN None
           ELSE IF ClosingMarks(album) = {} THEN Unquoted(prefix, prep, album)
           ELSE LET end == First(ClosingMarks(album))
                IN  Peeled(SubSeq(album, 2, end - 1), Rejoined(prefix, From(album, end + 1)))

----------------------------------------------------------------------------
(* parse_request, and POST /parse (routers/parse.py) around it.            *)

GroqAnswers == {"parse", "no_content", "no_json", "no_parse", "rate_limit", "failure"}

(* The album the listener named, or none, and what Groq is asked to parse. *)
Prepass(m) ==
  IF extract_album_prefix(m) = None THEN Peeled(<<>>, m) ELSE extract_album_prefix(m)

(* The listener's album wins over Groq's. *)
Overlay(m, groq_album) ==
  IF Prepass(m).album # <<>> THEN Prepass(m).album ELSE groq_album

(* The status of the reply; a parse pydantic refuses is a ValueError.      *)
ParseStatus(m, answer) ==
  IF m = <<>> THEN 400
  ELSE IF answer = "parse" THEN 200 ELSE IF answer = "rate_limit" THEN 429 ELSE 500
=============================================================================
