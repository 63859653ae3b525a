----------------------------- MODULE OperatorView -----------------------------
(***************************************************************************)
(* What an operator is told: scripts/lookup.py and scripts/repl.py send a  *)
(* message to POST /request, without posting it, and print the answer.     *)
(*                                                                         *)
(* A section of the output is named for what it says; "no_results" stands  *)
(* for the lines that read as "not in the library".  Of the rows it is     *)
(* told whether there are any.                                             *)
(***************************************************************************)
EXTENDS RequestPipeline

(* The scripts send neither a device nor an account. *)
FromCli(i) == i.skip_slack /\ i.device = "absent" /\ i.user = "none" /\ ~i.known_client

(* The body of the answer; parsed is null when the parse failed. *)
Body(r) ==
  [parsed |-> IF parsed[r] = Failed THEN "null" ELSE IF parsed[r].is_request THEN "request" ELSE "other",
   degraded_mode |-> reply[r].degraded_mode,
   found |-> reply[r].found]

SlipDescribe(data) ==
  IF data.degraded_mode = "parsing_unavailable" THEN data.degraded_mode ELSE None

(* Every mode has an explanation, one that is new a general one.           *)
describe_degraded_mode(data) == IF data.degraded_mode = "none" THEN None ELSE data.degraded_mode

print_parsed_request(data) ==
  IF data.parsed # "null" THEN data.parsed
  ELSE IF describe_degraded_mode(data) = None THEN "no_parse" ELSE describe_degraded_mode(data)

print_search_summary(data) ==
  IF describe_degraded_mode(data) # None THEN describe_degraded_mode(data)
  ELSE IF data.parsed = "null" THEN "no_parse"
  ELSE IF data.parsed = "other" THEN "not_searched"
  ELSE IF data.found.found_on_compilation THEN "compilation"
  ELSE IF data.found.results = {} THEN "no_results"
  ELSE IF data.found.song_not_found THEN "other_albums" ELSE "direct"

(* LML's context line, then the rows, or that there are none.              *)
print_library_results(data) ==
  ({data.found.context} \ {"none"})
  \cup {IF data.found.results # {} THEN "rows"
        ELSE IF data.found.context # "none" THEN data.found.context ELSE "no_results"}

(* lookup.py: the library's section is skipped unless it is a request.     *)
run_lookup(data) ==
  [parsed |-> print_parsed_request(data), search |-> print_search_summary(data),
   library |-> IF data.parsed = "request" THEN print_library_results(data) ELSE {}]

(* repl.py has no section for the search, and ends after a null parse.     *)
print_result(data) ==
  [parsed |-> print_parsed_request(data),
   library |-> IF data.parsed = "null" THEN {}
               ELSE IF data.found.results # {} THEN {"rows"}
               ELSE IF describe_degraded_mode(data) # None THEN {describe_degraded_mode(data)}
               ELSE {"no_results"}]

(* An operator is told of every outage by both scripts, and of a find only *)
(* over rows.  "No results" is printed where LML answered and none of its  *)
(* rows is on the shelves.  There are two exceptions, each under a section *)
(* that says better: lookup.py's library section prints it of a search     *)
(* that failed, although the comment at lookup.py:280 says the section is  *)
(* skipped then, and repl.py's of a message that asks for nothing.         *)
OperatorIsNotMisled ==
  \A r \in Requests :
    Status(r) = "ok" /\ FromCli(input[r]) =>
      LET cli == run_lookup(Body(r))
          repl == print_result(Body(r))
          bare == lookup[r] \in Answers /\ "shelved" \notin lookup[r].results
      IN  /\ parsed[r] = Failed \/ lookup[r] = Failed =>
               /\ cli.search = DegradedMode(r)
               /\ DegradedMode(r) \in {repl.parsed} \cup repl.library
          /\ cli.search \in {"compilation", "other_albums", "direct"} =>
               lookup[r] \in Answers /\ "shelved" \in lookup[r].results
          /\ cli.search = "no_results" => bare
          /\ "no_results" \in cli.library => bare \/ cli.search = "search_unavailable"
          /\ "no_results" \in repl.library => bare \/ repl.parsed = "other"
          /\ "found" \in cli.library => "rows" \in cli.library
=============================================================================
