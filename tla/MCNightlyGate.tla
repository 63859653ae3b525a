--------------------------- MODULE MCNightlyGate ---------------------------
(* Trees for TLC: a first one, one with another parser, one with other     *)
(* Groq lines, and one where only files nobody watches differ.             *)
EXTENDS NightlyGate

MCCommits ==
  {[watched |-> "w1", groq |-> "g1", rest |-> "r1"],
   [watched |-> "w2", groq |-> "g1", rest |-> "r1"],
   [watched |-> "w1", groq |-> "g2", rest |-> "r1"],
   [watched |-> "w1", groq |-> "g1", rest |-> "r2"]}
=============================================================================
