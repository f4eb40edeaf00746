------------------------------- MODULE MCRatings -------------------------------
(***************************************************************************)
(* Ratings on a small instance: two streams, and a count that wraps with   *)
(* the last rating.  With both scores equal every average should be 2.     *)
(***************************************************************************)
EXTENDS Ratings

Scores == 1 .. 2
EqualScores == {2}

================================================================================
