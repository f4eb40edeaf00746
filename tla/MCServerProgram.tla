---------------------------- MODULE MCServerProgram ----------------------------
(* An instance of ServerProgram for TLC: one call at a time, of any method, *)
(* with a token that is too short for the refresh interval.                 *)
EXTENDS ServerProgram

CONSTANT k1

OneCall == {k1}
AllMethods == Method

================================================================================
