----------------------------- MODULE MCTokenRefresh -----------------------------
(* An instance of TokenRefresh for TLC: a tick is half a second, and the   *)
(* durations are as small as their proportions in the code allow, exactly  *)
(* on the edge of DurationsSuffice.                                        *)
EXTENDS TokenRefresh, TLC

CONSTANTS k1, k2

Calls == {k1, k2}
Methods == {"CreateLaptop", "RateLaptop", "SearchLaptop"}
Symmetry == Permutations(Call)

================================================================================
