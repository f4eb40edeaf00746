----------------------------- MODULE MCLaptopStore -----------------------------
(***************************************************************************)
(* LaptopStore on a small instance: a cheap and a dear laptop body, a      *)
(* search for the cheap ones and a search for everything.                  *)
(***************************************************************************)
EXTENDS LaptopStore, TLC

CONSTANTS cheap, dear

MCBody == {cheap, dear}
MCFilter == {{cheap}, {cheap, dear}}

\* For liveness, three calls that contend for the lock on a smaller catalog.
MCOneBody == {cheap}
MCOneFilter == {{cheap}}

\* Calls and ids are interchangeable: no definition names one of them.
Perms == Permutations(Proc) \cup Permutations(Id)

================================================================================
