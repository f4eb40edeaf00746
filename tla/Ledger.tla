--------------------------------- MODULE Ledger ---------------------------------
(***************************************************************************)
(* What the rating service promises: each laptop has a count and a sum,    *)
(* and a rating that a stream hands in goes into both, at one moment and   *)
(* once, before the stream is answered; only a rating of a laptop that is  *)
(* not in the store is refused, and goes into neither.                     *)
(***************************************************************************)
EXTENDS Naturals

CONSTANTS Stream,      \* streams, each of which hands in one rating at a time
          Laptop,      \* ids of laptops
          NoLaptop,
          Score,       \* scores, as naturals
          CountLimit,  \* the count is kept modulo this
          NoRating     \* the laptop has not been rated

VARIABLES ledger,  \* the count and the sum of each laptop
          stored,  \* the laptops in the store
          slip,    \* slip[p]: the rating that p has handed in
          entered  \* the streams whose rating is in the ledger, but not answered

vars == <<ledger, stored, slip, entered>>

NoSlip == [laptop |-> NoLaptop, score |-> 0]

After(r, s) == IF r = NoRating
               THEN [count |-> 1, sum |-> s]
               ELSE [count |-> (r.count + 1) % CountLimit, sum |-> r.sum + s]

Init == /\ ledger = [l \in Laptop |-> NoRating]
        /\ stored = {}
        /\ slip = [p \in Stream |-> NoSlip]
        /\ entered = {}

HandIn(p, l, s) == /\ slip[p] = NoSlip
                   /\ slip' = [slip EXCEPT ![p] = [laptop |-> l, score |-> s]]
                   /\ UNCHANGED <<ledger, stored, entered>>

Enter(p) == /\ p \notin entered
            /\ slip[p].laptop \in stored
            /\ ledger' = [ledger EXCEPT ![slip[p].laptop] = After(@, slip[p].score)]
            /\ entered' = entered \cup {p}
            /\ UNCHANGED <<stored, slip>>

\* With or without a client who still listens.
Answer(p) == /\ p \in entered
             /\ entered' = entered \ {p}
             /\ slip' = [slip EXCEPT ![p] = NoSlip]
             /\ UNCHANGED <<ledger, stored>>

Refuse(p) == /\ p \notin entered
             /\ slip[p].laptop \in Laptop \ stored
             /\ slip' = [slip EXCEPT ![p] = NoSlip]
             /\ UNCHANGED <<ledger, stored, entered>>

StoreLaptop(l) == /\ stored' = stored \cup {l}
                  /\ UNCHANGED <<ledger, slip, entered>>

Next == \/ \E p \in Stream : \/ \E l \in Laptop, s \in Score : HandIn(p, l, s)
                             \/ Enter(p) \/ Answer(p) \/ Refuse(p)
        \/ \E l \in Laptop : StoreLaptop(l)

Spec == Init /\ [][Next]_vars

================================================================================
