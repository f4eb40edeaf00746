--------------------------- MODULE MCOrderManagement ---------------------------
(* Instances of OrderManagement for TLC. *)
EXTENDS OrderManagement, TLC

CONSTANTS c1, c2, o1, o2, b1, b2

Clients == {c1, c2}
Orders == {o1, o2}
Bodies == {b1, b2}
ClientUpdates == {[order |-> o1, body |-> b1], [order |-> o1, body |-> b2]}
Queries == {{b1}}
SampleData == [o \in Order |-> b1]

\* Enough for a search that its client never leaves.
OneOrder == {o1}
OneBody == {b1}
OneUpdate == {[order |-> o1, body |-> b1]}

================================================================================
