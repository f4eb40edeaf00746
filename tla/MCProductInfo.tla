----------------------------- MODULE MCProductInfo -----------------------------
(* An instance of ProductInfo for TLC: three runs of the client. *)
EXTENDS ProductInfo

CONSTANTS c1, c2, c3

Clients == {c1, c2, c3}

================================================================================
