------------------------------- MODULE OrderBook -------------------------------
(***************************************************************************)
(* What the order management service promises those who update orders: a   *)
(* book of orders, in which the updates of each client are entered whole,  *)
(* in the order in which he has sent them, each of them once; whoever is   *)
(* told that his updates are processed has all of them in the book.  A     *)
(* book that is lost is lost for all, and nobody's updates are entered     *)
(* into the next one from where they stopped.                              *)
(***************************************************************************)
EXTENDS Naturals, Sequences

CONSTANTS Client, Order, Body,
          Sample,   \* the book to begin with
          Updates   \* records of an order and its body

VARIABLES book,     \* the body of each order
          stream,   \* the clients whose updates go into this book
          sent,     \* sent[c]: what c has sent
          entered,  \* entered[c]: how many of them are in the book
          told      \* the clients that have been told so

vars == <<book, stream, sent, entered, told>>

Init == /\ book = Sample
        /\ stream = {}
        /\ sent = [c \in Client |-> <<>>]
        /\ entered = [c \in Client |-> 0]
        /\ told = {}

\* A client sends its updates to one book only.
Open(c) == /\ c \notin stream
           /\ sent[c] = <<>>
           /\ stream' = stream \cup {c}
           /\ UNCHANGED <<book, sent, entered, told>>

Send(c, u) == /\ c \in stream \ told
              /\ sent' = [sent EXCEPT ![c] = Append(@, u)]
              /\ UNCHANGED <<book, stream, entered, told>>

\* The next update of c.
Enter(c) == /\ c \in stream \ told
            /\ entered[c] < Len(sent[c])
            /\ entered' = [entered EXCEPT ![c] = @ + 1]
            /\ LET u == sent[c][entered[c] + 1]
               IN  book' = [book EXCEPT ![u.order] = u.body]
            /\ UNCHANGED <<stream, sent, told>>

Tell(c) == /\ c \in stream \ told
           /\ entered[c] = Len(sent[c])
           /\ told' = told \cup {c}
           /\ UNCHANGED <<book, stream, sent, entered>>

Lose == /\ book' = Sample
        /\ stream' = {}
        /\ entered' = [c \in Client |-> 0]
        /\ told' = {}
        /\ UNCHANGED sent

Next == \/ \E c \in Client : Open(c) \/ (\E u \in Updates : Send(c, u)) \/ Enter(c) \/ Tell(c)
        \/ Lose

Spec == Init /\ [][Next]_vars

================================================================================
