------------------------------ MODULE ProductInfo ------------------------------
(***************************************************************************)
(* The product info service (grpc-service/productInfo-server) and runs of  *)
(* its client (grpc-client/productInfo-client), which adds a product and   *)
(* gets it back, under one context of one second.                          *)
(*                                                                         *)
(* The products are in a Go map that the handlers share without a lock and *)
(* that the first AddProduct makes: a handler looks at the pointer, makes  *)
(* a map, and loads the pointer again for the write.  The runtime flags    *)
(* the writes to a map, and kills the server when an access finds the flag *)
(* in the wrong state, but may miss it (see OrderManagement).  A map of at *)
(* most eight products has one bucket; a larger one grows, and a race that *)
(* meets its growth tears it: what is in it then can no longer be told.    *)
(*                                                                         *)
(* As it stands, main does not get as far as serving: the port begins with *)
(* a colon, and another one comes before it in the address.                *)
(***************************************************************************)
EXTENDS Naturals, FiniteSets

CONSTANTS Client,       \* the runs of the client; each adds one product
          NoMap,        \* the nil map
          Bucket,       \* 8: the products that fit in a map before it grows
          PortHasColon, \* TRUE in the code, whose server never listens
          MaxStarts     \* bound: starts of the server

ASSUME ClientAssumption == NoMap \notin Client
ASSUME BoundAssumption == Bucket \in Nat /\ PortHasColon \in BOOLEAN /\ MaxStarts \in Nat

VARIABLES up,          \* the server is serving
          starts,      \* how often it has been started
          productMap,  \* the map of the server, by who made it
          maps,        \* what is in each map: products under their ids
          writing,     \* the flags of the maps
          torn,        \* the maps whose growth has met a race, unnoticed
          handler,     \* where the handler of a client's call is
          at,          \* the map that it has seen, made or written to
          raced,       \* the writers that a write has met, unnoticed
          pc,          \* where the client is
          answer,      \* what it can see of its call
          ended,       \* the clients whose second is over
          added,       \* history: products added in this life of the server
          met          \* history: whom a product has been added at the same time as

store == <<productMap, maps, writing, torn>>
server == <<up, starts, store, at, raced>>
history == <<added, met>>
vars == <<server, handler, pc, answer, ended, history>>

Empty == [c \in {} |-> NoMap]
Nobody == [c \in Client |-> {}]
Adding == {c \in Client : handler[c] \in {"check", "make", "assign", "write"}}

TypeOK ==
  /\ up \in BOOLEAN /\ starts \in 0 .. MaxStarts
  /\ productMap \in Client \cup {NoMap}
  /\ \A m \in Client : DOMAIN maps[m] \subseteq Client
                       /\ \A id \in DOMAIN maps[m] : maps[m][id] \in Client
  /\ writing \in [Client -> BOOLEAN] /\ torn \subseteq Client
  /\ \A m \in Client : writing[m] => \E c \in Client : handler[c] = "write" /\ at[c] = m
  /\ handler \in [Client -> {"none", "check", "make", "assign", "write", "get"}]
  /\ at \in [Client -> Client \cup {NoMap}]
  /\ \A c \in Client : handler[c] \in {"assign", "write"} => at[c] # NoMap
  /\ raced \in [Client -> SUBSET Client]
  /\ pc \in [Client -> {"off", "add", "get", "done", "fatal"}]
  /\ answer \in [Client -> {"none", "ok", "error"}]
  /\ ended \subseteq Client
  /\ added \subseteq Client /\ met \in [Client -> SUBSET Client]
  /\ ~up => \A c \in Client : handler[c] = "none"

Init == /\ up = FALSE /\ starts = 0
        /\ productMap = NoMap
        /\ maps = [m \in Client |-> Empty]
        /\ writing = [m \in Client |-> FALSE] /\ torn = {}
        /\ handler = [c \in Client |-> "none"]
        /\ at = [c \in Client |-> NoMap]
        /\ raced = Nobody
        /\ pc = [c \in Client |-> "off"]
        /\ answer = [c \in Client |-> "none"]
        /\ ended = {}
        /\ added = {} /\ met = Nobody

--------------------------------------------------------------------------------
(* The server's process *)

\* net.Listen("tcp", "localhost:" + port), and Serve.
Listen == /\ ~up
          /\ ~PortHasColon
          /\ starts < MaxStarts
          /\ up' = TRUE
          /\ starts' = starts + 1
          /\ UNCHANGED <<store, at, raced, handler, pc, answer, ended, history>>

\* The process ends, killed or by the runtime.
Crash == /\ up /\ up' = FALSE
         /\ productMap' = NoMap
         /\ maps' = [m \in Client |-> Empty]
         /\ writing' = [m \in Client |-> FALSE] /\ torn' = {}
         /\ handler' = [c \in Client |-> "none"]
         /\ at' = [c \in Client |-> NoMap]
         /\ raced' = Nobody /\ added' = {} /\ met' = Nobody
         /\ answer' = [c \in Client |-> IF pc[c] \in {"add", "get"} /\ answer[c] = "none"
                                        THEN "error" ELSE answer[c]]
         /\ UNCHANGED <<starts, pc, ended>>

\* An access to the map m finds that somebody writes to it.
Noticed(m) == m # NoMap /\ writing[m] /\ Crash

--------------------------------------------------------------------------------
(* The client *)

\* Each of the two has met the other.
Meet(relation, c, others) == [d \in Client |-> IF d = c THEN relation[d] \cup others
                                              ELSE IF d \in others THEN relation[d] \cup {c}
                                              ELSE relation[d]]

\* Dial does not wait: without a server the call fails, and so it does when the
\* second is over.  AddProduct or GetProduct begins otherwise.
Invoke(c, call, entry) ==
  /\ pc' = [pc EXCEPT ![c] = call]
  /\ \/ /\ up /\ c \notin ended
        /\ handler' = [handler EXCEPT ![c] = entry]
        /\ answer' = [answer EXCEPT ![c] = "none"]
        /\ met' = IF entry = "check" THEN Meet(met, c, Adding) ELSE met
     \/ /\ answer' = [answer EXCEPT ![c] = "error"]
        /\ UNCHANGED <<handler, met>>
  /\ UNCHANGED <<server, ended, added>>

\* The program is over, and its context with it.
Finish(c, how) == /\ pc' = [pc EXCEPT ![c] = how]
                  /\ answer' = [answer EXCEPT ![c] = "none"]
                  /\ ended' = ended \cup {c}
                  /\ UNCHANGED <<server, handler, history>>

Run(c) == pc[c] = "off" /\ Invoke(c, "add", "check")

Added(c) == pc[c] = "add" /\ answer[c] = "ok" /\ Invoke(c, "get", "get")

GotProduct(c) == /\ pc[c] = "get" /\ answer[c] = "ok"
                 /\ Finish(c, "done")

\* Mutant: the context has no timeout.
CallFailsAnswered(c) == /\ pc[c] \in {"add", "get"}
                        /\ answer[c] = "error"
                        /\ Finish(c, "fatal")

\* log.Fatalf.
CallFails(c) == /\ pc[c] \in {"add", "get"}
                /\ answer[c] = "error" \/ c \in ended
                /\ Finish(c, "fatal")

Expire(c) == /\ pc[c] \in {"add", "get"} /\ c \notin ended
             /\ ended' = ended \cup {c}
             /\ UNCHANGED <<server, handler, pc, answer, history>>

--------------------------------------------------------------------------------
(* AddProduct and GetProduct *)

Goto(c, l) == handler' = [handler EXCEPT ![c] = l]

\* The handler returns; the client, if it still waits, sees the answer.
Return(c, a) ==
  /\ Goto(c, "none")
  /\ answer' = [answer EXCEPT ![c] = IF pc[c] \in {"add", "get"} THEN a ELSE @]

\* uuid.NewUUID may have no id for the product.
NoUUID(c) == /\ handler[c] = "check"
             /\ Return(c, "error")
             /\ UNCHANGED <<server, pc, ended, history>>

\* Mutant: every product gets a new map.
CheckNothing(c) == /\ handler[c] = "check"
                   /\ Goto(c, "make")
                   /\ UNCHANGED <<server, pc, answer, ended, history>>

\* Mutant: the pointer is not looked at.
CheckForgotten(c) == /\ handler[c] = "check"
                     /\ Goto(c, "assign")
                     /\ at' = [at EXCEPT ![c] = productMap]
                     /\ UNCHANGED <<up, starts, store, raced, pc, answer, ended, history>>

\* if server.productMap == nil
CheckMap(c) == /\ handler[c] = "check"
               /\ Goto(c, IF productMap = NoMap THEN "make" ELSE "assign")
               /\ at' = [at EXCEPT ![c] = productMap]
               /\ UNCHANGED <<up, starts, store, raced, pc, answer, ended, history>>

MakeMap(c) == /\ handler[c] = "make"
              /\ productMap' = c
              /\ at' = [at EXCEPT ![c] = c]
              /\ Goto(c, "assign")
              /\ UNCHANGED <<up, starts, maps, writing, torn, raced, pc, answer, ended, history>>

Writers(m) == {d \in Client : handler[d] = "write" /\ at[d] = m}

\* The write begins, in the map that the pointer shows now, or in the one that the
\* handler still has in a register.  The flag is flipped, by two writers at once
\* with either result.
BeginWrite(c) ==
  /\ handler[c] = "assign"
  /\ \E m \in {at[c], productMap} :
       \/ Noticed(m)
       \/ /\ IF writing[m] THEN \E f \in BOOLEAN : writing' = [writing EXCEPT ![m] = f]
             ELSE writing' = [writing EXCEPT ![m] = TRUE]
          /\ at' = [at EXCEPT ![c] = m]
          /\ raced' = Meet(raced, c, Writers(m))
          /\ Goto(c, "write")
          /\ UNCHANGED <<up, starts, productMap, maps, torn, pc, answer, ended, history>>

\* The map that a writer leaves.  Writers that have met may have used the same
\* slot: one's product under the other's id, or one of them lost.
Written(c, m) ==
  LET Left(lost, key) == [id \in (DOMAIN maps[m] \ lost) \cup {key} |->
                            IF id = key THEN c ELSE maps[m][id]]
  IN  UNION {{Left(lost, key) : lost \in SUBSET raced[c]} : key \in raced[c] \cup {c}}

\* The write may find, or leave, more products than fit.  The count that tells the
\* runtime so is raced for as well.
Crowded(c) == Cardinality(added \cup raced[c] \cup {c}) > Bucket

\* The write ends.  One that has met another, while the map was growing, may have
\* moved products that the other one was moving.
EndWrite(c) ==
  /\ handler[c] = "write"
  /\ \/ ~writing[at[c]] /\ Crash
     \/ /\ writing[at[c]]
        /\ writing' = [writing EXCEPT ![at[c]] = FALSE]
        /\ \/ /\ at[c] \notin torn
              /\ \E products \in Written(c, at[c]) : maps' = [maps EXCEPT ![at[c]] = products]
              /\ UNCHANGED torn
           \/ /\ at[c] \in torn \/ (raced[c] # {} /\ Crowded(c))
              /\ torn' = torn \cup {at[c]}
              /\ maps' = [maps EXCEPT ![at[c]] = Empty]
        /\ at' = [at EXCEPT ![c] = NoMap] /\ raced' = [raced EXCEPT ![c] = {}]
        /\ added' = added \cup {c}
        /\ Return(c, "ok")
        /\ UNCHANGED <<up, starts, productMap, pc, ended, met>>

\* A reader cannot rely on a map that is torn, or that grows while it reads.
Unclear == productMap \in torn \/ \E d \in Writers(productMap) : Crowded(d)

\* A nil map has no products.
GetProduct(c) ==
  /\ handler[c] = "get"
  /\ \/ Noticed(productMap)
     \/ /\ \/ Return(c, IF productMap # NoMap /\ c \in DOMAIN maps[productMap] THEN "ok" ELSE "error")
           \/ Unclear /\ \E a \in {"ok", "error"} : Return(c, a)
        /\ UNCHANGED <<server, pc, ended, history>>

--------------------------------------------------------------------------------

Program(c) == Added(c) \/ GotProduct(c) \/ CallFails(c)
Handler(c) == NoUUID(c) \/ CheckMap(c) \/ MakeMap(c) \/ BeginWrite(c) \/ EndWrite(c) \/ GetProduct(c)

Next == \/ Listen \/ Crash
        \/ \E c \in Client : Run(c) \/ Program(c) \/ Expire(c) \/ Handler(c)

\* The client runs, and its second passes; nothing is asked of the server.
Spec == Init /\ [][Next]_vars /\ \A c \in Client : WF_vars(Program(c) \/ Expire(c))

--------------------------------------------------------------------------------
(* Properties *)

\* What a race on the map or on the pointer to it can cost is limited to those that
\* were there: a product that was added alone stays what it is for as long as the
\* server runs, whatever is raced for before and after it, and an id that leads to
\* another product leads to one that was being added at the same time - unless a race
\* has met the growth of the map (productInfo-server.go:60-69).
Kept == productMap \notin torn =>
          /\ \A c \in added : met[c] = {} => /\ productMap # NoMap
                                            /\ c \in DOMAIN maps[productMap]
                                            /\ maps[productMap][c] = c
          /\ productMap # NoMap =>
               \A id \in DOMAIN maps[productMap] :
                 maps[productMap][id] # id => maps[productMap][id] \in met[id]

\* Clients that have begun come to their end, with their product or with an error: a
\* moment comes when none of them runs.
Running(c) == pc[c] \in {"add", "get"}
ClientsEnd == (\E c \in Client : Running(c)) ~> ~(\E c \in Client : Running(c))

================================================================================
