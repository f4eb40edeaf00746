---------------------------- MODULE OrderManagement ----------------------------
(***************************************************************************)
(* The order management service                                            *)
(* (grpc-service/order-management-server) and its client                   *)
(* (grpc-client/order-management-client), which makes one call after       *)
(* another under a single context of one second.                           *)
(*                                                                         *)
(* The orders are in a Go map that the handlers share without a lock.  The *)
(* runtime sets a flag in the map at the beginning of a write and clears   *)
(* it at the end; an access that finds it in the wrong state kills the     *)
(* server ("concurrent map writes"), but the flag is not synchronised      *)
(* either, and an access may miss it and go on with the old value or the   *)
(* new one.  (There are at most eight orders, all of them from the sample: *)
(* one bucket of the map, which never grows.)  The map of the combined     *)
(* shipments never has an entry: the statement that would add the first    *)
(* one dereferences a nil shipment.                                        *)
(***************************************************************************)
EXTENDS Naturals, Sequences

CONSTANTS Client,      \* the runs of the client program
          Order,       \* order ids
          Body,        \* what an order is, apart from its id
          NoOrder,     \* an id that no order has
          Sample,      \* the orders of initSampleData
          Query,       \* search strings: the bodies with an item that contains it
          Updates,     \* the orders a client may send to UpdateOrders
          MaxUpdates,  \* number of orders a client updates (3 in the code)
          MaxRestarts  \* bound: restarts of the server

ASSUME OrderAssumption == NoOrder \notin Order /\ Sample \in [Order -> Body]
ASSUME QueryAssumption == Query \subseteq SUBSET Body
ASSUME UpdateAssumption == Updates \subseteq [order : Order, body : Body]
ASSUME BoundAssumption == MaxUpdates \in Nat /\ MaxRestarts \in Nat

VARIABLES up,        \* the server is running
          restarts,  \* how often it has been restarted
          orders,    \* orderMap
          writing,   \* the flag of orderMap: somebody is writing to it
          handler,   \* where the handler of a client's call is
          query,     \* the query of its search
          todo,      \* the orders its range loop has not visited
          found,     \* the orders it has sent
          at,        \* number of updates it has received
          pc,        \* where the client is
          answer,    \* what the client can see of its call
          ended,     \* the clients whose context has ended, or who are gone
          log,       \* the updates a client has sent
          closed,    \* the clients that have closed their stream of updates
          process,   \* the messages it has sent to ProcessOrders
          always,    \* orders that have matched since the client's search began
          ever,      \* orders that have matched at some moment since
          kept       \* the clients whose updates began in this life of the server

server == <<up, restarts, orders, writing>>
serving == <<query, todo, found, at>>
client == <<pc, log, closed, process>>
history == <<always, ever, kept>>
vars == <<server, handler, serving, client, answer, ended, history>>

Calling == {"get", "search", "update", "closing", "process", "draining"}

TypeOK == /\ up \in BOOLEAN /\ restarts \in 0 .. MaxRestarts
          /\ orders \in [Order -> Body]
          /\ writing \in BOOLEAN /\ (writing => \E c \in Client : handler[c] = "write")
          /\ handler \in [Client -> {"none", "get", "search", "scan", "update", "write", "process"}]
          /\ query \in [Client -> Query \cup {{}}]
          /\ todo \in [Client -> SUBSET Order] /\ found \in [Client -> SUBSET Order]
          /\ at \in [Client -> Nat] /\ \A c \in Client : at[c] <= Len(log[c])
          /\ pc \in [Client -> Calling \cup {"off", "spin", "fatal"}]
          /\ answer \in [Client -> {"none", "ok", "error"}]
          /\ ended \subseteq Client
          /\ log \in [Client -> Seq(Updates)] /\ \A c \in Client : Len(log[c]) <= MaxUpdates
          /\ closed \subseteq Client
          /\ process \in [Client -> {"nothing", "order", "eof"}]
          /\ always \in [Client -> SUBSET Order] /\ ever \in [Client -> SUBSET Order]
          /\ kept \subseteq Client

Init == /\ up = TRUE /\ restarts = 0
        /\ orders = Sample
        /\ writing = FALSE
        /\ handler = [c \in Client |-> "none"]
        /\ query = [c \in Client |-> {}]
        /\ todo = [c \in Client |-> {}] /\ found = [c \in Client |-> {}]
        /\ at = [c \in Client |-> 0]
        /\ pc = [c \in Client |-> "off"]
        /\ answer = [c \in Client |-> "none"]
        /\ ended = {}
        /\ log = [c \in Client |-> <<>>] /\ closed = {}
        /\ process = [c \in Client |-> "nothing"]
        /\ always = [c \in Client |-> {}] /\ ever = [c \in Client |-> {}]
        /\ kept = {}

Matching(q) == {o \in Order : orders[o] \in q}
Serve(c, l) == handler' = [handler EXCEPT ![c] = l]
Answer(c, a) == answer' = [answer EXCEPT ![c] = a]

\* The handler of c returns.
Return(c, a) == Serve(c, "none") /\ Answer(c, a)

\* A panic in any handler, and a race that the runtime notices, end the process.
\* Calls in progress fail, and the orders are gone.
Crash == /\ up' = FALSE
         /\ orders' = Sample
         /\ writing' = FALSE
         /\ handler' = [c \in Client |-> "none"]
         /\ answer' = [c \in Client |-> IF pc[c] \in Calling /\ answer[c] = "none"
                                        THEN "error" ELSE answer[c]]
         /\ kept' = {}
         /\ UNCHANGED <<restarts, client, ended, always, ever>>

\* An access to the map finds that somebody writes to it.
Noticed == writing /\ Crash /\ UNCHANGED serving

--------------------------------------------------------------------------------
(* The client *)

\* log.Fatalf, or a nil pointer in the client: its connection breaks.
Die(c) == /\ pc' = [pc EXCEPT ![c] = "fatal"]
          /\ ended' = ended \cup {c}
          /\ UNCHANGED <<server, handler, serving, answer, log, closed, process, history>>

\* A call starts a handler, or it fails at once, and the client with it.
Call(c, l) == \/ /\ up /\ c \notin ended
                 /\ pc' = [pc EXCEPT ![c] = l]
                 /\ Serve(c, l)
                 /\ Answer(c, "none")
                 /\ kept' = IF l = "update" THEN kept \cup {c} ELSE kept
                 /\ UNCHANGED <<server, serving, log, closed, process, ended, always, ever>>
              \/ ~up /\ Die(c)
              \/ c \in ended /\ Die(c)

StartClient(c) == /\ pc[c] = "off"
                  /\ Call(c, "get")

\* From one call to the next, if there is no error.
GotOrder(c) == /\ pc[c] = "get"
               /\ answer[c] = "ok"
               /\ Call(c, "search")

\* The loop that prints the results ends with io.EOF, and with no other error.
SearchEOF(c) == /\ pc[c] = "search"
                /\ answer[c] = "ok"
                /\ Call(c, "update")

SearchSpins(c) == /\ pc[c] = "search"
                  /\ answer[c] = "error" \/ c \in ended
                  /\ pc' = [pc EXCEPT ![c] = "spin"]
                  /\ UNCHANGED <<server, handler, serving, log, closed, process, answer, ended,
                                 history>>

SendUpdate(c, u) == /\ pc[c] = "update"
                    /\ answer[c] = "none"
                    /\ c \notin ended
                    /\ Len(log[c]) < MaxUpdates
                    /\ log' = [log EXCEPT ![c] = Append(@, u)]
                    /\ UNCHANGED <<server, handler, serving, pc, closed, process, answer, ended,
                                   history>>

CloseUpdates(c) == /\ pc[c] = "update"
                   /\ answer[c] = "none"
                   /\ Len(log[c]) = MaxUpdates
                   /\ pc' = [pc EXCEPT ![c] = "closing"]
                   /\ closed' = closed \cup {c}
                   /\ UNCHANGED <<server, handler, serving, log, process, answer, ended, history>>

UpdatesOk(c) == /\ pc[c] = "closing"
                /\ answer[c] = "ok"
                /\ Call(c, "process")

SendOrder(c) == /\ pc[c] = "process"
                /\ process[c] = "nothing"
                /\ c \notin ended
                /\ process' = [process EXCEPT ![c] = "order"]
                /\ UNCHANGED <<server, handler, serving, pc, log, closed, answer, ended, history>>

\* CloseSend.  The client of the repository first sleeps for as long as its
\* context lasts, so that its context is likely to have ended.
CloseProcess(c) == /\ pc[c] = "process"
                   /\ process' = [process EXCEPT ![c] = IF @ = "nothing" THEN "eof" ELSE @]
                   /\ pc' = [pc EXCEPT ![c] = "draining"]
                   /\ UNCHANGED <<server, handler, serving, log, closed, answer, ended, history>>

\* Mutant: the receiving goroutine breaks off without a word.
CallFailsQuietly(c) == /\ pc[c] \in Calling \ {"search", "process", "draining"}
                       /\ answer[c] = "error" \/ c \in ended
                       /\ Die(c)

\* Everywhere but in the search loop an error ends the client.  In ProcessOrders
\* it does so in the receiving goroutine, whose other way out, io.EOF, the server
\* never takes: no run of the client comes to its end.
CallFails(c) == /\ pc[c] \in Calling \ {"search"}
                /\ answer[c] = "error" \/ c \in ended
                /\ Die(c)

EndContext(c) == /\ pc[c] \in Calling
                 /\ ended' = ended \cup {c}
                 /\ UNCHANGED <<server, handler, serving, client, answer, history>>

--------------------------------------------------------------------------------
(* The handlers *)

GetOrder(c, o) ==
  /\ handler[c] = "get"
  /\ \/ Noticed
     \/ /\ Return(c, IF o \in Order THEN "ok" ELSE "error")
        /\ UNCHANGED <<server, serving, client, ended, history>>

SearchOrders(c, q) ==
  /\ handler[c] = "search"
  /\ \/ Noticed
     \/ /\ Serve(c, "scan")
        /\ query' = [query EXCEPT ![c] = q]
        /\ todo' = [todo EXCEPT ![c] = Order]
        /\ found' = [found EXCEPT ![c] = {}]
        /\ always' = [always EXCEPT ![c] = Matching(q)]
        /\ ever' = [ever EXCEPT ![c] = Matching(q)]
        /\ UNCHANGED <<server, at, client, answer, ended, kept>>

\* Mutant: the break that leaves the loop over the items leaves the outer one.
VisitFirst(c, o) ==
  /\ handler[c] = "scan"
  /\ o \in todo[c]
  /\ \/ Noticed
     \/ /\ todo' = [todo EXCEPT ![c] = IF orders[o] \in query[c] THEN {} ELSE @ \ {o}]
        /\ found' = [found EXCEPT ![c] = IF orders[o] \in query[c] THEN @ \cup {o} ELSE @]
        /\ UNCHANGED <<server, handler, query, at, client, answer, ended, history>>

\* One round of the loop over the map, in any order.  Send may fail.
Visit(c, o) ==
  /\ handler[c] = "scan"
  /\ o \in todo[c]
  /\ \/ Noticed
     \/ /\ todo' = [todo EXCEPT ![c] = @ \ {o}]
        /\ found' = [found EXCEPT ![c] = IF orders[o] \in query[c] THEN @ \cup {o} ELSE @]
        /\ UNCHANGED <<server, handler, query, at, client, answer, ended, history>>
     \/ /\ orders[o] \in query[c]
        /\ c \in ended
        /\ Return(c, "error")
        /\ UNCHANGED <<server, serving, client, ended, history>>

ScanDone(c) == /\ handler[c] = "scan"
               /\ todo[c] = {}
               /\ Return(c, "ok")
               /\ UNCHANGED <<server, serving, client, ended, history>>

\* Mutant: io.EOF is not looked at.
RecvUpdateEOF(c) == /\ handler[c] = "update"
                    /\ at[c] < Len(log[c]) \/ c \in closed
                    /\ at' = [at EXCEPT ![c] = @ + 1]
                    /\ writing' = TRUE
                    /\ Serve(c, "write")
                    /\ UNCHANGED <<up, restarts, orders, query, todo, found, client, answer,
                                   ended, history>>

\* Recv returns an update, and the write to the map begins.  The flag is flipped,
\* by two writers at once with either result.
RecvUpdate(c) ==
  /\ handler[c] = "update"
  /\ at[c] < Len(log[c])
  /\ \/ Noticed
     \/ /\ at' = [at EXCEPT ![c] = @ + 1]
        /\ IF writing THEN writing' \in BOOLEAN ELSE writing' = TRUE
        /\ Serve(c, "write")
        /\ UNCHANGED <<up, restarts, orders, query, todo, found, client, answer, ended,
                       history>>

\* The searches in progress live to see the change.
Observe(o, b) ==
  /\ always' = [c \in Client |-> IF b \in query[c] THEN always[c] ELSE always[c] \ {o}]
  /\ ever' = [c \in Client |-> IF b \in query[c] THEN ever[c] \cup {o} ELSE ever[c]]

\* Mutant: one message is reused for all of the stream.
StoreLatest(c) ==
  /\ handler[c] = "write"
  /\ \/ ~writing /\ Crash /\ UNCHANGED serving
     \/ LET u == log[c][Len(log[c])]
        IN  /\ writing
            /\ orders' = [orders EXCEPT ![u.order] = u.body]
            /\ Observe(u.order, u.body)
            /\ writing' = FALSE
            /\ Serve(c, "update")
            /\ UNCHANGED <<up, restarts, serving, client, answer, ended, kept>>

\* The write ends.
StoreUpdate(c) ==
  /\ handler[c] = "write"
  /\ \/ ~writing /\ Crash /\ UNCHANGED serving
     \/ LET u == log[c][at[c]]
        IN  /\ writing
            /\ orders' = [orders EXCEPT ![u.order] = u.body]
            /\ Observe(u.order, u.body)
            /\ writing' = FALSE
            /\ Serve(c, "update")
            /\ UNCHANGED <<up, restarts, serving, client, answer, ended, kept>>

\* Mutant: the response does not wait for the end of the stream.
UpdatesDoneEarly(c) == /\ handler[c] = "update"
                       /\ c \in closed
                       /\ Return(c, "ok")
                       /\ UNCHANGED <<server, serving, client, ended, history>>

\* io.EOF, which may still arrive when the client is gone.
UpdatesDone(c) == /\ handler[c] = "update"
                  /\ at[c] = Len(log[c])
                  /\ c \in closed
                  /\ Return(c, "ok")
                  /\ UNCHANGED <<server, serving, client, ended, history>>

\* Any other error of Recv is not looked at, and the nil order is dereferenced.
UpdatesBroken(c) == /\ handler[c] = "update"
                    /\ c \in ended
                    /\ Crash
                    /\ UNCHANGED serving

\* The order has no destination if it is unknown, and no shipment otherwise.
ProcessOrder(c) == /\ handler[c] = "process"
                   /\ process[c] = "order"
                   /\ Crash
                   /\ UNCHANGED serving

\* Recv returns io.EOF or another error: Unknown, either way.
ProcessEnds(c) == /\ handler[c] = "process"
                  /\ process[c] = "eof" \/ c \in ended
                  /\ Return(c, "error")
                  /\ UNCHANGED <<server, serving, client, ended, history>>

Restart == /\ ~up
           /\ restarts < MaxRestarts
           /\ up' = TRUE
           /\ restarts' = restarts + 1
           /\ UNCHANGED <<orders, writing, handler, serving, client, answer, ended, history>>

--------------------------------------------------------------------------------

\* What a client does without being asked, and what it does on an event.
Choice(c) == StartClient(c) \/ (\E u \in Updates : SendUpdate(c, u)) \/ SendOrder(c)
Reaction(c) == \/ GotOrder(c) \/ SearchEOF(c) \/ SearchSpins(c) \/ UpdatesOk(c) \/ CallFails(c)
Handler(c) == \/ (\E o \in Order \cup {NoOrder} : GetOrder(c, o)) \/ (\E o \in Order : Visit(c, o))
              \/ \E q \in Query : SearchOrders(c, q)
              \/ ScanDone(c) \/ RecvUpdate(c) \/ StoreUpdate(c) \/ UpdatesDone(c)
              \/ UpdatesBroken(c) \/ ProcessOrder(c) \/ ProcessEnds(c)

Next == \/ \E c \in Client : \/ Choice(c) \/ CloseUpdates(c) \/ CloseProcess(c) \/ EndContext(c)
                             \/ Reaction(c) \/ Handler(c)
        \/ Restart

Spec == Init /\ [][Next]_vars

\* Handlers and clients run, and every context ends after a second.
FairSpec == Spec /\ \A c \in Client : WF_vars(Handler(c)) /\ WF_vars(Reaction(c))
                                     /\ WF_vars(EndContext(c))

--------------------------------------------------------------------------------
(* Properties *)

\* A search that ends well has sent every order that matched all the time it
\* took, and none that did not match at any moment of it, although other
\* clients update the map in the middle of its loop.
SearchFair == \A c \in Client : handler[c] = "none" /\ pc[c] = "search" /\ answer[c] = "ok" =>
                always[c] \subseteq found[c] /\ found[c] \subseteq ever[c]

\* A client that is told that its updates are processed finds them in the map,
\* unless another client has sent an update of the same order, or the server
\* has lost the map: the last one of its own wins.
UpdatesKept ==
  \A c \in kept : pc[c] \in {"process", "draining"} =>
    \A i \in 1 .. Len(log[c]) :
      \/ \E j \in i .. Len(log[c]) : log[c][j] = [order |-> log[c][i].order,
                                                 body |-> orders[log[c][i].order]]
      \/ \E d \in Client \ {c} : \E j \in 1 .. Len(log[d]) :
           log[d][j] = [order |-> log[c][i].order, body |-> orders[log[c][i].order]]

\* No client waits for ever, whatever becomes of the server: it dies of an
\* error, or comes to the loop it cannot leave.
ClientsMoveOn == \A c \in Client : pc[c] \in Calling ~> pc[c] \in {"fatal", "spin"}

\* order-management-client.go:74-75: the client receives "until we reach the end
\* of the stream", however the stream ends.
SearchLoopEnds == \A c \in Client : pc[c] = "search" ~> pc[c] \in {"update", "fatal"}

--------------------------------------------------------------------------------
(* What the handlers make of the map *)

Streaming == {"update", "write"}

\* An update is entered when its write ends.
Entered == [c \in Client |-> IF c \notin kept THEN 0
                            ELSE IF handler[c] = "write" THEN at[c] - 1 ELSE at[c]]
Told == {c \in kept : handler[c] \notin Streaming}

Abstract == INSTANCE OrderBook WITH
              book <- orders, stream <- kept, sent <- log, entered <- Entered, told <- Told

\* In one life of the server, what the handlers of all clients together make of the
\* unlocked map is a book into which each enters his updates, whole and in order: a
\* race that is noticed costs the book, and one that is missed costs nothing
\* (order-management-server.go:117-145).
OrderBookSpec == Abstract!Spec

================================================================================
