------------------------- MODULE OrderManagementProofs -------------------------
(***************************************************************************)
(* Searches and updates of the unlocked map of orders, for any number of   *)
(* clients, orders, updates and restarts: as long as the server lives, and *)
(* in what its clients are told, the races do no harm.                     *)
(***************************************************************************)
EXTENDS OrderManagement, SequenceTheorems, TLAPS

--------------------------------------------------------------------------------
(* The invariant: a client and its handler *)

\* Where the handler may be, by where the client is.  A client that has died may
\* leave a handler behind; a handler that has answered is over.
Place(c) ==
  /\ answer[c] # "none" => handler[c] = "none"
  /\ handler[c] = "get" => pc[c] \in {"get", "fatal"}
  /\ handler[c] \in {"search", "scan"} => pc[c] \in {"search", "spin", "fatal"}
  /\ handler[c] \in {"update", "write"} => pc[c] \in {"update", "closing", "fatal"}
  /\ handler[c] = "process" => pc[c] \in {"process", "draining", "fatal"}
  /\ pc[c] = "off" => answer[c] = "none" /\ handler[c] = "none"

\* How many updates there are: none before the client begins to send them, and no
\* more of them once they have been answered.
Count(c) ==
  /\ pc[c] \in {"off", "get", "search", "spin"} => log[c] = <<>> /\ at[c] = 0 /\ c \notin kept
  /\ handler[c] = "write" => at[c] > 0
  /\ pc[c] = "closing" /\ answer[c] = "ok" => at[c] = Len(log[c])
  /\ pc[c] \in {"process", "draining"} => at[c] = Len(log[c])

\* A search on its way: of the orders that have always matched, those it has not
\* visited are still to come.
Search(c) ==
  /\ handler[c] = "scan" => /\ always[c] \subseteq Matching(query[c])
                            /\ Matching(query[c]) \subseteq ever[c]
                            /\ found[c] \subseteq ever[c]
                            /\ always[c] \subseteq found[c] \cup todo[c]
  /\ handler[c] = "none" /\ pc[c] = "search" /\ answer[c] = "ok" =>
       always[c] \subseteq found[c] /\ found[c] \subseteq ever[c]

\* An update of c is in the map, or a later one of its own is, or one of another.
Holds(c, i) ==
  \/ \E j \in i .. Len(log[c]) : log[c][j] = [order |-> log[c][i].order,
                                             body |-> orders[log[c][i].order]]
  \/ \E d \in Client \ {c} : \E j \in 1 .. Len(log[d]) :
       log[d][j] = [order |-> log[c][i].order, body |-> orders[log[c][i].order]]

\* The last update received is not yet in the map while it is being written.
Done(c) == IF handler[c] = "write" THEN at[c] - 1 ELSE at[c]
Updating == {"update", "closing", "process", "draining"}
Held(c) == c \in kept /\ pc[c] \in Updating => \A i \in 1 .. Done(c) : Holds(c, i)

Own(c) == Place(c) /\ Count(c) /\ Search(c) /\ Held(c)
Inv == TypeOK /\ \A c \in Client : Own(c)

--------------------------------------------------------------------------------
(* The other clients *)

\* Nothing of another client changes.
Elsewhere(c) ==
  \A e \in Client \ {c} :
    /\ handler'[e] = handler[e] /\ query'[e] = query[e] /\ todo'[e] = todo[e]
    /\ found'[e] = found[e] /\ at'[e] = at[e] /\ pc'[e] = pc[e] /\ answer'[e] = answer[e]
    /\ log'[e] = log[e] /\ always'[e] = always[e] /\ ever'[e] = ever[e]
    /\ e \in kept' <=> e \in kept

\* Whatever c has sent it has sent.
LogGrows(c) == /\ Len(log[c]) <= Len(log'[c])
               /\ \A j \in 1 .. Len(log[c]) : log'[c][j] = log[c][j]

LEMMA HoldsOn ==
  ASSUME TypeOK, TypeOK', UNCHANGED orders, \A d \in Client : LogGrows(d),
         NEW e \in Client, NEW i \in 1 .. Len(log[e]), Holds(e, i)
  PROVE  Holds(e, i)'
<1>1. \A d \in Client : Len(log[d]) \in Nat /\ Len(log'[d]) \in Nat BY DEF TypeOK
<1>2. log'[e][i] = log[e][i] BY DEF LogGrows
<1> DEFINE now == [order |-> log[e][i].order, body |-> orders[log[e][i].order]]
<1>3. ASSUME NEW d \in Client, NEW j \in 1 .. Len(log[d]), log[d][j] = now
      PROVE  j \in 1 .. Len(log'[d]) /\ log'[d][j] = now
  BY <1>1, <1>3 DEF LogGrows
<1>4. now = [order |-> log'[e][i].order, body |-> orders'[log'[e][i].order]] BY <1>2
<1>5. CASE \E j \in i .. Len(log[e]) : log[e][j] = now
  <2>1. PICK j \in i .. Len(log[e]) : log[e][j] = now BY <1>5
  <2>2. j \in 1 .. Len(log[e]) BY <1>1
  <2>3. j \in i .. Len(log'[e]) /\ log'[e][j] = now BY <1>1, <1>3, <2>1, <2>2
  <2> QED BY <1>4, <2>3 DEF Holds
<1>6. CASE \E d \in Client \ {e} : \E j \in 1 .. Len(log[d]) : log[d][j] = now
  <2>1. PICK d \in Client \ {e} : \E j \in 1 .. Len(log[d]) : log[d][j] = now BY <1>6
  <2>2. PICK j \in 1 .. Len(log[d]) : log[d][j] = now BY <2>1
  <2>3. j \in 1 .. Len(log'[d]) /\ log'[d][j] = now BY <1>3, <2>2
  <2> QED BY <1>4, <2>3 DEF Holds
<1> QED BY <1>5, <1>6 DEF Holds

LEMMA DoneRange ==
  ASSUME TypeOK, NEW c \in Client, Own(c) PROVE Done(c) \in 0 .. Len(log[c])
BY DEF TypeOK, Own, Count, Done

\* A step of one client alone.
LEMMA LocalStep ==
  ASSUME Inv, NEW c \in Client, TypeOK', Own(c)', UNCHANGED orders, Elsewhere(c), LogGrows(c)
  PROVE  Inv'
<1>1. \A d \in Client : LogGrows(d)
  <2>1. ASSUME NEW d \in Client, d # c PROVE LogGrows(d)
    <3>1. log'[d] = log[d] /\ Len(log[d]) \in Nat BY <2>1 DEF Elsewhere, Inv, TypeOK
    <3> QED BY <3>1 DEF LogGrows
  <2> QED BY <2>1
<1>2. ASSUME NEW e \in Client, e # c PROVE Own(e)'
  <2>1. /\ handler'[e] = handler[e] /\ query'[e] = query[e] /\ todo'[e] = todo[e]
        /\ found'[e] = found[e] /\ at'[e] = at[e] /\ pc'[e] = pc[e] /\ answer'[e] = answer[e]
        /\ log'[e] = log[e] /\ always'[e] = always[e] /\ ever'[e] = ever[e]
        /\ e \in kept' <=> e \in kept
    BY <1>2 DEF Elsewhere
  <2>2. Own(e) BY DEF Inv
  <2>3. Place(e)' /\ Count(e)' BY <2>1, <2>2 DEF Own, Place, Count
  <2>4. Search(e)' BY <2>1, <2>2 DEF Own, Search, Matching
  <2>5. Held(e)'
    <3> SUFFICES ASSUME e \in kept, pc[e] \in Updating, NEW i \in 1 .. Done(e)
                 PROVE  Holds(e, i)'
      BY <2>1 DEF Held, Done
    <3>1. i \in 1 .. Len(log[e]) BY <2>2, DoneRange DEF Inv, TypeOK
    <3>2. Holds(e, i) BY <2>2 DEF Own, Held
    <3> QED BY <1>1, <3>1, <3>2, HoldsOn DEF Inv
  <2> QED BY <2>3, <2>4, <2>5 DEF Own
<1> QED BY <1>2 DEF Inv

--------------------------------------------------------------------------------
(* The end of the server, and of a client *)

LEMMA CrashKeeps == ASSUME Inv, Crash, UNCHANGED serving PROVE Inv'
<1>1. TypeOK' BY OrderAssumption DEF Inv, TypeOK, Crash, serving, client
<1>2. ASSUME NEW e \in Client PROVE Own(e)'
  <2>1. Own(e) BY DEF Inv
  <2>2. /\ handler'[e] = "none" /\ kept' = {}
        /\ UNCHANGED <<pc, log, at, found, always, ever>>
        /\ answer'[e] = answer[e] \/ (pc[e] \in Calling /\ answer'[e] = "error")
    BY DEF Crash, serving, client
  <2>3. Place(e)' BY <2>1, <2>2 DEF Own, Place, Calling
  <2>4. Count(e)' BY <2>1, <2>2 DEF Own, Count
  <2>5. Search(e)'
    <3> SUFFICES ASSUME pc[e] = "search", answer'[e] = "ok"
                 PROVE  always[e] \subseteq found[e] /\ found[e] \subseteq ever[e]
      BY <2>2 DEF Search
    <3> QED BY <2>1, <2>2 DEF Own, Place, Search
  <2>6. Held(e)' BY <2>2 DEF Held
  <2> QED BY <2>3, <2>4, <2>5, <2>6 DEF Own
<1> QED BY <1>1, <1>2 DEF Inv

\* The other parts of the state that have no owner.
LEMMA WriterStays ==
  ASSUME TypeOK, NEW c \in Client, NEW l, Serve(c, l) \/ UNCHANGED handler,
         handler[c] # "write", UNCHANGED writing
  PROVE  writing' => \E e \in Client : handler'[e] = "write"
BY DEF TypeOK, Serve

LEMMA DieKeeps == ASSUME Inv, NEW c \in Client, Die(c) PROVE Inv'
<1>1. /\ pc' = [pc EXCEPT ![c] = "fatal"] /\ ended' = ended \cup {c}
      /\ UNCHANGED <<up, restarts, orders, writing, handler, query, todo, found, at, answer, log,
                     closed, process, always, ever, kept>>
  BY DEF Die, server, serving, history
<1>2. TypeOK' BY <1>1 DEF Inv, TypeOK
<1>3. Elsewhere(c) BY <1>1 DEF Elsewhere, Inv, TypeOK
<1>4. LogGrows(c) BY <1>1 DEF LogGrows, Inv, TypeOK
<1>5. Own(c)'
  <2>1. Own(c) /\ pc'[c] = "fatal" BY <1>1 DEF Inv, TypeOK
  <2>2. Place(c)' /\ Count(c)' BY <1>1, <2>1 DEF Own, Place, Count
  <2>3. Search(c)' BY <1>1, <2>1 DEF Own, Search, Matching
  <2>4. Held(c)' BY <2>1 DEF Held, Updating
  <2> QED BY <2>2, <2>3, <2>4 DEF Own
<1> QED BY <1>1, <1>2, <1>3, <1>4, <1>5, LocalStep

\* A handler that returns leaves its updates counted, and its search to be judged.
LEMMA ReturnKeeps ==
  ASSUME Inv, NEW c \in Client, NEW a \in {"ok", "error"}, Return(c, a),
         handler[c] \notin {"none", "write"},
         UNCHANGED <<server, serving, client, ended, history>>,
         a = "ok" /\ pc[c] = "search" => handler[c] = "scan" /\ todo[c] = {},
         a = "ok" /\ pc[c] = "closing" => at[c] = Len(log[c])
  PROVE  Inv'
<1> USE DEF Return, Serve, Answer
<1>1. /\ handler' = [handler EXCEPT ![c] = "none"] /\ answer' = [answer EXCEPT ![c] = a]
      /\ UNCHANGED <<up, restarts, orders, writing, query, todo, found, at, pc, log, closed,
                     process, ended, always, ever, kept>>
  BY DEF server, serving, client, history
<1>2. TypeOK'
  <2>1. writing' => \E e \in Client : handler'[e] = "write" BY <1>1, WriterStays DEF Inv
  <2> QED BY <1>1, <2>1 DEF Inv, TypeOK
<1>3. Elsewhere(c) BY <1>1 DEF Elsewhere, Inv, TypeOK
<1>4. LogGrows(c) BY <1>1 DEF LogGrows, Inv, TypeOK
<1>5. Own(c)'
  <2>1. Own(c) /\ handler'[c] = "none" /\ answer'[c] = a BY <1>1 DEF Inv, TypeOK
  <2>2. pc[c] # "off" BY <2>1 DEF Own, Place
  <2>3. Place(c)' BY <1>1, <2>1, <2>2 DEF Place
  <2>4. Count(c)' BY <1>1, <2>1 DEF Own, Count
  <2>5. Search(c)' BY <1>1, <2>1 DEF Own, Search
  <2>6. Held(c)'
    <3>1. Done(c)' = Done(c) BY <1>1, <2>1 DEF Done
    <3>2. \A i : Holds(c, i)' <=> Holds(c, i) BY <1>1 DEF Holds
    <3> QED BY <1>1, <2>1, <3>1, <3>2 DEF Own, Held
  <2> QED BY <2>3, <2>4, <2>5, <2>6 DEF Own
<1> QED BY <1>1, <1>2, <1>3, <1>4, <1>5, LocalStep

--------------------------------------------------------------------------------
(* The client's steps *)

\* A call: what the client has sent before is none of it.
LEMMA CallKeeps ==
  ASSUME Inv, NEW c \in Client, NEW l \in {"get", "search", "update", "process"}, Call(c, l),
         handler[c] = "none",
         l \in {"get", "search", "update"} => pc[c] \in {"off", "get", "search"},
         l = "process" => pc[c] = "closing" /\ answer[c] = "ok"
  PROVE  Inv'
<1>1. CASE Die(c) BY <1>1, DieKeeps
<1>2. CASE /\ pc' = [pc EXCEPT ![c] = l]
           /\ handler' = [handler EXCEPT ![c] = l] /\ answer' = [answer EXCEPT ![c] = "none"]
           /\ kept' = IF l = "update" THEN kept \cup {c} ELSE kept
           /\ UNCHANGED <<up, restarts, orders, writing, query, todo, found, at, log, closed,
                          process, ended, always, ever>>
  <2>1. TypeOK'
    <3>1. writing' => \E e \in Client : handler'[e] = "write"
      BY <1>2, WriterStays DEF Inv, Serve
    <3>2. pc' \in [Client -> Calling \cup {"off", "spin", "fatal"}]
      BY <1>2 DEF Inv, TypeOK, Calling
    <3> QED BY <1>2, <3>1, <3>2 DEF Inv, TypeOK
  <2>2. Elsewhere(c) BY <1>2 DEF Elsewhere, Inv, TypeOK
  <2>3. LogGrows(c) BY <1>2 DEF LogGrows, Inv, TypeOK
  <2>4. Own(c) /\ pc'[c] = l /\ handler'[c] = l /\ answer'[c] = "none"
    BY <1>2 DEF Inv, TypeOK
  <2>5. Place(c)' BY <2>4 DEF Place
  <2>6. Count(c)' BY <1>2, <2>4 DEF Own, Count
  <2>7. Search(c)' BY <2>4 DEF Search
  <2>8. Held(c)'
    <3>1. CASE l \in {"get", "search"} BY <2>4, <3>1 DEF Held, Updating
    <3>2. CASE l = "update"
      <4>1. Done(c)' = 0 BY <1>2, <2>4, <3>2 DEF Own, Count, Done
      <4> QED BY <4>1 DEF Held
    <3>3. CASE l = "process"
      <4>1. Done(c)' = Done(c) BY <1>2, <2>4, <3>3 DEF Done
      <4>2. \A i : Holds(c, i)' <=> Holds(c, i) BY <1>2 DEF Holds
      <4> QED BY <1>2, <2>4, <3>3, <4>1, <4>2 DEF Own, Held, Updating
    <3> QED BY <3>1, <3>2, <3>3
  <2> QED BY <1>2, <2>1, <2>2, <2>3, <2>5, <2>6, <2>7, <2>8, LocalStep DEF Own
<1> QED BY <1>1, <1>2 DEF Call, Serve, Answer, server, serving

\* The client moves on by itself.
LEMMA MoveKeeps ==
  ASSUME Inv, NEW c \in Client, NEW l \in {"spin", "closing", "draining"},
         pc' = [pc EXCEPT ![c] = l],
         UNCHANGED <<server, handler, serving, log, answer, ended, history>>,
         closed' \subseteq Client,
         process' \in [Client -> {"nothing", "order", "eof"}],
         l = "spin" => pc[c] = "search",
         l = "closing" => pc[c] = "update" /\ answer[c] = "none",
         l = "draining" => pc[c] = "process"
  PROVE  Inv'
<1>1. UNCHANGED <<up, restarts, orders, writing, handler, query, todo, found, at, answer, log, ended,
                  always, ever, kept>>
  BY DEF server, serving, history
<1>2. TypeOK'
  <2>1. pc' \in [Client -> Calling \cup {"off", "spin", "fatal"}] BY DEF Inv, TypeOK, Calling
  <2> QED BY <1>1, <2>1 DEF Inv, TypeOK
<1>3. Elsewhere(c) BY <1>1 DEF Elsewhere, Inv, TypeOK
<1>4. LogGrows(c) BY <1>1 DEF LogGrows, Inv, TypeOK
<1>5. Own(c) /\ pc'[c] = l BY DEF Inv, TypeOK
<1>6. Place(c)' /\ Count(c)' BY <1>1, <1>5 DEF Own, Place, Count
<1>7. Search(c)' BY <1>1, <1>5 DEF Own, Search, Matching
<1>8. Held(c)'
  <2>1. Done(c)' = Done(c) BY <1>1 DEF Done
  <2>2. \A i : Holds(c, i)' <=> Holds(c, i) BY <1>1 DEF Holds
  <2> QED BY <1>1, <1>5, <2>1, <2>2 DEF Own, Held, Updating
<1> QED BY <1>1, <1>2, <1>3, <1>4, <1>6, <1>7, <1>8, LocalStep DEF Own

LEMMA ClientKeeps ==
  ASSUME Inv, NEW c \in Client,
         Choice(c) \/ CloseUpdates(c) \/ CloseProcess(c) \/ EndContext(c) \/ Reaction(c)
  PROVE  Inv'
<1>1. Own(c) BY DEF Inv
<1>2. CASE StartClient(c) BY <1>1, <1>2, CallKeeps DEF StartClient, Own, Place
<1>3. CASE GotOrder(c) \/ SearchEOF(c) \/ UpdatesOk(c)
  BY <1>1, <1>3, CallKeeps DEF GotOrder, SearchEOF, UpdatesOk, Own, Place
<1>4. CASE SearchSpins(c)
  BY <1>4, MoveKeeps DEF SearchSpins, Inv, TypeOK
<1>5. CASE CloseUpdates(c)
  BY <1>5, MoveKeeps DEF CloseUpdates, Inv, TypeOK
<1>6. CASE CloseProcess(c)
  BY <1>6, MoveKeeps DEF CloseProcess, Inv, TypeOK
<1>7. CASE CallFails(c) BY <1>7, DieKeeps DEF CallFails
<1>8. ASSUME NEW u \in Updates, SendUpdate(c, u) PROVE Inv'
  <2>1. /\ pc[c] = "update" /\ Len(log[c]) < MaxUpdates
        /\ log' = [log EXCEPT ![c] = Append(@, u)]
        /\ UNCHANGED <<up, restarts, orders, writing, handler, query, todo, found, at, pc, answer,
                       ended, closed, process, always, ever, kept>>
    BY <1>8 DEF SendUpdate, server, serving, history
  <2>2. log[c] \in Seq(Updates) /\ \A d \in Client : Len(log[d]) \in Nat BY DEF Inv, TypeOK
  <2>3. /\ log'[c] \in Seq(Updates) /\ Len(log'[c]) = Len(log[c]) + 1
        /\ \A i \in 1 .. Len(log[c]) : log'[c][i] = log[c][i]
        /\ \A d \in Client \ {c} : log'[d] = log[d]
    <3>1. log'[c] = Append(log[c], u) /\ \A d \in Client \ {c} : log'[d] = log[d]
      BY <2>1 DEF Inv, TypeOK
    <3> QED BY <2>2, <3>1, AppendProperties
  <2>4. LogGrows(c) BY <2>2, <2>3 DEF LogGrows
  <2>5. Elsewhere(c) BY <2>1, <2>3 DEF Elsewhere
  <2>6. TypeOK'
    <3>1. log' \in [Client -> Seq(Updates)] /\ \A d \in Client : Len(log'[d]) <= MaxUpdates
      BY <2>1, <2>2, <2>3, BoundAssumption DEF Inv, TypeOK
    <3>2. \A d \in Client : at'[d] <= Len(log'[d])
      BY <2>1, <2>2, <2>3 DEF Inv, TypeOK
    <3> QED BY <2>1, <3>1, <3>2 DEF Inv, TypeOK
  <2>7. Place(c)' /\ Count(c)' BY <1>1, <2>1 DEF Own, Place, Count
  <2>8. Search(c)' BY <1>1, <2>1 DEF Own, Search, Matching
  <2>9. Held(c)'
    <3>1. \A d \in Client : LogGrows(d)
      <4>1. ASSUME NEW d \in Client, d # c PROVE LogGrows(d)
        BY <2>2, <2>3, <4>1 DEF LogGrows
      <4> QED BY <2>4, <4>1
    <3>2. Done(c)' = Done(c) BY <2>1 DEF Done
    <3> SUFFICES ASSUME c \in kept, pc[c] \in Updating, NEW i \in 1 .. Done(c)
                 PROVE  Holds(c, i)'
      BY <2>1, <3>2 DEF Held
    <3>3. i \in 1 .. Len(log[c]) BY <1>1, <2>2, DoneRange DEF Inv
    <3>4. Holds(c, i) BY <1>1 DEF Own, Held
    <3> QED BY <2>1, <2>6, <3>1, <3>3, <3>4, HoldsOn DEF Inv
  <2> QED BY <2>1, <2>4, <2>5, <2>6, <2>7, <2>8, <2>9, LocalStep DEF Own
<1>9. CASE SendOrder(c) \/ EndContext(c)
  <2>1. UNCHANGED <<up, restarts, orders, writing, handler, query, todo, found, at, pc, answer, log,
                    always, ever, kept>>
    BY <1>9 DEF SendOrder, EndContext, server, serving, client, history
  <2>2. TypeOK' BY <1>9, <2>1 DEF SendOrder, EndContext, client, Inv, TypeOK
  <2>3. Elsewhere(c) BY <2>1 DEF Elsewhere
  <2>4. LogGrows(c) BY <2>1 DEF LogGrows, Inv, TypeOK
  <2>5. Own(c)' BY <1>1, <2>1 DEF Own, Place, Count, Search, Matching, Held, Holds, Done
  <2> QED BY <2>1, <2>2, <2>3, <2>4, <2>5, LocalStep
<1> QED BY <1>2, <1>3, <1>4, <1>5, <1>6, <1>7, <1>8, <1>9 DEF Choice, Reaction

--------------------------------------------------------------------------------
(* The handlers' steps *)

\* A round of the search: what always matches is found when it is visited.
LEMMA VisitKeeps == ASSUME Inv, NEW c \in Client, NEW o \in Order, Visit(c, o) PROVE Inv'
<1>1. CASE Noticed BY <1>1, CrashKeeps DEF Noticed
<1>2. CASE Return(c, "error") /\ UNCHANGED <<server, serving, client, ended, history>>
  BY <1>2, ReturnKeeps DEF Visit
<1>3. CASE /\ todo' = [todo EXCEPT ![c] = @ \ {o}]
           /\ found' = [found EXCEPT ![c] = IF orders[o] \in query[c] THEN @ \cup {o} ELSE @]
           /\ UNCHANGED <<server, handler, query, at, client, answer, ended, history>>
  <2>1. UNCHANGED <<up, restarts, orders, writing, handler, query, at, pc, answer, log, closed,
                    process, ended, always, ever, kept>>
    BY <1>3 DEF server, client, history
  <2>2. TypeOK' BY <1>3, <2>1 DEF Inv, TypeOK
  <2>3. Elsewhere(c) BY <1>3, <2>1 DEF Elsewhere, Inv, TypeOK
  <2>4. LogGrows(c) BY <2>1 DEF LogGrows, Inv, TypeOK
  <2>5. Own(c) /\ handler[c] = "scan" BY DEF Inv, Visit
  <2>6. Place(c)' /\ Count(c)' BY <2>1, <2>5 DEF Own, Place, Count
  <2>7. Search(c)'
    <3>1. /\ todo'[c] = todo[c] \ {o}
          /\ found'[c] = IF orders[o] \in query[c] THEN found[c] \cup {o} ELSE found[c]
      BY <1>3 DEF Inv, TypeOK
    <3>2. o \in Matching(query[c]) <=> orders[o] \in query[c] BY DEF Matching
    <3>3. Matching(query[c])' = Matching(query[c]) BY <2>1 DEF Matching
    <3> QED BY <2>1, <2>5, <3>1, <3>2, <3>3 DEF Own, Search
  <2>8. Held(c)' BY <2>1, <2>5 DEF Own, Held, Holds, Done
  <2> QED BY <2>1, <2>2, <2>3, <2>4, <2>6, <2>7, <2>8, LocalStep DEF Own
<1> QED BY <1>1, <1>2, <1>3 DEF Visit

LEMMA SearchOrdersKeeps ==
  ASSUME Inv, NEW c \in Client, NEW q \in Query, SearchOrders(c, q) PROVE Inv'
<1>1. CASE Noticed BY <1>1, CrashKeeps DEF Noticed
<1>2. CASE /\ Serve(c, "scan")
           /\ query' = [query EXCEPT ![c] = q] /\ todo' = [todo EXCEPT ![c] = Order]
           /\ found' = [found EXCEPT ![c] = {}]
           /\ always' = [always EXCEPT ![c] = Matching(q)]
           /\ ever' = [ever EXCEPT ![c] = Matching(q)]
           /\ UNCHANGED <<server, at, client, answer, ended, kept>>
  <2>1. /\ handler[c] = "search" /\ handler' = [handler EXCEPT ![c] = "scan"]
        /\ UNCHANGED <<up, restarts, orders, writing, at, pc, answer, log, closed, process,
                       ended, kept>>
    BY <1>2 DEF Serve, SearchOrders, server, client
  <2>2. Matching(q) \subseteq Order BY DEF Matching
  <2>3. TypeOK'
    <3>1. writing' => \E e \in Client : handler'[e] = "write"
      BY <1>2, <2>1, WriterStays DEF Inv
    <3> QED BY <1>2, <2>1, <2>2, <3>1 DEF Inv, TypeOK
  <2>4. Elsewhere(c) BY <1>2, <2>1 DEF Elsewhere, Inv, TypeOK
  <2>5. LogGrows(c) BY <2>1 DEF LogGrows, Inv, TypeOK
  <2>6. Own(c) /\ handler'[c] = "scan" BY <2>1 DEF Inv, TypeOK
  <2>7. Place(c)' /\ Count(c)' BY <2>1, <2>6 DEF Own, Place, Count
  <2>8. Search(c)'
    <3>1. /\ query'[c] = q /\ todo'[c] = Order /\ found'[c] = {}
          /\ always'[c] = Matching(q) /\ ever'[c] = Matching(q)
      BY <1>2 DEF Inv, TypeOK
    <3>2. Matching(query[c])' = Matching(q) BY <2>1, <3>1 DEF Matching
    <3> QED BY <2>2, <2>6, <3>1, <3>2 DEF Search
  <2>9. Held(c)' BY <2>1, <2>6 DEF Own, Held, Holds, Done
  <2> QED BY <2>1, <2>3, <2>4, <2>5, <2>7, <2>8, <2>9, LocalStep DEF Own
<1> QED BY <1>1, <1>2 DEF SearchOrders

\* An update is taken from the stream and is not in the map yet.
LEMMA RecvUpdateKeeps == ASSUME Inv, NEW c \in Client, RecvUpdate(c) PROVE Inv'
<1>1. CASE Noticed BY <1>1, CrashKeeps DEF Noticed
<1>2. CASE /\ at' = [at EXCEPT ![c] = @ + 1]
           /\ IF writing THEN writing' \in BOOLEAN ELSE writing' = TRUE
           /\ Serve(c, "write")
           /\ UNCHANGED <<up, restarts, orders, query, todo, found, client, answer, ended, history>>
  <2>1. /\ handler[c] = "update" /\ at[c] < Len(log[c])
        /\ handler' = [handler EXCEPT ![c] = "write"]
        /\ UNCHANGED <<up, restarts, orders, query, todo, found, pc, answer, log, closed,
                       process, ended, always, ever, kept>>
    BY <1>2 DEF Serve, RecvUpdate, client, history
  <2>2. Own(c) /\ handler'[c] = "write" /\ at'[c] = at[c] + 1 /\ at[c] \in Nat /\ Len(log[c]) \in Nat
    <3>1. Len(log[c]) \in Nat /\ at[c] \in Nat BY DEF Inv, TypeOK
    <3>2. handler'[c] = "write" /\ at'[c] = at[c] + 1 BY <1>2, <2>1 DEF Inv, TypeOK
    <3> QED BY <3>1, <3>2 DEF Inv
  <2>3. TypeOK'
    <3>1. at' \in [Client -> Nat] /\ \A d \in Client : at'[d] <= Len(log'[d])
      BY <1>2, <2>1, <2>2 DEF Inv, TypeOK
    <3>2. writing' \in BOOLEAN BY <1>2
    <3> QED BY <2>1, <2>2, <3>1, <3>2 DEF Inv, TypeOK
  <2>4. Elsewhere(c) BY <1>2, <2>1 DEF Elsewhere, Inv, TypeOK
  <2>5. LogGrows(c) BY <2>1, <2>2 DEF LogGrows
  <2>6. Place(c)' /\ Count(c)' BY <2>1, <2>2 DEF Own, Place, Count
  <2>7. Search(c)' BY <2>2 DEF Search
  <2>8. Held(c)'
    <3>1. Done(c)' = Done(c) BY <2>1, <2>2 DEF Done
    <3>2. \A i : Holds(c, i)' <=> Holds(c, i) BY <2>1 DEF Holds
    <3> QED BY <2>1, <2>2, <3>1, <3>2 DEF Own, Held
  <2> QED BY <2>1, <2>3, <2>4, <2>5, <2>6, <2>7, <2>8, LocalStep DEF Own
<1> QED BY <1>1, <1>2 DEF RecvUpdate

\* The write to the map: it comes after every earlier update of the same client, and
\* the searches in progress see the order change.
LEMMA StoreUpdateKeeps == ASSUME Inv, NEW c \in Client, StoreUpdate(c) PROVE Inv'
<1>1. CASE Crash /\ UNCHANGED serving BY <1>1, CrashKeeps
<1> DEFINE u == log[c][at[c]]
<1>2. CASE /\ orders' = [orders EXCEPT ![u.order] = u.body]
           /\ Observe(u.order, u.body)
           /\ writing' = FALSE
           /\ Serve(c, "update")
           /\ UNCHANGED <<up, restarts, serving, client, answer, ended, kept>>
  <2>1. /\ handler[c] = "write" /\ handler' = [handler EXCEPT ![c] = "update"]
        /\ UNCHANGED <<up, restarts, query, todo, found, at, pc, answer, log, closed, process,
                       ended, kept>>
    BY <1>2 DEF Serve, StoreUpdate, serving, client
  <2>2. at[c] \in 1 .. Len(log[c]) /\ u \in Updates
    <3>1. at[c] > 0 /\ at[c] \in Nat /\ at[c] <= Len(log[c]) BY <2>1 DEF Inv, Own, Count, TypeOK
    <3>2. log[c] \in Seq(Updates) /\ Len(log[c]) \in Nat BY DEF Inv, TypeOK
    <3>3. at[c] \in 1 .. Len(log[c]) BY <3>1, <3>2
    <3> QED BY <3>2, <3>3, ElementOfSeq
  <2>3. u.order \in Order /\ u.body \in Body /\ u = [order |-> u.order, body |-> u.body]
    BY <2>2, UpdateAssumption
  <2> HIDE DEF u
  <2>4. /\ orders'[u.order] = u.body
        /\ \A o \in Order : o # u.order => orders'[o] = orders[o]
    BY <1>2, <2>3 DEF Inv, TypeOK
  <2>5. TypeOK'
    <3>1. always' \in [Client -> SUBSET Order] /\ ever' \in [Client -> SUBSET Order]
      BY <1>2, <2>3 DEF Observe, Inv, TypeOK
    <3>2. orders' \in [Order -> Body] BY <1>2, <2>3 DEF Inv, TypeOK
    <3> QED BY <1>2, <2>1, <3>1, <3>2 DEF Inv, TypeOK
  <2> SUFFICES ASSUME NEW e \in Client PROVE Own(e)'
    BY <2>5 DEF Inv
  <2>6. Own(e) BY DEF Inv
  <2>7. handler'[e] = IF e = c THEN "update" ELSE handler[e] BY <2>1 DEF Inv, TypeOK
  <2>8. Place(e)' /\ Count(e)' BY <2>1, <2>6, <2>7 DEF Own, Place, Count
  <2>9. Search(e)'
    <3>1. /\ always'[e] = IF u.body \in query[e] THEN always[e] ELSE always[e] \ {u.order}
          /\ ever'[e] = IF u.body \in query[e] THEN ever[e] \cup {u.order} ELSE ever[e]
      BY <1>2 DEF Observe
    <3>2. ASSUME NEW o \in Order
          PROVE  o \in Matching(query[e])' <=>
                   IF o = u.order THEN u.body \in query[e] ELSE o \in Matching(query[e])
      BY <2>1, <2>4, <3>2 DEF Matching
    <3>3. Matching(query[e]) \subseteq Order /\ Matching(query[e])' \subseteq Order
      BY DEF Matching
    <3>4. handler'[e] \in {"scan", "none"} => handler'[e] = handler[e] BY <2>7
    <3>5. ASSUME handler'[e] = "scan"
          PROVE  /\ always'[e] \subseteq Matching(query[e])'
                 /\ Matching(query[e])' \subseteq ever'[e]
                 /\ found'[e] \subseteq ever'[e]
                 /\ always'[e] \subseteq found'[e] \cup todo'[e]
      BY <2>1, <2>6, <3>1, <3>2, <3>3, <3>4, <3>5 DEF Own, Search
    <3>6. ASSUME handler'[e] = "none", pc'[e] = "search", answer'[e] = "ok"
          PROVE  always'[e] \subseteq found'[e] /\ found'[e] \subseteq ever'[e]
      BY <2>1, <2>6, <3>1, <3>4, <3>6 DEF Own, Search
    <3> QED BY <3>5, <3>6 DEF Search
  <2>10. Held(e)'
    <3> SUFFICES ASSUME e \in kept, pc[e] \in Updating, NEW i \in 1 .. Done(e)' PROVE Holds(e, i)'
      BY <2>1 DEF Held
    <3> DEFINE o == log[e][i].order
    <3>1. i \in 1 .. Len(log[e]) /\ Len(log[e]) \in Nat
      BY <2>1, <2>5, <2>8, DoneRange DEF Own, Done, Count, TypeOK
    <3>2. CASE o = u.order /\ e = c
      <4>1. at[c] \in i .. Len(log[c])
        BY <2>1, <2>2, <2>7, <3>1, <3>2 DEF Done
      <4>2. log[c][at[c]] = [order |-> o, body |-> orders'[o]] BY <2>3, <2>4, <3>2 DEF u
      <4> QED BY <2>1, <3>2, <4>1, <4>2 DEF Holds
    <3>3. CASE o = u.order /\ e # c
      <4>1. log[c][at[c]] = [order |-> o, body |-> orders'[o]] BY <2>3, <2>4, <3>3 DEF u
      <4> QED BY <2>1, <2>2, <3>3, <4>1 DEF Holds
    <3>4. CASE o # u.order
      <4>1. log[e][i] \in Updates
        BY <3>1, ElementOfSeq DEF Inv, TypeOK
      <4>2. o \in Order /\ orders'[o] = orders[o] BY <2>4, <3>4, <4>1, UpdateAssumption
      <4>3. i \in 1 .. Done(e)
        <5>1. CASE e # c BY <2>1, <2>7, <5>1 DEF Done
        <5>2. CASE e = c
          <6>1. i # at[c] BY <3>4, <5>2 DEF u
          <6> QED BY <2>1, <2>2, <2>7, <5>2, <6>1 DEF Done
        <5> QED BY <5>1, <5>2
      <4>4. Holds(e, i) BY <2>6, <4>3 DEF Own, Held
      <4> QED BY <2>1, <4>2, <4>4 DEF Holds
    <3> QED BY <3>2, <3>3, <3>4
  <2> QED BY <2>8, <2>9, <2>10 DEF Own
<1> QED BY <1>1, <1>2 DEF StoreUpdate

LEMMA HandlerKeeps == ASSUME Inv, NEW c \in Client, Handler(c) PROVE Inv'
<1>1. Own(c) BY DEF Inv
<1>2. ASSUME NEW o \in Order \cup {NoOrder}, GetOrder(c, o) PROVE Inv'
  <2>1. CASE Noticed BY <2>1, CrashKeeps DEF Noticed
  <2>2. pc[c] \notin {"search", "closing"} BY <1>1, <1>2 DEF GetOrder, Own, Place
  <2>3. CASE /\ Return(c, IF o \in Order THEN "ok" ELSE "error")
             /\ UNCHANGED <<server, serving, client, ended, history>>
    BY <1>2, <2>2, <2>3, ReturnKeeps DEF GetOrder
  <2> QED BY <1>2, <2>1, <2>3 DEF GetOrder
<1>3. CASE ScanDone(c)
  <2>1. pc[c] # "closing" BY <1>1, <1>3 DEF ScanDone, Own, Place
  <2> QED BY <1>3, <2>1, ReturnKeeps DEF ScanDone
<1>4. CASE UpdatesDone(c)
  <2>1. pc[c] # "search" BY <1>1, <1>4 DEF UpdatesDone, Own, Place
  <2> QED BY <1>4, <2>1, ReturnKeeps DEF UpdatesDone
<1>5. CASE UpdatesBroken(c) \/ ProcessOrder(c)
  BY <1>5, CrashKeeps DEF UpdatesBroken, ProcessOrder
<1>6. CASE ProcessEnds(c) BY <1>6, ReturnKeeps DEF ProcessEnds
<1> QED BY <1>2, <1>3, <1>4, <1>5, <1>6, VisitKeeps, SearchOrdersKeeps, RecvUpdateKeeps,
           StoreUpdateKeeps DEF Handler

--------------------------------------------------------------------------------
(* The theorems *)

LEMMA Invariant == Spec => []Inv
<1>1. Init => Inv
  <2> SUFFICES ASSUME Init PROVE Inv
    OBVIOUS
  <2>1. 0 \in 0 .. MaxRestarts /\ <<>> \in Seq(Updates) /\ Len(<<>>) = 0 /\ 0 <= MaxUpdates
    BY BoundAssumption
  <2>2. TypeOK
    <3>1. log \in [Client -> Seq(Updates)] /\ \A c \in Client : Len(log[c]) = 0
      BY <2>1 DEF Init
    <3>2. /\ at \in [Client -> Nat] /\ \A c \in Client : at[c] = 0
          /\ \A c \in Client : Len(log[c]) <= MaxUpdates
      BY <2>1, <3>1 DEF Init
    <3>3. /\ handler \in [Client -> {"none", "get", "search", "scan", "update", "write", "process"}]
          /\ query \in [Client -> Query \cup {{}}]
          /\ todo \in [Client -> SUBSET Order] /\ found \in [Client -> SUBSET Order]
          /\ always \in [Client -> SUBSET Order] /\ ever \in [Client -> SUBSET Order]
      BY DEF Init
    <3>4. /\ pc \in [Client -> Calling \cup {"off", "spin", "fatal"}]
          /\ answer \in [Client -> {"none", "ok", "error"}]
          /\ process \in [Client -> {"nothing", "order", "eof"}]
      BY DEF Init
    <3>5. /\ up \in BOOLEAN /\ restarts \in 0 .. MaxRestarts /\ orders \in [Order -> Body]
          /\ ended \subseteq Client /\ kept \subseteq Client /\ closed \subseteq Client
      BY <2>1, OrderAssumption DEF Init
    <3>6. writing \in BOOLEAN /\ (writing => \E c \in Client : handler[c] = "write") BY DEF Init
    <3>7. ASSUME NEW c \in Client PROVE at[c] <= Len(log[c])
      <4>1. at[c] = 0 /\ Len(log[c]) = 0 BY <3>1, <3>2
      <4> QED BY <4>1
    <3> QED BY <3>1, <3>2, <3>3, <3>4, <3>5, <3>6, <3>7, Zenon DEF TypeOK
  <2>3. ASSUME NEW c \in Client PROVE Own(c)
    <3>1. /\ handler[c] = "none" /\ pc[c] = "off" /\ answer[c] = "none" /\ log[c] = <<>> /\ at[c] = 0
          /\ c \notin kept
      BY DEF Init
    <3> QED BY <3>1 DEF Own, Place, Count, Search, Held
  <2> QED BY <2>2, <2>3 DEF Inv
<1>2. Inv /\ [Next]_vars => Inv'
  <2> SUFFICES ASSUME Inv, [Next]_vars PROVE Inv'
    OBVIOUS
  <2>1. CASE Restart
    <3>1. /\ up' = TRUE /\ restarts' = restarts + 1 /\ restarts < MaxRestarts
          /\ UNCHANGED <<orders, writing, handler, query, todo, found, at, pc, answer, log,
                         closed, process, ended, always, ever, kept>>
      BY <2>1 DEF Restart, serving, client, history
    <3>2. TypeOK' BY <3>1, BoundAssumption DEF Inv, TypeOK
    <3>3. \A c \in Client : Own(c)'
      BY <3>1 DEF Inv, Own, Place, Count, Search, Matching, Held, Holds, Done
    <3> QED BY <3>2, <3>3 DEF Inv
  <2>2. CASE UNCHANGED vars
    <3>1. UNCHANGED <<up, restarts, orders, writing, handler, query, todo, found, at, pc, answer,
                      log, closed, process, ended, always, ever, kept>>
      BY <2>2 DEF vars, server, serving, client, history
    <3>2. TypeOK' BY <3>1 DEF Inv, TypeOK
    <3>3. \A c \in Client : Own(c)'
      BY <3>1 DEF Inv, Own, Place, Count, Search, Matching, Held, Holds, Done
    <3> QED BY <3>2, <3>3 DEF Inv
  <2> QED BY <2>1, <2>2, ClientKeeps, HandlerKeeps DEF Next
<1> QED BY <1>1, <1>2, PTL DEF Spec

\* Type correctness of the map with its flag, the handlers and the clients.
THEOREM TypeCorrect == Spec => []TypeOK
<1>1. Inv => TypeOK BY DEF Inv
<1> QED BY <1>1, Invariant, PTL

\* SearchFair for any number of orders and of writers in the middle of the loop
\* (order-management-server.go:80-115).
THEOREM SearchesFair == Spec => []SearchFair
<1>1. Inv => SearchFair BY DEF Inv, Own, Search, SearchFair
<1> QED BY <1>1, Invariant, PTL

\* UpdatesKept for any number of clients: whoever is answered finds his updates, or
\* those of others, in the map (order-management-server.go:117-153).
THEOREM UpdatesAlwaysKept == Spec => []UpdatesKept
<1>1. Inv => UpdatesKept
  <2> SUFFICES ASSUME Inv, NEW c \in kept, pc[c] \in {"process", "draining"},
                      NEW i \in 1 .. Len(log[c])
               PROVE  Holds(c, i)
    BY DEF UpdatesKept, Holds
  <2>1. c \in Client /\ Own(c) BY DEF Inv, TypeOK
  <2>2. handler[c] # "write" /\ at[c] = Len(log[c]) BY <2>1 DEF Own, Place, Count
  <2> QED BY <2>1, <2>2 DEF Own, Held, Done, Updating
<1> QED BY <1>1, Invariant, PTL

--------------------------------------------------------------------------------
(* The map is an order book *)

\* Updates are received for streams of this life of the server, and as long as
\* their client may send more of them.
Streams == \A c \in Client :
  /\ handler[c] \in Streaming => c \in kept
  /\ pc[c] = "update" /\ answer[c] = "none" => handler[c] \in Streaming

\* A step that leaves alone what an order book is made of.
LEMMA Unseen ==
  ASSUME UNCHANGED <<orders, kept, log, at>>,
         \A e \in Client : /\ handler'[e] = "write" <=> handler[e] = "write"
                           /\ handler'[e] \in Streaming <=> handler[e] \in Streaming,
         kept \subseteq Client
  PROVE  UNCHANGED Abstract!vars
<1>1. Entered' = Entered BY DEF Entered
<1>2. Told' = Told BY DEF Told
<1> QED BY <1>1, <1>2 DEF Abstract!vars

LEMMA CrashBook == ASSUME Crash PROVE Abstract!Lose
<1>1. Entered' = [c \in Client |-> 0] /\ Told' = {} BY DEF Crash, Entered, Told
<1> QED BY <1>1 DEF Crash, client, Abstract!Lose

\* A handler that returns, or goes from one place outside UpdateOrders to another.
LEMMA ServeElsewhere ==
  ASSUME TypeOK, NEW c \in Client, NEW l, Serve(c, l), handler[c] \notin Streaming,
         l \notin Streaming, UNCHANGED <<orders, kept, log, at>>
  PROVE  UNCHANGED Abstract!vars
<1>1. \A e \in Client : handler'[e] = IF e = c THEN l ELSE handler[e] BY DEF TypeOK, Serve
<1> QED BY <1>1, Unseen DEF TypeOK, Streaming

LEMMA CallBook ==
  ASSUME Inv, NEW c \in Client, NEW l \in {"get", "search", "update", "process"}, Call(c, l),
         handler[c] = "none", l = "update" => pc[c] = "search"
  PROVE  [Abstract!Next]_(Abstract!vars)
<1> USE DEF Inv
<1>1. CASE Die(c)
  BY <1>1, Unseen DEF Die, server, serving, history, TypeOK
<1>2. CASE /\ Serve(c, l)
           /\ kept' = IF l = "update" THEN kept \cup {c} ELSE kept
           /\ UNCHANGED <<server, serving, log>>
  <2>1. CASE l # "update"
    BY <1>2, <2>1, ServeElsewhere DEF server, serving, Streaming
  <2>2. CASE l = "update"
    <3>1. log[c] = <<>> /\ at[c] = 0 /\ c \notin kept BY <2>2 DEF Own, Count
    <3>2. \A e \in Client : handler'[e] = IF e = c THEN "update" ELSE handler[e]
      BY <1>2, <2>2 DEF TypeOK, Serve
    <3>3. Entered' = Entered BY <1>2, <2>2, <3>1, <3>2 DEF serving, Entered
    <3>4. Told' = Told BY <1>2, <2>2, <3>1, <3>2 DEF TypeOK, Told, Streaming
    <3>5. Abstract!Open(c) BY <1>2, <2>2, <3>1, <3>3, <3>4 DEF server, Abstract!Open
    <3> QED BY <3>5 DEF Abstract!Next
  <2> QED BY <2>1, <2>2
<1> QED BY <1>1, <1>2 DEF Call

LEMMA ClientBook ==
  ASSUME Inv, Streams, NEW c \in Client,
         Choice(c) \/ CloseUpdates(c) \/ CloseProcess(c) \/ EndContext(c) \/ Reaction(c)
  PROVE  [Abstract!Next]_(Abstract!vars)
<1>1. Own(c) /\ TypeOK BY DEF Inv
<1>2. CASE StartClient(c) BY <1>1, <1>2, CallBook DEF StartClient, Own, Place
<1>3. CASE GotOrder(c) \/ SearchEOF(c) \/ UpdatesOk(c)
  BY <1>1, <1>3, CallBook DEF GotOrder, SearchEOF, UpdatesOk, Own, Place
<1>4. ASSUME NEW u \in Updates, SendUpdate(c, u) PROVE Abstract!Next
  <2>1. c \in kept \ Told BY <1>4 DEF SendUpdate, Streams, Told
  <2>2. UNCHANGED <<Entered, Told>> BY <1>4 DEF SendUpdate, serving, history, Entered, Told
  <2>3. Abstract!Send(c, u) BY <1>4, <2>1, <2>2 DEF SendUpdate, server, history, Abstract!Send
  <2> QED BY <2>3 DEF Abstract!Next
<1>5. CASE SearchSpins(c) \/ CloseUpdates(c) \/ SendOrder(c) \/ CloseProcess(c) \/ CallFails(c)
           \/ EndContext(c)
  <2>1. UNCHANGED <<orders, kept, log, at, handler>>
    BY <1>5 DEF SearchSpins, CloseUpdates, SendOrder, CloseProcess, CallFails, Die, EndContext, server,
                serving, client, history
  <2> QED BY <1>1, <2>1, Unseen DEF TypeOK
<1> QED BY <1>2, <1>3, <1>4, <1>5 DEF Choice, Reaction

\* The end of a write is where the next update of its client is entered.
LEMMA StoreBook == ASSUME Inv, Streams, NEW c \in Client, StoreUpdate(c) PROVE Abstract!Next
<1>1. CASE Crash BY <1>1, CrashBook DEF Abstract!Next
<1> DEFINE u == log[c][at[c]]
<1>2. CASE /\ orders' = [orders EXCEPT ![u.order] = u.body]
           /\ Serve(c, "update")
           /\ UNCHANGED <<serving, client, kept>>
  <2>1. handler[c] = "write" /\ c \in kept BY DEF StoreUpdate, Streams, Streaming
  <2>2. at[c] \in Nat /\ at[c] > 0 /\ at[c] <= Len(log[c]) /\ Len(log[c]) \in Nat
    BY <2>1 DEF Inv, Own, Count, TypeOK
  <2>3. \A e \in Client : handler'[e] = IF e = c THEN "update" ELSE handler[e]
    BY <1>2 DEF Inv, TypeOK, Serve
  <2>4. Entered[c] = at[c] - 1 BY <2>1 DEF Entered
  <2>5. Entered' = [Entered EXCEPT ![c] = @ + 1]
    <3>1. ASSUME NEW e \in Client PROVE Entered'[e] = IF e = c THEN Entered[c] + 1 ELSE Entered[e]
      <4>1. CASE e = c BY <1>2, <2>1, <2>2, <2>3, <2>4, <4>1 DEF serving, Entered
      <4>2. CASE e # c BY <1>2, <2>3, <4>2 DEF serving, Entered
      <4> QED BY <4>1, <4>2
    <3> QED BY <3>1 DEF Entered
  <2>6. Told' = Told BY <1>2, <2>1, <2>3 DEF Inv, TypeOK, Told, Streaming
  <2>7. u = log[c][Entered[c] + 1] /\ Entered[c] < Len(log[c]) BY <2>2, <2>4
  <2> HIDE DEF u
  <2>8. c \notin Told BY <2>1 DEF Told, Streaming
  <2>9. Abstract!Enter(c)
    BY <1>2, <2>1, <2>5, <2>6, <2>7, <2>8 DEF client, Abstract!Enter
  <2> QED BY <2>9 DEF Abstract!Next
<1> QED BY <1>1, <1>2 DEF StoreUpdate

LEMMA DoneBook == ASSUME Inv, Streams, NEW c \in Client, UpdatesDone(c) PROVE Abstract!Next
<1>1. /\ handler[c] = "update" /\ c \in kept /\ at[c] = Len(log[c])
      /\ UNCHANGED <<orders, kept, log, at>>
  BY DEF UpdatesDone, Streams, Streaming, server, serving, client, history
<1>2. \A e \in Client : handler'[e] = IF e = c THEN "none" ELSE handler[e]
  BY DEF UpdatesDone, Return, Serve, Inv, TypeOK
<1>3. Entered' = Entered /\ Entered[c] = Len(log[c]) BY <1>1, <1>2 DEF Entered
<1>4. Told' = Told \cup {c} /\ c \notin Told
  BY <1>1, <1>2 DEF Inv, TypeOK, Told, Streaming
<1>5. Abstract!Tell(c) BY <1>1, <1>3, <1>4 DEF Abstract!Tell
<1> QED BY <1>5 DEF Abstract!Next

LEMMA RecvBook ==
  ASSUME Inv, Streams, NEW c \in Client, RecvUpdate(c) PROVE [Abstract!Next]_(Abstract!vars)
<1>1. CASE Crash BY <1>1, CrashBook DEF Abstract!Next
<1>2. CASE /\ at' = [at EXCEPT ![c] = @ + 1]
           /\ Serve(c, "write")
           /\ UNCHANGED <<orders, client, history>>
  <2>1. handler[c] = "update" /\ at[c] \in Nat BY DEF RecvUpdate, Inv, TypeOK
  <2>2. \A e \in Client : handler'[e] = IF e = c THEN "write" ELSE handler[e]
    BY <1>2 DEF Inv, TypeOK, Serve
  <2>3. \A e \in Client : at'[e] = IF e = c THEN at[c] + 1 ELSE at[e] BY <1>2 DEF Inv, TypeOK
  <2>4. Entered' = Entered
    <3>1. ASSUME NEW e \in Client PROVE Entered'[e] = Entered[e]
      BY <1>2, <2>1, <2>2, <2>3 DEF history, Entered
    <3> QED BY <3>1 DEF Entered
  <2>5. Told' = Told BY <1>2, <2>1, <2>2 DEF history, Inv, TypeOK, Told, Streaming
  <2> QED BY <1>2, <2>4, <2>5 DEF client, history, Abstract!vars
<1> QED BY <1>1, <1>2 DEF RecvUpdate, Noticed

LEMMA HandlerBook ==
  ASSUME Inv, Streams, NEW c \in Client, Handler(c) PROVE [Abstract!Next]_(Abstract!vars)
<1>1. CASE Crash BY <1>1, CrashBook DEF Abstract!Next
<1>2. ASSUME NEW a, Return(c, a), handler[c] \notin Streaming,
             UNCHANGED <<server, serving, client, ended, history>>
      PROVE  UNCHANGED Abstract!vars
  BY <1>2, ServeElsewhere DEF Return, server, serving, client, history, Inv, Streaming
<1>3. ASSUME NEW o \in Order \cup {NoOrder}, GetOrder(c, o) PROVE [Abstract!Next]_(Abstract!vars)
  BY <1>1, <1>2, <1>3 DEF GetOrder, Noticed, Streaming
<1>4. ASSUME NEW o \in Order, Visit(c, o) PROVE [Abstract!Next]_(Abstract!vars)
  <2>1. CASE UNCHANGED <<server, handler, query, at, client, answer, ended, history>>
    BY <2>1, Unseen DEF server, client, history, Inv, TypeOK
  <2> QED BY <1>1, <1>2, <1>4, <2>1 DEF Visit, Noticed, Streaming
<1>5. ASSUME NEW q \in Query, SearchOrders(c, q) PROVE [Abstract!Next]_(Abstract!vars)
  <2>1. CASE Serve(c, "scan") /\ UNCHANGED <<server, at, client, answer, ended, kept>>
    BY <1>5, <2>1, ServeElsewhere DEF SearchOrders, server, client, Inv, Streaming
  <2> QED BY <1>1, <1>5, <2>1 DEF SearchOrders, Noticed
<1>6. CASE ScanDone(c) \/ ProcessEnds(c)
  BY <1>2, <1>6 DEF ScanDone, ProcessEnds, Streaming
<1>7. CASE UpdatesBroken(c) \/ ProcessOrder(c)
  BY <1>1, <1>7 DEF UpdatesBroken, ProcessOrder
<1> QED BY <1>3, <1>4, <1>5, <1>6, <1>7, RecvBook, StoreBook, DoneBook DEF Handler

LEMMA StreamsKept ==
  ASSUME Inv, Streams, [Next]_vars PROVE Streams'
<1>1. TypeOK BY DEF Inv
<1>2. CASE Crash BY <1>2 DEF Crash, client, Streams, Streaming, Calling
<1>3. ASSUME NEW c \in Client, Die(c) PROVE Streams'
  BY <1>1, <1>3 DEF Die, history, TypeOK, Streams
<1>4. ASSUME NEW c \in Client, NEW l \in {"get", "search", "update", "process"}, Call(c, l)
      PROVE  Streams'
  BY <1>1, <1>3, <1>4 DEF Call, Serve, Answer, TypeOK, Streams, Streaming
<1>5. ASSUME NEW c \in Client, NEW a \in {"ok", "error"}, Return(c, a),
             UNCHANGED <<server, serving, client, ended, history>>
      PROVE  Streams'
  BY <1>1, <1>5 DEF Return, Serve, Answer, client, history, TypeOK, Streams, Streaming
<1>6. ASSUME NEW c \in Client,
             Choice(c) \/ CloseUpdates(c) \/ CloseProcess(c) \/ EndContext(c) \/ Reaction(c)
      PROVE  Streams'
  <2>1. CASE StartClient(c) \/ GotOrder(c) \/ SearchEOF(c) \/ UpdatesOk(c)
    BY <1>4, <2>1 DEF StartClient, GotOrder, SearchEOF, UpdatesOk
  <2>2. CASE CallFails(c) BY <1>3, <2>2 DEF CallFails
  <2>3. CASE \/ SearchSpins(c) \/ CloseUpdates(c) \/ SendOrder(c) \/ CloseProcess(c) \/ EndContext(c)
             \/ \E u \in Updates : SendUpdate(c, u)
    BY <1>1, <2>3 DEF SearchSpins, CloseUpdates, SendOrder, CloseProcess, EndContext, SendUpdate,
                      client, history, TypeOK, Streams
  <2> QED BY <1>6, <2>1, <2>2, <2>3 DEF Choice, Reaction
<1>7. ASSUME NEW c \in Client, Handler(c) PROVE Streams'
  <2>1. ASSUME NEW o \in Order \cup {NoOrder}, GetOrder(c, o) PROVE Streams'
    BY <1>2, <1>5, <2>1 DEF GetOrder, Noticed
  <2>2. ASSUME NEW o \in Order, Visit(c, o) PROVE Streams'
    <3>1. CASE UNCHANGED <<server, handler, query, at, client, answer, ended, history>>
      BY <3>1 DEF client, history, Streams
    <3> QED BY <1>2, <1>5, <2>2, <3>1 DEF Visit, Noticed
  <2>3. ASSUME NEW q \in Query, SearchOrders(c, q) PROVE Streams'
    <3>1. CASE Serve(c, "scan") /\ UNCHANGED <<server, at, client, answer, ended, kept>>
      BY <1>1, <2>3, <3>1 DEF SearchOrders, Serve, client, TypeOK, Streams, Streaming
    <3> QED BY <1>2, <2>3, <3>1 DEF SearchOrders, Noticed
  <2>4. CASE RecvUpdate(c)
    <3>1. CASE Serve(c, "write") /\ UNCHANGED <<client, answer, history>>
      BY <1>1, <2>4, <3>1 DEF RecvUpdate, Serve, client, history, TypeOK, Streams, Streaming
    <3> QED BY <1>2, <2>4, <3>1 DEF RecvUpdate, Noticed
  <2>5. CASE StoreUpdate(c)
    <3>1. CASE Serve(c, "update") /\ UNCHANGED <<client, answer, kept>>
      BY <1>1, <2>5, <3>1 DEF StoreUpdate, Serve, client, TypeOK, Streams, Streaming
    <3> QED BY <1>2, <2>5, <3>1 DEF StoreUpdate
  <2>6. CASE ScanDone(c) \/ UpdatesDone(c) \/ ProcessEnds(c)
    BY <1>5, <2>6 DEF ScanDone, UpdatesDone, ProcessEnds
  <2>7. CASE UpdatesBroken(c) \/ ProcessOrder(c)
    BY <1>2, <2>7 DEF UpdatesBroken, ProcessOrder
  <2> QED BY <1>7, <2>1, <2>2, <2>3, <2>4, <2>5, <2>6, <2>7 DEF Handler
<1>8. CASE Restart \/ UNCHANGED vars
  BY <1>8 DEF Restart, vars, client, history, Streams
<1> QED BY <1>6, <1>7, <1>8 DEF Next

\* OrderBookSpec for any number of clients and updates: the handlers that write to one map
\* without a lock keep a book of orders (order-management-server.go:117-145).
THEOREM ImplementsOrderBook == Spec => OrderBookSpec
<1>1. Init => Abstract!Init /\ Streams
  BY DEF Init, Entered, Told, Streams, Streaming, Abstract!Init
<1>2. Inv /\ Streams /\ [Next]_vars => [Abstract!Next]_(Abstract!vars)
  <2> SUFFICES ASSUME Inv, Streams, [Next]_vars PROVE [Abstract!Next]_(Abstract!vars)
    OBVIOUS
  <2>1. CASE Restart \/ UNCHANGED vars
    BY <2>1, Unseen DEF Restart, vars, server, serving, client, history, Inv, TypeOK
  <2> QED BY <2>1, ClientBook, HandlerBook DEF Next
<1> QED BY <1>1, <1>2, Invariant, StreamsKept, PTL DEF Spec, OrderBookSpec, Abstract!Spec

================================================================================
