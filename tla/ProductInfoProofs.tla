--------------------------- MODULE ProductInfoProofs ---------------------------
(***************************************************************************)
(* What the races on the unlocked map can cost, for any number of clients: *)
(* a product that was added alone is kept, and no id leads to a product of *)
(* another time, until a race meets the growth of the map.                 *)
(*                                                                         *)
(* A product that has not been added at the same time as another leaves a  *)
(* map behind that nobody replaces any more (Settled); while it is being   *)
(* added nobody else adds, so that the map it has seen is the server's     *)
(* (Alone).  Writers that race have met as adders (Meetings), which bounds *)
(* whose product can come under whose id (Strangers).                      *)
(***************************************************************************)
EXTENDS ProductInfo, TLAPS

\* A call is over before the next one begins.
Calls == \A c \in Client : answer[c] # "none" \/ pc[c] = "off" => handler[c] = "none"

\* Handlers that add at the same time have met, and only those can race.
Meetings == /\ \A c, d \in Adding : c # d => c \in met[d]
            /\ \A c, d \in Client : c \in met[d] => d \in met[c]
            /\ \A c \in Client : raced[c] \subseteq met[c]

\* The map exists from the first look that found or made one.
Made == /\ DOMAIN maps = Client
        /\ \A c \in Client : handler[c] \in {"assign", "write"} => productMap # NoMap

\* Who has met nobody so far has the server's map before it.
Alone == \A c \in Client : met[c] = {} =>
           /\ handler[c] = "make" => productMap = NoMap
           /\ handler[c] \in {"assign", "write"} => at[c] = productMap

AddedAlone == {c \in added : met[c] = {}}

\* After the first product that was added alone, all handlers see one map.
Settled == AddedAlone # {} =>
             \A c \in Client : /\ handler[c] # "make"
                               /\ handler[c] \in {"assign", "write"} => at[c] = productMap

\* In every map, an id that leads to another product leads to one it has met.
Strangers == \A m \in Client : \A id \in DOMAIN maps[m] :
               maps[m][id] # id => maps[m][id] \in met[id]

\* What was added alone is in the server's map.
Held == productMap \notin torn =>
          \A c \in AddedAlone : /\ productMap # NoMap
                                /\ c \in DOMAIN maps[productMap]
                                /\ maps[productMap][c] = c

Inv == TypeOK /\ Calls /\ Meetings /\ Made /\ Alone /\ Settled /\ Strangers /\ Held

--------------------------------------------------------------------------------

LEMMA Initial == Init => Inv
<1> SUFFICES ASSUME Init PROVE Inv
  OBVIOUS
<1> DOMAIN Empty = {} BY DEF Empty
<1> Nobody \in [Client -> SUBSET Client] /\ \A c \in Client : Nobody[c] = {} BY DEF Nobody
<1>1. TypeOK
  <2>1. 0 \in 0 .. MaxStarts BY BoundAssumption
  <2>2. \A m \in Client : DOMAIN maps[m] = {} BY DEF Init
  <2>3. /\ writing \in [Client -> BOOLEAN] /\ \A m \in Client : ~writing[m]
        /\ \A c \in Client : handler[c] = "none"
    BY DEF Init
  <2>4. /\ handler \in [Client -> {"none", "check", "make", "assign", "write", "get"}]
        /\ at \in [Client -> Client \cup {NoMap}]
        /\ pc \in [Client -> {"off", "add", "get", "done", "fatal"}]
        /\ answer \in [Client -> {"none", "ok", "error"}]
        /\ raced \in [Client -> SUBSET Client] /\ met \in [Client -> SUBSET Client]
    BY DEF Init
  <2> QED BY <2>1, <2>2, <2>3, <2>4 DEF Init, TypeOK
<1>2. Calls /\ Meetings /\ Made /\ Alone /\ Settled /\ Strangers /\ Held
  <2>1. Adding = {} /\ AddedAlone = {} BY DEF Init, Adding, AddedAlone
  <2>2. \A m \in Client : DOMAIN maps[m] = {} BY DEF Init
  <2> QED BY <2>1, <2>2 DEF Init, Calls, Meetings, Made, Alone, Settled, Strangers, Held
<1> QED BY <1>1, <1>2 DEF Inv

\* Whatever ends the process ends all handlers and takes the map.
LEMMA CrashKeeps == ASSUME Inv, Crash PROVE Inv'
<1> DOMAIN Empty = {} BY DEF Empty
<1> Nobody \in [Client -> SUBSET Client] /\ \A c \in Client : Nobody[c] = {} BY DEF Nobody
<1>1. TypeOK'
  <2>1. \A m \in Client : DOMAIN maps'[m] = {} BY DEF Crash
  <2>2. /\ raced' \in [Client -> SUBSET Client] /\ met' \in [Client -> SUBSET Client]
        /\ answer' \in [Client -> {"none", "ok", "error"}]
    BY DEF Inv, Crash, TypeOK
  <2> QED BY <2>1, <2>2 DEF Inv, Crash, TypeOK
<1>2. Calls' /\ Meetings' /\ Made' /\ Alone' /\ Settled' /\ Strangers' /\ Held'
  <2>1. Adding' = {} /\ AddedAlone' = {} BY DEF Crash, Adding, AddedAlone
  <2>2. \A m \in Client : DOMAIN maps'[m] = {} BY DEF Crash
  <2> QED BY <2>1, <2>2 DEF Crash, Calls, Meetings, Made, Alone, Settled, Strangers, Held
<1> QED BY <1>1, <1>2 DEF Inv

LEMMA ListenKeeps == ASSUME Inv, Listen PROVE Inv'
<1> USE DEF Inv, Listen, store, history
<1>1. TypeOK' BY BoundAssumption DEF TypeOK
<1>2. Calls' /\ Meetings' /\ Made' /\ Alone' /\ Settled' /\ Strangers' /\ Held'
  BY DEF Calls, Meetings, Made, Alone, Settled, Strangers, Held, AddedAlone, Adding
<1> QED BY <1>1, <1>2

--------------------------------------------------------------------------------
(* The client *)

\* AddProduct begins: whoever is adding has met the newcomer.
LEMMA RunKeeps == ASSUME Inv, NEW c \in Client, Run(c) PROVE Inv'
<1> USE DEF Inv, Run, Invoke, server, store, history
<1>1. handler[c] = "none" /\ c \notin Adding BY DEF Calls, Adding
<1>2. TypeOK'
  <2>1. met' \in [Client -> SUBSET Client] BY DEF TypeOK, Adding, Meet
  <2>2. /\ handler' \in [Client -> {"none", "check", "make", "assign", "write", "get"}]
        /\ answer' \in [Client -> {"none", "ok", "error"}]
        /\ pc' \in [Client -> {"off", "add", "get", "done", "fatal"}]
    BY DEF TypeOK
  <2>3. /\ \A d \in Client : handler'[d] \in {"assign", "write"} => handler[d] = handler'[d]
        /\ \A d \in Client : handler[d] = "write" => handler'[d] = "write"
        /\ ~up => UNCHANGED handler
    BY <1>1 DEF TypeOK
  <2> QED BY <2>1, <2>2, <2>3 DEF TypeOK
<1>3. CASE UNCHANGED <<handler, met>>
  <2>1. Adding' = Adding BY <1>3 DEF Adding
  <2>2. Calls' BY <1>1, <1>3 DEF TypeOK, Calls
  <2> QED BY <1>2, <1>3, <2>1, <2>2 DEF Meetings, Made, Alone, Settled, Strangers, Held, AddedAlone
<1>4. CASE /\ up /\ handler' = [handler EXCEPT ![c] = "check"]
           /\ answer' = [answer EXCEPT ![c] = "none"]
           /\ met' = Meet(met, c, Adding)
  <2>1. Adding' = Adding \cup {c} BY <1>1, <1>4 DEF TypeOK, Adding
  <2>2. Calls' BY <1>4, <1>1 DEF TypeOK, Calls, Adding
  <2>3. Meetings' BY <1>1, <1>4, <2>1 DEF TypeOK, Meetings, Meet, Adding
  <2>4. \A d \in Client : met[d] \subseteq met'[d] BY <1>4 DEF TypeOK, Meet, Adding
  <2>5. Strangers' BY <2>4 DEF TypeOK, Strangers
  <2>6. Made' /\ Alone' /\ Settled' /\ Held'
    BY <1>4, <2>4 DEF TypeOK, Made, Alone, Settled, Held, AddedAlone
  <2> QED BY <1>2, <2>2, <2>3, <2>5, <2>6
<1> QED BY <1>3, <1>4

\* GetProduct begins, or the call fails.
LEMMA AddedKeeps == ASSUME Inv, NEW c \in Client, Added(c) PROVE Inv'
<1> USE DEF Inv, Added, Invoke, server, store, history
<1>1. handler[c] = "none" BY DEF Calls
<1>2. TypeOK' BY <1>1 DEF TypeOK
<1>3. Adding' = Adding /\ met' = met BY <1>1 DEF TypeOK, Adding
<1>4. \A d \in Client : handler'[d] \in {"make", "assign", "write"} => handler'[d] = handler[d]
  BY DEF TypeOK
<1>5. Calls' BY <1>1, <1>3 DEF TypeOK, Calls
<1> QED BY <1>2, <1>3, <1>4, <1>5 DEF Meetings, Made, Alone, Settled, Strangers, Held, AddedAlone

\* The client ends, or its context does.
LEMMA EndKeeps ==
  ASSUME Inv, NEW c \in Client, GotProduct(c) \/ CallFails(c) \/ Expire(c)
  PROVE  Inv'
<1> USE DEF Inv, GotProduct, CallFails, Expire, Finish, server, store, history
<1>1. TypeOK' BY DEF TypeOK
<1>2. Calls' BY DEF TypeOK, Calls
<1>3. Meetings' /\ Made' /\ Alone' /\ Settled' /\ Strangers' /\ Held'
  BY DEF Meetings, Made, Alone, Settled, Strangers, Held, AddedAlone, Adding
<1> QED BY <1>1, <1>2, <1>3

--------------------------------------------------------------------------------
(* AddProduct and GetProduct *)

\* The handler returns without a product, or with what it has got.
LEMMA ReturnKeeps ==
  ASSUME Inv, NEW c \in Client, NEW a \in {"ok", "error"}, handler[c] \in {"check", "get"},
         Return(c, a), UNCHANGED <<server, pc, ended, history>>
  PROVE  Inv'
<1> USE DEF Inv, Return, Goto, server, store, history
<1>1. TypeOK' BY DEF TypeOK
<1>2. Calls' BY DEF TypeOK, Calls
<1>3. Adding' \subseteq Adding BY DEF TypeOK, Adding
<1>4. Meetings' BY <1>3 DEF Meetings
<1>5. Made' /\ Alone' /\ Settled' /\ Strangers' /\ Held' BY DEF TypeOK, Made, Alone, Settled, Strangers, Held, AddedAlone
<1> QED BY <1>1, <1>2, <1>4, <1>5

\* Once a product has been added alone there is a map, and nobody makes another.
LEMMA CheckKeeps == ASSUME Inv, NEW c \in Client, CheckMap(c) PROVE Inv'
<1> USE DEF Inv, CheckMap, Goto, store, history
<1>1. TypeOK' BY DEF TypeOK
<1>2. Adding' = Adding BY DEF TypeOK, Adding
<1>3. Calls' /\ Meetings' BY <1>2 DEF TypeOK, Calls, Meetings
<1>4. Made' /\ Alone' BY DEF TypeOK, Made, Alone
<1>5. Settled' BY ClientAssumption DEF TypeOK, Settled, Held, AddedAlone
<1>6. Strangers' /\ Held' BY DEF Strangers, Held, AddedAlone
<1> QED BY <1>1, <1>3, <1>4, <1>5, <1>6

\* Another handler that has looked has met this one.
LEMMA MakeKeeps == ASSUME Inv, NEW c \in Client, MakeMap(c) PROVE Inv'
<1> USE DEF Inv, MakeMap, Goto, history
<1>1. TypeOK' BY ClientAssumption DEF TypeOK
<1>2. Adding' = Adding /\ c \in Adding BY DEF TypeOK, Adding
<1>3. Calls' /\ Meetings' BY <1>2 DEF TypeOK, Calls, Meetings
<1>4. Made' BY ClientAssumption DEF TypeOK, Made
<1>5. AddedAlone = {} BY DEF Settled
<1>6. Alone'
  <2> SUFFICES ASSUME NEW d \in Client, met[d] = {}, d # c, d \in Adding PROVE FALSE
    BY DEF TypeOK, Alone, Adding
  <2> QED BY <1>2 DEF Meetings
<1> QED BY <1>1, <1>3, <1>4, <1>5, <1>6 DEF Settled, Strangers, Held, AddedAlone

\* The write begins, in one of the two maps that the handler may know.
LEMMA WriteKeeps ==
  ASSUME Inv, NEW c \in Client, BeginWrite(c), ~Crash PROVE Inv'
<1> USE DEF Inv, Goto, history
<1>1. PICK m \in {at[c], productMap} :
        /\ IF writing[m] THEN \E f \in BOOLEAN : writing' = [writing EXCEPT ![m] = f]
           ELSE writing' = [writing EXCEPT ![m] = TRUE]
        /\ at' = [at EXCEPT ![c] = m]
        /\ raced' = Meet(raced, c, Writers(m))
        /\ handler' = [handler EXCEPT ![c] = "write"]
        /\ UNCHANGED <<up, starts, productMap, maps, torn, pc, answer, ended, history>>
  BY DEF BeginWrite, Noticed
<1>2. handler[c] = "assign" /\ m \in Client BY <1>1 DEF BeginWrite, TypeOK, Made
<1>3. \E f \in BOOLEAN : writing' = [writing EXCEPT ![m] = f] BY <1>1
<1>4. raced' \in [Client -> SUBSET Client] BY <1>1 DEF TypeOK, Meet, Writers
<1>5. TypeOK'
  <2>1. writing' \in [Client -> BOOLEAN] BY <1>3 DEF TypeOK
  <2>2. \A n \in Client : writing'[n] => \E d \in Client : handler'[d] = "write" /\ at'[d] = n
    BY <1>1, <1>2, <1>3 DEF TypeOK
  <2> QED BY <1>1, <1>2, <1>4, <2>1, <2>2, ClientAssumption DEF TypeOK
<1>6. Adding' = Adding /\ c \in Adding BY <1>1, <1>2 DEF TypeOK, Adding
<1>7. Calls' BY <1>1, <1>2 DEF TypeOK, Calls
<1>8. Meetings'
  <2>1. Writers(m) \subseteq Adding \ {c} BY <1>2 DEF Writers, Adding
  <2>2. \A d \in Client : raced'[d] \subseteq met[d]
    BY <1>1, <1>6, <2>1 DEF TypeOK, Meetings, Meet
  <2> QED BY <1>1, <1>6, <2>2 DEF Meetings
<1>9. Made' /\ Alone' /\ Settled' BY <1>1, <1>2 DEF TypeOK, Made, Alone, Settled, AddedAlone
<1>10. Strangers' /\ Held' BY <1>1 DEF Strangers, Held, AddedAlone
<1> QED BY <1>5, <1>7, <1>8, <1>9, <1>10

\* The map that a writer leaves has the products of those that it has not met, and
\* its own under its id or under that of one that it has met.
LEMMA WrittenKeeps ==
  ASSUME Inv, NEW c \in Client, NEW m \in Client, NEW products \in Written(c, m)
  PROVE  /\ DOMAIN products \subseteq Client
         /\ \A id \in DOMAIN products : /\ products[id] \in Client
                                        /\ products[id] # id => products[id] \in met[id]
         /\ \A d \in Client : met[d] = {} /\ d \in DOMAIN maps[m] /\ maps[m][d] = d =>
                                d \in DOMAIN products /\ products[d] = d
         /\ met[c] = {} => c \in DOMAIN products /\ products[c] = c
<1> DEFINE Left(lost, key) == [id \in (DOMAIN maps[m] \ lost) \cup {key} |->
                                 IF id = key THEN c ELSE maps[m][id]]
<1>1. products \in UNION {{Left(lost, key) : lost \in SUBSET raced[c]} : key \in raced[c] \cup {c}}
  BY DEF Written
<1>2. PICK key \in raced[c] \cup {c} : products \in {Left(lost, key) : lost \in SUBSET raced[c]}
  <2> HIDE DEF Left
  <2> QED BY <1>1
<1>3. PICK lost \in SUBSET raced[c] : products = Left(lost, key) BY <1>2
<1>4. /\ raced[c] \subseteq met[c] /\ raced[c] \subseteq Client
      /\ \A d \in raced[c] : c \in met[d]
  BY DEF Inv, TypeOK, Meetings
<1>5. /\ DOMAIN maps[m] \subseteq Client
      /\ \A id \in DOMAIN maps[m] : /\ maps[m][id] \in Client
                                    /\ maps[m][id] # id => maps[m][id] \in met[id]
  BY DEF Inv, TypeOK, Strangers
<1>6. /\ DOMAIN products = (DOMAIN maps[m] \ lost) \cup {key}
      /\ \A id \in DOMAIN products : products[id] = IF id = key THEN c ELSE maps[m][id]
  BY <1>3
<1>7. key # c => c \in met[key] /\ key \in met[c] BY <1>4
<1>8. lost \subseteq met[c] /\ \A d \in lost : met[d] # {} BY <1>4
<1> QED BY <1>4, <1>5, <1>6, <1>7, <1>8

\* The write ends; who has met nobody leaves the only map there will be, unless that
\* map is torn.
LEMMA EndWriteKeeps ==
  ASSUME Inv, NEW c \in Client, EndWrite(c), ~Crash PROVE Inv'
<1> USE DEF Inv
<1>1. PICK products \in Written(c, at[c]) \cup {Empty} :
        /\ maps' = [maps EXCEPT ![at[c]] = products]
        /\ \/ products \in Written(c, at[c]) /\ at[c] \notin torn /\ torn' = torn
           \/ /\ products = Empty /\ torn' = torn \cup {at[c]}
              /\ at[c] \in torn \/ raced[c] # {}
  BY DEF EndWrite
<1>2. /\ handler[c] = "write" /\ at[c] \in Client
      /\ writing' = [writing EXCEPT ![at[c]] = FALSE]
      /\ raced' = [raced EXCEPT ![c] = {}]
      /\ added' = added \cup {c} /\ UNCHANGED <<up, starts, productMap, pc, ended, met>>
      /\ at' = [at EXCEPT ![c] = NoMap]
      /\ handler' = [handler EXCEPT ![c] = "none"]
      /\ answer' = [answer EXCEPT ![c] = IF pc[c] \in {"add", "get"} THEN "ok" ELSE @]
  BY DEF EndWrite, Return, Goto, TypeOK
<1>3. /\ DOMAIN products \subseteq Client
      /\ \A id \in DOMAIN products : /\ products[id] \in Client
                                     /\ products[id] # id => products[id] \in met[id]
  <2>1. DOMAIN Empty = {} BY DEF Empty
  <2> QED BY <1>1, <1>2, <2>1, WrittenKeeps
<1>4. products \in Written(c, at[c]) =>
        /\ \A d \in Client : met[d] = {} /\ d \in DOMAIN maps[at[c]] /\ maps[at[c]][d] = d =>
                               d \in DOMAIN products /\ products[d] = d
        /\ met[c] = {} => c \in DOMAIN products /\ products[c] = c
  BY <1>2, WrittenKeeps
<1>5. TypeOK'
  <2>1. \A m \in Client : /\ DOMAIN maps'[m] \subseteq Client
                          /\ \A id \in DOMAIN maps'[m] : maps'[m][id] \in Client
    BY <1>1, <1>2, <1>3 DEF TypeOK, Made
  <2>2. \A m \in Client : writing'[m] => \E d \in Client : handler'[d] = "write" /\ at'[d] = m
    BY <1>2 DEF TypeOK
  <2>3. torn' \subseteq Client BY <1>1, <1>2 DEF TypeOK
  <2> QED BY <1>2, <2>1, <2>2, <2>3 DEF TypeOK
<1>6. Calls' BY <1>2 DEF TypeOK, Calls
<1>7. Adding' \subseteq Adding /\ c \in Adding BY <1>2 DEF TypeOK, Adding
<1>8. Meetings' BY <1>2, <1>7 DEF TypeOK, Meetings
<1>9. Made' /\ Alone' BY <1>1, <1>2 DEF TypeOK, Made, Alone
<1>10. Strangers' BY <1>1, <1>2, <1>3 DEF TypeOK, Made, Strangers
<1>11. Settled' /\ Held'
  <2>1. CASE met[c] # {}
    <3>1. AddedAlone' = AddedAlone BY <1>2, <2>1 DEF AddedAlone
    <3>2. Settled' BY <1>2, <3>1 DEF TypeOK, Settled
    <3>3. Held'
      <4> SUFFICES ASSUME productMap \notin torn', NEW d \in AddedAlone
                   PROVE  /\ productMap # NoMap
                          /\ d \in DOMAIN maps'[productMap] /\ maps'[productMap][d] = d
        BY <1>2, <3>1 DEF Held
      <4>1. at[c] = productMap /\ productMap \in Client BY <1>2 DEF Settled
      <4>2. productMap \notin torn /\ products \in Written(c, at[c]) BY <1>1, <4>1
      <4>3. /\ d \in DOMAIN maps[productMap] /\ maps[productMap][d] = d
            /\ d \in Client /\ met[d] = {}
        BY <4>2 DEF Held, AddedAlone, TypeOK
      <4> QED BY <1>1, <1>4, <4>1, <4>2, <4>3, ClientAssumption DEF Made
    <3> QED BY <3>2, <3>3
  <2>2. CASE met[c] = {}
    <3>1. Adding = {c} BY <1>7, <2>2 DEF Meetings
    <3>2. at[c] = productMap /\ productMap # NoMap BY <1>2, <2>2 DEF Alone, Made
    <3>3. Settled' BY <1>2, <3>1 DEF TypeOK, Settled, Adding
    <3>4. Held'
      <4> SUFFICES ASSUME productMap \notin torn', NEW d \in AddedAlone \cup {c}
                   PROVE  d \in DOMAIN maps'[productMap] /\ maps'[productMap][d] = d
        BY <1>2, <3>2 DEF Held, AddedAlone
      <4>1. productMap \notin torn /\ products \in Written(c, at[c]) BY <1>1, <3>2
      <4>2. d # c => /\ d \in DOMAIN maps[productMap] /\ maps[productMap][d] = d
                     /\ d \in Client /\ met[d] = {}
        BY <4>1 DEF Held, AddedAlone, TypeOK
      <4> QED BY <1>1, <1>2, <1>4, <2>2, <3>2, <4>1, <4>2 DEF Made
    <3> QED BY <3>3, <3>4
  <2> QED BY <2>1, <2>2
<1> QED BY <1>5, <1>6, <1>8, <1>9, <1>10, <1>11

--------------------------------------------------------------------------------

LEMMA Invariant == Spec => []Inv
<1>1. Inv /\ [Next]_vars => Inv'
  <2> SUFFICES ASSUME Inv, [Next]_vars PROVE Inv'
    OBVIOUS
  <2>1. CASE Crash BY <2>1, CrashKeeps
  <2>2. CASE UNCHANGED vars
    BY <2>2 DEF vars, server, store, history, Inv, TypeOK, Calls, Meetings, Made, Alone,
                Settled, Strangers, Held, AddedAlone, Adding
  <2>3. ASSUME NEW c \in Client, Run(c) \/ Program(c) \/ Expire(c) \/ Handler(c) PROVE Inv'
    <3>1. CASE Run(c) BY <3>1, RunKeeps
    <3>2. CASE Program(c) \/ Expire(c) BY <3>2, AddedKeeps, EndKeeps DEF Program
    <3>3. CASE NoUUID(c) BY <3>3, ReturnKeeps DEF NoUUID
    <3>4. CASE GetProduct(c)
      <4>1. Crash \/ \E a \in {"ok", "error"} : Return(c, a) /\ UNCHANGED <<server, pc, ended, history>>
        BY <3>4 DEF GetProduct, Noticed
      <4> QED BY <2>1, <3>4, <4>1, ReturnKeeps DEF GetProduct
    <3>5. CASE CheckMap(c) BY <3>5, CheckKeeps
    <3>6. CASE MakeMap(c) BY <3>6, MakeKeeps
    <3>7. CASE BeginWrite(c) \/ EndWrite(c) BY <2>1, <3>7, WriteKeeps, EndWriteKeeps
    <3> QED BY <2>3, <3>1, <3>2, <3>3, <3>4, <3>5, <3>6, <3>7 DEF Handler
  <2> QED BY <2>1, <2>2, <2>3, ListenKeeps DEF Next
<1> QED BY <1>1, Initial, PTL DEF Spec

\* Type correctness of the maps with their flags, the handlers and the clients.
THEOREM TypeCorrect == Spec => []TypeOK
<1>1. Inv => TypeOK BY DEF Inv
<1> QED BY <1>1, Invariant, PTL

\* Kept, for any number of clients and products: until a race meets the growth of the
\* map, what was added alone stays, and no id leads to a product that was not being
\* added at the same time (productInfo-server.go:60-69).
THEOREM RacesAreLocal == Spec => []Kept
<1>1. Inv => Kept BY DEF Inv, TypeOK, Held, AddedAlone, Strangers, Kept
<1> QED BY <1>1, Invariant, PTL

================================================================================
