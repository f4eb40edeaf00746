--------------------------- MODULE LaptopStoreProofs ---------------------------
(***************************************************************************)
(* Proofs about LaptopStore for any number of calls, ids, laptops and      *)
(* filters: types, the lock discipline, the exactness of searches, and     *)
(* that the store implements the lock-free Catalog.                        *)
(***************************************************************************)
EXTENDS LaptopStore, TLAPS

\* The state constants of a handler: what its locals hold at each pc.
Locals == \A p \in Proc :
            /\ pc[p] \notin Scanning => todo[p] = {} /\ cur[p] = NoId /\ sent[p] = {}
            /\ pc[p] \in {"check", "lock", "save"} => id[p] \in Id /\ body[p] \in Body
            /\ pc[p] \in {"search"} \cup Scanning => filter[p] \in Filter
            /\ pc[p] = "scan" => cur[p] = NoId
            /\ pc[p] = "send" => cur[p] \in Id

\* The names of the program counters, which nearly every step below needs.
Steps == {"check", "lock", "save", "find", "search"}

USE DEF Over, Code, Ended, Alive, Scanning


--------------------------------------------------------------------------------

\* The initial state is well typed.
LEMMA InitType == Init => TypeOK
BY DEF Init, TypeOK, RWMutexType, Unlocked

\* Answering keeps the types of what it changes.
LEMMA AnswerType ==
  ASSUME TypeOK, NEW p \in Proc, NEW code \in Code, Answer(p, code)
  PROVE  /\ pc' \in [Proc -> Over \cup Scanning \cup Steps]
         /\ id' \in [Proc -> Id \cup {NoId}]
         /\ body' \in [Proc -> Body \cup {NoBody}]
         /\ filter' \in [Proc -> Filter \cup {{}}]
         /\ todo' \in [Proc -> SUBSET Id]
         /\ cur' \in [Proc -> Id \cup {NoId}]
         /\ sent' \in [Proc -> SUBSET Id]
         /\ client' \in [Proc -> Alive \cup Ended]
BY DEF TypeOK, Answer, Goto, Steps

\* The operations on the mutex stay within its type.
LEMMA MutexType ==
  ASSUME NEW m \in RWMutexType, NEW p \in Proc
  PROVE  /\ Announce(m, p) \in RWMutexType
         /\ Unlock(m) \in RWMutexType
         /\ RLock(m, p) \in RWMutexType
         /\ RUnlock(m, p) \in RWMutexType
BY DEF RWMutexType, Announce, Unlock, RLock, RUnlock

\* Every step of every call keeps the types.
LEMMA NextType == TypeOK /\ Locals /\ [Next]_vars => TypeOK'
<1> SUFFICES ASSUME TypeOK, Locals, [Next]_vars PROVE TypeOK'
  OBVIOUS
<1>1. CASE UNCHANGED vars
  BY <1>1 DEF TypeOK, vars
<1>2. ASSUME NEW p \in Proc, NEW i \in Id \cup {NoId, BadId}, NEW b \in Body,
             CreateLaptop(p, i, b)
      PROVE  TypeOK'
  <2>1. ASSUME NEW j \in Id, Request(p, j, b) PROVE TypeOK'
    BY <2>1 DEF TypeOK, Request, Goto, scan
  <2>2. ASSUME NEW code \in Code, Answer(p, code), UNCHANGED <<data, mutex>> PROVE TypeOK'
    BY <2>2, AnswerType DEF TypeOK, Steps
  <2> QED
    BY <1>2, <2>1, <2>2 DEF CreateLaptop, Fresh
<1>3. ASSUME NEW p \in Proc, NEW i \in Id \cup {NoId}, GetLaptopByID(p, i) PROVE TypeOK'
  BY <1>3, MutexType DEF TypeOK, GetLaptopByID, Goto, scan
<1>4. ASSUME NEW p \in Proc, NEW f \in Filter, SearchLaptop(p, f) PROVE TypeOK'
  BY <1>4, MutexType DEF TypeOK, SearchLaptop, Goto, scan
<1>5. ASSUME NEW p \in Proc, CheckContext(p) PROVE TypeOK'
  <2>1. CASE client[p] \in Ended /\ Answer(p, client[p]) /\ UNCHANGED <<data, mutex>>
    BY <2>1, AnswerType DEF TypeOK, Steps
  <2>2. CASE Goto(p, "lock") /\ UNCHANGED <<data, mutex, call, scan, client>>
    BY <2>2 DEF TypeOK, Goto, call, scan
  <2> QED
    BY <1>5, <2>1, <2>2 DEF CheckContext
<1>6. ASSUME NEW p \in Proc, AskLock(p) PROVE TypeOK'
  BY <1>6, MutexType DEF TypeOK, AskLock, Goto, call, scan
<1>7. ASSUME NEW p \in Proc, Save(p) PROVE TypeOK'
  <2>1. data' \in [Id -> Body \cup {NoBody}]
    BY <1>7 DEF TypeOK, Save
  <2> QED
    BY <1>7, <2>1, AnswerType, MutexType DEF TypeOK, Save, Steps
<1>8. ASSUME NEW p \in Proc, Find(p) PROVE TypeOK'
  BY <1>8, AnswerType, MutexType DEF TypeOK, Find, Steps
<1>9. ASSUME NEW p \in Proc, EnterScan(p) PROVE TypeOK'
  BY <1>9 DEF TypeOK, EnterScan, Goto, Stored, call
<1>10. ASSUME NEW p \in Proc, NEW code \in Code, LeaveScan(p, code) PROVE TypeOK'
  BY <1>10, AnswerType, MutexType DEF TypeOK, LeaveScan, Steps
<1>11. ASSUME NEW p \in Proc, ScanNext(p) PROVE TypeOK'
  <2>1. ASSUME NEW i \in todo[p], Visit(p, i) PROVE TypeOK'
    BY <2>1 DEF TypeOK, Visit, Goto, call
  <2> QED
    BY <1>11, <1>10, <2>1 DEF ScanNext
<1>12. ASSUME NEW p \in Proc, ScanDone(p) PROVE TypeOK'
  BY <1>12, <1>10 DEF ScanDone
<1>13. ASSUME NEW p \in Proc, SendOk(p) PROVE TypeOK'
  BY <1>13 DEF TypeOK, Locals, SendOk, Goto, call
<1>14. ASSUME NEW p \in Proc, SendFail(p) PROVE TypeOK'
  BY <1>14, <1>10 DEF SendFail
<1>15. ASSUME NEW p \in Proc, Environment(p) PROVE TypeOK'
  BY <1>15 DEF TypeOK, Environment, Stall, Resume, Cancel, Expire, Client, call, scan
<1>16. ASSUME NEW p \in Proc, Call(p) PROVE TypeOK'
  BY <1>16, <1>2, <1>3, <1>4 DEF Call
<1>17. ASSUME NEW p \in Proc, Handler(p) PROVE TypeOK'
  BY <1>17, <1>5, <1>6, <1>7, <1>8, <1>9, <1>11, <1>12, <1>13, <1>14 DEF Handler, Send
<1> QED
  BY <1>1, <1>15, <1>16, <1>17 DEF Next

--------------------------------------------------------------------------------

LEMMA InitLocals == Init => Locals
BY DEF Init, Locals

\* A step of p leaves the locals of the other calls alone and sets up its own.
LEMMA NextLocals == TypeOK /\ Locals /\ [Next]_vars => Locals'
<1> SUFFICES ASSUME TypeOK, Locals, [Next]_vars PROVE Locals'
  OBVIOUS
<1> USE DEF TypeOK, Locals, Goto, call, scan
<1>1. CASE UNCHANGED vars
  BY <1>1 DEF vars
<1>2. ASSUME NEW p \in Proc, NEW code \in Code, Answer(p, code) PROVE Locals'
  BY <1>2 DEF Answer
<1>3. ASSUME NEW p \in Proc, NEW i \in Id \cup {NoId, BadId}, NEW b \in Body,
             CreateLaptop(p, i, b)
      PROVE  Locals'
  <2>1. ASSUME NEW j \in Id, Request(p, j, b), pc[p] \in Over PROVE Locals'
    BY <2>1 DEF Request
  <2> QED
    BY <1>2, <1>3, <2>1 DEF CreateLaptop, Fresh
<1>4. ASSUME NEW p \in Proc, NEW i \in Id \cup {NoId}, GetLaptopByID(p, i) PROVE Locals'
  BY <1>4 DEF GetLaptopByID
<1>5. ASSUME NEW p \in Proc, NEW f \in Filter, SearchLaptop(p, f) PROVE Locals'
  BY <1>5 DEF SearchLaptop
<1>6. ASSUME NEW p \in Proc, CheckContext(p) PROVE Locals'
  BY <1>6, <1>2 DEF CheckContext
<1>7. ASSUME NEW p \in Proc, AskLock(p) PROVE Locals'
  BY <1>7 DEF AskLock
<1>8. ASSUME NEW p \in Proc, Save(p) \/ Find(p) \/ ScanDone(p) \/ SendFail(p) PROVE Locals'
  BY <1>8, <1>2 DEF Save, Find, ScanDone, SendFail, LeaveScan
<1>9. ASSUME NEW p \in Proc, EnterScan(p) PROVE Locals'
  BY <1>9 DEF EnterScan
<1>10. ASSUME NEW p \in Proc, ScanNext(p) PROVE Locals'
  <2>1. ASSUME NEW i \in todo[p], Visit(p, i), pc[p] = "scan" PROVE Locals'
    BY <2>1 DEF Visit
  <2> QED
    BY <1>10, <1>2, <2>1 DEF ScanNext, LeaveScan
<1>11. ASSUME NEW p \in Proc, SendOk(p) PROVE Locals'
  BY <1>11 DEF SendOk
<1>12. ASSUME NEW p \in Proc, Environment(p) PROVE Locals'
  BY <1>12 DEF Environment, Stall, Resume, Cancel, Expire, Client
<1>13. ASSUME NEW p \in Proc, Call(p) PROVE Locals'
  BY <1>13, <1>3, <1>4, <1>5 DEF Call
<1>14. ASSUME NEW p \in Proc, Handler(p) PROVE Locals'
  BY <1>14, <1>6, <1>7, <1>8, <1>9, <1>10, <1>11 DEF Handler, Send
<1> QED
  BY <1>1, <1>12, <1>13, <1>14 DEF Next

LEMMA TypeAndLocals == Spec => [](TypeOK /\ Locals)
BY InitType, NextType, InitLocals, NextLocals, PTL DEF Spec

\* Every variable of the store and of its handlers keeps its type, whatever
\* calls are made.
THEOREM TypeCorrect == Spec => []TypeOK
BY TypeAndLocals, PTL

--------------------------------------------------------------------------------
(* The lock discipline. *)

LEMMA InitMutex == Init => MutexInv
BY ProcAssumption DEF Init, MutexInv, Unlocked

\* A writer enters only when there is no other, and when it leaves, the readers
\* it kept out become readers; a reader that leaves is in no read operation.
LEMMA NextMutex == TypeOK /\ MutexInv /\ [Next]_vars => MutexInv'
<1> SUFFICES ASSUME TypeOK, MutexInv, [Next]_vars PROVE MutexInv'
  OBVIOUS
<1> USE ProcAssumption DEF TypeOK, RWMutexType, MutexInv, Goto, call, scan
<1>1. CASE UNCHANGED vars
  BY <1>1 DEF vars
<1>2. ASSUME NEW p \in Proc, NEW code \in Code, Answer(p, code), mutex' = mutex,
             pc[p] \in Over \cup {"check"}
      PROVE  MutexInv'
  BY <1>2 DEF Answer
<1>3. ASSUME NEW p \in Proc, NEW i \in Id \cup {NoId, BadId}, NEW b \in Body,
             CreateLaptop(p, i, b)
      PROVE  MutexInv'
  <2>1. ASSUME NEW j \in Id, Request(p, j, b), pc[p] \in Over PROVE MutexInv'
    BY <2>1 DEF Request
  <2> QED
    BY <1>2, <1>3, <2>1 DEF CreateLaptop, Fresh
<1>4. ASSUME NEW p \in Proc, NEW l \in {"find", "search"}, pc[p] \in Over,
             mutex' = RLock(mutex, p), Goto(p, l)
      PROVE  MutexInv'
  <2>1. CASE mutex.writer = NoProc
    BY <1>4, <2>1 DEF RLock
  <2>2. CASE mutex.writer # NoProc
    BY <1>4, <2>2 DEF RLock
  <2> QED
    BY <2>1, <2>2
<1>5. ASSUME NEW p \in Proc, CheckContext(p) PROVE MutexInv'
  BY <1>5, <1>2 DEF CheckContext
<1>6. ASSUME NEW p \in Proc, AskLock(p) PROVE MutexInv'
  BY <1>6 DEF AskLock, Announce
<1>7. ASSUME NEW p \in Proc, Save(p) PROVE MutexInv'
  BY <1>7 DEF Save, Unlock, HoldsWrite, Answer
<1>8. ASSUME NEW p \in Proc, NEW code \in Code, Answer(p, code), mutex' = RUnlock(mutex, p),
             p \in mutex.readers
      PROVE  MutexInv'
  BY <1>8 DEF Answer, RUnlock
<1>9. ASSUME NEW p \in Proc, EnterScan(p) PROVE MutexInv'
  BY <1>9 DEF EnterScan
<1>10. ASSUME NEW p \in Proc, ScanNext(p) PROVE MutexInv'
  <2>1. ASSUME NEW i \in todo[p], Visit(p, i), pc[p] = "scan" PROVE MutexInv'
    BY <2>1 DEF Visit
  <2> QED
    BY <1>10, <1>8, <2>1 DEF ScanNext, LeaveScan
<1>11. ASSUME NEW p \in Proc, Find(p) \/ ScanDone(p) \/ SendFail(p) PROVE MutexInv'
  BY <1>11, <1>8 DEF Find, ScanDone, SendFail, LeaveScan
<1>12. ASSUME NEW p \in Proc, SendOk(p) PROVE MutexInv'
  BY <1>12 DEF SendOk
<1>13. ASSUME NEW p \in Proc, Environment(p) PROVE MutexInv'
  BY <1>13 DEF Environment, Stall, Resume, Cancel, Expire, Client
<1>14. ASSUME NEW p \in Proc, Call(p) PROVE MutexInv'
  BY <1>14, <1>3, <1>4 DEF Call, GetLaptopByID, SearchLaptop
<1>15. ASSUME NEW p \in Proc, Handler(p) PROVE MutexInv'
  BY <1>15, <1>5, <1>6, <1>7, <1>9, <1>10, <1>11, <1>12 DEF Handler, Send
<1> QED
  BY <1>1, <1>13, <1>14, <1>15 DEF Next

\* The lock is held by the operations that need it for as long as they need it,
\* and no reader is ever left waiting with no writer to let him in.
THEOREM LockDiscipline == Spec => []MutexInv
BY TypeAndLocals, InitMutex, NextMutex, PTL DEF Spec

--------------------------------------------------------------------------------
(* Searches.  What protects a search is that no Save happens during it. *)

\* While Save holds the lock no search is under way.
LEMMA SaveExcludesSearch ==
  ASSUME TypeOK, MutexInv, NEW p \in Proc, Save(p), NEW q \in Proc
  PROVE  pc[q] \notin Scanning
BY DEF TypeOK, RWMutexType, MutexInv, Save, HoldsWrite

\* A filter accepts no absent laptop.
LEMMA MatchesStored ==
  ASSUME TypeOK, Locals, NEW p \in Proc, pc[p] \in {"search"} \cup Scanning
  PROVE  Matches(filter[p]) \subseteq Stored
BY BodyAssumption, FilterAssumption DEF TypeOK, Locals, Matches, Stored

LEMMA InitSearch == Init => SearchExact
BY DEF Init, SearchExact

LEMMA NextSearch == TypeOK /\ Locals /\ MutexInv /\ SearchExact /\ [Next]_vars => SearchExact'
<1> SUFFICES ASSUME TypeOK, Locals, MutexInv, SearchExact, [Next]_vars PROVE SearchExact'
  OBVIOUS
<1> USE DEF TypeOK, SearchExact, Matches, Stored, Goto, call, scan
<1>1. CASE UNCHANGED vars
  BY <1>1 DEF vars
<1>2. ASSUME NEW p \in Proc, NEW code \in Code, Answer(p, code), data' = data
      PROVE  SearchExact'
  BY <1>2 DEF Answer
<1>3. ASSUME NEW p \in Proc, NEW i \in Id \cup {NoId, BadId}, NEW b \in Body,
             CreateLaptop(p, i, b)
      PROVE  SearchExact'
  <2>1. ASSUME NEW j \in Id, Request(p, j, b), pc[p] \in Over PROVE SearchExact'
    BY <2>1 DEF Request
  <2> QED
    BY <1>2, <1>3, <2>1 DEF CreateLaptop, Fresh
<1>4. ASSUME NEW p \in Proc, NEW i \in Id \cup {NoId}, GetLaptopByID(p, i) PROVE SearchExact'
  BY <1>4 DEF GetLaptopByID
<1>5. ASSUME NEW p \in Proc, NEW f \in Filter, SearchLaptop(p, f) PROVE SearchExact'
  BY <1>5 DEF SearchLaptop
<1>6. ASSUME NEW p \in Proc, CheckContext(p) \/ AskLock(p) PROVE SearchExact'
  BY <1>6, <1>2 DEF CheckContext, AskLock
<1>7. ASSUME NEW p \in Proc, Save(p) PROVE SearchExact'
  BY <1>7, SaveExcludesSearch DEF Save, Answer
<1>8. ASSUME NEW p \in Proc, Find(p) \/ ScanDone(p) \/ SendFail(p) PROVE SearchExact'
  BY <1>8, <1>2 DEF Find, ScanDone, SendFail, LeaveScan
<1>9. ASSUME NEW p \in Proc, EnterScan(p) PROVE SearchExact'
  BY <1>9, MatchesStored DEF EnterScan, Locals
<1>10. ASSUME NEW p \in Proc, ScanNext(p) PROVE SearchExact'
  <2>1. ASSUME NEW i \in todo[p], Visit(p, i), pc[p] = "scan"
        PROVE  SearchExact'
    BY <2>1, MatchesStored, IdAssumption DEF Visit, Locals
  <2> QED
    BY <1>10, <1>2, <2>1 DEF ScanNext, LeaveScan
<1>11. ASSUME NEW p \in Proc, SendOk(p) PROVE SearchExact'
  BY <1>11, IdAssumption DEF SendOk
<1>12. ASSUME NEW p \in Proc, Environment(p) PROVE SearchExact'
  BY <1>12 DEF Environment, Stall, Resume, Cancel, Expire, Client
<1>13. ASSUME NEW p \in Proc, Call(p) PROVE SearchExact'
  BY <1>13, <1>3, <1>4, <1>5 DEF Call
<1>14. ASSUME NEW p \in Proc, Handler(p) PROVE SearchExact'
  BY <1>14, <1>6, <1>7, <1>8, <1>9, <1>10, <1>11 DEF Handler, Send
<1> QED
  BY <1>1, <1>12, <1>13, <1>14 DEF Next

\* A search never sends a laptop twice, skips one, or sends one that has been
\* replaced since, however the saves and the other searches interleave with it.
THEOREM SearchesExact == Spec => []SearchExact
BY TypeAndLocals, LockDiscipline, InitSearch, NextSearch, PTL DEF Spec

--------------------------------------------------------------------------------
(* The store implements the catalog: a call takes effect in Save or Find, or when a *)
(* search enters its scan (Open); SendOk is the catalog's Emit.                     *)

USE DEF Abstract!Busy, Abstract!Ended

LEMMA InitAbstract == Init => Abstract!Init
BY DEF Init, Abstract!Init, Status, Owed, WithContext

\* The last step of a handler is the end of its call, if no search is disturbed.
LEMMA AnswerFinish ==
  ASSUME TypeOK, NEW p \in Proc, NEW code \in Code, Answer(p, code),
         data' = data \/ \A q \in Proc \ {p} : pc[q] \notin Scanning
  PROVE  Abstract!Finish(p, code)
<1> USE DEF TypeOK, Answer, Goto
<1>1. Status' = [Status EXCEPT ![p] = code] BY DEF Status
<1>2. WithContext' = WithContext \cup {p} BY DEF WithContext
<1>3. Owed' = [Owed EXCEPT ![p] = {}] BY DEF Owed, Matches
<1> QED BY <1>1, <1>2, <1>3 DEF Abstract!Finish

\* A step of a handler outside a scan is seen, if at all, in its status.
LEMMA StepStatus ==
  ASSUME TypeOK, NEW p \in Proc, NEW l \in Steps, pc[p] \notin Scanning, Goto(p, l),
         filter' = [filter EXCEPT ![p] = filter'[p]], UNCHANGED <<data, scan, client>>
  PROVE  /\ Status' = [Status EXCEPT ![p] = IF l \in {"check", "lock", "save"} THEN "create"
                                           ELSE IF l = "find" THEN "get" ELSE l]
         /\ UNCHANGED <<Owed, WithContext>>
<1> USE DEF TypeOK, Goto, scan, Steps
<1>1. \A q \in Proc \ {p} : pc'[q] = pc[q] /\ filter'[q] = filter[q] OBVIOUS
<1>2. pc'[p] = l OBVIOUS
<1>3. Owed' = Owed BY <1>1, <1>2 DEF Owed, Matches
<1>4. Status' = [Status EXCEPT ![p] = IF l \in {"check", "lock", "save"} THEN "create"
                                      ELSE IF l = "find" THEN "get" ELSE l]
  BY <1>1, <1>2 DEF Status
<1> QED BY <1>3, <1>4 DEF WithContext

\* The requests.
LEMMA CallAbstract == ASSUME TypeOK, NEW p \in Proc, Call(p) PROVE Abstract!Next
<1>1. pc[p] \in Over BY DEF Call, CreateLaptop, GetLaptopByID, SearchLaptop
<1>2. Status[p] \notin Abstract!Busy BY <1>1 DEF Status
<1>3. ASSUME NEW i \in Id \cup {NoId, BadId}, NEW b \in Body, CreateLaptop(p, i, b)
      PROVE  Abstract!CreateLaptop(p) \/ Abstract!Refuse(p)
  <2>1. ASSUME NEW j \in Id, Request(p, j, b) PROVE Abstract!CreateLaptop(p)
    <3>1. filter' = filter /\ data' = data /\ Goto(p, "check") /\ UNCHANGED <<scan, client>>
      BY <2>1 DEF Request
    <3>2. Status' = [Status EXCEPT ![p] = "create"] /\ UNCHANGED <<Owed, WithContext>>
      BY <1>1, <3>1, StepStatus DEF TypeOK, Steps
    <3>3. id' = [id EXCEPT ![p] = j] /\ body' = [body EXCEPT ![p] = b] BY <2>1 DEF Request
    <3> QED BY <1>2, <3>1, <3>2, <3>3 DEF Abstract!CreateLaptop, Abstract!Begin
  <2>2. ASSUME NEW code \in {"InvalidArgument", "Internal"}, Answer(p, code), data' = data
        PROVE  Abstract!Refuse(p)
    BY <1>2, <2>2, AnswerFinish DEF Abstract!Refuse
  <2> QED BY <1>3, <2>1, <2>2 DEF CreateLaptop, Fresh
<1>4. ASSUME NEW i \in Id \cup {NoId}, GetLaptopByID(p, i) PROVE Abstract!GetLaptopByID(p)
  <2>1. filter' = filter /\ Goto(p, "find") /\ UNCHANGED <<data, body, scan, client>>
    BY <1>4 DEF GetLaptopByID
  <2>2. Status' = [Status EXCEPT ![p] = "get"] /\ UNCHANGED <<Owed, WithContext>>
    BY <1>1, <2>1, StepStatus DEF TypeOK, Steps
  <2> QED BY <1>2, <1>4, <2>1, <2>2 DEF GetLaptopByID, Abstract!GetLaptopByID, Abstract!Begin
<1>5. ASSUME NEW f \in Filter, SearchLaptop(p, f) PROVE Abstract!SearchLaptop(p)
  <2>1. filter' = [filter EXCEPT ![p] = f] /\ Goto(p, "search")
        /\ UNCHANGED <<data, id, body, scan, client>>
    BY <1>5 DEF SearchLaptop
  <2>2. filter' = [filter EXCEPT ![p] = filter'[p]] BY <2>1 DEF TypeOK
  <2>3. Status' = [Status EXCEPT ![p] = "search"] /\ UNCHANGED <<Owed, WithContext>>
    BY <1>1, <2>1, <2>2, StepStatus DEF Steps
  <2> QED BY <1>2, <2>1, <2>3 DEF Abstract!SearchLaptop, Abstract!Begin
<1> QED BY <1>3, <1>4, <1>5 DEF Call, Abstract!Next

\* CreateLaptop gives up before it saves, if at all.
LEMMA CreateAbstract ==
  ASSUME TypeOK, Locals, MutexInv, NEW p \in Proc, CheckContext(p) \/ AskLock(p) \/ Save(p)
  PROVE  Abstract!GiveUp(p) \/ Abstract!Save(p) \/ UNCHANGED Abstract!vars
<1>1. Status[p] = "create" /\ pc[p] \notin Scanning
  BY DEF CheckContext, AskLock, Save, Status
<1>2. CASE CheckContext(p) /\ client[p] \in Ended
  <2>1. Answer(p, client[p]) /\ data' = data /\ client[p] \in Code /\ p \notin WithContext
    BY <1>2 DEF CheckContext, WithContext
  <2>2. Abstract!Finish(p, client[p]) BY <2>1, AnswerFinish
  <2> QED BY <1>1, <1>2, <2>1, <2>2 DEF Abstract!GiveUp
<1>3. ASSUME NEW l \in {"lock", "save"}, Goto(p, l), UNCHANGED <<data, call, scan, client>>
      PROVE  UNCHANGED Abstract!vars
  <2>1. filter' = [filter EXCEPT ![p] = filter'[p]] BY <1>3 DEF TypeOK, call
  <2>2. Status' = [Status EXCEPT ![p] = "create"] /\ UNCHANGED <<Owed, WithContext>>
    BY <1>1, <1>3, <2>1, StepStatus DEF Steps
  <2>3. Status' = Status BY <1>1, <2>2 DEF Status
  <2> QED BY <1>3, <2>2, <2>3 DEF Abstract!vars, Abstract!request, call
<1>4. CASE Save(p)
  <2>1. Abstract!Finish(p, "OK") BY <1>4, SaveExcludesSearch, AnswerFinish DEF Save
  <2> QED BY <1>1, <1>4, <2>1 DEF Save, Abstract!Save
<1>5. CASE CheckContext(p) /\ client[p] \notin Ended
  BY <1>3, <1>5 DEF CheckContext
<1>6. CASE AskLock(p)
  BY <1>3, <1>6 DEF AskLock
<1> QED BY <1>2, <1>4, <1>5, <1>6

\* Find answers by what the map holds while it has the lock.
LEMMA FindAbstract == ASSUME TypeOK, NEW p \in Proc, Find(p) PROVE Abstract!Find(p)
<1>1. Status[p] = "get" BY DEF Find, Status
<1>2. Abstract!Finish(p, IF id[p] \in Stored THEN "OK" ELSE "NotFound") /\ data' = data
  BY AnswerFinish DEF Find
<1> QED BY <1>1, <1>2 DEF Stored, Abstract!Find

\* A search opens when it enters its scan.
LEMMA EnterAbstract ==
  ASSUME TypeOK, Locals, NEW p \in Proc, EnterScan(p) PROVE Abstract!Open(p)
<1>1. Matches(filter[p]) \subseteq Stored BY MatchesStored DEF EnterScan
<1>2. Status[p] = "search" BY DEF EnterScan, Status
<1>3. Status' = [Status EXCEPT ![p] = "results"] BY DEF TypeOK, EnterScan, Goto, Status
<1>4. Owed' = [Owed EXCEPT ![p] = Matches(filter[p])]
  BY <1>1 DEF TypeOK, EnterScan, Goto, Owed, Matches, call
<1>5. Matches(filter[p]) = Abstract!Matches(data, filter[p]) BY DEF Matches, Abstract!Matches
<1> QED
  BY <1>2, <1>3, <1>4, <1>5 DEF EnterScan, Abstract!Open, Abstract!request, WithContext, call

\* A round of the loop is not seen.
LEMMA VisitAbstract ==
  ASSUME TypeOK, Locals, SearchExact, NEW p \in Proc, NEW i \in todo[p], Visit(p, i),
         pc[p] = "scan"
  PROVE  UNCHANGED Abstract!vars
<1>1. pc'[p] \in Scanning /\ i \in Id /\ cur[p] = NoId
  BY DEF TypeOK, Locals, Visit, Goto
<1>2. (Matches(filter[p]) \cap (todo[p] \cup {cur[p]}))'
      = Matches(filter[p]) \cap (todo[p] \cup {cur[p]})
  <2>1. CASE data[i] \in filter[p] /\ cur' = [cur EXCEPT ![p] = i]
    BY <1>1, <2>1, IdAssumption DEF TypeOK, Visit, Matches, call
  <2>2. CASE data[i] \notin filter[p] /\ UNCHANGED cur
    BY <1>1, <2>2, IdAssumption DEF TypeOK, Visit, Matches, call
  <2> QED BY <2>1, <2>2 DEF Visit
<1>3. \A q \in Proc \ {p} : pc'[q] = pc[q] /\ todo'[q] = todo[q] /\ cur'[q] = cur[q]
  BY DEF TypeOK, Visit, Goto
<1>4. Owed' = Owed BY <1>1, <1>2, <1>3 DEF Visit, Owed, Matches, call
<1>5. Status' = Status BY <1>1, <1>3 DEF Status
<1> QED BY <1>4, <1>5 DEF Visit, WithContext, Abstract!vars, Abstract!request, call

\* The laptop that is being sent is owed, and it is sent once.
LEMMA SendAbstract ==
  ASSUME TypeOK, Locals, SearchExact, NEW p \in Proc, SendOk(p) PROVE Abstract!Emit(p)
<1>1. cur[p] \in Id /\ cur[p] \in Owed[p] /\ cur[p] \notin todo[p]
  BY DEF SendOk, Locals, SearchExact, Owed, Matches
<1>2. pc'[p] \in Scanning /\ cur'[p] = NoId
  BY DEF TypeOK, SendOk, Goto
<1>3. \A q \in Proc \ {p} : pc'[q] = pc[q] /\ cur'[q] = cur[q]
  BY DEF TypeOK, SendOk, Goto
<1>4. data' = data /\ filter' = filter /\ todo' = todo /\ UNCHANGED <<id, body, client>>
  BY DEF SendOk, call
<1>5. (Matches(filter[p]) \cap (todo[p] \cup {cur[p]}))'
      = (Matches(filter[p]) \cap (todo[p] \cup {cur[p]})) \ {cur[p]}
  BY <1>1, <1>2, <1>4, IdAssumption DEF Matches
<1>6. Owed' = [Owed EXCEPT ![p] = @ \ {cur[p]}]
  BY <1>2, <1>3, <1>4, <1>5 DEF SendOk, Owed, Matches
<1>7. Status[p] = "results" /\ Status' = Status BY <1>2, <1>3 DEF SendOk, Status
<1> QED
  BY <1>1, <1>4, <1>6, <1>7 DEF Abstract!Emit, Abstract!request, WithContext

\* A scan is left when nothing is owed, or because the client has gone.
LEMMA LeaveAbstract ==
  ASSUME TypeOK, Locals, NEW p \in Proc, pc[p] \in Scanning, NEW code \in {"OK", "Internal"},
         LeaveScan(p, code), client[p] \in Ended \/ (todo[p] = {} /\ pc[p] = "scan" /\ code = "OK")
  PROVE  Abstract!Close(p)
<1>1. Abstract!Finish(p, code) /\ data' = data BY AnswerFinish DEF LeaveScan
<1>2. Status[p] = "results" BY DEF Status
<1>3. CASE client[p] \in Ended
  <2>1. p \notin WithContext BY <1>3 DEF WithContext
  <2> QED BY <1>1, <1>2, <2>1 DEF Abstract!Close
<1>4. CASE todo[p] = {} /\ pc[p] = "scan" /\ code = "OK"
  <2>1. Owed[p] = {} BY <1>4, IdAssumption DEF Owed, Matches, Locals
  <2> QED BY <1>1, <1>2, <1>4, <2>1 DEF Abstract!Close
<1> QED BY <1>3, <1>4

\* Of the clients the catalog only sees whether they are still there.
LEMMA EnvironmentAbstract ==
  ASSUME TypeOK, NEW p \in Proc, Environment(p)
  PROVE  Abstract!Leave(p) \/ UNCHANGED Abstract!vars
<1> USE DEF Environment, Stall, Resume, Cancel, Expire, Client, call, scan
<1>1. UNCHANGED <<data, Status, id, body, filter, Owed>> BY DEF Status, Owed, Matches
<1>2. Status[p] \in Abstract!Busy
  BY DEF TypeOK, Status
<1>3. WithContext' = WithContext \/ WithContext' = WithContext \ {p}
  BY DEF TypeOK, WithContext
<1> QED BY <1>1, <1>2, <1>3 DEF Abstract!Leave, Abstract!vars, Abstract!request

LEMMA NextAbstract ==
  TypeOK /\ Locals /\ MutexInv /\ SearchExact /\ [Next]_vars => [Abstract!Next]_(Abstract!vars)
<1> SUFFICES ASSUME TypeOK, Locals, MutexInv, SearchExact, [Next]_vars
             PROVE  Abstract!Next \/ UNCHANGED Abstract!vars
  OBVIOUS
<1>1. CASE UNCHANGED vars
  BY <1>1 DEF vars, call, Status, Owed, WithContext, Matches, Abstract!vars, Abstract!request
<1>2. ASSUME NEW p \in Proc, ScanNext(p) PROVE Abstract!Close(p) \/ UNCHANGED Abstract!vars
  BY <1>2, LeaveAbstract, VisitAbstract DEF ScanNext
<1>3. ASSUME NEW p \in Proc, ScanDone(p) \/ SendFail(p) PROVE Abstract!Close(p)
  BY <1>3, LeaveAbstract DEF ScanDone, SendFail
<1>4. ASSUME NEW p \in Proc, Handler(p) PROVE Abstract!Next \/ UNCHANGED Abstract!vars
  BY <1>2, <1>3, <1>4, CreateAbstract, FindAbstract, EnterAbstract, SendAbstract
     DEF Handler, Send, Abstract!Next
<1>5. ASSUME NEW p \in Proc, Call(p) \/ Environment(p)
      PROVE  Abstract!Next \/ UNCHANGED Abstract!vars
  BY <1>5, CallAbstract, EnvironmentAbstract DEF Abstract!Next
<1> QED
  BY <1>1, <1>4, <1>5 DEF Next

\* The store with its lock is indistinguishable, to its callers, from a catalog
\* without one: each call takes effect at one moment between its request and its
\* answer, and is answered accordingly.
THEOREM ImplementsCatalog == Spec => CatalogSpec
BY TypeAndLocals, LockDiscipline, SearchesExact, InitAbstract, NextAbstract, PTL
   DEF Spec, CatalogSpec, Abstract!Spec

================================================================================
