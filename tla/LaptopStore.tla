------------------------------ MODULE LaptopStore ------------------------------
(***************************************************************************)
(* InMemoryLaptopStore (service/laptop_store.go) and the three handlers of *)
(* the laptop server that do nothing but call it: CreateLaptop,            *)
(* GetLaptopByID and SearchLaptop (service/laptop_server.go).              *)
(*                                                                         *)
(* gRPC runs every call in a goroutine of its own: a member of Proc serves *)
(* one call after another, its pc is where the handler is, or the status   *)
(* code of the last call it answered.  The store is shared and guarded by  *)
(* a sync.RWMutex (module RWMutex).  A filter is the set of the laptop     *)
(* bodies isQualified accepts.                                             *)
(***************************************************************************)
EXTENDS RWMutex

CONSTANTS Id,      \* well-formed laptop ids (uuid.Parse accepts them)
          NoId,    \* the empty id: the server is to generate one; also any
                   \* id that no laptop can have, in a lookup
          BadId,   \* an id uuid.Parse refuses
          Body,    \* everything in a laptop but its id
          NoBody,  \* no entry in the map
          Filter   \* search filters

ASSUME IdAssumption == NoId \notin Id /\ BadId \notin Id /\ NoId # BadId
ASSUME BodyAssumption == NoBody \notin Body
ASSUME FilterAssumption == Filter \subseteq SUBSET Body

VARIABLES data,    \* store.data
          mutex,   \* store.mutex
          pc,      \* where the handler of p is, or the code it answered
          id,      \* the laptop id of the request of p
          body,    \* the laptop of the request of p
          filter,  \* the filter of the request of p
          todo,    \* ids the range loop of p has not visited
          cur,     \* the laptop p is in the middle of sending
          sent,    \* ids p has sent to its client
          client   \* the client of p: "reading", "stalled" (it has stopped
                   \* reading its stream), or how its context ended

call == <<id, body, filter>>
scan == <<todo, cur, sent>>
vars == <<data, mutex, pc, id, body, filter, todo, cur, sent, client>>

Alive == {"reading", "stalled"}
Ended == {"Canceled", "DeadlineExceeded"}
Code == {"OK", "InvalidArgument", "NotFound", "Internal"} \cup Ended
Over == {"new"} \cup Code                \* no call in progress
Scanning == {"scan", "send"}

Stored == {i \in Id : data[i] # NoBody}
Matches(f) == {i \in Id : data[i] \in f}

TypeOK == /\ data \in [Id -> Body \cup {NoBody}]
          /\ mutex \in RWMutexType
          /\ pc \in [Proc -> Over \cup Scanning \cup {"check", "lock", "save", "find", "search"}]
          /\ id \in [Proc -> Id \cup {NoId}]
          /\ body \in [Proc -> Body \cup {NoBody}]
          /\ filter \in [Proc -> Filter \cup {{}}]
          /\ todo \in [Proc -> SUBSET Id]
          /\ cur \in [Proc -> Id \cup {NoId}]
          /\ sent \in [Proc -> SUBSET Id]
          /\ client \in [Proc -> Alive \cup Ended]

Init == /\ data = [i \in Id |-> NoBody]
        /\ mutex = Unlocked
        /\ pc = [p \in Proc |-> "new"]
        /\ id = [p \in Proc |-> NoId]
        /\ body = [p \in Proc |-> NoBody]
        /\ filter = [p \in Proc |-> {}]
        /\ todo = [p \in Proc |-> {}]
        /\ cur = [p \in Proc |-> NoId]
        /\ sent = [p \in Proc |-> {}]
        /\ client = [p \in Proc |-> "reading"]

Goto(p, l) == pc' = [pc EXCEPT ![p] = l]

\* The handler of p returns: its locals are gone, and the next call that p
\* serves comes with a context of its own.
Answer(p, code) == /\ Goto(p, code)
                   /\ id' = [id EXCEPT ![p] = NoId]
                   /\ body' = [body EXCEPT ![p] = NoBody]
                   /\ filter' = [filter EXCEPT ![p] = {}]
                   /\ todo' = [todo EXCEPT ![p] = {}]
                   /\ cur' = [cur EXCEPT ![p] = NoId]
                   /\ sent' = [sent EXCEPT ![p] = {}]
                   /\ client' = [client EXCEPT ![p] = "reading"]

--------------------------------------------------------------------------------
(* CreateLaptop and Save *)

\* uuid.NewRandom: an id that nobody has.
Fresh == {i \in Id : data[i] = NoBody /\ \A p \in Proc : id[p] # i}

Request(p, i, b) == /\ id' = [id EXCEPT ![p] = i]
                    /\ body' = [body EXCEPT ![p] = b]
                    /\ Goto(p, "check")
                    /\ UNCHANGED <<data, mutex, filter, scan, client>>

\* Mutant: the id is used unparsed.
CreateLaptopUnparsed(p, i, b) == /\ pc[p] \in Over
                                 /\ i # NoId
                                 /\ Request(p, i, b)

\* A request has a laptop: one without would be dereferenced in line 45 and end the
\* server, but the client always sends one (laptop_client.go:32-34).
CreateLaptop(p, i, b) ==
  /\ pc[p] \in Over
  /\ \/ i \in Id /\ Request(p, i, b)
     \/ i = NoId /\ \E j \in Fresh : Request(p, j, b)
     \/ i = NoId /\ Answer(p, "Internal") /\ UNCHANGED <<data, mutex>>
     \/ i = BadId /\ Answer(p, "InvalidArgument") /\ UNCHANGED <<data, mutex>>

CheckContext(p) ==
  /\ pc[p] = "check"
  /\ \/ /\ client[p] \in Ended
        /\ Answer(p, client[p])
        /\ UNCHANGED <<data, mutex>>
     \/ /\ client[p] \in Alive
        /\ Goto(p, "lock")
        /\ UNCHANGED <<data, mutex, call, scan, client>>

\* Mutant: for !mutex.TryLock() {}, which keeps no reader out.
SpinLock(p) == /\ pc[p] = "lock"
               /\ mutex.writer = NoProc
               /\ mutex.readers = {}
               /\ mutex' = Announce(mutex, p)
               /\ Goto(p, "save")
               /\ UNCHANGED <<data, call, scan, client>>

\* mutex.Lock(): only one writer at a time announces itself.
AskLock(p) == /\ pc[p] = "lock"
              /\ mutex.writer = NoProc
              /\ mutex' = Announce(mutex, p)
              /\ Goto(p, "save")
              /\ UNCHANGED <<data, call, scan, client>>

\* The rest of Save, under the lock.  A laptop that is in the map already is
\* only logged: the store overwrites it, and the handler answers OK.
Save(p) == /\ pc[p] = "save"
           /\ HoldsWrite(mutex, p)
           /\ data' = [data EXCEPT ![id[p]] = body[p]]
           /\ mutex' = Unlock(mutex)
           /\ Answer(p, "OK")

--------------------------------------------------------------------------------
(* GetLaptopByID and Find *)

GetLaptopByID(p, i) == /\ pc[p] \in Over
                       /\ id' = [id EXCEPT ![p] = i]
                       /\ mutex' = RLock(mutex, p)
                       /\ Goto(p, "find")
                       /\ UNCHANGED <<data, body, filter, scan, client>>

Find(p) == /\ pc[p] = "find"
           /\ p \in mutex.readers
           /\ mutex' = RUnlock(mutex, p)
           /\ Answer(p, IF id[p] \in Stored THEN "OK" ELSE "NotFound")
           /\ UNCHANGED data

--------------------------------------------------------------------------------
(* SearchLaptop and Search: the read lock is held until the last laptop is *)
(* sent, and a laptop is sent at the pace of the client's reads.           *)

SearchLaptop(p, f) == /\ pc[p] \in Over
                      /\ filter' = [filter EXCEPT ![p] = f]
                      /\ mutex' = RLock(mutex, p)
                      /\ Goto(p, "search")
                      /\ UNCHANGED <<data, id, body, scan, client>>

\* Mutants: the search starts without waiting for the lock; it holds the lock
\* only to collect the ids.
EnterScanUnlocked(p) == /\ pc[p] = "search"
                        /\ todo' = [todo EXCEPT ![p] = Stored]
                        /\ Goto(p, "scan")
                        /\ UNCHANGED <<data, mutex, call, cur, sent, client>>

EnterScanAndUnlock(p) == /\ pc[p] = "search"
                         /\ p \in mutex.readers
                         /\ todo' = [todo EXCEPT ![p] = Stored]
                         /\ mutex' = RUnlock(mutex, p)
                         /\ Goto(p, "scan")
                         /\ UNCHANGED <<data, call, cur, sent, client>>

EnterScan(p) == /\ pc[p] = "search"
                /\ p \in mutex.readers
                /\ todo' = [todo EXCEPT ![p] = Stored]
                /\ Goto(p, "scan")
                /\ UNCHANGED <<data, mutex, call, cur, sent, client>>

\* Mutant: a return that forgets the lock.
LeaveScanLocked(p, code) == Answer(p, code) /\ UNCHANGED <<data, mutex>>

LeaveScan(p, code) == /\ mutex' = RUnlock(mutex, p)
                      /\ Answer(p, code)
                      /\ UNCHANGED data

\* One round of the range loop, which visits the map in any order.
Visit(p, i) ==
  /\ todo' = [todo EXCEPT ![p] = @ \ {i}]
  /\ \/ /\ data[i] \in filter[p]
        /\ cur' = [cur EXCEPT ![p] = i]
        /\ Goto(p, "send")
     \/ /\ data[i] \notin filter[p]
        /\ UNCHANGED <<cur, pc>>
  /\ UNCHANGED <<data, mutex, call, sent, client>>

\* A context that has ended stops the loop without an error.
ScanNext(p) ==
  /\ pc[p] = "scan"
  /\ todo[p] # {}
  /\ \/ client[p] \in Ended /\ LeaveScan(p, "OK")
     \/ client[p] \in Alive /\ \E i \in todo[p] : Visit(p, i)

ScanDone(p) == /\ pc[p] = "scan"
               /\ todo[p] = {}
               /\ LeaveScan(p, "OK")

\* stream.Send returns nil: the transport had room for the message, which it
\* may have even after the deadline.
SendOk(p) == /\ pc[p] = "send"
             /\ client[p] # "stalled"
             /\ sent' = [sent EXCEPT ![p] = @ \cup {cur[p]}]
             /\ cur' = [cur EXCEPT ![p] = NoId]
             /\ Goto(p, "scan")
             /\ UNCHANGED <<data, mutex, call, todo, client>>

SendFail(p) == /\ pc[p] = "send"
               /\ client[p] \in Ended
               /\ LeaveScan(p, "Internal")

--------------------------------------------------------------------------------
(* The clients, while a call of theirs is in progress *)

Client(p, from, to) == /\ pc[p] \notin Over
                       /\ client[p] \in from
                       /\ client' = [client EXCEPT ![p] = to]
                       /\ UNCHANGED <<data, mutex, pc, call, scan>>

Stall(p)  == pc[p] \in Scanning /\ Client(p, {"reading"}, "stalled")
Resume(p) == Client(p, {"stalled"}, "reading")
Cancel(p) == Client(p, Alive, "Canceled")
Expire(p) == Client(p, Alive, "DeadlineExceeded")

--------------------------------------------------------------------------------

Call(p) == \/ \E i \in Id \cup {NoId, BadId}, b \in Body : CreateLaptop(p, i, b)
           \/ \E i \in Id \cup {NoId} : GetLaptopByID(p, i)
           \/ \E f \in Filter : SearchLaptop(p, f)

Send(p) == SendOk(p) \/ SendFail(p)

Handler(p) == \/ CheckContext(p) \/ AskLock(p) \/ Save(p) \/ Find(p)
              \/ EnterScan(p) \/ ScanNext(p) \/ ScanDone(p) \/ Send(p)

Environment(p) == Stall(p) \/ Resume(p) \/ Cancel(p) \/ Expire(p)

Next == \E p \in Proc : Call(p) \/ Handler(p) \/ Environment(p)

Spec == Init /\ [][Next]_vars

\* The Go scheduler runs every goroutine that can run; a sync.Mutex that has
\* starved a waiter is handed over to it, so a Lock() whose turn comes up again
\* and again is taken; every call of the repository's client has a deadline of
\* 5 seconds (client/laptop_client.go), so a call that is not over expires.
Fairness == \A p \in Proc : /\ WF_vars(CheckContext(p) \/ Save(p) \/ Find(p))
                            /\ WF_vars(EnterScan(p) \/ ScanNext(p) \/ ScanDone(p) \/ Send(p))
                            /\ SF_vars(AskLock(p))
                            /\ WF_vars(Expire(p))

FairSpec == Spec /\ Fairness

--------------------------------------------------------------------------------
(* Properties *)

\* The lock is used as the code means it: whoever holds or awaits the read lock
\* is in a read operation, a search keeps it from its first to its last laptop,
\* the announced writer is in Save, and nobody is kept out of the read lock
\* unless there is a writer who will let him in (no lost wakeup).
MutexInv ==
  /\ \A p \in Proc : mutex.writer = p <=> pc[p] = "save"
  /\ \A p \in mutex.readers \cup mutex.blocked : pc[p] \in {"find", "search"} \cup Scanning
  /\ \A p \in Proc : pc[p] \in {"find", "search"} => p \in mutex.readers \cup mutex.blocked
  /\ \A p \in Proc : pc[p] \in Scanning => p \in mutex.readers
  /\ mutex.readers \cap mutex.blocked = {}
  /\ mutex.blocked # {} => mutex.writer # NoProc

\* At every moment of a search, what has been sent is what the map holds now for
\* the filter, less what is still to be visited or sent: nothing twice, nothing
\* skipped, no laptop that has been replaced since (Search streams results
\* while writers queue for the lock).
SearchExact ==
  \A p \in Proc : pc[p] \in Scanning =>
    /\ sent[p] = Matches(filter[p]) \ (todo[p] \cup {cur[p]})
    /\ todo[p] \subseteq Stored
    /\ cur[p] \in Matches(filter[p]) \ todo[p] \/ cur[p] = NoId
    /\ pc[p] = "send" => cur[p] # NoId

\* The catalog's view of the store: what a call is about, wherever in its handler it
\* is, and the matches that a search has not sent.
Status == [p \in Proc |-> IF pc[p] \in Scanning THEN "results"
                          ELSE IF pc[p] \in {"check", "lock", "save"} THEN "create"
                          ELSE IF pc[p] = "find" THEN "get" ELSE pc[p]]
Owed == [p \in Proc |-> IF pc[p] \in Scanning
                        THEN Matches(filter[p]) \cap (todo[p] \cup {cur[p]})
                        ELSE {}]
WithContext == {p \in Proc : client[p] \in Alive}

Abstract == INSTANCE Catalog WITH status <- Status, owed <- Owed, alive <- WithContext

\* The store with its lock looks to its callers like the lock-free catalog: a laptop
\* is saved or found at one moment, and the code of the answer is about that moment; a
\* search returns the matches of the moment it began, all of them unless its client has
\* gone.
CatalogSpec == Abstract!Spec

\* Every call is answered, although writers wait for searches, searches for
\* their clients, and readers for the writers ahead of them.
Answered == \A p \in Proc : pc[p] \notin Over ~> pc[p] \in Over

\* What the comment at laptop_store.go:93-94 says and the server's test of a
\* duplicate id expects: a laptop that is in the store is never replaced.
NoOverwrite == [][\A i \in Id : data[i] # NoBody => data'[i] = data[i]]_vars

================================================================================
