-------------------------------- MODULE Ratings --------------------------------
(***************************************************************************)
(* RateLaptop (service/laptop_server.go) and InMemoryRatingStore           *)
(* (service/laptop_store.go).                                              *)
(*                                                                         *)
(* A member of Proc serves one bidirectional stream after another.  Add    *)
(* updates a laptop's Rating in place under the store's mutex and returns  *)
(* a pointer to it; the handler reads the count and the sum through that   *)
(* pointer when the mutex has been released, while other streams may be    *)
(* updating the same object.  The writes in Add and the reads in the       *)
(* handler are not ordered with each other, so each is a step of its own   *)
(* and they come in any order.                                             *)
(***************************************************************************)
EXTENDS Naturals, FiniteSets

CONSTANTS Proc,        \* the goroutines that serve streams
          NoProc,
          Laptop,      \* laptop ids
          NoLaptop,    \* no message is being handled
          Score,       \* scores: naturals here, as every client sends them; the
                       \* handler takes any float64
          CountLimit,  \* 2^32: Count is a uint32
          NoRating,    \* no entry in the map
          MaxRatings   \* bound: messages received, by all streams together

ASSUME ProcAssumption == NoProc \notin Proc
ASSUME LaptopAssumption == NoLaptop \notin Laptop
ASSUME ScoreAssumption == Score \subseteq Nat
ASSUME LimitAssumption == CountLimit \in Nat /\ CountLimit > 1
ASSUME RatingAssumption == NoRating \notin [count : Nat, sum : Nat]
ASSUME MaxAssumption == MaxRatings \in Nat

VARIABLES stored,    \* the laptops that are in the laptop store
          rating,    \* store.rating, and the Rating objects it points to
          mutex,     \* who holds store.mutex, which has no readers
          pc,        \* where the handler is
          laptop,    \* the laptop id of the last message
          score,     \* the score of the last message
          left,      \* the field accesses that are still to come
          got,       \* what the handler has read for the response
          own,       \* the rating as p's last Add left it
          ended,     \* the streams whose context has ended
          received   \* number of messages received

message == <<laptop, score>>
vars == <<stored, rating, mutex, pc, laptop, score, left, got, own, ended, received>>

Locked == {"create", "bump", "unlock"}
Fields == {"count", "sum"}
Reads == {"count", "sum", "divisor"}

Rating == [count : 0 .. CountLimit - 1, sum : Nat]
NoReads == [count |-> 0, sum |-> 0, divisor |-> 0]
NoOwn == [count |-> 0, sum |-> 0]

TypeOK == /\ stored \subseteq Laptop
          /\ rating \in [Laptop -> Rating \cup {NoRating}]
          /\ mutex \in Proc \cup {NoProc}
          /\ pc \in [Proc -> Locked \cup {"idle", "loop", "recv", "find", "lock", "read", "send"}]
          /\ laptop \in [Proc -> Laptop \cup {NoLaptop}]
          /\ score \in [Proc -> Score \cup {0}]
          /\ left \in [Proc -> SUBSET Reads]
          /\ got \in [Proc -> [count : Nat, sum : Nat, divisor : Nat]]
          /\ own \in [Proc -> Rating]
          /\ ended \subseteq Proc
          /\ received \in Nat

Init == /\ stored = {}
        /\ rating = [l \in Laptop |-> NoRating]
        /\ mutex = NoProc
        /\ pc = [p \in Proc |-> "idle"]
        /\ laptop = [p \in Proc |-> NoLaptop]
        /\ score = [p \in Proc |-> 0]
        /\ left = [p \in Proc |-> {}]
        /\ got = [p \in Proc |-> NoReads]
        /\ own = [p \in Proc |-> NoOwn]
        /\ ended = {}
        /\ received = 0

Goto(p, l) == pc' = [pc EXCEPT ![p] = l]

\* The handling of a message is over: p goes on to l, and its locals are gone.
Clear(p, l) == /\ Goto(p, l)
               /\ laptop' = [laptop EXCEPT ![p] = NoLaptop]
               /\ score' = [score EXCEPT ![p] = 0]
               /\ left' = [left EXCEPT ![p] = {}]
               /\ got' = [got EXCEPT ![p] = NoReads]
               /\ own' = [own EXCEPT ![p] = NoOwn]

\* The handler returns; the next stream of p has a context of its own.  The
\* status code it returns is in the comment of the action, and is not kept.
Return(p) == /\ Clear(p, "idle")
             /\ ended' = ended \ {p}
             /\ UNCHANGED <<stored, rating, mutex, received>>

--------------------------------------------------------------------------------
(* The handler's loop *)

RateLaptop(p) == /\ pc[p] = "idle"
                 /\ Goto(p, "loop")
                 /\ UNCHANGED <<stored, rating, mutex, message, left, got, own, ended, received>>

\* contextError: Canceled or DeadlineExceeded.
CheckContext(p) == /\ pc[p] = "loop"
                   /\ \/ p \in ended /\ Return(p)
                      \/ /\ p \notin ended
                         /\ Goto(p, "recv")
                         /\ UNCHANGED <<stored, rating, mutex, message, left, got, own, ended,
                                        received>>

Recv(p, l, s) == /\ pc[p] = "recv"
                 /\ received < MaxRatings
                 /\ received' = received + 1
                 /\ laptop' = [laptop EXCEPT ![p] = l]
                 /\ score' = [score EXCEPT ![p] = s]
                 /\ Goto(p, "find")
                 /\ UNCHANGED <<stored, rating, mutex, left, got, own, ended>>

\* The client has closed its side (OK), or the stream is broken (Unknown).
RecvEnd(p) == pc[p] = "recv" /\ Return(p)

\* laptopStore.Find, which happens at one moment (module LaptopStore).  A laptop
\* that is not there is an error of Find (Internal), never a nil laptop.
Find(p) == /\ pc[p] = "find"
           /\ \/ laptop[p] \notin stored /\ Return(p)
              \/ /\ laptop[p] \in stored
                 /\ Goto(p, "lock")
                 /\ UNCHANGED <<stored, rating, mutex, message, left, got, own, ended, received>>

--------------------------------------------------------------------------------
(* Add *)

\* rating := store.rating[laptopID]
Lookup(p) == \/ rating[laptop[p]] = NoRating /\ Goto(p, "create") /\ UNCHANGED left
             \/ /\ rating[laptop[p]] # NoRating
                /\ Goto(p, "bump")
                /\ left' = [left EXCEPT ![p] = Fields]

\* Mutants: no Lock(); every rating starts a new object.
AddUnlocked(p) == /\ pc[p] = "lock"
                  /\ mutex' = p
                  /\ Lookup(p)
                  /\ UNCHANGED <<stored, rating, message, got, own, ended, received>>

AddNew(p) == /\ pc[p] = "lock"
             /\ mutex = NoProc
             /\ mutex' = p
             /\ Goto(p, "create")
             /\ UNCHANGED <<stored, rating, message, left, got, own, ended, received>>

\* mutex.Lock() and the lookup, which nobody else can write to now.
Lock(p) == /\ pc[p] = "lock"
           /\ mutex = NoProc
           /\ mutex' = p
           /\ Lookup(p)
           /\ UNCHANGED <<stored, rating, message, got, own, ended, received>>

\* A new object goes into the map.
Create(p) == /\ pc[p] = "create"
             /\ rating' = [rating EXCEPT ![laptop[p]] = [count |-> 1, sum |-> score[p]]]
             /\ Goto(p, "unlock")
             /\ UNCHANGED <<stored, mutex, message, left, got, own, ended, received>>

\* Mutant: a count without a limit.
BumpedWide(r, s, fields) == [count |-> IF "count" \in fields THEN r.count + 1 ELSE r.count,
                             sum   |-> IF "sum" \in fields THEN r.sum + s ELSE r.sum]

\* rating.Count++ and rating.Sum += score
Bumped(r, s, fields) ==
  [count |-> IF "count" \in fields THEN (r.count + 1) % CountLimit ELSE r.count,
   sum   |-> IF "sum" \in fields THEN r.sum + s ELSE r.sum]

Bump(p, field) ==
  /\ pc[p] = "bump"
  /\ field \in left[p]
  /\ rating' = [rating EXCEPT ![laptop[p]] = Bumped(@, score[p], {field})]
  /\ left' = [left EXCEPT ![p] = @ \ {field}]
  /\ IF left[p] = {field} THEN Goto(p, "unlock") ELSE UNCHANGED pc
  /\ UNCHANGED <<stored, mutex, message, got, own, ended, received>>

\* Mutant: no Unlock().
AddKeepsLock(p) == /\ pc[p] = "unlock"
                   /\ own' = [own EXCEPT ![p] = rating[laptop[p]]]
                   /\ left' = [left EXCEPT ![p] = Reads]
                   /\ Goto(p, "read")
                   /\ UNCHANGED <<stored, rating, mutex, message, got, ended, received>>

\* The deferred Unlock(), and back in the handler.
Unlock(p) == /\ pc[p] = "unlock"
             /\ mutex' = NoProc
             /\ own' = [own EXCEPT ![p] = rating[laptop[p]]]
             /\ left' = [left EXCEPT ![p] = Reads]
             /\ Goto(p, "read")
             /\ UNCHANGED <<stored, rating, message, got, ended, received>>

--------------------------------------------------------------------------------
(* The response *)

\* rating.Count, rating.Sum and the rating.Count it is divided by, unguarded.
Loaded(g, r, field) == [count   |-> IF field = "count" THEN r.count ELSE g.count,
                        sum     |-> IF field = "sum" THEN r.sum ELSE g.sum,
                        divisor |-> IF field = "divisor" THEN r.count ELSE g.divisor]

Read(p, field) ==
  /\ pc[p] = "read"
  /\ field \in left[p]
  /\ got' = [got EXCEPT ![p] = Loaded(@, rating[laptop[p]], field)]
  /\ left' = [left EXCEPT ![p] = @ \ {field}]
  /\ IF left[p] = {field} THEN Goto(p, "send") ELSE UNCHANGED pc
  /\ UNCHANGED <<stored, rating, mutex, message, own, ended, received>>

SendOk(p) == /\ pc[p] = "send"
             /\ Clear(p, "loop")
             /\ UNCHANGED <<stored, rating, mutex, ended, received>>

\* Unknown: the client has gone.
SendFail(p) == /\ pc[p] = "send"
               /\ p \in ended
               /\ Return(p)

--------------------------------------------------------------------------------
(* The clients, and the laptops that others store *)

EndContext(p) == /\ pc[p] # "idle"
                 /\ ended' = ended \cup {p}
                 /\ UNCHANGED <<stored, rating, mutex, pc, message, left, got, own, received>>

StoreLaptop(l) == /\ l \notin stored
                  /\ stored' = stored \cup {l}
                  /\ UNCHANGED <<rating, mutex, pc, message, left, got, own, ended, received>>

--------------------------------------------------------------------------------

\* The steps from a message to its response, and those around them.
Add(p) == Create(p) \/ (\E f \in Fields : Bump(p, f)) \/ Unlock(p)
Respond(p) == (\E f \in Reads : Read(p, f)) \/ SendOk(p) \/ SendFail(p)
Serve(p) == CheckContext(p) \/ Find(p) \/ Add(p) \/ Respond(p)
Receive(p) == (\E l \in Laptop, s \in Score : Recv(p, l, s)) \/ RecvEnd(p)

Next == \/ \E p \in Proc : \/ RateLaptop(p) \/ Receive(p) \/ Lock(p) \/ Serve(p)
                           \/ EndContext(p)
        \/ \E l \in Laptop : StoreLaptop(l)

Spec == Init /\ [][Next]_vars

\* What a handler does without the help of its client.
Unaided(p) == \/ CheckContext(p) \/ Find(p) \/ Add(p)
              \/ (\E f \in Reads : Read(p, f)) \/ SendFail(p)

\* The scheduler runs every goroutine that can run, and a sync.Mutex does not starve
\* those who wait for it.  No client needs to receive what it is sent, but the deadline
\* of its stream comes (laptop_client.go:251).
FairSpec == Spec /\ \A p \in Proc : /\ WF_vars(Unaided(p)) /\ SF_vars(Lock(p))
                                   /\ WF_vars(EndContext(p))

--------------------------------------------------------------------------------
(* Properties *)

\* The rating that p is updating, seen with both halves of the update as soon
\* as the first is done.
Completed(p) == Bumped(rating[laptop[p]], score[p], left[p])

HalfDone(p, l) == pc[p] = "bump" /\ laptop[p] = l /\ left[p] # Fields

LedgerOf(l) == IF mutex \in Proc /\ HalfDone(mutex, l) THEN Completed(mutex) ELSE rating[l]

\* What each stream has handed in, and those whose rating shows in the ledger.
Slip == [p \in Proc |-> [laptop |-> laptop[p], score |-> score[p]]]
Entered == {p \in Proc : pc[p] \in {"unlock", "read", "send"} \/ HalfDone(p, laptop[p])}

Abstract == INSTANCE Ledger WITH Stream <- Proc, ledger <- [l \in Laptop |-> LedgerOf(l)],
                                 slip <- Slip, entered <- Entered

\* No rating is lost, counted twice or torn: one that has been received is refused
\* for its laptop, or goes whole and once into the laptop's count and sum before it is
\* answered, whatever streams rate it at the same time and whoever goes away (the
\* tests rate from one stream at a time; laptop_server.go:289-368).
LedgerSpec == Abstract!Spec

\* What a response says was true, value by value, between the end of the rater's
\* own Add and now, although it is read without the lock: the rater's own score
\* is in it, and it runs ahead of nobody.  So a stream that rates alone gets
\* exactly its own count and average.  Until the count wraps, the average is
\* not divided by zero.
ReplyWithinWindow ==
  received < CountLimit =>
    \A p \in Proc : pc[p] \in {"read", "send"} =>
      LET r == rating[laptop[p]] IN
      /\ own[p].count \in 1 .. r.count /\ own[p].sum <= r.sum
      /\ "count" \notin left[p] => got[p].count \in own[p].count .. r.count
      /\ "sum" \notin left[p] => got[p].sum \in own[p].sum .. r.sum
      /\ "divisor" \notin left[p] => got[p].divisor \in own[p].count .. r.count

\* Every rating that gets past Find is added to the store and answered, however
\* many streams wait for the lock and whatever their clients do.
RatingAnswered == \A p \in Proc : pc[p] = "lock" ~> pc[p] \in {"idle", "recv"}

\* laptop_server.go:345-347: the average is "computed using the sum and count of
\* the rating", so it lies between the lowest and the highest score.
AverageInRange ==
  \A p \in Proc : pc[p] = "send" =>
    \E low, high \in Score : low * got[p].divisor <= got[p].sum
                          /\ got[p].sum <= high * got[p].divisor

================================================================================
