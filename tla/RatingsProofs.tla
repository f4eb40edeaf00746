----------------------------- MODULE RatingsProofs -----------------------------
(***************************************************************************)
(* Proofs about Ratings for any number of streams, laptops and ratings:    *)
(* types, mutual exclusion, that the store implements the Ledger, and that *)
(* responses, though read without the lock, are inside their window.       *)
(***************************************************************************)
EXTENDS Ratings, FiniteSetTheorems, TLAPS

\* The lock is held by the one stream that is in Add.
MutexInv == \A p \in Proc : pc[p] \in Locked <=> mutex = p

\* What the locals of a handler are at each pc.
Handling == {"find", "lock", "read", "send"} \cup Locked
Locals == \A p \in Proc :
            /\ pc[p] \in Handling => laptop[p] \in Laptop /\ score[p] \in Score
            /\ pc[p] = "create" => rating[laptop[p]] = NoRating
            /\ pc[p] \in {"bump", "unlock", "read", "send"} => rating[laptop[p]] # NoRating
            /\ pc[p] = "bump" => left[p] \subseteq Fields /\ left[p] # {}
            /\ pc[p] \notin {"bump", "read"} => left[p] = {}

Inv == TypeOK /\ MutexInv /\ Locals

USE ScoreAssumption, LimitAssumption DEF Locked, Fields, Reads, Handling

--------------------------------------------------------------------------------

LEMMA InitInv == Init => Inv
BY ProcAssumption DEF Init, Inv, TypeOK, MutexInv, Locals, Rating, NoReads, NoOwn

\* The update of a field makes a rating of a rating.
LEMMA BumpedType ==
  ASSUME NEW r \in Rating, NEW s \in Score, NEW fields
  PROVE  Bumped(r, s, fields) \in Rating
<1>1. (r.count + 1) % CountLimit \in 0 .. CountLimit - 1
  BY DEF Rating
<1>2. r.sum + s \in Nat
  BY DEF Rating
<1> QED
  BY <1>1, <1>2 DEF Bumped, Rating

\* So is what a first rating creates; and neither is NoRating.
LEMMA CreatedType ==
  ASSUME NEW s \in Score
  PROVE  [count |-> 1, sum |-> s] \in Rating
<1>1. 1 \in 0 .. CountLimit - 1 /\ s \in Nat
  OBVIOUS
<1> QED
  BY <1>1 DEF Rating

LEMMA NoRatingType == NoRating \notin Rating
BY RatingAssumption DEF Rating

\* The types are kept.
LEMMA NextType == Inv /\ [Next]_vars => TypeOK'
<1> SUFFICES ASSUME Inv, [Next]_vars PROVE TypeOK'
  OBVIOUS
<1> USE DEF Inv, TypeOK, Goto, message
<1>1. CASE UNCHANGED vars
  BY <1>1 DEF vars
<1>2. ASSUME NEW p \in Proc, Return(p) PROVE TypeOK'
  BY <1>2 DEF Return, Clear, NoReads, NoOwn, Rating
<1>3. ASSUME NEW p \in Proc, RateLaptop(p) PROVE TypeOK'
  BY <1>3 DEF RateLaptop
<1>4. ASSUME NEW p \in Proc, NEW l \in Laptop, NEW s \in Score, Recv(p, l, s) PROVE TypeOK'
  BY <1>4 DEF Recv
<1>5. ASSUME NEW p \in Proc, CheckContext(p) \/ RecvEnd(p) \/ Find(p) \/ SendFail(p)
      PROVE  TypeOK'
  BY <1>5, <1>2 DEF CheckContext, RecvEnd, Find, SendFail
<1>6. ASSUME NEW p \in Proc, Lock(p) PROVE TypeOK'
  <2>1. pc' \in [Proc -> Locked \cup {"idle", "loop", "recv", "find", "lock", "read", "send"}]
    BY <1>6 DEF Lock, Lookup
  <2>2. left' \in [Proc -> SUBSET Reads]
    BY <1>6 DEF Lock, Lookup
  <2> QED
    BY <1>6, <2>1, <2>2 DEF Lock
<1>7. ASSUME NEW p \in Proc, Create(p) PROVE TypeOK'
  <2>2. [count |-> 1, sum |-> score[p]] \in Rating
    BY <1>7, CreatedType DEF Create, Locals
  <2> QED
    BY <1>7, <2>2 DEF Create
<1>8. ASSUME NEW p \in Proc, NEW f \in Fields, Bump(p, f) PROVE TypeOK'
  <2>1. rating' \in [Laptop -> Rating \cup {NoRating}]
    BY <1>8, BumpedType DEF Bump, Locals
  <2> QED
    BY <1>8, <2>1 DEF Bump
<1>9. ASSUME NEW p \in Proc, Unlock(p) PROVE TypeOK'
  BY <1>9 DEF Unlock, Locals
<1>10. ASSUME NEW p \in Proc, NEW f \in Reads, Read(p, f) PROVE TypeOK'
  <2>1. rating[laptop[p]].sum \in Nat /\ rating[laptop[p]].count \in Nat
    BY <1>10 DEF Read, Locals, Rating
  <2>2. got' \in [Proc -> [count : Nat, sum : Nat, divisor : Nat]]
    BY <1>10, <2>1 DEF Read, Loaded
  <2> QED
    BY <1>10, <2>2 DEF Read
<1>11. ASSUME NEW p \in Proc, SendOk(p) PROVE TypeOK'
  BY <1>11 DEF SendOk, Clear, NoReads, NoOwn, Rating
<1>12. ASSUME NEW p \in Proc, EndContext(p) PROVE TypeOK'
  BY <1>12 DEF EndContext
<1>13. ASSUME NEW l \in Laptop, StoreLaptop(l) PROVE TypeOK'
  BY <1>13 DEF StoreLaptop
<1> QED
  BY <1>1, <1>3, <1>4, <1>5, <1>6, <1>7, <1>8, <1>9, <1>10, <1>11, <1>12, <1>13
     DEF Next, Receive, Serve, Add, Respond

\* One stream at a time is in Add.
LEMMA NextMutex == Inv /\ [Next]_vars => MutexInv'
<1> SUFFICES ASSUME Inv, [Next]_vars PROVE MutexInv'
  OBVIOUS
<1> USE ProcAssumption DEF Inv, TypeOK, MutexInv, Goto
<1>1. CASE UNCHANGED vars
  BY <1>1 DEF vars
<1>2. ASSUME NEW p \in Proc, pc[p] \notin Locked, pc'[p] \notin Locked, mutex' = mutex,
             pc' = [pc EXCEPT ![p] = pc'[p]]
      PROVE  MutexInv'
  BY <1>2
<1>3. ASSUME NEW p \in Proc, RateLaptop(p) \/ Receive(p) \/ CheckContext(p) \/ Find(p) \/ Respond(p)
      PROVE  MutexInv'
  BY <1>3, <1>2 DEF RateLaptop, Receive, Recv, RecvEnd, CheckContext, Find, Respond, Read,
                    SendOk, SendFail, Return, Clear
<1>4. ASSUME NEW p \in Proc, Lock(p) PROVE MutexInv'
  BY <1>4 DEF Lock, Lookup
<1>5. ASSUME NEW p \in Proc, Add(p) PROVE MutexInv'
  BY <1>5 DEF Add, Create, Bump, Unlock
<1>6. ASSUME NEW p \in Proc, EndContext(p) PROVE MutexInv'
  BY <1>6 DEF EndContext
<1>7. ASSUME NEW l \in Laptop, StoreLaptop(l) PROVE MutexInv'
  BY <1>7 DEF StoreLaptop
<1> QED
  BY <1>1, <1>3, <1>4, <1>5, <1>6, <1>7 DEF Next, Serve

\* What the locals are is set up by the steps that lead to each pc, and nobody
\* takes a rating away or creates one while another is in Add.
LEMMA NextLocals == Inv /\ [Next]_vars => Locals'
<1> SUFFICES ASSUME Inv, [Next]_vars PROVE Locals'
  OBVIOUS
<1> USE LaptopAssumption DEF Inv, TypeOK, Locals, Goto, message
<1>1. CASE UNCHANGED vars
  BY <1>1 DEF vars
<1>2. ASSUME NEW p \in Proc, Return(p) PROVE Locals'
  BY <1>2 DEF Return, Clear
<1>3. ASSUME NEW p \in Proc, RateLaptop(p) PROVE Locals'
  BY <1>3 DEF RateLaptop
<1>4. ASSUME NEW p \in Proc, NEW l \in Laptop, NEW s \in Score, Recv(p, l, s) PROVE Locals'
  BY <1>4 DEF Recv
<1>5. ASSUME NEW p \in Proc, CheckContext(p) \/ RecvEnd(p) \/ Find(p) \/ SendFail(p)
      PROVE  Locals'
  BY <1>5, <1>2 DEF CheckContext, RecvEnd, Find, SendFail
<1>6. ASSUME NEW p \in Proc, Lock(p) PROVE Locals'
  <2>1. \A q \in Proc \ {p} : pc'[q] = pc[q] /\ left'[q] = left[q]
    BY <1>6 DEF Lock, Lookup
  <2>2. \/ rating[laptop[p]] = NoRating /\ pc'[p] = "create"
        \/ rating[laptop[p]] # NoRating /\ pc'[p] = "bump" /\ left'[p] = Fields
    BY <1>6 DEF Lock, Lookup
  <2>3. rating' = rating /\ laptop' = laptop /\ score' = score /\ pc[p] = "lock"
    BY <1>6 DEF Lock
  <2>4. pc'[p] = "create" => left'[p] = {}
    BY <1>6 DEF Lock, Lookup
  <2> QED
    BY <2>1, <2>2, <2>3, <2>4
<1>7. ASSUME NEW p \in Proc, pc[p] \in {"create", "bump"}, NEW r \in Rating,
             rating' = [rating EXCEPT ![laptop[p]] = r], laptop' = laptop, score' = score,
             left'[p] \subseteq left[p], left'[p] = {} <=> pc'[p] = "unlock",
             left'[p] # {} => pc'[p] = "bump",
             \A q \in Proc \ {p} : pc'[q] = pc[q] /\ left'[q] = left[q]
      PROVE  Locals'
  <2>1. \A q \in Proc \ {p} : pc[q] # "create"
    BY <1>7 DEF MutexInv
  <2>2. \A l \in Laptop : rating[l] # NoRating \/ l = laptop[p] => rating'[l] # NoRating
    BY <1>7, NoRatingType
  <2> QED
    BY <1>7, <2>1, <2>2
<1>8. ASSUME NEW p \in Proc, Create(p) \/ \E f \in Fields : Bump(p, f) PROVE Locals'
  <2>1. CASE Create(p)
    BY <2>1, <1>7, CreatedType DEF Create
  <2>2. ASSUME NEW f \in Fields, Bump(p, f) PROVE Locals'
    <3>1. Bumped(rating[laptop[p]], score[p], {f}) \in Rating
      BY <2>2, BumpedType DEF Bump
    <3>2. left'[p] = left[p] \ {f} /\ pc[p] = "bump" /\ left[p] # {}
      BY <2>2 DEF Bump
    <3>3. pc'[p] = IF left[p] = {f} THEN "unlock" ELSE "bump"
      BY <2>2 DEF Bump
    <3>4. left'[p] = {} <=> pc'[p] = "unlock"
      BY <3>2, <3>3
    <3>5. \A q \in Proc \ {p} : pc'[q] = pc[q] /\ left'[q] = left[q]
      BY <2>2 DEF Bump
    <3> QED
      BY <2>2, <3>1, <3>2, <3>3, <3>4, <3>5, <1>7 DEF Bump
  <2> QED
    BY <1>8, <2>1, <2>2
<1>9. ASSUME NEW p \in Proc, Unlock(p) PROVE Locals'
  BY <1>9 DEF Unlock
<1>10. ASSUME NEW p \in Proc, NEW f \in Reads, Read(p, f) PROVE Locals'
  BY <1>10 DEF Read
<1>11. ASSUME NEW p \in Proc, SendOk(p) PROVE Locals'
  BY <1>11 DEF SendOk, Clear
<1>12. ASSUME NEW p \in Proc, EndContext(p) PROVE Locals'
  BY <1>12 DEF EndContext
<1>13. ASSUME NEW l \in Laptop, StoreLaptop(l) PROVE Locals'
  BY <1>13 DEF StoreLaptop
<1> QED
  BY <1>1, <1>3, <1>4, <1>5, <1>6, <1>8, <1>9, <1>10, <1>11, <1>12, <1>13
     DEF Next, Receive, Serve, Add, Respond

LEMMA Invariant == Spec => []Inv
<1>1. Inv /\ [Next]_vars => Inv'
  BY NextType, NextMutex, NextLocals DEF Inv
<1> QED
  BY InitInv, <1>1, PTL DEF Spec

\* Every variable keeps its type; in particular the count stays a uint32.
THEOREM TypeCorrect == Spec => []TypeOK
BY Invariant, PTL DEF Inv

--------------------------------------------------------------------------------
(* The service implements the ledger: a rating is in it when it is created, or *)
(* when the first of its two fields is updated.                                *)

Ledger == [l \in Laptop |-> LedgerOf(l)]

\* What a stream has handed in, it has until it is answered; and only what is in the
\* store gets past Find.
Slips == \A p \in Proc :
           /\ pc[p] \notin Handling => laptop[p] = NoLaptop /\ score[p] = 0
           /\ pc[p] \in Handling \ {"find"} => laptop[p] \in stored

LEMMA InitLedger == Init => Slips /\ Abstract!Init
BY ProcAssumption DEF Init, Slips, Abstract!Init, Abstract!NoSlip, LedgerOf, HalfDone, Slip, Entered

LEMMA NextSlips == Inv /\ Slips /\ [Next]_vars => Slips'
<1> SUFFICES ASSUME Inv, Slips, [Next]_vars PROVE Slips'
  OBVIOUS
<1> USE DEF Inv, TypeOK, Slips, Goto, message
<1>1. CASE UNCHANGED vars
  BY <1>1 DEF vars
<1>2. ASSUME NEW p \in Proc, RateLaptop(p) \/ Receive(p) \/ CheckContext(p) \/ Find(p)
      PROVE  Slips'
  BY <1>2 DEF RateLaptop, Receive, Recv, RecvEnd, CheckContext, Find, Return, Clear
<1>3. ASSUME NEW p \in Proc, Lock(p) \/ Add(p) PROVE Slips'
  BY <1>3 DEF Lock, Lookup, Add, Create, Bump, Unlock
<1>4. ASSUME NEW p \in Proc, Respond(p) PROVE Slips'
  BY <1>4 DEF Respond, Read, SendOk, SendFail, Return, Clear
<1>5. ASSUME NEW p \in Proc, EndContext(p) PROVE Slips'
  BY <1>5 DEF EndContext
<1>6. ASSUME NEW l \in Laptop, StoreLaptop(l) PROVE Slips'
  BY <1>6 DEF StoreLaptop
<1> QED
  BY <1>1, <1>2, <1>3, <1>4, <1>5, <1>6 DEF Next, Serve

\* Nobody but the holder of the lock is half done.
LEMMA Quiet ==
  ASSUME Inv, NEW p \in Proc, rating' = rating, pc[p] # "bump",
         pc'[p] = "bump" => left'[p] = Fields,
         \A q \in Proc \ {p} : /\ pc'[q] = pc[q] /\ left'[q] = left[q]
                               /\ laptop'[q] = laptop[q] /\ score'[q] = score[q],
         mutex' = mutex \/ mutex = p \/ (mutex' = p /\ mutex = NoProc)
  PROVE  Ledger' = Ledger
<1> SUFFICES ASSUME NEW l \in Laptop PROVE LedgerOf(l)' = LedgerOf(l)
  BY DEF Ledger
<1>1. CASE mutex = p \/ mutex = NoProc
  <2>1. LedgerOf(l) = rating[l]
    BY <1>1, ProcAssumption DEF LedgerOf, HalfDone
  <2>2. \A q \in Proc : q # p => pc'[q] # "bump"
    BY <1>1, ProcAssumption DEF Inv, MutexInv
  <2>3. LedgerOf(l)' = rating[l]
    BY <2>2 DEF LedgerOf, HalfDone
  <2> QED
    BY <2>1, <2>3
<1>2. CASE mutex # p /\ mutex # NoProc
  <2>1. mutex \in Proc \ {p} /\ mutex' = mutex
    BY <1>2 DEF Inv, TypeOK
  <2>2. HalfDone(mutex, l)' = HalfDone(mutex, l)
    BY <2>1 DEF HalfDone
  <2>3. Completed(mutex)' = Completed(mutex) \/ ~HalfDone(mutex, l)
    BY <2>1 DEF Completed, Bumped, HalfDone
  <2> QED
    BY <2>1, <2>2, <2>3 DEF LedgerOf
<1> QED
  BY <1>1, <1>2

\* The last steps of Add on a laptop change the ledger by After, or not at all.
LEMMA CreateLedger ==
  ASSUME Inv, NEW p \in Proc, Create(p)
  PROVE  Ledger' = [Ledger EXCEPT ![laptop[p]] = Abstract!After(@, score[p])]
<1>1. mutex = p /\ mutex' = p /\ pc'[p] = "unlock" /\ laptop[p] \in Laptop
  BY DEF Inv, TypeOK, MutexInv, Locals, Create, Goto
<1>2. \A l \in Laptop : LedgerOf(l) = rating[l] /\ LedgerOf(l)' = rating'[l]
  BY <1>1 DEF LedgerOf, HalfDone, Create
<1>3. rating[laptop[p]] = NoRating
  BY DEF Inv, Locals, Create
<1> QED
  BY <1>1, <1>2, <1>3 DEF Inv, TypeOK, Create, Ledger, Abstract!After

LEMMA BumpLedger ==
  ASSUME Inv, NEW p \in Proc, NEW f \in Fields, Bump(p, f)
  PROVE  /\ left[p] = Fields \/ left[p] = {f}
         /\ left[p] = Fields =>
              Ledger' = [Ledger EXCEPT ![laptop[p]] = Abstract!After(@, score[p])]
         /\ left[p] = {f} => Ledger' = Ledger
<1> DEFINE l == laptop[p]
           s == score[p]
<1>1. mutex = p /\ mutex' = p /\ l \in Laptop /\ laptop' = laptop /\ score' = score
  BY DEF Inv, MutexInv, Locals, Bump, message
<1>2. rating[l] \in Rating /\ rating[l] # NoRating
  BY DEF Inv, TypeOK, Locals, Bump
<1>3. rating' = [rating EXCEPT ![l] = Bumped(@, s, {f})] /\ left'[p] = left[p] \ {f}
  BY DEF Inv, TypeOK, Bump
<1>4. \A k \in Laptop \ {l} : LedgerOf(k) = rating[k] /\ LedgerOf(k)' = rating[k]
  BY <1>1, <1>3 DEF LedgerOf, HalfDone, Inv, TypeOK
<1>5. CASE left[p] = Fields
  <2>1. LedgerOf(l) = rating[l]
    BY <1>1, <1>5 DEF LedgerOf, HalfDone
  <2>2. pc'[p] = "bump" /\ left'[p] = Fields \ {f} /\ left'[p] # Fields
    <3>1. left[p] # {f} /\ Fields \ {f} # Fields
      BY <1>5
    <3> QED
      BY <1>3, <1>5, <3>1 DEF Bump
  <2>3. LedgerOf(l)' = Bumped(rating'[l], s, Fields \ {f})
    BY <1>1, <2>2 DEF LedgerOf, HalfDone, Completed
  <2>4. rating'[l] = Bumped(rating[l], s, {f})
    BY <1>1, <1>3 DEF Inv, TypeOK
  <2>5. Bumped(Bumped(rating[l], s, {f}), s, Fields \ {f}) = Abstract!After(rating[l], s)
    <3>1. CASE f = "count"
      BY <1>2, <3>1 DEF Bumped, Abstract!After
    <3>2. CASE f = "sum"
      BY <1>2, <3>2 DEF Bumped, Abstract!After
    <3> QED
      BY <3>1, <3>2
  <2> QED
    BY <1>1, <1>4, <1>5, <2>1, <2>3, <2>4, <2>5 DEF Ledger
<1>6. CASE left[p] = {f}
  <2>1. LedgerOf(l) = Bumped(rating[l], s, {f})
    BY <1>1, <1>6 DEF LedgerOf, HalfDone, Completed, Bump
  <2>2. pc'[p] = "unlock"
    BY <1>6 DEF Inv, TypeOK, Bump, Goto
  <2>3. LedgerOf(l)' = rating'[l]
    BY <1>1, <2>2 DEF LedgerOf, HalfDone
  <2>4. \A k \in Laptop : LedgerOf(k)' = LedgerOf(k)
    BY <1>1, <1>2, <1>3, <1>4, <2>1, <2>3 DEF Inv, TypeOK
  <2> QED
    BY <1>6, <2>4 DEF Ledger
<1> QED
  BY <1>5, <1>6 DEF Inv, Locals, Bump

\* Steps that neither begin nor end the handling of a rating, and do not write it.
LEMMA LedgerWaits ==
  ASSUME Inv, Slips, NEW p \in Proc,
         \/ RateLaptop(p) \/ CheckContext(p) \/ RecvEnd(p) \/ Lock(p) \/ Unlock(p)
         \/ (\E f \in Reads : Read(p, f)) \/ EndContext(p)
  PROVE  UNCHANGED <<Ledger, stored, Slip, Entered>>
<1> USE DEF Inv, TypeOK, Goto, message
<1>1. CASE EndContext(p)
  BY <1>1 DEF EndContext, Ledger, LedgerOf, HalfDone, Completed, Slip, Entered
<1>2. CASE Lock(p)
  <2>1. pc'[p] \in {"create", "bump"} /\ (pc'[p] = "bump" => left'[p] = Fields)
    BY <1>2 DEF Lock, Lookup
  <2>2. \A q \in Proc \ {p} : pc'[q] = pc[q] /\ left'[q] = left[q]
    BY <1>2 DEF Lock, Lookup
  <2>3. rating' = rating /\ pc[p] = "lock" /\ mutex' = p /\ mutex = NoProc
        /\ stored' = stored /\ laptop' = laptop /\ score' = score
    BY <1>2 DEF Lock
  <2>4. Ledger' = Ledger BY <2>1, <2>2, <2>3, Quiet
  <2> QED BY <2>1, <2>2, <2>3, <2>4 DEF Slip, Entered, HalfDone
<1>3. CASE Unlock(p)
  <2>1. rating' = rating /\ pc[p] = "unlock" /\ pc'[p] = "read" /\ mutex = p
        /\ stored' = stored /\ laptop' = laptop /\ score' = score
    BY <1>3 DEF Unlock, MutexInv
  <2>2. \A q \in Proc \ {p} : pc'[q] = pc[q] /\ left'[q] = left[q]
    BY <1>3 DEF Unlock
  <2>3. Ledger' = Ledger BY <2>1, <2>2, Quiet
  <2> QED BY <2>1, <2>2, <2>3 DEF Slip, Entered, HalfDone
<1>4. CASE \E f \in Reads : Read(p, f)
  <2>1. rating' = rating /\ mutex' = mutex /\ pc[p] = "read" /\ pc'[p] \in {"read", "send"}
        /\ stored' = stored /\ laptop' = laptop /\ score' = score
    BY <1>4 DEF Read
  <2>2. \A q \in Proc \ {p} : pc'[q] = pc[q] /\ left'[q] = left[q]
    BY <1>4 DEF Read
  <2>3. Ledger' = Ledger BY <2>1, <2>2, Quiet
  <2> QED BY <2>1, <2>2, <2>3 DEF Slip, Entered, HalfDone
<1>5. CASE RateLaptop(p) \/ CheckContext(p) \/ RecvEnd(p)
  <2>1. rating' = rating /\ mutex' = mutex /\ stored' = stored
        /\ {pc[p], pc'[p]} \subseteq {"idle", "loop", "recv"}
    BY <1>5 DEF RateLaptop, CheckContext, RecvEnd, Return, Clear
  <2>2. \A q \in Proc \ {p} : /\ pc'[q] = pc[q] /\ left'[q] = left[q]
                              /\ laptop'[q] = laptop[q] /\ score'[q] = score[q]
    BY <1>5 DEF RateLaptop, CheckContext, RecvEnd, Return, Clear
  <2>3. laptop'[p] = laptop[p] /\ score'[p] = score[p]
    BY <1>5 DEF RateLaptop, CheckContext, RecvEnd, Return, Clear, Slips
  <2>4. Ledger' = Ledger BY <2>1, <2>2, Quiet
  <2> QED BY <2>1, <2>2, <2>3, <2>4 DEF Slip, Entered, HalfDone
<1> QED
  BY <1>1, <1>2, <1>3, <1>4, <1>5

\* A rating is handed in when it is received, ...
LEMMA RecvLedger ==
  ASSUME Inv, Slips, NEW p \in Proc, NEW l \in Laptop, NEW s \in Score, Recv(p, l, s)
  PROVE  Abstract!HandIn(p, l, s)
<1> USE DEF Inv, TypeOK, Goto
<1>1. rating' = rating /\ mutex' = mutex /\ stored' = stored /\ pc[p] = "recv" /\ pc'[p] = "find"
  BY DEF Recv
<1>2. \A q \in Proc \ {p} : /\ pc'[q] = pc[q] /\ left'[q] = left[q]
                            /\ laptop'[q] = laptop[q] /\ score'[q] = score[q]
  BY DEF Recv
<1>3. laptop[p] = NoLaptop /\ score[p] = 0 /\ laptop'[p] = l /\ score'[p] = s
  BY DEF Recv, Slips
<1>4. Ledger' = Ledger BY <1>1, <1>2, Quiet
<1>5. Entered' = Entered BY <1>1, <1>2 DEF Entered, HalfDone
<1>6. Slip[p] = Abstract!NoSlip BY <1>3 DEF Slip, Abstract!NoSlip
<1>7. Slip' = [Slip EXCEPT ![p] = [laptop |-> l, score |-> s]] BY <1>2, <1>3 DEF Slip
<1> QED
  BY <1>1, <1>4, <1>5, <1>6, <1>7 DEF Abstract!HandIn, Ledger

\* ... taken back unanswered only by Find, ...
LEMMA FindLedger ==
  ASSUME Inv, Slips, NEW p \in Proc, Find(p)
  PROVE  Abstract!Refuse(p) \/ UNCHANGED <<Ledger, stored, Slip, Entered>>
<1> USE DEF Inv, TypeOK, Goto, message
<1>1. rating' = rating /\ mutex' = mutex /\ stored' = stored /\ pc[p] = "find"
      /\ pc'[p] \in {"idle", "lock"}
  BY DEF Find, Return, Clear
<1>2. \A q \in Proc \ {p} : /\ pc'[q] = pc[q] /\ left'[q] = left[q]
                            /\ laptop'[q] = laptop[q] /\ score'[q] = score[q]
  BY DEF Find, Return, Clear
<1>3. Ledger' = Ledger BY <1>1, <1>2, Quiet
<1>4. Entered' = Entered /\ p \notin Entered BY <1>1, <1>2 DEF Entered, HalfDone
<1>5. CASE laptop[p] \in stored
  <2>1. laptop' = laptop /\ score' = score BY <1>5 DEF Find
  <2> QED BY <1>1, <1>3, <1>4, <2>1 DEF Slip
<1>6. CASE laptop[p] \notin stored
  <2>1. laptop'[p] = NoLaptop /\ score'[p] = 0 /\ laptop[p] \in Laptop
    BY <1>6 DEF Find, Return, Clear, Locals
  <2>2. Slip' = [Slip EXCEPT ![p] = Abstract!NoSlip] BY <1>2, <2>1 DEF Slip, Abstract!NoSlip
  <2>3. Slip[p].laptop = laptop[p] BY DEF Slip
  <2> QED BY <1>1, <1>3, <1>4, <1>6, <2>1, <2>2, <2>3 DEF Abstract!Refuse, Ledger
<1> QED
  BY <1>5, <1>6

\* ... entered when it is created, or when the first of its two fields is updated, ...
LEMMA AddLedger ==
  ASSUME Inv, Slips, NEW p \in Proc, Create(p) \/ \E f \in Fields : Bump(p, f)
  PROVE  Abstract!Enter(p) \/ UNCHANGED <<Ledger, stored, Slip, Entered>>
<1> USE DEF Inv, TypeOK, Goto, message
<1>1. /\ stored' = stored /\ laptop' = laptop /\ score' = score
      /\ laptop[p] \in stored /\ laptop[p] \in Laptop
      /\ \A q \in Proc \ {p} : pc'[q] = pc[q] /\ left'[q] = left[q]
  BY DEF Create, Bump, Slips, Locals
<1>2. Slip' = Slip /\ Slip[p] = [laptop |-> laptop[p], score |-> score[p]] BY <1>1 DEF Slip
<1>3. ASSUME p \notin Entered, Entered' = Entered \cup {p},
             Ledger' = [Ledger EXCEPT ![laptop[p]] = Abstract!After(@, score[p])]
      PROVE  Abstract!Enter(p)
  BY <1>1, <1>2, <1>3 DEF Abstract!Enter, Ledger
<1>4. CASE Create(p)
  <2>1. pc[p] = "create" /\ pc'[p] = "unlock" BY <1>4 DEF Create
  <2>2. p \notin Entered /\ Entered' = Entered \cup {p} BY <1>1, <2>1 DEF Entered, HalfDone
  <2> QED BY <1>3, <1>4, <2>2, CreateLedger
<1>5. ASSUME NEW f \in Fields, Bump(p, f)
      PROVE  Abstract!Enter(p) \/ UNCHANGED <<Ledger, stored, Slip, Entered>>
  <2>1. pc[p] = "bump" /\ left'[p] = left[p] \ {f} BY <1>5 DEF Bump
  <2>2. pc'[p] = IF left[p] = {f} THEN "unlock" ELSE "bump" BY <1>5, <2>1 DEF Bump
  <2>3. {f} # Fields
    <3>1. \E g \in Fields : g # f OBVIOUS
    <3> QED BY <3>1
  <2>4. CASE left[p] = Fields
    <3>1. pc'[p] = "bump" /\ left'[p] # Fields BY <2>1, <2>2, <2>3, <2>4
    <3>2. p \notin Entered BY <2>1, <2>4 DEF Entered, HalfDone
    <3>3. \A q \in Proc : q \in Entered' <=> q \in Entered \/ q = p
      BY <1>1, <3>1 DEF Entered, HalfDone
    <3>4. Entered' = Entered \cup {p} BY <3>3 DEF Entered
    <3> QED BY <1>3, <1>5, <2>4, <3>2, <3>4, BumpLedger
  <2>5. CASE left[p] = {f}
    <3>1. Entered' = Entered BY <1>1, <2>1, <2>2, <2>3, <2>5 DEF Entered, HalfDone
    <3> QED BY <1>1, <1>2, <1>5, <2>5, <3>1, BumpLedger
  <2> QED BY <1>5, <2>4, <2>5, BumpLedger
<1> QED
  BY <1>4, <1>5

\* ... and answered when the response is sent, whether it arrives or not.
LEMMA SendLedger ==
  ASSUME Inv, Slips, NEW p \in Proc, SendOk(p) \/ SendFail(p)
  PROVE  Abstract!Answer(p)
<1> USE DEF Inv, TypeOK, Goto
<1>1. rating' = rating /\ mutex' = mutex /\ stored' = stored /\ pc[p] = "send"
      /\ pc'[p] \in {"idle", "loop"} /\ laptop'[p] = NoLaptop /\ score'[p] = 0
  BY DEF SendOk, SendFail, Return, Clear
<1>2. \A q \in Proc \ {p} : /\ pc'[q] = pc[q] /\ left'[q] = left[q]
                            /\ laptop'[q] = laptop[q] /\ score'[q] = score[q]
  BY DEF SendOk, SendFail, Return, Clear
<1>3. Ledger' = Ledger BY <1>1, <1>2, Quiet
<1>4. p \in Entered /\ Entered' = Entered \ {p} BY <1>1, <1>2 DEF Entered, HalfDone
<1>5. Slip' = [Slip EXCEPT ![p] = Abstract!NoSlip] BY <1>1, <1>2 DEF Slip, Abstract!NoSlip
<1> QED
  BY <1>1, <1>3, <1>4, <1>5 DEF Abstract!Answer, Ledger

LEMMA NextLedger == Inv /\ Slips /\ [Next]_vars => [Abstract!Next]_<<Ledger, stored, Slip, Entered>>
<1> SUFFICES ASSUME Inv, Slips, [Next]_vars
             PROVE  Abstract!Next \/ UNCHANGED <<Ledger, stored, Slip, Entered>>
  OBVIOUS
<1>1. CASE UNCHANGED vars
  BY <1>1 DEF vars, message, Ledger, LedgerOf, HalfDone, Completed, Slip, Entered
<1>2. ASSUME NEW p \in Proc,
             RateLaptop(p) \/ Receive(p) \/ Lock(p) \/ Serve(p) \/ EndContext(p)
      PROVE  Abstract!Next \/ UNCHANGED <<Ledger, stored, Slip, Entered>>
  BY <1>2, LedgerWaits, RecvLedger, FindLedger, AddLedger, SendLedger
     DEF Receive, Serve, Add, Respond, Abstract!Next
<1>3. ASSUME NEW l \in Laptop, StoreLaptop(l) PROVE Abstract!StoreLaptop(l)
  <2>1. UNCHANGED <<Ledger, Slip, Entered>>
    BY <1>3 DEF StoreLaptop, message, Ledger, LedgerOf, HalfDone, Completed, Slip, Entered
  <2> QED BY <1>3, <2>1 DEF StoreLaptop, Abstract!StoreLaptop, Ledger
<1> QED
  BY <1>1, <1>2, <1>3 DEF Next, Abstract!Next

\* A rating that is received is refused for its laptop or goes into the ledger, whole
\* and once, before it is answered: however many streams rate one laptop at a time.
THEOREM ImplementsLedger == Spec => LedgerSpec
<1>1. Init => Abstract!Init /\ Slips
  BY InitLedger
<1>2. Inv /\ Slips /\ [Next]_vars => Slips' /\ [Abstract!Next]_<<Ledger, stored, Slip, Entered>>
  BY NextSlips, NextLedger
<1> QED
  BY <1>1, Invariant, <1>2, PTL DEF Spec, LedgerSpec, Abstract!Spec, Abstract!vars, Ledger

--------------------------------------------------------------------------------
(* Responses.  The count cannot wrap while there are fewer messages than its  *)
(* limit: the messages that have not been counted yet, and those that have,   *)
(* are at most the messages received.                                         *)

Pending == {p \in Proc : \/ pc[p] \in {"find", "lock", "create"}
                         \/ pc[p] = "bump" /\ "count" \in left[p]}
CountOf(l) == IF rating[l] = NoRating THEN 0 ELSE rating[l].count
Bounded == /\ IsFiniteSet(Pending)
           /\ \A l \in Laptop : CountOf(l) + Cardinality(Pending) <= received

LEMMA Increment ==
  ASSUME NEW c \in 0 .. CountLimit - 1
  PROVE  (c + 1) % CountLimit = IF c + 1 = CountLimit THEN 0 ELSE c + 1
OBVIOUS

LEMMA InitBounded == Init => Bounded
<1> SUFFICES ASSUME Init PROVE Bounded
  OBVIOUS
<1>1. Pending = {}
  BY DEF Init, Pending
<1> QED
  BY <1>1, FS_EmptySet DEF Bounded, CountOf, Init

\* A message joins the pending ones when it is received; it is counted, if at
\* all, when it leaves them.
LEMMA NextBounded == Inv /\ Bounded /\ [Next]_vars => Bounded'
<1> SUFFICES ASSUME Inv, Bounded, [Next]_vars PROVE Bounded'
  OBVIOUS
<1>0. /\ Cardinality(Pending) \in Nat /\ received \in Nat
      /\ \A l \in Laptop : CountOf(l) \in Nat
  BY FS_CardinalityType DEF Bounded, Inv, TypeOK, CountOf, Rating
<1>1. ASSUME rating' = rating, Pending' = Pending, received' = received PROVE Bounded'
  BY <1>1 DEF Bounded, CountOf
<1>2. ASSUME NEW p \in Pending, Pending' = Pending \ {p}, received' = received,
             \A l \in Laptop : CountOf(l)' <= CountOf(l) + 1 /\ CountOf(l)' \in Nat
      PROVE  Bounded'
  <2>1. IsFiniteSet(Pending') /\ Cardinality(Pending') = Cardinality(Pending) - 1
    BY <1>2, FS_RemoveElement DEF Bounded
  <2>2. ASSUME NEW l \in Laptop PROVE CountOf(l)' + Cardinality(Pending)' <= received'
    <3>1. CountOf(l) + Cardinality(Pending) <= received
      BY DEF Bounded
    <3>2. CountOf(l)' <= CountOf(l) + 1 /\ CountOf(l)' \in Nat
      BY <1>2
    <3>3. Cardinality(Pending)' = Cardinality(Pending) - 1 /\ received' = received
      BY <1>2, <2>1
    <3> QED
      BY <1>0, <3>1, <3>2, <3>3
  <2> QED
    BY <2>1, <2>2 DEF Bounded
<1>3. CASE UNCHANGED vars
  BY <1>3, <1>1 DEF vars, Pending
<1>4. ASSUME NEW p \in Proc, NEW l \in Laptop, NEW s \in Score, Recv(p, l, s) PROVE Bounded'
  <2>1. Pending' = Pending \cup {p} /\ p \notin Pending
    BY <1>4 DEF Pending, Recv, Goto, Inv, TypeOK
  <2>2. IsFiniteSet(Pending') /\ Cardinality(Pending') = Cardinality(Pending) + 1
    BY <2>1, FS_AddElement DEF Bounded
  <2>3. received' = received + 1 /\ rating' = rating
    BY <1>4 DEF Recv
  <2>4. ASSUME NEW k \in Laptop PROVE CountOf(k)' + Cardinality(Pending)' <= received'
    <3>1. CountOf(k) + Cardinality(Pending) <= received /\ CountOf(k)' = CountOf(k)
      BY <2>3 DEF Bounded, CountOf
    <3> QED
      BY <1>0, <2>2, <2>3, <3>1
  <2> QED
    BY <2>2, <2>4 DEF Bounded
<1>5. ASSUME NEW p \in Proc,
             RateLaptop(p) \/ RecvEnd(p) \/ CheckContext(p) \/ Lock(p) \/ Unlock(p) \/ Respond(p)
      PROVE  Bounded'
  <2>1. rating' = rating /\ received' = received
    BY <1>5 DEF RateLaptop, RecvEnd, CheckContext, Lock, Unlock, Respond, Read, SendOk, SendFail,
                Return
  <2>2. Pending' = Pending
    BY <1>5 DEF RateLaptop, RecvEnd, CheckContext, Lock, Lookup, Unlock, Respond, Read, SendOk,
                SendFail, Return, Clear, Pending, Goto, Inv, TypeOK
  <2> QED
    BY <2>1, <2>2, <1>1
<1>6. ASSUME NEW p \in Proc, Find(p) PROVE Bounded'
  <2>1. CASE Return(p)
    <3>1. Pending' = Pending \ {p} /\ p \in Pending
      BY <1>6, <2>1 DEF Find, Return, Clear, Pending, Goto, Inv, TypeOK
    <3>2. \A l \in Laptop : CountOf(l)' = CountOf(l)
      BY <2>1 DEF Return, CountOf
    <3> QED
      BY <1>0, <2>1, <3>1, <3>2, <1>2 DEF Return
  <2>2. CASE Goto(p, "lock") /\ UNCHANGED <<stored, rating, mutex, message, left, got, own, ended,
                                            received>>
    <3>1. Pending' = Pending
      BY <1>6, <2>2 DEF Find, Pending, Goto, Inv, TypeOK
    <3> QED
      BY <2>2, <3>1, <1>1
  <2> QED
    BY <1>6, <2>1, <2>2 DEF Find
<1>7. ASSUME NEW p \in Proc, Create(p) PROVE Bounded'
  <2>1. Pending' = Pending \ {p} /\ p \in Pending
    BY <1>7 DEF Create, Pending, Goto, Inv, TypeOK
  <2>2. rating[laptop[p]] = NoRating /\ laptop[p] \in Laptop
    BY <1>7 DEF Create, Inv, Locals
  <2>3. \A l \in Laptop : CountOf(l)' = IF l = laptop[p] THEN 1 ELSE CountOf(l)
    <3>1. [count |-> 1, sum |-> score[p]] # NoRating
      BY <1>7, CreatedType, NoRatingType DEF Create, Inv, Locals
    <3>2. \A l \in Laptop : rating'[l] = IF l = laptop[p] THEN [count |-> 1, sum |-> score[p]]
                                                         ELSE rating[l]
      BY <1>7, <2>2 DEF Create, Inv, TypeOK
    <3> QED
      BY <3>1, <3>2 DEF CountOf
  <2> QED
    BY <1>0, <1>7, <2>1, <2>3, <1>2 DEF Create
<1>8. ASSUME NEW p \in Proc, NEW f \in Fields, Bump(p, f) PROVE Bounded'
  <2>1. /\ laptop[p] \in Laptop /\ rating[laptop[p]] \in Rating
        /\ Bumped(rating[laptop[p]], score[p], {f}) \in Rating
        /\ received' = received
    BY <1>8, BumpedType DEF Bump, Inv, TypeOK, Locals
  <2>2. \A l \in Laptop : CountOf(l)' = IF l = laptop[p]
                                        THEN Bumped(rating[l], score[p], {f}).count
                                        ELSE CountOf(l)
    BY <1>8, <2>1, NoRatingType DEF Bump, CountOf, Inv, TypeOK
  <2>3. CASE f = "count"
    <3>1. Pending' = Pending \ {p} /\ p \in Pending
      BY <1>8, <2>3 DEF Bump, Pending, Goto, Inv, TypeOK
    <3>2. Bumped(rating[laptop[p]], score[p], {f}).count \in 0 .. rating[laptop[p]].count + 1
      BY <2>1, <2>3, Increment DEF Bumped, Rating
    <3>3. CountOf(laptop[p]) = rating[laptop[p]].count
      BY <2>1, NoRatingType DEF CountOf
    <3>4. \A l \in Laptop : CountOf(l)' <= CountOf(l) + 1 /\ CountOf(l)' \in Nat
      <4> SUFFICES ASSUME NEW l \in Laptop PROVE CountOf(l)' <= CountOf(l) + 1 /\ CountOf(l)' \in Nat
        OBVIOUS
      <4>1. CASE l = laptop[p]
        <5>1. rating[l].count \in Nat
          BY <2>1, <4>1 DEF Rating
        <5> QED
          BY <2>2, <3>2, <3>3, <4>1, <5>1
      <4>2. CASE l # laptop[p]
        BY <1>0, <2>2, <4>2
      <4> QED
        BY <4>1, <4>2
    <3> QED
      BY <2>1, <3>1, <3>4, <1>2
  <2>4. CASE f = "sum"
    <3>1. Pending' = Pending
      BY <1>8, <2>4 DEF Bump, Pending, Goto, Inv, TypeOK, Locals
    <3>2. \A l \in Laptop : CountOf(l)' = CountOf(l)
      BY <2>1, <2>2, <2>4, NoRatingType DEF Bumped, CountOf
    <3> QED
      BY <2>1, <3>1, <3>2 DEF Bounded
  <2> QED
    BY <2>3, <2>4
<1>9. ASSUME NEW p \in Proc, EndContext(p) PROVE Bounded'
  BY <1>9, <1>1 DEF EndContext, Pending
<1>10. ASSUME NEW l \in Laptop, StoreLaptop(l) PROVE Bounded'
  BY <1>10, <1>1 DEF StoreLaptop, Pending
<1> QED
  BY <1>3, <1>4, <1>5, <1>6, <1>7, <1>8, <1>9, <1>10 DEF Next, Receive, Serve, Add

\* Before the count wraps, every rating has been given at least once ...
Positive == received < CountLimit =>
              \A l \in Laptop : rating[l] # NoRating => rating[l].count >= 1

\* ... and counts and sums only grow.
LEMMA Monotone ==
  ASSUME Inv, Bounded, Positive, [Next]_vars, received' < CountLimit,
         NEW l \in Laptop, rating'[l] # NoRating
  PROVE  /\ rating'[l].count \in Nat /\ rating'[l].sum \in Nat
         /\ rating'[l].count >= 1
         /\ rating[l] # NoRating => /\ rating[l].count \in Nat /\ rating[l].sum \in Nat
                                    /\ rating[l].count <= rating'[l].count
                                    /\ rating[l].sum <= rating'[l].sum
<1>0. received \in Nat /\ CountLimit \in Nat
  BY DEF Inv, TypeOK
<1>1. received <= received'
  <2>1. received' = received \/ received' = received + 1
    BY DEF vars, Next, Receive, Recv, RecvEnd, Serve, Add, Respond, RateLaptop, Lock, CheckContext,
           Find, Create, Bump, Unlock, Read, SendOk, SendFail, Return, EndContext, StoreLaptop
  <2> QED
    BY <2>1, <1>0
<1>2. received < CountLimit
  <2>1. received' \in Nat
    BY NextType DEF TypeOK
  <2> QED
    BY <1>0, <1>1, <2>1
<1>3. rating[l] # NoRating => /\ rating[l] \in Rating /\ rating[l].count \in Nat
                              /\ rating[l].sum \in Nat /\ rating[l].count >= 1
  BY <1>2 DEF Inv, TypeOK, Positive, Rating
<1>4. CASE rating'[l] = rating[l]
  BY <1>3, <1>4
<1>5. CASE \E p \in Proc : Create(p) /\ l = laptop[p]
  <2>1. PICK p \in Proc : Create(p) /\ l = laptop[p]
    BY <1>5
  <2>2. rating[l] = NoRating /\ score[p] \in Nat
    BY <2>1 DEF Create, Inv, Locals
  <2>3. rating'[l] = [count |-> 1, sum |-> score[p]]
    BY <2>1 DEF Create, Inv, TypeOK
  <2> QED
    BY <2>2, <2>3
<1>6. CASE \E p \in Proc, f \in Fields : Bump(p, f) /\ l = laptop[p]
  <2>1. PICK p \in Proc, f \in Fields : Bump(p, f) /\ l = laptop[p]
    BY <1>6
  <2>2. rating[l] # NoRating /\ score[p] \in Nat
    BY <2>1 DEF Bump, Inv, Locals
  <2>3. rating'[l] = Bumped(rating[l], score[p], {f})
    BY <2>1 DEF Bump, Inv, TypeOK
  <2>4. CASE f = "count"
    <3>1. p \in Pending
      BY <2>1, <2>4 DEF Bump, Pending
    <3>2. Cardinality(Pending) >= 1 /\ Cardinality(Pending) \in Nat
      <4>1. Cardinality(Pending) # 0
        BY <3>1, FS_EmptySet DEF Bounded
      <4> QED
        BY <4>1, FS_CardinalityType DEF Bounded
    <3>3. rating[l].count + Cardinality(Pending) <= received
      BY <2>2 DEF Bounded, CountOf
    <3>4. rating[l].count + 1 # CountLimit /\ rating[l].count \in 0 .. CountLimit - 1
      BY <1>0, <1>2, <1>3, <2>2, <3>2, <3>3 DEF Rating
    <3>5. rating'[l].count = rating[l].count + 1 /\ rating'[l].sum = rating[l].sum
      BY <2>3, <2>4, <3>4, Increment DEF Bumped
    <3> QED
      BY <1>3, <2>2, <3>5
  <2>5. CASE f = "sum"
    <3>1. rating'[l].count = rating[l].count /\ rating'[l].sum = rating[l].sum + score[p]
      BY <2>3, <2>5 DEF Bumped
    <3> QED
      BY <1>3, <2>2, <3>1
  <2> QED
    BY <2>4, <2>5
<1>7. rating'[l] = rating[l] \/ (\E p \in Proc : Create(p) /\ l = laptop[p])
                             \/ (\E p \in Proc, f \in Fields : Bump(p, f) /\ l = laptop[p])
  <2>1. ASSUME NEW p \in Proc, Create(p), l # laptop[p] PROVE rating'[l] = rating[l]
    BY <2>1 DEF Create, Inv, TypeOK
  <2>2. ASSUME NEW p \in Proc, NEW f \in Fields, Bump(p, f), l # laptop[p]
        PROVE  rating'[l] = rating[l]
    BY <2>2 DEF Bump, Inv, TypeOK
  <2>3. \/ rating' = rating
        \/ \E p \in Proc : Create(p)
        \/ \E p \in Proc, f \in Fields : Bump(p, f)
    BY DEF vars, Next, Receive, Recv, RecvEnd, Serve, Add, Respond, RateLaptop, Lock, CheckContext,
           Find, Unlock, Read, SendOk, SendFail, Return, EndContext, StoreLaptop
  <2> QED
    BY <2>1, <2>2, <2>3
<1> QED
  BY <1>4, <1>5, <1>6, <1>7

LEMMA NextPositive == Inv /\ Bounded /\ Positive /\ [Next]_vars => Positive'
BY Monotone DEF Positive

\* A response that has been begun stays within its window, because the window
\* only grows on the right; a new one begins with the window of its own Add.
LEMMA NextWindow ==
  Inv /\ Bounded /\ Positive /\ ReplyWithinWindow /\ [Next]_vars => ReplyWithinWindow'
<1> SUFFICES ASSUME Inv, Bounded, Positive, ReplyWithinWindow, [Next]_vars,
                    received' < CountLimit,
                    NEW p \in Proc, pc'[p] \in {"read", "send"}
             PROVE  LET r == rating'[laptop'[p]] IN
                    /\ own'[p].count \in 1 .. r.count /\ own'[p].sum <= r.sum
                    /\ "count" \notin left'[p] => got'[p].count \in own'[p].count .. r.count
                    /\ "sum" \notin left'[p] => got'[p].sum \in own'[p].sum .. r.sum
                    /\ "divisor" \notin left'[p] => got'[p].divisor \in own'[p].count .. r.count
  BY DEF ReplyWithinWindow
<1>0. TypeOK' /\ Locals' /\ received < CountLimit
  <2>1. TypeOK' /\ Locals'
    BY NextType, NextLocals
  <2>2. received' = received \/ received' = received + 1
    BY DEF vars, Next, Receive, Recv, RecvEnd, Serve, Add, Respond, RateLaptop, Lock, CheckContext,
           Find, Create, Bump, Unlock, Read, SendOk, SendFail, Return, EndContext, StoreLaptop
  <2> QED
    BY <2>1, <2>2 DEF Inv, TypeOK
<1> DEFINE l == laptop[p]
           Kept == /\ laptop'[p] = l /\ pc[p] \in {"read", "send"}
                   /\ own'[p] = own[p] /\ got'[p] = got[p] /\ left'[p] = left[p]
<1>1. CASE Kept
  <2>1. /\ rating'[l] # NoRating /\ rating[l] # NoRating /\ l \in Laptop
        /\ own[p].count \in Nat /\ own[p].sum \in Nat
        /\ got[p].count \in Nat /\ got[p].sum \in Nat /\ got[p].divisor \in Nat
    BY <1>0, <1>1 DEF Inv, TypeOK, Locals, Rating
  <2>2. /\ rating'[l].count \in Nat /\ rating'[l].sum \in Nat
        /\ rating[l].count \in Nat /\ rating[l].sum \in Nat
        /\ rating[l].count <= rating'[l].count /\ rating[l].sum <= rating'[l].sum
    BY <2>1, Monotone
  <2>3. /\ own[p].count \in 1 .. rating[l].count /\ own[p].sum <= rating[l].sum
        /\ "count" \notin left[p] => got[p].count \in own[p].count .. rating[l].count
        /\ "sum" \notin left[p] => got[p].sum \in own[p].sum .. rating[l].sum
        /\ "divisor" \notin left[p] => got[p].divisor \in own[p].count .. rating[l].count
    BY <1>0, <1>1 DEF ReplyWithinWindow
  <2> QED
    BY <1>1, <2>1, <2>2, <2>3
<1>2. CASE Unlock(p)
  <2>1. /\ laptop' = laptop /\ rating' = rating /\ own'[p] = rating[l] /\ left'[p] = Reads
        /\ l \in Laptop /\ rating[l] # NoRating
    BY <1>2 DEF Unlock, Inv, TypeOK, Locals, message
  <2>2. rating[l].count \in Nat /\ rating[l].sum \in Nat /\ rating[l].count >= 1
    BY <2>1, Monotone
  <2> QED
    BY <2>1, <2>2
<1>3. CASE \E f \in Reads : Read(p, f)
  <2>1. PICK f \in Reads : Read(p, f)
    BY <1>3
  <2>2. /\ laptop' = laptop /\ rating' = rating /\ own' = own /\ pc[p] \in {"read", "send"}
        /\ left'[p] = left[p] \ {f} /\ got'[p] = Loaded(got[p], rating[l], f)
        /\ l \in Laptop /\ rating[l] # NoRating
    BY <2>1 DEF Read, Inv, TypeOK, Locals, message
  <2>3. /\ own[p].count \in 1 .. rating[l].count /\ own[p].sum <= rating[l].sum
        /\ "count" \notin left[p] => got[p].count \in own[p].count .. rating[l].count
        /\ "sum" \notin left[p] => got[p].sum \in own[p].sum .. rating[l].sum
        /\ "divisor" \notin left[p] => got[p].divisor \in own[p].count .. rating[l].count
    BY <1>0, <2>2 DEF ReplyWithinWindow
  <2>4. /\ rating[l].count \in Nat /\ rating[l].sum \in Nat
        /\ own[p].count \in Nat /\ own[p].sum \in Nat
    BY <2>2 DEF Inv, TypeOK, Rating
  <2>5. /\ got'[p].count = IF f = "count" THEN rating[l].count ELSE got[p].count
        /\ got'[p].sum = IF f = "sum" THEN rating[l].sum ELSE got[p].sum
        /\ got'[p].divisor = IF f = "divisor" THEN rating[l].count ELSE got[p].divisor
    BY <2>2 DEF Loaded
  <2> QED
    BY <2>2, <2>3, <2>4, <2>5
<1>4. Kept \/ Unlock(p) \/ \E f \in Reads : Read(p, f)
  <2>1. CASE UNCHANGED vars
    BY <2>1 DEF vars
  <2>2. ASSUME NEW q \in Proc, q # p,
               RateLaptop(q) \/ Receive(q) \/ Lock(q) \/ Serve(q)
        PROVE  Kept
    BY <2>2 DEF RateLaptop, Receive, Recv, RecvEnd, Lock, Lookup, Serve, CheckContext, Find, Add,
                Create, Bump, Unlock, Respond, Read, SendOk, SendFail, Return, Clear, Goto, message,
                Inv, TypeOK
  <2>3. ASSUME RateLaptop(p) \/ Receive(p) \/ Lock(p) \/ Serve(p), ~Unlock(p),
               ~\E f \in Reads : Read(p, f)
        PROVE  FALSE
    BY <2>3 DEF RateLaptop, Receive, Recv, RecvEnd, Lock, Lookup, Serve, CheckContext, Find, Add,
                Create, Bump, Respond, SendOk, SendFail, Return, Clear, Goto, Inv, TypeOK
  <2>4. ASSUME NEW q \in Proc, EndContext(q) PROVE Kept
    BY <2>4 DEF EndContext, message
  <2>5. ASSUME NEW k \in Laptop, StoreLaptop(k) PROVE Kept
    BY <2>5 DEF StoreLaptop, message
  <2> QED
    BY <2>1, <2>2, <2>3, <2>4, <2>5 DEF Next
<1> QED
  BY <1>1, <1>2, <1>3, <1>4

\* What a stream is told lies between its own rating and the present one, though
\* it is read while others write: until 2^32 messages have been received.
THEOREM ResponsesWithinWindow == Spec => []ReplyWithinWindow
<1>1. Init => Positive /\ ReplyWithinWindow
  BY DEF Init, Positive, ReplyWithinWindow
<1> QED
  BY Invariant, InitBounded, NextBounded, <1>1, NextPositive, NextWindow, PTL DEF Spec

================================================================================
