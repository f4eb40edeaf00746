-------------------------------- MODULE RWMutex --------------------------------
(***************************************************************************)
(* Go's sync.RWMutex, as the stores of the laptop service use it.          *)
(*                                                                         *)
(* A mutex is a record: `writer' is the goroutine that has announced a     *)
(* Lock (or NoProc), `readers' the goroutines that hold the read lock,     *)
(* `blocked' those whose RLock found a writer announced.  An announced     *)
(* writer waits for the readers it found and keeps out the ones that come  *)
(* later; when it unlocks, everyone it kept out becomes a reader at once.  *)
(***************************************************************************)

CONSTANTS Proc,    \* the goroutines: one for each call in progress
          NoProc   \* no goroutine

ASSUME ProcAssumption == NoProc \notin Proc

RWMutexType == [writer : Proc \cup {NoProc}, readers : SUBSET Proc, blocked : SUBSET Proc]

Unlocked == [writer |-> NoProc, readers |-> {}, blocked |-> {}]

\* Lock(), first half: p owns the writers' turn and has announced itself.
Announce(m, p) == [m EXCEPT !.writer = p]

\* Lock() returns to p: the readers it found are gone.
HoldsWrite(m, p) == m.writer = p /\ m.readers = {}

Unlock(m) == [writer |-> NoProc, readers |-> m.readers \cup m.blocked, blocked |-> {}]

RLock(m, p) == IF m.writer = NoProc
               THEN [m EXCEPT !.readers = @ \cup {p}]
               ELSE [m EXCEPT !.blocked = @ \cup {p}]

RUnlock(m, p) == [m EXCEPT !.readers = @ \ {p}]

================================================================================
