-------------------------------- MODULE Catalog --------------------------------
(***************************************************************************)
(* What a caller of the laptop service may rely on: a call that creates or *)
(* gets a laptop does so at one moment between its request and its answer, *)
(* and is answered by what it did at that moment; a search works on the    *)
(* catalog as it was at one such moment.  There are no locks here, and     *)
(* nothing keeps a save from happening while a search streams its results. *)
(***************************************************************************)

CONSTANTS Proc,    \* the calls
          Id,      \* laptop ids
          NoId,    \* an id that no laptop has
          Body,    \* what a laptop is, apart from its id
          NoBody,  \* no laptop under this id
          Filter   \* search filters: a filter is the set of bodies it accepts

VARIABLES data,             \* the catalog
          status,           \* what p is doing, or the code of its last answer
          id, body, filter, \* what is asked for in the call of p
          owed,             \* owed[p]: the laptops p's search has yet to send
          alive             \* the calls whose context has not ended

request == <<id, body, filter>>
vars == <<data, status, request, owed, alive>>

Matches(d, f) == {i \in Id : d[i] \in f}

Busy == {"create", "get", "search", "results"}
Ended == {"Canceled", "DeadlineExceeded"}

Init == /\ data = [i \in Id |-> NoBody]
        /\ status = [p \in Proc |-> "new"]
        /\ id = [p \in Proc |-> NoId]
        /\ body = [p \in Proc |-> NoBody]
        /\ filter = [p \in Proc |-> {}]
        /\ owed = [p \in Proc |-> {}]
        /\ alive = Proc

Begin(p, method) == /\ status[p] \notin Busy
                    /\ status' = [status EXCEPT ![p] = method]

Finish(p, code) == /\ status' = [status EXCEPT ![p] = code]
                   /\ id' = [id EXCEPT ![p] = NoId]
                   /\ body' = [body EXCEPT ![p] = NoBody]
                   /\ filter' = [filter EXCEPT ![p] = {}]
                   /\ owed' = [owed EXCEPT ![p] = {}]
                   /\ alive' = alive \cup {p}

CreateLaptop(p) == /\ Begin(p, "create")
                   /\ \E i \in Id : id' = [id EXCEPT ![p] = i]
                   /\ \E b \in Body : body' = [body EXCEPT ![p] = b]
                   /\ UNCHANGED <<data, filter, owed, alive>>

\* The answer is OK if and only if the laptop is stored, the one that was asked for.
Save(p) == /\ status[p] = "create"
           /\ data' = [data EXCEPT ![id[p]] = body[p]]
           /\ Finish(p, "OK")

GiveUp(p) == /\ status[p] = "create" /\ p \notin alive
             /\ \E code \in Ended : Finish(p, code)
             /\ UNCHANGED data

\* No usable id.
Refuse(p) == /\ status[p] \notin Busy
             /\ \E code \in {"InvalidArgument", "Internal"} : Finish(p, code)
             /\ UNCHANGED data

GetLaptopByID(p) == /\ Begin(p, "get")
                    /\ \E i \in Id \cup {NoId} : id' = [id EXCEPT ![p] = i]
                    /\ UNCHANGED <<data, body, filter, owed, alive>>

Find(p) == /\ status[p] = "get"
           /\ Finish(p, IF id[p] \in Id /\ data[id[p]] # NoBody THEN "OK" ELSE "NotFound")
           /\ UNCHANGED data

SearchLaptop(p) == /\ Begin(p, "search")
                   /\ \E f \in Filter : filter' = [filter EXCEPT ![p] = f]
                   /\ UNCHANGED <<data, id, body, owed, alive>>

\* A search takes its results from the catalog of this moment.
Open(p) == /\ status[p] = "search"
           /\ status' = [status EXCEPT ![p] = "results"]
           /\ owed' = [owed EXCEPT ![p] = Matches(data, filter[p])]
           /\ UNCHANGED <<data, request, alive>>

\* One result is sent, and never again.
Emit(p) == /\ status[p] = "results"
           /\ \E i \in owed[p] : owed' = [owed EXCEPT ![p] = @ \ {i}]
           /\ UNCHANGED <<data, status, request, alive>>

\* A search ends when it owes nothing, or once its caller has gone.
Close(p) == /\ status[p] = "results"
            /\ \/ owed[p] = {} /\ Finish(p, "OK")
               \/ p \notin alive /\ \E code \in {"OK", "Internal"} : Finish(p, code)
            /\ UNCHANGED data

\* The context of p's call ends.
Leave(p) == /\ status[p] \in Busy
            /\ alive' = alive \ {p}
            /\ UNCHANGED <<data, status, request, owed>>

Next == \E p \in Proc : \/ CreateLaptop(p) \/ Save(p) \/ GiveUp(p) \/ Refuse(p)
                        \/ GetLaptopByID(p) \/ Find(p)
                        \/ SearchLaptop(p) \/ Open(p) \/ Emit(p) \/ Close(p)
                        \/ Leave(p)

Spec == Init /\ [][Next]_vars

================================================================================
