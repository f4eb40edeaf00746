---------------------------- MODULE ClientProgram ----------------------------
(***************************************************************************)
(* The laptop client from its first call to its last: main                 *)
(* (cmd/client/main.go), the methods of LaptopClient it calls one after    *)
(* the other (client/laptop_client.go), with RateClient for the ratings,   *)
(* the stubs of ecommerce/laptop-service_grpc.pb.go, and at the other end  *)
(* of the connection a server whose laptops are in memory, which serves    *)
(* other clients as well and may be restarted.                             *)
(*                                                                         *)
(* The server's handlers are steps here (LaptopStore has their locks).     *)
(* Laptop i of the program has the id i, laptops of others have ids from   *)
(* Foreign.                                                                *)
(***************************************************************************)
EXTENDS RateClient, LaptopFilter, SampleData

CONSTANTS Copies,       \* 10: how often testSearchLaptop creates its laptop
          Sample,       \* bound: the laptops that NewLaptop makes
          Foreign,      \* the laptops of other clients, by their ids
          MaxRestarts   \* bound: restarts of the server

ASSUME SampleAssumption == Sample \subseteq NewLaptop
ASSUME ProgramAssumption == Copies \in Nat \ {0} /\ MaxRestarts \in Nat
ASSUME IdAssumption == \A i \in 1 .. N : laptopIDs[i] = 3 + i
ASSUME ForeignAssumption ==
  /\ DOMAIN Foreign \cap 1 .. (4 + N) = {}
  /\ \A id \in DOMAIN Foreign : Foreign[id].ram \in Memory

\* The memory of the laptops that NewLaptop makes fits in a word.
ASSUME FitAssumption == 64 * Weight["GIGABYTE"] < Word

\* testCreateLaptop, testGetLaptopByID, testSearchLaptop, testRateLaptop,
\* testUploadImage: the calls of main, as method and id of the laptop.
Script ==
  << <<"CreateLaptop", 1>>, <<"CreateLaptop", 2>>, <<"GetLaptopByID", 2>> >>
  \o [i \in 1 .. Copies |-> <<"CreateLaptop", 3>>]
  \o << <<"SearchLaptop", 0>> >>
  \o [i \in 1 .. N |-> <<"CreateLaptop", laptopIDs[i]>>]
  \o << <<"RateLaptop", 0>>, <<"CreateLaptop", 4 + N>>, <<"UploadImage", 4 + N>> >>

\* The filter of SearchLaptopClient.
Filter == [maxPriceUsd |-> 3000, minCpuCores |-> 4, minCpuGhz |-> 25,
           minRam |-> [value |-> 8, unit |-> "GIGABYTE"]]

VARIABLES step,      \* the number of calls of Script that main has made
          phase,     \* where the program is
          drawn,     \* the laptops it has made
          reply,     \* the code of the response to a unary call
          created,   \* the ids it has created in the server as it is running
          scan,      \* the ids that the search in the server has still to visit
          late,      \* the deadline of the search has come, in the server
          found,     \* the ids printed by SearchLaptopClient
          restarts

local == <<step, phase, drawn, reply>>
search == <<scan, late, found>>
vars == <<local, created, search, restarts, stored, rateVars>>

Method == Script[step + 1][1]
Laptop == Script[step + 1][2]
InFlight == {"called", "answered", "searching", "scanned", "rating"}
Running == {"idle"} \cup InFlight
\* The laptop of an id, in whichever server.
Known(id) == IF id \in DOMAIN Foreign THEN Foreign[id] ELSE drawn[id]

Put(f, id, value) == [i \in DOMAIN f \cup {id} |-> IF i = id THEN value ELSE f[i]]

TypeOK ==
  /\ step \in 0 .. Len(Script)
  /\ phase \in {"login", "dead", "panic", "done"} \cup Running
  /\ DOMAIN drawn \subseteq 1 .. (4 + N)
  /\ \A i \in DOMAIN drawn : drawn[i] \in Sample
  /\ reply \in {"none", "OK", "AlreadyExists"}
  /\ created \subseteq DOMAIN drawn \cap DOMAIN stored
  /\ \A i \in DOMAIN stored : IF i \in DOMAIN Foreign THEN stored[i] = Foreign[i]
                              ELSE i \in DOMAIN drawn /\ stored[i] = drawn[i]
  /\ scan \subseteq DOMAIN stored /\ found \subseteq DOMAIN drawn \cup DOMAIN Foreign
  /\ scan \cap found = {}
  /\ late \in BOOLEAN
  /\ restarts \in 0 .. MaxRestarts
  /\ RateTypeOK

Init == /\ step = 0
        /\ phase = "login"
        /\ drawn = << >>
        /\ reply = "none"
        /\ created = {}
        /\ scan = {} /\ late = FALSE /\ found = {}
        /\ restarts = 0
        /\ stored = << >>
        /\ RateInit

--------------------------------------------------------------------------------
(* The process *)

\* log.Fatal, or the end of main: whatever the program was doing is over.
Exit(how) == /\ phase' = how
             /\ reply' = "none"
             /\ scan' = {} /\ late' = FALSE /\ found' = {}
             /\ UNCHANGED <<step, drawn, created, restarts, stored, rateVars>>

\* NewAuthInterceptor logs in; without a token there is no second connection.
LogIn == /\ phase = "login"
         /\ phase' = "idle"
         /\ UNCHANGED <<step, drawn, reply, created, search, restarts, stored, rateVars>>

\* TokenRefresh has the reasons for which a login ends the process at any time.
LoginFails == phase \in {"login"} \cup Running /\ Exit("dead")

Finish == phase = "idle" /\ step = Len(Script) /\ Exit("done")

--------------------------------------------------------------------------------
(* CreateLaptopClient, GetLaptopByIDClient, UploadImageClient *)

\* NewLaptop comes before the first call about a laptop; the copies of the third
\* are one and the same laptop.
Call == /\ phase = "idle"
        /\ step < Len(Script)
        /\ Method \in {"CreateLaptop", "GetLaptopByID", "UploadImage"}
        /\ phase' = "called"
        /\ IF Laptop \in DOMAIN drawn THEN UNCHANGED drawn
           ELSE \E laptop \in Sample : drawn' = Put(drawn, Laptop, laptop)
        /\ UNCHANGED <<step, reply, created, search, restarts, stored, rateVars>>

Answer(code) == /\ phase' = "answered"
                /\ reply' = code
                /\ UNCHANGED <<step, drawn, search, restarts, rateVars>>

\* Mutant: Save returns the error it logs.
CreateLaptopOnce ==
  /\ phase = "called" /\ Method = "CreateLaptop"
  /\ IF Laptop \in DOMAIN stored
     THEN Answer("AlreadyExists") /\ UNCHANGED <<stored, created>>
     ELSE /\ Answer("OK")
          /\ stored' = Put(stored, Laptop, drawn[Laptop])
          /\ created' = created \cup {Laptop}

\* Save logs that the id is taken, and goes on.
CreateLaptop == /\ phase = "called" /\ Method = "CreateLaptop"
                /\ Answer("OK")
                /\ stored' = Put(stored, Laptop, drawn[Laptop])
                /\ created' = created \cup {Laptop}

\* GetLaptopByID and UploadImage need a laptop that the server has.
UseLaptop == /\ phase = "called" /\ Method \in {"GetLaptopByID", "UploadImage"}
             /\ Laptop \in DOMAIN stored
             /\ Answer("OK")
             /\ UNCHANGED <<stored, created>>

\* CreateLaptopClient takes AlreadyExists for no error, and then reads the id from
\* the response, which is nil.
Return == /\ phase = "answered"
          /\ IF reply = "AlreadyExists" THEN Exit("panic")
             ELSE /\ phase' = "idle"
                  /\ step' = step + 1
                  /\ reply' = "none"
                  /\ UNCHANGED <<drawn, created, search, restarts, stored, rateVars>>

\* Five seconds are over, the server is lost or has refused the call, before or
\* after serving it: any other error ends the process.
CallFails == phase \in InFlight \ {"rating"} /\ Exit("dead")

--------------------------------------------------------------------------------
(* SearchLaptopClient *)

Search == /\ phase = "idle"
          /\ step < Len(Script)
          /\ Method = "SearchLaptop"
          /\ phase' = "searching"
          /\ scan' = DOMAIN stored
          /\ UNCHANGED <<step, drawn, reply, created, late, found, restarts, stored, rateVars>>

\* A round of the server's loop, in the map's random order, and of the client's.
Visit(id) == /\ phase = "searching" /\ id \in scan
             /\ scan' = scan \ {id}
             /\ found' = IF isQualified(Filter, stored[id]) THEN found \cup {id} ELSE found
             /\ UNCHANGED <<local, created, late, restarts, stored, rateVars>>

\* The client's deadline travels with the call: the server may see it first.
DeadlineComes == /\ phase = "searching"
                 /\ ~late
                 /\ late' = TRUE
                 /\ UNCHANGED <<local, created, scan, found, restarts, stored, rateVars>>

\* A search whose context has ended returns nil, as one that has seen all does.
SearchReturns == /\ phase = "searching"
                 /\ scan = {} \/ late
                 /\ phase' = "scanned"
                 /\ scan' = {}
                 /\ UNCHANGED <<step, drawn, reply, created, late, found, restarts, stored, rateVars>>

SearchEOF == /\ phase = "scanned"
             /\ phase' = "idle"
             /\ step' = step + 1
             /\ late' = FALSE /\ found' = {}
             /\ UNCHANGED <<drawn, reply, created, scan, restarts, stored, rateVars>>

--------------------------------------------------------------------------------
(* testRateLaptop, from its prompt on *)

RateAgain == /\ phase = "idle"
             /\ step < Len(Script)
             /\ Method = "RateLaptop"
             /\ phase' = "rating"
             /\ RateLaptopClient
             /\ UNCHANGED <<step, drawn, reply, created, search, restarts>>

RateEnough == /\ phase = "idle"
              /\ step < Len(Script)
              /\ Method = "RateLaptop"
              /\ step' = step + 1
              /\ UNCHANGED <<phase, drawn, reply, created, search, restarts, stored, rateVars>>

Rating(A) == phase = "rating" /\ A /\ UNCHANGED <<local, created, search, restarts>>

RateReturned == /\ phase = "rating"
                /\ rater = "idle"
                /\ IF outcome # "nil" THEN Exit("dead")
                   ELSE /\ phase' = "idle"
                        /\ UNCHANGED <<step, drawn, reply, created, search, restarts, stored, rateVars>>

--------------------------------------------------------------------------------
(* The server and its other clients *)

\* A search keeps other clients' writers out.
OtherCreates(id) == /\ id \notin DOMAIN stored
                    /\ phase # "searching"
                    /\ stored' = Put(stored, id, Foreign[id])
                    /\ UNCHANGED <<local, created, search, restarts, rateVars>>

\* The laptops are lost, and the streams; a request that the old server has not
\* seen may reach the new one, and an answer that it has sent may reach the client.
Restart == /\ restarts < MaxRestarts
           /\ restarts' = restarts + 1
           /\ stored' = << >>
           /\ created' = {}
           /\ IF phase = "searching"
              THEN phase' = "dead" /\ scan' = {} /\ late' = FALSE /\ found' = {}
              ELSE UNCHANGED <<phase, search>>
           /\ IF handler \in {"recv", "answer"} THEN EndStream("error")
              ELSE UNCHANGED <<handler, status>>
           /\ UNCHANGED <<step, drawn, reply, client, counted, replied>>

--------------------------------------------------------------------------------

Next == \/ LogIn \/ LoginFails \/ Finish
        \/ Call \/ CreateLaptop \/ UseLaptop \/ Return \/ CallFails
        \/ Search \/ DeadlineComes \/ SearchReturns \/ SearchEOF
        \/ \E id \in scan : Visit(id)
        \/ RateAgain \/ RateEnough \/ RateReturned
        \/ Rating(Sender) \/ Rating(Receiver) \/ Rating(Handler) \/ Rating(RateExpires)
        \/ \E id \in DOMAIN Foreign : OtherCreates(id)
        \/ Restart

\* The client's goroutines are run, and its deadlines come; nothing is asked of
\* the server and of the user at the prompt.
Fairness == /\ WF_vars(Return) /\ WF_vars(SearchEOF) /\ WF_vars(RateReturned)
            /\ WF_vars(Rating(Sender)) /\ WF_vars(Rating(Receiver))
            /\ WF_vars(CallFails) /\ WF_vars(Rating(RateExpires))

Spec == Init /\ [][Next]_vars

FairSpec == Spec /\ Fairness

--------------------------------------------------------------------------------
(* Properties *)

\* The response that CreateLaptopClient reads after AlreadyExists is never nil,
\* since the server's Save overwrites what it should refuse: the ten copies of
\* testSearchLaptop would end the client otherwise (laptop_client.go:51-58).
NeverPanics == phase # "panic"

\* A search that reports its end in time has printed every laptop that its own
\* client has created in this server and that the filter wants, and none that it
\* does not want, by sizes that do not wrap (service/laptop_store.go:215-254).
SearchTells ==
  phase = "scanned" =>
    /\ \A id \in found : Wanted(Filter, Known(id))
    /\ late \/ \A id \in created : Wanted(Filter, drawn[id]) => id \in found

\* Every call ends, with an answer or with the process, whatever the server does.
CallsEnd == phase \in InFlight ~> phase \notin InFlight

================================================================================
