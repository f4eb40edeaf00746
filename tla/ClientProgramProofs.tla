------------------------- MODULE ClientProgramProofs -------------------------
(***************************************************************************)
(* Theorems about the client's program, for any number of copies, rated    *)
(* laptops, other clients' laptops and restarts, any width of a word and   *)
(* any weights of the units under which the laptops of NewLaptop fit.      *)
(*                                                                         *)
(* Told, the core of the argument about searches, says of every moment of  *)
(* a search what SearchTells says of its end; it needs to know which calls *)
(* are about which laptops (Asked), and that a laptop of the program fits  *)
(* in a word.                                                              *)
(***************************************************************************)
EXTENDS ClientProgram, SequenceTheorems, TLAPS

--------------------------------------------------------------------------------
(* RateLaptopClient: where the counters of the stream stand when each of its   *)
(* three goroutines is where it is.  Every step of a call keeps it, and so     *)
(* does the loss of the stream.                                                *)

\* What the server has counted and answered, and how it has ended the stream.
Stream == /\ taken <= replied /\ replied <= counted /\ counted <= sent
          /\ handler = "recv" => replied = counted
          /\ handler = "answer" => replied + 1 = counted
          /\ handler = "over" <=> status # "none"
          /\ status = "OK" => closed /\ counted = sent /\ replied = counted

\* What the sender has sent.
Sending == /\ closed => sent = N /\ rater \in {"wait", "idle"}
           /\ rater = "wait" => closed
           /\ rater = "realError" => sent < N

\* What the receiver has logged, and what it reports.
Receiving == /\ logged <= taken
             /\ rater \in {"open", "send", "wait"} => logged = taken
             /\ rater = "open" => /\ receiver = "none" /\ status = "none" /\ handler = "none"
                                  /\ replied = counted
             /\ rater \in {"send", "wait"} => receiver # "none"
             /\ receiver = "report" => report # "none"
             /\ report = "nil" => status = "OK" /\ taken = replied

\* Nothing is returned before the end, nor sent after it.
Returned == /\ outcome # "none" => rater = "idle"
            /\ outcome = "nil" => status = "OK"

RateInv == RateTypeOK /\ Stream /\ Sending /\ Receiving /\ Returned /\ OutcomeTrue

\* There may be no laptop to rate.
LEMMA NNat == N \in Nat
BY RateAssumption DEF N

USE NNat

LEMMA ZeroRange == 0 \in 0 .. N
OBVIOUS

LEMMA RateInitial == RateInit => RateInv
<1> SUFFICES ASSUME RateInit PROVE RateInv
  OBVIOUS
<1>1. RateTypeOK BY Zenon, ZeroRange DEF RateInit, RateTypeOK
<1>2. Stream /\ Sending BY DEF RateInit, Stream, Sending
<1>3. Receiving /\ Returned /\ OutcomeTrue BY DEF RateInit, Receiving, Returned, OutcomeTrue
<1> QED BY <1>1, <1>2, <1>3 DEF RateInv

\* A new call begins where nothing has happened.
LEMMA ResetKeeps == ASSUME RateReset PROVE RateInv'
<1>1. RateTypeOK' BY Zenon, ZeroRange DEF RateReset, RateTypeOK
<1>2. Stream' /\ Sending' BY DEF RateReset, Stream, Sending
<1>3. Receiving' /\ Returned' /\ OutcomeTrue'
  BY DEF RateReset, Receiving, Returned, OutcomeTrue
<1> QED BY <1>1, <1>2, <1>3 DEF RateInv

\* The sender's steps.
LEMMA SenderKeeps == ASSUME RateInv, Sender PROVE RateInv'
<1> USE DEF RateInv, RateTypeOK, Stream, Sending, Receiving, Returned, OutcomeTrue, server, client
<1>1. CASE Open BY <1>1 DEF Open, ReturnWith
<1>2. CASE Send BY <1>2 DEF Send
<1>3. CASE SendFails BY <1>3 DEF SendFails
<1>4. CASE RealError BY <1>4 DEF RealError, ReturnWith
<1>5. CASE CloseSend BY <1>5 DEF CloseSend
<1>6. CASE WaitResponse BY <1>6 DEF WaitResponse, ReturnWith
<1> QED BY <1>1, <1>2, <1>3, <1>4, <1>5, <1>6 DEF Sender

\* The receiving goroutine's steps.
LEMMA ReceiverKeeps == ASSUME RateInv, Receiver PROVE RateInv'
<1> USE DEF RateInv, RateTypeOK, Stream, Sending, Receiving, Returned, OutcomeTrue, server, client
<1>1. CASE Recv BY <1>1 DEF Recv
<1>2. CASE RecvEOF BY <1>2 DEF RecvEOF
<1>3. CASE RecvError BY <1>3 DEF RecvError
<1> QED BY <1>1, <1>2, <1>3 DEF Receiver

\* The server ends the stream with an error.
LEMMA BreakKeeps ==
  ASSUME RateInv, handler \in {"recv", "answer"}, EndStream("error"),
         UNCHANGED <<client, counted, replied>>
  PROVE  RateInv'
BY DEF EndStream, RateInv, RateTypeOK, Stream, Sending, Receiving, Returned, OutcomeTrue, client

\* The server's steps.
LEMMA HandlerKeeps == ASSUME RateInv, Handler PROVE RateInv'
<1> USE DEF RateInv, RateTypeOK, Stream, Sending, Receiving, Returned, OutcomeTrue, client
<1>1. CASE HandleRequest
  <2>1. CASE EndStream("error") /\ UNCHANGED counted BY <1>1, <2>1, BreakKeeps DEF HandleRequest
  <2>2. CASE counted' = counted + 1 /\ handler' = "answer" /\ UNCHANGED status
    BY <1>1, <2>2 DEF HandleRequest
  <2> QED BY <1>1, <2>1, <2>2 DEF HandleRequest
<1>2. CASE SendResponse BY <1>2 DEF SendResponse
<1>3. CASE RequestsEnd BY <1>3 DEF RequestsEnd, EndStream
<1>4. CASE StreamBreaks BY <1>4, BreakKeeps DEF StreamBreaks
<1> QED BY <1>1, <1>2, <1>3, <1>4 DEF Handler

\* The context ends.
LEMMA ExpiryKeeps == ASSUME RateInv, RateExpires PROVE RateInv'
BY DEF RateExpires, RateInv, RateTypeOK, Stream, Sending, Receiving, Returned, OutcomeTrue, server

\* Steps of others.
LEMMA OthersKeep == ASSUME RateInv, UNCHANGED rateVars PROVE RateInv'
BY DEF rateVars, client, server, RateInv, RateTypeOK, Stream, Sending, Receiving, Returned,
       OutcomeTrue, N


--------------------------------------------------------------------------------
(* The filter *)

\* A conversion to bits never makes a memory larger, and what fits is exact
\* (laptop_store.go:235-254).
LEMMA BitsBelowSize ==
  ASSUME NEW memory \in Memory
  PROVE  /\ toBit(memory) \in Nat /\ Size(memory) \in Nat
         /\ toBit(memory) <= Size(memory)
         /\ Fits(memory) => toBit(memory) = Size(memory)
<1>1. memory.value \in Nat BY WordAssumption DEF Memory
<1>2. Size(memory) \in Nat
  <2>1. CASE memory.unit \in Unit
    <3>1. Weight[memory.unit] \in Nat BY <2>1, WeightAssumption
    <3> QED BY <1>1, <2>1, <3>1 DEF Size
  <2>2. CASE memory.unit \notin Unit BY <2>2 DEF Size
  <2> QED BY <2>1, <2>2
<1>3. /\ Size(memory) % Word \in Nat /\ Size(memory) % Word <= Size(memory)
      /\ Size(memory) < Word => Size(memory) % Word = Size(memory)
  BY <1>2, WordAssumption
<1> QED BY <1>2, <1>3 DEF toBit, Fits

\* A laptop that qualifies is wanted, if the memory that the filter asks for fits.
LEMMA QualifiedIsWanted ==
  ASSUME NEW filter, NEW laptop, filter.minRam \in Memory, laptop.ram \in Memory,
         Fits(filter.minRam), isQualified(filter, laptop)
  PROVE  Wanted(filter, laptop)
BY BitsBelowSize DEF isQualified, Wanted

\* A laptop that is wanted qualifies, if both memories fit.
LEMMA WantedQualifies ==
  ASSUME NEW filter, NEW laptop, filter.minRam \in Memory, laptop.ram \in Memory,
         Fits(filter.minRam), Fits(laptop.ram), Wanted(filter, laptop)
  PROVE  isQualified(filter, laptop)
BY BitsBelowSize DEF isQualified, Wanted

\* Where no memory wraps, the filter is exact: it lets a laptop through if and only if
\* the laptop has what is asked for, in whatever units the two are given (laptop_store.go:
\* 215-254).
THEOREM FilterExact ==
  ASSUME NEW filter, NEW laptop, filter.minRam \in Memory, laptop.ram \in Memory,
         Fits(filter.minRam), Fits(laptop.ram)
  PROVE  isQualified(filter, laptop) <=> Wanted(filter, laptop)
BY QualifiedIsWanted, WantedQualifies

\* The memory of the filter of the client fits.
LEMMA FilterFits == Filter.minRam \in Memory /\ Fits(Filter.minRam)
<1>1. Filter.minRam = [value |-> 8, unit |-> "GIGABYTE"] BY DEF Filter
<1>2. "GIGABYTE" \in Unit BY DEF Unit
<1>3. Weight["GIGABYTE"] \in Nat \ {0} BY <1>2, WeightAssumption
<1>4. 8 * Weight["GIGABYTE"] < Word /\ 8 < Word BY <1>3, WordAssumption, FitAssumption
<1> QED BY <1>1, <1>2, <1>4, WordAssumption DEF Memory, Fits, Size

\* So does that of every laptop that it makes.
LEMMA SampleFits ==
  ASSUME NEW laptop \in Sample PROVE laptop.ram \in Memory /\ Fits(laptop.ram)
<1>1. laptop.ram \in NewRAM BY SampleAssumption DEF NewLaptop
<1>2. PICK v \in 4 .. 64 : laptop.ram = [value |-> v, unit |-> "GIGABYTE"]
  BY <1>1 DEF NewRAM, Gigabytes, randomInt
<1>3. "GIGABYTE" \in Unit BY DEF Unit
<1>4. Weight["GIGABYTE"] \in Nat \ {0} BY <1>3, WeightAssumption
<1>5. v * Weight["GIGABYTE"] <= 64 * Weight["GIGABYTE"] BY <1>4
<1>6. v * Weight["GIGABYTE"] < Word /\ v < Word BY <1>4, <1>5, WordAssumption, FitAssumption
<1> QED BY <1>2, <1>3, <1>6, WordAssumption DEF Memory, Fits, Size

--------------------------------------------------------------------------------
(* The script *)

USE NNat

\* The calls that are about a laptop of the program, and the others.
Asking == ({"CreateLaptop", "GetLaptopByID", "UploadImage"} \X (1 .. (4 + N)))
            \cup ({"SearchLaptop", "RateLaptop"} \X {0})

\* Every call of the script is one or the other.
LEMMA ScriptAsks == Script \in Seq(Asking)
<1> DEFINE a == << <<"CreateLaptop", 1>>, <<"CreateLaptop", 2>>, <<"GetLaptopByID", 2>> >>
           b == [i \in 1 .. Copies |-> <<"CreateLaptop", 3>>]
           c == << <<"SearchLaptop", 0>> >>
           d == [i \in 1 .. N |-> <<"CreateLaptop", laptopIDs[i]>>]
           e == << <<"RateLaptop", 0>>, <<"CreateLaptop", 4 + N>>, <<"UploadImage", 4 + N>> >>
<1>1. a \in Seq(Asking)
  <2>1. <<"CreateLaptop", 1>> \in Asking /\ <<"CreateLaptop", 2>> \in Asking
        /\ <<"GetLaptopByID", 2>> \in Asking
    BY DEF Asking
  <2> QED BY <2>1
<1>2. b \in Seq(Asking)
  <2>1. <<"CreateLaptop", 3>> \in Asking BY DEF Asking
  <2> QED BY <2>1, ProgramAssumption
<1>3. c \in Seq(Asking)
  <2>1. <<"SearchLaptop", 0>> \in Asking BY DEF Asking
  <2> QED BY <2>1
<1>4. d \in Seq(Asking)
  <2>1. \A i \in 1 .. N : <<"CreateLaptop", laptopIDs[i]>> \in Asking
    BY IdAssumption DEF Asking
  <2>2. d \in [1 .. N -> Asking] BY <2>1
  <2> QED BY <2>2, SeqDef
<1>5. e \in Seq(Asking)
  <2>1. <<"RateLaptop", 0>> \in Asking /\ <<"CreateLaptop", 4 + N>> \in Asking
        /\ <<"UploadImage", 4 + N>> \in Asking
    BY DEF Asking
  <2> QED BY <2>1
<1>6. Script = a \o b \o c \o d \o e BY DEF Script
<1> HIDE DEF a, b, c, d, e
<1>7. a \o b \in Seq(Asking) BY <1>1, <1>2, ConcatProperties
<1>8. a \o b \o c \in Seq(Asking) BY <1>3, <1>7, ConcatProperties
<1>9. a \o b \o c \o d \in Seq(Asking) BY <1>4, <1>8, ConcatProperties
<1> QED BY <1>5, <1>6, <1>9, ConcatProperties

\* Where there is a call to make, its laptop is one of the program's, if it has one.
LEMMA CallAsks ==
  ASSUME step \in 0 .. Len(Script), step < Len(Script)
  PROVE  /\ Method \in {"CreateLaptop", "GetLaptopByID", "UploadImage"} => Laptop \in 1 .. (4 + N)
         /\ step + 1 \in 0 .. Len(Script)
<1>1. step + 1 \in 1 .. Len(Script) BY ScriptAsks
<1>2. Script[step + 1] \in Asking BY <1>1, ScriptAsks
<1> QED BY <1>1, <1>2 DEF Asking, Method, Laptop

--------------------------------------------------------------------------------
(* The call of RateLaptopClient within the program *)

\* What a call does is its own affair.
LEMMA RatingKeepsStore ==
  ASSUME Sender \/ Receiver \/ Handler \/ RateExpires PROVE stored' = stored
<1>1. CASE Sender
  BY <1>1 DEF Sender, Open, Send, SendFails, RealError, CloseSend, WaitResponse
<1>2. CASE Receiver BY <1>2 DEF Receiver, Recv, RecvEOF, RecvError
<1>3. CASE Handler BY <1>3 DEF Handler, HandleRequest, SendResponse, RequestsEnd, StreamBreaks
<1>4. CASE RateExpires BY <1>4 DEF RateExpires
<1> QED BY <1>1, <1>2, <1>3, <1>4

\* RateInv holds through everything that the program, the server and others do.
LEMMA RateInvariant == Spec => []RateInv
<1>1. Init => RateInv BY RateInitial DEF Init
<1>2. RateInv /\ [Next]_vars => RateInv'
  <2> SUFFICES ASSUME RateInv, [Next]_vars PROVE RateInv'
    OBVIOUS
  <2>1. CASE UNCHANGED rateVars BY <2>1, OthersKeep
  <2>2. CASE Rating(Sender) BY <2>2, SenderKeeps DEF Rating
  <2>3. CASE Rating(Receiver) BY <2>3, ReceiverKeeps DEF Rating
  <2>4. CASE Rating(Handler) BY <2>4, HandlerKeeps DEF Rating
  <2>5. CASE Rating(RateExpires) BY <2>5, ExpiryKeeps DEF Rating
  <2>6. CASE RateAgain BY <2>6, ResetKeeps DEF RateAgain, RateLaptopClient
  <2>7. CASE Restart
    <3>1. CASE handler \in {"recv", "answer"} BY <2>7, <3>1, BreakKeeps DEF Restart
    <3>2. CASE handler \notin {"recv", "answer"}
      BY <2>1, <2>7, <3>2 DEF Restart, rateVars, server
    <3> QED BY <3>1, <3>2
  <2>8. CASE UNCHANGED vars BY <2>1, <2>8 DEF vars
  <2>9. ASSUME Next, ~Restart, ~RateAgain, ~Rating(Sender), ~Rating(Receiver), ~Rating(Handler),
               ~Rating(RateExpires)
        PROVE  UNCHANGED rateVars
    <3>1. ASSUME NEW how, Exit(how) PROVE UNCHANGED rateVars BY <3>1 DEF Exit
    <3>2. CASE LogIn \/ LoginFails \/ Finish BY <3>1, <3>2 DEF LogIn, LoginFails, Finish
    <3>3. CASE Call BY <3>3 DEF Call
    <3>4. CASE CreateLaptop \/ UseLaptop BY <3>4 DEF CreateLaptop, UseLaptop, Answer
    <3>5. CASE Return \/ CallFails BY <3>1, <3>5 DEF Return, CallFails
    <3>6. CASE Search \/ DeadlineComes \/ SearchReturns \/ SearchEOF
      BY <3>6 DEF Search, DeadlineComes, SearchReturns, SearchEOF
    <3>7. ASSUME NEW id \in scan, Visit(id) PROVE UNCHANGED rateVars BY <3>7 DEF Visit
    <3>8. CASE RateEnough \/ RateReturned BY <3>1, <3>8 DEF RateEnough, RateReturned
    <3>9. ASSUME NEW id \in DOMAIN Foreign, OtherCreates(id) PROVE UNCHANGED rateVars
      BY <3>9 DEF OtherCreates
    <3> QED BY <2>9, <3>2, <3>3, <3>4, <3>5, <3>6, <3>7, <3>8, <3>9 DEF Next
  <2> QED BY <2>1, <2>2, <2>3, <2>4, <2>5, <2>6, <2>7, <2>8, <2>9
<1> QED BY <1>1, <1>2, PTL DEF Spec

\* OutcomeTrue for any number of laptops, and any server: RateLaptopClient returns
\* nil only for ratings that were counted and logged, and leaves a goroutine behind
\* only after a request it could not send (laptop_client.go:264-333).
THEOREM OutcomesTrue == Spec => []OutcomeTrue
<1>1. RateInv => OutcomeTrue BY DEF RateInv
<1> QED BY <1>1, RateInvariant, PTL

--------------------------------------------------------------------------------
(* The program *)

\* TypeOK without the part of RateClient.
ProgramTypeOK ==
  /\ step \in 0 .. Len(Script)
  /\ phase \in {"login", "dead", "panic", "done"} \cup Running
  /\ DOMAIN drawn \subseteq 1 .. (4 + N)
  /\ \A i \in DOMAIN drawn : drawn[i] \in Sample
  /\ reply \in {"none", "OK", "AlreadyExists"}
  /\ late \in BOOLEAN
  /\ restarts \in 0 .. MaxRestarts

\* Where every laptop of the server comes from.
Kept == /\ created \subseteq DOMAIN drawn \cap DOMAIN stored
        /\ \A i \in DOMAIN stored : IF i \in DOMAIN Foreign THEN stored[i] = Foreign[i]
                                    ELSE i \in DOMAIN drawn /\ stored[i] = drawn[i]

\* A call in flight is one of the script, about a laptop that has been made.
Asked == /\ phase \in InFlight => step < Len(Script)
         /\ phase \in {"called", "answered"} => Laptop \in DOMAIN drawn

\* Only a search has something to visit.
Quiet == /\ scan \subseteq DOMAIN stored /\ found \subseteq DOMAIN drawn \cup DOMAIN Foreign
         /\ scan \cap found = {}
         /\ phase # "searching" => scan = {}
         /\ phase \notin {"searching", "scanned"} => found = {}

\* What the search has visited, it has found as it should.
Told == phase \in {"searching", "scanned"} =>
          /\ \A id \in found : Wanted(Filter, Known(id))
          /\ late \/ \A id \in created \ scan : Wanted(Filter, drawn[id]) => id \in found

\* CreateLaptop is never refused.
Welcome == reply # "AlreadyExists" /\ phase # "panic"

ProgramInv == ProgramTypeOK /\ Kept /\ Asked /\ Quiet /\ Told /\ Welcome

\* Whatever the server has stored has a memory.
LEMMA StoredMemory ==
  ASSUME ProgramTypeOK, Kept, NEW id \in DOMAIN stored PROVE stored[id].ram \in Memory
<1>1. CASE id \in DOMAIN Foreign BY <1>1, ForeignAssumption DEF Kept
<1>2. CASE id \notin DOMAIN Foreign BY <1>2, SampleFits DEF Kept, ProgramTypeOK
<1> QED BY <1>1, <1>2

\* What the client has created is in the server as it was drawn.
LEMMA CreatedAsDrawn ==
  ASSUME ProgramTypeOK, Kept, NEW id \in created
  PROVE  stored[id] = drawn[id] /\ drawn[id] \in Sample
<1>1. id \notin DOMAIN Foreign BY ForeignAssumption DEF Kept, ProgramTypeOK
<1> QED BY <1>1 DEF Kept, ProgramTypeOK

LEMMA ProgramInitial == Init => ProgramInv
<1> SUFFICES ASSUME Init PROVE ProgramInv
  OBVIOUS
<1>1. 0 \in 0 .. Len(Script) /\ 0 \in 0 .. MaxRestarts BY ScriptAsks, ProgramAssumption
<1>2. DOMAIN drawn = {} /\ DOMAIN stored = {} BY DEF Init
<1>3. ProgramTypeOK BY <1>1, <1>2 DEF Init, ProgramTypeOK
<1>4. Kept /\ Quiet BY <1>2 DEF Init, Kept, Quiet
<1>5. Asked /\ Told /\ Welcome BY DEF Init, Asked, Told, Welcome, InFlight
<1> QED BY <1>3, <1>4, <1>5 DEF ProgramInv

\* The end of the process, and everything that leaves no call behind.
LEMMA ExitKeeps ==
  ASSUME ProgramInv, Exit("dead") \/ Exit("done") PROVE ProgramInv'
<1> USE DEF Exit, ProgramInv
<1>1. ProgramTypeOK' BY DEF ProgramTypeOK, Running
<1>2. Kept' /\ Quiet' BY DEF Kept, Quiet
<1>3. Asked' /\ Told' /\ Welcome' BY DEF Asked, Told, Welcome, InFlight
<1> QED BY <1>1, <1>2, <1>3

\* A laptop is put into the server: one's own, or another client's.
LEMMA CreateKeeps == ASSUME ProgramInv, CreateLaptop PROVE ProgramInv'
<1> USE DEF ProgramInv, CreateLaptop, Answer, search
<1>1. phase = "called" /\ Laptop \in DOMAIN drawn BY DEF Asked
<1>2. ProgramTypeOK' BY DEF ProgramTypeOK, Running, InFlight
<1>3. Laptop \notin DOMAIN Foreign BY <1>1, ForeignAssumption DEF ProgramTypeOK
<1>4. /\ DOMAIN stored' = DOMAIN stored \cup {Laptop}
      /\ stored'[Laptop] = drawn[Laptop]
      /\ \A i \in DOMAIN stored : i # Laptop => stored'[i] = stored[i]
  BY DEF Put
<1>5. Kept' BY <1>1, <1>3, <1>4 DEF Kept
<1>6. Quiet' BY <1>1, <1>4 DEF Quiet
<1>7. Asked' BY <1>1 DEF Asked, InFlight, Laptop
<1>8. Told' /\ Welcome' BY DEF Told, Welcome
<1> QED BY <1>2, <1>5, <1>6, <1>7, <1>8

LEMMA OtherKeeps ==
  ASSUME ProgramInv, NEW o \in DOMAIN Foreign, OtherCreates(o) PROVE ProgramInv'
<1> USE DEF ProgramInv, OtherCreates, local, search
<1>1. ProgramTypeOK' BY DEF ProgramTypeOK
<1>2. /\ DOMAIN stored' = DOMAIN stored \cup {o}
      /\ stored'[o] = Foreign[o]
      /\ \A i \in DOMAIN stored : stored'[i] = stored[i]
  BY DEF Put
<1>3. Kept' BY <1>2 DEF Kept
<1>4. Quiet' BY <1>2 DEF Quiet
<1>5. Asked' /\ Welcome' BY DEF Asked, Welcome, InFlight, Laptop
<1>6. Told'
  BY DEF Told, Wanted, Known
<1> QED BY <1>1, <1>3, <1>4, <1>5, <1>6

\* A call begins, with a laptop that may be new.
LEMMA CallKeeps == ASSUME ProgramInv, Call PROVE ProgramInv'
<1> USE DEF ProgramInv, Call, search
<1>1. Laptop \in 1 .. (4 + N) BY CallAsks DEF ProgramTypeOK
<1>2. /\ DOMAIN drawn' = DOMAIN drawn \cup {Laptop}
      /\ drawn'[Laptop] \in Sample
      /\ \A i \in DOMAIN drawn : drawn'[i] = drawn[i]
  BY DEF Put, ProgramTypeOK
<1>3. ProgramTypeOK' BY <1>1, <1>2 DEF ProgramTypeOK, Running, InFlight
<1>4. Kept' BY <1>2 DEF Kept
<1>5. Asked' BY <1>2 DEF Asked, Laptop
<1>6. Quiet' /\ Told' /\ Welcome' BY <1>2 DEF Quiet, Told, Welcome
<1> QED BY <1>3, <1>4, <1>5, <1>6

\* A round of the search: what qualifies is found, and what is wanted qualifies.
LEMMA VisitKeeps == ASSUME ProgramInv, NEW v \in scan, Visit(v) PROVE ProgramInv'
<1> USE DEF ProgramInv, Visit, local
<1>1. ProgramTypeOK' BY DEF ProgramTypeOK
<1>2. Kept' /\ Asked' /\ Welcome' BY DEF Kept, Asked, Welcome, InFlight, Laptop
<1>3. v \in DOMAIN stored BY DEF Quiet
<1>4. stored[v] = Known(v) /\ v \in DOMAIN drawn \cup DOMAIN Foreign BY <1>3 DEF Kept, Known
<1>5. Quiet' BY <1>3, <1>4 DEF Quiet
<1>6. Told'
  <2>1. isQualified(Filter, stored[v]) => Wanted(Filter, stored[v])
    BY <1>3, StoredMemory, FilterFits, QualifiedIsWanted
  <2>2. v \in created /\ Wanted(Filter, drawn[v]) => isQualified(Filter, stored[v])
    BY CreatedAsDrawn, SampleFits, FilterFits, WantedQualifies
  <2>3. \A id \in found' : Wanted(Filter, Known(id)') BY <1>4, <2>1 DEF Told, Wanted, Known
  <2>4. late' \/ \A id \in created' \ scan' : Wanted(Filter, drawn'[id]) => id \in found'
    BY <2>2 DEF Told, Wanted
  <2> QED BY <2>3, <2>4 DEF Told, Wanted, Known
<1> QED BY <1>1, <1>2, <1>5, <1>6

\* The other steps of a search.
LEMMA SearchKeeps ==
  ASSUME ProgramInv, Search \/ DeadlineComes \/ SearchReturns \/ SearchEOF PROVE ProgramInv'
<1> USE DEF ProgramInv
<1>1. CASE Search
  <2>1. ProgramTypeOK' BY <1>1 DEF Search, ProgramTypeOK, Running, InFlight
  <2>2. Kept' /\ Asked' /\ Quiet' /\ Welcome'
    BY <1>1 DEF Search, Kept, Asked, Quiet, Welcome, InFlight, Laptop
  <2>3. found = {} /\ created \subseteq scan' BY <1>1 DEF Search, Quiet, Kept
  <2>4. Told' BY <1>1, <2>3 DEF Search, Told
  <2> QED BY <2>1, <2>2, <2>4
<1>2. CASE DeadlineComes
  BY <1>2 DEF DeadlineComes, local, ProgramTypeOK, Kept, Asked, Quiet, Told, Wanted, Known, Welcome,
              InFlight, Laptop
<1>3. CASE SearchReturns
  <2>1. ProgramTypeOK' BY <1>3 DEF SearchReturns, ProgramTypeOK, Running, InFlight
  <2>2. Kept' /\ Asked' /\ Quiet' /\ Welcome'
    BY <1>3 DEF SearchReturns, Kept, Asked, Quiet, Welcome, InFlight, Laptop
  <2>3. Told' BY <1>3 DEF SearchReturns, Told, Wanted, Known
  <2> QED BY <2>1, <2>2, <2>3
<1>4. CASE SearchEOF
  <2>1. step + 1 \in 0 .. Len(Script)
    BY <1>4, CallAsks DEF SearchEOF, ProgramTypeOK, Asked, InFlight
  <2>2. ProgramTypeOK' BY <1>4, <2>1 DEF SearchEOF, ProgramTypeOK, Running
  <2>3. Kept' /\ Asked' /\ Quiet' /\ Told' /\ Welcome'
    BY <1>4 DEF SearchEOF, Kept, Asked, Quiet, Told, Welcome, InFlight
  <2> QED BY <2>2, <2>3
<1> QED BY <1>1, <1>2, <1>3, <1>4

\* What neither searches nor stores.
LEMMA RestKeeps ==
  ASSUME ProgramInv,
         LogIn \/ UseLaptop \/ Return \/ RateAgain \/ RateEnough \/ RateReturned
           \/ Rating(Sender) \/ Rating(Receiver) \/ Rating(Handler) \/ Rating(RateExpires)
           \/ UNCHANGED vars
  PROVE  ProgramInv'
<1> USE DEF ProgramInv, search, local
<1>1. CASE LogIn
  BY <1>1 DEF LogIn, ProgramTypeOK, Running, InFlight, Kept, Asked, Quiet, Told, Welcome
<1>2. CASE UseLaptop
  BY <1>2 DEF UseLaptop, Answer, ProgramTypeOK, Running, InFlight, Kept, Asked, Quiet, Told,
              Welcome, Laptop
<1>3. CASE Return
  <2>1. step + 1 \in 0 .. Len(Script)
    BY <1>3, CallAsks DEF Return, ProgramTypeOK, Asked, InFlight
  <2>2. ProgramTypeOK' BY <1>3, <2>1 DEF Return, ProgramTypeOK, Running, Welcome
  <2>3. Kept' /\ Asked' /\ Quiet' /\ Told' /\ Welcome'
    BY <1>3 DEF Return, Kept, Asked, Quiet, Told, Welcome, InFlight
  <2> QED BY <2>2, <2>3
<1>4. CASE RateAgain
  BY <1>4 DEF RateAgain, RateLaptopClient, ProgramTypeOK, Running, InFlight, Kept, Asked, Quiet,
              Told, Welcome
<1>5. CASE RateEnough
  <2>1. step + 1 \in 0 .. Len(Script) BY <1>5, CallAsks DEF RateEnough, ProgramTypeOK
  <2>2. ProgramTypeOK' BY <1>5, <2>1 DEF RateEnough, ProgramTypeOK
  <2>3. Kept' /\ Asked' /\ Quiet' /\ Told' /\ Welcome'
    BY <1>5 DEF RateEnough, Kept, Asked, Quiet, Told, Welcome, InFlight
  <2> QED BY <2>2, <2>3
<1>6. CASE RateReturned
  <2>1. CASE Exit("dead") BY <2>1, ExitKeeps
  <2>2. CASE phase' = "idle" /\ UNCHANGED <<step, drawn, reply, created, search, restarts, stored>>
    BY <1>6, <2>2 DEF RateReturned, ProgramTypeOK, Running, InFlight, Kept, Asked, Quiet, Told,
                      Welcome
  <2> QED BY <1>6, <2>1, <2>2 DEF RateReturned
<1>7. CASE UNCHANGED <<step, phase, drawn, reply, created, scan, late, found, restarts, stored>>
  BY <1>7 DEF ProgramTypeOK, Kept, Asked, Quiet, Told, Wanted, Known, Welcome, InFlight, Laptop
<1>8. CASE Rating(Sender) \/ Rating(Receiver) \/ Rating(Handler) \/ Rating(RateExpires)
  BY <1>7, <1>8, RatingKeepsStore DEF Rating
<1>9. CASE UNCHANGED vars BY <1>7, <1>9 DEF vars
<1> QED BY <1>1, <1>2, <1>3, <1>4, <1>5, <1>6, <1>8, <1>9

\* The server is restarted, and has nothing any more.
LEMMA RestartKeeps == ASSUME ProgramInv, Restart PROVE ProgramInv'
<1> USE DEF ProgramInv, Restart, search
<1>1. ProgramTypeOK'
  <2>1. restarts + 1 \in 0 .. MaxRestarts BY ProgramAssumption DEF ProgramTypeOK
  <2>2. phase' \in {phase, "dead"} /\ late' \in {late, FALSE} OBVIOUS
  <2>3. UNCHANGED <<step, drawn, reply>> OBVIOUS
  <2> QED BY <2>1, <2>2, <2>3 DEF ProgramTypeOK
<1>2. DOMAIN stored' = {} OBVIOUS
<1>3. Kept' BY <1>2 DEF Kept
<1>4. Asked' BY DEF Asked, InFlight, Laptop
<1>5. Quiet' BY <1>2 DEF Quiet
<1>6. created' = {} /\ drawn' = drawn OBVIOUS
<1>7. Told' BY <1>6 DEF Told, Wanted, Known
<1>8. Welcome' BY DEF Welcome
<1> QED BY <1>1, <1>3, <1>4, <1>5, <1>7, <1>8

LEMMA ProgramInvariant == Spec => []ProgramInv
<1>1. ProgramInv /\ [Next]_vars => ProgramInv'
  <2> SUFFICES ASSUME ProgramInv, [Next]_vars PROVE ProgramInv'
    OBVIOUS
  <2>1. CASE LoginFails \/ Finish \/ CallFails
    BY <2>1, ExitKeeps DEF LoginFails, Finish, CallFails
  <2> QED BY <2>1, CallKeeps, CreateKeeps, OtherKeeps, VisitKeeps, SearchKeeps, RestKeeps,
             RestartKeeps DEF Next
<1> QED BY <1>1, ProgramInitial, PTL DEF Spec

\* Type correctness of the program, its call of RateLaptopClient included.
THEOREM TypeCorrect == Spec => []TypeOK
<1>1. ProgramInv /\ RateInv => TypeOK
  BY DEF ProgramInv, ProgramTypeOK, Kept, Quiet, RateInv, TypeOK
<1> QED BY <1>1, ProgramInvariant, RateInvariant, PTL

\* SearchTells for any width of a word and any weights under which the laptops of
\* NewLaptop fit: sizes of others may wrap as they like (laptop_store.go:143-254).
THEOREM SearchesTell == Spec => []SearchTells
<1>1. ProgramInv => SearchTells BY DEF ProgramInv, Told, Quiet, SearchTells
<1> QED BY <1>1, ProgramInvariant, PTL

\* NeverPanics for any number of copies of a laptop: since Save overwrites, nobody
\* is answered AlreadyExists, whose nil response would be read
\* (laptop_client.go:51-58).
THEOREM NoPanic == Spec => []NeverPanics
<1>1. ProgramInv => NeverPanics BY DEF ProgramInv, Welcome, NeverPanics
<1> QED BY <1>1, ProgramInvariant, PTL

================================================================================
