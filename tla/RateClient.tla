------------------------------ MODULE RateClient ------------------------------
(***************************************************************************)
(* A call of RateLaptopClient (client/laptop_client.go): the goroutine     *)
(* that sends the ratings, the goroutine it starts to receive the          *)
(* responses, the unbuffered channel between the two, and the stream.  At  *)
(* its other end is the handler of service/laptop_server.go; Ratings has   *)
(* what it does to the store, here it only knows which laptops exist.      *)
(*                                                                         *)
(* The messages of a stream arrive in their order, so counting them says   *)
(* which they are.                                                         *)
(***************************************************************************)
EXTENDS Naturals, Sequences

CONSTANTS laptopIDs,  \* the laptops to be rated
          Window      \* the requests that flow control lets wait for the server

ASSUME RateAssumption == laptopIDs \in Seq(Nat) /\ Window \in Nat \ {0}

VARIABLES stored,    \* the laptops of the server, by their ids
          rater,     \* where RateLaptopClient is
          receiver,  \* where its goroutine is
          report,    \* what it sends on waitResponse
          sent,      \* requests sent
          logged,    \* responses received and logged
          taken,     \* responses taken from the stream
          closed,    \* CloseSend has been called
          ended,     \* the context has ended: 5 seconds, or cancel
          handler,   \* where the server's handler is
          counted,   \* ratings it has added
          replied,   \* responses it has sent
          status,    \* what the stream ends with, once the server has ended it
          outcome    \* what RateLaptopClient has returned

client == <<rater, receiver, report, sent, logged, taken, closed, ended, outcome>>
server == <<handler, counted, replied, status>>
rateVars == <<client, server>>

N == Len(laptopIDs)

RateTypeOK ==
  /\ rater \in {"idle", "open", "send", "realError", "wait"}
  /\ receiver \in {"none", "recv", "report", "gone"}
  /\ report \in {"none", "nil", "error"}
  /\ sent \in 0 .. N /\ logged \in 0 .. N /\ taken \in 0 .. N
  /\ counted \in 0 .. N /\ replied \in 0 .. N
  /\ closed \in BOOLEAN /\ ended \in BOOLEAN
  /\ handler \in {"none", "recv", "answer", "over"}
  /\ status \in {"none", "OK", "error"}
  /\ outcome \in {"none", "nil", "error", "unsent"}

\* Nothing is being rated.
RateInit == /\ rater = "idle" /\ receiver = "none" /\ report = "none"
            /\ sent = 0 /\ logged = 0 /\ taken = 0 /\ closed = FALSE /\ ended = FALSE
            /\ handler = "none" /\ counted = 0 /\ replied = 0 /\ status = "none"
            /\ outcome = "none"

RateReset == /\ rater' = "open" /\ receiver' = "none" /\ report' = "none"
             /\ sent' = 0 /\ logged' = 0 /\ taken' = 0 /\ closed' = FALSE /\ ended' = FALSE
             /\ handler' = "none" /\ counted' = 0 /\ replied' = 0 /\ status' = "none"
             /\ outcome' = "none"

RateLaptopClient == /\ rater = "idle"
                    /\ RateReset
                    /\ UNCHANGED stored

--------------------------------------------------------------------------------
(* The goroutine of RateLaptopClient *)

\* The deferred cancel comes with the return.
ReturnWith(value) == rater' = "idle" /\ outcome' = value /\ ended' = TRUE

Open == /\ rater = "open"
        /\ \/ /\ ~ended
              /\ rater' = "send"
              /\ receiver' = "recv"
              /\ handler' = "recv"
              /\ UNCHANGED <<ended, outcome>>
           \/ /\ ReturnWith("error")
              /\ UNCHANGED <<receiver, handler>>
        /\ UNCHANGED <<stored, report, sent, logged, taken, closed, counted, replied, status>>

\* Mutant: one round of the loop too many.
SendPast == /\ rater = "send"
            /\ sent <= N
            /\ sent - counted < Window
            /\ sent' = sent + 1
            /\ UNCHANGED <<stored, rater, receiver, report, logged, taken, closed, ended, outcome, server>>

\* Flow control holds back what the server does not take, until the stream ends.
\* A request that is sent after the server has ended it is lost.
Send == /\ rater = "send"
        /\ sent < N
        /\ sent - counted < Window
        /\ sent' = sent + 1
        /\ UNCHANGED <<stored, rater, receiver, report, logged, taken, closed, ended, outcome, server>>

SendFails == /\ rater = "send"
             /\ sent < N
             /\ status # "none" \/ ended
             /\ rater' = "realError"
             /\ UNCHANGED <<stored, receiver, report, sent, logged, taken, closed, ended, outcome, server>>

\* The next thing in the stream is an error, or the end of the context.
StreamFailed == ended \/ (status = "error" /\ taken = replied)

\* stream.RecvMsg(nil), at the same time as the goroutine's Recv: it may also take
\* a response from the stream, which cannot be decoded into nil.
RealError == /\ rater = "realError"
             /\ \/ taken < replied /\ taken' = taken + 1
                \/ /\ StreamFailed
                   /\ UNCHANGED taken
             /\ ReturnWith("unsent")
             /\ UNCHANGED <<stored, receiver, report, sent, logged, closed, server>>

CloseSend == /\ rater = "send"
             /\ sent = N
             /\ closed' = TRUE
             /\ rater' = "wait"
             /\ UNCHANGED <<stored, receiver, report, sent, logged, taken, ended, outcome, server>>

\* The channel has no buffer: both goroutines go on together.
WaitResponse == /\ rater = "wait"
                /\ receiver = "report"
                /\ receiver' = "gone"
                /\ ReturnWith(report)
                /\ UNCHANGED <<stored, report, sent, logged, taken, closed, server>>

--------------------------------------------------------------------------------
(* The goroutine that receives *)

Recv == /\ receiver = "recv"
        /\ taken < replied
        /\ taken' = taken + 1
        /\ logged' = logged + 1
        /\ UNCHANGED <<stored, rater, receiver, report, sent, closed, ended, outcome, server>>

\* Mutant: the goroutine returns on io.EOF and reports nothing.
RecvEOFQuietly == /\ receiver = "recv"
                  /\ status = "OK" /\ taken = replied
                  /\ receiver' = "gone"
                  /\ UNCHANGED <<stored, rater, report, sent, logged, taken, closed, ended, outcome, server>>

RecvEOF == /\ receiver = "recv"
           /\ status = "OK" /\ taken = replied
           /\ receiver' = "report"
           /\ report' = "nil"
           /\ UNCHANGED <<stored, rater, sent, logged, taken, closed, ended, outcome, server>>

\* Mutant: every error is taken for the end of the stream.
RecvErrorAsEOF == /\ receiver = "recv"
                  /\ StreamFailed
                  /\ receiver' = "report"
                  /\ report' = "nil"
                  /\ UNCHANGED <<stored, rater, sent, logged, taken, closed, ended, outcome, server>>

RecvError == /\ receiver = "recv"
             /\ StreamFailed
             /\ receiver' = "report"
             /\ report' = "error"
             /\ UNCHANGED <<stored, rater, sent, logged, taken, closed, ended, outcome, server>>

--------------------------------------------------------------------------------
(* LaptopServer.RateLaptop, and what may happen to the stream *)

\* The handler returns.
EndStream(how) == handler' = "over" /\ status' = how

\* An id that Find does not know is answered with an error.
HandleRequest ==
  /\ handler = "recv"
  /\ counted < sent
  /\ \/ /\ laptopIDs[counted + 1] \in DOMAIN stored
        /\ counted' = counted + 1
        /\ handler' = "answer"
        /\ UNCHANGED status
     \/ /\ laptopIDs[counted + 1] \notin DOMAIN stored
        /\ EndStream("error")
        /\ UNCHANGED counted
  /\ UNCHANGED <<stored, client, replied>>

SendResponse == /\ handler = "answer"
                /\ replied' = replied + 1
                /\ handler' = "recv"
                /\ UNCHANGED <<stored, client, counted, status>>

RequestsEnd == /\ handler = "recv"
               /\ closed /\ counted = sent
               /\ EndStream("OK")
               /\ UNCHANGED <<stored, client, counted, replied>>

\* The handler finds its context ended, or cannot receive or send any more, or
\* the server or the connection is lost.
StreamBreaks == /\ handler \in {"recv", "answer"}
                /\ EndStream("error")
                /\ UNCHANGED <<stored, client, counted, replied>>

\* The five seconds are over.
RateExpires == /\ rater # "idle"
               /\ ~ended
               /\ ended' = TRUE
               /\ UNCHANGED <<stored, rater, receiver, report, sent, logged, taken, closed, outcome, server>>

--------------------------------------------------------------------------------

Sender == Open \/ Send \/ SendFails \/ RealError \/ CloseSend \/ WaitResponse
Receiver == Recv \/ RecvEOF \/ RecvError
Handler == HandleRequest \/ SendResponse \/ RequestsEnd \/ StreamBreaks

RateNext == RateLaptopClient \/ Sender \/ Receiver \/ Handler \/ RateExpires

--------------------------------------------------------------------------------
(* Properties *)

\* What RateLaptopClient returns is true: nil only if the server has counted every
\* rating, all responses have been logged and no goroutine is left; an error from
\* the goroutine leaves none either; and only a request that could not be sent
\* leaves it blocked on its channel (laptop_client.go:264-266, 314).
OutcomeTrue ==
  /\ outcome = "nil" => counted = N /\ logged = N /\ receiver = "gone"
  /\ outcome = "error" => receiver \in {"none", "gone"}
  /\ outcome = "unsent" => sent < N

================================================================================
