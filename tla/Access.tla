--------------------------------- MODULE Access ---------------------------------
(***************************************************************************)
(* What logging in is for: a user logs in once, and from then on each of   *)
(* his calls is answered, or refused because of his role, or lost.  There  *)
(* are no tokens here, nothing expires, and nobody has to log in again.    *)
(***************************************************************************)

CONSTANTS Call,    \* the calls of one client
          Caller,  \* whoever a client may say he is
          User,    \* those who have an account
          Method,  \* the methods
          Grant    \* the pairs of a user and a method that his role may call

VARIABLES user,     \* who the client says he is
          session,  \* "out", "in", or "gone" for ever
          status,   \* what has become of a call
          asked     \* the method it calls, while it is in progress

vars == <<user, session, status, asked>>

Over == {"new", "OK", "PermissionDenied", "DeadlineExceeded", "Unavailable"}
InProgress == {"asked", "working"}

Init == /\ user \in Caller
        /\ session = "out"
        /\ status = [k \in Call |-> "new"]
        /\ asked = [k \in Call |-> "none"]

LogIn == /\ session = "out"
         /\ user \in User
         /\ session' = "in"
         /\ UNCHANGED <<user, status, asked>>

Ask(k, m) == /\ session = "in"
             /\ status[k] \in Over
             /\ status' = [status EXCEPT ![k] = "asked"]
             /\ asked' = [asked EXCEPT ![k] = m]
             /\ UNCHANGED <<user, session>>

Enter(k) == /\ status[k] = "asked"
            /\ <<user, asked[k]>> \in Grant
            /\ status' = [status EXCEPT ![k] = "working"]
            /\ UNCHANGED <<user, session, asked>>

End(k, code) == /\ status' = [status EXCEPT ![k] = code]
                /\ asked' = [asked EXCEPT ![k] = "none"]
                /\ UNCHANGED <<user, session>>

\* Of all answers, only this one depends on who is asking, and on nothing else.
Refuse(k) == /\ status[k] = "asked"
             /\ <<user, asked[k]>> \notin Grant
             /\ End(k, "PermissionDenied")

Answer(k) == status[k] = "working" /\ End(k, "OK")

Expire(k) == status[k] \in InProgress /\ End(k, "DeadlineExceeded")

\* A server that is down, or goes down: some calls in progress are lost at once.
Break(lost) == /\ \A k \in lost : status[k] \in InProgress
               /\ status' = [k \in Call |-> IF k \in lost THEN "Unavailable" ELSE status[k]]
               /\ asked' = [k \in Call |-> IF k \in lost THEN "none" ELSE asked[k]]
               /\ UNCHANGED <<user, session>>

\* The client ends, and all its calls with it.
Leave == /\ session # "gone"
         /\ session' = "gone"
         /\ status' = [k \in Call |-> "new"]
         /\ asked' = [k \in Call |-> "none"]
         /\ UNCHANGED user

Next == \/ LogIn \/ Leave
        \/ \E k \in Call : \/ \E m \in Method : Ask(k, m)
                           \/ Enter(k) \/ Refuse(k) \/ Answer(k) \/ Expire(k)
        \/ \E lost \in SUBSET Call : Break(lost)

Spec == Init /\ [][Next]_vars

================================================================================
