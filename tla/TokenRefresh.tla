----------------------------- MODULE TokenRefresh -----------------------------
(***************************************************************************)
(* The access tokens of the laptop service, from end to end: the client's  *)
(* interceptor, which logs in again and again in a goroutine of its own    *)
(* and attaches its latest token to the calls that need one                *)
(* (client/auth_interceptor_client.go, client/auth_client.go), and the     *)
(* server's Login and interceptor, which issue tokens and check them       *)
(* (service/auth_server.go, jwt_manager.go, auth_interceptor.go).          *)
(*                                                                         *)
(* The server keeps nothing about its clients, so one client process with  *)
(* several calls in progress stands for all.  Time is counted in ticks: a  *)
(* goroutine whose timer has gone off runs within Lateness ticks, and      *)
(* clocks do not drift; the clocks of client and server are not compared.  *)
(***************************************************************************)
EXTENDS Naturals

CONSTANTS Call,             \* the client's goroutines that make calls
          Called,           \* the methods they call
          refreshDuration,  \* 30 s
          tokenDuration,    \* 15 min
          LoginTimeout,     \* 5 s
          CallTimeout,      \* 5 s, for every call of LaptopClient
          Lateness,         \* see above
          Second,           \* ticks in a second
          MaxTime           \* bound: the time at which the model stops

User == {"admin1", "user1"}
Role == [admin1 |-> "admin", user1 |-> "user"]
AccessibleRoles == [CreateLaptop |-> {"admin"},
                    UploadImage  |-> {"admin"},
                    RateLaptop   |-> {"admin", "user"}]
AuthMethods == {"CreateLaptop", "UploadImage", "RateLaptop"}
Method == AuthMethods \cup {"SearchLaptop", "GetLaptopByID"}

ASSUME MethodAssumption == Called \subseteq Method
ASSUME TimeAssumption ==
  /\ refreshDuration \in Nat /\ tokenDuration \in Nat /\ LoginTimeout \in Nat
  /\ CallTimeout \in Nat /\ Lateness \in Nat /\ Second \in Nat \ {0} /\ MaxTime \in Nat

VARIABLES now,          \* the time
          up,           \* the server is running
          user,         \* whom the client logs in as; "nobody" has a wrong password
          refresher,    \* where refreshToken is
          due,          \* when its sleep or its login is over
          grant,        \* the token in the response to its login
          accessToken,  \* interceptor.accessToken
          pc,           \* where the call is, or the code it ended with
          method,       \* the method called
          carried,      \* the token in the metadata of the call
          deadline      \* when the context of the call ends

\* A token is its expiry time: who it belongs to is the client's user.
NoToken == 0

auth == <<refresher, due, grant, accessToken>>
call == <<pc, method, carried, deadline>>
vars == <<now, up, user, auth, call>>

Code == {"OK", "Unauthenticated", "PermissionDenied", "DeadlineExceeded", "Unavailable"}
Over == {"new"} \cup Code
InFlight == {"calling", "sent", "running"}
Timed == {"sleep", "login", "granted", "failed"}   \* due is in force
Truncate(t) == t - (t % Second)
Token == {t \in Nat : t % Second = 0}

TypeOK == /\ now \in Nat
          /\ up \in BOOLEAN
          /\ user \in User \cup {"nobody"}
          /\ refresher \in Timed \cup {"start", "dead"}
          /\ due \in Nat
          /\ grant \in Token
          /\ accessToken \in Token
          /\ pc \in [Call -> Over \cup InFlight]
          /\ method \in [Call -> Method \cup {"none"}]
          /\ carried \in [Call -> Token]
          /\ deadline \in [Call -> Nat]

Init == /\ now = 0
        /\ up \in BOOLEAN   \* a client may be started before the server
        /\ user \in User \cup {"nobody"}
        /\ refresher = "start"
        /\ due = 0
        /\ grant = NoToken
        /\ accessToken = NoToken
        /\ pc = [k \in Call |-> "new"]
        /\ method = [k \in Call |-> "none"]
        /\ carried = [k \in Call |-> NoToken]
        /\ deadline = [k \in Call |-> 0]

--------------------------------------------------------------------------------
(* refreshToken: at first in NewAuthInterceptor, then after every sleep *)

RequestLogin == /\ \/ refresher = "start"
                   \/ refresher = "sleep" /\ now >= due
                /\ refresher' = "login"
                /\ due' = now + LoginTimeout
                /\ UNCHANGED <<now, up, user, grant, accessToken, call>>

\* Mutant: a token that expires at a fraction of a second.
GenerateExact == now + tokenDuration

\* JWTManager.Generate: the expiry time is written as a whole number of seconds.
Generate == Truncate(now + tokenDuration)

\* AuthServer.Login.  The users are those main has seeded.
Login == /\ refresher = "login"
         /\ up
         /\ \/ user \in User /\ refresher' = "granted" /\ grant' = Generate
            \/ user \notin User /\ refresher' = "failed" /\ UNCHANGED grant
         /\ UNCHANGED <<now, up, user, due, accessToken, call>>

\* Mutant: the new token is not stored.
StoreNothing == /\ refresher = "granted"
                /\ accessToken' = IF accessToken = NoToken THEN grant ELSE accessToken
                /\ grant' = NoToken
                /\ refresher' = "sleep"
                /\ due' = now + refreshDuration
                /\ UNCHANGED <<now, up, user, call>>

StoreToken == /\ refresher = "granted"
              /\ accessToken' = grant
              /\ grant' = NoToken
              /\ refresher' = "sleep"
              /\ due' = now + refreshDuration
              /\ UNCHANGED <<now, up, user, call>>

\* Any error makes AuthClient.Login end the process, and all its calls with it.
LoginFails == /\ \/ refresher = "failed"
                 \/ refresher = "login" /\ ~up
                 \/ refresher \in {"login", "granted"} /\ now >= due
              /\ refresher' = "dead"
              /\ grant' = NoToken
              /\ accessToken' = NoToken
              /\ pc' = [k \in Call |-> "new"]
              /\ method' = [k \in Call |-> "none"]
              /\ carried' = [k \in Call |-> NoToken]
              /\ deadline' = [k \in Call |-> 0]
              /\ UNCHANGED <<now, up, user, due>>

--------------------------------------------------------------------------------
(* A call *)

Goto(k, l) == pc' = [pc EXCEPT ![k] = l]

\* The call is over: its locals are gone.
End(k, code) == /\ Goto(k, code)
                /\ method' = [method EXCEPT ![k] = "none"]
                /\ carried' = [carried EXCEPT ![k] = NoToken]
                /\ deadline' = [deadline EXCEPT ![k] = 0]
                /\ UNCHANGED <<now, up, user, auth>>

\* A method of LaptopClient makes its context.  There is a connection to call
\* on only once NewAuthInterceptor has returned.
StartCall(k, m) == /\ pc[k] \in Over
                   /\ accessToken # NoToken
                   /\ Goto(k, "calling")
                   /\ method' = [method EXCEPT ![k] = m]
                   /\ deadline' = [deadline EXCEPT ![k] = now + CallTimeout]
                   /\ UNCHANGED <<now, up, user, auth, carried>>

\* The client's interceptors read the token without a lock, while refreshToken
\* may be writing it.  The two words of the string may come from two tokens,
\* but a user's tokens have one length: what is read is a whole token.
AttachToken(k) ==
  /\ pc[k] = "calling"
  /\ carried' = [carried EXCEPT ![k] = IF method[k] \in AuthMethods THEN accessToken ELSE @]
  /\ Goto(k, "sent")
  /\ UNCHANGED <<now, up, user, auth, method, deadline>>

\* JWTManager.Verify: the key is a constant of the program, so a restart of the
\* server does not matter.
Verify(token) == token # NoToken /\ now < token

\* Mutant: whoever has a valid token may call every method.
AdmitAnyRole(k, restricted) ==
  \/ /\ restricted => Verify(carried[k])
     /\ Goto(k, "running")
     /\ UNCHANGED <<now, up, user, auth, method, carried, deadline>>
  \/ /\ restricted /\ ~Verify(carried[k])
     /\ End(k, "Unauthenticated")

\* AuthInterceptor.authorize.
Admit(k, restricted) ==
  \/ /\ restricted => Verify(carried[k]) /\ Role[user] \in AccessibleRoles[method[k]]
     /\ Goto(k, "running")
     /\ UNCHANGED <<now, up, user, auth, method, carried, deadline>>
  \/ /\ restricted /\ ~Verify(carried[k])
     /\ End(k, "Unauthenticated")
  \/ /\ restricted /\ Verify(carried[k]) /\ Role[user] \notin AccessibleRoles[method[k]]
     /\ End(k, "PermissionDenied")

\* The server's interceptor, before the handler: never again during a stream.
Authorize(k) == pc[k] = "sent" /\ up /\ Admit(k, method[k] \in DOMAIN AccessibleRoles)

\* Whatever the handler answers is "OK" here.
Respond(k) == pc[k] = "running" /\ End(k, "OK")

Expire(k) == /\ pc[k] \in InFlight
             /\ now >= deadline[k]
             /\ End(k, "DeadlineExceeded")

Unavailable(k) == /\ pc[k] = "sent"
                  /\ ~up
                  /\ End(k, "Unavailable")

--------------------------------------------------------------------------------
(* The server and the time *)

\* The process ends: connections break, and with them the calls it has not
\* answered, logins among them.  The answer to a login may be with the client.
Stop == /\ up
        /\ up' = FALSE
        /\ \/ /\ refresher' = IF refresher \in {"login", "granted"} THEN "failed" ELSE refresher
              /\ grant' = NoToken
           \/ refresher = "granted" /\ UNCHANGED <<refresher, grant>>
        /\ LET lost == {k \in Call : pc[k] \in {"sent", "running"}}
           IN  /\ pc' = [k \in Call |-> IF k \in lost THEN "Unavailable" ELSE pc[k]]
               /\ method' = [k \in Call |-> IF k \in lost THEN "none" ELSE method[k]]
               /\ carried' = [k \in Call |-> IF k \in lost THEN NoToken ELSE carried[k]]
               /\ deadline' = [k \in Call |-> IF k \in lost THEN 0 ELSE deadline[k]]
        /\ UNCHANGED <<now, user, due, accessToken>>

Start == /\ ~up
         /\ up' = TRUE
         /\ UNCHANGED <<now, user, auth, call>>

Tick == /\ now < MaxTime
        /\ refresher \in Timed => now < due + Lateness
        /\ \A k \in Call : pc[k] \in InFlight => now < deadline[k] + Lateness
        /\ now' = now + 1
        /\ UNCHANGED <<up, user, auth, call>>

--------------------------------------------------------------------------------

Refresh == RequestLogin \/ Login \/ StoreToken \/ LoginFails

Serve(k) == \/ \E m \in Called : StartCall(k, m)
            \/ AttachToken(k) \/ Authorize(k) \/ Respond(k) \/ Expire(k) \/ Unavailable(k)

Next == Refresh \/ (\E k \in Call : Serve(k)) \/ Stop \/ Start \/ Tick

Spec == Init /\ [][Next]_vars

--------------------------------------------------------------------------------
(* Properties *)

\* A token must live for a login that was answered at once and heard of late, a
\* sleep, a login that takes all its time, and a call that takes all of its own.
\* With the constants of the two main packages there is plenty to spare.
DurationsSuffice ==
  2 * LoginTimeout + refreshDuration + CallTimeout + 4 * Lateness + Second <= tokenDuration

\* Where DurationsSuffice, a client that has got a token is never told that it is
\* not logged in: the token a call carries is good when the server looks at it, and stays
\* good until the call is over, although it was read at any moment of a refresh
\* (auth_interceptor_client.go:65-66: "before the current token expired").
TokenOutlivesCall ==
  \A k \in Call :
    /\ pc[k] \in {"sent", "running"} /\ method[k] \in DOMAIN AccessibleRoles => now < carried[k]
    /\ pc[k] # "Unauthenticated"

\* A handler of a restricted method works only for a user who has logged in with
\* his password, and whose role may call it.
RolesRespected ==
  \A k \in Call : pc[k] = "running" /\ method[k] \in DOMAIN AccessibleRoles =>
    user \in User /\ Role[user] \in AccessibleRoles[method[k]]

--------------------------------------------------------------------------------
(* What the tokens are for *)

\* Whoever has a token has logged in, until his client ends.
Session == IF refresher = "dead" THEN "gone" ELSE IF accessToken = NoToken THEN "out" ELSE "in"

Status == [k \in Call |-> IF pc[k] \in {"calling", "sent"} THEN "asked"
                         ELSE IF pc[k] = "running" THEN "working" ELSE pc[k]]

\* Methods that are not in the server's table are open to all.
Granted == {g \in (User \cup {"nobody"}) \X Method :
              g[2] \in DOMAIN AccessibleRoles =>
                g[1] \in User /\ Role[g[1]] \in AccessibleRoles[g[2]]}

Abstract == INSTANCE Access WITH Caller <- User \cup {"nobody"}, Grant <- Granted,
                                 session <- Session, status <- Status, asked <- method

\* Where DurationsSuffice, one login lasts: tokens that expire and are replaced behind
\* the calls' backs, by a server that remembers none of them, let each call be
\* answered or refused by its caller's role alone, or be lost with the connection
\* (auth_interceptor.go:99-150, auth_interceptor_client.go:64-101).
AccessSpec == Abstract!Spec

================================================================================
