-------------------------- MODULE TokenRefreshProofs --------------------------
(***************************************************************************)
(* The token a client holds is never older than one interval between two   *)
(* refreshes can make it, and a call never outlives its token.  The proofs *)
(* are about any durations, and need no bound on the time.                 *)
(***************************************************************************)
EXTENDS TokenRefresh, TLAPS

\* Writing the expiry time as whole seconds takes off less than a second.
LEMMA TruncateLoss ==
  ASSUME NEW t \in Nat
  PROVE  Truncate(t) \in Token /\ Truncate(t) <= t /\ Truncate(t) + Second > t
PROOF
<1>1. Second \in Nat \ {0} BY TimeAssumption
<1>2. t % Second \in 0 .. Second - 1 BY <1>1
<1>3. t = Second * (t \div Second) + (t % Second) BY <1>1
<1>4. t \div Second \in Nat BY <1>1
<1>5. Truncate(t) = Second * (t \div Second) BY <1>1, <1>2, <1>3, <1>4 DEF Truncate
<1>6. Truncate(t) \in Nat BY <1>1, <1>4, <1>5
<1>7. Truncate(t) % Second = 0 BY <1>1, <1>4, <1>5
<1> QED BY <1>1, <1>2, <1>6, <1>7 DEF Truncate, Token

\* Every variable keeps its type; in particular, every token is the expiry time
\* of some Generate, a whole number of seconds.
THEOREM TypeCorrect == Spec => []TypeOK
PROOF
<1> USE TimeAssumption, MethodAssumption
<1>0. NoToken \in Token BY DEF NoToken, Token
<1>1. Init => TypeOK
  BY <1>0 DEF Init, TypeOK, Over
<1>2. TypeOK /\ [Next]_vars => TypeOK'
  <2> SUFFICES ASSUME TypeOK, [Next]_vars PROVE TypeOK'
    OBVIOUS
  <2> USE DEF TypeOK
  <2>1. CASE RequestLogin
    BY <2>1 DEF RequestLogin, call, Timed
  <2>2. CASE Login
    <3>1. Generate \in Token BY TruncateLoss DEF Generate
    <3> QED BY <2>2, <3>1 DEF Login, call, Timed
  <2>3. CASE StoreToken
    BY <2>3, <1>0 DEF StoreToken, call, Timed
  <2>4. CASE LoginFails
    BY <2>4, <1>0 DEF LoginFails, Over
  <2>5. CASE \E k \in Call : Serve(k)
    <3> SUFFICES ASSUME NEW k \in Call, Serve(k) PROVE TypeOK'
      BY <2>5
    <3>1. ASSUME NEW code \in Code, End(k, code) PROVE TypeOK'
      BY <3>1, <1>0 DEF End, Goto, auth, Over
    <3>2. ASSUME NEW m \in Called, StartCall(k, m) PROVE TypeOK'
      BY <3>2 DEF StartCall, Goto, auth, InFlight
    <3>3. CASE AttachToken(k)
      BY <3>3 DEF AttachToken, Goto, auth, InFlight
    <3>4. CASE Authorize(k)
      <4>1. CASE End(k, "Unauthenticated") BY <4>1, <3>1 DEF Code
      <4>2. CASE End(k, "PermissionDenied") BY <4>2, <3>1 DEF Code
      <4>3. CASE Goto(k, "running") /\ UNCHANGED <<now, up, user, auth, method, carried, deadline>>
        BY <4>3 DEF Goto, auth, InFlight
      <4> QED BY <3>4, <4>1, <4>2, <4>3 DEF Authorize, Admit
    <3>5. CASE Respond(k) BY <3>5, <3>1 DEF Respond, Code
    <3>6. CASE Expire(k) BY <3>6, <3>1 DEF Expire, Code
    <3>7. CASE Unavailable(k) BY <3>7, <3>1 DEF Unavailable, Code
    <3> QED BY <3>2, <3>3, <3>4, <3>5, <3>6, <3>7 DEF Serve
  <2>6. CASE Stop
    BY <2>6, <1>0 DEF Stop, Timed, Over, Code
  <2>7. CASE Start
    BY <2>7 DEF Start, auth, call
  <2>8. CASE Tick
    BY <2>8 DEF Tick, auth, call
  <2>9. CASE UNCHANGED vars
    BY <2>9 DEF vars, auth, call
  <2> QED BY <2>1, <2>2, <2>3, <2>4, <2>5, <2>6, <2>7, <2>8, <2>9 DEF Next, Refresh
<1> QED BY <1>1, <1>2, PTL DEF Spec

--------------------------------------------------------------------------------
(* The invariant behind TokenOutlivesCall *)

\* A timer that is in force has not been overdue for more than Lateness.
Punctual == /\ refresher \in Timed => now <= due + Lateness
            /\ \A k \in Call : pc[k] \in InFlight => now <= deadline[k] + Lateness

\* A login that is under way began LoginTimeout before it is due, and the token
\* it brings has been issued since.
LoginAge == /\ refresher \in {"login", "granted"} => LoginTimeout <= due
            /\ refresher = "login" => due <= now + LoginTimeout
            /\ refresher = "granted" => due + tokenDuration < grant + LoginTimeout + Second

\* The age the token can have: during the sleep that began when it was stored,
\* and during the login after that.
TokenAge ==
  accessToken # NoToken =>
    /\ refresher = "sleep" =>
         due + tokenDuration < accessToken + LoginTimeout + Lateness + refreshDuration + Second
    /\ refresher \in {"login", "granted", "failed"} =>
         due + tokenDuration <
           accessToken + 2 * LoginTimeout + 2 * Lateness + refreshDuration + Second

\* A call in progress means that there is a token, and carries one if it needs it.
CallAge(k) ==
  /\ pc[k] \in InFlight => accessToken # NoToken
  /\ pc[k] = "calling" => deadline[k] <= now + CallTimeout
  /\ pc[k] \in {"sent", "running"} /\ method[k] \in AuthMethods =>
       deadline[k] + tokenDuration <
         carried[k] + CallTimeout + 2 * LoginTimeout + 3 * Lateness + refreshDuration + Second

Refreshing == accessToken # NoToken => refresher \in Timed

Inv == /\ Punctual /\ LoginAge /\ TokenAge /\ Refreshing
       /\ \A k \in Call : CallAge(k) /\ pc[k] # "Unauthenticated"

\* What the end of a call leaves is what it was for the others.
LEMMA EndKeeps ==
  ASSUME TypeOK, Inv, NEW k \in Call, NEW code \in Code \ {"Unauthenticated"}, End(k, code)
  PROVE  Inv'
PROOF
<1> USE TimeAssumption DEF TypeOK
<1>1. /\ UNCHANGED <<now, up, user, refresher, due, grant, accessToken>>
      /\ pc' = [pc EXCEPT ![k] = code]
      /\ method' = [method EXCEPT ![k] = "none"]
      /\ carried' = [carried EXCEPT ![k] = NoToken]
      /\ deadline' = [deadline EXCEPT ![k] = 0]
  BY DEF End, Goto, auth
<1>2. code \notin InFlight BY DEF InFlight, Code
<1>3. Punctual' BY <1>1, <1>2 DEF Inv, Punctual
<1>4. LoginAge' /\ TokenAge' /\ Refreshing' BY <1>1 DEF Inv, LoginAge, TokenAge, Refreshing
<1>5. ASSUME NEW j \in Call PROVE CallAge(j)'
  <2>1. CASE j = k BY <1>1, <1>2, <2>1 DEF CallAge, InFlight
  <2>2. CASE j # k BY <1>1, <2>2 DEF Inv, CallAge
  <2> QED BY <2>1, <2>2
<1>6. \A j \in Call : pc'[j] # "Unauthenticated" BY <1>1 DEF Inv
<1> QED BY <1>3, <1>4, <1>5, <1>6 DEF Inv

\* A call that goes on where it was, while only the refresher moves, is as it was.
LEMMA CallsKept ==
  ASSUME TypeOK, Inv, UNCHANGED <<now, call>>, accessToken # NoToken => accessToken' # NoToken
  PROVE  \A k \in Call : CallAge(k)' /\ pc'[k] # "Unauthenticated"
BY DEF Inv, CallAge, call

\* The steps of refreshToken: a token is replaced before it is too old.
LEMMA RefreshKeeps ==
  ASSUME DurationsSuffice, TypeOK, TypeOK', Inv, Refresh
  PROVE  Inv'
PROOF
<1> USE TimeAssumption DEF TypeOK, Token, NoToken, DurationsSuffice
<1>1. CASE RequestLogin
  <2>1. Punctual' BY <1>1 DEF RequestLogin, Inv, Punctual, call
  <2>2. LoginAge' BY <1>1 DEF RequestLogin, LoginAge
  <2>3. TokenAge'
    <3>1. CASE refresher = "start"
      BY <1>1, <3>1 DEF RequestLogin, Inv, Refreshing, Timed, TokenAge
    <3>2. CASE refresher = "sleep"
      BY <1>1, <3>2 DEF RequestLogin, Inv, Punctual, TokenAge, Timed
    <3> QED BY <1>1, <3>1, <3>2 DEF RequestLogin
  <2>4. Refreshing' BY <1>1 DEF RequestLogin, Refreshing, Timed
  <2> QED BY <1>1, <2>1, <2>2, <2>3, <2>4, CallsKept DEF RequestLogin, Inv
<1>2. CASE Login
  <2>1. Punctual' BY <1>2 DEF Login, Inv, Punctual, call, Timed
  <2>2. LoginAge'
    <3>1. now + tokenDuration \in Nat OBVIOUS
    <3>2. now + tokenDuration < Generate + Second
      BY <3>1, TruncateLoss DEF Generate
    <3>3. Generate \in Nat BY <3>1, TruncateLoss DEF Generate
    <3>4. due <= now + LoginTimeout /\ LoginTimeout <= due
      BY <1>2 DEF Login, Inv, LoginAge
    <3>5. due + tokenDuration < Generate + LoginTimeout + Second
      BY <3>2, <3>3, <3>4
    <3> QED BY <1>2, <3>4, <3>5 DEF Login, LoginAge
  <2>3. TokenAge' BY <1>2 DEF Login, Inv, TokenAge
  <2>4. Refreshing' BY <1>2 DEF Login, Refreshing, Timed
  <2> QED BY <1>2, <2>1, <2>2, <2>3, <2>4, CallsKept DEF Login, Inv
<1>3. CASE StoreToken
  <2>1. now <= due + Lateness BY <1>3 DEF StoreToken, Inv, Punctual, Timed
  <2>2. due + tokenDuration < grant + LoginTimeout + Second /\ LoginTimeout <= due
    BY <1>3 DEF StoreToken, Inv, LoginAge
  <2>3. grant # NoToken BY <2>2
  <2>4. Punctual' BY <1>3 DEF StoreToken, Inv, Punctual, call
  <2>5. LoginAge' BY <1>3 DEF StoreToken, LoginAge
  <2>6. TokenAge' BY <1>3, <2>1, <2>2 DEF StoreToken, TokenAge
  <2>7. Refreshing' BY <1>3 DEF StoreToken, Refreshing, Timed
  <2> QED BY <1>3, <2>3, <2>4, <2>5, <2>6, <2>7, CallsKept DEF StoreToken, Inv
<1>4. CASE LoginFails
  BY <1>4 DEF LoginFails, Inv, Punctual, LoginAge, TokenAge, CallAge, Refreshing, Timed, InFlight
<1> QED BY <1>1, <1>2, <1>3, <1>4 DEF Refresh

\* What the invariant is for: a token that a call carries is good until the call
\* is over.
LEMMA Outlives ==
  ASSUME DurationsSuffice, TypeOK, Inv
  PROVE  /\ TokenOutlivesCall
         /\ \A k \in Call : pc[k] = "sent" /\ method[k] \in DOMAIN AccessibleRoles =>
              Verify(carried[k])
PROOF
<1> USE TimeAssumption DEF TypeOK
<1>1. DOMAIN AccessibleRoles = AuthMethods BY DEF AccessibleRoles, AuthMethods
<1>2. ASSUME NEW k \in Call, pc[k] \in {"sent", "running"}, method[k] \in AuthMethods
      PROVE  now < carried[k]
  <2>1. now <= deadline[k] + Lateness BY <1>2 DEF Inv, Punctual, InFlight
  <2>2. carried[k] \in Nat BY DEF Token
  <2>3. deadline[k] + tokenDuration <
          carried[k] + CallTimeout + 2 * LoginTimeout + 3 * Lateness + refreshDuration + Second
    BY <1>2 DEF Inv, CallAge
  <2> QED BY <2>1, <2>2, <2>3 DEF DurationsSuffice
<1>3. ASSUME NEW k \in Call, pc[k] = "sent", method[k] \in AuthMethods
      PROVE  Verify(carried[k])
  <2>1. carried[k] \in Nat BY DEF Token
  <2> QED BY <1>2, <1>3, <2>1 DEF Verify, NoToken
<1> QED BY <1>1, <1>2, <1>3 DEF TokenOutlivesCall, Inv

\* The steps of a call: it takes a token that is young enough for all of it.
LEMMA CallKeeps ==
  ASSUME DurationsSuffice, TypeOK, TypeOK', Inv, NEW k \in Call, Serve(k)
  PROVE  Inv'
PROOF
<1> USE TimeAssumption DEF TypeOK, DurationsSuffice
<1>1. ASSUME NEW m \in Called, StartCall(k, m) PROVE Inv'
  <2>1. LoginAge' /\ TokenAge' /\ Refreshing'
    BY <1>1 DEF StartCall, auth, Inv, LoginAge, TokenAge, Refreshing
  <2>2. Punctual' BY <1>1 DEF StartCall, Goto, auth, Inv, Punctual
  <2>3. ASSUME NEW j \in Call PROVE CallAge(j)' /\ pc'[j] # "Unauthenticated"
    BY <1>1 DEF StartCall, Goto, auth, Inv, CallAge
  <2> QED BY <2>1, <2>2, <2>3 DEF Inv
<1>2. CASE AttachToken(k)
  <2>1. LoginAge' /\ TokenAge' /\ Refreshing'
    BY <1>2 DEF AttachToken, auth, Inv, LoginAge, TokenAge, Refreshing
  <2>2. Punctual' BY <1>2 DEF AttachToken, Goto, auth, Inv, Punctual, InFlight
  <2>3. accessToken # NoToken /\ deadline[k] <= now + CallTimeout
    BY <1>2 DEF AttachToken, Inv, CallAge, InFlight
  <2>4. now <= due + Lateness
    BY <2>3 DEF Inv, Punctual, Refreshing
  <2>5. accessToken \in Nat BY DEF Token
  <2>6. due + tokenDuration < accessToken + 2 * LoginTimeout + 2 * Lateness + refreshDuration + Second
    BY <2>3, <2>5 DEF Inv, TokenAge, Refreshing, Timed
  <2>7. deadline[k] + tokenDuration <
          accessToken + CallTimeout + 2 * LoginTimeout + 3 * Lateness + refreshDuration + Second
    BY <2>3, <2>4, <2>5, <2>6
  <2>8. ASSUME NEW j \in Call PROVE CallAge(j)' /\ pc'[j] # "Unauthenticated"
    <3>1. CASE j = k
      BY <1>2, <2>3, <2>7, <3>1 DEF AttachToken, Goto, auth, CallAge
    <3>2. CASE j # k
      BY <1>2, <3>2 DEF AttachToken, Goto, auth, Inv, CallAge
    <3> QED BY <3>1, <3>2
  <2> QED BY <2>1, <2>2, <2>8 DEF Inv
<1>3. CASE Authorize(k)
  <2>1. CASE Goto(k, "running") /\ UNCHANGED <<now, up, user, auth, method, carried, deadline>>
    <3>1. LoginAge' /\ TokenAge' /\ Refreshing'
      BY <2>1 DEF auth, Inv, LoginAge, TokenAge, Refreshing
    <3>2. Punctual' BY <1>3, <2>1 DEF Authorize, Admit, Goto, auth, Inv, Punctual, InFlight
    <3>3. ASSUME NEW j \in Call PROVE CallAge(j)' /\ pc'[j] # "Unauthenticated"
      BY <1>3, <2>1 DEF Authorize, Admit, Goto, auth, Inv, CallAge, InFlight
    <3> QED BY <3>1, <3>2, <3>3 DEF Inv
  <2>2. CASE End(k, "PermissionDenied") BY <2>2, EndKeeps DEF Code
  <2>3. ~(method[k] \in DOMAIN AccessibleRoles /\ ~Verify(carried[k]))
    BY <1>3, Outlives DEF Authorize, Admit
  <2> QED BY <1>3, <2>1, <2>2, <2>3 DEF Authorize, Admit
<1>4. CASE Respond(k) BY <1>4, EndKeeps DEF Respond, Code
<1>5. CASE Expire(k) BY <1>5, EndKeeps DEF Expire, Code
<1>6. CASE Unavailable(k) BY <1>6, EndKeeps DEF Unavailable, Code
<1> QED BY <1>1, <1>2, <1>3, <1>4, <1>5, <1>6 DEF Serve

\* Time does not pass a timer by, and a restart leaves the tokens alone.
LEMMA ServerAndTimeKeep ==
  ASSUME TypeOK, Inv, Stop \/ Start \/ Tick \/ UNCHANGED vars
  PROVE  Inv'
PROOF
<1> USE TimeAssumption DEF TypeOK
<1>1. CASE Stop
  <2>1. Punctual' BY <1>1 DEF Stop, Inv, Punctual, Timed, InFlight
  <2>2. LoginAge' /\ TokenAge' /\ Refreshing'
    BY <1>1 DEF Stop, Inv, LoginAge, TokenAge, Refreshing, Timed
  <2>3. ASSUME NEW j \in Call PROVE CallAge(j)' /\ pc'[j] # "Unauthenticated"
    <3>1. CASE pc[j] \in {"sent", "running"}
      BY <1>1, <3>1 DEF Stop, CallAge, InFlight
    <3>2. CASE pc[j] \notin {"sent", "running"}
      BY <1>1, <3>2 DEF Stop, Inv, CallAge
    <3> QED BY <3>1, <3>2
  <2> QED BY <2>1, <2>2, <2>3 DEF Inv
<1>2. CASE Start
  BY <1>2 DEF Start, auth, call, Inv, Punctual, LoginAge, TokenAge, CallAge, Refreshing
<1>3. CASE Tick
  <2>1. Punctual' BY <1>3 DEF Tick, auth, call, Punctual
  <2>2. LoginAge' BY <1>3 DEF Tick, auth, call, Inv, LoginAge
  <2>3. TokenAge' /\ Refreshing' BY <1>3 DEF Tick, auth, call, Inv, TokenAge, Refreshing
  <2>4. ASSUME NEW j \in Call PROVE CallAge(j)' /\ pc'[j] # "Unauthenticated"
    BY <1>3 DEF Tick, auth, call, Inv, CallAge
  <2> QED BY <2>1, <2>2, <2>3, <2>4 DEF Inv
<1>4. CASE UNCHANGED vars
  BY <1>4 DEF vars, auth, call, Inv, Punctual, LoginAge, TokenAge, CallAge, Refreshing
<1> QED BY <1>1, <1>2, <1>3, <1>4

LEMMA TokensYoung ==
  ASSUME DurationsSuffice
  PROVE  Spec => []Inv
PROOF
<1>1. Init => Inv
  BY DEF Init, Inv, Punctual, LoginAge, TokenAge, CallAge, Refreshing, Timed, InFlight
<1>2. TypeOK /\ TypeOK' /\ Inv /\ [Next]_vars => Inv'
  BY RefreshKeeps, CallKeeps, ServerAndTimeKeep DEF Next
<1> QED BY <1>1, <1>2, TypeCorrect, PTL DEF Spec

\* For any durations that suffice, and for ever, no call of a client is refused
\* because its token has expired, or still in progress when it does.
THEOREM TokensOutliveCalls ==
  ASSUME DurationsSuffice
  PROVE  Spec => []TokenOutlivesCall
PROOF
<1>1. TypeOK /\ Inv => TokenOutlivesCall
  BY Outlives
<1> QED BY <1>1, TokensYoung, TypeCorrect, PTL

--------------------------------------------------------------------------------
(* Roles *)

\* There are tokens only of a user who has logged in.
TokensAreUsers == user \notin User => /\ grant = NoToken /\ accessToken = NoToken
                                     /\ \A k \in Call : carried[k] = NoToken

RInv == TokensAreUsers /\ RolesRespected

LEMMA RolesInvariant == Spec => []RInv
PROOF
<1>1. Init => RInv
  BY DEF Init, RInv, TokensAreUsers, RolesRespected
<1>2. TypeOK /\ RInv /\ [Next]_vars => RInv'
  <2> SUFFICES ASSUME TypeOK, RInv, [Next]_vars PROVE RInv'
    OBVIOUS
  <2> USE DEF TypeOK
  <2>1. CASE Refresh
    BY <2>1 DEF Refresh, RequestLogin, Login, StoreToken, LoginFails, call, RInv, TokensAreUsers,
                RolesRespected
  <2>2. CASE \E k \in Call : Serve(k)
    <3> SUFFICES ASSUME NEW k \in Call, Serve(k) PROVE RInv'
      BY <2>2
    <3>1. ASSUME NEW code \in Code, End(k, code) PROVE RInv'
      BY <3>1 DEF End, Goto, auth, Code, RInv, TokensAreUsers, RolesRespected
    <3>2. ASSUME NEW m \in Called, StartCall(k, m) PROVE RInv'
      BY <3>2 DEF StartCall, Goto, auth, RInv, TokensAreUsers, RolesRespected
    <3>3. CASE AttachToken(k)
      BY <3>3 DEF AttachToken, Goto, auth, RInv, TokensAreUsers, RolesRespected
    <3>4. CASE Authorize(k)
      <4>1. CASE End(k, "Unauthenticated") BY <4>1, <3>1 DEF Code
      <4>2. CASE End(k, "PermissionDenied") BY <4>2, <3>1 DEF Code
      <4>3. CASE /\ method[k] \in DOMAIN AccessibleRoles =>
                       Verify(carried[k]) /\ Role[user] \in AccessibleRoles[method[k]]
                 /\ Goto(k, "running")
                 /\ UNCHANGED <<now, up, user, auth, method, carried, deadline>>
        BY <4>3 DEF Goto, auth, Verify, RInv, TokensAreUsers, RolesRespected
      <4> QED BY <3>4, <4>1, <4>2, <4>3 DEF Authorize, Admit
    <3>5. CASE Respond(k) BY <3>5, <3>1 DEF Respond, Code
    <3>6. CASE Expire(k) BY <3>6, <3>1 DEF Expire, Code
    <3>7. CASE Unavailable(k) BY <3>7, <3>1 DEF Unavailable, Code
    <3> QED BY <3>2, <3>3, <3>4, <3>5, <3>6, <3>7 DEF Serve
  <2>3. CASE Stop
    BY <2>3 DEF Stop, RInv, TokensAreUsers, RolesRespected
  <2>4. CASE Start \/ Tick
    BY <2>4 DEF Start, Tick, auth, call, RInv, TokensAreUsers, RolesRespected
  <2>5. CASE UNCHANGED vars
    BY <2>5 DEF vars, auth, call, RInv, TokensAreUsers, RolesRespected
  <2> QED BY <2>1, <2>2, <2>3, <2>4, <2>5 DEF Next
<1> QED BY <1>1, <1>2, TypeCorrect, PTL DEF Spec

\* Whatever the durations, a handler of a restricted method runs only for a
\* user whose role may call the method.
THEOREM RolesAlwaysRespected == Spec => []RolesRespected
PROOF
<1>1. RInv => RolesRespected BY DEF RInv
<1> QED BY <1>1, RolesInvariant, PTL

--------------------------------------------------------------------------------
(* The tokens implement Access: a call's step is its own, and what the     *)
(* refresher does can be seen only once, when the first token is stored    *)

\* What a step leaves of a call is what Access sees of it.
LEMMA StatusIs ==
  ASSUME TypeOK, NEW k \in Call
  PROVE  /\ Status[k] = "asked" <=> pc[k] \in {"calling", "sent"}
         /\ Status[k] = "working" <=> pc[k] = "running"
         /\ pc[k] \notin InFlight => Status[k] = pc[k]
         /\ Status[k] \in Abstract!InProgress <=> pc[k] \in InFlight
BY DEF TypeOK, Status, InFlight, Over, Code, Abstract!InProgress

LEMMA EndAccess ==
  ASSUME TypeOK, NEW k \in Call, NEW code \in Code, End(k, code)
  PROVE  Abstract!End(k, code) /\ UNCHANGED Session
<1>1. Status' = [Status EXCEPT ![k] = code]
  BY DEF End, Goto, TypeOK, Status, Code
<1> QED BY <1>1 DEF End, auth, Abstract!End, Session

\* The role is looked up for the user that the token was issued to.
LEMMA GrantedIs ==
  ASSUME TypeOK, NEW k \in Call, method[k] \in Method
  PROVE  <<user, method[k]>> \in Granted <=>
           (method[k] \in DOMAIN AccessibleRoles =>
              user \in User /\ Role[user] \in AccessibleRoles[method[k]])
BY DEF TypeOK, Granted

\* A call in progress has a method.
MethodOfCall == \A k \in Call : pc[k] \in InFlight => method[k] \in Method

LEMMA ServeAccess ==
  ASSUME DurationsSuffice, TypeOK, Inv, RInv, MethodOfCall, NEW k \in Call, Serve(k)
  PROVE  [Abstract!Next]_(Abstract!vars)
<1> USE MethodAssumption
<1>1. ASSUME NEW m \in Called, StartCall(k, m) PROVE Abstract!Next
  <2>1. Session = "in" /\ UNCHANGED Session
    BY <1>1 DEF StartCall, auth, Session, Inv, Refreshing, Timed
  <2>2. Status[k] \in Abstract!Over
    BY <1>1, StatusIs DEF StartCall, Over, Code, InFlight, Inv, Abstract!Over
  <2>3. Status' = [Status EXCEPT ![k] = "asked"]
    BY <1>1 DEF StartCall, Goto, TypeOK, Status
  <2>4. Abstract!Ask(k, m)
    BY <1>1, <2>1, <2>2, <2>3 DEF StartCall, Abstract!Ask
  <2> QED BY <2>4 DEF Abstract!Next
<1>2. CASE AttachToken(k)
  <2>1. Status' = Status BY <1>2 DEF AttachToken, Goto, TypeOK, Status
  <2> QED BY <1>2, <2>1 DEF AttachToken, auth, Session, Abstract!vars
<1>3. CASE Authorize(k)
  <2>1. pc[k] = "sent" /\ method[k] \in Method /\ Status[k] = "asked"
    BY <1>3, StatusIs DEF Authorize, MethodOfCall, InFlight
  <2>2. method[k] \in DOMAIN AccessibleRoles => Verify(carried[k]) /\ user \in User
    BY <2>1, Outlives DEF Verify, RInv, TokensAreUsers
  <2>3. CASE /\ method[k] \in DOMAIN AccessibleRoles => Role[user] \in AccessibleRoles[method[k]]
             /\ Goto(k, "running")
             /\ UNCHANGED <<now, up, user, auth, method, carried, deadline>>
    <3>1. Status' = [Status EXCEPT ![k] = "working"] BY <2>3 DEF Goto, TypeOK, Status
    <3>2. Abstract!Enter(k)
      BY <2>1, <2>2, <2>3, <3>1, GrantedIs DEF auth, Session, Abstract!Enter
    <3> QED BY <3>2 DEF Abstract!Next
  <2>4. CASE /\ method[k] \in DOMAIN AccessibleRoles
             /\ Role[user] \notin AccessibleRoles[method[k]]
             /\ End(k, "PermissionDenied")
    <3>1. Abstract!Refuse(k)
      BY <2>1, <2>4, GrantedIs, EndAccess DEF Code, Abstract!Refuse
    <3> QED BY <3>1 DEF Abstract!Next
  <2> QED BY <1>3, <2>1, <2>2, <2>3, <2>4 DEF Authorize, Admit
<1>4. CASE Respond(k)
  <2>1. Abstract!Answer(k)
    BY <1>4, StatusIs, EndAccess DEF Respond, Code, Abstract!Answer
  <2> QED BY <2>1 DEF Abstract!Next
<1>5. CASE Expire(k)
  <2>1. Abstract!Expire(k)
    BY <1>5, StatusIs, EndAccess DEF Expire, Code, Abstract!Expire
  <2> QED BY <2>1 DEF Abstract!Next
<1>6. CASE Unavailable(k)
  <2>1. Status[k] \in Abstract!InProgress BY <1>6, StatusIs DEF Unavailable, InFlight
  <2>2. /\ Status' = [j \in Call |-> IF j \in {k} THEN "Unavailable" ELSE Status[j]]
        /\ method' = [j \in Call |-> IF j \in {k} THEN "none" ELSE method[j]]
    BY <1>6 DEF Unavailable, End, Goto, TypeOK, Status
  <2>3. Abstract!Break({k})
    BY <1>6, <2>1, <2>2 DEF Unavailable, End, auth, Session, Abstract!Break
  <2> QED BY <2>3 DEF Abstract!Next
<1> QED BY <1>1, <1>2, <1>3, <1>4, <1>5, <1>6 DEF Serve

LEMMA RefreshAccess ==
  ASSUME DurationsSuffice, TypeOK, Inv, RInv, Refresh
  PROVE  [Abstract!Next]_(Abstract!vars)
<1> USE TimeAssumption
<1>1. CASE RequestLogin \/ Login
  <2>1. UNCHANGED <<user, accessToken, pc, method>> /\ refresher # "dead" /\ refresher' # "dead"
    BY <1>1 DEF RequestLogin, Login, call
  <2> QED BY <2>1 DEF Session, Status, Abstract!vars
<1>2. CASE StoreToken
  <2>1. due \in Nat /\ grant \in Nat /\ tokenDuration \in Nat
    BY DEF TypeOK, Token
  <2>2. due + tokenDuration < grant + LoginTimeout + Second /\ LoginTimeout <= due
    BY <1>2 DEF StoreToken, Inv, LoginAge
  <2>3. grant # NoToken BY <2>1, <2>2 DEF DurationsSuffice, NoToken
  <2>4. user \in User BY <2>3 DEF RInv, TokensAreUsers
  <2>5. Session' = "in" /\ Session \in {"out", "in"} BY <1>2, <2>3 DEF StoreToken, Session
  <2>6. UNCHANGED <<user, Status, method>> BY <1>2 DEF StoreToken, call, Status
  <2>7. CASE Session = "out"
    <3>1. Abstract!LogIn BY <2>4, <2>5, <2>6, <2>7 DEF Abstract!LogIn
    <3> QED BY <3>1 DEF Abstract!Next
  <2>8. CASE Session = "in" BY <2>5, <2>6, <2>8 DEF Abstract!vars
  <2> QED BY <2>5, <2>7, <2>8
<1>3. CASE LoginFails
  <2>1. Session # "gone" /\ Session' = "gone" BY <1>3 DEF LoginFails, Session
  <2>2. Status' = [k \in Call |-> "new"] BY <1>3 DEF LoginFails, Status
  <2>3. Abstract!Leave BY <1>3, <2>1, <2>2 DEF LoginFails, Abstract!Leave
  <2> QED BY <2>3 DEF Abstract!Next
<1> QED BY <1>1, <1>2, <1>3 DEF Refresh

LEMMA StopAccess == ASSUME TypeOK, Stop PROVE Abstract!Next
<1> DEFINE lost == {k \in Call : pc[k] \in {"sent", "running"}}
<1>1. \A k \in lost : Status[k] \in Abstract!InProgress BY StatusIs DEF InFlight
<1>2. Status' = [k \in Call |-> IF k \in lost THEN "Unavailable" ELSE Status[k]]
  BY DEF Stop, Status
<1>3. method' = [k \in Call |-> IF k \in lost THEN "none" ELSE method[k]] BY DEF Stop
<1>4. UNCHANGED <<user, Session>> BY DEF Stop, Session
<1>5. Abstract!Break(lost) BY <1>1, <1>2, <1>3, <1>4 DEF Abstract!Break
<1> QED BY <1>5 DEF Abstract!Next

LEMMA MethodsKnown == Spec => []MethodOfCall
<1> USE MethodAssumption
<1>1. Init => MethodOfCall BY DEF Init, MethodOfCall, InFlight
<1>2. TypeOK /\ MethodOfCall /\ [Next]_vars => MethodOfCall'
  <2> SUFFICES ASSUME TypeOK, MethodOfCall, [Next]_vars PROVE MethodOfCall'
    OBVIOUS
  <2>1. CASE Refresh
    BY <2>1 DEF Refresh, RequestLogin, Login, StoreToken, LoginFails, call, MethodOfCall, InFlight
  <2>2. ASSUME NEW k \in Call, Serve(k) PROVE MethodOfCall'
    <3>1. ASSUME NEW code \in Code, End(k, code) PROVE MethodOfCall'
      BY <3>1 DEF End, Goto, Code, InFlight, TypeOK, MethodOfCall
    <3>2. ASSUME NEW m \in Called, StartCall(k, m) PROVE MethodOfCall'
      BY <3>2 DEF StartCall, Goto, TypeOK, MethodOfCall
    <3>3. CASE AttachToken(k) BY <3>3 DEF AttachToken, Goto, InFlight, TypeOK, MethodOfCall
    <3>4. CASE Authorize(k)
      BY <3>1, <3>4 DEF Authorize, Admit, Goto, InFlight, Code, TypeOK, MethodOfCall
    <3> QED BY <2>2, <3>1, <3>2, <3>3, <3>4 DEF Serve, Respond, Expire, Unavailable, Code
  <2>3. CASE Stop BY <2>3 DEF Stop, InFlight, MethodOfCall
  <2>4. CASE Start \/ Tick \/ UNCHANGED vars
    BY <2>4 DEF Start, Tick, vars, auth, call, MethodOfCall
  <2> QED BY <2>1, <2>2, <2>3, <2>4 DEF Next
<1> QED BY <1>1, <1>2, TypeCorrect, PTL DEF Spec

\* For any durations that suffice, whatever the server and the timers do, a client that has
\* logged in once is answered according to his role and nothing else
\* (auth_interceptor.go:99-150, auth_interceptor_client.go:50-101).
THEOREM ImplementsAccess ==
  ASSUME DurationsSuffice
  PROVE  Spec => AccessSpec
<1>1. Init => Abstract!Init
  BY DEF Init, Session, Status, NoToken, Abstract!Init
<1>2. TypeOK /\ Inv /\ RInv /\ MethodOfCall /\ [Next]_vars => [Abstract!Next]_(Abstract!vars)
  <2> SUFFICES ASSUME TypeOK, Inv, RInv, MethodOfCall, [Next]_vars
               PROVE  [Abstract!Next]_(Abstract!vars)
    OBVIOUS
  <2>1. CASE Start \/ Tick \/ UNCHANGED vars
    BY <2>1 DEF Start, Tick, vars, auth, call, Session, Status, Abstract!vars
  <2> QED BY <2>1, RefreshAccess, ServeAccess, StopAccess DEF Next
<1> QED BY <1>1, <1>2, TypeCorrect, TokensYoung, RolesInvariant, MethodsKnown, PTL
        DEF Spec, AccessSpec, Abstract!Spec

================================================================================
