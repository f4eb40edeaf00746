-------------------------- MODULE ServerProgramProofs --------------------------
(***************************************************************************)
(* The server program implements the specification of TokenRefresh, for    *)
(* any number of calls and restarts; what TokenRefreshProofs proves of     *)
(* that specification is then true of the program.                         *)
(***************************************************************************)
EXTENDS ServerProgram, TokenRefreshProofs

--------------------------------------------------------------------------------
(* What main has done when it serves *)

\* The store holds users of the table only, with their own passwords, and all of
\* them once they have been seeded; Serve comes after Register.
Seeded ==
  /\ stage \in Stage
  /\ \A u \in DOMAIN users : u \in User /\ users[u] = NewUser(u, "secret", Role[u])
  /\ registered \subseteq {AuthService, LaptopService}
  /\ stage \notin {"down", "seed"} => DOMAIN users = User
  /\ stage \in {"listen", "serve"} => registered = {AuthService, LaptopService}
  /\ up <=> stage = "serve"

LEMMA BeginSeeds ==
  ASSUME NEW at \in {"down", "seed"}, Begin(at), ~up' PROVE Seeded'
BY DEF Begin, Seeded, Stage

LEMMA CreateUserSeeds == ASSUME Seeded, CreateUser PROVE Seeded'
<1>1. /\ stage = "seed" /\ up' = up /\ registered' = registered
      /\ DOMAIN Seeds = {1, 2} /\ Len(Seeds) = 2 /\ Seeds[1] = "admin1" /\ Seeds[2] = "user1"
  BY DEF CreateUser, vars, Seeds
<1>2. PICK i \in {1, 2} :
        /\ \A j \in 1 .. (i - 1) : Seeds[j] \in DOMAIN users
        /\ SaveUser(NewUser(Seeds[i], "secret", Role[Seeds[i]]))
        /\ stage' = IF i = 2 THEN "build" ELSE stage
  BY <1>1 DEF CreateUser
<1> DEFINE name == Seeds[i]
<1>3. name \in User BY <1>1 DEF User
<1>4. /\ DOMAIN users' = DOMAIN users \cup {name}
      /\ users'[name] = NewUser(name, "secret", Role[name])
      /\ \A n \in DOMAIN users : users'[n] = users[n]
  BY <1>2 DEF SaveUser, NewUser
<1>5. \A u \in DOMAIN users' : u \in User /\ users'[u] = NewUser(u, "secret", Role[u])
  BY <1>3, <1>4 DEF Seeded
<1>6. stage' # "seed" => DOMAIN users' = User
  <2> SUFFICES ASSUME i = 2 PROVE DOMAIN users' = User
    BY <1>1, <1>2
  <2>1. Seeds[1] \in DOMAIN users BY <1>2
  <2> QED BY <1>1, <1>4, <1>5, <2>1 DEF User
<1>7. stage' \in {"seed", "build"} BY <1>1, <1>2
<1> QED BY <1>1, <1>5, <1>6, <1>7 DEF Seeded, Stage

LEMMA MainSeeds == ASSUME Seeded, Main PROVE Seeded'
<1>1. CASE Boot \/ Fatal BY <1>1, BeginSeeds DEF Boot, Fatal, Seeded, vars
<1>2. CASE Kill BY <1>2, BeginSeeds DEF Kill, Stop
<1>3. CASE BuildServer \/ LoadCredentials
  BY <1>3 DEF BuildServer, LoadCredentials, Seeded, Stage, vars
<1>4. CASE Register BY <1>4 DEF Register, Seeded, Stage, vars
<1>5. CASE Listen BY <1>5 DEF Listen, Start, Seeded, Stage
<1> QED BY <1>1, <1>2, <1>3, <1>4, <1>5, CreateUserSeeds DEF Main

\* Calls and logins change nothing of this.
LEMMA CallsLeaveMain ==
  ASSUME Client \/ (\E k \in Call : ServeCall(k)) \/ (Tick /\ UNCHANGED <<process, stub>>)
  PROVE  UNCHANGED <<up, process>>
<1>1. ASSUME NEW k \in Call, ServeCall(k) PROVE UNCHANGED <<up, process>>
  <2>1. ASSUME NEW c, End(k, c) PROVE up' = up BY <2>1 DEF End
  <2>2. CASE \E m \in Called : StartCall(k, m) /\ UNCHANGED <<process, stub>>
    BY <2>2 DEF StartCall
  <2>3. CASE Invoke(k) \/ Decode(k) \/ EnterStream(k)
    BY <2>3 DEF Invoke, Decode, EnterStream, vars
  <2>4. CASE Authorized(k) BY <2>1, <2>4 DEF Authorized, Admit
  <2>5. CASE Answer(k) \/ GiveUp(k)
    BY <2>1, <2>5 DEF Answer, GiveUp, Respond, Expire, Unavailable
  <2> QED BY <1>1, <2>2, <2>3, <2>4, <2>5 DEF ServeCall
<1>2. CASE Client
  BY <1>2 DEF Client, RequestLogin, StoreToken, LoginFails, LoginOf
<1>3. CASE Tick /\ UNCHANGED <<process, stub>> BY <1>3 DEF Tick
<1> QED BY <1>1, <1>2, <1>3

LEMMA SeededAlways == ServerSpec => []Seeded
<1>1. ServerInit => Seeded BY DEF ServerInit, Seeded, Stage
<1>2. Seeded /\ [ServerNext]_serverVars => Seeded'
  <2> SUFFICES ASSUME Seeded, [ServerNext]_serverVars PROVE Seeded'
    OBVIOUS
  <2>1. CASE UNCHANGED <<up, process>> BY <2>1 DEF process, Seeded
  <2>2. CASE UNCHANGED serverVars BY <2>1, <2>2 DEF serverVars, vars
  <2>3. CASE Main BY <2>3, MainSeeds
  <2>4. CASE Client
    <3>1. UNCHANGED <<up, process>> BY <2>4, CallsLeaveMain
    <3> QED BY <2>1, <3>1
  <2>5. ASSUME NEW k \in Call, ServeCall(k) PROVE Seeded'
    <3>1. UNCHANGED <<up, process>> BY <2>5, CallsLeaveMain
    <3> QED BY <2>1, <3>1
  <2>6. CASE Tick /\ UNCHANGED <<process, stub>> BY <2>1, <2>6, CallsLeaveMain
  <2> QED BY <2>2, <2>3, <2>4, <2>5, <2>6 DEF ServerNext
<1> QED BY <1>1, <1>2, PTL DEF ServerSpec

--------------------------------------------------------------------------------
(* The refinement *)

\* The store's answer to a login is the table's.
LEMMA LoginImplements ==
  ASSUME Seeded, NEW c \in Credentials, LoginOf(c[1], c[2]) PROVE Login
<1> DEFINE known == \E found \in FindUser(c[1]) : IsCorrectPassword(found, c[2])
<1>1. stage = "serve" /\ DOMAIN users = User BY DEF LoginOf, Seeded
<1>2. known <=> user \in User
  <2>1. CASE user \in User
    <3>1. c[1] = user /\ c[2] = "secret" BY <2>1 DEF Credentials
    <3>2. users[user] \in FindUser(c[1]) BY <1>1, <2>1, <3>1 DEF FindUser
    <3>3. users[user].hash = "secret" BY <1>1, <2>1 DEF Seeded, NewUser
    <3> QED BY <2>1, <3>1, <3>2, <3>3 DEF IsCorrectPassword
  <2>2. CASE user \notin User
    <3>1. c = <<"nobody", "secret">> \/ c = <<"admin1", "guess">> BY <2>2 DEF Credentials
    <3>2. CASE c = <<"nobody", "secret">>
      <4>1. FindUser(c[1]) = {} BY <1>1, <3>2 DEF FindUser, User
      <4> QED BY <2>2, <4>1
    <3>3. CASE c = <<"admin1", "guess">>
      <4>1. \A found \in FindUser(c[1]) : found.hash = "secret"
        BY <1>1 DEF FindUser, Seeded, NewUser
      <4> QED BY <2>2, <3>3, <4>1 DEF IsCorrectPassword
    <3> QED BY <3>1, <3>2, <3>3
  <2> QED BY <2>1, <2>2
<1> HIDE DEF known
<1>3. /\ refresher = "login" /\ up
      /\ IF known THEN refresher' = "granted" /\ grant' = Generate
         ELSE refresher' = "failed" /\ UNCHANGED grant
      /\ UNCHANGED <<now, up, user, due, accessToken, call>>
  BY DEF LoginOf, known
<1> QED BY <1>2, <1>3 DEF Login

\* Every stub spells the path of its method as the tables do.
LEMMA Paths ==
  ASSUME NEW m
  PROVE  /\ FullMethod(m) \in Restricted <=> m \in DOMAIN AccessibleRoles
         /\ Invoked(m) \in WithToken <=> m \in AuthMethods
<1>1. \A a, b : <<LaptopService, a>> = <<LaptopService, b>> => a = b OBVIOUS
<1> QED BY <1>1 DEF FullMethod, Restricted, Invoked, WithToken

\* What the program does is a step of the specification, or none.
LEMMA StepImplements == ASSUME Seeded, [ServerNext]_serverVars PROVE [Next]_vars
<1>1. CASE Main
  BY <1>1 DEF Main, Boot, CreateUser, BuildServer, LoadCredentials, Register, Fatal, Listen, Kill,
              Next
<1>2. CASE Client
  BY <1>2, LoginImplements DEF Client, Next, Refresh
<1>3. ASSUME NEW k \in Call, ServeCall(k) PROVE [Next]_vars
  <2>1. CASE \E m \in Called : StartCall(k, m) /\ UNCHANGED <<process, stub>>
    BY <2>1 DEF Next, Serve
  <2>2. CASE Invoke(k)
    <3>1. AttachToken(k) BY <2>2, Paths DEF Invoke, AttachToken
    <3> QED BY <3>1 DEF Next, Serve
  <2>3. CASE Decode(k) \/ EnterStream(k) BY <2>3 DEF Decode, EnterStream
  <2>4. CASE Authorized(k)
    <3>1. Authorize(k) BY <2>4, Paths DEF Authorized, Arrived, Authorize
    <3> QED BY <3>1 DEF Next, Serve
  <2>5. CASE Answer(k) \/ GiveUp(k) BY <2>5 DEF Answer, GiveUp, Next, Serve
  <2> QED BY <1>3, <2>1, <2>2, <2>3, <2>4, <2>5 DEF ServeCall
<1>4. CASE Tick /\ UNCHANGED <<process, stub>> BY <1>4 DEF Next
<1>5. CASE UNCHANGED serverVars BY <1>5 DEF serverVars
<1> QED BY <1>1, <1>2, <1>3, <1>4, <1>5 DEF ServerNext

\* The program implements TokenRefresh: seeding, registration and the spelling of
\* the methods keep the promises that the interceptors are about
\* (cmd/server/main.go, ecommerce/laptop-service_grpc.pb.go).
THEOREM ImplementsTokens == ServerSpec => TokenSpec
<1>1. ServerInit => Init BY DEF ServerInit
<1> QED BY <1>1, StepImplements, SeededAlways, PTL DEF ServerSpec, TokenSpec, Spec

\* So that a restricted method of the program runs only for a user that main has
\* seeded and whose role may call it, whatever the durations.
THEOREM ProgramRespectsRoles == ServerSpec => []RolesRespected
BY ImplementsTokens, RolesAlwaysRespected, PTL DEF TokenSpec

\* And that a client of the program who has logged in once is answered according to
\* his role, whatever main does between two lives of the server, for durations that suffice.
THEOREM ProgramGrantsAccess ==
  ASSUME DurationsSuffice
  PROVE  ServerSpec => AccessSpec
BY ImplementsTokens, ImplementsAccess, PTL DEF TokenSpec

--------------------------------------------------------------------------------
(* Types *)

\* A stub works only while the server does, and for a call that has arrived.
StubsServe == /\ stub \in [Call -> {"none", "decoded", "handler"}]
              /\ \A k \in Call :
                   /\ pc[k] = "running" => up
                   /\ stub[k] # "none" => up /\ pc[k] \in {"sent", "running"}
                   /\ stub[k] = "handler" => pc[k] = "running"

LEMMA StubsKept ==
  ASSUME TypeOK, Seeded, StubsServe, [ServerNext]_serverVars PROVE StubsServe'
<1> USE DEF TypeOK, StubsServe
<1>1. CASE Main
  <2>1. CASE Kill BY <2>1 DEF Kill, Stop
  <2>2. CASE Listen BY <2>2 DEF Listen, Start, call
  <2>3. CASE UNCHANGED <<vars, stub>> BY <2>3 DEF vars, call
  <2> QED BY <1>1, <2>1, <2>2, <2>3
          DEF Main, Boot, CreateUser, BuildServer, LoadCredentials, Register, Fatal
<1>2. CASE Client
  BY <1>2 DEF Client, RequestLogin, StoreToken, LoginFails, LoginOf, call
<1>3. ASSUME NEW k \in Call, ServeCall(k) PROVE StubsServe'
  <2>1. ASSUME NEW c \in Code, End(k, c), stub' = [stub EXCEPT ![k] = "none"] PROVE StubsServe'
    BY <2>1 DEF End, Goto, Code
  <2>2. CASE \E m \in Called : StartCall(k, m) /\ UNCHANGED <<process, stub>>
    BY <2>2 DEF StartCall, Goto, Over, Code
  <2>3. CASE Invoke(k) BY <2>3 DEF Invoke, Goto
  <2>4. CASE Decode(k) BY <2>4 DEF Decode, Arrived, vars, call
  <2>5. CASE EnterStream(k) BY <2>5 DEF EnterStream, vars, call
  <2>6. CASE Authorized(k)
    <3>1. CASE Goto(k, "running") /\ UNCHANGED <<now, up, user, auth, method, carried, deadline>>
      BY <2>6, <3>1 DEF Authorized, Arrived, Goto
    <3>2. ASSUME NEW c \in {"Unauthenticated", "PermissionDenied"}, End(k, c) PROVE StubsServe'
      <4>1. pc'[k] # "running" BY <3>2 DEF End, Goto
      <4>2. stub' = [stub EXCEPT ![k] = "none"] BY <2>6, <4>1 DEF Authorized
      <4> QED BY <2>1, <3>2, <4>2 DEF Code
    <3> QED BY <2>6, <3>1, <3>2 DEF Authorized, Admit
  <2>7. CASE Answer(k) BY <2>1, <2>7 DEF Answer, Respond, Code
  <2>8. CASE GiveUp(k) BY <2>1, <2>8 DEF GiveUp, Expire, Unavailable, Code
  <2> QED BY <1>3, <2>2, <2>3, <2>4, <2>5, <2>6, <2>7, <2>8 DEF ServeCall
<1>4. CASE Tick /\ UNCHANGED <<process, stub>> BY <1>4 DEF Tick, call
<1>5. CASE UNCHANGED serverVars BY <1>5 DEF serverVars, vars, call
<1> QED BY <1>1, <1>2, <1>3, <1>4, <1>5 DEF ServerNext

\* Type correctness of the program: what main holds at each of its stages, and how
\* far the stubs have come (cmd/server/main.go:104-220).
THEOREM ServerTypes == ServerSpec => []ServerTypeOK
<1>1. ServerInit => StubsServe BY DEF ServerInit, Init, StubsServe
<1>2. ServerSpec => []TypeOK BY ImplementsTokens, TypeCorrect, PTL DEF TokenSpec
<1>3. Seeded /\ StubsServe => ServerTypeOK
  <2> SUFFICES ASSUME Seeded, StubsServe PROVE ServerTypeOK
    OBVIOUS
  <2>1. \A k \in Call : /\ stub[k] # "none" => pc[k] \in {"sent", "running"}
                        /\ stub[k] = "handler" => pc[k] = "running" /\ LaptopService \in registered
    BY DEF Seeded, StubsServe
  <2> QED BY <2>1 DEF Seeded, StubsServe, ServerTypeOK
<1> QED BY <1>1, <1>2, <1>3, StubsKept, SeededAlways, PTL DEF ServerSpec

================================================================================
