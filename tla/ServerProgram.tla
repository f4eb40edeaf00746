---------------------------- MODULE ServerProgram ----------------------------
(***************************************************************************)
(* The laptop server as a program: main (cmd/server/main.go) from flags to *)
(* Serve, the user store it fills on the way (service/user_store.go,       *)
(* user.go), and how a call finds its handler, through the services'       *)
(* descriptors and stubs (ecommerce/*_grpc.pb.go) and the interceptors     *)
(* that main puts before them.                                             *)
(*                                                                         *)
(* TokenRefresh takes all of this as given: a server that is up has its    *)
(* users, and methods are looked up by name.  Here the users are seeded,   *)
(* found and compared, and the names are the paths that the client's       *)
(* stubs, the server's stubs and the two tables of methods each spell out. *)
(* ServerSpec implements Spec, the specification of TokenRefresh.          *)
(***************************************************************************)
EXTENDS TokenRefresh, Sequences

VARIABLES stage,       \* where main is
          users,       \* InMemoryUserStore.users
          registered,  \* the services of grpcServer
          stub         \* how far the server's stub of a call has come

process == <<stage, users, registered>>
serverVars == <<vars, process, stub>>

Stage == {"down", "seed", "build", "credentials", "register", "listen", "serve"}

\* SeedUsers, in its order.
Seeds == <<"admin1", "user1">>

\* What the store keeps of a user; the hash is as good as the password.
NewUser(username, password, role) == [username |-> username, hash |-> password, role |-> role]
IsCorrectPassword(found, password) == found.hash = password

--------------------------------------------------------------------------------
(* The paths of the methods *)

LaptopService == "ecommerce.LaptopService"
AuthService == "ecommerce.AuthService"

\* The descriptors: what the methods of a service are called, and their kinds.
LaptopService_ServiceDesc ==
  [CreateLaptop |-> "unary", GetLaptopByID |-> "unary",
   SearchLaptop |-> "stream", UploadImage |-> "stream", RateLaptop |-> "stream"]
AuthService_ServiceDesc == [Login |-> "unary"]

\* The path that a stub of the client writes into its call.
Invoked(m) == <<LaptopService, m>>

\* The FullMethod that a stub of the server hands to the interceptor.
FullMethod(m) == <<LaptopService, m>>

\* Mutant: the path of UploadImage is misspelt in the server's table.
RestrictedMisspelt ==
  {<<LaptopService, m>> : m \in DOMAIN AccessibleRoles \ {"UploadImage"}}
    \cup {<<LaptopService, "Uploadimage">>}

\* The keys of the server's table, and of the client's.
Restricted == {<<LaptopService, m>> : m \in DOMAIN AccessibleRoles}
WithToken == {<<LaptopService, m>> : m \in AuthMethods}

--------------------------------------------------------------------------------

ServerTypeOK ==
  /\ stage \in Stage
  /\ \A u \in DOMAIN users : u \in User /\ users[u] = NewUser(u, "secret", Role[u])
  /\ registered \subseteq {AuthService, LaptopService}
  /\ stub \in [Call -> {"none", "decoded", "handler"}]
  /\ \A k \in Call : /\ stub[k] # "none" => pc[k] \in {"sent", "running"}
                     /\ stub[k] = "handler" => pc[k] = "running" /\ LaptopService \in registered
  /\ stage \in {"listen", "serve"} =>
       registered = {AuthService, LaptopService} /\ DOMAIN users = User
  /\ up <=> stage = "serve"

ServerInit == /\ Init
              /\ up = FALSE
              /\ stage = "down"
              /\ users = << >>
              /\ registered = {}
              /\ stub = [k \in Call |-> "none"]

--------------------------------------------------------------------------------
(* main *)

\* The process begins, or ends before it serves (log.Fatal), with all its stores.
Begin(at) == /\ stage' = at
             /\ users' = << >>
             /\ registered' = {}

Boot == /\ stage = "down"
        /\ Begin("seed")
        /\ UNCHANGED <<vars, stub>>

Fatal == /\ stage \in Stage \ {"down", "serve"}
         /\ Begin("down")
         /\ UNCHANGED <<vars, stub>>

\* Mutant: main goes on after the first user.
CreateFirstUser ==
  /\ stage = "seed"
  /\ users' = [u \in {Seeds[1]} |-> NewUser(u, "secret", Role[u])]
  /\ stage' = "build"
  /\ UNCHANGED <<vars, registered, stub>>

\* InMemoryUserStore.Save: a name that is taken is refused.
SaveUser(u) == /\ u.username \notin DOMAIN users
               /\ users' = [n \in DOMAIN users \cup {u.username} |->
                             IF n = u.username THEN u ELSE users[n]]

\* CreateUser for the next of SeedUsers.
CreateUser ==
  /\ stage = "seed"
  /\ \E i \in DOMAIN Seeds :
       /\ \A j \in 1 .. (i - 1) : Seeds[j] \in DOMAIN users
       /\ SaveUser(NewUser(Seeds[i], "secret", Role[Seeds[i]]))
       /\ stage' = IF i = Len(Seeds) THEN "build" ELSE stage
  /\ UNCHANGED <<vars, registered, stub>>

\* The other stores, the servers and the interceptors, which cannot fail.
BuildServer == /\ stage = "build"
               /\ stage' \in {"credentials", "register"}   \* with -tls, or without
               /\ UNCHANGED <<vars, users, registered, stub>>

\* The certificates of both sides; a file that cannot be read or parsed is fatal.
LoadCredentials == /\ stage = "credentials"
                   /\ stage' = "register"
                   /\ UNCHANGED <<vars, users, registered, stub>>

\* Mutant: only one of the two services is registered.
RegisterAuthOnly == /\ stage = "register"
                    /\ registered' = {AuthService}
                    /\ stage' = "listen"
                    /\ UNCHANGED <<vars, users, stub>>

Register == /\ stage = "register"
            /\ registered' = {AuthService, LaptopService}
            /\ stage' = "listen"
            /\ UNCHANGED <<vars, users, stub>>

\* net.Listen may fail, which is fatal; calls come after Serve.
Listen == /\ stage = "listen"
          /\ Start
          /\ stage' = "serve"
          /\ UNCHANGED <<users, registered, stub>>

Kill == /\ Stop
        /\ Begin("down")
        /\ stub' = [k \in Call |-> "none"]

--------------------------------------------------------------------------------
(* Calls *)

\* AuthServer.Login on the store.  Whoever is nobody gives a wrong name, or a wrong
\* password.
Credentials == IF user \in User THEN {<<user, "secret">>}
               ELSE {<<"nobody", "secret">>, <<"admin1", "guess">>}

\* InMemoryUserStore.Find: the user, if there is one.
FindUser(username) == {users[n] : n \in DOMAIN users \cap {username}}

LoginOf(username, password) ==
  /\ refresher = "login"
  /\ up /\ AuthService \in registered
  /\ IF \E found \in FindUser(username) : IsCorrectPassword(found, password)
     THEN refresher' = "granted" /\ grant' = Generate
     ELSE refresher' = "failed" /\ UNCHANGED grant
  /\ UNCHANGED <<now, up, user, due, accessToken, call, process, stub>>

\* The client's interceptor looks the path of the call up in its own table.
Invoke(k) ==
  /\ pc[k] = "calling"
  /\ carried' = [carried EXCEPT ![k] = IF Invoked(method[k]) \in WithToken THEN accessToken ELSE @]
  /\ Goto(k, "sent")
  /\ UNCHANGED <<now, up, user, auth, method, deadline, process, stub>>

\* A service that is not registered has no stubs.  (gRPC would answer Unimplemented;
\* ServerTypeOK says that no call ever meets one.)
Arrived(k) == pc[k] = "sent" /\ up /\ LaptopService \in registered

\* The stub of a unary method reads the request before it calls the interceptor.
\* (A request that cannot be read is that of a client which has given up.)
Decode(k) == /\ Arrived(k)
             /\ LaptopService_ServiceDesc[method[k]] = "unary"
             /\ stub[k] = "none"
             /\ stub' = [stub EXCEPT ![k] = "decoded"]
             /\ UNCHANGED <<vars, process>>

\* The interceptor of a stream is called before its stub.
Authorized(k) ==
  LET unary == LaptopService_ServiceDesc[method[k]] = "unary"
  IN  /\ Arrived(k)
      /\ unary => stub[k] = "decoded"
      /\ Admit(k, FullMethod(method[k]) \in Restricted)
      /\ stub' = [stub EXCEPT ![k] = IF unary /\ pc'[k] = "running" THEN "handler" ELSE "none"]
      /\ UNCHANGED process

\* The stub of SearchLaptop reads the request now; the others leave it to the handler.
EnterStream(k) == /\ pc[k] = "running"
                  /\ stub[k] = "none"
                  /\ stub' = [stub EXCEPT ![k] = "handler"]
                  /\ UNCHANGED <<vars, process>>

Answer(k) == /\ Respond(k)
             /\ stub[k] = "handler"
             /\ stub' = [stub EXCEPT ![k] = "none"]
             /\ UNCHANGED process

\* The client's side of the call, which ends whatever the server does.
GiveUp(k) == /\ Expire(k) \/ Unavailable(k)
             /\ stub' = [stub EXCEPT ![k] = "none"]
             /\ UNCHANGED process

--------------------------------------------------------------------------------

Main == \/ Boot \/ CreateUser \/ BuildServer \/ LoadCredentials \/ Register \/ Listen
        \/ Fatal \/ Kill

ServeCall(k) ==
  \/ \E m \in Called : StartCall(k, m) /\ UNCHANGED <<process, stub>>
  \/ Invoke(k) \/ Decode(k) \/ Authorized(k) \/ EnterStream(k) \/ Answer(k) \/ GiveUp(k)

Client == \/ (RequestLogin \/ StoreToken) /\ UNCHANGED <<process, stub>>
          \/ LoginFails /\ stub' = [k \in Call |-> "none"] /\ UNCHANGED process
          \/ \E c \in Credentials : LoginOf(c[1], c[2])

ServerNext == \/ Main \/ Client
              \/ \E k \in Call : ServeCall(k)
              \/ Tick /\ UNCHANGED <<process, stub>>

ServerSpec == ServerInit /\ [][ServerNext]_serverVars

--------------------------------------------------------------------------------
(* Properties *)

\* The program does what TokenRefresh says of it: a login is judged by the users
\* that main seeds, however often it has been restarted, and calls are authorised by
\* the two tables of methods although every stub spells its path out again
\* (cmd/server/main.go:108-114, service/auth_interceptor.go:73-95).
TokenSpec == Spec

================================================================================
