# Verification of gRPC_Playground

TLA+ models of the Go programs in this repository, model-checked with TLC on
small instances, and theorems about them that TLAPS proves for every value of
the constants. Paths below are relative to `src/`.

## 1. The system

Three independent pairs of programs share the repository.

**The laptop service** (`cmd/server`, `cmd/client`, `service`, `client`). A gRPC
server keeps laptops, ratings and users in memory and laptop images on the disk.
A client logs in, refreshes its access token in the background and makes unary
and streaming calls. gRPC runs every call of the server in a goroutine of its
own, so the handlers run concurrently on the shared stores.

**The order management service** (`grpc-service/order-management-server`,
`grpc-client/order-management-client`), a smaller program with a global,
unlocked map of orders and a client that makes one call after another.

**The product info service** (`grpc-service/productInfo-server`,
`grpc-client/productInfo-client`), smaller still: two handlers on an unlocked map
that the first of them makes, and a client that adds a product and gets it back.

| Component | State | Operations | Talks to | What is hard | What makes it correct |
|---|---|---|---|---|---|
| Laptop store (`service/laptop_store.go`) | `data`, an RWMutex | `Save`, `Find`, `Search` | its callers, the client through `Search`'s callback | `Search` holds the read lock while it sends; writers queue behind it, readers behind them; contexts end in between | lock discipline; a search is a snapshot; every call is answered |
| Laptop server (`service/laptop_server.go`) | none of its own | `CreateLaptop`, `GetLaptopByID`, `SearchLaptop`, `RateLaptop`, `UploadImage` | all three stores | contexts, streams, error paths | each call looks atomic to its caller |
| Rating store (`service/laptop_store.go`) | `rating`, a Mutex, `Rating` objects shared by pointer | `Add` | `RateLaptop` | the handler reads the shared object after the unlock | no rating lost; a response is about the present |
| Image store (`service/image_store.go`) | files, `images`, an RWMutex | `Save` | `UploadImage`, the disk | file and map are updated apart; failures; crashes | a registered image is whole; OK is durable |
| Tokens (`service/jwt_manager.go`, `auth_server.go`, `auth_interceptor.go`) | none (a constant key) | `Generate`, `Verify`, `Login`, `authorize` | user store, every call | expiry, truncation of times, restarts | only the right roles are served |
| Client's interceptor (`client/auth_interceptor_client.go`, `auth_client.go`) | `accessToken`, written without a lock | `refreshToken` in a goroutine, `Unary`, `Stream` | `Login`, every call | a timer, a login and calls race with the expiry | no call carries an expired token |
| User store (`service/user_store.go`, `user.go`) | `users`, an RWMutex | `Save`, `Find`, `SeedUsers` | `Login` | it is filled at every start, and constant once the server listens | a login is judged by the seeded users |
| Server program (`cmd/server/main.go`, the stubs in `ecommerce`) | the stage of `main`, the registered services | seeding, certificates, registration, `Serve`; dispatch of calls | everything in the server | paths of methods spelt out in five places; unary and streaming stubs call the interceptor at different moments | the interceptors see every call, under its right name |
| Client program (`cmd/client/main.go`) | the laptops it has made | login, five tests, a prompt | the laptop client | nothing is retried; ids outlive the server that knows them | it does not panic, and no call waits for ever |
| Laptop client (`client/laptop_client.go`) | per call | one method per call | the server | deadlines, two goroutines and a channel in `RateLaptopClient` | what a call returns is true; a finished search is complete |
| Order service | `orderMap`, `combinedShipmentMap`, no lock | `AddOrder` (generated stub), `GetOrder`, `SearchOrders`, `UpdateOrders`, `ProcessOrders` | its client | races on a Go map, nil dereferences that end the process, broken streams | searches are fair to updates; acknowledged updates are kept |
| Order client | one context for all calls | a fixed sequence of calls | the order service | a stream that ends with an error | it comes to an end |
| Product service and client | an unlocked map made lazily | `AddProduct`, `GetProduct` | its client | the race on the making of the map | no product lost |
| Filter (`isQualified`, `toBit`) | none | pure | `Search` | `uint64` overflow, units | memory sizes are compared as numbers |
| Sample data (`sample-data`) | none | random laptops | the client program | | its laptops fit in the filter's arithmetic |
| `serializer`, `proto`, `*.pb.go`, `cert` | none | conversions, generated code, a script | | | |

`PROJECT.json` lists every hazard of this code at its line, with the properties
that would catch it going wrong.

## 2. The modules

`A` -> `B` means that `A` extends or instantiates `B`.

    MCLaptopStore, LaptopStoreProofs         -> LaptopStore -> RWMutex
                                                LaptopStore -> Catalog      (implements it)
    MCRatings, RatingsProofs                 -> Ratings -> Ledger           (implements it)
    MCImageUpload, ImageUploadProofs         -> ImageUpload -> Album        (implements it)
    MCTokenRefresh, TokenRefreshProofs       -> TokenRefresh -> Access      (implements it)
    MCServerProgram                          -> ServerProgram -> TokenRefresh (implements its Spec)
    ServerProgramProofs                      -> ServerProgram, TokenRefreshProofs
    MCClientProgram, ClientProgramProofs     -> ClientProgram -> RateClient, LaptopFilter, SampleData
    MCOrderManagement, OrderManagementProofs -> OrderManagement -> OrderBook (implements it)
    MCProductInfo, ProductInfoProofs         -> ProductInfo

### RWMutex, LaptopStore and Catalog

`RWMutex` is Go's `sync.RWMutex` as its users see it: a writer that has called
`Lock` announces itself, which keeps later readers out, and holds the lock once
the readers before it have gone; its `Unlock` lets all blocked readers in.

`LaptopStore` is `InMemoryLaptopStore` with the three handlers that do nothing
but call it. A member of `Proc` is a goroutine of the server that serves one
call after another: `pc[p]` is where its handler is, or the status of the last
call it answered.

| Model | Code |
|---|---|
| `CreateLaptop`, `CheckContext` | `CreateLaptop` up to `Store.Save`: the id is parsed, generated, or refused; the context is looked at once |
| `AskLock`, `Save` | `Save`: `mutex.Lock()`, then everything under the lock, and the handler's answer |
| `GetLaptopByID`, `Find` | the handler and `Find`, a call under the read lock |
| `SearchLaptop`, `EnterScan`, `ScanNext` (`Visit`), `ScanDone`, `SendOk`, `SendFail`, `LeaveScan` | the handler and `Search`: a round of the range loop is a step and so is every `stream.Send`, all under the read lock |
| `Stall`, `Resume`, `Cancel`, `Expire` | the client: it stops reading (flow control blocks the server's `Send`), reads again, cancels, or its 5 seconds are over |

Save overwrites a laptop that is in the map already, although it logs an error:
this is what the code does, so it is what the model does. `filter` is the set of
laptop bodies that `isQualified` accepts. A request always has a laptop, as those of
the client do: without one the handler would dereference nil
(`service/laptop_server.go:45`) and end the process.

`Catalog` is the abstract specification: what p's caller asks for is in `status`,
`id`, `body` and `filter`; a laptop is saved or looked up in one step, which also
gives the answer; a search owes its client the matches of the moment it opened and pays
them one by one, whatever is saved meanwhile, and may end with debts only if its
caller's context has ended. A call that
creates a laptop may give up for its context before it has saved, never after. It
knows no lock. `CatalogSpec` says that `LaptopStore` implements it, with `Status`,
`Owed` and `WithContext` as the refinement mapping.

### Ratings and Ledger

`Ratings` is `RateLaptop` with `InMemoryRatingStore.Add`. Under the mutex, the two
assignments `Count++` and `Sum += score` are steps of their own, in either
order; after the `Unlock`, the three unguarded reads of `rating.Count`,
`rating.Sum` and again `rating.Count` are steps of their own in any order, since
Go promises nothing about the order in which another goroutine sees them. The
data race is on machine words, so that a read yields an old or a new value.
`CountLimit` stands for 2^32, the width of `Count`; `MaxRatings` bounds the
ratings of a behaviour, `received` counts them.

`Ledger` is the abstract rating service: a stream hands in a rating (`HandIn`), which
goes whole into the count and the sum of its laptop (`Enter`) before it is answered
(`Answer`), or is refused because the laptop is not in the store (`Refuse`). Its
refinement mapping shows the rating being added as complete from the first of its two
assignments on; `Slip` is what each stream has handed in, `Entered` who has his rating
in the ledger and no answer yet.

### ImageUpload and Album

`UploadImageClient`, the stream between it and the server, `UploadImage` and
`DiskImageStore.Save`. An upload is a client, a stream and (once it has been
received) a handler. `transit` holds the messages on their way, at most `Window`
of them, with the end of the stream or the error that cut it off; `offered` is
what the client has sent, `size` what the handler has gathered, `written` what
is in the file. Files and their sizes survive a `Crash`, both maps do not. Every
file operation may fail, a read of the client's file as well (it then sends an empty
chunk and goes on: `Read` has the size 0), and a failed `WriteTo` leaves part of the data behind.
Bytes are counted in units; the limit of 1 MB is `maxImageSize`. A client that cannot
send is `broken`, one that has sent its whole file is in one of the states of
`Finished`.

`Album` is the abstract specification: an image is kept or not, at one moment
(`Keep`), if its client has sent all of it, for a laptop in the store and within the
limit; the album never loses an image, its index (`Register`) only names what it has
and is lost in a crash. The album of the implementation is `Whole`, the files with all
that their client has sent. A crash may come when several files are being written,
and leaves some of them whole.

### TokenRefresh and Access

The client's interceptor, `Login`, the tokens and the server's interceptor, in
discrete time. `refresher` is the state of `refreshToken`; `due` is when its
sleep or its login is over; a call (`pc`) reads its token without a lock, is
looked at by the server, works and answers. A token is its expiry time, which
`Generate` cuts to whole seconds as the JWT library does when it writes the
claim (`Truncate`); `Verify` refuses a token at the instant it expires. A login
that fails for whatever reason ends the client process (`LoginFails`), because
`AuthClient.Login` calls `log.Fatalf`. The server may stop and start again
(`Stop`, `Start`); a login that it has granted may still reach the client after `Stop`.

`Tick` lets time pass. It cannot pass a timer by more than `Lateness`: this is
the assumption that a goroutine whose timer has gone off is run within that time.

Here the users are a table and a method is looked up by its name; the server is up
or not, also at the beginning. `Admit`, the interceptor's decision, is a definition
of its own, so that `ServerProgram` can make it with the paths that the code has.

`Access` is the abstract specification, what all this is for: a user logs in once; each
of his calls is then answered, or refused because of his role and for no other reason,
or lost to its deadline or with the connection. It has no tokens and no time. The
mapping: a client with a token is `"in"` (`Session`), a call that carries one is `"asked"`
(`Status`). `AccessSpec` holds only because no call ever meets an expired token.

### ServerProgram

The laptop server from its flags to `Serve`, and how a call finds its handler.
`stage` is where `main` is (`Boot`, `CreateUser` for each of `SeedUsers`,
`BuildServer`, `LoadCredentials` with `-tls`, `Register`, `Listen`; `Fatal` is
`log.Fatal`, `Kill` the end of a server that serves). `users` is the user store,
`registered` the services that have been registered, and `stub[k]` how far the
server's stub of call `k` has come: the stub of a unary method reads the request
before it calls the interceptor, that of a stream afterwards or not at all. The
client's stubs, the server's stubs and the two tables of methods spell the paths
out independently (`Invoked`, `FullMethod`, `WithToken`, `Restricted`). A login
finds a user and compares his hash; whoever is nobody gives a wrong name or a wrong
password. A call of a service that is not registered stays where it is (`Arrived`); gRPC
would answer `Unimplemented`, but `ServerTypeOK` shows that no call meets one, as
`Serve` comes last in `main`. All else is taken from `TokenRefresh`, whose specification this one
implements: `TokenSpec`.

### LaptopFilter and SampleData

`LaptopFilter` is `isQualified` and `toBit`: sizes are shifted within a word that
wraps, and an unknown unit counts as nothing. `Wanted` is the same filter with sizes
that do not wrap. `Weight` and `Word` are constants, so that the arguments hold
for 2^64 and can be run with less. `SampleData` has the set of what every generator
of `sample-data` may return, with the conditions between fields; TLC never
enumerates `NewLaptop`, it only checks that the laptops of the instance belong to it.

### RateClient and ClientProgram

`RateClient` is one call of `RateLaptopClient`: the goroutine that sends (`Open`,
`Send`, `SendFails`, `RealError`, `CloseSend`, `WaitResponse`), the one that
receives (`Recv`, `RecvEOF`, `RecvError`), the unbuffered channel on which they
meet, and the stream with the server's handler at its other end. Messages keep
their order, so that a stream is four counters. `ended` is the context: the five
seconds, or the deferred `cancel`. `RealError` is the `RecvMsg(nil)` that runs beside
the goroutine's `Recv` and may take a response away from it.

`ClientProgram` is the whole client: `main`'s calls in their order (`Script`), the
three simple methods of `LaptopClient` step by step, the search with the loops of
server and client, the prompt (`RateAgain`, `RateEnough`), the ratings of
`RateClient`, and around them a server with other clients (`OtherCreates`) that may
be started again without its laptops (`Restart`; a call whose answer, or a search whose
end, is already on its way may still end well). `log.Fatal` is `Exit("dead")`. The
client's deadline travels with a search, and the server may see it first
(`DeadlineComes`): the search then ends well and is cut short.

### OrderManagement and OrderBook

The order server and its client. The Go runtime keeps a flag in every map that
is set during a write and looked at by every access (`writing`): an access that
finds it in the wrong state ends the process ("concurrent map writes"), but the
flag is not synchronised either, so an access may miss it. Both outcomes are in
the model, for every access of every handler. `Crash` is the end of the process,
also after the nil dereferences in `UpdateOrders` (a stream that ends with an
error) and in `ProcessOrders` (any order). `Restart` starts it again with the
sample orders. `closed` has the clients that have closed their stream of updates: the
handler may still see `io.EOF` when such a client is gone. The client is the sequence of calls in `main`, all of them under
one context of one second (`ended`), and leaves by `log.Fatalf` (`Die`).
`always` and `ever` are history variables: the orders that have matched a
search all the time it has taken, and at some moment of it.

`OrderBook` is the abstract specification of the updates: each client's stream goes
into one book, in its order (`Send`, `Enter`), and who is told that his updates are
processed has all of them in it (`Tell`); `Lose` loses the book for everybody, and no
stream goes on in the next. An update is entered when its write ends (`Entered`).

### ProductInfo

The product server, whose first `AddProduct` makes the map. A handler looks at the
pointer (`CheckMap`), makes a map (`MakeMap`) and loads the pointer again for the
write or uses the map it has seen (`BeginWrite`); maps are named after who made
them, so that a product can end up in one that the server has already dropped. The
runtime's flag is as in `OrderManagement`; writers it does not notice (`raced`) may mix
up their products (`Written`). A map grows when it has more than `Bucket` products (8 in
Go); a race that meets its growth may tear it (`torn`), after which the model says
nothing of what is in it. `added` and `met` are history variables: who has added a
product in this life of the server, and whom each has met in doing so. As written the
server cannot listen, since its address is `"localhost::50051"`: `PortHasColon` says
whether the port has its colon, and with `TRUE` `Listen` is never enabled.

## 3. What is checked

| Run | Instance | States | What it shows |
|---|---|---|---|
| `store_safety` | 3 goroutines, 2 ids, 2 bodies, 2 filters | 763,957 | `TypeOK`; `MutexInv`: lock discipline without lost wakeups; `SearchExact`: at every moment what a search has sent is the matches less what it has still to visit; `CatalogSpec`: each call takes effect at one moment, and is answered accordingly |
| `store_liveness` | 3 goroutines, 1 id, 1 body | 84,545 | `Answered`: every call is answered |
| `ratings` | 2 streams, scores 1 and 2, count wraps at 3 | 109,536 | `TypeOK`; `LedgerSpec`: a rating received is refused or counted once, before its answer; `ReplyWithinWindow`: values in a response were true between the rater's own `Add` and now; `RatingAnswered` |
| `upload` | 2 uploads, 1 laptop, chunks of 1 and empty ones, limit 2, at most 3 sent | 834,129 | `TypeOK`; `ImagesWhole`; `AnswersTrue`: OK is durable, and only what is too large is refused as such; `AlbumSpec`: an image is kept at one moment, whole and for good; `UploadAnswered` |
| `token_refresh` | 2 calls, 3 methods, 20 ticks of half a second, durations exactly on the edge of `DurationsSuffice` | 1,121,179 | `TypeOK`; `TokenOutlivesCall`: no call of a client that has logged in is refused for its token; `AccessSpec`: one login lasts |
| `server_program` | 1 call of any of 5 methods, a token that is too short, 20 ticks | 397,325 | `ServerTypeOK`; `RolesRespected`, also while tokens expire; `TokenSpec`: the program implements `TokenRefresh` |
| `client_program` | 2 copies of one laptop, 2 rated laptops, 2 samples, 2 laptops of others, 1 restart | 393,256 | `TypeOK`; `OutcomeTrue`: what `RateLaptopClient` returns is true, and when its goroutine is left behind; `SearchTells`: a search in time is complete and exact; `NeverPanics`; `CallsEnd` |
| `orders` | 2 clients, 2 orders, 2 bodies, 2 updates each, 1 restart | 569,081 | `TypeOK`; `SearchFair`; `UpdatesKept`; `OrderBookSpec`: updates are entered whole, in order and once; `ClientsMoveOn` |
| `products` | 3 clients, 1 start, a map that grows at 3 products | 630,478 | `TypeOK`; `Kept`: until a race meets the growth of the map, a product added alone stays and no id leads to a product of another time; `ClientsEnd` |
| `store_overwrite` | | violated | `NoOverwrite`: the comment at `service/laptop_store.go:93-94` expects an error; the laptop is replaced |
| `ratings_torn` | both streams give the score 2 | violated | `AverageInRange`: sum and count of a response may be from different moments |
| `orders_search_loop` | | violated | `SearchLoopEnds`: the client's loop leaves on `io.EOF` only |

Further divergences between the code and what is said of it were met, and no run
is spent on them, since one step of a model shows each:

* `UploadImage` answers with the laptop's id, where
  `service/laptop_server.go:270-271` says the image's (`ImageUpload`).
* A failed login ends the process instead of being tried again, as
  `client/auth_interceptor_client.go:89-90` has it (`TokenRefresh!LoginFails`).
* The `NotFound` branches at `service/laptop_server.go:196-199` and `:333-336` wait
  for a nil laptop that `Find` never returns (`ImageUpload!Find` and `Ratings!Find`
  answer as the code does).
* `ProcessOrders` dereferences a nil shipment on the first order
  (`OrderManagement!ProcessOrder` is a crash), so that the combined shipments of
  `order-management-server.go:172-173` are never sent.
* `RecvMsg(nil)` need not return "the real error" of `laptop_client.go:313-314`:
  it may meet a response first (`RateClient!RealError`).
* The product server never listens (`ProductInfo!Listen`).

### 3.1 Bounds, and why they are enough

* `LaptopStore` has no counters: its bounds are the sizes of `Proc`, `Id`,
  `Body` and `Filter`. Three goroutines are the smallest number in which a
  reader holds the lock, a writer waits for it and another reader waits for the
  writer; two ids let a save come between two rounds of a scan; two bodies let
  an overwrite change what matches. Goroutines and ids are symmetric. The
  liveness run has no symmetry and a single id.
* `Ratings`: two streams suffice for every race on one `Rating` object; the
  third rating makes the count wrap to 0, which is when `ReplyWithinWindow`
  promises nothing more (the handler would divide by zero).
* `ImageUpload`: an image may be below, at and above the limit, in chunks of one unit and
  empty ones. `MaxBytes`, the most a client sends, is one more than the limit, so that
  a comparison that refuses a unit too early or too late shows. `Window` bounds the messages in flight.
* `TokenRefresh`: time ends at `MaxTime`, after several refreshes and expiries.
  The token lives exactly as long as `DurationsSuffice` asks for (a tick less
  is refuted by TLC). The proof has no bound on time.
* `ServerProgram`: one call of any method, since calls meet only in the token they
  share. Its token lives for 6 ticks, less than `DurationsSuffice` asks for, so that
  calls and refreshes do meet an expired one.
* `ClientProgram`: two copies are enough for the second to meet the first; two
  rated laptops let a stream break after the first; `Window` 1 makes the sender wait
  for the server. One sample is exactly what the filter wants, the other too
  small. Words have 15 bits and a unit is twice the one before it, so that what
  `NewLaptop` makes just fits, as in the code, and of the laptops of others one wraps
  to nothing and one has another unit. One restart comes at every moment.
* `ProductInfo`: with three clients two race for the pointer or the map while a
  third has been before them or comes after them. `Bucket` is 2, so that the third
  product makes the map grow. The server starts once, as a second life begins like
  the first.
* `OrderManagement`: `MaxUpdates` is 2 (the client sends 3), so that a client's
  second update may undo its first; `MaxRestarts` bounds restarts. Only one
  order is ever updated, the other one is there to be missed by a search.

`CHECK_DEADLOCK FALSE` stands in the runs of `TokenRefresh` and `ServerProgram` (time
ends, and a client whose login failed is dead), of `OrderManagement` and `ProductInfo`
(all clients have come to their end and the server has used up its starts) and of
`ClientProgram` (the program is over). The other systems never stop, and TLC checks
that they do not.

### 3.2 Fairness, and why the code justifies it

* The Go scheduler runs every goroutine that can run: weak fairness of the
  handlers' steps. In `ClientProgram` and `ProductInfo` only the client's goroutines
  are assumed to run, and the server may stop whenever it likes.
* `sync.Mutex` hands itself over to a waiter that has waited for a millisecond
  (starvation mode): strong fairness of taking a lock (`AskLock` in
  `LaptopStore`, `Lock` in `Ratings`).
* Every call of the repository's clients has a deadline (5 seconds in
  `client/laptop_client.go`, 1 second in the order and product clients): weak
  fairness of `Expire`, `RateExpires` and `EndContext`, and of `ClientProgram!CallFails`,
  which is how a unary call or a search ends when its deadline comes. In `Ratings` it is
  what ends a `Send` to a client that does not read (`SendFail`): `SendOk` is not among
  the fair steps (`Unaided`). `UploadAnswered` needs no deadline. No client is assumed to
  read, to go on sending or to close its stream.
* Crashes, restarts, failures of the disk, cancellations and lost connections
  are never assumed to happen or not to happen.

### 3.3 Mutants

Every property of a passing run has a mutant in `PROJECT.json`: a definition
next to the one it replaces, preceded by a comment that says what bug it is (a
lock that is not taken, an error that is dropped, an update that overtakes
`io.EOF`, a token that is not stored, ...). TLC finds the property violated under
the same configuration.

## 4. What is proved

The proofs hold for every value of the constants that satisfies the named
`ASSUME`s of the modules: any number of goroutines, laptops, ratings and calls,
and unbounded time.

**LaptopStoreProofs.** `TypeCorrect`, `LockDiscipline` (`MutexInv`),
`SearchesExact` and `ImplementsCatalog`. `MutexInv` is inductive together with `TypeOK`,
and `TypeOK` together with `Locals`, which says what the locals of a handler are
at each `pc`. `SearchExact` is not: a `Save` that wrote while a search runs would break
it, so it is proved together with `MutexInv`, from which a writer that holds the
lock excludes every search (`HoldsWrite` needs no readers, and a scanning
goroutine is a reader). The refinement is a step simulation with a lemma for each
kind of step (`CallAbstract`, `CreateAbstract`, `FindAbstract`, `EnterAbstract`,
`VisitAbstract`, `SendAbstract`, `LeaveAbstract`, `EnvironmentAbstract`): the handler's
last step is the catalog's answer (`AnswerFinish`), which disturbs no search because a
writer excludes them, and `SearchExact` gives that the laptop being sent is among
those owed.

**RatingsProofs.** `TypeCorrect`, `ImplementsLedger` and `ResponsesWithinWindow`.
The invariant ties the mutex to the program counters (the holder, and nobody
else, is between `Lock` and `Unlock`), so that only the holder is half-way through
an update and the ledger's mapping is well defined. `Slips` adds what a stream has in
hand at each step, and that only laptops of the store get past `Find`; with it,
`RecvLedger`, `FindLedger`, `AddLedger` and `SendLedger` show the one step of each
rating that is `HandIn`, `Refuse`, `Enter` or `Answer`, and `LedgerWaits` that no other
step is seen. For the window `Bounded` keeps the
count of a laptop plus all ratings on their way (a finite set, whose
cardinality is counted) within `received`, so that counts only grow until
`CountLimit` ratings have been received, and what a stream has read stays between
its own snapshot and the present.

**TokenRefreshProofs.** `TypeCorrect`, `TokensOutliveCalls`,
`RolesAlwaysRespected` and `ImplementsAccess`. `TokensOutliveCalls` assumes `DurationsSuffice`. The
invariant `Inv` is the arithmetic behind it: no timer is overdue by more than
`Lateness` (`Punctual`); how much of its life a granted token can have lost to
truncation and to a slow answer (`LoginAge`); how old the current token may be
in each state of the refresher (`TokenAge`, `Refreshing`); and how long the
token of each call must still live (`CallAge`). With the constants of the two
`main` packages, `DurationsSuffice` asks for 46 seconds plus four times the
lateness, and a token lives for 900. `ImplementsAccess` has the same hypothesis: by
`TokensYoung` the interceptor's answer is `OK` or `PermissionDenied`, and never
`Unauthenticated` (`ServeAccess`); who a token speaks for is in `RolesInvariant`.

**ImageUploadProofs.** `TypeCorrect`, `ImagesAlwaysWhole`, `AnswersAlwaysTrue` and
`ImplementsAlbum`. What
an image is, is a sum over the chunks of its stream, and a proof about sums would
be an induction. The invariant goes around it: `Grows`, a part of `Served`, says that
*there is* a function that starts at what the handler has gathered, grows by the size of
each message in transit, and ends at what the client has offered. Receiving a
message drops its first value, sending one appends a value; no sum is ever
computed. When `io.EOF` arrives (`EOFLast`: it is the last message) nothing is left
in transit, and the handler has gathered the file. `Saved` carries this over to the
disk, the map and the client. The bounds `MaxBytes` and `Window` are
not used. For the refinement `Filing` adds that there is a file only of a client
that has sent everything, and that nothing is in it before the one time it is written
to; what is being saved is acceptable (`SavingAcceptable`), so that a step of the disk, or
a crash in the middle of it, keeps the image or does not (`SaveAlbum`, `CrashAlbum`),
and nothing else changes what is kept (`WholeKept`).

**ServerProgramProofs.** `ImplementsTokens`, `ProgramRespectsRoles`,
`ProgramGrantsAccess` and `ServerTypes`.
`Seeded` is the invariant of `main` at each of its stages; `Paths` shows that the
five spellings of the methods agree, `LoginImplements` that a login on the store is
`TokenRefresh!Login`. With them every step is one of `TokenRefresh` or stutters
(`StepImplements`), so that its theorems are theorems about the program:
`ProgramRespectsRoles` is one of them, and
`ProgramGrantsAccess` goes on to `Access`. `ServerTypes` adds where the stubs can be.

**ClientProgramProofs.** `TypeCorrect`, `OutcomesTrue`, `SearchesTell`, `NoPanic` and
`FilterExact`.
`RateInv` says where the four counters of a rating stream stand when each of the
three goroutines is where it is; every step of a call keeps it, and so does
the loss of the stream. `ProgramInv` is about the rest: its core, `Told`, says of
every moment of a search what `SearchTells` says of its end, and needs to know
which calls are about which laptops (`Asked`), what the server has kept (`Kept`),
and that only others' laptops have other ids. The filter enters by two lemmas:
what qualifies is wanted if the memory the filter asks for fits
(`QualifiedIsWanted`), and what is wanted qualifies if the laptop's memory fits as
well (`WantedQualifies`); `FilterExact` is the two together. `FitAssumption` says that of the laptops of `NewLaptop` (64
gigabytes are 2^39 of 2^64 bits); those of others may wrap. `NoPanic` rests on `Save`
overwriting what it has.

**OrderManagementProofs.** `TypeCorrect`, `SearchesFair`, `UpdatesAlwaysKept` and
`ImplementsOrderBook`. The
invariant has four parts for each client: where its handler can be when it is at
a given call (`Place`), how many updates have been sent and received (`Count`), that a
search still has to visit what has matched all along and has not been found (`Search`),
and that what has been received and written is in the map, or has been overwritten by
a later update of its own or of another (`Held`). A step of one client or handler
leaves the parts of the others alone (`LocalStep`) unless it writes to the map
(`StoreUpdateKeeps`) or ends the server (`CrashKeeps`). The refinement needs one more,
`Streams`: a handler takes updates only for a stream of this life of the server, and
for as long as its client may send more. A write that a race ends is a loss for all
(`CrashBook`); one that goes on is one client's `Enter` (`StoreBook`), whoever else is
writing.

**ProductInfoProofs.** `TypeCorrect` and `RacesAreLocal`, for any number of clients and
any size of a bucket. Handlers that add at the same
time have met, and only those race (`Meetings`); who has met nobody has the server's map
before it (`Alone`); and once such a handler is through, all others
see one map, and none makes another (`Settled`), so that what was added alone stays until
the map is torn (`Held`). In every map, the server's or one it has dropped, an id that
leads to another product leads to one it has met (`Strangers`).

The named `ASSUME`s are these: sizes, limits and bounds are natural numbers, and the
special values (`NoMap`, `NoLaptop`, ...) are none of the ordinary ones; the rated
laptops of the client have the ids of their turn (`IdAssumption`), those of other
clients have other ids (`ForeignAssumption`), the samples are laptops of `NewLaptop`
(`SampleAssumption`) and fit (`FitAssumption`). `DurationsSuffice`
is not assumed by a module but is a hypothesis of the theorem that needs it.

Only model-checked are the liveness properties (`Answered`, `RatingAnswered`,
`UploadAnswered`, `ClientsMoveOn`, `CallsEnd`, `ClientsEnd`), as TLAPS has no proof rules
for fairness. Every other property of a passing run is a theorem.

## 5. What is not modelled

* The encoding of messages (`ecommerce/*.pb.go`), generated over a library, and the
  dispatch by the stubs of the order and product services, which is that of
  `ServerProgram` without interceptors.
* `deepCopy` is taken as a copy. It shares nested messages, which no caller in
  the repository changes afterwards.
* Rating again after a lost response counts twice. The messages carry no identity,
  so that there is no property to state; `LedgerSpec` counts what the server received.
* `serializer` (files and JSON, used by its own tests), the scripts of `cert`, the
  handshake of TLS (a certificate can be read or not), server reflection, flags,
  wording, logging and the console.
* Requests that no client of the repository sends: one for a laptop that is not there, and
  updates of orders outside the sample (`UpdateAssumption`), which would make the map of
  orders grow.
* Scores are naturals. The handler takes any float64, negative ones included, and
  `ReplyWithinWindow` relies on sums that do not fall; the client's are from 1 to 10.
* A rating's wait for the laptop store behind a slow search: `Find` is one step in `Ratings`
  and `ImageUpload` (see the plan).
* `AddOrder`, which is the generated stub that answers `Unimplemented`.
* The locks of the user store, which nobody contends: it is written before the
  server listens, and read afterwards.

## 6. Plan

What would add most to the project as it stands:

1. A composition of the laptop store with ratings and images: one server whose
   `RateLaptop` and `UploadImage` wait for the lock that a slow search holds. The modules
   share the id set and could be joined on `LaptopStore!data`; today each has its own
   set of stored laptops, found in one step.
2. A theorem that joins `RateClient` with `Ledger`: `counted` as the number of the
   stream's ratings that have been entered, its `HandleRequest` as `HandIn` followed by
   `Enter` or `Refuse`.
3. `Catalog` with restarts, implemented by the server's side of `ClientProgram`.
