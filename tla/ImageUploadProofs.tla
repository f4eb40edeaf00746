--------------------------- MODULE ImageUploadProofs ---------------------------
(***************************************************************************)
(* An image that is registered, or reported to its client, is the whole    *)
(* image, for any number of uploads, any sizes and any number of crashes   *)
(* of the server.  The bound on what a client offers is not used.          *)
(***************************************************************************)
EXTENDS ImageUpload, SequenceTheorems, TLAPS

\* What a message adds to an image.
LEMMA MessageSize == ASSUME NEW m \in Message PROVE m.size \in Nat
BY SizeAssumption DEF Message, Read, Info, EOF, Data

\* The three kinds of messages, told by their kind.
LEMMA MessageKinds ==
  /\ Info \in Message /\ EOF \in Message /\ \A n \in Read : Data(n) \in Message
  /\ Info.size = 0 /\ EOF.size = 0 /\ \A n \in Read : Data(n).size = n
  /\ \A m \in Message : m.kind = "eof" <=> m = EOF
  /\ Info # EOF /\ \A n \in Read : Data(n) # EOF
<1>1. Info.kind = "info" /\ EOF.kind = "eof" /\ \A n \in Read : Data(n).kind = "chunk"
  BY DEF Info, EOF, Data
<1>2. \A m \in Message : m.kind = "eof" <=> m = EOF BY <1>1 DEF Message
<1> QED BY <1>1, <1>2 DEF Message, Info, EOF, Data

--------------------------------------------------------------------------------
(* Types *)

\* An answer leaves no other trace.
LEMMA ReturnTypes ==
  ASSUME TypeOK, NEW u \in Upload, NEW a, Return(u, a),
         a \in [code : Code \cup {"none"}, id : Laptop \cup {NoLaptop}, size : Nat]
  PROVE  /\ pc' \in [Upload -> {"none", "info", "find", "loop", "recv", "create", "write",
                                "register", "respond"}]
         /\ size' \in [Upload -> 0 .. maxImageSize]
         /\ answer' \in [Upload -> [code : Code \cup {"none"}, id : Laptop \cup {NoLaptop},
                                    size : Nat]]
<1>1. 0 \in 0 .. maxImageSize BY SizeAssumption
<1> QED BY <1>1 DEF Return, Goto, TypeOK

LEMMA StatusTypes ==
  ASSUME NEW code \in Code
  PROVE  Status(code) \in [code : Code \cup {"none"}, id : Laptop \cup {NoLaptop}, size : Nat]
BY DEF Status, NoAnswer

LEMMA QueueTypes ==
  ASSUME TypeOK, NEW u \in Upload, NEW m \in Message, Queue(u, m)
  PROVE  transit' \in [Upload -> Seq(Message)]
<1>1. Append(transit[u], m) \in Seq(Message) BY AppendProperties DEF TypeOK
<1> QED BY <1>1 DEF Queue, TypeOK

LEMMA DequeueTypes ==
  ASSUME TypeOK, NEW u \in Upload, NEW kind, Received(u, kind)
  PROVE  /\ transit' \in [Upload -> Seq(Message)]
         /\ Head(transit[u]) \in Message
         /\ Head(transit[u]).size \in Nat
<1>1. transit[u] \in Seq(Message) /\ transit[u] # <<>> BY DEF Received, TypeOK
<1>2. Head(transit[u]) \in Message /\ Tail(transit[u]) \in Seq(Message)
  BY <1>1, HeadTailProperties
<1> QED BY <1>2, MessageSize DEF Received, Dequeue, TypeOK

LEMMA ClientTypes == ASSUME TypeOK, NEW u \in Upload, Client(u) \/ Response(u) PROVE TypeOK'
<1> USE DEF TypeOK, disk, handler, Goto, Finished
<1>1. ASSUME NEW l \in Laptop, UploadImageClient(u, l) PROVE TypeOK'
  BY <1>1, QueueTypes, MessageKinds DEF UploadImageClient
<1>2. ASSUME NEW n \in Read, SendChunk(u, n) PROVE TypeOK'
  <2>1. offered[u] + n \in Nat BY SizeAssumption DEF Read
  <2> QED BY <1>2, <2>1, QueueTypes, MessageKinds DEF SendChunk
<1>3. CASE SendFail(u) BY <1>3 DEF SendFail
<1>4. CASE CloseSend(u) BY <1>4, QueueTypes, MessageKinds DEF CloseSend
<1>5. CASE Response(u) BY <1>5 DEF Response
<1>6. CASE EndContext(u) BY <1>6 DEF EndContext, caller
<1> QED BY <1>1, <1>2, <1>3, <1>4, <1>5, <1>6 DEF Client

LEMMA HandlerTypes == ASSUME TypeOK, NEW u \in Upload, Handle(u) PROVE TypeOK'
<1> USE DEF TypeOK, disk, caller, Code
<1>1. CASE RecvInfo(u) BY <1>1, DequeueTypes DEF RecvInfo, Goto
<1>2. CASE RecvChunk(u)
  <2> DEFINE total == size[u] + Head(transit[u]).size
  <2>1. CASE total <= maxImageSize
    <3>1. total \in 0 .. maxImageSize
      BY <1>2, <2>1, DequeueTypes, SizeAssumption DEF RecvChunk
    <3>2. size' = [size EXCEPT ![u] = total] /\ Goto(u, "loop") /\ UNCHANGED answer
      BY <1>2, <2>1, <3>1, SizeAssumption DEF RecvChunk
    <3>3. size' \in [Upload -> 0 .. maxImageSize] BY <3>1, <3>2
    <3>4. /\ transit' \in [Upload -> Seq(Message)]
          /\ UNCHANGED <<stored, disk, images, caller, ended>>
      BY <1>2, DequeueTypes DEF RecvChunk
    <3> HIDE DEF total
    <3> QED BY <3>2, <3>3, <3>4 DEF Goto
  <2>2. CASE ~(total <= maxImageSize)
    BY <1>2, <2>2, DequeueTypes, ReturnTypes, StatusTypes DEF RecvChunk
  <2> QED BY <2>1, <2>2
<1>3. CASE RecvEOF(u) BY <1>3, DequeueTypes DEF RecvEOF, Goto
<1>4. CASE RecvError(u) BY <1>4, ReturnTypes, StatusTypes DEF RecvError
<1>5. CASE Find(u)
  <2>1. CASE Return(u, Status("Internal")) BY <1>5, <2>1, ReturnTypes, StatusTypes DEF Find
  <2> QED BY <1>5, <2>1 DEF Find, Goto
<1>6. CASE CheckContext(u)
  <2>1. CASE Return(u, Status("Canceled")) BY <1>6, <2>1, ReturnTypes, StatusTypes DEF CheckContext
  <2> QED BY <1>6, <2>1 DEF CheckContext, Goto
<1>7. CASE CreateFile(u)
  <2>1. CASE Return(u, Status("Internal")) /\ UNCHANGED files
    BY <1>7, <2>1, ReturnTypes, StatusTypes DEF CreateFile
  <2> QED BY <1>7, <2>1 DEF CreateFile, Goto
<1>8. CASE WriteFile(u)
  <2>1. written' \in [Upload -> Nat]
    <3>1. size[u] \in Nat /\ \A n \in 0 .. size[u] : n \in Nat OBVIOUS
    <3>2. \E n \in Nat : written' = [written EXCEPT ![u] = n] BY <1>8, <3>1 DEF WriteFile
    <3> QED BY <3>2
  <2>2. UNCHANGED <<stored, files, images, caller, transit, ended>> BY <1>8 DEF WriteFile
  <2>3. CASE Return(u, Status("Internal")) BY <2>1, <2>2, <2>3, ReturnTypes, StatusTypes
  <2>4. CASE Goto(u, "register") /\ UNCHANGED <<size, answer>> BY <2>1, <2>2, <2>4 DEF Goto
  <2> QED BY <1>8, <2>3, <2>4 DEF WriteFile
<1>9. CASE Register(u) BY <1>9 DEF Register, Goto
<1>10. CASE SendAndClose(u)
  <2>1. CASE Return(u, Status("Unknown")) BY <1>10, <2>1, ReturnTypes, StatusTypes DEF SendAndClose
  <2>2. CASE Return(u, [code |-> "OK", id |-> laptop[u], size |-> size[u]])
    BY <1>10, <2>2, ReturnTypes DEF SendAndClose
  <2> QED BY <1>10, <2>1, <2>2 DEF SendAndClose
<1> QED BY <1>1, <1>2, <1>3, <1>4, <1>5, <1>6, <1>7, <1>8, <1>9, <1>10
        DEF Handle, Receive, SaveImage

\* Type correctness of the client, the handler and the two parts of the store.
THEOREM TypeCorrect == Spec => []TypeOK
<1>1. Init => TypeOK
  <2>1. 0 \in 0 .. maxImageSize BY SizeAssumption
  <2>2. <<>> \in Seq(Message) OBVIOUS
  <2>3. NoAnswer \in [code : Code \cup {"none"}, id : Laptop \cup {NoLaptop}, size : Nat]
    BY DEF NoAnswer
  <2> QED BY <2>1, <2>2, <2>3 DEF Init, TypeOK
<1>2. TypeOK /\ [Next]_vars => TypeOK'
  <2> SUFFICES ASSUME TypeOK, [Next]_vars PROVE TypeOK'
    OBVIOUS
  <2>1. ASSUME NEW l \in Laptop, StoreLaptop(l) PROVE TypeOK'
    BY <2>1 DEF StoreLaptop, TypeOK, disk, caller, handler
  <2>2. CASE Crash
    <3>1. written' \in [Upload -> Nat] BY <2>2 DEF Crash, TypeOK
    <3>2. 0 \in 0 .. maxImageSize BY SizeAssumption
    <3> QED BY <2>2, <3>1, <3>2 DEF Crash, TypeOK, caller
  <2>3. CASE UNCHANGED vars
    BY <2>3 DEF vars, TypeOK, disk, caller, handler
  <2> QED BY <2>1, <2>2, <2>3, ClientTypes, HandlerTypes DEF Next
<1> QED BY <1>1, <1>2, PTL DEF Spec

--------------------------------------------------------------------------------
(* The bytes of an upload *)

\* What the handler has of an image grows, message by message of those in transit,
\* to what the client has sent.
Adds(f, t) == \A i \in 1 .. Len(t) : f[i] = f[i - 1] + t[i].size
Grows(t, from, to) ==
  \E f \in [0 .. Len(t) -> 0 .. to] : f[0] = from /\ f[Len(t)] = to /\ Adds(f, t)

LEMMA GrowsFromNothing == ASSUME NEW n \in Nat PROVE Grows(<<>>, n, n)
<1> DEFINE f == [i \in 0 .. 0 |-> n]
<1>1. f \in [0 .. Len(<<>>) -> 0 .. n] /\ f[0] = n /\ f[Len(<<>>)] = n /\ Adds(f, <<>>)
  BY DEF Adds
<1> QED BY <1>1 DEF Grows

LEMMA GrowsAtTheEnd ==
  ASSUME NEW t \in Seq(Message), NEW m \in Message, NEW from \in Nat, NEW to \in Nat,
         Grows(t, from, to)
  PROVE  Grows(Append(t, m), from, to + m.size)
<1> DEFINE s == Append(t, m)
           l == Len(t)
<1>1. PICK f \in [0 .. l -> 0 .. to] : f[0] = from /\ f[l] = to /\ Adds(f, t) BY DEF Grows
<1>2. /\ l \in Nat /\ Len(s) = l + 1 /\ s[l + 1] = m
      /\ \A i \in 1 .. l : s[i] = t[i]
  BY AppendProperties
<1>3. m.size \in Nat BY MessageSize
<1> DEFINE g == [i \in 0 .. l + 1 |-> IF i = l + 1 THEN to + m.size ELSE f[i]]
<1>4. g \in [0 .. Len(s) -> 0 .. to + m.size] BY <1>1, <1>2, <1>3
<1>5. g[0] = from /\ g[Len(s)] = to + m.size BY <1>1, <1>2
<1>6. Adds(g, s)
  <2> SUFFICES ASSUME NEW i \in 1 .. l + 1 PROVE g[i] = g[i - 1] + s[i].size
    BY <1>2 DEF Adds
  <2>1. CASE i = l + 1 BY <1>1, <1>2, <2>1
  <2>2. CASE i # l + 1
    <3>1. i \in 1 .. l /\ i - 1 \in 0 .. l /\ i \in 0 .. l + 1 /\ i - 1 \in 0 .. l + 1
      BY <1>2, <2>2
    <3>2. f[i] = f[i - 1] + t[i].size BY <1>1, <3>1 DEF Adds
    <3>3. g[i] = f[i] /\ g[i - 1] = f[i - 1] BY <1>2, <3>1
    <3> QED BY <1>2, <3>1, <3>2, <3>3
  <2> QED BY <2>1, <2>2
<1> HIDE DEF g
<1> QED BY <1>4, <1>5, <1>6 DEF Grows

LEMMA GrowsFromTheHead ==
  ASSUME NEW t \in Seq(Message), t # <<>>, NEW from \in Nat, NEW to \in Nat, Grows(t, from, to)
  PROVE  Grows(Tail(t), from + Head(t).size, to) /\ from + Head(t).size <= to
<1> DEFINE s == Tail(t)
           l == Len(t)
<1>1. PICK f \in [0 .. l -> 0 .. to] : f[0] = from /\ f[l] = to /\ Adds(f, t) BY DEF Grows
<1>2. /\ l \in Nat \ {0} /\ Len(s) = l - 1 /\ Head(t) = t[1]
      /\ \A i \in 1 .. l - 1 : s[i] = t[i + 1]
  BY HeadTailProperties, EmptySeq, LenProperties
<1> DEFINE g == [i \in 0 .. l - 1 |-> f[i + 1]]
<1>3. g \in [0 .. Len(s) -> 0 .. to]
  <2>1. ASSUME NEW i \in 0 .. l - 1 PROVE f[i + 1] \in 0 .. to BY <1>1, <1>2
  <2> QED BY <1>2, <2>1
<1>4. g[0] = from + Head(t).size
  <2>1. 1 \in 1 .. l /\ 0 \in 0 .. l - 1 BY <1>2
  <2> QED BY <1>1, <1>2, <2>1 DEF Adds
<1>5. g[Len(s)] = to BY <1>1, <1>2
<1>6. Adds(g, s)
  <2> SUFFICES ASSUME NEW i \in 1 .. l - 1 PROVE g[i] = g[i - 1] + s[i].size
    BY <1>2 DEF Adds
  <2>1. i + 1 \in 1 .. l /\ i \in 0 .. l - 1 /\ i - 1 \in 0 .. l - 1 BY <1>2
  <2>2. f[i + 1] = f[i] + t[i + 1].size BY <1>1, <2>1 DEF Adds
  <2> QED BY <1>2, <2>1, <2>2
<1>7. from + Head(t).size <= to
  <2>1. 0 \in 0 .. Len(s) BY <1>2
  <2>2. g[0] \in 0 .. to BY <1>3, <2>1
  <2> QED BY <1>4, <2>2
<1> HIDE DEF g
<1> QED BY <1>3, <1>4, <1>5, <1>6, <1>7 DEF Grows

\* Without messages there is nothing left to grow by.
LEMMA GrownUp == ASSUME NEW from, NEW to, Grows(<<>>, from, to) PROVE from = to
BY DEF Grows

--------------------------------------------------------------------------------
(* The invariant: an upload by itself *)

Receiving == {"info", "find", "loop", "recv"}
Saving == {"create", "write", "register", "respond"}

\* Nothing comes after the end of the file.
EOFLast(u) == \A i \in 1 .. Len(transit[u]) :
                transit[u][i] = EOF => i = Len(transit[u]) /\ client[u] \in Finished

\* The client's side.
Begun(u) == /\ client[u] = "idle" => /\ pc[u] = "none" /\ transit[u] = <<>> /\ offered[u] = 0
                                     /\ answer[u] = NoAnswer /\ u \notin images
            /\ client[u] = "ok" => answer[u].code = "OK"

\* The handler's side.
Served(u) == /\ pc[u] = "none" => size[u] = 0
             /\ pc[u] # "none" => answer[u] = NoAnswer
             /\ pc[u] \in Receiving => Grows(transit[u], size[u], offered[u])
             /\ pc[u] \in Saving => size[u] = offered[u] /\ client[u] \in Finished
             /\ pc[u] \in {"loop", "recv"} \cup Saving => laptop[u] \in stored

\* The store's side: what is in the folder, in the map, and known to the client.
OnDisk(u) == u \in files /\ written[u] = offered[u] /\ client[u] \in Finished
Saved(u) == /\ pc[u] = "write" => u \in files
            /\ pc[u] \in {"register", "respond"} => OnDisk(u)
            /\ u \in images => /\ OnDisk(u) /\ laptop[u] \in stored
                               /\ pc[u] \in {"none", "respond"} /\ written[u] <= maxImageSize
            /\ answer[u].code = "OK" => OnDisk(u) /\ answer[u].size = offered[u]
            /\ answer[u].code = "InvalidArgument" => offered[u] > maxImageSize

Sound(u) == EOFLast(u) /\ Begun(u) /\ Served(u) /\ Saved(u)

Inv == \A u \in Upload : Sound(u)

\* What happens to another upload, and a new laptop, is nothing to this one.
LEMMA OthersKeep ==
  ASSUME NEW v \in Upload, Sound(v),
         /\ client'[v] = client[v] /\ laptop'[v] = laptop[v] /\ offered'[v] = offered[v]
         /\ transit'[v] = transit[v] /\ pc'[v] = pc[v] /\ size'[v] = size[v]
         /\ answer'[v] = answer[v] /\ written'[v] = written[v],
         v \in files <=> v \in files', v \in images <=> v \in images', stored \subseteq stored'
  PROVE  Sound(v)'
<1>1. EOFLast(v)' /\ Begun(v)' BY DEF Sound, EOFLast, Begun
<1>2. Served(v)' /\ Saved(v)' BY DEF Sound, Served, Saved, OnDisk
<1> QED BY <1>1, <1>2 DEF Sound

\* A new message is the last one; the end of the file has been sent before none.
LEMMA QueueEOF ==
  ASSUME TypeOK, NEW u \in Upload, NEW m \in Message, Queue(u, m), EOFLast(u),
         client[u] = "sending", m = EOF => client'[u] \in Finished
  PROVE  EOFLast(u)'
<1>1. transit'[u] = Append(transit[u], m) BY DEF Queue, TypeOK
<1>2. /\ Len(transit'[u]) = Len(transit[u]) + 1 /\ Len(transit[u]) \in Nat
      /\ transit'[u][Len(transit[u]) + 1] = m
      /\ \A i \in 1 .. Len(transit[u]) : transit'[u][i] = transit[u][i]
  BY <1>1, AppendProperties DEF TypeOK
<1>3. ASSUME NEW i \in 1 .. Len(transit'[u]), transit'[u][i] = EOF
      PROVE  i = Len(transit'[u]) /\ client'[u] \in Finished
  <2>1. CASE i = Len(transit[u]) + 1 BY <1>2, <1>3, <2>1
  <2>2. CASE i \in 1 .. Len(transit[u]) BY <1>2, <1>3, <2>2 DEF EOFLast, Finished
  <2> QED BY <1>2, <2>1, <2>2
<1> QED BY <1>3 DEF EOFLast

\* What is received was the first message; after the end of the file comes nothing.
LEMMA DequeueEOF ==
  ASSUME TypeOK, NEW u \in Upload, NEW kind, Received(u, kind), EOFLast(u),
         UNCHANGED client
  PROVE  /\ EOFLast(u)'
         /\ transit'[u] = Tail(transit[u]) /\ transit[u] \in Seq(Message) /\ transit[u] # <<>>
         /\ kind = "eof" => transit'[u] = <<>> /\ client[u] \in Finished
<1>1. transit'[u] = Tail(transit[u]) /\ transit[u] \in Seq(Message) /\ transit[u] # <<>>
  BY DEF Received, Dequeue, TypeOK
<1>2. /\ Len(transit[u]) \in Nat \ {0} /\ Len(transit'[u]) = Len(transit[u]) - 1
      /\ Head(transit[u]) = transit[u][1] /\ Tail(transit[u]) \in Seq(Message)
      /\ \A i \in 1 .. Len(transit'[u]) : transit'[u][i] = transit[u][i + 1]
  BY <1>1, HeadTailProperties, EmptySeq, LenProperties
<1>3. EOFLast(u)'
  <2> SUFFICES ASSUME NEW i \in 1 .. Len(transit'[u]), transit'[u][i] = EOF
               PROVE  i = Len(transit'[u]) /\ client'[u] \in Finished
    BY DEF EOFLast
  <2>1. i + 1 \in 1 .. Len(transit[u]) /\ transit[u][i + 1] = EOF BY <1>2
  <2>2. i + 1 = Len(transit[u]) /\ client[u] \in Finished BY <2>1 DEF EOFLast
  <2> QED BY <1>2, <2>2
<1>4. ASSUME kind = "eof" PROVE transit'[u] = <<>> /\ client[u] \in Finished
  <2>1. Head(transit[u]) \in Message BY <1>1, HeadTailProperties
  <2>2. transit[u][1] = EOF BY <1>2, <1>4, <2>1, MessageKinds DEF Received
  <2>3. 1 \in 1 .. Len(transit[u]) BY <1>2
  <2>4. 1 = Len(transit[u]) /\ client[u] \in Finished BY <2>2, <2>3 DEF EOFLast
  <2>5. Len(transit'[u]) = 0 /\ transit'[u] \in Seq(Message) BY <1>1, <1>2, <2>4
  <2>6. transit'[u] = <<>> BY <2>5, EmptySeq
  <2> QED BY <2>4, <2>6
<1> QED BY <1>1, <1>3, <1>4

\* The handler has received a message and goes on.
LEMMA ReceiveGrows ==
  ASSUME TypeOK, NEW u \in Upload, NEW kind, Received(u, kind), pc[u] \in Receiving, Sound(u)
  PROVE  /\ Grows(transit'[u], size[u] + Head(transit[u]).size, offered[u])
         /\ size[u] + Head(transit[u]).size <= offered[u]
<1>1. transit'[u] = Tail(transit[u]) /\ transit[u] \in Seq(Message) /\ transit[u] # <<>>
  BY DEF Received, Dequeue, TypeOK
<1>2. size[u] \in Nat /\ offered[u] \in Nat BY DEF TypeOK
<1>3. Grows(transit[u], size[u], offered[u]) BY DEF Sound, Served
<1> QED BY <1>1, <1>2, <1>3, GrowsFromTheHead

--------------------------------------------------------------------------------
(* The invariant is kept *)

\* The handler returns an error.
LEMMA ReturnKeeps ==
  ASSUME TypeOK, NEW u \in Upload, Sound(u), NEW code \in Code \ {"OK"},
         Return(u, Status(code)), EOFLast(u)', pc[u] # "none",
         transit[u] = <<>> => transit'[u] = <<>>,
         UNCHANGED <<stored, images, client, laptop, offered>>, u \in files => u \in files',
         written'[u] = written[u] \/ pc[u] = "write",
         code = "InvalidArgument" => offered[u] > maxImageSize
  PROVE  Sound(u)'
<1> USE DEF Return, Goto, TypeOK
<1>1. /\ pc'[u] = "none" /\ size'[u] = 0 /\ answer'[u] = Status(code)
      /\ Status(code).code = code /\ code \notin {"OK", "none"}
  BY DEF Status, NoAnswer, Code
<1>2. Begun(u)'
  <2>1. client[u] \notin {"idle", "ok"} BY DEF Sound, Begun, Served, NoAnswer
  <2> QED BY <2>1 DEF Begun
<1>3. Served(u)' BY <1>1 DEF Served, Receiving, Saving
<1>4. Saved(u)' BY <1>1 DEF Sound, Saved, OnDisk
<1> QED BY <1>2, <1>3, <1>4 DEF Sound

LEMMA ClientKeeps ==
  ASSUME TypeOK, NEW u \in Upload, Client(u) \/ Response(u), Sound(u) PROVE Sound(u)'
<1> USE DEF TypeOK, disk, handler, Goto, Finished
<1>1. ASSUME NEW l \in Laptop, UploadImageClient(u, l) PROVE Sound(u)'
  <2>1. /\ client[u] = "idle" /\ client'[u] = "sending" /\ pc'[u] = "info" /\ Queue(u, Info)
        /\ transit[u] = <<>> /\ offered'[u] = 0 /\ size'[u] = 0 /\ answer'[u] = NoAnswer
        /\ u \notin images'
    BY <1>1 DEF UploadImageClient, Sound, Begun, Served
  <2>2. transit'[u] = Append(<<>>, Info) BY <2>1 DEF Queue
  <2>3. Len(transit'[u]) = 1 /\ transit'[u][1] = Info BY <2>2
  <2>4. EOFLast(u)' BY <2>3, MessageKinds DEF EOFLast
  <2>5. Grows(transit'[u], 0, 0)
    <3>1. <<>> \in Seq(Message) /\ 0 \in Nat OBVIOUS
    <3>2. Grows(Append(<<>>, Info), 0, 0 + Info.size)
      BY <3>1, GrowsFromNothing, GrowsAtTheEnd, MessageKinds
    <3> QED BY <2>2, <3>2, MessageKinds
  <2>6. Begun(u)' BY <2>1 DEF Begun
  <2>7. Served(u)' BY <2>1, <2>5 DEF Served, Receiving, Saving
  <2>8. Saved(u)' BY <2>1 DEF Saved, NoAnswer
  <2> QED BY <2>4, <2>6, <2>7, <2>8 DEF Sound
<1>2. ASSUME NEW n \in Read, SendChunk(u, n) PROVE Sound(u)'
  <2>1. /\ client[u] = "sending" /\ client' = client /\ Queue(u, Data(n))
        /\ offered'[u] = offered[u] + n /\ Data(n) \in Message /\ Data(n).size = n
    BY <1>2, MessageKinds DEF SendChunk
  <2>2. EOFLast(u)' BY <2>1, QueueEOF, MessageKinds DEF Sound
  <2>3. pc[u] \in Receiving => Grows(transit'[u], size[u], offered'[u])
    <3>1. transit'[u] = Append(transit[u], Data(n)) /\ transit[u] \in Seq(Message)
      BY <2>1 DEF Queue
    <3>2. size[u] \in Nat /\ offered[u] \in Nat OBVIOUS
    <3> QED BY <2>1, <3>1, <3>2, GrowsAtTheEnd DEF Sound, Served
  <2>4. Begun(u)' BY <1>2, <2>1 DEF SendChunk, Begun
  <2>5. Served(u)' BY <1>2, <2>1, <2>3 DEF SendChunk, Sound, Served
  <2>6. Saved(u)'
    <3>1. offered[u] \in Nat /\ offered'[u] \in Nat /\ offered[u] <= offered'[u]
      BY <2>1, SizeAssumption DEF Read
    <3>2. answer[u].code # "OK" /\ u \notin images /\ pc[u] \notin {"register", "respond"}
      BY <2>1 DEF Sound, Saved, Served, Saving, OnDisk
    <3> QED BY <1>2, <3>1, <3>2, SizeAssumption DEF SendChunk, Sound, Saved
  <2> QED BY <2>2, <2>4, <2>5, <2>6 DEF Sound
<1>3. CASE SendFail(u)
  BY <1>3 DEF SendFail, Sound, EOFLast, Begun, Served, Saved, OnDisk
<1>4. CASE CloseSend(u)
  <2>1. /\ client[u] = "sending" /\ client'[u] = "waiting" /\ Queue(u, EOF)
        /\ EOF \in Message /\ EOF.size = 0
    BY <1>4, MessageKinds DEF CloseSend
  <2>2. EOFLast(u)' BY <2>1, QueueEOF DEF Sound
  <2>3. pc[u] \in Receiving => Grows(transit'[u], size[u], offered[u])
    <3>1. transit'[u] = Append(transit[u], EOF) /\ transit[u] \in Seq(Message)
      BY <2>1 DEF Queue
    <3>2. size[u] \in Nat /\ offered[u] \in Nat /\ offered[u] + 0 = offered[u] OBVIOUS
    <3> QED BY <2>1, <3>1, <3>2, GrowsAtTheEnd DEF Sound, Served
  <2>4. Begun(u)' BY <2>1 DEF Begun
  <2>5. Served(u)' BY <1>4, <2>1, <2>3 DEF CloseSend, Sound, Served
  <2>6. Saved(u)' BY <1>4, <2>1 DEF CloseSend, Sound, Saved, OnDisk
  <2> QED BY <2>2, <2>4, <2>5, <2>6 DEF Sound
<1>5. CASE Response(u)
  BY <1>5 DEF Response, Sound, EOFLast, Begun, Served, Saved, OnDisk
<1>6. CASE EndContext(u)
  BY <1>6 DEF EndContext, caller, Sound, EOFLast, Begun, Served, Saved, OnDisk
<1> QED BY <1>1, <1>2, <1>3, <1>4, <1>5, <1>6 DEF Client

LEMMA ReceiveKeeps == ASSUME TypeOK, NEW u \in Upload, Receive(u), Sound(u) PROVE Sound(u)'
<1> USE DEF TypeOK, disk, caller, Goto
<1>1. CASE RecvInfo(u)
  <2>1. Received(u, "info") /\ pc[u] = "info" /\ pc'[u] = "find" BY <1>1 DEF RecvInfo
  <2>2. Head(transit[u]).size = 0
    <3>1. Head(transit[u]) \in Message BY <2>1, DequeueTypes
    <3> QED BY <2>1, <3>1 DEF Received, Message, Info, EOF, Data
  <2>3. Grows(transit'[u], size[u], offered[u])
    <3>1. size[u] + 0 = size[u] OBVIOUS
    <3> QED BY <2>1, <2>2, <3>1, ReceiveGrows DEF Receiving
  <2>4. EOFLast(u)' BY <1>1, <2>1, DequeueEOF DEF RecvInfo, Sound
  <2>5. Begun(u)' BY <1>1, <2>1 DEF RecvInfo, Sound, Begun
  <2>6. Served(u)' BY <1>1, <2>1, <2>3 DEF RecvInfo, Sound, Served, Saving
  <2>7. Saved(u)' BY <1>1, <2>1 DEF RecvInfo, Sound, Saved, OnDisk
  <2> QED BY <2>4, <2>5, <2>6, <2>7 DEF Sound
<1>2. CASE RecvChunk(u)
  <2>1. /\ Received(u, "chunk") /\ pc[u] = "recv"
        /\ UNCHANGED <<stored, files, written, images, client, laptop, offered, ended>>
    BY <1>2 DEF RecvChunk
  <2>2. EOFLast(u)' /\ (transit[u] = <<>> => transit'[u] = <<>>)
    BY <2>1, DequeueEOF DEF Sound, Received
  <2>3. CASE Return(u, Status("InvalidArgument")) /\ size[u] + Head(transit[u]).size > maxImageSize
    <3>1. offered[u] > maxImageSize
      <4>1. size[u] + Head(transit[u]).size <= offered[u] BY <2>1, ReceiveGrows DEF Receiving
      <4>2. Head(transit[u]).size \in Nat /\ size[u] \in Nat /\ offered[u] \in Nat
        BY <2>1, DequeueTypes
      <4> QED BY <2>3, <4>1, <4>2, SizeAssumption
    <3> QED BY <2>1, <2>2, <2>3, <3>1, ReturnKeeps DEF Code
  <2>4. CASE /\ size' = [size EXCEPT ![u] = size[u] + Head(transit[u]).size]
             /\ pc'[u] = "loop" /\ UNCHANGED answer
    <3>1. Grows(transit'[u], size'[u], offered[u]) BY <2>1, <2>4, ReceiveGrows DEF Receiving
    <3>2. Begun(u)' BY <2>1, <2>4 DEF Sound, Begun
    <3>3. Served(u)' BY <2>1, <2>4, <3>1 DEF Sound, Served, Saving
    <3>4. Saved(u)' BY <2>1, <2>4 DEF Sound, Saved, OnDisk
    <3> QED BY <2>2, <3>2, <3>3, <3>4 DEF Sound
  <2> QED BY <1>2, <2>3, <2>4 DEF RecvChunk
<1>3. CASE RecvEOF(u)
  <2>1. /\ Received(u, "eof") /\ pc[u] = "recv" /\ pc'[u] = "create"
        /\ UNCHANGED <<stored, files, written, images, client, laptop, offered, size, answer>>
    BY <1>3 DEF RecvEOF
  <2>2. EOFLast(u)' /\ transit'[u] = <<>> /\ client[u] \in Finished
    BY <2>1, DequeueEOF DEF Sound
  <2>3. Head(transit[u]).size = 0
    <3>1. Head(transit[u]) \in Message BY <2>1, DequeueTypes
    <3> QED BY <2>1, <3>1, MessageKinds DEF Received
  <2>4. size[u] = offered[u]
    <3>1. size[u] + 0 = size[u] OBVIOUS
    <3>2. Grows(<<>>, size[u], offered[u])
      BY <2>1, <2>2, <2>3, <3>1, ReceiveGrows DEF Receiving
    <3> QED BY <3>2, GrownUp
  <2>5. Begun(u)' BY <2>1 DEF Sound, Begun
  <2>6. Served(u)' BY <2>1, <2>2, <2>4 DEF Sound, Served, Receiving
  <2>7. Saved(u)' BY <2>1 DEF Sound, Saved, OnDisk
  <2> QED BY <2>2, <2>5, <2>6, <2>7 DEF Sound
<1>4. CASE RecvError(u)
  <2>1. EOFLast(u)' BY <1>4 DEF RecvError, Sound, EOFLast
  <2> QED BY <1>4, <2>1, ReturnKeeps DEF RecvError, Code
<1> QED BY <1>1, <1>2, <1>3, <1>4 DEF Receive

LEMMA SaveKeeps ==
  ASSUME TypeOK, NEW u \in Upload, Find(u) \/ CheckContext(u) \/ SaveImage(u) \/ SendAndClose(u),
         Sound(u)
  PROVE  Sound(u)'
<1> USE DEF TypeOK, disk, caller, Goto
<1>1. /\ UNCHANGED <<client, transit, stored, laptop, offered>>
      /\ pc[u] # "none" /\ answer[u] = NoAnswer
  BY DEF Find, CheckContext, SaveImage, CreateFile, WriteFile, Register, SendAndClose, Sound, Served
<1>2. EOFLast(u)' BY <1>1 DEF Sound, EOFLast
<1>3. client[u] # "idle" BY <1>1 DEF Sound, Begun
<1>4. CASE /\ UNCHANGED <<stored, images, files, written>>
           /\ \E code \in Code \ {"OK", "InvalidArgument"} : Return(u, Status(code))
  BY <1>1, <1>2, <1>4, ReturnKeeps
<1>5. CASE Find(u)
  <2>1. CASE laptop[u] \in stored /\ pc'[u] = "loop" /\ UNCHANGED <<size, answer>>
    BY <1>1, <1>2, <1>5, <2>1
       DEF Find, Sound, Begun, Served, Saved, OnDisk, Receiving, Saving
  <2>2. CASE Return(u, Status("Internal")) BY <1>4, <1>5, <2>2 DEF Find, Code
  <2> QED BY <1>5, <2>1, <2>2 DEF Find
<1>6. CASE CheckContext(u)
  <2>1. CASE pc'[u] = "recv" /\ UNCHANGED <<size, answer>>
    BY <1>1, <1>2, <1>6, <2>1
       DEF CheckContext, Sound, Begun, Served, Saved, OnDisk, Receiving, Saving
  <2>2. CASE Return(u, Status("Canceled")) BY <1>4, <1>6, <2>2 DEF CheckContext, Code
  <2> QED BY <1>6, <2>1, <2>2 DEF CheckContext
<1>7. CASE CreateFile(u)
  <2>1. CASE files' = files \cup {u} /\ pc'[u] = "write" /\ UNCHANGED <<size, answer>>
    BY <1>1, <1>2, <1>7, <2>1
       DEF CreateFile, Sound, Begun, Served, Saved, OnDisk, Receiving, Saving
  <2>2. CASE Return(u, Status("Internal")) /\ UNCHANGED files
    BY <1>4, <1>7, <2>2 DEF CreateFile, Code
  <2> QED BY <1>7, <2>1, <2>2 DEF CreateFile
<1>8. CASE WriteFile(u)
  <2>1. CASE written' = [written EXCEPT ![u] = size[u]] /\ pc'[u] = "register"
             /\ UNCHANGED <<size, answer>>
    BY <1>1, <1>2, <1>8, <2>1
       DEF WriteFile, Sound, Begun, Served, Saved, OnDisk, Receiving, Saving, NoAnswer
  <2>2. CASE Return(u, Status("Internal"))
    BY <1>1, <1>2, <1>8, <2>2, ReturnKeeps DEF WriteFile, Code
  <2> QED BY <1>8, <2>1, <2>2 DEF WriteFile
<1>9. CASE Register(u)
  <2>1. size[u] <= maxImageSize BY SizeAssumption
  <2> QED BY <1>1, <1>2, <1>9, <2>1
          DEF Register, Sound, Begun, Served, Saved, OnDisk, Receiving, Saving
<1>10. CASE SendAndClose(u)
  <2>1. CASE Return(u, [code |-> "OK", id |-> laptop[u], size |-> size[u]])
    BY <1>1, <1>2, <1>3, <1>10, <2>1
       DEF SendAndClose, Return, Sound, Begun, Served, Saved, OnDisk, Receiving, Saving
  <2>2. CASE Return(u, Status("Unknown")) BY <1>4, <1>10, <2>2 DEF SendAndClose, Code
  <2> QED BY <1>10, <2>1, <2>2 DEF SendAndClose
<1> QED BY <1>5, <1>6, <1>7, <1>8, <1>9, <1>10 DEF SaveImage

\* Nothing has been registered any more, and of the files only one that was being
\* written is changed.
LEMMA CrashKeeps == ASSUME TypeOK, NEW u \in Upload, Crash, Sound(u) PROVE Sound(u)'
<1> USE DEF TypeOK, caller
<1>1. pc'[u] = "none" /\ size'[u] = 0 /\ u \notin images' BY DEF Crash
<1>2. /\ UNCHANGED <<files, client, laptop, offered, transit, answer>>
      /\ pc[u] # "write" => written'[u] = written[u]
  BY DEF Crash
<1>3. EOFLast(u)' /\ Begun(u)' BY <1>1, <1>2 DEF Sound, EOFLast, Begun
<1>4. Served(u)' BY <1>1 DEF Served, Receiving, Saving
<1>5. Saved(u)'
  <2>1. answer[u].code = "OK" => pc[u] = "none" BY DEF Sound, Served, NoAnswer
  <2> QED BY <1>1, <1>2, <2>1 DEF Sound, Saved, OnDisk
<1> QED BY <1>3, <1>4, <1>5 DEF Sound

\* A step of another upload.
LEMMA StepsApart ==
  ASSUME TypeOK, NEW u \in Upload, Client(u) \/ Response(u) \/ Handle(u),
         NEW v \in Upload, v # u, Sound(v)
  PROVE  Sound(v)'
<1> USE DEF TypeOK, disk, caller, handler, Goto, Queue, Return
<1>1. CASE Client(u) \/ Response(u)
  BY <1>1, OthersKeep DEF Client, UploadImageClient, SendChunk, SendFail, CloseSend, EndContext,
                          Response
<1>2. CASE Receive(u)
  BY <1>2, OthersKeep DEF Receive, RecvInfo, RecvChunk, RecvEOF, RecvError, Received, Dequeue
<1>3. CASE Find(u) \/ CheckContext(u) \/ SaveImage(u) \/ SendAndClose(u)
  BY <1>3, OthersKeep DEF Find, CheckContext, SaveImage, CreateFile, WriteFile, Register,
                          SendAndClose
<1> QED BY <1>1, <1>2, <1>3 DEF Handle

LEMMA Invariant == Spec => []Inv
<1>1. Init => Inv
  <2> SUFFICES ASSUME Init, NEW u \in Upload PROVE Sound(u)
    BY DEF Inv
  <2>1. /\ client[u] = "idle" /\ transit[u] = <<>> /\ offered[u] = 0 /\ answer[u] = NoAnswer
        /\ pc[u] = "none" /\ size[u] = 0 /\ images = {}
    BY DEF Init
  <2>2. EOFLast(u) BY <2>1 DEF EOFLast
  <2>3. Begun(u) /\ Served(u) BY <2>1 DEF Begun, Served, Receiving, Saving
  <2>4. Saved(u) BY <2>1 DEF Saved, NoAnswer
  <2> QED BY <2>2, <2>3, <2>4 DEF Sound
<1>2. TypeOK /\ Inv /\ [Next]_vars => Inv'
  <2> SUFFICES ASSUME TypeOK, Inv, [Next]_vars, NEW v \in Upload PROVE Sound(v)'
    BY DEF Inv
  <2>1. Sound(v) BY DEF Inv
  <2>2. ASSUME NEW u \in Upload, Client(u) \/ Response(u) \/ Handle(u) PROVE Sound(v)'
    <3>1. CASE v # u BY <2>1, <2>2, <3>1, StepsApart
    <3>2. CASE v = u BY <2>1, <2>2, <3>2, ClientKeeps, ReceiveKeeps, SaveKeeps DEF Handle
    <3> QED BY <3>1, <3>2
  <2>3. ASSUME NEW l \in Laptop, StoreLaptop(l) PROVE Sound(v)'
    BY <2>1, <2>3, OthersKeep DEF StoreLaptop, disk, caller, handler
  <2>4. CASE Crash BY <2>1, <2>4, CrashKeeps
  <2>5. CASE UNCHANGED vars BY <2>1, <2>5, OthersKeep DEF vars, disk, caller, handler
  <2> QED BY <2>2, <2>3, <2>4, <2>5 DEF Next
<1> QED BY <1>1, <1>2, TypeCorrect, PTL DEF Spec

\* ImagesWhole for any number of uploads and crashes: what the map names is in the
\* folder, whole and within the limit (service/image_store.go:46-80).
THEOREM ImagesAlwaysWhole == Spec => []ImagesWhole
<1>1. TypeOK /\ Inv => ImagesWhole BY DEF TypeOK, Inv, Sound, Saved, OnDisk, ImagesWhole
<1> QED BY <1>1, Invariant, TypeCorrect, PTL

\* AnswersTrue likewise: no crash takes an image from a client that has been told OK, and
\* no image within the limit is refused for its size (service/laptop_server.go:236-286).
THEOREM AnswersAlwaysTrue == Spec => []AnswersTrue
<1>1. Inv => AnswersTrue BY DEF Inv, Sound, Begun, Saved, OnDisk, AnswersTrue
<1> QED BY <1>1, Invariant, PTL

--------------------------------------------------------------------------------
(* The folder is an album *)

\* There is a file only once the client has sent everything, and no byte in it before
\* the one time it is written to.
Filed(u) == /\ u \in files => client[u] \in Finished
            /\ client[u] = "idle" \/ pc[u] \in Receiving \cup {"create", "write"} => written[u] = 0

Filing == \A u \in Upload : Filed(u)

LEMMA FilingKept == ASSUME TypeOK, Inv, Filing, [Next]_vars PROVE Filing'
<1> USE DEF TypeOK, disk, caller, handler, Goto
<1>1. ASSUME NEW u \in Upload, Client(u) \/ Response(u) PROVE Filing'
  BY <1>1 DEF Client, UploadImageClient, SendChunk, SendFail, CloseSend, EndContext, Response, Filing,
              Filed, Finished, Receiving
<1>2. ASSUME NEW u \in Upload, Handle(u) PROVE Filing'
  <2>1. Sound(u) /\ client' = client BY <1>2 DEF Inv, Handle, Receive, RecvInfo, RecvChunk, RecvEOF,
          RecvError, Find, CheckContext, SaveImage, CreateFile, WriteFile, Register, SendAndClose
  <2>2. CASE Receive(u)
    BY <2>1, <2>2 DEF Receive, RecvInfo, RecvChunk, RecvEOF, RecvError, Return, Filing, Filed, Receiving
  <2>3. CASE Find(u) \/ CheckContext(u) \/ Register(u) \/ SendAndClose(u)
    BY <2>1, <2>3 DEF Find, CheckContext, Register, SendAndClose, Return, Filing, Filed, Receiving
  <2>4. CASE CreateFile(u)
    BY <2>1, <2>4 DEF CreateFile, Return, Sound, Served, Saving, Filing, Filed, Receiving
  <2>5. CASE WriteFile(u)
    <3>1. client[u] # "idle" BY <2>1, <2>5 DEF WriteFile, Sound, Begun
    <3>2. /\ files' = files /\ \A v \in Upload \ {u} : written'[v] = written[v] /\ pc'[v] = pc[v]
          /\ pc'[u] \in {"register", "none"}
      BY <2>5 DEF WriteFile, Return
    <3> QED BY <2>1, <3>1, <3>2 DEF Filing, Filed, Receiving
  <2> QED BY <1>2, <2>2, <2>3, <2>4, <2>5 DEF Handle, SaveImage
<1>3. CASE \E l \in Laptop : StoreLaptop(l) BY <1>3 DEF StoreLaptop, Filing, Filed
<1>4. CASE Crash
  <2>1. \A u \in Upload : client[u] = "idle" => pc[u] = "none" BY DEF Inv, Sound, Begun
  <2>2. \A u \in Upload : pc[u] # "write" => written'[u] = written[u] BY <1>4 DEF Crash
  <2> QED BY <1>4, <2>1, <2>2 DEF Crash, Filing, Filed, Receiving
<1>5. CASE UNCHANGED vars BY <1>5 DEF vars, Filing, Filed
<1> QED BY <1>1, <1>2, <1>3, <1>4, <1>5 DEF Next

\* A client that has not come to the end of its file has none in the folder.
LEMMA WholeKept ==
  ASSUME UNCHANGED disk,
         \A v \in files : /\ offered'[v] = offered[v]
                          /\ client'[v] \in Finished <=> client[v] \in Finished
  PROVE  Whole' = Whole
BY DEF disk, Whole

LEMMA ClientAlbum ==
  ASSUME TypeOK, Inv, Filing, NEW u \in Upload, Client(u) \/ Response(u)
  PROVE  [Abstract!Next]_(Abstract!vars)
<1> USE DEF TypeOK, Finished
<1>1. client[u] \in {"idle", "sending"} => u \notin files BY DEF Filing, Filed
<1>2. ASSUME NEW l \in Laptop, UploadImageClient(u, l) PROVE Abstract!Next
  <2>1. Whole' = Whole BY <1>1, <1>2, WholeKept DEF UploadImageClient
  <2>2. Abstract!Begin(u, l) BY <1>2, <2>1 DEF UploadImageClient, Abstract!Begin, Abstract!Move
  <2> QED BY <2>2 DEF Abstract!Next
<1>3. ASSUME NEW n \in Read, SendChunk(u, n) PROVE [Abstract!Next]_(Abstract!vars)
  <2>1. Whole' = Whole BY <1>1, <1>3, WholeKept DEF SendChunk
  <2>2. CASE n \in Chunk
    <3>1. Abstract!Send(u, n) BY <1>3, <2>1 DEF SendChunk, Abstract!Send
    <3> QED BY <2>2, <3>1 DEF Abstract!Next
  <2>3. CASE n = 0
    <3>1. offered' = offered BY <1>3, <2>3 DEF SendChunk
    <3> QED BY <1>3, <2>1, <3>1 DEF SendChunk, Abstract!vars
  <2> QED BY <2>2, <2>3 DEF Read
<1>4. CASE SendFail(u) \/ CloseSend(u)
  <2>1. Whole' = Whole BY <1>1, <1>4, WholeKept DEF SendFail, CloseSend
  <2>2. Abstract!Finish(u)
    BY <1>4, <2>1 DEF SendFail, CloseSend, Abstract!Finish, Abstract!Move
  <2> QED BY <2>2 DEF Abstract!Next
<1>5. CASE Response(u)
  <2>1. Whole' = Whole BY <1>5, WholeKept DEF Response
  <2>2. answer[u].code = "OK" => u \in Whole BY DEF Inv, Sound, Saved, OnDisk, Whole
  <2>3. Abstract!Hear(u) BY <1>5, <2>1, <2>2 DEF Response, Abstract!Hear, Abstract!Move
  <2> QED BY <2>3 DEF Abstract!Next
<1>6. CASE EndContext(u)
  <2>1. Whole' = Whole BY <1>6, WholeKept DEF EndContext, caller
  <2> QED BY <1>6, <2>1 DEF EndContext, caller, Abstract!vars
<1> QED BY <1>2, <1>3, <1>4, <1>5, <1>6 DEF Client

\* What the handler is about to save, an album may keep.
LEMMA SavingAcceptable ==
  ASSUME TypeOK, Inv, NEW u \in Upload, pc[u] \in Saving PROVE Abstract!Acceptable(u)
<1>1. Sound(u) BY DEF Inv
<1>2. size[u] = offered[u] /\ client[u] \in Finished /\ laptop[u] \in stored /\ pc[u] # "none"
  BY <1>1 DEF Sound, Served, Saving
<1>3. client[u] # "ok" BY <1>1, <1>2 DEF Sound, Begun, Served, NoAnswer
<1>4. size[u] <= maxImageSize BY SizeAssumption DEF TypeOK
<1> QED BY <1>2, <1>3, <1>4 DEF Finished, Abstract!Acceptable

\* The moment at which an image is kept is that at which the last byte is in its
\* file: for an empty image, when there is a file.
LEMMA SaveAlbum ==
  ASSUME TypeOK, Inv, Filing, NEW u \in Upload, CreateFile(u) \/ WriteFile(u)
  PROVE  [Abstract!Next]_(Abstract!vars)
<1>1. /\ UNCHANGED <<stored, images, client, laptop, offered>> /\ pc[u] \in {"create", "write"}
      /\ files \subseteq files' /\ files' \subseteq files \cup {u}
      /\ \A v \in Upload \ {u} : written'[v] = written[v]
  BY DEF TypeOK, CreateFile, WriteFile, caller
<1>2. u \in Whole => u \in Whole'
  <2> SUFFICES ASSUME u \in Whole PROVE written'[u] = offered[u]
    BY <1>1 DEF Whole
  <2>1. written[u] = 0 /\ offered[u] = 0 /\ size[u] = 0
    BY <1>1 DEF Whole, Filing, Filed, Inv, Sound, Served, Saving
  <2>2. \A n \in 0 .. 0 : n = 0 OBVIOUS
  <2> QED BY <2>1, <2>2 DEF TypeOK, CreateFile, WriteFile
<1>3. Whole' = Whole \/ Whole' = Whole \cup {u} BY <1>1, <1>2 DEF TypeOK, Whole
<1>4. CASE Whole' = Whole BY <1>1, <1>4 DEF Abstract!vars
<1>5. CASE Whole' = Whole \cup {u}
  <2>1. Abstract!Keep(u) BY <1>1, <1>5, SavingAcceptable DEF Saving, Abstract!Keep
  <2> QED BY <2>1 DEF Abstract!Next
<1> QED BY <1>3, <1>4, <1>5

LEMMA HandlerAlbum ==
  ASSUME TypeOK, Inv, Filing, NEW u \in Upload, Handle(u) PROVE [Abstract!Next]_(Abstract!vars)
<1>1. CASE UNCHANGED <<stored, disk, images, caller>>
  BY <1>1, WholeKept DEF caller, Abstract!vars
<1>2. CASE Receive(u) \/ Find(u) \/ CheckContext(u) \/ SendAndClose(u)
  BY <1>1, <1>2 DEF Receive, RecvInfo, RecvChunk, RecvEOF, RecvError, Find, CheckContext, SendAndClose
<1>3. CASE Register(u)
  <2>1. u \in Whole /\ laptop[u] \in stored
    BY <1>3 DEF Register, Inv, Sound, Saved, Served, Saving, OnDisk, Whole
  <2>2. Whole' = Whole BY <1>3, WholeKept DEF Register, caller
  <2>3. Abstract!Register(u) BY <1>3, <2>1, <2>2 DEF Register, caller, Abstract!Register
  <2> QED BY <2>3 DEF Abstract!Next
<1> QED BY <1>2, <1>3, SaveAlbum DEF Handle, SaveImage

\* A crash in the middle of a write may come after its last byte.
LEMMA CrashAlbum == ASSUME TypeOK, Inv, Filing, Crash PROVE Abstract!Next
<1> DEFINE last == Whole' \ Whole
<1>1. UNCHANGED <<files, client, laptop, offered>> BY DEF Crash, caller
<1>2. PICK part \in [{u \in Upload : pc[u] = "write"} -> 0 .. maxImageSize] :
        /\ \A u \in DOMAIN part : part[u] <= size[u]
        /\ written' = [u \in Upload |-> IF u \in DOMAIN part THEN part[u] ELSE written[u]]
  BY DEF Crash
<1>3. Whole \subseteq Whole'
  <2> SUFFICES ASSUME NEW u \in Whole PROVE written'[u] = offered[u]
    BY <1>1 DEF Whole
  <2>1. u \in Upload /\ written[u] = offered[u] BY DEF TypeOK, Whole
  <2>2. CASE pc[u] # "write" BY <1>2, <2>1, <2>2
  <2>3. CASE pc[u] = "write"
    <3>1. offered[u] = 0 /\ size[u] = 0
      BY <2>1, <2>3 DEF Filing, Filed, Inv, Sound, Served, Saving
    <3>2. part[u] \in Nat /\ part[u] <= 0 /\ written'[u] = part[u]
      BY <1>2, <2>1, <2>3, <3>1, SizeAssumption
    <3> QED BY <3>1, <3>2
  <2> QED BY <2>2, <2>3
<1>4. ASSUME NEW u \in last PROVE u \in Upload /\ Abstract!Acceptable(u)
  <2>1. u \in Upload /\ written'[u] # written[u] BY <1>1 DEF TypeOK, Whole
  <2>2. pc[u] = "write" BY <1>2, <2>1
  <2> QED BY <2>1, <2>2, SavingAcceptable DEF Saving
<1>5. last \in SUBSET {u \in Upload : Abstract!Acceptable(u)} /\ Whole' = Whole \cup last
  BY <1>3, <1>4
<1>6. stored' = {} /\ images' = {} BY DEF Crash
<1> HIDE DEF last
<1>7. Abstract!Crash BY <1>1, <1>5, <1>6 DEF Abstract!Crash
<1> QED BY <1>7 DEF Abstract!Next

\* AlbumSpec for any number of uploads, sizes of images, failures and crashes: buffer,
\* file and map are one album to those who upload (service/image_store.go:46-80).
THEOREM ImplementsAlbum == Spec => AlbumSpec
<1>1. Init => Abstract!Init /\ Filing
  BY DEF Init, Whole, Filing, Filed, Abstract!Init
<1>2. TypeOK /\ Inv /\ Filing /\ [Next]_vars => [Abstract!Next]_(Abstract!vars)
  <2> SUFFICES ASSUME TypeOK, Inv, Filing, [Next]_vars PROVE [Abstract!Next]_(Abstract!vars)
    OBVIOUS
  <2>1. ASSUME NEW l \in Laptop, StoreLaptop(l) PROVE Abstract!Next
    <3>1. Whole' = Whole BY <2>1, WholeKept DEF StoreLaptop, caller
    <3>2. Abstract!StoreLaptop(l) BY <2>1, <3>1 DEF StoreLaptop, caller, Abstract!StoreLaptop
    <3> QED BY <3>2 DEF Abstract!Next
  <2>2. CASE UNCHANGED vars
    <3>1. Whole' = Whole BY <2>2, WholeKept DEF vars, caller
    <3> QED BY <2>2, <3>1 DEF vars, caller, Abstract!vars
  <2> QED BY <2>1, <2>2, ClientAlbum, HandlerAlbum, CrashAlbum DEF Next
<1> QED BY <1>1, <1>2, TypeCorrect, Invariant, FilingKept, PTL DEF Spec, AlbumSpec, Abstract!Spec

================================================================================
