------------------------------ MODULE ImageUpload ------------------------------
(***************************************************************************)
(* UploadImage from end to end: the client that streams a file             *)
(* (client/laptop_client.go), the handler that collects it                 *)
(* (service/laptop_server.go) and DiskImageStore, which writes the file    *)
(* and then registers it in memory (service/image_store.go), on a server   *)
(* that may crash and be restarted.                                        *)
(*                                                                         *)
(* An upload is one call of UploadImageClient.  The uuid that Save draws   *)
(* is new, so the image of an upload is named after the upload.  An image  *)
(* is as many bytes as its chunks bring; a byte here is any unit.  A file  *)
(* that cannot be opened ends its client before there is a stream.         *)
(***************************************************************************)
EXTENDS Naturals, Sequences

CONSTANTS Upload,        \* the uploads, and the ids of their images
          Laptop,        \* laptop ids
          NoLaptop,
          Chunk,         \* sizes of chunks
          maxImageSize,  \* 1 << 20
          MaxBytes,      \* bound: what a client offers
          Window         \* bound: messages in transit in a stream

ASSUME LaptopAssumption == NoLaptop \notin Laptop
ASSUME SizeAssumption == Chunk \subseteq Nat /\ maxImageSize \in Nat
ASSUME BoundAssumption == MaxBytes \in Nat /\ Window \in Nat

VARIABLES stored,   \* the laptops in the laptop store
          files,    \* the files in the image folder: the only durable state
          written,  \* number of bytes in each file
          images,   \* store.images: the images registered
          client,   \* where the client is
          laptop,   \* the laptop id in the client's first message
          offered,  \* number of bytes the client has sent
          transit,  \* messages from the client that the handler has not received
          ended,    \* the streams whose context has ended
          pc,       \* where the handler is
          size,     \* imageSize, and the length of imageData
          answer    \* the response or the status the handler returned

disk == <<files, written>>
caller == <<client, laptop, offered>>
handler == <<pc, size, answer>>
vars == <<stored, disk, images, caller, transit, ended, handler>>

Info == [kind |-> "info", size |-> 0]
Data(n) == [kind |-> "chunk", size |-> n]
EOF == [kind |-> "eof", size |-> 0]

\* A read that fails brings nothing; the client does not look at its error.
Read == Chunk \cup {0}
Message == {Info, EOF} \cup {Data(n) : n \in Read}

\* The client has read its file to the end.
Finished == {"waiting", "ok", "failed"}

\* "Canceled" stands for either way in which a context ends.
Code == {"OK", "Unknown", "Internal", "InvalidArgument", "Canceled"}
NoAnswer == [code |-> "none", id |-> NoLaptop, size |-> 0]
Status(code) == [NoAnswer EXCEPT !.code = code]

TypeOK == /\ stored \subseteq Laptop
          /\ files \subseteq Upload
          /\ written \in [Upload -> Nat]
          /\ images \subseteq Upload
          /\ client \in [Upload -> {"idle", "sending", "broken"} \cup Finished]
          /\ laptop \in [Upload -> Laptop \cup {NoLaptop}]
          /\ offered \in [Upload -> Nat]
          /\ transit \in [Upload -> Seq(Message)]
          /\ ended \subseteq Upload
          /\ pc \in [Upload -> {"none", "info", "find", "loop", "recv", "create", "write",
                                "register", "respond"}]
          /\ size \in [Upload -> 0 .. maxImageSize]
          /\ answer \in [Upload -> [code : Code \cup {"none"}, id : Laptop \cup {NoLaptop},
                                    size : Nat]]

Init == /\ stored = {}
        /\ files = {}
        /\ written = [u \in Upload |-> 0]
        /\ images = {}
        /\ client = [u \in Upload |-> "idle"]
        /\ laptop = [u \in Upload |-> NoLaptop]
        /\ offered = [u \in Upload |-> 0]
        /\ transit = [u \in Upload |-> <<>>]
        /\ ended = {}
        /\ pc = [u \in Upload |-> "none"]
        /\ size = [u \in Upload |-> 0]
        /\ answer = [u \in Upload |-> NoAnswer]

Goto(u, l) == pc' = [pc EXCEPT ![u] = l]
Queue(u, m) == transit' = [transit EXCEPT ![u] = Append(@, m)]
Dequeue(u) == transit' = [transit EXCEPT ![u] = Tail(@)]

--------------------------------------------------------------------------------
(* The client *)

\* Opens the stream, which starts a handler, and sends the info.
UploadImageClient(u, l) == /\ client[u] = "idle"
                           /\ client' = [client EXCEPT ![u] = "sending"]
                           /\ laptop' = [laptop EXCEPT ![u] = l]
                           /\ Queue(u, Info)
                           /\ Goto(u, "info")
                           /\ UNCHANGED <<stored, disk, images, offered, ended, size, answer>>

\* What a read has brought is sent, until the end of the file.
SendChunk(u, n) == /\ client[u] = "sending"
                   /\ u \notin ended
                   /\ offered[u] + n <= MaxBytes
                   /\ Len(transit[u]) < Window
                   /\ Queue(u, Data(n))
                   /\ offered' = [offered EXCEPT ![u] = @ + n]
                   /\ UNCHANGED <<stored, disk, images, client, laptop, ended, handler>>

\* The stream is over before the file is: Send fails, and so does the client.
SendFail(u) == /\ client[u] = "sending"
               /\ u \in ended \/ answer[u] # NoAnswer
               /\ client' = [client EXCEPT ![u] = "broken"]
               /\ UNCHANGED <<stored, disk, images, laptop, offered, transit, ended, handler>>

\* stream.CloseAndRecv(), to the end of the file and beyond.
CloseSend(u) == /\ client[u] = "sending"
                /\ u \notin ended
                /\ Queue(u, EOF)
                /\ client' = [client EXCEPT ![u] = "waiting"]
                /\ UNCHANGED <<stored, disk, images, laptop, offered, ended, handler>>

Response(u) == /\ client[u] = "waiting"
               /\ \/ /\ answer[u].code = "OK"
                     /\ client' = [client EXCEPT ![u] = "ok"]
                  \/ /\ u \in ended \/ answer[u].code \in Code \ {"OK"}
                     /\ client' = [client EXCEPT ![u] = "failed"]
               /\ UNCHANGED <<stored, disk, images, laptop, offered, transit, ended, handler>>

\* The 5 seconds are over, or the client is killed.
EndContext(u) == /\ client[u] \in {"sending", "waiting"}
                 /\ ended' = ended \cup {u}
                 /\ UNCHANGED <<stored, disk, images, caller, transit, handler>>

--------------------------------------------------------------------------------
(* The handler *)

Return(u, a) == /\ Goto(u, "none")
                /\ answer' = [answer EXCEPT ![u] = a]
                /\ size' = [size EXCEPT ![u] = 0]

\* Recv returns a message while there is one; when the context has ended it may
\* return an error instead, and without a message it must.
Received(u, kind) == transit[u] # <<>> /\ Head(transit[u]).kind = kind /\ Dequeue(u)

RecvError(u) == /\ pc[u] \in {"info", "recv"}
                /\ u \in ended
                /\ Return(u, Status("Unknown"))
                /\ UNCHANGED <<stored, disk, images, caller, transit, ended>>

RecvInfo(u) == /\ pc[u] = "info"
               /\ Received(u, "info")
               /\ Goto(u, "find")
               /\ UNCHANGED <<stored, disk, images, caller, ended, size, answer>>

\* laptopStore.Find, which happens at one moment (module LaptopStore); an
\* unknown laptop is an error of Find, never a nil laptop.
Find(u) == /\ pc[u] = "find"
           /\ \/ laptop[u] \in stored /\ Goto(u, "loop") /\ UNCHANGED <<size, answer>>
              \/ laptop[u] \notin stored /\ Return(u, Status("Internal"))
           /\ UNCHANGED <<stored, disk, images, caller, transit, ended>>

CheckContext(u) == /\ pc[u] = "loop"
                   /\ \/ u \in ended /\ Return(u, Status("Canceled"))
                      \/ u \notin ended /\ Goto(u, "recv") /\ UNCHANGED <<size, answer>>
                   /\ UNCHANGED <<stored, disk, images, caller, transit, ended>>

\* Mutant: the limit is compared with what came before the chunk.
RecvChunkLate(u) ==
  /\ pc[u] = "recv"
  /\ Received(u, "chunk")
  /\ LET n == Head(transit[u]).size
     IN  \/ /\ size[u] > maxImageSize
            /\ Return(u, Status("InvalidArgument"))
         \/ /\ size[u] <= maxImageSize
            /\ size' = [size EXCEPT ![u] = @ + n]
            /\ Goto(u, "loop")
            /\ UNCHANGED answer
  /\ UNCHANGED <<stored, disk, images, caller, ended>>

\* Mutant: an image of just the limit is refused.
RecvChunkEarly(u) ==
  /\ pc[u] = "recv"
  /\ Received(u, "chunk")
  /\ LET total == size[u] + Head(transit[u]).size
     IN  \/ /\ total >= maxImageSize
            /\ Return(u, Status("InvalidArgument"))
         \/ /\ total < maxImageSize
            /\ size' = [size EXCEPT ![u] = total]
            /\ Goto(u, "loop")
            /\ UNCHANGED answer
  /\ UNCHANGED <<stored, disk, images, caller, ended>>

RecvChunk(u) ==
  /\ pc[u] = "recv"
  /\ Received(u, "chunk")
  /\ LET total == size[u] + Head(transit[u]).size
     IN  \/ /\ total > maxImageSize
            /\ Return(u, Status("InvalidArgument"))
         \/ /\ total <= maxImageSize
            /\ size' = [size EXCEPT ![u] = total]
            /\ Goto(u, "loop")
            /\ UNCHANGED answer
  /\ UNCHANGED <<stored, disk, images, caller, ended>>

\* Mutants: any error of Recv ends the image; the end of the image is ignored.
RecvAnyEnd(u) == /\ pc[u] = "recv"
                 /\ \/ Received(u, "eof")
                    \/ u \in ended /\ UNCHANGED transit
                 /\ Goto(u, "create")
                 /\ UNCHANGED <<stored, disk, images, caller, ended, size, answer>>

RecvNoEnd(u) == /\ pc[u] = "recv"
                /\ Received(u, "eof")
                /\ Goto(u, "loop")
                /\ UNCHANGED <<stored, disk, images, caller, ended, size, answer>>

RecvEOF(u) == /\ pc[u] = "recv"
              /\ Received(u, "eof")
              /\ Goto(u, "create")
              /\ UNCHANGED <<stored, disk, images, caller, ended, size, answer>>

--------------------------------------------------------------------------------
(* DiskImageStore.Save *)

\* Mutant: the image is registered as soon as it has a file.
CreateAndRegister(u) ==
  /\ pc[u] = "create"
  /\ \/ files' = files \cup {u} /\ images' = images \cup {u} /\ Goto(u, "write")
        /\ UNCHANGED <<size, answer>>
     \/ Return(u, Status("Internal")) /\ UNCHANGED <<files, images>>
  /\ UNCHANGED <<stored, written, caller, transit, ended>>

\* os.Create makes an empty file, or fails.
CreateFile(u) ==
  /\ pc[u] = "create"
  /\ \/ files' = files \cup {u} /\ Goto(u, "write") /\ UNCHANGED <<size, answer>>
     \/ Return(u, Status("Internal")) /\ UNCHANGED files
  /\ UNCHANGED <<stored, written, images, caller, transit, ended>>

\* Mutant: the error of WriteTo is dropped.
WriteFileUnchecked(u) ==
  /\ pc[u] = "write"
  /\ \E n \in 0 .. size[u] : written' = [written EXCEPT ![u] = n]
  /\ Goto(u, "register")
  /\ UNCHANGED <<stored, files, images, caller, transit, ended, size, answer>>

\* imageData.WriteTo writes everything, or fails after a part of it: the part
\* stays on the disk.
WriteFile(u) ==
  /\ pc[u] = "write"
  /\ \/ /\ written' = [written EXCEPT ![u] = size[u]]
        /\ Goto(u, "register")
        /\ UNCHANGED <<size, answer>>
     \/ \E n \in 0 .. size[u] : /\ written' = [written EXCEPT ![u] = n]
                                /\ Return(u, Status("Internal"))
  /\ UNCHANGED <<stored, files, images, caller, transit, ended>>

\* The entry in the map, under the lock.
Register(u) == /\ pc[u] = "register"
               /\ images' = images \cup {u}
               /\ Goto(u, "respond")
               /\ UNCHANGED <<stored, disk, caller, transit, ended, size, answer>>

\* SendAndClose.  The id in the response is the laptop's.
SendAndClose(u) ==
  /\ pc[u] = "respond"
  /\ \/ Return(u, [code |-> "OK", id |-> laptop[u], size |-> size[u]])
     \/ u \in ended /\ Return(u, Status("Unknown"))
  /\ UNCHANGED <<stored, disk, images, caller, transit, ended>>

--------------------------------------------------------------------------------
(* The server *)

StoreLaptop(l) == /\ l \notin stored
                  /\ stored' = stored \cup {l}
                  /\ UNCHANGED <<disk, images, caller, transit, ended, handler>>

\* The process dies and is started again.  Both maps are lost and every handler
\* with them; a file that was being written has some of its bytes.
Crash == /\ stored' = {}
         /\ images' = {}
         /\ \E part \in [{u \in Upload : pc[u] = "write"} -> 0 .. maxImageSize] :
              /\ \A u \in DOMAIN part : part[u] <= size[u]
              /\ written' = [u \in Upload |-> IF u \in DOMAIN part THEN part[u] ELSE written[u]]
         /\ ended' = ended \cup {u \in Upload : pc[u] # "none"}
         /\ pc' = [u \in Upload |-> "none"]
         /\ size' = [u \in Upload |-> 0]
         /\ UNCHANGED <<files, caller, transit, answer>>

--------------------------------------------------------------------------------

Receive(u) == RecvInfo(u) \/ RecvChunk(u) \/ RecvEOF(u) \/ RecvError(u)
SaveImage(u) == CreateFile(u) \/ WriteFile(u) \/ Register(u)
Handle(u) == Receive(u) \/ Find(u) \/ CheckContext(u) \/ SaveImage(u) \/ SendAndClose(u)
Client(u) == \/ \E l \in Laptop : UploadImageClient(u, l)
             \/ \E n \in Read : SendChunk(u, n)
             \/ SendFail(u) \/ CloseSend(u) \/ EndContext(u)

Next == \/ \E u \in Upload : Client(u) \/ Response(u) \/ Handle(u)
        \/ \E l \in Laptop : StoreLaptop(l)
        \/ Crash

Spec == Init /\ [][Next]_vars

\* The goroutines of handlers and clients run; a client need not go on sending,
\* its deadline need not pass, and the server need not crash.
FairSpec == Spec /\ \A u \in Upload : WF_vars(Handle(u)) /\ WF_vars(Response(u))

--------------------------------------------------------------------------------
(* Properties *)

\* An image that is registered is whole: all that its client has sent, to the end of
\* its file, within the limit, for a laptop that is in the store - whatever failed, was
\* canceled or crashed on the way, and although file and map are updated apart.
ImagesWhole == \A u \in images : /\ u \in files
                                 /\ client[u] \in Finished
                                 /\ written[u] = offered[u]
                                 /\ written[u] <= maxImageSize
                                 /\ laptop[u] \in stored

\* What the handler answers is true for good.  A client that is told OK has its whole
\* image in a file, with the size it is told, also after the server that took it has
\* crashed; one that is refused for the size has sent more than the limit.
AnswersTrue == \A u \in Upload :
                 /\ client[u] = "ok" => /\ u \in files
                                        /\ written[u] = offered[u]
                                        /\ answer[u].size = offered[u]
                 /\ answer[u].code = "InvalidArgument" => offered[u] > maxImageSize

\* A client that has sent everything hears of it: the upload is stored, refused
\* or broken off, even if the deadline never comes.
UploadAnswered == \A u \in Upload : client[u] = "waiting" ~> client[u] \in {"ok", "failed"}

--------------------------------------------------------------------------------
(* What is kept of the images *)

\* The files that hold all of the image their client has sent.
Whole == {u \in files : client[u] \in Finished /\ written[u] = offered[u]}

Abstract == INSTANCE Album WITH album <- Whole

\* The stream, the buffer, the file and the map do together what an album does at one
\* moment each: a file that is cut short, by its client, by the disk or by a crash, is
\* in the folder but is never taken for an image, an image is in the folder before
\* anybody hears of it, and it stays there (laptop_server.go:186-286, image_store.go:46-80).
AlbumSpec == Abstract!Spec

================================================================================
