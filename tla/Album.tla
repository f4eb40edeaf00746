--------------------------------- MODULE Album ---------------------------------
(***************************************************************************)
(* What uploading an image promises: an album that keeps an image whole or *)
(* not at all, at one moment and for ever, and an index of it that names   *)
(* only what the album has.  There is neither a stream here nor a file     *)
(* that is half written; the index, but not the album, is lost in a crash. *)
(***************************************************************************)
EXTENDS Naturals

CONSTANTS Upload, Laptop, NoLaptop,
          Chunk,        \* sizes of the pieces that are sent
          maxImageSize

VARIABLES stored,   \* the laptops in the store
          client,   \* where the client of an upload is
          laptop,   \* the laptop the image is for
          offered,  \* the size of what the client has sent
          album,    \* the uploads whose images are kept
          images    \* the images in the index

vars == <<stored, client, laptop, offered, album, images>>

Init == /\ stored = {}
        /\ client = [u \in Upload |-> "idle"]
        /\ laptop = [u \in Upload |-> NoLaptop]
        /\ offered = [u \in Upload |-> 0]
        /\ album = {}
        /\ images = {}

Move(u, from, to) == client[u] = from /\ client' = [client EXCEPT ![u] = to]

Begin(u, l) == /\ Move(u, "idle", "sending")
               /\ laptop' = [laptop EXCEPT ![u] = l]
               /\ UNCHANGED <<stored, offered, album, images>>

Send(u, n) == /\ client[u] = "sending"
              /\ offered' = [offered EXCEPT ![u] = @ + n]
              /\ UNCHANGED <<stored, client, laptop, album, images>>

\* The client comes to the end of its file, or does not.
Finish(u) == /\ Move(u, "sending", "waiting") \/ Move(u, "sending", "broken")
             /\ UNCHANGED <<stored, laptop, offered, album, images>>

\* A client is told OK only of an image that is kept; one that fails may be wrong.
Hear(u) == /\ \/ u \in album /\ Move(u, "waiting", "ok")
              \/ Move(u, "waiting", "failed")
           /\ UNCHANGED <<stored, laptop, offered, album, images>>

\* Who has not sent all of an image, too much, or for no laptop, has sent it in vain.
Acceptable(u) == /\ client[u] \in {"waiting", "failed"}
                 /\ offered[u] <= maxImageSize
                 /\ laptop[u] \in stored

Keep(u) == /\ Acceptable(u)
           /\ album' = album \cup {u}
           /\ UNCHANGED <<stored, client, laptop, offered, images>>

Register(u) == /\ u \in album
               /\ laptop[u] \in stored
               /\ images' = images \cup {u}
               /\ UNCHANGED <<stored, client, laptop, offered, album>>

StoreLaptop(l) == /\ stored' = stored \cup {l}
                  /\ UNCHANGED <<client, laptop, offered, album, images>>

\* Images on their way into the album get there or do not.
Crash == /\ \E last \in SUBSET {u \in Upload : Acceptable(u)} : album' = album \cup last
         /\ stored' = {}
         /\ images' = {}
         /\ UNCHANGED <<client, laptop, offered>>

Next == \/ \E u \in Upload : \/ \E l \in Laptop : Begin(u, l)
                             \/ \E n \in Chunk : Send(u, n)
                             \/ Finish(u) \/ Hear(u) \/ Keep(u) \/ Register(u)
        \/ \E l \in Laptop : StoreLaptop(l)
        \/ Crash

Spec == Init /\ [][Next]_vars

================================================================================
