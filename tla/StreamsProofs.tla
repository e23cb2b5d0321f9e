--------------------------- MODULE StreamsProofs ---------------------------
(***************************************************************************)
(* The inductive invariants behind the properties of Streams: what the     *)
(* caches hold, what is on the wire, and what both peers make of the       *)
(* streams between them; and the proofs of what a stream manager promises  *)
(* of its cache.  (StreamsPeers has those about both peers.)               *)
(***************************************************************************)
EXTENDS Streams, TLAPS

-----------------------------------------------------------------------------
(* Ends and caches *)

\* An end belongs to a stream that was opened, between two nodes.
Linked ==
    /\ \A s \in Stream : link[s] # None => link[s].from # link[s].to
    /\ \A n \in Node, s \in Stream : end[<<n, s>>] # "none" =>
          link[s] # None /\ (n = link[s].from \/ n = link[s].to)

\* A goroutine that is about to handle a stream opened it, and nobody else handles
\* it.
Handling ==
    \A u \in User : pc[u] = "handle" =>
        /\ held[u] # None
        /\ link[held[u]] # None
        /\ link[held[u]].from = Home[u] /\ link[held[u]].to = Peer[u]
        /\ end[<<Home[u], held[u]>>] = "opened"
        /\ \A v \in User \ {u} : pc[v] = "handle" => held[v] # held[u]

\* What a goroutine opened, it is about to handle.
OwnIsHandled ==
    \A n \in Node, s \in Stream : end[<<n, s>>] = "opened" =>
        \E u \in User : Home[u] = n /\ pc[u] = "handle" /\ held[u] = s

\* A stream that is, or was, written to has been handled.
Writing ==
    /\ \A u \in User : pc[u] = "write" =>
          /\ held[u] # None
          /\ link[held[u]] # None
          /\ end[<<Home[u], held[u]>>] \in {"reading", "gone"}
    /\ \A u \in User : failed[u] # None =>
          /\ pc[u] # "idle"
          /\ link[failed[u]] # None
          /\ end[<<Home[u], failed[u]>>] \in {"reading", "gone"}

\* The cache will not give a retry the stream that failed.
LookIsAfresh ==
    \A u \in User : pc[u] = "look" /\ failed[u] # None /\ Home[u] < Peer[u] =>
        cache[<<Home[u], Peer[u]>>] # failed[u]

\* A stream in the cache leads to the peer it is cached for and is read.
Leads ==
    \A n, m \in Node : cache[<<n, m>>] # None =>
        /\ link[cache[<<n, m>>]] # None
        /\ \/ link[cache[<<n, m>>]].from = n /\ link[cache[<<n, m>>]].to = m
           \/ link[cache[<<n, m>>]].from = m /\ link[cache[<<n, m>>]].to = n
        /\ end[<<n, cache[<<n, m>>]>>] = "reading"

Ends == Linked /\ Handling /\ Writing

Inv == Shape /\ Ends /\ Leads /\ OwnIsHandled /\ LookIsAfresh /\ RetryIsAfresh

-----------------------------------------------------------------------------
(* Frames *)

\* Goroutines that write to the same peer from the same node use one stream.  The
\* chunks of a frame that takes several are then nobody else's business only if
\* no other one writes there.
Unshared ==
    \A u, v \in User :
        Home[u] = Home[v] /\ Peer[u] = Peer[v] /\ u # v /\ Frames[v] # {} =>
            \A f \in Frames[u] : Len(Chunks(f)) = 1

Sent == UNION {Frames[u] : u \in User}

\* What a reader misses of a payload after k chunks of the frame.
Missing(f, k) == Len(Encode(f)) + f.size - k * Chunk

Sizes == {0} \cup UNION {{Missing(f, k) : k \in 1 .. Len(Chunks(f)) - 1} : f \in Sent}

Piece == [head : Seq(Nat), body : Nat]

\* What it misses after the chunk c.
After(r, c) == (IF r = 0 THEN Decode(c.head).size ELSE r) - c.body

\* The chunks w take a reader that misses r to one that misses t; d are the
\* sizes in between.
Flows(w, r, t) ==
    \E d \in [0 .. Len(w) -> Sizes] :
        /\ d[0] = r
        /\ d[Len(w)] = t
        /\ \A i \in 1 .. Len(w) : Fits(d[i - 1], w[i]) /\ d[i] = After(d[i - 1], w[i])

Pieces ==
    /\ wire \in [End -> Seq(Piece)]
    /\ todo \in [User -> Seq(Piece)]
    /\ rest \in [End -> Sizes]

\* The two ends of a stream that was opened, and those that were shut.
Sides ==
    /\ \A s \in Stream : link[s] # None =>
          /\ end[<<link[s].from, s>>] \in {"opened", "reading", "gone"}
          /\ end[<<link[s].to, s>>] \in {"incoming", "reading", "gone"}
    /\ \A n \in Node, s \in Stream : <<n, s>> \in shut => end[<<n, s>>] \notin {"none", "gone"}

\* Nothing is on a wire, and nothing missed, before a stream is opened and read.
Quiet ==
    \A n \in Node, s \in Stream :
        /\ link[s] = None => wire[<<n, s>>] = <<>>
        /\ end[<<n, s>>] # "reading" => rest[<<n, s>>] = 0

\* A goroutine with a frame has all of it still to write, until it writes.
Framing ==
    \A u \in User :
        /\ frame[u] # None => frame[u] \in Frames[u]
        /\ pc[u] = "idle" => frame[u] = None
        /\ pc[u] = "write" => frame[u] # None
        /\ pc[u] \in {"open", "handle", "look"} /\ frame[u] # None => todo[u] = Chunks(frame[u])

\* The stream s is between the nodes n and m.
Joins(s, n, m) ==
    /\ link[s] # None
    /\ \/ link[s].from = n /\ link[s].to = m
       \/ link[s].from = m /\ link[s].to = n

\* What it writes to leads to its peer.
Toward == \A u \in User : pc[u] = "write" => Joins(held[u], Home[u], Peer[u])

Sender(u, n, s) == pc[u] = "write" /\ held[u] = s /\ Home[u] = n

\* Between two frames: nobody at n has written a part of one.
Between(n, m, s) ==
    /\ Flows(wire[<<n, s>>], rest[<<m, s>>], 0)
    /\ \A u \in User : Sender(u, n, s) => todo[u] = Chunks(frame[u])

\* Within a frame: what is on the wire is completed by what u has still to write.
Within(n, m, s) ==
    \E u \in User :
        /\ Sender(u, n, s)
        /\ Len(Chunks(frame[u])) > 1
        /\ Flows(wire[<<n, s>>] \o todo[u], rest[<<m, s>>], 0)

\* What is on the wire from n to m fits the reader; while the end of n is open, it
\* also fits what the writers have still to write.
Fed(n, m, s) ==
    /\ \E t \in Sizes : Flows(wire[<<n, s>>], rest[<<m, s>>], t)
    /\ ~Closed(n, s) => Between(n, m, s) \/ Within(n, m, s)

\* So it is wherever somebody may read.
Wires ==
    \A s \in Stream, n, m \in Node :
        Joins(s, n, m) /\ end[<<m, s>>] # "gone" => Fed(n, m, s)

FramesInv == Pieces /\ Sides /\ Quiet /\ Framing /\ Toward /\ Wires

-----------------------------------------------------------------------------
(* The stream that both peers use *)

\* One goroutine of a node opens streams to a peer.
OneSender ==
    \A u, v \in User :
        Home[u] = Home[v] /\ Peer[u] = Peer[v] /\ Frames[u] # {} /\ Frames[v] # {} => u = v

Orderly == world \cap {"direct", "reorder"} = {}

\* Streams that the same node opened to the same peer.
SameWay(s, t) ==
    /\ link[s] # None /\ link[t] # None
    /\ link[s].from = link[t].from /\ link[s].to = link[t].to

\* The peer with the smaller id opened the stream: handle prefers it.
Strong(s) == link[s] # None /\ link[s].from < link[s].to

\* Streams are relayed, and numbered in the order in which they are opened; who
\* is about to handle one has opened the newest of its node and peer.
Numbered ==
    /\ \A s \in Stream : link[s] # None => ~link[s].direct
    /\ \A s, t \in Stream : t < s /\ link[s] # None => link[t] # None
    /\ \A u \in User : pc[u] # "idle" => frame[u] # None
    /\ \A u \in User, s \in Stream : pc[u] = "handle" /\ SameWay(s, held[u]) => s <= held[u]

\* Streams of one node are handled in the order in which they were opened.
InOrder ==
    \A s, t \in Stream :
        /\ SameWay(s, t)
        /\ end[<<link[s].to, s>>] = "reading" /\ end[<<link[t].to, t>>] = "incoming"
        => s < t

\* Of the streams from one side, the last that was handled is in the cache, if any.
LastCached ==
    \A n, m \in Node, s \in Stream :
        /\ cache[<<n, m>>] # None
        /\ SameWay(s, cache[<<n, m>>])
        /\ end[<<n, s>>] = "reading"
        => s <= cache[<<n, m>>]

\* Of the strong streams between two nodes only the newest may be open at its
\* opener, who has it in the cache; the other side, once it handled it, as well.
Newest ==
    /\ \A s, t \in Stream : Strong(s) /\ SameWay(s, t) /\ s < t => Closed(link[s].from, s)
    /\ \A s \in Stream : Strong(s) /\ ~Closed(link[s].from, s) =>
          /\ end[<<link[s].from, s>>] = "reading" => cache[<<link[s].from, link[s].to>>] = s
          /\ end[<<link[s].to, s>>] = "reading" => cache[<<link[s].to, link[s].from>>] = s

\* The opener writes to the newest one, and opens another only when it is closed.
Needed ==
    \A u \in User, s \in Stream :
        Strong(s) /\ link[s].from = Home[u] /\ link[s].to = Peer[u] =>
            /\ pc[u] = "open" => Closed(Home[u], s)
            /\ pc[u] = "write" /\ end[<<Home[u], s>>] = "reading" /\ <<Home[u], s>> \notin shut =>
                  held[u] = s

Ordered == Numbered /\ InOrder /\ LastCached /\ Newest /\ Needed

AgreementInv == Orderly => Ordered

\* All of it, where it holds.
PeersInv ==
    /\ Inv
    /\ Unshared => FramesInv
    /\ OneSender => AgreementInv

-----------------------------------------------------------------------------
(* What a step does *)

\* What a panic at node n leaves of the ends and of the goroutines.
PanicAt(n) ==
    /\ link' = link
    /\ \A x \in Node \ {n}, s \in Stream : end'[<<x, s>>] = end[<<x, s>>]
    /\ \A s \in Stream :
          \/ /\ end'[<<n, s>>] = end[<<n, s>>]
             /\ link[s] = None \/ (link[s].from # n /\ link[s].to # n)
          \/ /\ end'[<<n, s>>] = "gone"
             /\ link[s] # None
             /\ link[s].from = n \/ link[s].to = n
    /\ \A v \in User :
          \/ Home[v] = n /\ pc'[v] = "idle" /\ held'[v] = None /\ failed'[v] = None
          \/ Home[v] # n /\ pc'[v] = pc[v] /\ held'[v] = held[v] /\ failed'[v] = failed[v]

\* Such a panic does just that.
LEMMA Panic == ASSUME NEW u \in User, LookPanic(u) PROVE Home[u] \in Node /\ PanicAt(Home[u])
  BY UserAssumption DEF LookPanic, PanicAt, End

\* What a step of a goroutine leaves to the others.
Alone(u) ==
    /\ UNCHANGED <<link, end>>
    /\ \A v \in User \ {u} :
          pc'[v] = pc[v] /\ held'[v] = held[v] /\ failed'[v] = failed[v]

\* After the second look a goroutine writes what is in the cache, or is done.
LEMMA Looks ==
    ASSUME Shape, NEW u \in User, Look(u)
    PROVE  /\ Alone(u)
           /\ \/ pc'[u] = "idle" /\ failed'[u] = None
              \/ /\ pc[u] = "look" /\ pc'[u] = "write" /\ failed'[u] = failed[u]
                 /\ cache[<<Home[u], Peer[u]>>] # None
                 /\ held'[u] = cache[<<Home[u], Peer[u]>>]
<1>1. \/ Return(u)
      \/ /\ Cached(u) # None
         /\ held' = [held EXCEPT ![u] = Cached(u)]
         /\ pc' = [pc EXCEPT ![u] = "write"]
         /\ UNCHANGED failed
  BY DEF Look
<1>2. UNCHANGED <<link, end>> /\ pc[u] = "look"
  BY DEF Look, streams
<1>3. QED
  BY <1>1, <1>2 DEF Return, Cached, Alone, Shape

\* After a chunk it goes on with the same stream, or is done.
LEMMA Writes ==
    ASSUME Shape, NEW u \in User, Write(u)
    PROVE  /\ Alone(u) /\ pc[u] = "write"
           /\ \/ pc'[u] = "idle" /\ failed'[u] = None
              \/ pc'[u] = "write" /\ held'[u] = held[u] /\ failed'[u] = failed[u]
<1>1. Return(u) \/ UNCHANGED <<pc, held, failed>>
  BY DEF Write
<1>2. UNCHANGED <<link, end>> /\ pc[u] = "write"
  BY DEF Write, streams
<1>3. QED
  BY <1>1, <1>2 DEF Return, Alone, Shape

\* After a failed write it needs another stream, or is done.
LEMMA WritesNot ==
    ASSUME Shape, NEW u \in User, WriteError(u)
    PROVE  /\ Alone(u) /\ pc[u] = "write"
           /\ \/ pc'[u] = "idle" /\ failed'[u] = None
              \/ pc'[u] = "open" /\ failed'[u] = held[u]
<1>1. \/ Return(u)
      \/ /\ failed' = [failed EXCEPT ![u] = held[u]]
         /\ held' = [held EXCEPT ![u] = None]
         /\ pc' = [pc EXCEPT ![u] = "open"]
  BY DEF WriteError
<1>2. UNCHANGED <<link, end>> /\ pc[u] = "write"
  BY DEF WriteError
<1>3. QED
  BY <1>1, <1>2 DEF Return, Alone, Shape

\* What NewStream leaves as it is, and what it adds.
LEMMA Opens ==
    ASSUME Shape, NEW u \in User, NEW s \in Stream, NEW direct \in BOOLEAN,
           NewStream(u, s, direct)
    PROVE  /\ link[s] = None /\ link'[s] # None
           /\ link'[s].from = Home[u] /\ link'[s].to = Peer[u]
           /\ end'[<<Home[u], s>>] = "opened"
           /\ pc'[u] = "handle" /\ held'[u] = s /\ pc[u] = "open"
           /\ failed' = failed
           /\ \A t \in Stream \ {s} : link'[t] = link[t]
           /\ \A n \in Node, t \in Stream \ {s} : end'[<<n, t>>] = end[<<n, t>>]
           /\ \A v \in User \ {u} : pc'[v] = pc[v] /\ held'[v] = held[v]
<1>1. [from |-> Home[u], to |-> Peer[u], direct |-> direct] \in Link
  BY UserAssumption DEF Link
<1>2. QED
  BY <1>1, UserAssumption, NobodyAssumption DEF NewStream, Shape, End

\* Every step keeps the shape of the state.
LEMMA ShapeStep ==
    ASSUME Shape, Ends, [Next]_vars
    PROVE  Shape'
PROOF
<1>1. ASSUME NEW n \in Node, NEW s \in Stream, HandleIncoming(n, s)
     PROVE  Shape'
  BY <1>1, UserAssumption, BoundAssumption, FrameAssumption,
    NobodyAssumption DEF HandleIncoming, Handle, Other, streams, users, Shape, End, EndState,
    Stage
<1>2. ASSUME NEW n \in Node, NEW s \in Stream, DropIncoming(n, s)
     PROVE  Shape'
  BY <1>2, UserAssumption, BoundAssumption, FrameAssumption,
    NobodyAssumption DEF DropIncoming, streams, users, Shape, End, EndState, Stage
<1>3. ASSUME NEW n \in Node, NEW s \in Stream, Read(n, s)
     PROVE  Shape'
  BY <1>3, UserAssumption, BoundAssumption, FrameAssumption, NobodyAssumption DEF Read,
    streams, users, Shape, End, EndState, Stage
<1>4. ASSUME NEW n \in Node, NEW s \in Stream, Leave(n, s)
     PROVE  Shape'
  BY <1>4, UserAssumption, BoundAssumption, FrameAssumption, NobodyAssumption DEF Leave,
    ReadFails, Gone, Other, streams, users, Shape, End, EndState, Stage
<1>5. ASSUME NEW u \in User, NEW f \in Frames[u], Send(u, f)
     PROVE  Shape'
  <2>1. Cached(u) \in Stream \cup {None} /\ f \in Frame
    BY UserAssumption, FrameAssumption DEF Cached, Shape
  <2>2. calls[u] + 1 \in 0 .. MaxCall
    BY <1>5, BoundAssumption DEF Send, Called, Shape
  <2>3. QED
    BY <1>5, <2>1, <2>2 DEF Send, Called, streams, Shape, End, EndState, Stage
<1>6. ASSUME NEW u \in User, Connected(u)
     PROVE  Shape'
  BY <1>6, UserAssumption, BoundAssumption, FrameAssumption, NobodyAssumption DEF Connected,
    Called, Cached, streams, users, Shape, End, EndState, Stage
<1>7. ASSUME NEW u \in User, NEW s \in Stream, NEW direct \in BOOLEAN, NewStream(u, s, direct)
     PROVE  Shape'
  <2>1. /\ [from |-> Home[u], to |-> Peer[u], direct |-> direct] \in Link
        /\ <<Home[u], s>> \in Node \X Stream /\ <<Peer[u], s>> \in Node \X Stream
    BY UserAssumption DEF Link
  <2>2. QED
    BY <1>7, <2>1 DEF NewStream, Shape, End, EndState, Stage
<1>8. ASSUME NEW u \in User, NewStreamError(u)
     PROVE  Shape'
  BY <1>8, UserAssumption, BoundAssumption, FrameAssumption,
    NobodyAssumption DEF NewStreamError, Return, streams, users, Shape, End, EndState, Stage
<1>9. ASSUME NEW u \in User, HandleOwn(u)
     PROVE  Shape'
  BY <1>9, UserAssumption, BoundAssumption, FrameAssumption, NobodyAssumption DEF HandleOwn,
    Handle, Other, streams, users, Shape, End, EndState, Stage
<1>10. ASSUME NEW u \in User, Look(u)
     PROVE  Shape'
  <2>1. Cached(u) \in Stream \cup {None}
    BY UserAssumption DEF Cached, Shape
  <2>2. /\ UNCHANGED <<calls, world, link, end, shut, cache>>
        /\ \/ /\ held' = [held EXCEPT ![u] = Cached(u)]
              /\ pc' = [pc EXCEPT ![u] = "write"]
              /\ UNCHANGED <<frame, failed>>
           \/ Return(u)
    BY <1>10 DEF Look, streams
  <2>3. CASE Return(u)
    BY <2>2, <2>3 DEF Return, Shape, End, EndState, Stage
  <2>4. CASE /\ held' = [held EXCEPT ![u] = Cached(u)]
             /\ pc' = [pc EXCEPT ![u] = "write"]
             /\ UNCHANGED <<frame, failed>>
    BY <2>1, <2>2, <2>4 DEF Shape, End, EndState, Stage
  <2>5. QED
    BY <2>2, <2>3, <2>4
<1>11. ASSUME NEW u \in User, LookPanic(u)
     PROVE  Shape'
  BY <1>11, UserAssumption, BoundAssumption, FrameAssumption, NobodyAssumption DEF LookPanic,
    Cached, streams, users, Shape, End, EndState, Stage
<1>12. ASSUME NEW u \in User, Write(u)
     PROVE  Shape'
  <2>1. /\ UNCHANGED <<calls, world, link, end, cache>>
        /\ shut' = shut
        /\ \/ Return(u)
           \/ UNCHANGED <<pc, frame, held, failed>>
    BY <1>12 DEF Write, streams
  <2>2. CASE Return(u)
    BY <2>1, <2>2, UserAssumption DEF Return, Shape, End, EndState, Stage
  <2>3. CASE UNCHANGED <<pc, frame, held, failed>>
    BY <2>1, <2>3, UserAssumption DEF Shape, End, EndState, Stage
  <2>4. QED
    BY <2>1, <2>2, <2>3
<1>13. ASSUME NEW u \in User, WriteError(u)
     PROVE  Shape'
  <2>1. /\ UNCHANGED <<calls, world, link, end, cache>>
        /\ held[u] \in Stream
        /\ shut' \subseteq End
        /\ \/ Return(u)
           \/ /\ failed' = [failed EXCEPT ![u] = held[u]]
              /\ held' = [held EXCEPT ![u] = None]
              /\ pc' = [pc EXCEPT ![u] = "open"]
              /\ UNCHANGED frame
    BY <1>13, UserAssumption DEF WriteError, Close, Ends, Writing, Shape, End
  <2>2. CASE Return(u)
    BY <2>1, <2>2, UserAssumption DEF Return, Shape, End, EndState, Stage
  <2>3. CASE /\ failed' = [failed EXCEPT ![u] = held[u]]
             /\ held' = [held EXCEPT ![u] = None]
             /\ pc' = [pc EXCEPT ![u] = "open"]
             /\ UNCHANGED frame
    BY <2>1, <2>3, UserAssumption DEF Shape, End, EndState, Stage
  <2>4. QED
    BY <2>1, <2>2, <2>3
<1>14. ASSUME NEW s \in Stream, Break(s)
     PROVE  Shape'
  BY <1>14, UserAssumption, BoundAssumption, FrameAssumption, NobodyAssumption DEF Break,
    streams, users, Shape, End, EndState, Stage
<1>15. CASE UNCHANGED vars
  BY <1>15 DEF vars, streams, users, Shape, End, EndState, Stage
<1>16. QED
  BY <1>1, <1>2, <1>3, <1>4, <1>5, <1>6, <1>7, <1>8, <1>9, <1>10, <1>11,
    <1>12, <1>13, <1>14, <1>15 DEF Next, ReadStep, Arrive, UserStep

\* Ends are ends of streams.
LEMMA LinkedStep ==
    ASSUME Shape, Linked, Handling, [Next]_vars
    PROVE  Linked'
PROOF
<1>0a. /\ cache \in [Node \X Node -> Stream \cup {None}] /\ None \notin Stream
      /\ link \in [Stream -> Link \cup {None}] /\ None \notin Link
      /\ end \in [Node \X Stream -> EndState]
      /\ pc \in [User -> Stage]
      /\ held \in [User -> Stream \cup {None}] /\ failed \in [User -> Stream \cup {None}]
      /\ Home \in [User -> Node] /\ Peer \in [User -> Node] /\ \A u \in User : Home[u] # Peer[u]
  BY UserAssumption, NobodyAssumption DEF Shape, End
<1>1. ASSUME NEW n \in Node, NEW s \in Stream, HandleIncoming(n, s)
     PROVE  Linked'
  BY <1>1, <1>0a DEF HandleIncoming, Handle, Other, streams, users, Linked, Handling, Link
<1>2. ASSUME NEW n \in Node, NEW s \in Stream, DropIncoming(n, s)
     PROVE  Linked'
  BY <1>2, <1>0a DEF DropIncoming, streams, users, Linked, Handling, Link
<1>3. ASSUME NEW n \in Node, NEW s \in Stream, Read(n, s)
     PROVE  Linked'
  BY <1>3, <1>0a DEF Read, streams, users, Linked, Handling, Link
<1>4. ASSUME NEW n \in Node, NEW s \in Stream, Leave(n, s)
     PROVE  Linked'
  BY <1>4, <1>0a DEF Leave, ReadFails, Gone, Other, streams, users, Linked, Handling, Link
<1>5. ASSUME NEW u \in User, NEW f \in Frames[u], Send(u, f)
     PROVE  Linked'
  BY <1>5, <1>0a DEF Send, Called, Cached, streams, users, Linked, Handling, Link
<1>6. ASSUME NEW u \in User, Connected(u)
     PROVE  Linked'
  BY <1>6, <1>0a DEF Connected, Called, Cached, streams, users, Linked, Handling, Link
<1>7. ASSUME NEW u \in User, NEW s \in Stream, NEW direct \in BOOLEAN, NewStream(u, s, direct)
     PROVE  Linked'
  BY <1>7, <1>0a DEF NewStream, streams, users, Linked, Handling, Link
<1>8. ASSUME NEW u \in User, NewStreamError(u)
     PROVE  Linked'
  BY <1>8, <1>0a DEF NewStreamError, Return, streams, users, Linked, Handling, Link
<1>9. ASSUME NEW u \in User, HandleOwn(u)
     PROVE  Linked'
  BY <1>9, <1>0a DEF HandleOwn, Handle, Other, streams, users, Linked, Handling, Link
<1>10. ASSUME NEW u \in User, Look(u)
     PROVE  Linked'
  BY <1>10, <1>0a DEF Look, Cached, Return, streams, users, Linked, Handling, Link
<1>11. ASSUME NEW u \in User, LookPanic(u)
     PROVE  Linked'
  <2>1. PanicAt(Home[u])
    BY <1>11, Panic
  <2>2. QED
    BY <2>1 DEF PanicAt, Linked
<1>12. ASSUME NEW u \in User, Write(u)
     PROVE  Linked'
  BY <1>12, <1>0a DEF Write, Return, streams, users, Linked, Handling, Link
<1>13. ASSUME NEW u \in User, WriteError(u)
     PROVE  Linked'
  BY <1>13, <1>0a DEF WriteError, Close, Return, streams, users, Linked, Handling, Link
<1>14. ASSUME NEW s \in Stream, Break(s)
     PROVE  Linked'
  BY <1>14, <1>0a DEF Break, streams, users, Linked, Handling, Link
<1>15. CASE UNCHANGED vars
  BY <1>15 DEF vars, streams, users, Linked, Handling, Link
<1>16. QED
  BY <1>1, <1>2, <1>3, <1>4, <1>5, <1>6, <1>7, <1>8, <1>9, <1>10, <1>11,
    <1>12, <1>13, <1>14, <1>15 DEF Next, ReadStep, Arrive, UserStep

\* Every stream is handled by the goroutine that opened it.
LEMMA HandlingStep ==
    ASSUME Shape, Linked, Handling, [Next]_vars
    PROVE  Handling'
PROOF
<1>0a. /\ cache \in [Node \X Node -> Stream \cup {None}] /\ None \notin Stream
      /\ link \in [Stream -> Link \cup {None}] /\ None \notin Link
      /\ end \in [Node \X Stream -> EndState]
      /\ pc \in [User -> Stage]
      /\ held \in [User -> Stream \cup {None}] /\ failed \in [User -> Stream \cup {None}]
      /\ Home \in [User -> Node] /\ Peer \in [User -> Node] /\ \A u \in User : Home[u] # Peer[u]
  BY UserAssumption, NobodyAssumption DEF Shape, End
<1>1. ASSUME NEW n \in Node, NEW s \in Stream, HandleIncoming(n, s)
     PROVE  Handling'
  BY <1>1, <1>0a DEF HandleIncoming, Handle, Other, streams, users, Linked, Handling
<1>2. ASSUME NEW n \in Node, NEW s \in Stream, DropIncoming(n, s)
     PROVE  Handling'
  BY <1>2, <1>0a DEF DropIncoming, streams, users, Linked, Handling
<1>3. ASSUME NEW n \in Node, NEW s \in Stream, Read(n, s)
     PROVE  Handling'
  BY <1>3, <1>0a DEF Read, streams, users, Linked, Handling
<1>4. ASSUME NEW n \in Node, NEW s \in Stream, Leave(n, s)
     PROVE  Handling'
  BY <1>4, <1>0a DEF Leave, ReadFails, Gone, Other, streams, users, Linked, Handling
<1>5. ASSUME NEW u \in User, NEW f \in Frames[u], Send(u, f)
     PROVE  Handling'
  BY <1>5, <1>0a DEF Send, Called, Cached, streams, users, Linked, Handling
<1>6. ASSUME NEW u \in User, Connected(u)
     PROVE  Handling'
  BY <1>6, <1>0a DEF Connected, Called, Cached, streams, users, Linked, Handling
<1>7. ASSUME NEW u \in User, NEW s \in Stream, NEW direct \in BOOLEAN, NewStream(u, s, direct)
     PROVE  Handling'
  <2>1. /\ link[s] = None /\ link'[s] # None
        /\ link'[s].from = Home[u] /\ link'[s].to = Peer[u]
        /\ end'[<<Home[u], s>>] = "opened"
        /\ pc'[u] = "handle" /\ held'[u] = s /\ pc[u] = "open"
        /\ failed' = failed
        /\ \A t \in Stream \ {s} : link'[t] = link[t]
        /\ \A n \in Node, t \in Stream \ {s} : end'[<<n, t>>] = end[<<n, t>>]
        /\ \A v \in User \ {u} : pc'[v] = pc[v] /\ held'[v] = held[v]
    BY <1>7, Opens
  <2>2. ASSUME NEW v \in User \ {u}, pc[v] = "handle"
        PROVE  held[v] \in Stream \ {s}
    <3>1. held[v] # None /\ link[held[v]] # None
      BY <2>2 DEF Handling
    <3>2. held[v] # s
      BY <2>1, <3>1
    <3>3. QED
      BY <1>0a, <3>1, <3>2
  <2>3. ASSUME NEW v \in User \ {u}, pc'[v] = "handle"
        PROVE  /\ held'[v] # None
               /\ link'[held'[v]] # None
               /\ link'[held'[v]].from = Home[v] /\ link'[held'[v]].to = Peer[v]
               /\ end'[<<Home[v], held'[v]>>] = "opened"
    BY <2>1, <2>2, <2>3, <1>0a DEF Handling
  <2>4. QED
    BY <2>1, <2>2, <2>3, <1>0a, SMTT(20) DEF Handling
<1>8. ASSUME NEW u \in User, NewStreamError(u)
     PROVE  Handling'
  BY <1>8, <1>0a DEF NewStreamError, Return, streams, users, Linked, Handling
<1>9. ASSUME NEW u \in User, HandleOwn(u)
     PROVE  Handling'
  BY <1>9, <1>0a DEF HandleOwn, Handle, Other, streams, users, Linked, Handling
<1>10. ASSUME NEW u \in User, Look(u)
     PROVE  Handling'
  <2>1. /\ Alone(u)
        /\ \/ pc'[u] = "idle" /\ failed'[u] = None
           \/ /\ pc[u] = "look" /\ pc'[u] = "write" /\ failed'[u] = failed[u]
              /\ cache[<<Home[u], Peer[u]>>] # None
              /\ held'[u] = cache[<<Home[u], Peer[u]>>]
    BY <1>10, Looks
  <2>2. pc'[u] # "handle"
    BY <2>1
  <2>3. QED
    BY <2>1, <2>2, <1>0a DEF Alone, Handling
<1>11. ASSUME NEW u \in User, LookPanic(u)
     PROVE  Handling'
  <2>1. PanicAt(Home[u])
    BY <1>11, Panic
  <2>2. QED
    BY <2>1, <1>0a DEF PanicAt, Handling
<1>12. ASSUME NEW u \in User, Write(u)
     PROVE  Handling'
  BY <1>12, <1>0a, Writes DEF Alone, Handling
<1>13. ASSUME NEW u \in User, WriteError(u)
     PROVE  Handling'
  BY <1>13, <1>0a, WritesNot DEF Alone, Handling
<1>14. ASSUME NEW s \in Stream, Break(s)
     PROVE  Handling'
  BY <1>14, <1>0a DEF Break, streams, users, Linked, Handling
<1>15. CASE UNCHANGED vars
  BY <1>15 DEF vars, streams, users, Linked, Handling
<1>16. QED
  BY <1>1, <1>2, <1>3, <1>4, <1>5, <1>6, <1>7, <1>8, <1>9, <1>10, <1>11,
    <1>12, <1>13, <1>14, <1>15 DEF Next, ReadStep, Arrive, UserStep

\* Only streams that were handled are written to.
LEMMA WritingStep ==
    ASSUME Shape, Ends, Leads, [Next]_vars
    PROVE  Writing'
PROOF
<1>0a. /\ cache \in [Node \X Node -> Stream \cup {None}] /\ None \notin Stream
      /\ link \in [Stream -> Link \cup {None}] /\ None \notin Link
      /\ end \in [Node \X Stream -> EndState]
      /\ pc \in [User -> Stage]
      /\ held \in [User -> Stream \cup {None}] /\ failed \in [User -> Stream \cup {None}]
      /\ Home \in [User -> Node] /\ Peer \in [User -> Node] /\ \A u \in User : Home[u] # Peer[u]
  BY UserAssumption, NobodyAssumption DEF Shape, End
<1>1. ASSUME NEW n \in Node, NEW s \in Stream, HandleIncoming(n, s)
     PROVE  Writing'
  BY <1>1, <1>0a DEF HandleIncoming, Handle, Other, streams, users, Ends, Linked, Handling,
    Writing, Leads, Stage, EndState
<1>2. ASSUME NEW n \in Node, NEW s \in Stream, DropIncoming(n, s)
     PROVE  Writing'
  BY <1>2, <1>0a DEF DropIncoming, streams, users, Ends, Linked, Handling, Writing, Leads,
    Stage, EndState
<1>3. ASSUME NEW n \in Node, NEW s \in Stream, Read(n, s)
     PROVE  Writing'
  BY <1>3, <1>0a DEF Read, streams, users, Ends, Linked, Handling, Writing, Leads, Stage,
    EndState
<1>4. ASSUME NEW n \in Node, NEW s \in Stream, Leave(n, s)
     PROVE  Writing'
  BY <1>4, <1>0a DEF Leave, ReadFails, Gone, Other, streams, users, Ends, Linked, Handling,
    Writing, Leads, Stage, EndState
<1>5. ASSUME NEW u \in User, NEW f \in Frames[u], Send(u, f)
     PROVE  Writing'
  BY <1>5, <1>0a DEF Send, Called, Cached, streams, users, Ends, Linked, Handling, Writing,
    Leads, Stage, EndState
<1>6. ASSUME NEW u \in User, Connected(u)
     PROVE  Writing'
  BY <1>6, <1>0a DEF Connected, Called, Cached, streams, users, Ends, Linked, Handling,
    Writing, Leads, Stage, EndState
<1>7. ASSUME NEW u \in User, NEW s \in Stream, NEW direct \in BOOLEAN, NewStream(u, s, direct)
     PROVE  Writing'
  <2>1. /\ link[s] = None /\ link'[s] # None
        /\ link'[s].from = Home[u] /\ link'[s].to = Peer[u]
        /\ end'[<<Home[u], s>>] = "opened"
        /\ pc'[u] = "handle" /\ held'[u] = s /\ pc[u] = "open"
        /\ failed' = failed
        /\ \A t \in Stream \ {s} : link'[t] = link[t]
        /\ \A n \in Node, t \in Stream \ {s} : end'[<<n, t>>] = end[<<n, t>>]
        /\ \A v \in User \ {u} : pc'[v] = pc[v] /\ held'[v] = held[v]
    BY <1>7, Opens
  <2>2. \A v \in User : failed[v] # None => failed[v] \in Stream \ {s}
    BY <2>1, <1>0a DEF Ends, Writing
  <2>3. ASSUME NEW v \in User, pc'[v] = "write"
        PROVE  v # u /\ held[v] \in Stream \ {s}
    <3>1. v # u /\ pc[v] = "write"
      BY <2>1, <2>3
    <3>2. held[v] # None /\ link[held[v]] # None
      BY <3>1 DEF Ends, Writing
    <3>3. QED
      BY <1>0a, <2>1, <3>1, <3>2
  <2>4. \A v \in User : pc'[v] = "idle" => v # u
    BY <2>1
  <2>5. QED
    BY <2>1, <2>2, <2>3, <2>4, <1>0a DEF Ends, Writing
<1>8. ASSUME NEW u \in User, NewStreamError(u)
     PROVE  Writing'
  BY <1>8, <1>0a DEF NewStreamError, Return, streams, users, Ends, Linked, Handling, Writing,
    Leads, Stage, EndState
<1>9. ASSUME NEW u \in User, HandleOwn(u)
     PROVE  Writing'
  BY <1>9, <1>0a DEF HandleOwn, Handle, Other, streams, users, Ends, Linked, Handling,
    Writing, Leads, Stage, EndState
<1>10. ASSUME NEW u \in User, Look(u)
     PROVE  Writing'
  <2>1. /\ Alone(u)
        /\ \/ pc'[u] = "idle" /\ failed'[u] = None
           \/ /\ pc[u] = "look" /\ pc'[u] = "write" /\ failed'[u] = failed[u]
              /\ cache[<<Home[u], Peer[u]>>] # None
              /\ held'[u] = cache[<<Home[u], Peer[u]>>]
    BY <1>10, Looks
  <2>2. \A v \in User \ {u} : pc'[v] = pc[v] /\ held'[v] = held[v] /\ failed'[v] = failed[v]
    BY <2>1 DEF Alone
  <2>3. UNCHANGED <<link, end>>
    BY <2>1 DEF Alone
  <2>4. pc'[u] = "write" => /\ link[held'[u]] # None /\ held'[u] # None
                            /\ end[<<Home[u], held'[u]>>] = "reading"
    BY <2>1, <1>0a DEF Leads
  <2>5. failed'[u] # None => pc'[u] # "idle" /\ failed'[u] = failed[u]
    BY <2>1
  <2>6. QED
    BY <2>2, <2>3, <2>4, <2>5, <1>0a, SMTT(20) DEF Ends, Writing
<1>11. ASSUME NEW u \in User, LookPanic(u)
     PROVE  Writing'
  <2>1. PanicAt(Home[u])
    BY <1>11, Panic
  <2>2. QED
    BY <2>1, <1>0a DEF PanicAt, Ends, Writing
<1>12. ASSUME NEW u \in User, Write(u)
     PROVE  Writing'
  <2>1. /\ Alone(u) /\ pc[u] = "write"
        /\ \/ pc'[u] = "idle" /\ failed'[u] = None
           \/ pc'[u] = "write" /\ held'[u] = held[u] /\ failed'[u] = failed[u]
    BY <1>12, Writes
  <2>2. UNCHANGED <<link, end>>
    BY <2>1 DEF Alone
  <2>3. \A v \in User \ {u} : pc'[v] = pc[v] /\ held'[v] = held[v] /\ failed'[v] = failed[v]
    BY <2>1 DEF Alone
  <2>4. QED
    BY <2>1, <2>2, <2>3 DEF Ends, Writing
<1>13. ASSUME NEW u \in User, WriteError(u)
     PROVE  Writing'
  <2>1. /\ Alone(u) /\ pc[u] = "write"
        /\ \/ pc'[u] = "idle" /\ failed'[u] = None
           \/ pc'[u] = "open" /\ failed'[u] = held[u]
    BY <1>13, WritesNot
  <2>2. UNCHANGED <<link, end>>
    BY <2>1 DEF Alone
  <2>3. \A v \in User \ {u} : pc'[v] = pc[v] /\ held'[v] = held[v] /\ failed'[v] = failed[v]
    BY <2>1 DEF Alone
  <2>4. QED
    BY <2>1, <2>2, <2>3 DEF Ends, Writing
<1>14. ASSUME NEW s \in Stream, Break(s)
     PROVE  Writing'
  BY <1>14, <1>0a DEF Break, streams, users, Ends, Linked, Handling, Writing, Leads, Stage,
    EndState
<1>15. CASE UNCHANGED vars
  BY <1>15 DEF vars, streams, users, Ends, Linked, Handling, Writing, Leads, Stage, EndState
<1>16. QED
  BY <1>1, <1>2, <1>3, <1>4, <1>5, <1>6, <1>7, <1>8, <1>9, <1>10, <1>11,
    <1>12, <1>13, <1>14, <1>15 DEF Next, ReadStep, Arrive, UserStep

\* handle keeps what leads to a peer.
LEMMA HandleLeads ==
    ASSUME NEW n \in Node, NEW s \in Stream, Shape, Leads,
           link[s] # None, link[s].from # link[s].to, n = link[s].from \/ n = link[s].to,
           link[s].from \in Node, link[s].to \in Node, Handle(n, s)
    PROVE  Leads'
PROOF
<1> DEFINE e == <<n, Other(n, s)>>
<1>1. cache \in [Node \X Node -> Stream \cup {None}] /\ end \in [Node \X Stream -> EndState]
  BY DEF Shape, End
<1>2. /\ link' = link
      /\ cache' = cache \/ cache' = [cache EXCEPT ![e] = s]
      /\ end' = [end EXCEPT ![<<n, s>>] = "reading"]
  BY DEF Handle
<1>3. Other(n, s) \in Node /\ e \in Node \X Node /\ Other(n, s) # n
  BY DEF Other
<1>4. ASSUME NEW x \in Node, NEW y \in Node, cache'[<<x, y>>] # None
      PROVE  /\ link[cache'[<<x, y>>]] # None
             /\ \/ link[cache'[<<x, y>>]].from = x /\ link[cache'[<<x, y>>]].to = y
                \/ link[cache'[<<x, y>>]].from = y /\ link[cache'[<<x, y>>]].to = x
             /\ end'[<<x, cache'[<<x, y>>]>>] = "reading"
  <2>1. CASE cache'[<<x, y>>] = cache[<<x, y>>]
    BY <1>1, <1>2, <1>4, <2>1 DEF Leads
  <2>2. CASE <<x, y>> = e /\ cache'[<<x, y>>] = s
    BY <1>1, <1>2, <1>3, <2>2 DEF Other
  <2>3. QED
    BY <1>1, <1>2, <1>3, <2>1, <2>2
<1>5. QED
  BY <1>2, <1>4 DEF Leads

\* What goes into the cache is read, and what is no longer read leaves it.
LEMMA LeadsStep ==
    ASSUME Shape, Ends, Leads, [Next]_vars
    PROVE  Leads'
PROOF
<1>0a. cache \in [Node \X Node -> Stream \cup {None}] /\ None \notin Stream
  BY NobodyAssumption DEF Shape
<1>0b. end \in [Node \X Stream -> EndState]
  BY DEF Shape, End
<1>0c. \A s \in Stream : link[s] # None =>
          /\ link[s].from # link[s].to /\ link[s].from \in Node /\ link[s].to \in Node
  BY NobodyAssumption DEF Shape, Link, Ends, Linked
<1>1. ASSUME NEW n \in Node, NEW s \in Stream, HandleIncoming(n, s)
     PROVE  Leads'
  <2>1. link[s] # None /\ (n = link[s].from \/ n = link[s].to)
    BY <1>1 DEF HandleIncoming, Ends, Linked
  <2>2. QED
    BY <1>1, <2>1, <1>0c, HandleLeads DEF HandleIncoming
<1>2. ASSUME NEW n \in Node, NEW s \in Stream, DropIncoming(n, s)
     PROVE  Leads'
  BY <1>2, <1>0a, <1>0b DEF DropIncoming, streams, users, Leads
<1>3. ASSUME NEW n \in Node, NEW s \in Stream, Read(n, s)
     PROVE  Leads'
  BY <1>3, <1>0a, <1>0b DEF Read, streams, users, Leads
<1>4. ASSUME NEW n \in Node, NEW s \in Stream, Leave(n, s)
     PROVE  Leads'
  <2> DEFINE e == <<n, Other(n, s)>>
  <2>1. /\ link' = link
        /\ cache' = cache \/ cache' = [cache EXCEPT ![e] = None]
        /\ cache[e] = s => cache' = [cache EXCEPT ![e] = None]
        /\ end' = [end EXCEPT ![<<n, s>>] = "gone"]
        /\ end[<<n, s>>] = "reading"
    BY <1>4 DEF Leave, Gone, ReadFails
  <2> HIDE DEF e
  <2>2. \A x, y \in Node :
           \/ cache'[<<x, y>>] = None
           \/ cache'[<<x, y>>] = cache[<<x, y>>] /\ (<<x, y>> = e => cache[e] # s)
    BY <2>1, <1>0a
  <2>3. ASSUME NEW x \in Node, NEW y \in Node, cache'[<<x, y>>] # None
        PROVE  end'[<<x, cache'[<<x, y>>]>>] = "reading"
    <3>1. cache'[<<x, y>>] = cache[<<x, y>>] /\ cache[<<x, y>>] \in Stream
      BY <2>2, <2>3, <1>0a
    <3>2. end[<<x, cache[<<x, y>>]>>] = "reading"
      BY <2>3, <3>1 DEF Leads
    <3>3. ~(x = n /\ cache[<<x, y>>] = s)
      <4>1. SUFFICES ASSUME x = n, cache[<<x, y>>] = s PROVE FALSE
        OBVIOUS
      <4>2. y = Other(n, s)
        <5>1. cache[<<n, y>>] # None /\ cache[<<n, y>>] = s
          BY <2>3, <3>1, <4>1
        <5>2. \/ link[s].from = n /\ link[s].to = y
              \/ link[s].from = y /\ link[s].to = n
          BY <5>1 DEF Leads
        <5>3. link[s] # None
          BY <5>1 DEF Leads
        <5>4. QED
          BY <5>2, <5>3, <1>0c DEF Other
      <4>3. QED
        BY <2>2, <2>3, <3>1, <4>1, <4>2 DEF e
    <3>4. QED
      BY <2>1, <3>1, <3>2, <3>3, <1>0b
  <2>4. QED
    BY <2>1, <2>2, <2>3 DEF Leads
<1>5. ASSUME NEW u \in User, NEW f \in Frames[u], Send(u, f)
     PROVE  Leads'
  BY <1>5, <1>0a, <1>0b DEF Send, Called, Cached, streams, users, Leads
<1>6. ASSUME NEW u \in User, Connected(u)
     PROVE  Leads'
  BY <1>6, <1>0a, <1>0b DEF Connected, Called, Cached, streams, users, Leads
<1>7. ASSUME NEW u \in User, NEW s \in Stream, NEW direct \in BOOLEAN, NewStream(u, s, direct)
     PROVE  Leads'
  BY <1>7, <1>0a, <1>0b DEF NewStream, streams, users, Leads
<1>8. ASSUME NEW u \in User, NewStreamError(u)
     PROVE  Leads'
  BY <1>8, <1>0a, <1>0b DEF NewStreamError, Return, streams, users, Leads
<1>9. ASSUME NEW u \in User, HandleOwn(u)
     PROVE  Leads'
  <2>1. /\ held[u] \in Stream /\ Home[u] \in Node /\ Handle(Home[u], held[u])
        /\ link[held[u]] # None /\ link[held[u]].from = Home[u]
    BY <1>9, UserAssumption DEF HandleOwn, Ends, Handling, Shape
  <2>2. QED
    BY <2>1, <1>0c, HandleLeads
<1>10. ASSUME NEW u \in User, Look(u)
     PROVE  Leads'
  BY <1>10, <1>0a, <1>0b DEF Look, Cached, Return, streams, users, Leads
<1>11. ASSUME NEW u \in User, LookPanic(u)
     PROVE  Leads'
  <2>1. /\ link' = link
        /\ \A x, y \in Node :
              \/ cache'[<<x, y>>] = None
              \/ x # Home[u] /\ cache'[<<x, y>>] = cache[<<x, y>>]
        /\ \A x \in Node, s \in Stream : x # Home[u] => end'[<<x, s>>] = end[<<x, s>>]
    BY <1>11 DEF LookPanic, End
  <2>2. QED
    BY <2>1, <1>0a DEF Leads
<1>12. ASSUME NEW u \in User, Write(u)
     PROVE  Leads'
  BY <1>12, <1>0a, <1>0b DEF Write, Return, streams, users, Leads
<1>13. ASSUME NEW u \in User, WriteError(u)
     PROVE  Leads'
  BY <1>13, <1>0a, <1>0b DEF WriteError, Close, Return, streams, users, Leads
<1>14. ASSUME NEW s \in Stream, Break(s)
     PROVE  Leads'
  BY <1>14, <1>0a, <1>0b DEF Break, streams, users, Leads
<1>15. CASE UNCHANGED vars
  BY <1>15 DEF vars, streams, users, Leads
<1>16. QED
  BY <1>1, <1>2, <1>3, <1>4, <1>5, <1>6, <1>7, <1>8, <1>9, <1>10, <1>11,
    <1>12, <1>13, <1>14, <1>15 DEF Next, ReadStep, Arrive, UserStep

\* A goroutine that opens a stream goes on to handle it.
LEMMA OwnIsHandledStep ==
    ASSUME Shape, Ends, OwnIsHandled, [Next]_vars
    PROVE  OwnIsHandled'
PROOF
<1>0a. /\ cache \in [Node \X Node -> Stream \cup {None}] /\ None \notin Stream
      /\ link \in [Stream -> Link \cup {None}] /\ None \notin Link
      /\ end \in [Node \X Stream -> EndState]
      /\ pc \in [User -> Stage]
      /\ held \in [User -> Stream \cup {None}] /\ failed \in [User -> Stream \cup {None}]
      /\ Home \in [User -> Node] /\ Peer \in [User -> Node] /\ \A u \in User : Home[u] # Peer[u]
  BY UserAssumption, NobodyAssumption DEF Shape, End
<1>1. ASSUME NEW n \in Node, NEW s \in Stream, HandleIncoming(n, s)
     PROVE  OwnIsHandled'
  BY <1>1, <1>0a DEF HandleIncoming, Handle, Other, streams, users, Ends, Linked, Handling,
    OwnIsHandled
<1>2. ASSUME NEW n \in Node, NEW s \in Stream, DropIncoming(n, s)
     PROVE  OwnIsHandled'
  BY <1>2, <1>0a DEF DropIncoming, streams, users, Ends, Linked, Handling, OwnIsHandled
<1>3. ASSUME NEW n \in Node, NEW s \in Stream, Read(n, s)
     PROVE  OwnIsHandled'
  BY <1>3, <1>0a DEF Read, streams, users, Ends, Linked, Handling, OwnIsHandled
<1>4. ASSUME NEW n \in Node, NEW s \in Stream, Leave(n, s)
     PROVE  OwnIsHandled'
  BY <1>4, <1>0a DEF Leave, ReadFails, Gone, Other, streams, users, Ends, Linked, Handling,
    OwnIsHandled
<1>5. ASSUME NEW u \in User, NEW f \in Frames[u], Send(u, f)
     PROVE  OwnIsHandled'
  BY <1>5, <1>0a DEF Send, Called, Cached, streams, users, Ends, Linked, Handling, OwnIsHandled
<1>6. ASSUME NEW u \in User, Connected(u)
     PROVE  OwnIsHandled'
  BY <1>6, <1>0a DEF Connected, Called, Cached, streams, users, Ends, Linked, Handling,
    OwnIsHandled
<1>7. ASSUME NEW u \in User, NEW s \in Stream, NEW direct \in BOOLEAN, NewStream(u, s, direct)
     PROVE  OwnIsHandled'
  BY <1>7, <1>0a DEF NewStream, streams, users, Ends, Linked, Handling, OwnIsHandled
<1>8. ASSUME NEW u \in User, NewStreamError(u)
     PROVE  OwnIsHandled'
  BY <1>8, <1>0a DEF NewStreamError, Return, streams, users, Ends, Linked, Handling, OwnIsHandled
<1>9. ASSUME NEW u \in User, HandleOwn(u)
     PROVE  OwnIsHandled'
  BY <1>9, <1>0a DEF HandleOwn, Handle, Other, streams, users, Ends, Linked, Handling,
    OwnIsHandled
<1>10. ASSUME NEW u \in User, Look(u)
     PROVE  OwnIsHandled'
  BY <1>10, <1>0a DEF Look, Cached, Return, streams, users, Ends, Linked, Handling, OwnIsHandled
<1>11. ASSUME NEW u \in User, LookPanic(u)
     PROVE  OwnIsHandled'
  <2>1. PanicAt(Home[u])
    BY <1>11, Panic
  <2>2. ASSUME NEW n \in Node, NEW s \in Stream, end'[<<n, s>>] = "opened"
        PROVE  \E v \in User : Home[v] = n /\ pc'[v] = "handle" /\ held'[v] = s
    <3>1. n # Home[u] /\ end[<<n, s>>] = "opened"
      BY <2>1, <2>2, <1>0a DEF PanicAt, Ends, Linked
    <3>2. PICK v \in User : Home[v] = n /\ pc[v] = "handle" /\ held[v] = s
      BY <3>1 DEF OwnIsHandled
    <3>3. QED
      BY <2>1, <3>1, <3>2 DEF PanicAt
  <2>3. QED
    BY <2>2 DEF OwnIsHandled
<1>12. ASSUME NEW u \in User, Write(u)
     PROVE  OwnIsHandled'
  BY <1>12, <1>0a DEF Write, Return, streams, users, Ends, Linked, Handling, OwnIsHandled
<1>13. ASSUME NEW u \in User, WriteError(u)
     PROVE  OwnIsHandled'
  BY <1>13, <1>0a DEF WriteError, Close, Return, streams, users, Ends, Linked, Handling,
    OwnIsHandled
<1>14. ASSUME NEW s \in Stream, Break(s)
     PROVE  OwnIsHandled'
  BY <1>14, <1>0a DEF Break, streams, users, Ends, Linked, Handling, OwnIsHandled
<1>15. CASE UNCHANGED vars
  BY <1>15 DEF vars, streams, users, Ends, Linked, Handling, OwnIsHandled
<1>16. QED
  BY <1>1, <1>2, <1>3, <1>4, <1>5, <1>6, <1>7, <1>8, <1>9, <1>10, <1>11,
    <1>12, <1>13, <1>14, <1>15 DEF Next, ReadStep, Arrive, UserStep

\* What failed does not come back into the cache.
LEMMA AfreshStep ==
    ASSUME Shape, Ends, Leads, LookIsAfresh, RetryIsAfresh, [Next]_vars
    PROVE  (LookIsAfresh /\ RetryIsAfresh)'
PROOF
<1>0a. /\ cache \in [Node \X Node -> Stream \cup {None}] /\ None \notin Stream
      /\ link \in [Stream -> Link \cup {None}] /\ None \notin Link
      /\ end \in [Node \X Stream -> EndState]
      /\ pc \in [User -> Stage]
      /\ held \in [User -> Stream \cup {None}] /\ failed \in [User -> Stream \cup {None}]
      /\ Home \in [User -> Node] /\ Peer \in [User -> Node] /\ \A u \in User : Home[u] # Peer[u]
  BY UserAssumption, NobodyAssumption DEF Shape, End
<1>1. ASSUME NEW n \in Node, NEW s \in Stream, HandleIncoming(n, s)
     PROVE  (LookIsAfresh /\ RetryIsAfresh)'
  BY <1>1, <1>0a DEF HandleIncoming, Handle, Other, streams, users, Ends, Linked, Handling,
    Writing, LookIsAfresh, RetryIsAfresh
<1>2. ASSUME NEW n \in Node, NEW s \in Stream, DropIncoming(n, s)
     PROVE  (LookIsAfresh /\ RetryIsAfresh)'
  BY <1>2, <1>0a DEF DropIncoming, streams, users, Ends, Linked, Handling, Writing,
    LookIsAfresh, RetryIsAfresh
<1>3. ASSUME NEW n \in Node, NEW s \in Stream, Read(n, s)
     PROVE  (LookIsAfresh /\ RetryIsAfresh)'
  BY <1>3, <1>0a DEF Read, streams, users, Ends, Linked, Handling, Writing, LookIsAfresh,
    RetryIsAfresh
<1>4. ASSUME NEW n \in Node, NEW s \in Stream, Leave(n, s)
     PROVE  (LookIsAfresh /\ RetryIsAfresh)'
  <2>1. /\ UNCHANGED <<pc, held, failed>>
        /\ \/ cache' = cache
           \/ cache' = [cache EXCEPT ![<<n, Other(n, s)>>] = None]
    BY <1>4 DEF Leave, Gone, users
  <2>2. \A x, y \in Node : cache'[<<x, y>>] = None \/ cache'[<<x, y>>] = cache[<<x, y>>]
    BY <2>1, <1>0a
  <2>3. QED
    BY <2>1, <2>2, <1>0a DEF LookIsAfresh, RetryIsAfresh
<1>5. ASSUME NEW u \in User, NEW f \in Frames[u], Send(u, f)
     PROVE  (LookIsAfresh /\ RetryIsAfresh)'
  <2>1. /\ UNCHANGED <<cache, failed>> /\ pc[u] = "idle" /\ pc'[u] # "look"
        /\ \A v \in User \ {u} : pc'[v] = pc[v] /\ held'[v] = held[v]
    BY <1>5, <1>0a DEF Send
  <2>2. failed[u] = None
    BY <2>1 DEF Ends, Writing
  <2>3. QED
    BY <2>1, <2>2 DEF LookIsAfresh, RetryIsAfresh
<1>6. ASSUME NEW u \in User, Connected(u)
     PROVE  (LookIsAfresh /\ RetryIsAfresh)'
  BY <1>6, <1>0a DEF Connected, Called, Cached, streams, users, Ends, Linked, Handling,
    Writing, LookIsAfresh, RetryIsAfresh
<1>7. ASSUME NEW u \in User, NEW s \in Stream, NEW direct \in BOOLEAN, NewStream(u, s, direct)
     PROVE  (LookIsAfresh /\ RetryIsAfresh)'
  BY <1>7, <1>0a DEF NewStream, streams, users, Ends, Linked, Handling, Writing, LookIsAfresh,
    RetryIsAfresh
<1>8. ASSUME NEW u \in User, NewStreamError(u)
     PROVE  (LookIsAfresh /\ RetryIsAfresh)'
  BY <1>8, <1>0a DEF NewStreamError, Return, streams, users, Ends, Linked, Handling, Writing,
    LookIsAfresh, RetryIsAfresh
<1>9. ASSUME NEW u \in User, HandleOwn(u)
     PROVE  (LookIsAfresh /\ RetryIsAfresh)'
  <2> DEFINE n == Home[u]
             s == held[u]
             e == <<n, Peer[u]>>
  <2>1. /\ s \in Stream /\ link[s] # None /\ end[<<n, s>>] = "opened"
        /\ link[s].from = n /\ link[s].to = Peer[u]
    BY <1>9, <1>0a DEF HandleOwn, Ends, Handling
  <2>2. Other(n, s) = Peer[u] /\ ~Inbound(n, s)
    BY <2>1, <1>0a DEF Other, Inbound
  <2>3. /\ cache' = IF Wins(n, s, cache[e]) THEN [cache EXCEPT ![e] = s] ELSE cache
        /\ pc' = [pc EXCEPT ![u] = "look"]
        /\ UNCHANGED <<held, failed>>
    BY <1>9, <2>2 DEF HandleOwn, Handle
  <2>4. n < Peer[u] => Wins(n, s, cache[e])
    BY <2>2 DEF Wins
  <2>5. \A v \in User : failed[v] # None /\ Home[v] = n => failed[v] # s
    BY <2>1 DEF Ends, Writing
  <2> HIDE DEF n, s
  <2>6. ASSUME NEW v \in User, pc'[v] = "look", failed[v] # None, Home[v] < Peer[v]
        PROVE  cache'[<<Home[v], Peer[v]>>] # failed[v]
    <3>1. CASE <<Home[v], Peer[v]>> = e
      <4>1. Home[v] = n /\ Peer[v] = Peer[u]
        BY <3>1
      <4>2. cache'[e] = s
        BY <1>0a, <2>3, <2>4, <2>6, <3>1, <4>1
      <4>3. QED
        BY <2>5, <2>6, <3>1, <4>1, <4>2
    <3>2. CASE <<Home[v], Peer[v]>> # e
      <4>1. v # u
        BY <3>2 DEF n
      <4>2. pc[v] = "look" /\ cache'[<<Home[v], Peer[v]>>] = cache[<<Home[v], Peer[v]>>]
        BY <1>0a, <2>3, <2>6, <3>2, <4>1
      <4>3. QED
        BY <2>6, <4>2 DEF LookIsAfresh
    <3>3. QED
      BY <3>1, <3>2
  <2>7. RetryIsAfresh'
    BY <1>0a, <2>3 DEF RetryIsAfresh
  <2>8. QED
    BY <2>3, <2>6, <2>7 DEF LookIsAfresh
<1>10. ASSUME NEW u \in User, Look(u)
     PROVE  (LookIsAfresh /\ RetryIsAfresh)'
  <2>1. UNCHANGED cache
    BY <1>10 DEF Look
  <2>2. /\ Alone(u)
        /\ \/ pc'[u] = "idle" /\ failed'[u] = None
           \/ /\ pc[u] = "look" /\ pc'[u] = "write" /\ failed'[u] = failed[u]
              /\ cache[<<Home[u], Peer[u]>>] # None
              /\ held'[u] = cache[<<Home[u], Peer[u]>>]
    BY <1>10, Looks
  <2>3. \A v \in User \ {u} : pc'[v] = pc[v] /\ held'[v] = held[v] /\ failed'[v] = failed[v]
    BY <2>2 DEF Alone
  <2>4. ASSUME pc'[u] = "write", failed'[u] # None, Home[u] < Peer[u]
        PROVE  held'[u] # failed'[u]
    BY <2>2, <2>4 DEF LookIsAfresh
  <2>5. pc'[u] # "look"
    BY <2>2
  <2>6. QED
    BY <2>1, <2>3, <2>4, <2>5 DEF LookIsAfresh, RetryIsAfresh
<1>11. ASSUME NEW u \in User, LookPanic(u)
     PROVE  (LookIsAfresh /\ RetryIsAfresh)'
  BY <1>11, <1>0a DEF LookPanic, Cached, streams, users, Ends, Linked, Handling, Writing,
    LookIsAfresh, RetryIsAfresh
<1>12. ASSUME NEW u \in User, Write(u)
     PROVE  (LookIsAfresh /\ RetryIsAfresh)'
  <2>1. UNCHANGED cache
    BY <1>12 DEF Write
  <2>2. QED
    BY <1>12, <2>1, <1>0a, Writes DEF Alone, LookIsAfresh, RetryIsAfresh
<1>13. ASSUME NEW u \in User, WriteError(u)
     PROVE  (LookIsAfresh /\ RetryIsAfresh)'
  <2>1. UNCHANGED cache
    BY <1>13 DEF WriteError
  <2>2. QED
    BY <1>13, <2>1, <1>0a, WritesNot DEF Alone, LookIsAfresh, RetryIsAfresh
<1>14. ASSUME NEW s \in Stream, Break(s)
     PROVE  (LookIsAfresh /\ RetryIsAfresh)'
  BY <1>14, <1>0a DEF Break, streams, users, Ends, Linked, Handling, Writing, LookIsAfresh,
    RetryIsAfresh
<1>15. CASE UNCHANGED vars
  BY <1>15 DEF vars, streams, users, Ends, Linked, Handling, Writing, LookIsAfresh,
    RetryIsAfresh
<1>16. QED
  BY <1>1, <1>2, <1>3, <1>4, <1>5, <1>6, <1>7, <1>8, <1>9, <1>10, <1>11,
    <1>12, <1>13, <1>14, <1>15 DEF Next, ReadStep, Arrive, UserStep

\* What OnlyFailedLeaves says of a step.
Leaves ==
    \A n, m \in Node :
        LET s == cache[<<n, m>>] IN
        s # None /\ cache'[<<n, m>>] = None => end'[<<n, s>>] = "gone"

\* The step is one of OnlyFailedLeaves.
LEMMA LeavesStep ==
    ASSUME Shape, Ends, Leads, [Next]_vars
    PROVE  Leaves
PROOF
<1>0a. /\ cache \in [Node \X Node -> Stream \cup {None}] /\ None \notin Stream
      /\ link \in [Stream -> Link \cup {None}] /\ None \notin Link
      /\ end \in [Node \X Stream -> EndState]
      /\ pc \in [User -> Stage]
      /\ held \in [User -> Stream \cup {None}] /\ failed \in [User -> Stream \cup {None}]
      /\ Home \in [User -> Node] /\ Peer \in [User -> Node] /\ \A u \in User : Home[u] # Peer[u]
  BY UserAssumption, NobodyAssumption DEF Shape, End
<1>1. ASSUME NEW n \in Node, NEW s \in Stream, HandleIncoming(n, s)
     PROVE  Leaves
  BY <1>1, <1>0a DEF HandleIncoming, Handle, Other, streams, users, Leaves, Ends, Linked,
    Handling, Leads
<1>2. ASSUME NEW n \in Node, NEW s \in Stream, DropIncoming(n, s)
     PROVE  Leaves
  BY <1>2, <1>0a DEF DropIncoming, streams, users, Leaves, Ends, Linked, Handling, Leads
<1>3. ASSUME NEW n \in Node, NEW s \in Stream, Read(n, s)
     PROVE  Leaves
  BY <1>3, <1>0a DEF Read, streams, users, Leaves, Ends, Linked, Handling, Leads
<1>4. ASSUME NEW n \in Node, NEW s \in Stream, Leave(n, s)
     PROVE  Leaves
  <2> DEFINE e == <<n, Other(n, s)>>
  <2>1. /\ cache' = cache \/ (cache[e] = s /\ cache' = [cache EXCEPT ![e] = None])
        /\ end' = [end EXCEPT ![<<n, s>>] = "gone"]
    BY <1>4 DEF Leave, Gone
  <2>2. end'[<<n, s>>] = "gone"
    BY <2>1, <1>0a
  <2> HIDE DEF e
  <2>3. ASSUME NEW x \in Node, NEW y \in Node, cache[<<x, y>>] # None, cache'[<<x, y>>] = None
        PROVE  end'[<<x, cache[<<x, y>>]>>] = "gone"
    <3>1. <<x, y>> = e /\ cache[e] = s
      BY <2>1, <2>3, <1>0a
    <3>2. x = n
      BY <3>1 DEF e
    <3>3. QED
      BY <2>2, <3>1, <3>2
  <2>4. QED
    BY <2>3 DEF Leaves
<1>5. ASSUME NEW u \in User, NEW f \in Frames[u], Send(u, f)
     PROVE  Leaves
  BY <1>5, <1>0a DEF Send, Called, Cached, streams, users, Leaves, Ends, Linked, Handling, Leads
<1>6. ASSUME NEW u \in User, Connected(u)
     PROVE  Leaves
  BY <1>6, <1>0a DEF Connected, Called, Cached, streams, users, Leaves, Ends, Linked,
    Handling, Leads
<1>7. ASSUME NEW u \in User, NEW s \in Stream, NEW direct \in BOOLEAN, NewStream(u, s, direct)
     PROVE  Leaves
  BY <1>7, <1>0a DEF NewStream, streams, users, Leaves, Ends, Linked, Handling, Leads
<1>8. ASSUME NEW u \in User, NewStreamError(u)
     PROVE  Leaves
  BY <1>8, <1>0a DEF NewStreamError, Return, streams, users, Leaves, Ends, Linked, Handling,
    Leads
<1>9. ASSUME NEW u \in User, HandleOwn(u)
     PROVE  Leaves
  BY <1>9, <1>0a DEF HandleOwn, Handle, Other, streams, users, Leaves, Ends, Linked, Handling,
    Leads
<1>10. ASSUME NEW u \in User, Look(u)
     PROVE  Leaves
  BY <1>10, <1>0a DEF Look, Cached, Return, streams, users, Leaves, Ends, Linked, Handling,
    Leads
<1>11. ASSUME NEW u \in User, LookPanic(u)
     PROVE  Leaves
  <2>1. PanicAt(Home[u])
    BY <1>11, Panic
  <2>2. \A x, y \in Node : x # Home[u] => cache'[<<x, y>>] = cache[<<x, y>>]
    BY <1>11 DEF LookPanic
  <2>3. ASSUME NEW x \in Node, NEW y \in Node, cache[<<x, y>>] # None, cache'[<<x, y>>] = None
        PROVE  end'[<<x, cache[<<x, y>>]>>] = "gone"
    <3>1. x = Home[u] /\ cache[<<x, y>>] \in Stream
      BY <2>2, <2>3, <1>0a
    <3>2. /\ link[cache[<<x, y>>]] # None
          /\ link[cache[<<x, y>>]].from = x \/ link[cache[<<x, y>>]].to = x
      BY <2>3 DEF Leads
    <3>3. QED
      BY <2>1, <3>1, <3>2 DEF PanicAt
  <2>4. QED
    BY <2>3 DEF Leaves
<1>12. ASSUME NEW u \in User, Write(u)
     PROVE  Leaves
  BY <1>12, <1>0a DEF Write, Return, streams, users, Leaves, Ends, Linked, Handling, Leads
<1>13. ASSUME NEW u \in User, WriteError(u)
     PROVE  Leaves
  BY <1>13, <1>0a DEF WriteError, Close, Return, streams, users, Leaves, Ends, Linked,
    Handling, Leads
<1>14. ASSUME NEW s \in Stream, Break(s)
     PROVE  Leaves
  BY <1>14, <1>0a DEF Break, streams, users, Leaves, Ends, Linked, Handling, Leads
<1>15. CASE UNCHANGED vars
  BY <1>15 DEF vars, streams, users, Leaves, Ends, Linked, Handling, Leads
<1>16. QED
  BY <1>1, <1>2, <1>3, <1>4, <1>5, <1>6, <1>7, <1>8, <1>9, <1>10, <1>11,
    <1>12, <1>13, <1>14, <1>15 DEF Next, ReadStep, Arrive, UserStep

-----------------------------------------------------------------------------

\* The invariant holds at first.
LEMMA Initially == Init => Inv
<1> SUFFICES ASSUME Init PROVE Inv
  OBVIOUS
<1>1. /\ link = [s \in Stream |-> None]
      /\ end = [e \in Node \X Stream |-> "none"]
      /\ cache = [e \in Node \X Node |-> None]
      /\ pc = [u \in User |-> "idle"]
      /\ failed = [u \in User |-> None]
  BY DEF Init, End
<1>2. Shape
  BY BoundAssumption DEF Init, Shape, End, EndState, Stage
<1>3. Ends
  BY <1>1 DEF Ends, Linked, Handling, Writing
<1>4. Leads /\ OwnIsHandled /\ LookIsAfresh /\ RetryIsAfresh
  BY <1>1 DEF Leads, OwnIsHandled, LookIsAfresh, RetryIsAfresh
<1>5. QED
  BY <1>2, <1>3, <1>4 DEF Inv

\* The invariant, for every number of nodes, goroutines and streams, whatever
\* fails.
THEOREM Invariant == Spec => []Inv
<1>1. Inv /\ [Next]_vars => Inv'
  BY ShapeStep, LinkedStep, HandlingStep, WritingStep, LeadsStep, OwnIsHandledStep, AfreshStep
    DEF Inv, Ends
<1>2. QED
  BY <1>1, Initially, PTL DEF Spec

\* No dead stream stays in the cache: what is there leads to the right peer and
\* is read, and its read loop takes it out when it ends.
THEOREM CacheIsRead == Spec => []CachedIsRead
<1>1. Inv => CachedIsRead
  BY DEF Inv, Leads, CachedIsRead
<1>2. QED
  BY <1>1, Invariant, PTL

\* The second attempt of the peer with the smaller id is made on another stream.
THEOREM RetriesAreFresh == Spec => []RetryIsAfresh
  BY Invariant, PTL DEF Inv

\* An old stream that ends does not take the new one out of the cache.
THEOREM ReplacedStays == Spec => OnlyFailedLeaves
<1>1. Inv /\ [Next]_vars => [Leaves]_vars
  BY LeavesStep DEF Inv
<1>2. QED
  BY <1>1, Invariant, PTL DEF Spec, OnlyFailedLeaves, Leaves
=============================================================================
