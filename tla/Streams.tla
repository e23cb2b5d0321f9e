------------------------------ MODULE Streams ------------------------------
(***************************************************************************)
(* The stream manager (common/xrmmgr.go) of every node for one protocol,   *)
(* the frames that go over its streams (protocol/frame.go, reader.go) and  *)
(* the senders that use it: Send of text and image, QueryEVM, and Send of  *)
(* the heartbeat all get a stream, write a frame, and on an error do both  *)
(* once more without the cache.                                            *)
(*                                                                         *)
(* A manager keeps one stream per peer.  Both sides may open streams at    *)
(* any moment; handle decides which one stays in the cache, but every      *)
(* stream has a read loop at both ends, whether it is cached or not.       *)
(***************************************************************************)
EXTENDS Naturals, Sequences

CONSTANTS
    Node,       \* the peers, named by ids that are ordered
    User,       \* the goroutines that get streams
    Home,       \* the node of a goroutine
    Peer,       \* the peer that it writes to
    Frames,     \* the frames that it writes; none: it tells of connections
    MaxCall,    \* bound: calls of a goroutine
    MaxStream,  \* bound: streams opened in a behaviour, numbered in order
    Capacity,   \* bound: chunks on their way from one end to the other
    Frail,      \* bound: the streams that break or fall idle by themselves
    Chunk,      \* bytes per write (4096)
    Worlds,     \* the sets of faults that behaviours are checked with
    None        \* no stream, no frame

Stream == 1 .. MaxStream

ASSUME NodeAssumption == Node \subseteq Nat

ASSUME UserAssumption ==
    /\ Home \in [User -> Node]
    /\ Peer \in [User -> Node]
    /\ \A u \in User : Home[u] # Peer[u]

ASSUME BoundAssumption ==
    /\ MaxCall \in Nat
    /\ MaxStream \in Nat
    /\ Capacity \in Nat
    /\ Chunk \in Nat /\ Chunk >= 5     \* a header goes out in one write

\* break: streams are reset.  idle: a read deadline passes.  timeout: a write
\* deadline does.  refuse: no stream can be opened.  direct: a direct connection
\* comes up beside the relayed one.  reorder: streams opened one after the other
\* are handled in any order.
ASSUME WorldAssumption ==
    Worlds \subseteq SUBSET {"break", "idle", "timeout", "refuse", "direct", "reorder"}

\* A frame: its flag (0 ack, 1 meta, 2 data) and the length of its payload.
Frame == [flag : 0 .. 2, size : Nat]

ASSUME FrameAssumption == Frames \in [User -> SUBSET Frame]

\* A stream: who opened it, to whom, and whether its connection is direct.
Link == [from : Node, to : Node, direct : BOOLEAN]

ASSUME NobodyAssumption == None \notin Stream \cup Frame \cup Link

VARIABLES
    world,      \* the faults of this behaviour
    link,       \* the streams opened so far
    end,        \* what an end of a stream is doing
    shut,       \* the ends that a failed write closed or a reset ended
    cache,      \* StreamManager.streams of every node
    wire,       \* the chunks on their way from an end to the other one
    rest,       \* what the reader of an end still misses of a payload
    calls,      \* how often a goroutine was called
    pc,         \* where a goroutine is
    frame,      \* the frame it writes
    todo,       \* the chunks of the frame it has not written yet
    held,       \* the stream it has
    failed      \* the stream on which its first attempt failed

streams == <<link, end, shut>>
users == <<calls, pc, frame, todo, held, failed>>
vars == <<world, streams, cache, wire, rest, users>>

End == Node \X Stream

EndState == {"none", "opened", "incoming", "reading", "gone"}

Stage == {"idle", "write", "open", "handle", "look"}

-----------------------------------------------------------------------------
(* Frames *)

\* Frame.Encode: a byte with the flag and the size, or with the number of bytes
\* of the size that follow; the shortest form that fits.  (The eight-byte form is
\* left out: no payload has 2^32 bytes.)
Encode(f) ==
    LET z == f.size IN
    IF z <= 15 THEN <<32 * f.flag + z>>
    ELSE IF z <= 255 THEN <<32 * f.flag + 16, z>>
    ELSE IF z <= 65535 THEN <<32 * f.flag + 17, z \div 256, z % 256>>
    ELSE <<32 * f.flag + 18, z \div 16777216, (z \div 65536) % 256, (z \div 256) % 256,
           z % 256>>

\* Reader.Read: what the header says of the length of the payload, and the
\* number of bytes of the header.
Decode(bytes) ==
    LET code == bytes[1] % 32 IN
    IF code < 16 THEN [size |-> code, header |-> 1]
    ELSE CASE code = 16 -> [size |-> bytes[2], header |-> 2]
           [] code = 17 -> [size |-> 256 * bytes[2] + bytes[3], header |-> 3]
           [] OTHER -> [size |-> 16777216 * bytes[2] + 65536 * bytes[3]
                                     + 256 * bytes[4] + bytes[5],
                        header |-> 5]

\* WriteWithContext writes at most Chunk bytes at a time: the header and what
\* fits of the payload, then the rest of the payload.
Chunks(f) ==
    LET head == Encode(f)
        total == Len(head) + f.size
        full == total \div Chunk
        Length(i) == IF i <= full THEN Chunk ELSE total % Chunk
    IN [i \in 1 .. full + (IF total % Chunk = 0 THEN 0 ELSE 1) |->
           IF i = 1 THEN [head |-> head, body |-> Length(1) - Len(head)]
           ELSE [head |-> <<>>, body |-> Length(i)]]

-----------------------------------------------------------------------------
(* Streams *)

Other(n, s) == IF link[s].from = n THEN link[s].to ELSE link[s].from

Inbound(n, s) == link[s].to = n

\* An end that is of no use any more to its own node.
Closed(n, s) == <<n, s>> \in shut \/ end[<<n, s>>] = "gone"

Init ==
    /\ world \in Worlds
    /\ link = [s \in Stream |-> None]
    /\ end = [e \in End |-> "none"]
    /\ shut = {}
    /\ cache = [e \in Node \X Node |-> None]
    /\ wire = [e \in End |-> <<>>]
    /\ rest = [e \in End |-> 0]
    /\ calls = [u \in User |-> 0]
    /\ pc = [u \in User |-> "idle"]
    /\ frame = [u \in User |-> None]
    /\ todo = [u \in User |-> <<>>]
    /\ held = [u \in User |-> None]
    /\ failed = [u \in User |-> None]

\* Mutant: the ids are not compared, a new stream always wins.
NewestWins(n, s, old) == TRUE

\* The choice of handle between a new stream and the cached one: a direct one
\* wins; of two from the same side the new one does; of two from both sides the
\* one that the peer with the smaller id opened.
Wins(n, s, old) ==
    LET m == Other(n, s) IN
    \/ old = None
    \/ link[s].direct
    \/ Inbound(n, s) /\ (Inbound(n, old) \/ m < n)
    \/ ~Inbound(n, s) /\ (~Inbound(n, old) \/ n < m)

\* Mutant: only a stream that goes into the cache is read.
HandleReadCached(n, s) ==
    LET old == cache[<<n, Other(n, s)>>] IN
    /\ cache' = IF Wins(n, s, old) THEN [cache EXCEPT ![<<n, Other(n, s)>>] = s] ELSE cache
    /\ end' = IF Wins(n, s, old) THEN [end EXCEPT ![<<n, s>>] = "reading"] ELSE end
    /\ UNCHANGED <<world, link, shut, wire, rest>>

\* handle, under the lock: the choice, and a read loop for the stream.
Handle(n, s) ==
    LET old == cache[<<n, Other(n, s)>>] IN
    /\ cache' = IF Wins(n, s, old) THEN [cache EXCEPT ![<<n, Other(n, s)>>] = s] ELSE cache
    /\ end' = [end EXCEPT ![<<n, s>>] = "reading"]
    /\ UNCHANGED <<world, link, shut, wire, rest>>

\* The streams that one node opens to another are handled in order, unless the
\* behaviour may reorder them: libp2p runs a goroutine for each.
InTurn(n, s) ==
    \/ "reorder" \in world
    \/ \A t \in Stream : t < s /\ end[<<n, t>>] = "incoming" => link[t].from # link[s].from

\* The peer's stream arrives; one that was reset before may never be handled.
HandleIncoming(n, s) ==
    /\ end[<<n, s>>] = "incoming"
    /\ InTurn(n, s)
    /\ Handle(n, s)
    /\ UNCHANGED users

DropIncoming(n, s) ==
    /\ end[<<n, s>>] = "incoming"
    /\ <<n, s>> \in shut
    /\ end' = [end EXCEPT ![<<n, s>>] = "gone"]
    /\ shut' = shut \ {<<n, s>>}
    /\ UNCHANGED <<world, link, cache, wire, rest, users>>

-----------------------------------------------------------------------------
(* readLoop *)

\* Mutant: every read counts for a whole chunk.
ReadFull(n, s) ==
    LET e == <<Other(n, s), s>>
        c == wire[e][1]
        size == IF rest[<<n, s>>] = 0 THEN Decode(c.head).size ELSE rest[<<n, s>>]
    IN
    /\ end[<<n, s>>] = "reading"
    /\ <<n, s>> \notin shut
    /\ wire[e] # <<>>
    /\ wire' = [wire EXCEPT ![e] = SubSeq(@, 2, Len(@))]
    /\ rest' = [rest EXCEPT ![<<n, s>>] = size - (Chunk - Len(c.head))]
    /\ UNCHANGED <<world, streams, cache, users>>

\* One chunk: the header, if a frame begins, and a part of the payload.
Read(n, s) ==
    LET e == <<Other(n, s), s>>
        c == wire[e][1]
        size == IF rest[<<n, s>>] = 0 THEN Decode(c.head).size ELSE rest[<<n, s>>]
    IN
    /\ end[<<n, s>>] = "reading"
    /\ <<n, s>> \notin shut
    /\ wire[e] # <<>>
    /\ wire' = [wire EXCEPT ![e] = SubSeq(@, 2, Len(@))]
    /\ rest' = [rest EXCEPT ![<<n, s>>] = IF c.body <= size THEN size - c.body ELSE 0]
    /\ UNCHANGED <<world, streams, cache, users>>

\* The next read fails: the stream was reset or closed at this end, the other
\* end is closed and all that it wrote is read, or nothing comes for StreamTTL.
ReadFails(n, s) ==
    LET m == Other(n, s) IN
    /\ end[<<n, s>>] = "reading"
    /\ \/ <<n, s>> \in shut
       \/ wire[<<m, s>>] = <<>> /\ Closed(m, s)
       \/ wire[<<m, s>>] = <<>> /\ "idle" \in world /\ s \in Frail

\* The read loop ends: what still comes to this end is lost.
Gone(n, s) ==
    /\ end' = [end EXCEPT ![<<n, s>>] = "gone"]
    /\ shut' = shut \ {<<n, s>>}
    /\ rest' = [rest EXCEPT ![<<n, s>>] = 0]
    /\ wire' = [wire EXCEPT ![<<Other(n, s), s>>] = <<>>]
    /\ UNCHANGED <<world, link, users>>

\* Mutant: the entry of the peer is deleted, whatever stream it holds.
LeaveUnchecked(n, s) ==
    /\ ReadFails(n, s)
    /\ cache' = [cache EXCEPT ![<<n, Other(n, s)>>] = None]
    /\ Gone(n, s)

\* Mutant: the deferred function only closes the stream.
LeaveCached(n, s) == ReadFails(n, s) /\ Gone(n, s) /\ UNCHANGED cache

\* The deferred function: under the lock, the entry is deleted if it is this
\* stream; the stream is closed.
Leave(n, s) ==
    LET e == <<n, Other(n, s)>> IN
    /\ ReadFails(n, s)
    /\ cache' = IF cache[e] = s THEN [cache EXCEPT ![e] = None] ELSE cache
    /\ Gone(n, s)

-----------------------------------------------------------------------------
(* The senders *)

Cached(u) == cache[<<Home[u], Peer[u]>>]

\* A goroutine returns: what it had in its variables is forgotten.
Return(u) ==
    /\ pc' = [pc EXCEPT ![u] = "idle"]
    /\ frame' = [frame EXCEPT ![u] = None]
    /\ todo' = [todo EXCEPT ![u] = <<>>]
    /\ held' = [held EXCEPT ![u] = None]
    /\ failed' = [failed EXCEPT ![u] = None]

Called(u) == calls[u] < MaxCall /\ calls' = [calls EXCEPT ![u] = @ + 1]

\* GetStream: the cached stream, or else a new one is needed.
Send(u, f) ==
    /\ pc[u] = "idle"
    /\ Called(u)
    /\ pc' = [pc EXCEPT ![u] = IF Cached(u) = None THEN "open" ELSE "write"]
    /\ frame' = [frame EXCEPT ![u] = f]
    /\ todo' = [todo EXCEPT ![u] = Chunks(f)]
    /\ held' = [held EXCEPT ![u] = Cached(u)]
    /\ UNCHANGED <<world, streams, cache, wire, rest, failed>>

\* Connected: a direct connection of one's own to a peer that has a stream.
Connected(u) ==
    /\ "direct" \in world
    /\ Frames[u] = {}
    /\ pc[u] = "idle"
    /\ Called(u)
    /\ Cached(u) # None
    /\ pc' = [pc EXCEPT ![u] = "open"]
    /\ UNCHANGED <<world, streams, cache, wire, rest, frame, todo, held, failed>>

\* host.NewStream: the stream exists here, and arrives at the peer some time.
NewStream(u, s, direct) ==
    /\ pc[u] = "open"
    /\ link[s] = None
    /\ \A t \in Stream : t < s => link[t] # None
    /\ direct => "direct" \in world
    /\ link' = [link EXCEPT ![s] = [from |-> Home[u], to |-> Peer[u], direct |-> direct]]
    /\ end' = [end EXCEPT ![<<Home[u], s>>] = "opened", ![<<Peer[u], s>>] = "incoming"]
    /\ held' = [held EXCEPT ![u] = s]
    /\ pc' = [pc EXCEPT ![u] = "handle"]
    /\ UNCHANGED <<calls, world, shut, cache, wire, rest, frame, todo, failed>>

\* No stream can be opened: the address of the peer is forgotten, the sender
\* gives up.
NewStreamError(u) ==
    /\ "refuse" \in world
    /\ pc[u] = "open"
    /\ Return(u)
    /\ UNCHANGED <<calls, world, streams, cache, wire, rest>>

HandleOwn(u) ==
    /\ pc[u] = "handle"
    /\ Handle(Home[u], held[u])
    /\ pc' = [pc EXCEPT ![u] = "look"]
    /\ UNCHANGED <<calls, frame, todo, held, failed>>

\* The second look at the cache decides which stream is used.  (Connected does
\* not use it.)
Look(u) ==
    /\ pc[u] = "look"
    /\ \/ /\ frame[u] # None
          /\ Cached(u) # None
          /\ held' = [held EXCEPT ![u] = Cached(u)]
          /\ pc' = [pc EXCEPT ![u] = "write"]
          /\ UNCHANGED <<frame, todo, failed>>
       \/ frame[u] = None /\ Return(u)
    /\ UNCHANGED <<calls, world, streams, cache, wire, rest>>

\* The stream has left the cache again: GetStream returns nil without an error,
\* and the write on it takes the process down.  Its streams end with it.
LookPanic(u) ==
    LET n == Home[u]
        Mine(v) == Home[v] = n
        Ours(s) == link[s] # None /\ (link[s].from = n \/ link[s].to = n)
    IN
    /\ pc[u] = "look"
    /\ frame[u] # None
    /\ Cached(u) = None
    /\ end' = [e \in End |-> IF e[1] = n /\ Ours(e[2]) THEN "gone" ELSE end[e]]
    /\ shut' = {e \in End : Ours(e[2]) /\ e[1] # n /\ end[e] \in {"opened", "incoming", "reading"}}
               \cup {e \in shut : e[1] # n}
    /\ wire' = [e \in End |-> IF Ours(e[2]) THEN <<>> ELSE wire[e]]
    /\ rest' = [e \in End |-> IF e[1] = n THEN 0 ELSE rest[e]]
    /\ cache' = [e \in Node \X Node |-> IF e[1] = n THEN None ELSE cache[e]]
    /\ pc' = [v \in User |-> IF Mine(v) THEN "idle" ELSE pc[v]]
    /\ frame' = [v \in User |-> IF Mine(v) THEN None ELSE frame[v]]
    /\ todo' = [v \in User |-> IF Mine(v) THEN <<>> ELSE todo[v]]
    /\ held' = [v \in User |-> IF Mine(v) THEN None ELSE held[v]]
    /\ failed' = [v \in User |-> IF Mine(v) THEN None ELSE failed[v]]
    /\ UNCHANGED <<calls, world, link>>

\* WriteWithContext, one chunk; after the last one the sender is done.
Write(u) ==
    LET e == <<Home[u], held[u]>> IN
    /\ pc[u] = "write"
    /\ ~Closed(Home[u], held[u])
    /\ Len(wire[e]) < Capacity
    /\ wire' = IF end[<<Other(Home[u], held[u]), held[u]>>] = "gone" THEN wire
               ELSE [wire EXCEPT ![e] = Append(@, todo[u][1])]
    /\ \/ /\ Len(todo[u]) = 1
          /\ Return(u)
       \/ /\ Len(todo[u]) > 1
          /\ todo' = [todo EXCEPT ![u] = SubSeq(@, 2, Len(@))]
          /\ UNCHANGED <<pc, frame, held, failed>>
    /\ UNCHANGED <<calls, world, streams, cache, rest>>

\* A write on a dead stream fails; so does one that waits for its deadline.
CannotWrite(u) ==
    LET n == Home[u]
        s == held[u]
    IN \/ Closed(n, s) \/ Closed(Other(n, s), s)
       \/ Len(wire[<<n, s>>]) = Capacity
       \/ "timeout" \in world

Close(n, s) == shut' = IF end[<<n, s>>] = "gone" THEN shut ELSE shut \cup {<<n, s>>}

\* Mutant: the stream is left open after a failed write.
WriteErrorOpen(u) ==
    /\ pc[u] = "write"
    /\ CannotWrite(u)
    /\ \/ /\ failed[u] = None
          /\ failed' = [failed EXCEPT ![u] = held[u]]
          /\ todo' = [todo EXCEPT ![u] = Chunks(frame[u])]
          /\ held' = [held EXCEPT ![u] = None]
          /\ pc' = [pc EXCEPT ![u] = "open"]
          /\ UNCHANGED frame
       \/ failed[u] # None /\ Return(u)
    /\ UNCHANGED <<calls, world, streams, cache, wire, rest>>

\* Mutant: the second attempt looks at the cache first.
WriteErrorCached(u) ==
    /\ pc[u] = "write"
    /\ CannotWrite(u)
    /\ Close(Home[u], held[u])
    /\ \/ /\ failed[u] = None
          /\ failed' = [failed EXCEPT ![u] = held[u]]
          /\ todo' = [todo EXCEPT ![u] = Chunks(frame[u])]
          /\ held' = [held EXCEPT ![u] = Cached(u)]
          /\ pc' = [pc EXCEPT ![u] = IF Cached(u) = None THEN "open" ELSE "write"]
          /\ UNCHANGED frame
       \/ failed[u] # None /\ Return(u)
    /\ UNCHANGED <<calls, world, link, end, cache, wire, rest>>

\* The stream is closed.  The first time, the whole frame is written again, to
\* a stream that is not to come from the cache; the second time, that was it.
WriteError(u) ==
    /\ pc[u] = "write"
    /\ CannotWrite(u)
    /\ Close(Home[u], held[u])
    /\ \/ /\ failed[u] = None
          /\ failed' = [failed EXCEPT ![u] = held[u]]
          /\ todo' = [todo EXCEPT ![u] = Chunks(frame[u])]
          /\ held' = [held EXCEPT ![u] = None]
          /\ pc' = [pc EXCEPT ![u] = "open"]
          /\ UNCHANGED frame
       \/ failed[u] # None /\ Return(u)
    /\ UNCHANGED <<calls, world, link, end, cache, wire, rest>>

-----------------------------------------------------------------------------
(* The environment *)

\* The connection of a stream is lost, with what is on its way.
Break(s) ==
    /\ "break" \in world /\ s \in Frail
    /\ \E e \in End : e[2] = s /\ end[e] \notin {"none", "gone"} /\ e \notin shut
    /\ shut' = shut \cup {e \in End : e[2] = s /\ end[e] \notin {"none", "gone"}}
    /\ wire' = [e \in End |-> IF e[2] = s THEN <<>> ELSE wire[e]]
    /\ UNCHANGED <<world, link, end, cache, rest, users>>

ReadStep(n, s) == Read(n, s) \/ Leave(n, s)

Arrive(n, s) == HandleIncoming(n, s) \/ DropIncoming(n, s)

UserStep(u) ==
    \/ \E s \in Stream, direct \in BOOLEAN : NewStream(u, s, direct)
    \/ NewStreamError(u)
    \/ HandleOwn(u)
    \/ Look(u) \/ LookPanic(u)
    \/ Write(u) \/ WriteError(u)

Next ==
    \/ \E n \in Node, s \in Stream : ReadStep(n, s) \/ Arrive(n, s)
    \/ \E u \in User : (\E f \in Frames[u] : Send(u, f)) \/ Connected(u) \/ UserStep(u)
    \/ \E s \in Stream : Break(s)

Spec == Init /\ [][Next]_vars

\* libp2p runs a goroutine for every stream that arrives, handle one that reads;
\* a goroutine that got a stream handles it.  Each goes on by itself, but since
\* senders are called a bounded number of times it is enough that one of them does
\* as long as one can.  Nothing else has to happen.
Fairness ==
    /\ WF_vars(\E n \in Node, s \in Stream : ReadStep(n, s) \/ Arrive(n, s))
    /\ WF_vars(\E u \in User : HandleOwn(u))

FairSpec == Spec /\ Fairness

-----------------------------------------------------------------------------
(* Properties *)

\* The shape of the state, apart from what readers miss.
Shape ==
    /\ world \in Worlds
    /\ link \in [Stream -> Link \cup {None}]
    /\ end \in [End -> EndState]
    /\ shut \subseteq End
    /\ cache \in [Node \X Node -> Stream \cup {None}]
    /\ calls \in [User -> 0 .. MaxCall]
    /\ pc \in [User -> Stage]
    /\ frame \in [User -> Frame \cup {None}]
    /\ held \in [User -> Stream \cup {None}]
    /\ failed \in [User -> Stream \cup {None}]

\* The shape of the state: no reader ever misses less than nothing.
TypeOK == Shape /\ rest \in [End -> Nat]

\* A stream in the cache of a node leads to the peer it is cached for and has a
\* read loop at this end, which will take it out: no dead stream can stay.
CachedIsRead ==
    \A n, m \in Node : cache[<<n, m>>] # None =>
        LET s == cache[<<n, m>>] IN
        /\ link[s] # None
        /\ {link[s].from, link[s].to} = {n, m}
        /\ end[<<n, s>>] = "reading"

\* Everything that peers wrote to streams is read in the end, or lost with its
\* stream: never does it wait for a reader that does not come.  So it is at both
\* ends, whoever opened the stream, and also where it lost against the cached one,
\* since the other side may have it in its cache.
WritesAreRead == <>[](\A e \in End : wire[e] = <<>>)

\* The cache loses a stream without getting another one only when that very
\* stream has failed, or with its process: the end of an old stream does not
\* take away the one that replaced it.
OnlyFailedLeaves ==
    [][\A n, m \in Node :
          LET s == cache[<<n, m>>] IN
          s # None /\ cache'[<<n, m>>] = None => end'[<<n, s>>] = "gone"]_vars

\* The retry of the peer with the smaller id does not get the stream on which the
\* first attempt failed, whoever else opens streams meanwhile.  (The peer with the
\* larger id may get it: handle keeps what the other side opened.)
RetryIsAfresh ==
    \A u \in User :
        pc[u] = "write" /\ failed[u] # None /\ Home[u] < Peer[u] => held[u] # failed[u]

\* The chunk c is one that a reader expects who misses r bytes of a payload: a
\* header when the last frame is complete, and else a part of the payload that is
\* not longer than what is missing.
Fits(r, c) ==
    IF r > 0
    THEN c.head = <<>> /\ c.body <= r
    ELSE /\ c.head # <<>>
         /\ Decode(c.head).header = Len(c.head)
         /\ c.body <= Decode(c.head).size

\* The next chunk is one that the reader expects.  No frame is mixed with
\* another, after whatever failed write.  (For one sender of large frames per node
\* and peer: WriteWithContext has no lock.)
FramesWhole ==
    \A s \in Stream : link[s] # None =>
        \A n \in {link[s].from, link[s].to} :
            LET w == wire[<<Other(n, s), s>>] IN
            end[<<n, s>>] = "reading" /\ w # <<>> => Fits(rest[<<n, s>>], w[1])

\* A stream that works at both ends.
Alive(s) ==
    \A n \in {link[s].from, link[s].to} : end[<<n, s>>] = "reading" /\ <<n, s>> \notin shut

\* Relayed streams that both peers open at once and handle in any interleaving:
\* when both have a working one in the cache, and none is still to be handled,
\* it is the same.  (For one goroutine per node that opens streams to a peer: two
\* may handle their own ones in the opposite order.)
Agreement ==
    \A n, m \in Node :
        LET s == cache[<<n, m>>]
            t == cache[<<m, n>>]
        IN /\ world \cap {"direct", "reorder"} = {}
           /\ s # None /\ t # None
           /\ Alive(s) /\ Alive(t)
           => s = t

=============================================================================
