------------------------------ MODULE Messaging ------------------------------
(***************************************************************************)
(* The message service of the chat client (service/message.go) on top of   *)
(* the text and image protocols (text.go, image.go), as it runs on every   *)
(* node.                                                                   *)
(*                                                                         *)
(* A node keeps, per peer, a dialogue bucket (message id -> record), a     *)
(* pending bucket (ids it still has to deliver) and a received bucket (ids *)
(* the peer gave to the messages it delivered here).  A message is sent by *)
(* a goroutine per id (a worker), which asks the peer to store it while it *)
(* is fresh and, once it is older than MessageSendingPeriod, only asks     *)
(* whether the peer has it.                                                *)
(***************************************************************************)
EXTENDS Naturals

CONSTANTS
    Node,     \* the peers
    Text,     \* text payloads
    Image,    \* image payloads, named by their hash
    Torn,     \* the image that a file which is not whole holds
    Burn,     \* the payloads sent with ttl > 0
    Talk,     \* <<n, p, c>>: the user of n may send payload c to p
    MaxSeq,   \* bound: ids a dialogue bucket hands out before its store fails
    MaxSend,  \* bound: the highest id a user's own message gets
    Ops,      \* the optional parts of the environment that a model includes
    None      \* no record, no worker, no answer, no owner

Content == Text \cup Image
Id == 1..MaxSeq
Key == Node \X Node \X Id
Proto == {"text", "image"}

ASSUME PayloadAssumption ==
    /\ Text \cap Image = {}
    /\ Burn \subseteq Text
    /\ Image # {} => Torn \in Image

ASSUME TalkAssumption ==
    /\ Talk \subseteq Node \X Node \X Content
    /\ \A n \in Node, c \in Content : <<n, n, c>> \notin Talk

ASSUME BoundAssumption == MaxSeq \in Nat /\ MaxSend \in 0..MaxSeq

ASSUME OpsAssumption ==
    Ops \subseteq {"lose", "fail", "stall", "age", "delete", "flush", "destroy", "restart"}

Mode == {"send", "check"}

\* A call of Send with its image: no call; missing, os.Stat did not find the
\* file; writing, the file is open; lost, that file was removed or opened once
\* more meanwhile; ready, the transaction is next.
Writing == {"no", "missing", "writing", "lost", "ready"}

Stage == {"ReqExistence", "ReqSyncText", "ReqSyncHash", "ReqSyncBytes"}
RespKind == {"RespExistence", "RespSyncText", "RespSyncHash", "RespSyncBytes"}

\* model.Message: the fields of a record that decide what the service does.
\* fresh: it was created less than MessageSendingPeriod ago.
Message == [content : Content, reached : BOOLEAN, initiator : BOOLEAN, fresh : BOOLEAN]

\* What AsyncSend read of a pending message, before it starts a worker for it.
Snapshot == [from : Node, to : Node, id : Id, mode : Mode,
             content : Content, reached : BOOLEAN]

Answer == [kind : RespKind, ok : BOOLEAN]

\* What a request carries: a check names the message by its id alone.
Carried(kind) ==
    IF kind = "ReqExistence" THEN {None}
    ELSE IF kind = "ReqSyncText" THEN Text
    ELSE Image

\* A goroutine of AsyncSend: the snapshot it works on, the request it waits
\* for and what is in the channel it waits on.
Worker ==
    { w \in [mode : Mode, content : Content, reached : BOOLEAN, stage : Stage,
             chan : Answer \cup {None}] :
        IF w.mode = "check" THEN w.stage = "ReqExistence" ELSE w.content \in Carried(w.stage) }

Request ==
    { r \in [kind : Stage, proto : Proto, from : Node, to : Node, id : Id,
             content : Content \cup {None}] :
        r.content \in Carried(r.kind) }

Response == [kind : RespKind, proto : Proto, from : Node, to : Node, id : Id,
             ok : BOOLEAN]

ASSUME NoneAssumption == None \notin Node \cup Content \cup Message \cup Worker \cup Answer

VARIABLES
    dialogue,   \* <<n, p, i>> -> the record of message i in n's dialogue with p
    seq,        \* <<n, p>> -> the last id that dialogue bucket handed out
    pending,    \* {<<n, p, i>>}: n's pending bucket for p
    received,   \* {<<n, p, i>>}: n's received bucket for p
    burning,    \* {<<n, p, i>>}: entries of n's destroy bucket
    files,      \* {<<n, image>>}: the files of n's image directory that are whole
    partial,    \* {<<n, image>>}: those that are not (yet)
    sending,    \* <<n, p, image>> -> where a call of Send of the image is
    snapshot,   \* messages read by an AsyncSend that it did not yet start
    worker,     \* <<n, p, i>> -> the goroutine of message i; the recorder
    result,     \* <<n, proto, i>> -> the peer whose worker's channel is registered
    requests,   \* requests in flight or in a receiver buffer
    responses,  \* responses in flight
    sent,       \* history: <<n, p, i, c>>, Send gave payload c the id i
    got,        \* history: <<n, p, i, c>>, p stored payload c of n's request i
    arrived     \* history: <<n, p, i>>, n emitted the arrived event of i

stores == <<dialogue, seq, pending, received, burning>>
images == <<files, partial, sending>>
local == <<snapshot, worker, result>>
net == <<requests, responses>>
history == <<sent, got, arrived>>
vars == <<stores, images, local, net, history>>

Init ==
    /\ dialogue = [k \in Key |-> None]
    /\ seq = [np \in Node \X Node |-> 0]
    /\ pending = {}
    /\ received = {}
    /\ burning = {}
    /\ files = {}
    /\ partial = {}
    /\ sending = [k \in Node \X Node \X Image |-> "no"]
    /\ snapshot = {}
    /\ worker = [k \in Key |-> None]
    /\ result = [k \in Node \X Proto \X Id |-> None]
    /\ requests = {}
    /\ responses = {}
    /\ sent = {}
    /\ got = {}
    /\ arrived = {}

-----------------------------------------------------------------------------
(* AsyncSend *)

ProtoOf(c) == IF c \in Text THEN "text" ELSE "image"

\* Mutant: the age test of AsyncSend is the wrong way round.
ViewSwapped(n, p, records, queue) ==
    { [from |-> n, to |-> p, id |-> i,
       mode |-> IF records[<<n, p, i>>].fresh THEN "check" ELSE "send",
       content |-> records[<<n, p, i>>].content,
       reached |-> records[<<n, p, i>>].reached] :
         i \in { j \in Id : <<n, p, j>> \in queue /\ records[<<n, p, j>>] # None } }

\* The read transaction of AsyncSend: every pending message that has a record,
\* split into those still young enough to send and those only checked.
\* (Removing the pending entry of a message without a record fails, because
\* the transaction is read-only; its error is dropped.)
View(n, p, records, queue) ==
    { [from |-> n, to |-> p, id |-> i,
       mode |-> IF records[<<n, p, i>>].fresh THEN "send" ELSE "check",
       content |-> records[<<n, p, i>>].content,
       reached |-> records[<<n, p, i>>].reached] :
         i \in { j \in Id : <<n, p, j>> \in queue /\ records[<<n, p, j>>] # None } }

\* AsyncSend called on its own, when the user probes the status of a peer.
AsyncSend(n, p) ==
    /\ snapshot' = snapshot \cup View(n, p, dialogue, pending)
    /\ UNCHANGED <<stores, images, worker, result, net, history>>

FirstStage(m) ==
    IF m.mode = "check" THEN "ReqExistence"
    ELSE IF m.content \in Text THEN "ReqSyncText"
    ELSE "ReqSyncHash"

Started(m) ==
    [mode |-> m.mode, content |-> m.content, reached |-> m.reached,
     stage |-> FirstStage(m), chan |-> None]

RequestOf(n, p, i, stage, c) ==
    [kind |-> stage, proto |-> ProtoOf(c), from |-> n, to |-> p, id |-> i,
     content |-> IF stage = "ReqExistence" THEN None ELSE c]

\* The recorder already has the id: another goroutine works on it.
LaunchSkip(m) ==
    /\ worker[<<m.from, m.to, m.id>>] # None
    /\ snapshot' = snapshot \ {m}
    /\ UNCHANGED <<stores, images, worker, result, net, history>>

\* The goroutine starts: Request registers its channel under the id alone and
\* sends the first request.
Launch(m) ==
    /\ worker[<<m.from, m.to, m.id>>] = None
    /\ snapshot' = snapshot \ {m}
    /\ worker' = [worker EXCEPT ![<<m.from, m.to, m.id>>] = Started(m)]
    /\ result' = [result EXCEPT ![<<m.from, ProtoOf(m.content), m.id>>] = m.to]
    /\ requests' = requests \cup
                     {RequestOf(m.from, m.to, m.id, FirstStage(m), m.content)}
    /\ UNCHANGED <<stores, images, responses, history>>

\* The goroutine starts and no stream to the peer can be had: Request ends
\* with an error and its deferred delete empties the slot of the id.
LaunchError(m) ==
    /\ "lose" \in Ops
    /\ worker[<<m.from, m.to, m.id>>] = None
    /\ snapshot' = snapshot \ {m}
    /\ result' = [result EXCEPT ![<<m.from, ProtoOf(m.content), m.id>>] = None]
    /\ UNCHANGED <<stores, images, worker, net, history>>

-----------------------------------------------------------------------------
(* The user's operations *)

Sending(n, p, c, state) == [sending EXCEPT ![<<n, p, c>>] = state]

\* Whoever has the file open does not make it whole any more.
Abandoned(n, c) ==
    [k \in Node \X Node \X Image |->
        IF k[1] = n /\ k[3] = c /\ sending[k] = "writing" THEN "lost" ELSE sending[k]]

\* Is there a file for the image, whole or not?
There(n, c) == <<n, c>> \in files \cup partial

\* Send of an image, up to os.Stat: a file that is there is taken as it is.
\* (One call at a time for the same image and peer.)
SendImage(n, p, c) ==
    /\ <<n, p, c>> \in Talk
    /\ c \in Image
    /\ seq[<<n, p>>] < MaxSend
    /\ sending[<<n, p, c>>] = "no"
    /\ sending' = Sending(n, p, c, IF There(n, c) THEN "ready" ELSE "missing")
    /\ UNCHANGED <<stores, files, partial, local, net, history>>

\* os.WriteFile creates the file, or truncates one that is there by now ...
OpenImage(n, p, c) ==
    /\ c \in Image
    /\ sending[<<n, p, c>>] = "missing"
    /\ files' = files \ {<<n, c>>}
    /\ partial' = partial \cup {<<n, c>>}
    /\ sending' = [Abandoned(n, c) EXCEPT ![<<n, p, c>>] = "writing"]
    /\ UNCHANGED <<stores, local, net, history>>

\* ... and writes it.
WriteImage(n, p, c) ==
    /\ c \in Image
    /\ sending[<<n, p, c>>] \in {"writing", "lost"}
    /\ IF sending[<<n, p, c>>] = "writing"
       THEN files' = files \cup {<<n, c>>} /\ partial' = partial \ {<<n, c>>}
       ELSE UNCHANGED <<files, partial>>
    /\ sending' = Sending(n, p, c, "ready")
    /\ UNCHANGED <<stores, local, net, history>>

\* Send of a text, or of an image that has its file: a record and a pending
\* entry in one transaction, then AsyncSend.
Send(n, p, c) ==
    LET i == seq[<<n, p>>] + 1 IN
    /\ <<n, p, c>> \in Talk
    /\ c \in Image => sending[<<n, p, c>>] = "ready"
    /\ seq[<<n, p>>] < MaxSend
    /\ seq' = [seq EXCEPT ![<<n, p>>] = i]
    /\ dialogue' = [dialogue EXCEPT ![<<n, p, i>>] =
                      [content |-> c, reached |-> FALSE, initiator |-> TRUE, fresh |-> TRUE]]
    /\ pending' = pending \cup {<<n, p, i>>}
    /\ burning' = IF c \in Burn THEN burning \cup {<<n, p, i>>} ELSE burning
    /\ sending' = IF c \in Image THEN Sending(n, p, c, "no") ELSE sending
    /\ snapshot' = snapshot \cup View(n, p, dialogue', pending')
    /\ sent' = sent \cup {<<n, p, i, c>>}
    /\ UNCHANGED <<received, files, partial, worker, result, net, got, arrived>>

\* Send of an image fails, at its file or in the transaction: the file stays
\* as it is.
SendError(n, p, c) ==
    /\ "fail" \in Ops
    /\ c \in Image
    /\ sending[<<n, p, c>>] # "no"
    /\ sending' = Sending(n, p, c, "no")
    /\ UNCHANGED <<stores, files, partial, local, net, history>>

\* DelMessages: the records go, their pending entries stay.
DelMessages(n, p, ids) ==
    /\ "delete" \in Ops
    /\ dialogue' = [k \in Key |->
                      IF k[1] = n /\ k[2] = p /\ k[3] \in ids THEN None ELSE dialogue[k]]
    /\ UNCHANGED <<seq, pending, received, burning, images, local, net, history>>

\* FlushMessages: the bucket is replaced, and its sequence restarts at 1.
FlushMessages(n, p) ==
    /\ "flush" \in Ops
    /\ dialogue' = [k \in Key |-> IF k[1] = n /\ k[2] = p THEN None ELSE dialogue[k]]
    /\ seq' = [seq EXCEPT ![<<n, p>>] = 0]
    /\ UNCHANGED <<pending, received, burning, images, local, net, history>>

-----------------------------------------------------------------------------
(* The receive loop: every request first retries what is pending for its   *)
(* sender, then is handled.                                                *)

Consume(r) ==
    /\ requests' = requests \ {r}
    /\ snapshot' = snapshot \cup View(r.to, r.from, dialogue, pending)

Respond(r, kind, ok) ==
    responses' = responses \cup
        {[kind |-> kind, proto |-> r.proto, from |-> r.to, to |-> r.from,
          id |-> r.id, ok |-> ok]}

\* Mutant: the record is put under the sender's id.
StoreUnderSendersId(r) ==
    /\ seq[<<r.to, r.from>>] < MaxSeq
    /\ seq' = [seq EXCEPT ![<<r.to, r.from>>] = @ + 1]
    /\ dialogue' = [dialogue EXCEPT ![<<r.to, r.from, r.id>>] =
                      [content |-> r.content, reached |-> TRUE, initiator |-> FALSE,
                       fresh |-> TRUE]]
    /\ received' = received \cup {<<r.to, r.from, r.id>>}
    /\ burning' = IF r.content \in Burn THEN burning \cup {<<r.to, r.from, r.id>>} ELSE burning
    /\ got' = got \cup {<<r.from, r.to, r.id, r.content>>}

\* Mutant: the received bucket gets the receiver's id.
StoreReceivedOwnId(r) ==
    LET i == seq[<<r.to, r.from>>] + 1 IN
    /\ seq[<<r.to, r.from>>] < MaxSeq
    /\ seq' = [seq EXCEPT ![<<r.to, r.from>>] = i]
    /\ dialogue' = [dialogue EXCEPT ![<<r.to, r.from, i>>] =
                      [content |-> r.content, reached |-> TRUE, initiator |-> FALSE,
                       fresh |-> TRUE]]
    /\ received' = received \cup {<<r.to, r.from, i>>}
    /\ burning' = IF r.content \in Burn THEN burning \cup {<<r.to, r.from, i>>} ELSE burning
    /\ got' = got \cup {<<r.from, r.to, r.id, r.content>>}

\* The transaction that stores a received payload: under an id of the
\* receiver's own dialogue, the sender's id going to the received bucket.
Store(r) ==
    LET i == seq[<<r.to, r.from>>] + 1 IN
    /\ seq[<<r.to, r.from>>] < MaxSeq
    /\ seq' = [seq EXCEPT ![<<r.to, r.from>>] = i]
    /\ dialogue' = [dialogue EXCEPT ![<<r.to, r.from, i>>] =
                      [content |-> r.content, reached |-> TRUE, initiator |-> FALSE,
                       fresh |-> TRUE]]
    /\ received' = received \cup {<<r.to, r.from, r.id>>}
    /\ burning' = IF r.content \in Burn THEN burning \cup {<<r.to, r.from, i>>} ELSE burning
    /\ got' = got \cup {<<r.from, r.to, r.id, r.content>>}

\* Mutant: the response carries the action of the request.
HandleSyncTextEcho(r) ==
    /\ r.kind = "ReqSyncText"
    /\ Consume(r)
    /\ Store(r)
    /\ Respond(r, "ReqSyncText", TRUE)
    /\ UNCHANGED <<pending, images, worker, result, sent, arrived>>

HandleSyncText(r) ==
    /\ r.kind = "ReqSyncText"
    /\ Consume(r)
    /\ Store(r)
    /\ Respond(r, "RespSyncText", TRUE)
    /\ UNCHANGED <<pending, images, worker, result, sent, arrived>>

\* Mutant: a file of that name will do.
HandleSyncHashByName(r) ==
    /\ r.kind = "ReqSyncHash"
    /\ There(r.to, r.content)
    /\ Consume(r)
    /\ Store(r)
    /\ Respond(r, "RespSyncHash", TRUE)
    /\ UNCHANGED <<pending, images, worker, result, sent, arrived>>

\* The image is in the directory, with the md5 of its name: it is not
\* transferred again.
HandleSyncHash(r) ==
    /\ r.kind = "ReqSyncHash"
    /\ <<r.to, r.content>> \in files
    /\ Consume(r)
    /\ Store(r)
    /\ Respond(r, "RespSyncHash", TRUE)
    /\ UNCHANGED <<pending, images, worker, result, sent, arrived>>

\* It is not there; or it is not whole and is removed, from under a Send that
\* is still writing it as well.
HandleSyncHashMiss(r) ==
    /\ r.kind = "ReqSyncHash"
    /\ <<r.to, r.content>> \notin files
    /\ Consume(r)
    /\ Respond(r, "RespSyncHash", FALSE)
    /\ partial' = partial \ {<<r.to, r.content>>}
    /\ sending' = Abandoned(r.to, r.content)
    /\ UNCHANGED <<stores, files, worker, result, history>>

\* The bytes are written, over whatever is there, and named by their own hash.
Written(r) ==
    /\ files' = files \cup {<<r.to, r.content>>}
    /\ partial' = partial \ {<<r.to, r.content>>}
    /\ UNCHANGED sending

HandleSyncBytes(r) ==
    /\ r.kind = "ReqSyncBytes"
    /\ Consume(r)
    /\ Written(r)
    /\ Store(r)
    /\ Respond(r, "RespSyncBytes", TRUE)
    /\ UNCHANGED <<pending, worker, result, sent, arrived>>

\* Mutant: the id is looked up in the receiver's own dialogue.
HandleExistInDialogue(r) ==
    /\ r.kind = "ReqExistence"
    /\ Consume(r)
    /\ Respond(r, "RespExistence", dialogue[<<r.to, r.from, r.id>>] # None)
    /\ UNCHANGED <<stores, images, worker, result, history>>

HandleExist(r) ==
    /\ r.kind = "ReqExistence"
    /\ Consume(r)
    /\ Respond(r, "RespExistence", <<r.to, r.from, r.id>> \in received)
    /\ UNCHANGED <<stores, images, worker, result, history>>

\* The disk or the database fails, or bytes cut off too early are no image:
\* logged, and no response is sent.  The file of the bytes is not there, whole,
\* or broken off.
HandleError(r) ==
    /\ \/ "fail" \in Ops /\ r.kind # "ReqExistence"
       \/ /\ seq[<<r.to, r.from>>] = MaxSeq
          /\ \/ r.kind \in {"ReqSyncText", "ReqSyncBytes"}
             \/ r.kind = "ReqSyncHash" /\ <<r.to, r.content>> \in files
       \/ r.kind = "ReqSyncBytes" /\ r.content = Torn
    /\ Consume(r)
    /\ \/ UNCHANGED images
       \/ r.kind = "ReqSyncBytes" /\ Written(r)
       \/ /\ r.kind = "ReqSyncBytes"
          /\ "fail" \in Ops
          /\ files' = files \ {<<r.to, r.content>>}
          /\ partial' = partial \cup {<<r.to, r.content>>}
          /\ sending' = Abandoned(r.to, r.content)
    /\ UNCHANGED <<stores, worker, result, responses, history>>

-----------------------------------------------------------------------------
(* Responses and the workers that wait for them *)

\* handleMeta: the channel is looked up by id alone, whoever answers and
\* whatever was asked, and takes one answer.
HandleResponse(a) ==
    LET p == result[<<a.to, a.proto, a.id>>] IN
    /\ p # None
    /\ worker[<<a.to, p, a.id>>].chan = None
    /\ responses' = responses \ {a}
    /\ worker' = [worker EXCEPT ![<<a.to, p, a.id>>].chan = [kind |-> a.kind, ok |-> a.ok]]
    /\ UNCHANGED <<stores, images, snapshot, result, requests, history>>

\* Nobody waits under that id, or the channel is full.
DropResponse(a) ==
    LET p == result[<<a.to, a.proto, a.id>>] IN
    /\ p # None => worker[<<a.to, p, a.id>>].chan # None
    /\ responses' = responses \ {a}
    /\ UNCHANGED <<stores, images, local, requests, history>>

\* Mutant: Request returns without its deferred delete.
ExitRegistered(n, p, i) ==
    /\ worker' = [worker EXCEPT ![<<n, p, i>>] = None]
    /\ UNCHANGED result

\* The deferred delete of Request and of the recorder: the goroutine ends.
Exit(n, p, i) ==
    /\ worker' = [worker EXCEPT ![<<n, p, i>>] = None]
    /\ result' = [result EXCEPT ![<<n, ProtoOf(worker[<<n, p, i>>].content), i>>] = None]

Answered(n, p, i) ==
    /\ worker[<<n, p, i>>] # None
    /\ worker[<<n, p, i>>].chan # None

\* The receiver does not have the image: its bytes are needed.
BytesNeeded(w) == w.stage = "ReqSyncHash" /\ ~w.chan.ok

\* Mutant: an answered check removes the pending entry only if the answer is yes.
CommitKeepPending(n, p, i) ==
    LET w == worker[<<n, p, i>>]
        confirmed == w.mode = "send" \/ w.chan.ok
    IN
    /\ Answered(n, p, i)
    /\ ~BytesNeeded(w)
    /\ dialogue' = IF confirmed /\ dialogue[<<n, p, i>>] # None
                   THEN [dialogue EXCEPT ![<<n, p, i>>].reached = TRUE]
                   ELSE dialogue
    /\ pending' = IF confirmed THEN pending \ {<<n, p, i>>} ELSE pending
    /\ arrived' = IF w.mode = "send" \/ w.reached
                  THEN arrived \cup {<<n, p, i>>} ELSE arrived
    /\ Exit(n, p, i)
    /\ UNCHANGED <<seq, received, burning, images, snapshot, net, sent, got>>

\* Mutant: the transaction writes the snapshot back, whether the record is there or not.
CommitWriteBack(n, p, i) ==
    LET w == worker[<<n, p, i>>]
        confirmed == w.mode = "send" \/ w.chan.ok
    IN
    /\ Answered(n, p, i)
    /\ ~BytesNeeded(w)
    /\ dialogue' = IF confirmed
                   THEN [dialogue EXCEPT ![<<n, p, i>>] =
                           [content |-> w.content, reached |-> TRUE, initiator |-> TRUE,
                            fresh |-> w.mode = "send"]]
                   ELSE dialogue
    /\ pending' = pending \ {<<n, p, i>>}
    /\ arrived' = IF w.mode = "send" \/ w.reached
                  THEN arrived \cup {<<n, p, i>>} ELSE arrived
    /\ Exit(n, p, i)
    /\ UNCHANGED <<seq, received, burning, images, snapshot, net, sent, got>>

\* Mutant: the event follows every answer.
CommitAlwaysNotifies(n, p, i) ==
    LET w == worker[<<n, p, i>>]
        confirmed == w.mode = "send" \/ w.chan.ok
    IN
    /\ Answered(n, p, i)
    /\ ~BytesNeeded(w)
    /\ dialogue' = IF confirmed /\ dialogue[<<n, p, i>>] # None
                   THEN [dialogue EXCEPT ![<<n, p, i>>].reached = TRUE]
                   ELSE dialogue
    /\ pending' = pending \ {<<n, p, i>>}
    /\ arrived' = arrived \cup {<<n, p, i>>}
    /\ Exit(n, p, i)
    /\ UNCHANGED <<seq, received, burning, images, snapshot, net, sent, got>>

\* The last answer is in: the message is confirmed, or, when an existence
\* check is answered no, given up.  The event depends on the snapshot in a
\* check, which the transaction does not update.
Commit(n, p, i) ==
    LET w == worker[<<n, p, i>>]
        confirmed == w.mode = "send" \/ w.chan.ok
    IN
    /\ Answered(n, p, i)
    /\ ~BytesNeeded(w)
    /\ dialogue' = IF confirmed /\ dialogue[<<n, p, i>>] # None
                   THEN [dialogue EXCEPT ![<<n, p, i>>].reached = TRUE]
                   ELSE dialogue
    /\ pending' = pending \ {<<n, p, i>>}
    /\ arrived' = IF w.mode = "send" \/ w.reached
                  THEN arrived \cup {<<n, p, i>>} ELSE arrived
    /\ Exit(n, p, i)
    /\ UNCHANGED <<seq, received, burning, images, snapshot, net, sent, got>>

\* What os.ReadFile returns of an image whose file is there.
Read(n, c) == IF <<n, c>> \in files THEN c ELSE Torn

\* The second request of an image, on a channel of its own, with whatever its
\* file holds.
SendBytes(n, p, i) ==
    LET w == worker[<<n, p, i>>] IN
    /\ Answered(n, p, i)
    /\ BytesNeeded(w)
    /\ w.chan.kind = "RespSyncHash"
    /\ There(n, w.content)
    /\ worker' = [worker EXCEPT ![<<n, p, i>>] = [w EXCEPT !.stage = "ReqSyncBytes",
                                                           !.chan = None]]
    /\ result' = [result EXCEPT ![<<n, "image", i>>] = p]
    /\ requests' = requests \cup {RequestOf(n, p, i, "ReqSyncBytes", Read(n, w.content))}
    /\ UNCHANGED <<stores, images, snapshot, responses, history>>

\* The image file cannot be read, or the bytes cannot be sent.
SendBytesError(n, p, i) ==
    /\ Answered(n, p, i)
    /\ BytesNeeded(worker[<<n, p, i>>])
    /\ Ops \cap {"lose", "fail"} # {} \/ ~There(n, worker[<<n, p, i>>].content)
    /\ worker[<<n, p, i>>].chan.kind = "RespSyncHash"
    /\ Exit(n, p, i)
    /\ UNCHANGED <<stores, images, snapshot, net, history>>

\* Everything a process keeps in memory; a file that it was writing stays broken
\* off.
Crash(n) ==
    /\ snapshot' = { m \in snapshot : m.from # n }
    /\ worker' = [k \in Key |-> IF k[1] = n THEN None ELSE worker[k]]
    /\ result' = [k \in Node \X Proto \X Id |-> IF k[1] = n THEN None ELSE result[k]]
    /\ sending' = [k \in Node \X Node \X Image |-> IF k[1] = n THEN "no" ELSE sending[k]]

\* The hash request is answered by something that is no RespSyncHash: the
\* unchecked type assertion panics and the process goes down.
Panic(n, p, i) ==
    /\ Answered(n, p, i)
    /\ BytesNeeded(worker[<<n, p, i>>])
    /\ worker[<<n, p, i>>].chan.kind # "RespSyncHash"
    /\ Crash(n)
    /\ UNCHANGED <<stores, files, partial, net, history>>

\* The context of the request ends.  Unless "stall" is modelled, an AsyncSend
\* never takes as long as MessageSendTimeout from its read to its last worker.
Timeout(n, p, i) ==
    /\ worker[<<n, p, i>>] # None
    /\ \/ "stall" \in Ops
       \/ \A m \in snapshot : <<m.from, m.to, m.id>> # <<n, p, i>>
    /\ Exit(n, p, i)
    /\ UNCHANGED <<stores, images, snapshot, net, history>>

-----------------------------------------------------------------------------
(* The environment *)

\* A pending message gets older than MessageSendingPeriod (nobody reads the
\* age of another one).
Age(n, p, i) ==
    /\ "age" \in Ops
    /\ <<n, p, i>> \in pending
    /\ dialogue[<<n, p, i>>] # None
    /\ dialogue[<<n, p, i>>].fresh
    /\ dialogue' = [dialogue EXCEPT ![<<n, p, i>>].fresh = FALSE]
    /\ UNCHANGED <<seq, pending, received, burning, images, local, net, history>>

\* The destroy loop takes a message away; the entry that named it stays.
Destroy(n, p, i) ==
    /\ "destroy" \in Ops
    /\ <<n, p, i>> \in burning
    /\ dialogue' = [dialogue EXCEPT ![<<n, p, i>>] = None]
    /\ pending' = pending \ {<<n, p, i>>}
    /\ UNCHANGED <<seq, received, burning, images, local, net, history>>

\* The process stops and starts again on its database.
Restart(n) ==
    /\ "restart" \in Ops
    /\ Crash(n)
    /\ UNCHANGED <<stores, files, partial, net, history>>

LoseRequest(r) ==
    /\ "lose" \in Ops
    /\ requests' = requests \ {r}
    /\ UNCHANGED <<stores, images, local, responses, history>>

LoseResponse(a) ==
    /\ "lose" \in Ops
    /\ responses' = responses \ {a}
    /\ UNCHANGED <<stores, images, local, requests, history>>

-----------------------------------------------------------------------------
\* What the user sees of a dialogue, and can delete.
Listed(n, p) == {i \in Id : dialogue[<<n, p, i>>] # None}

UserStep ==
    \E n, p \in Node :
        \/ AsyncSend(n, p)
        \/ \E c \in Content : 
              \/ SendImage(n, p, c) \/ OpenImage(n, p, c) \/ WriteImage(n, p, c)
              \/ Send(n, p, c) \/ SendError(n, p, c)
        \/ \E ids \in SUBSET Listed(n, p) : DelMessages(n, p, ids)
        \/ FlushMessages(n, p)

SnapshotStep ==
    \E m \in snapshot : LaunchSkip(m) \/ Launch(m) \/ LaunchError(m)

Handle(r) ==
    \/ HandleSyncText(r)
    \/ HandleSyncHash(r)
    \/ HandleSyncHashMiss(r)
    \/ HandleSyncBytes(r)
    \/ HandleExist(r)
    \/ HandleError(r)

RequestStep == \E r \in requests : Handle(r) \/ LoseRequest(r)

ResponseStep ==
    \E a \in responses : HandleResponse(a) \/ DropResponse(a) \/ LoseResponse(a)

WorkerStep ==
    \E n, p \in Node, i \in Id :
        \/ Commit(n, p, i)
        \/ SendBytes(n, p, i)
        \/ SendBytesError(n, p, i)
        \/ Panic(n, p, i)
        \/ Timeout(n, p, i)

EnvironmentStep ==
    \/ \E n, p \in Node, i \in Id : Age(n, p, i) \/ Destroy(n, p, i)
    \/ \E n \in Node : Restart(n)

Next ==
    \/ UserStep
    \/ SnapshotStep
    \/ RequestStep
    \/ ResponseStep
    \/ WorkerStep
    \/ EnvironmentStep

Spec == Init /\ [][Next]_vars

Talks(n, p) == \E c \in Content : <<n, p, c>> \in Talk

\* Fairness.  Goroutines run, time passes, packets that are not lost arrive and
\* the receive loop gets to them; and messages are retried as long as the
\* sender's application goes on probing its peers.  Strong fairness says that
\* the network is timely now and then: of the requests that a worker waits for,
\* and of their answers, not every one comes just after MessageSendTimeout.
Fairness ==
    \A n, p \in Node, i \in 1..MaxSend : Talks(n, p) =>
        /\ WF_vars(AsyncSend(n, p))
        /\ \A mode \in Mode :
              SF_vars(\E m \in snapshot :
                        /\ <<m.from, m.to, m.id>> = <<n, p, i>>
                        /\ m.mode = mode
                        /\ (LaunchSkip(m) \/ Launch(m)))
        /\ \A stage \in Stage :
              WF_vars(\E r \in requests :
                        /\ <<r.from, r.to, r.id>> = <<n, p, i>>
                        /\ r.kind = stage
                        /\ Handle(r))
        /\ \A kind \in RespKind :
              WF_vars(\E r \in responses :
                        /\ <<r.to, r.from, r.id>> = <<n, p, i>>
                        /\ r.kind = kind
                        /\ (HandleResponse(r) \/ DropResponse(r)))
        /\ SF_vars(\E r \in requests :
                     /\ <<r.from, r.to, r.id>> = <<n, p, i>>
                     /\ worker[<<n, p, i>>] # None
                     /\ r.kind = worker[<<n, p, i>>].stage
                     /\ Handle(r))
        /\ SF_vars(\E r \in responses :
                     <<r.to, r.from, r.id>> = <<n, p, i>> /\ HandleResponse(r))
        /\ SF_vars(Commit(n, p, i) \/ SendBytes(n, p, i))
        /\ SF_vars(Timeout(n, p, i))
        /\ WF_vars(Age(n, p, i))

FairSpec == Spec /\ Fairness

-----------------------------------------------------------------------------
(* Properties *)

\* The shape of the state.
TypeOK ==
    /\ dialogue \in [Key -> Message \cup {None}]
    /\ seq \in [Node \X Node -> 0..MaxSeq]
    /\ pending \subseteq Key
    /\ received \subseteq Key
    /\ burning \subseteq Key
    /\ files \subseteq Node \X Image
    /\ partial \subseteq Node \X Image
    /\ sending \in [Node \X Node \X Image -> Writing]
    /\ snapshot \subseteq Snapshot
    /\ worker \in [Key -> Worker \cup {None}]
    /\ result \in [Node \X Proto \X Id -> Node \cup {None}]
    /\ requests \subseteq Request
    /\ responses \subseteq Response
    /\ sent \subseteq Node \X Node \X Id \X Content
    /\ got \subseteq Node \X Node \X Id \X Content
    /\ arrived \subseteq Key

\* A pending message, one that Send gave its id, does not stay pending: it is
\* confirmed, or its receiver says that it never got it, or the user deletes it.
EventuallySettled ==
    \A n, p \in Node, i \in 1..MaxSend : Talks(n, p) =>
        <<n, p, i>> \in pending ~> <<n, p, i>> \notin pending \/ dialogue[<<n, p, i>>] = None

Own(n, p, i) == dialogue[<<n, p, i>>] # None /\ dialogue[<<n, p, i>>].initiator

\* A message that its sender's history shows as reached is in its receiver's
\* store: what Reached means, whatever answers were late or lost.
ReachedMeansDelivered ==
    \A n, p \in Node, i \in Id :
        Own(n, p, i) /\ dialogue[<<n, p, i>>].reached =>
            <<n, p, i, dialogue[<<n, p, i>>].content>> \in got

\* The same of text messages only.
ReachedTextDelivered ==
    \A n, p \in Node, i \in Id :
        Own(n, p, i) /\ dialogue[<<n, p, i>>].reached /\ dialogue[<<n, p, i>>].content \in Text =>
            <<n, p, i, dialogue[<<n, p, i>>].content>> \in got

\* A message young enough to be sent is never given up: AsyncSend takes it out
\* of the pending bucket unreached only after an existence check, and no check
\* of it exists before it is old.
FreshStaysPending ==
    \A n, p \in Node, i \in Id :
        Own(n, p, i) /\ dialogue[<<n, p, i>>].fresh /\ ~dialogue[<<n, p, i>>].reached =>
            <<n, p, i>> \in pending

\* The text messages are delivered as Delivery promises.
Texts(tuples) == { t \in tuples : t[4] \in Text }
Promise == INSTANCE Delivery WITH
    Payload <- Text,
    submitted <- Texts(sent),
    stored <- Texts(got),
    confirmed <- { t \in Texts(sent) : /\ Own(t[1], t[2], t[3])
                                       /\ dialogue[<<t[1], t[2], t[3]>>].reached },
    notified <- { t \in Texts(sent) : <<t[1], t[2], t[3]>> \in arrived }
ImplementsDelivery == Promise!Spec

\* A record never turns into another message and never loses its reached mark
\* while it stays: late goroutines only ever confirm what they were started for.
RecordsAreStable ==
    [][\A n, p \in Node, i \in Id :
          dialogue[<<n, p, i>>] # None /\ dialogue'[<<n, p, i>>] # None =>
              /\ dialogue'[<<n, p, i>>].content = dialogue[<<n, p, i>>].content
              /\ dialogue'[<<n, p, i>>].initiator = dialogue[<<n, p, i>>].initiator
              /\ dialogue[<<n, p, i>>].reached => dialogue'[<<n, p, i>>].reached]_vars

\* What the user deleted, or the destroy loop took, does not come back: a record
\* appears only under the id the bucket's sequence hands out with it.
NothingResurrected ==
    [][\A n, p \in Node, i \in Id :
          dialogue[<<n, p, i>>] = None /\ dialogue'[<<n, p, i>>] # None =>
              /\ seq'[<<n, p>>] = i
              /\ seq[<<n, p>>] = i - 1]_vars

\* A channel registered for answers is one a worker still waits on: Request's
\* deferred delete leaves none behind, whoever else used the id.
RegisteredIsAwaited ==
    \A n \in Node, proto \in Proto, i \in Id :
        LET p == result[<<n, proto, i>>] IN
        p # None => /\ worker[<<n, p, i>>] # None
                    /\ ProtoOf(worker[<<n, p, i>>].content) = proto

\* A received image is recorded only with a whole file in the directory: what a
\* failed write, a crash or a Send under way left there under its name is not
\* taken for it.
ReceivedIsWhole ==
    [][\A n, p \in Node, i \in Id :
          LET m == dialogue'[<<n, p, i>>] IN
          dialogue[<<n, p, i>>] = None /\ m # None /\ ~m.initiator /\ m.content \in Image =>
              <<n, m.content>> \in files']_vars
=============================================================================
