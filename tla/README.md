# Verification of chat-libp2p

TLA+ models of the chat client, the TLC runs that check them on small instances,
and proofs of their main properties for every size that TLAPS checks. Paths below
are relative to the root of the repository's sources.

1. [The system](#1-the-system)
2. [Modules](#2-modules)
3. [Messaging](#3-messaging): sending, retrying and storing messages
4. [PeerSave](#4-peersave): the peer store and the identify protocol
5. [Streams](#5-streams): cached streams, frames and retries
6. [ClientLife and Supervisor](#6-clientlife-and-supervisor): the clients of the SDK
7. [Session](#7-session): sessions and the probe
8. [Destroy](#8-destroy): the loop that burns messages
9. [Runs](#9-runs)
10. [Proofs](#10-proofs)
11. [Three places where the code does not do what it says](#11-three-places-where-the-code-does-not-do-what-it-says)
12. [What is not modelled](#12-what-is-not-modelled)

## 1. The system

A peer-to-peer messenger. A client is a libp2p node with a bbolt database; a
server is a relay and bootstrap node. Two clients talk over four small protocols
(text, image, identify, heartbeat), each over its own streams. An application
(the mobile SDK, or the JSON command loop of the desktop client) drives a client.

| component | state | operations | works with |
|---|---|---|---|
| **Message service** `internal/client/service/message.go`, `service.go` | per peer: a dialogue bucket (id -> record), a pending bucket (ids to deliver), a received bucket (ids the peer gave to what it delivered here); one destroy bucket; the image directory; in memory the recorder `sending` of messages with a goroutine, two notifier channels | `Send`, `AsyncSend` and the goroutine it starts per message, the receive loop with `syncText`, `syncHash`, `syncBytes`, `textExist`, `imageExist`, `destory`, `DelMessages`, `FlushMessages`, queries | text and image protocols (calls; their receiver channels), peer store (call of `Save`), the SDK (notifiers) |
| **Text and image protocols** `internal/common/protocol/text`, `image` | map `result` id -> channel, a receiver channel of 1000 | `Request`, `Send`, `handleMeta` (answers), `handleData` (requests) | stream manager (streams; callbacks from its read loops) |
| **Stream manager** `internal/common/xrmmgr.go` | one cached stream per peer and protocol | `GetStream` with and without cache, `handle` with the tie-break of two streams opened at once, `readLoop`, `WriteWithContext` | libp2p; the frame reader |
| **Frames** `internal/common/protocol/frame.go`, `reader.go` | none; a buffered reader | encode, decode, `Reader.Read` | stream manager |
| **Heartbeat and probe** `protocol/heartbeat`, `service/probe.go` | the run mutex and the stop function of the round under way, a status channel of one | `Run`, `Stop`, the loop of a round | peer store, sessions |
| **Peer store and identify** `service/peer.go`, `protocol/identify` | the peer bucket; a `sync.Map` peer -> mutex or mark; map `result` of 16-bit query ids | `Save`, `SetEVMAddr`, `SetRemark`, `SetPin`, `QueryEVM`, `handleMeta`, `handleData`, `Find`, `FindAllWithoutLocal` | receive loop, probe and `Run` (callers) |
| **Client and mobile SDK** `internal/client/client.go`, `cmd/client/mobile` | the client, the channels `OK`, `halt`; the SDK's client, session, notifier, event channel, stopper | `Run`, `Close`; `Init` with its supervising goroutine, `OpenSession`, `GetNotifier`, the status loop | everything above |
| Configuration, route, database `internal/client/config.go`, `route.go`, `database` | a parsed file, a DHT, an open database | load, wrap, open | client |
| Server `internal/server`, `cmd/server` | configuration with a debounce of its changes | start a relay | clients, through libp2p |
| Desktop client, logger `cmd/client/pc`, `pkg/logger` | none of their own | a command loop, log lines | SDK |

**What is hard about it.**

* *Message service and protocols.* A message is read by `AsyncSend` in one
  transaction, worked on by a goroutine for seconds, and confirmed in another
  one, while the user deletes it, the destroy loop burns it, its age moves it
  from "send" to "check", or the process restarts. Requests and answers are lost,
  late and out of order; answers are matched to requests by an id alone.
  Correct means: what is shown as reached was stored; nothing is given up before
  its time; nothing deleted comes back; every message is settled in the end.
* *Stream manager.* Two nodes open streams to each other at once; a cached
  stream dies under its users; frames of several goroutines go out in chunks.
  Correct means: both ends use the same stream, the retry without the cache gets
  a live one, and frames arrive whole.
* *Peer store.* Three goroutines meet at one peer; the query takes seconds
  between two transactions. Correct means: one works at a time, a failure leaves
  the peer to the next, no address goes to the wrong peer, nothing the user wrote
  is lost, nobody waits for ever.
* *Probe, sessions, SDK.* Rounds, sessions and clients replace one another by
  stop functions, channels and mutexes. Correct means: one round at a time, a
  replaced one ends, `Close` ends everything and cannot be blocked.
* *Destroy loop.* A clock, a cursor over expiry times and a database that other
  operations change. Correct means: what is due is destroyed, what is not stays.

`PROJECT.json` lists these hazards one by one, with the line where each bites and
the properties that would catch it.

## 2. Modules

| module | what it is |
|---|---|
| `Messaging` | message service and text/image protocols of all nodes, with the network, the user, time and restarts; its properties |
| `Delivery` | what the service promises about text messages, without goroutines, packets or retries |
| `MessagingProofs` | the inductive invariants behind the properties of messages, and what holds in every environment: types, records, deletion, received images |
| `MessagingAgreement` | agreement of the whole state on what an id means; nothing young is given up |
| `MessagingDelivered` | reached means stored; `Messaging` implements `Delivery` |
| `MCMessaging` | the small worlds of the six runs |
| `PeerSave` | the peer store, the identify protocol and the callers of `Save`; its properties |
| `PeerSaveProofs` | the inductive invariant and proofs of `PeerSave` |
| `MCPeerSave` | the small worlds of its two runs |
| `Streams` | the stream manager and the frames on its streams, with the senders that use it; its properties |
| `StreamsProofs` | the inductive invariants behind the properties of `Streams` (caches, frames, the stream both peers use), and proofs of what one node makes of its streams: caches, retries |
| `StreamsPeers` | proofs of what both ends make of a stream: frames, agreement |
| `MCStreams` | the small world of its run |
| `ClientLife` | what the users of the SDK's client see of it: starting, ready, ended, replaced |
| `Supervisor` | `Init` and `Close` of the mobile SDK and the clients they start; implements `ClientLife` |
| `SupervisorProofs` | its inductive invariant, proofs and the refinement |
| `MCSupervisor` | the small world of its run |
| `Session` | sessions of the SDK and the probe of a client, over clients that behave as `ClientLife` says |
| `SessionProofs` | its inductive invariant and proofs |
| `MCSession` | the small world of its run |
| `Destroy`, `MCDestroy` | the destroy loop with its clock and its entries, and the world of its run |

Definitions whose comment begins with *Mutant* are bugs put in on purpose; no
specification uses them. They show that each property would notice the bug.

How the modules fit together. `Messaging` and `PeerSave` take the network as something
that loses, delays and reorders packets, which is what `Streams` leaves of a frame when
streams end; `Streams` takes libp2p's streams as ordered while they last. `Messaging`
and `PeerSave` have a `Restart` at any moment: the replacement of a client by
`Supervisor`. `Session` assumes the steps of `ClientLife` of the SDK's client, and
`Supervisor` is shown to implement them; the liveness that `Session` takes for
granted of superseded clients is `StoppedEnds` of `Supervisor`. `Messaging` lets
the destroy loop take any burning message at any time, which covers what `Destroy`
shows the loop to do.

## 3. Messaging

### State

`dialogue`, `seq`, `pending`, `received`, `burning` are the buckets (`seq` is the
bucket's own counter of `NextSequence`). `files` are the files of the image directories
that are whole, `partial` those that are not: being written, or broken off by an error or a
crash. `sending` says where a call of `Send` with its image is. `worker`
is the goroutine of a message and at the same time the recorder `sending`, which
has an entry exactly while a goroutine works. `snapshot` holds what an
`AsyncSend` read and did not yet start. `result` is the map of the protocols: for
each node, protocol and id, the peer whose goroutine registered last.
`requests` and `responses` are packets. `sent`, `got` and `arrived` are history
variables: nothing but the properties reads them.

A payload is a model value, text or image; an image stands for its hash. `Torn` is the image
that a file holds which is not whole: what is sent in the bytes of such a file, and stored by
the receiver under a name of its own. Of a record, the payload, `Reached`, `Initiator` and
whether it is younger than `MessageSendingPeriod` decide what the service does; the rest is
left out.

### Actions and code

| actions | code |
|---|---|
| `SendImage`, `OpenImage`, `WriteImage`, `Send`, `SendError` | `Message.Send`: `os.Stat` takes a file that is there as it is (`message.go:522`), else `os.WriteFile` creates and writes it (526); then record and pending entry in one transaction, and `AsyncSend`. When a step fails the file stays as it is |
| `AsyncSend`, `View` | the read transaction of `AsyncSend`; young messages are sent, old ones checked |
| `LaunchSkip`, `Launch`, `LaunchError` | the goroutine finds the id in the recorder, or registers its channel and sends its first request, or gets no stream |
| `HandleSyncText`, `HandleSyncHash`, `HandleSyncHashMiss`, `HandleSyncBytes`, `HandleExist`, `HandleError` | the receive loop: retry what is pending for the sender (`Consume`), run the handler, answer. A file without the md5 of its name is removed (`message.go:289`), from under a `Send` that writes it as well; received bytes are written over whatever is there |
| `HandleResponse`, `DropResponse` | `handleMeta` of the protocol: the channel under the id takes one answer, whoever sent it |
| `Commit`, `SendBytes`, `SendBytesError`, `Panic`, `Timeout` | the goroutine goes on with its answer, or its context ends; the bytes are whatever the file holds by then (`Read`) |
| `DelMessages`, `FlushMessages` | the user; flushing starts the ids of the dialogue again |
| `Age`, `Destroy`, `Restart`, `LoseRequest`, `LoseResponse` | time, the destroy loop, the supervisor of the SDK, the network |

`Ops` names what an instance includes: `lose` (packets and streams fail), `fail` (disk and
database fail), `age`, `delete`, `flush`, `destroy`, `restart`, `stall`.

### Where the model is coarser than the code

* Packets are sets: two identical packets on their way are one. The FIFO channel
  between `handleData` and the receive loop is part of the unordered network, and
  its overflow is a loss.
* `LoadOrStore` in the recorder, the registration of the channel and the sending
  of the first request are one step (`Launch`); taking the answer from the
  channel, the transaction, and the removal of both entries are one (`Commit`).
  Between them only the goroutine's own entries are used, or a loss or a timeout
  would have the same effect.
* A failing transaction of the receiver is `HandleError`; bbolt's transactions
  are atomic and durable. `MaxSeq` bounds a dialogue; a full one fails like any
  other transaction.
* Only pending messages age, since only theirs is read, and the clock does not
  go back.
* Only texts are burnt: `Client.SendImage` always passes a ttl of 0. Which
  message the destroy loop takes, and when, is open: any that was sent to burn.
* Without `stall`, one pass of `AsyncSend`, from its read to the last goroutine it
  starts, is over before a request of the same pass times out after
  `MessageSendTimeout` (5 s). With `stall` it may take any time.
* `syncBytes` writes its file and its transaction in one step, or fails and may leave a part
  of the file (`HandleError`): the receive loop is one goroutine, and who looks at the file
  meanwhile is a `Send`, to which a file that is there is as good as any. A `Send` is in steps,
  one at a time for the same image and peer.
* The subdirectories of the image directory and the notifier channels are left out
  (section 12).

### Properties

* `ReachedTextDelivered`: a text shown as reached is in its receiver's store.
  `ReachedMeansDelivered` says it of every message, and is *false* (section 11).
* `FreshStaysPending`: a message young enough to be sent is never given up.
* `NothingResurrected`, `RecordsAreStable`: what the user or the destroy loop
  deleted does not come back under any goroutine's late transaction, and a record
  never turns into another or loses its reached mark.
* `RegisteredIsAwaited`: no channel of the result map outlives its goroutine.
* `ReceivedIsWhole`: a received image is recorded only with its whole file in the directory,
  whatever a crash, a failing disk or a `Send` under way left under its name. Nothing of the
  kind holds of the sender's own record: a torn file is taken as it is, and the receive loop may
  remove a file that is being written. Both are hazards.
* `EventuallySettled`: a pending message is confirmed, given up or deleted.
* `ImplementsDelivery`: the service is a `Delivery` of its texts.

### Fairness

`EventuallySettled` needs more than running goroutines, and `Fairness` says what:

* `WF` of `AsyncSend`. The code has no timer of its own that retries: a retry
  happens on `Send`, on a request from the peer, and on `Client.ProbeStatus`. The
  assumption is a user who goes on opening the session of the peer.
* `WF` of handling and of delivering each kind of packet of a message: the receive
  loop takes what is in its channel, and a packet arrives or is lost.
* `SF` of launching, of handling the request a goroutine waits for, of handing it
  the answer, of committing: the network is timely now and then, so that not
  every answer comes just after the timeout.
* `SF` of the timeout (the context of every request has a deadline) and `WF` of
  `Age` (time passes).

Nothing is assumed of losses, restarts or the user's other operations. Disks that fail (`fail`)
are not in `messaging_live`: with a disk that always fails nothing settles.

## 4. PeerSave

`Save` is called by the receive loop for everyone who writes (`message.go:145`),
by the probe for everyone who answers a heartbeat (`probe.go:91`) and by `Run`
for the node itself (`client.go:162`). `Caller` are these goroutines, `Saves` says
which calls an instance has.

| actions | code |
|---|---|
| `Claim`, `Await`, `Lock` | `LoadOrStore` of a locked mutex; waiting for the one that is there; looking again once it is had |
| `Update`, `UpdateError` | the transaction that finds or makes the record |
| `Query`, `QueryError`, `QueryPanic` | `QueryEVM` registers a channel under the next id and sends; no write succeeds; no stream at all, where the wrong error variable is tested (`identify.go:109`) and the write on a nil stream panics |
| `HandleMeta`, `HandleData`, `Lose` | the peer answers under the same id; the channel takes one answer; packets are lost |
| `Receive`, `Timeout` | the select of `QueryEVM` |
| `SetEVMAddr`, `SetEVMAddrError` | the second transaction reads the record again and adds the address |
| `SetRemark` | `SetRemark` and `SetPin` |
| `Restart`, `Crash` | a new process, or a new client of the SDK: its maps are empty, its ids start at 0 |

`store` is the `sync.Map`; the mutex of an entry is never replaced by another, so
`owner` has one holder per peer. What a goroutine has in its variables is
forgotten when `Save` returns. When saving the node itself fails, `Run` ends with the
error: a `Crash`. An error of the first transaction that leaves `data` without an
address is followed by the query, whose result replaces it, as in the code.

Bounds: `Width` ids instead of 65536, and no id is used again while a packet or a
goroutine still has it (`IdIsFree`); the code's counter would need 65536 queries
in the three seconds of one. Packets end with the process that asked, unless the
fault `linger` is in `Ops`: a peer has three seconds for an answer and may open a
stream to the next client within them.

Properties: `OneSaver` (a mutex is held by exactly the goroutine that works on
the peer), `SavedIsComplete` (a peer that is not queried again has its address on
disk, whichever transaction or query failed before), `OwnAddress` (the address is
that peer's own), `RecordsAreCompleted` (a record stays, its address is written
once, and what the user set during the query survives), `SaveReturns`.

`OwnAddress` depends on the ids: `handleData` does not look at who answers. With
`linger` TLC finds an exchange of addresses in twelve steps: a query with id 0 to
one peer, a restart, a query with id 0 to another, the late answer to the first.
It takes a restart within the three seconds of an answer; it is listed as a
hazard, and the run and the theorem state their assumption.

Fairness of `SaveReturns`: a goroutine inside `Save` goes on (`WF`; the query has
a deadline), a mutex is handed to who waits for it (`SF` of `Lock`; Go's mutexes
hand over to a waiter after a millisecond), packets arrive or are lost.

## 5. Streams

One protocol's stream manager at every node. A stream is a number, `link` says who
opened it to whom and whether its connection is direct. Each stream has two ends,
`end[n, s]`: opened here and not yet handled, on its way in, read by a read loop, or
gone. `shut` are the ends that a failed write closed or a reset ended, and whose
read loop has not noticed yet. `cache` is `StreamManager.streams`; `wire` holds the
chunks that were written and not read, `rest` what a reader still misses of a payload.
A sender is a goroutine inside `Send` of text, image or heartbeat, or inside `QueryEVM`:
all four get a stream, write a frame and, on an error, do both again without the cache.

| actions | code |
|---|---|
| `Send` | the first `GetStream`: the cached stream, or a new one is needed |
| `Connected` | the callback of a new direct connection: `GetStream` without the cache |
| `NewStream`, `NewStreamError` | `host.NewStream`; without a stream the sender gives up |
| `HandleOwn`, `HandleIncoming` | `handle` at the opener and at the other side: `Wins` is the tie-break, and a read loop starts in any case |
| `Look`, `LookPanic` | the second look-up of `GetStream`; the entry may be gone, then nil is returned without an error and the write on it panics |
| `Write`, `WriteError` | one chunk of `WriteWithContext`; an error closes the stream, the first one leads to the second attempt |
| `Read`, `Leave` | one chunk in `Reader.Read`; an error, the deferred removal and the close |
| `Break`, `DropIncoming` | libp2p: a stream is reset, perhaps before it was handled |

Frames are real headers (`Encode`, `Decode`) with the length of a payload, not its
bytes: a chunk is a header and a number of bytes. The run uses sizes at the limits
between the forms of a header and at the limit of a chunk (payloads of 16, whose
header has two bytes, and of 4094, which with its header of three is one byte more
than a chunk).

A *world* names the faults of a behaviour: `break`, `idle` (nothing comes for
`StreamTTL`), `timeout` (a write deadline passes), `refuse`, `direct`, `reorder`
(the streams of one side are handled in any order). The proofs hold in all of them;
the run takes one or two at a time. `Frail` bounds the streams that break or fall
idle by themselves; a write or a read may fail on any.

Where it is coarser: reading the error, removing the entry and closing are one step
(`Leave`), since a stream whose read failed is used by nobody in a way that depends on
the moment; a reset shuts both ends at once; an end of context before the write is
a call that did not happen. `LookPanic` ends all streams and goroutines of its node.

Properties: `CachedIsRead` (what is cached leads to the right peer and has a read loop,
which will take it out: no dead stream stays in the cache), `WritesAreRead` (what was written
is read in the end or lost with its stream, at both ends, also of a stream that lost against
the cached one: the other side may use it), `OnlyFailedLeaves` (the late end of an old stream does not take its successor out),
`RetryIsAfresh`, `FramesWhole`, `Agreement`, and `PeersInv`, the inductive invariants of the
proofs. Three of them have a condition, and each is a fact about the code:

* `RetryIsAfresh` is about the peer with the smaller id. For the other one `handle`
  may keep the stream that just failed, because the smaller id opened it: its second
  attempt then fails on the same stream.
* `Agreement` is about streams handled in order, and about one goroutine per node that
  opens streams to a peer. libp2p runs one goroutine per stream; if two streams that one
  side opened are handled the other way round, or one side sees a direct connection
  the other does not, the ends may use different streams, each of which is still read
  at both ends (`WritesAreRead`). Two goroutines of one node have the same effect without
  any fault: nothing holds the lock from `NewStream` to `handle` (`xrmmgr.go:178-184`), so
  the one that opened the older stream may handle it last and leave it in the cache,
  while the other side caches the newer one. TLC finds that in eight steps when the
  instance has two senders of one node. `OneSender` excludes it, which the code does not:
  `Send` of text and image, `QueryEVM` and the heartbeat run from many goroutines. So
  `Agreement` is checked on the run's instance only.
* `FramesWhole` is about frames that go out in one chunk, or have their stream to
  themselves (`Unshared`). `WriteWithContext` has no lock, so the chunks of two senders mix
  when a frame is longer than a chunk. What the property does show is that a frame which was
  broken off never runs into the next one.

Fairness, for `WritesAreRead` alone: libp2p has a goroutine for each incoming stream, and so
has each read loop (`WF` of a step of some of them), and a goroutine that got a stream from
`NewStream` goes on to `handle` (`WF` of `HandleOwn`). Writers may stop where they like.

## 6. ClientLife and Supervisor

`Supervisor` models `SDK.Init` (`cmd/client/mobile/main.go:195-304`), `SDK.Close` and the
life of the clients they start. Every call of `Init` has a configuration (`config`, the same bytes in every
round), a context (`cancelled`), a
result channel of one and a supervisor, the goroutine that runs one client after the
other. The stopper is a channel of one cancel function; `hand` is what a caller took out
of it and has not called yet.

| actions | code |
|---|---|
| `CallInit`, `Place`, `Take`, `Stop` | the loop at the start of `Init`: put the cancel function in, or take another one out and call it; `Close` does the latter |
| `Await` | `<-result` |
| `Start` | a round: a new client, its configuration (an error is reported, if it does not load, and the round goes on), `s.client`, the goroutine that waits for `OK` |
| `Ready`, `RunEnds` | `Client.Run`: `close(c.OK)`, never without a key in the configuration (`client.go:63`); any return, before or after it |
| `Watch` | the goroutine with the select over `OK` and the context of the round |
| `Tick`, `Exit` | the select over the ticker and the context |

`ClientLife` is the abstract view: a client starts, is perhaps ready, ends, is replaced.
`Phase` maps the SDK's current client to it. Properties: `NoOrphan` (overlapping calls
never lose a cancel function), `AwaitIsAnswered` (while `Init` waits somebody is
left who will send the result: a client that runs and a goroutine that watches it, or
a cancelled one, whose end is the result), `ImplementsClientLife`, `InitReturns`,
`StoppedEnds`, `ComesBack`.

A configuration is two bits. `loads`: `LoadConfig` has nothing to object. `works`: `Client.Run`
gets a key out of it. They are not the same, since `LoadConfig` reports a field of the wrong
type when the others, the key among them, are decoded. A configuration that does not
work never gets a client ready, however often the supervisor tries. `ComesBack` is about the
others: a supervisor that nobody stops has a client ready again and again, or its
clients never stop failing.

Which supervisor's client the SDK has is no property. The select of a supervisor may take the
ticker though its context is cancelled; it then makes one more client, and puts it in the SDK,
perhaps after the next `Init` has put its own there. `StoppedEnds` says that this client ends.

Fairness: goroutines go on (`WF`); a client becomes ready or fails, and ends when its context is
cancelled (`RunGoesOn`); the select of the supervisor is a fair choice, as Go takes a ready
case at random (`SF` of `Exit`). Nothing makes clients succeed.

## 7. Session

`OpenSession` halts the session before it and calls `Client.ProbeStatus` on the SDK's
client, under `sessionMU`; `ProbeStatus` waits for `OK` and calls `Probe.Run`, which stops
the round before it, waits for `runMU`, registers the stop function of its own round, and
starts the goroutine of the round with a status channel of one. The application
calls `Status` in a loop; when its channel is closed, `Status` calls `ProbeStatus`
again, on the client that the SDK has by then. Meanwhile clients are replaced, and `Close`
comes.

| actions | code |
|---|---|
| `Replace`, `Ready`, `End` | the SDK's client, as in `ClientLife` |
| `OpenSession`, then `RunStop`, `RunLock`, `RunRegister` | `SDK.OpenSession`, `Client.ProbeStatus`, `Probe.Run` |
| `Probe` | a heartbeat whose result is new: `update` puts it in the channel, in place of what is there |
| `RoundEnds`, `RoundUnlocks` | the context is done; the deferred functions in their order |
| `StatusShow`, `StatusAgain`, `StatusHalted` | the cases of the select of `Status` |
| `CallClose`, `CloseSession`, `CloseStop` | `SDK.Close` |

`shown` is what `Status` returned last of the present channel. Heartbeats that
find nothing new are not steps.

Safety holds in every world, and is proved there: `LatestStatus` (however slowly the
application reads, it is not left with an old status), `LoopIsServed` (no status loop waits
on a channel that nobody will write or close), `OneSession` (there is never more than one
session that is not halted, and it is the SDK's, where the next `OpenSession` or `Close`
finds it). `WaitsForStopped` is what `OpenSession` and `Close` owe
their return to: who waits for the mutex of a probe waits for a round that has been told
to stop. It holds where calls of `Run` do not overlap. Liveness, `OpenReturns`,
`CloseReturns`, `SessionIsProbed` and `HaltedEnds`, is claimed for `Calm` behaviours. An
`OpenSession` that comes after `Close`, or waited for `sessionMU` while `Close` had it,
goes ahead in the code (`main.go:326-346`) and in the model: it leaves a session open on a
closed SDK, until another `Close`. The two things that `Calm` excludes are real:

* `fail`: a client that ends before it was ready never closes its `OK`. An
  `OpenSession` that waits for it blocks for ever, with `sessionMU`; `Close` then
  blocks too, before it gets to the stopper.
* `overlap`: a `Run` that calls the stop function between another one's `runMU.Lock()`
  (`probe.go:52`) and its registration (`probe.go:55`) stops nothing, and waits for the mutex of a round that
  goes on until its client ends.

Fairness: goroutines go on; a mutex serves who waits (`SF` of a session's call of
`Run`, and of `Close`); a select with two ready cases does either some time (`SF` of
`StatusHalted`): a halted session's loop may start the probe again, and stop that of the
open session, but not for ever. A client that starts gets ready or fails; a superseded one ends
(`StoppedEnds` of `Supervisor`).

## 8. Destroy

`Message.destory` (`message.go:77-124`) with a clock. `entries` is the destroy bucket:
expiry to peer and id; `Save` is what `Send` and `syncText` write in their
transactions, `Destroy` one walk of the cursor, with the ticker it sets, when it fires or
when `destoryUpdated` is full. `DelMessages`, `FlushMessages` and `Commit` change the buckets
under it. `ValidUntil` says what the documentation does: a message is destroyed
when its time is over. TLC finds it violated at once (section 11); it is the only question
asked of this module, since everything else one would ask (that what is due goes in
the end, that an entry names its message) fails for the same line of the code.

## 9. Runs

| run | instance | states | shows |
|---|---|---|---|
| `messaging_text` | two users, one text each way, the users exchangeable; loss, failing transactions, age, restart | 269 547 | reached means stored, nothing young given up, the inductive invariant, `Delivery` is implemented |
| `messaging_mixed` | a burn message one way, an image the other; loss, failing disks, destroy loop | 226 293 | records stay what they are, nothing burnt comes back |
| `messaging_flush` | one image; loss, failing disks, stalls, deletion, flush, restart | 103 727 | no channel outlives its goroutine, nothing deleted comes back, received images are whole |
| `messaging_live` | a text or an image; loss, age, restart; `FairSpec` | 34 461 | every message is settled; the panic and its aftermath |
| `messaging_two_peers` | a user with two partners; only age | about 400 | *violation*: an answer of one peer confirms a message to the other |
| `messaging_late_hash` | one image; only age | about 400 | *violation*: a late answer to the hash confirms the bytes |
| `peersave_safe` | receive loop, probe and `Run`, two remote peers; both goroutines and both peers exchangeable; loss, failing transactions, restart | 469 227 | addresses are the peers' own, records are completed, not overwritten |
| `peersave_live` | receive loop and probe on one peer, and `Run`; all faults; `FairSpec` | 41 712 | one saver, nothing half saved, `Save` returns |
| `streams` | two nodes, a sender at each and a watcher of connections, three streams, frames of one and two chunks; five worlds; `FairSpec` | 384 049 | caches, retries, frames, agreement, everything written is read; the inductive invariants |
| `supervisor` | two overlapping calls of `Init`, any number of `Close`; configurations that do not load or have no key, clients that fail; `FairSpec` | 74 682 | no supervisor is lost, `ClientLife` is implemented, `Init` is answered and returns, what is stopped ends, what is not comes back |
| `session` | two sessions, two clients, two statuses, `Close`; the calm world and one with failures and overlap; `FairSpec` | 93 242 | statuses, one session, waits end, nothing blocks in the calm world |
| `destroy_early` | one dialogue, times to live of 0, 2 and 3, a clock up to 4 | about 45 | *violation*: a message is destroyed before its time |

**Bounds, and why they are enough.** `MaxSend = 1`: each user sends one message of
his own in a dialogue, `MaxSeq = 2` leaves a second id for what is received, so
that the receiver's id of a message and the sender's may differ or coincide, and
duplicates fill the store up (the error path of the transaction). The hard cases
are not about many messages: goroutines of different ids of one dialogue touch
different entries everywhere, and share only the receive loop. What two
dialogues share, the result map, has its own run with three nodes. A message's
own story (sent, retried, aged, checked, given up, confirmed, deleted, its
process restarted, each at any moment) is complete. Retries are unbounded: packets and
goroutines come again as often as they like. `Width = 2` lets ids wrap and gives
two queries at a time, which is all that two callers can have.
In `streams`, three streams are one from each side and a third that a retry or a
direct connection opens, so that all four cases of the tie-break occur, with a cached
stream of each direction. `Frail = {1, 2}`: the third stream, which replaces one of
those, does not end by itself. `Capacity = 2` holds the longest frame, so no write is
cut by this bound; a writer that waits for a slow reader until its deadline is the
world `timeout`, in which a write may fail between any two chunks. `MaxCall = 1` is a
call of each goroutine, with its retry. Each world has one or two faults: a run with all
at once has the same steps, and more states than it is worth.
`messaging_text` and `peersave_safe` are checked up to symmetry (`Alike`): the two users
send the same text to each other and no formula names one of them; the receive loop and
the probe save the same peers. Their properties are invariants and properties of steps, for
which that is sound. In `supervisor`, a third call of `Init` would meet the same
stopper: the proof covers any number. In `session`, two sessions are an open one and
the one before it, and two clients one before and one after a replacement while either
waits. The runs set
`CHECK_DEADLOCK FALSE`, since a system in which everyone has sent, saved and settled
what there is may stop. Between them the passing runs fire every action.

The proofs lift all these bounds for the properties they cover.

## 10. Proofs

All theorems hold for every value of the constants that the modules' assumptions
allow: any number of nodes, payloads, ids, goroutines and peers.

| module | theorem | assumes | states |
|---|---|---|---|
| `MessagingProofs` | `TypeCorrect`, `TypesAreKept` | | `[](TypeOK /\ RegisteredIsAwaited)`, `[]TypeOK` |
| | `DeletedStaysDeleted` | | `NothingResurrected` |
| | `RecordsStayWhatTheyAre` | | `RecordsAreStable` |
| | `ReceivedImagesAreWhole` | | `ReceivedIsWhole` |
| `MessagingAgreement` | `Agreement` | no flush | `[](TypeOK /\ AgreementInv)` |
| | `NothingYoungGivenUp` | no flush | `[]FreshStaysPending` |
| `MessagingDelivered` | `TextInvariant` | `Calm` | `[](TypeOK /\ TextInv)` |
| | `ReachedWasDelivered` | `Calm` | `[]ReachedTextDelivered` |
| | `DeliveryImplemented` | `Calm` | `ImplementsDelivery` |
| `PeerSaveProofs` | `TypeCorrect`, `OneSaverAtATime`, `SavedMeansComplete` | | `[]TypeOK`, `[]OneSaver`, `[]SavedIsComplete` |
| | `AddressesAreOwn`, `RecordsStay` | no linger | `[]OwnAddress`, `RecordsAreCompleted` |
| `StreamsProofs` | `Invariant`, `CacheIsRead` | | `[]Inv`, `[]CachedIsRead` |
| | `RetriesAreFresh`, `ReplacedStays` | | `[]RetryIsAfresh`, `OnlyFailedLeaves` |
| `StreamsPeers` | `HeadersDecode`, `FrameFlows` | | `Decode` inverts `Encode`; a frame's chunks take a reader from one end of frame to the next |
| | `FramesInvariant`, `FramesArriveWhole`, `TypesAreKept` | `Unshared` | `[]FramesInv`, `[]FramesWhole`, `[]TypeOK` |
| | `PeersInvariant` | | `[]PeersInv` |
| | `TieBreakAgrees` | two relayed streams that cross | both ends keep the one that the smaller id opened, in whichever order they handle the two |
| `SupervisorProofs` | `TypeCorrect`, `NoneIsOrphaned` | | `[]TypeOK`, `[]NoOrphan` |
| | `AwaitsAreAnswered` | | `[]AwaitIsAnswered` |
| | `Refinement` | | `ImplementsClientLife` |
| `SessionProofs` | `TypeCorrect`, `StatusIsLatest`, `LoopsAreServed`, `SessionIsOne` | | `[]TypeOK`, `[]LatestStatus`, `[]LoopIsServed`, `[]OneSession` |

Where the column is empty, a theorem assumes no more than what the module it is about
states of its constants, and holds in every world. `Unshared` is a condition on who writes
what to whom (`Home`, `Peer`, `Frames`), not on what happens; section 5 says which code it
excludes.

**The argument for texts** (head of `MessagingProofs`). `ReachedTextDelivered` is not
inductive: a goroutine may have an answer in its channel that will set the mark.
Three layers make it so.

1. `AgreementInv`: everything that names a message (record, pending entry,
   snapshot, goroutine, request, answer, received entry, history) agrees on what
   it is, and an answer *yes* exists only for what was stored. Flushing breaks it,
   because ids then mean two messages; hence "no flush".
2. `AgeInv`: while a check of a message exists anywhere (snapshot, goroutine,
   request, answer) the message is old. So the *no* that takes a message out of
   the pending bucket meets no young one.
3. `UndeliveredInv`: of a text that its receiver did not store, nothing on the
   sender's side says that it was (`Unconfirmed`), and the check with its *no* is
   kept apart from whoever still sends (`ChecksApart`): the only answer *no* to a text is
   that of a check, but a sending goroutine of the same id would take it for a
   success, since it looks at no more than the id.

Layer 3 is where `Calm` is needed: a user has one partner for his texts (else
another peer's answer gets into the channel, section 11), nobody flushes, and
`AsyncSend` does not stall between its read and its goroutines (else a snapshot
"send" outlives the check of an older one). Images are outside it for the second
reason of section 11.

**The refinement** maps `sent`, `got`, the reached records and `arrived`, texts
only, to the four variables of `Delivery`. The proof has one case per action:
`Send` is a `Submit`, the handlers are a `Store`, `Commit` is a `Confirm` by layer
3 and the agreement of `got` with `sent`, deletion and the destroy loop are a
`Forget`, all the rest stutters.

**The argument for images.** A received image is recorded where its file was found whole or has
just been written (`StoreFile`), and nowhere else does a record of a peer's message appear
(`RecordChange`); so `ReceivedIsWhole` needs no more than the types. A file that is not whole
matters to the other arguments: the bytes that are sent may be those of another image
(`Carries`). So `AgreementInv` says of an image only that it is one; texts are carried exactly.

**The argument for Save.** `Saving` adds to `OneSaver` that a waiting goroutine found
a mutex in the entry and that who writes an address has one. `Heard` says who may
hear what: a registered channel is that of a goroutine that waits under that id
(`Registered`), and a packet under the id somebody waits for is for the peer he
asked (`AnswersFit`). `Query` keeps the latter because the id is free.

**The argument for streams.** `CachedIsRead` is inductive only with `Ends`: an end
exists only between the two nodes of its stream (`Linked`), an end that its node opened has a
goroutine to handle it or was handled (`OwnIsHandled`), a goroutine about to handle a stream
opened it and is the only one (`Handling`), what is written to has been handled and
so has a read loop or had one (`Writing`). `RetryIsAfresh` is carried from `HandleOwn`
to the second look-up by `LookIsAfresh`: the cache does not hold the failed stream. With
the smaller id at home this is stable, because the failed stream's own end has been
handled and is not handled again, and what `handle` of any other stream puts there is another
one.

**The argument for frames.** What is on a wire is related to what the reader still misses:
`Flows(w, r, t)` says that the chunks `w` take a reader that misses `r` bytes to one that
misses `t`, by a sequence of the sizes in between that are each possible (`Sizes`). So no
operator has to be recursive, and what a proof needs of it are four lemmas, proved for
any sequence: the empty one (`FlowNone`), the first chunk (`FlowFirst`), joining
(`FlowJoin`) and splitting (`FlowSplit`). `FrameFlows` is the only place where the arithmetic
of headers and chunks occurs. `Wires` then says of every wire whose reader is not gone that
it flows somewhere, and while the writer's end is open (`Fed`) either to the end of a
frame, and whoever writes has all of his frame before him (`Between`), or one
writer's remaining chunks complete it (`Within`). A failed write closes the end for good,
so a frame that was broken off has nothing behind it; that is why the mutant that leaves
the stream open breaks it. `Unshared` is needed in `Write`: the first chunk of a long frame
goes on a wire on which nobody else has one of his. `TypeOK` needs this invariant too: that
`rest` is not negative depends on what was written.

**The argument for agreement.** With one sender of each node to each peer (`OneSender`, which is
not what the code has, so these are lemmas and no result) the two ends agree:
`AgreementInvariant` and `PeersAgree` show that it is the senders of one node that break the
agreement, and nothing between the nodes. A stream from the smaller id is `Strong`: `handle` prefers it
on both sides. `Newest` says that of the strong streams between two nodes only the newest
can be open at its opener, and that each end which reads it has it in the cache. It holds
because the opener opens another one only when this one is closed (`Needed`: after a
failed write, or because the cache lost it), because streams of one side are handled
in order (`InOrder`, `Numbered`), and because no weak stream wins against a strong one.
So when either cached stream is strong and works at both ends, the other side has it as well. If
both are weak they come from the same side, and each cache holds the last one that it read
of that side (`LastCached`): neither is older than the other. `OneSender` is used where two
goroutines might hold streams to the same peer (`Opener`), and it implies `Unshared`, whose
invariant says which goroutine has a frame. The panic of `LookPanic` and the retry are
ordinary steps of both proofs. `TieBreakAgrees` is the core of it, a statement about `Wins`
alone: for two relayed streams that cross, the choice does not depend on the end or on
the order. With a direct stream it does, and so does the model.

**The argument for the supervisor.** `NoOrphan` follows from where the cancel function
goes: from the stopper to a hand to its call. `AwaitIsAnswered` is inductive as it stands: a client that is ready
is watched, or was and has reported, or is cancelled, and then its end reports. The
refinement has one case per action: `Start` is a
`Replace`, `Ready` and `RunEnds` of the current client are `Ready` and `End`, the rest
stutters; `RunsOnly` excludes a ready client that does not run.

**The argument for sessions.** `Mutex` (who is to register a round has the mutex, and
no round is under way) and `OwnChannel` (the round of a session is the only one that writes its
channel) carry `LoopIsServed` and `LatestStatus`; `BeforeIsHalted` carries
`OneSession`.

**Only model-checked**: liveness (`EventuallySettled`, `SaveReturns`, `WritesAreRead`,
`InitReturns`, `StoppedEnds`, `ComesBack`, `OpenReturns`, `CloseReturns`, `SessionIsProbed`,
`HaltedEnds`; fairness and leads-to are out of the prover's reach here; of `InitReturns` the
safety half is proved, `AwaitIsAnswered`), `Agreement` and `WaitsForStopped`, whose
conditions exclude what the code does, and that the listed mutants are caught. The violations of
section 11 are runs of TLC. Every other invariant and action property that a passing run
checks is stated by a theorem.

## 11. Three places where the code does not do what it says

The documentation of the history says of the field `reached`: *是否已送达*, whether
the message has been delivered (`docs/pc_zh.md:91`).

* **Answers are matched by id alone** (`text.go:77`, `text.go:44`, and their twins
  in `image.go`). Every dialogue counts its ids from 1, so a user who writes to
  two peers has two requests with the same id; the second registration replaces
  the first, and the answer of one peer confirms the message to the other.
  `messaging_two_peers` finds it.
* **A late answer to the hash confirms the bytes** (`message.go:728`). A hash
  request that is repeated after a timeout gets two answers *no*; the second one
  arrives while the goroutine waits for the answer to the bytes, and any answer
  will do there. `messaging_late_hash` finds it.

* **The destroy loop destroys what is not due** (`message.go:90`). The
  documentation says of `ttl`: *消息有效时间（毫秒数），为空时永久有效*, the time for
  which a message is valid (`docs/pc_zh.md:97`). The loop breaks off at the first entry whose
  time *has* passed and destroys those before it, whose time is to come. As `Send` and
  `syncText` wake it, a message with a time to live is destroyed at once, with its
  pending entry if it was not delivered. Entries are never removed, so when one is
  overdue nothing is destroyed any more. `destroy_early` finds it: `Save`, `Destroy`.

The first two are about the same statement, `ReachedMeansDelivered`; the passing runs and the
theorems say how far it does hold.

Further divergences that no run states, because no document promises the opposite, are
among the hazards: the arrived event of a check is decided on the snapshot and so
never sent; a message sent again after a lost answer is stored twice; a flushed
dialogue's old entries name new messages; `GetStream` may return nil without an error;
`OpenSession` and `Close` may block (section 7); an old supervisor's client may replace a
new one's (section 6); an `OpenSession` after `Close` goes ahead (section 7); the sender's own
image file may be torn, or be removed by the receive loop while it is written (section 3).

## 12. What is not modelled

* **Notifiers and events**: the channels of 1000 behind `Message.Receive` and `Arrived`, the
  two forwarding goroutines per round of `Init`, `Notifier.Get`. `Messaging` has the moment at
  which an event is due (`arrived`, `got`); which events an application may lose on its way
  is the next module to write.
* **The subdirectories of images**: `getSubdir`, which forgets the month of a name it knows.
  `Messaging` takes a file as whole, torn or not there, under one name.
* **The packets inside frames** (`protocol/text/types.go`, `protocol/image/types.go`): fixed
  offsets; a codec over bounded inputs. The header of a frame is in `Streams`.
* **The server's configuration** (`server/config.go:48-64`): changes that come faster than
  its ticker are dropped.
* **Configuration, route, database, desktop client, logger** and the set-up of libp2p, the DHT and the
  relay: I/O, marshalling or third-party code. The models take libp2p's streams as
  ordered while they last, and bbolt's transactions as atomic and durable.
* Calls of the SDK that only pass through to a service and its queries, which change nothing.

In what is modelled, three things were left out on purpose: two senders of long
frames on one stream (`Streams`), whose failure needs no model; two `Run`s of one probe
in the same window and clients that fail early, as far as liveness is concerned
(`Session`); identifiers that come round (`PeerSave`).
