------------------------------ MODULE PeerSave ------------------------------
(***************************************************************************)
(* The peer store of a client (service/peer.go) and the identify protocol  *)
(* it queries (identify.go).                                               *)
(*                                                                         *)
(* Save is called by the receive loop for everyone who writes, by the      *)
(* probe for everyone who answers a heartbeat, and by Run for the node     *)
(* itself.  It makes a record of the peer once per process: the first      *)
(* caller puts a locked mutex in a sync.Map, the others wait for it and    *)
(* look again.  A record without an EVM address is completed by a query    *)
(* to the peer.                                                            *)
(***************************************************************************)
EXTENDS Naturals

CONSTANTS
    Caller,   \* the goroutines that call Save
    Peer,     \* the peers, named by their id
    Local,    \* this node
    Saves,    \* <<c, p>>: goroutine c calls Save for peer p
    Width,    \* bound: the number of query ids (65536 in the code)
    Ops,      \* the faults that a model includes
    None      \* no record, no address, nobody

Id == 0 .. Width - 1

ASSUME SavesAssumption == Local \in Peer /\ Saves \subseteq Caller \X Peer

ASSUME WidthAssumption == Width \in Nat \ {0}

ASSUME FaultAssumption == Ops \subseteq {"lose", "fail", "restart", "linger"}

\* model.Peer: the address is that of a peer; remark stands for what the user sets.
Record == [evm : Peer \cup {None}, remark : BOOLEAN]

Stage == {"idle", "lock", "update", "query", "wait", "set"}

\* A packet of the identify protocol: the query of an id, and its answer.
Packet == [peer : Peer, id : Id]

ASSUME NobodyAssumption == None \notin Caller \cup Peer \cup Record

VARIABLES
    store,       \* Peer.store: no entry, a mutex, or the mark of a saved peer
    owner,       \* who holds the mutex of a peer's entry
    record,      \* the peer bucket
    pc,          \* where a goroutine is in Save
    target,      \* the peer it saves
    addr,        \* data.EVMAddr
    asked,       \* the id of its query
    chan,        \* the channel of its query
    result,      \* Identify.result: whose channel is registered under an id
    resultID,    \* Identify.resultID
    queries,     \* queries on their way
    answers      \* answers on their way

memory == <<store, owner, pc, target, addr, asked, chan, result, resultID>>
net == <<queries, answers>>
vars == <<memory, record, net>>

Init ==
    /\ store = [p \in Peer |-> "absent"]
    /\ owner = [p \in Peer |-> None]
    /\ record = [p \in Peer |-> None]
    /\ pc = [c \in Caller |-> "idle"]
    /\ target = [c \in Caller |-> Local]
    /\ addr = [c \in Caller |-> None]
    /\ asked = [c \in Caller |-> 0]
    /\ chan = [c \in Caller |-> None]
    /\ result = [i \in Id |-> None]
    /\ resultID = 0
    /\ queries = {}
    /\ answers = {}

\* The connections of a process end with it, unless the other side gets through
\* to the next one within the three seconds it has for an answer.
Lingering(packets) == IF "linger" \in Ops THEN packets ELSE {}

\* A new process, or a new client in it: its maps are empty, its ids start again.
Crash ==
    /\ store' = [p \in Peer |-> "absent"]
    /\ owner' = [p \in Peer |-> None]
    /\ pc' = [c \in Caller |-> "idle"]
    /\ target' = [c \in Caller |-> Local]
    /\ addr' = [c \in Caller |-> None]
    /\ asked' = [c \in Caller |-> 0]
    /\ chan' = [c \in Caller |-> None]
    /\ result' = [i \in Id |-> None]
    /\ resultID' = 0
    /\ queries' = Lingering(queries)
    /\ answers' = Lingering(answers)

-----------------------------------------------------------------------------
(* Save: the entry and its mutex *)

\* Save returns: what the goroutine had in its variables is forgotten.
Return(c) ==
    /\ pc' = [pc EXCEPT ![c] = "idle"]
    /\ target' = [target EXCEPT ![c] = Local]
    /\ addr' = [addr EXCEPT ![c] = None]
    /\ asked' = [asked EXCEPT ![c] = 0]
    /\ chan' = [chan EXCEPT ![c] = None]

\* No entry: the goroutine's own mutex goes in, locked.
Claim(c, p) ==
    /\ <<c, p>> \in Saves
    /\ pc[c] = "idle"
    /\ store[p] = "absent"
    /\ store' = [store EXCEPT ![p] = "mutex"]
    /\ owner' = [owner EXCEPT ![p] = c]
    /\ pc' = [pc EXCEPT ![c] = "update"]
    /\ target' = [target EXCEPT ![c] = p]
    /\ UNCHANGED <<addr, asked, chan, result, resultID, record, net>>

\* A mutex is there: wait for it.  (A saved peer makes Save return at once.)
Await(c, p) ==
    /\ <<c, p>> \in Saves
    /\ pc[c] = "idle"
    /\ store[p] = "mutex"
    /\ pc' = [pc EXCEPT ![c] = "lock"]
    /\ target' = [target EXCEPT ![c] = p]
    /\ UNCHANGED <<store, owner, addr, asked, chan, result, resultID, record, net>>

\* Mutant: the entry is not looked at again once the mutex is had.
LockUnchecked(c) ==
    LET p == target[c] IN
    /\ pc[c] = "lock"
    /\ owner[p] = None
    /\ owner' = [owner EXCEPT ![p] = c]
    /\ pc' = [pc EXCEPT ![c] = "update"]
    /\ UNCHANGED <<store, target, addr, asked, chan, result, resultID, record, net>>

\* The mutex is had; whoever had it before may have saved the peer.
Lock(c) ==
    LET p == target[c] IN
    /\ pc[c] = "lock"
    /\ owner[p] = None
    /\ \/ /\ store[p] = "saved"
          /\ Return(c)
          /\ UNCHANGED owner
       \/ /\ store[p] # "saved"
          /\ pc' = [pc EXCEPT ![c] = "update"]
          /\ owner' = [owner EXCEPT ![p] = c]
          /\ UNCHANGED <<target, addr, asked, chan>>
    /\ UNCHANGED <<store, result, resultID, record, net>>

\* Save returns without an error: the mark replaces the mutex, which is unlocked.
Finish(c) ==
    /\ store' = [store EXCEPT ![target[c]] = "saved"]
    /\ owner' = [owner EXCEPT ![target[c]] = None]
    /\ Return(c)

\* Mutant: the early return of an error leaves the mutex locked.
GiveUpLocked(c) ==
    /\ Return(c)
    /\ UNCHANGED <<store, owner>>

\* Save returns with an error: the unlocked mutex stays, the next caller tries.
GiveUp(c) ==
    /\ owner' = [owner EXCEPT ![target[c]] = None]
    /\ Return(c)
    /\ UNCHANGED store

-----------------------------------------------------------------------------
(* Save: the transactions *)

\* What the record of a peer is after the first transaction, if it succeeds.
Recorded(p) ==
    IF record[p] # None THEN record[p]
    ELSE [evm |-> IF p = Local THEN Local ELSE None, remark |-> FALSE]

\* The record is there, or is put there; if it has an address, that is all.
Update(c) ==
    LET p == target[c]
        r == Recorded(p)
    IN
    /\ pc[c] = "update"
    /\ record' = [record EXCEPT ![p] = r]
    /\ \/ /\ r.evm = None
          /\ pc' = [pc EXCEPT ![c] = "query"]
          /\ UNCHANGED <<store, owner, target, addr, asked, chan>>
       \/ /\ r.evm # None
          /\ Finish(c)
    /\ UNCHANGED <<result, resultID, net>>

\* The transaction fails, before or after it read the address.  Without an
\* address Save goes on to query it, and the query's error replaces this one.
\* When the peer is the node itself, Run ends with the error.
UpdateError(c) ==
    LET p == target[c] IN
    /\ "fail" \in Ops
    /\ pc[c] = "update"
    /\ \/ /\ pc' = [pc EXCEPT ![c] = "query"]
          /\ UNCHANGED <<store, owner, target, addr, asked, chan, result, resultID, net>>
       \/ /\ Recorded(p).evm # None
          /\ p # Local
          /\ GiveUp(c)
          /\ UNCHANGED <<result, resultID, net>>
       \/ p = Local /\ Crash
    /\ UNCHANGED record

\* Mutant: the record is written anew from what Save knows.
SetEVMAddrAnew(c) ==
    LET p == target[c] IN
    /\ pc[c] = "set"
    /\ record' = [record EXCEPT ![p] = [evm |-> addr[c], remark |-> FALSE]]
    /\ Finish(c)
    /\ UNCHANGED <<result, resultID, net>>

\* SetEVMAddr: reads the record again and puts the address in it.
SetEVMAddr(c) ==
    LET p == target[c] IN
    /\ pc[c] = "set"
    /\ record[p] # None
    /\ record' = [record EXCEPT ![p].evm = addr[c]]
    /\ Finish(c)
    /\ UNCHANGED <<result, resultID, net>>

\* Mutant: an address that could not be written counts as saved.
SetEVMAddrErrorIgnored(c) ==
    /\ pc[c] = "set"
    /\ "fail" \in Ops \/ record[target[c]] = None
    /\ Finish(c)
    /\ UNCHANGED <<result, resultID, record, net>>

\* There is no record (the first transaction failed), or this one fails.
SetEVMAddrError(c) ==
    /\ pc[c] = "set"
    /\ "fail" \in Ops \/ record[target[c]] = None
    /\ GiveUp(c)
    /\ UNCHANGED <<result, resultID, record, net>>

-----------------------------------------------------------------------------
(* QueryEVM *)

\* Bound: of the 65536 ids of a process none comes round again while a packet
\* or a goroutine still has it; packets of an earlier process may have any.
IdIsFree(i) ==
    /\ \A c \in Caller : pc[c] = "wait" => asked[c] # i
    /\ "linger" \in Ops \/ \A x \in queries \cup answers : x.id # i

\* The channel is registered under id i and the query is sent.  (A node cannot
\* open a stream to itself.)
Ask(c, i) ==
    /\ pc[c] = "query"
    /\ target[c] # Local
    /\ result' = [result EXCEPT ![i] = c]
    /\ asked' = [asked EXCEPT ![c] = i]
    /\ chan' = [chan EXCEPT ![c] = None]
    /\ pc' = [pc EXCEPT ![c] = "wait"]
    /\ queries' = queries \cup {[peer |-> target[c], id |-> i]}
    /\ UNCHANGED <<store, owner, target, addr, record, answers>>

\* Mutant: the counter is not incremented.
QuerySameId(c) == Ask(c, resultID) /\ UNCHANGED resultID

\* Mutant: the counter does not wrap.
QueryUnwrapped(c) == IdIsFree(resultID) /\ Ask(c, resultID) /\ resultID' = resultID + 1

\* The query goes out under the next id.
Query(c) ==
    /\ IdIsFree(resultID)
    /\ Ask(c, resultID)
    /\ resultID' = (resultID + 1) % Width

\* The query cannot be written to its stream, nor to a new one; the channel was
\* registered and removed.
QueryError(c) ==
    /\ "lose" \in Ops
    /\ pc[c] = "query"
    /\ target[c] # Local
    /\ IdIsFree(resultID)
    /\ resultID' = (resultID + 1) % Width
    /\ GiveUp(c)
    /\ UNCHANGED <<result, record, net>>

\* No stream at all: the error is in another variable than the one tested, and
\* the write on a nil stream takes the process down.
QueryPanic(c) ==
    /\ "lose" \in Ops \/ target[c] = Local
    /\ pc[c] = "query"
    /\ Crash
    /\ UNCHANGED record

\* QueryEVM returns: its deferred delete removes the channel.
Deregister(c) == result' = [result EXCEPT ![asked[c]] = None]

Receive(c) ==
    /\ pc[c] = "wait"
    /\ chan[c] # None
    /\ Deregister(c)
    /\ addr' = [addr EXCEPT ![c] = chan[c]]
    /\ pc' = [pc EXCEPT ![c] = "set"]
    /\ UNCHANGED <<store, owner, target, asked, chan, resultID, record, net>>

\* Three seconds, or less if the probe's interval ends before.
Timeout(c) ==
    /\ pc[c] = "wait"
    /\ Deregister(c)
    /\ GiveUp(c)
    /\ UNCHANGED <<resultID, record, net>>

\* handleData: the channel is looked up by id and takes one answer.
HandleData(a) ==
    LET c == result[a.id] IN
    /\ answers' = answers \ {a}
    /\ IF c # None /\ chan[c] = None
       THEN chan' = [chan EXCEPT ![c] = a.peer]
       ELSE UNCHANGED chan
    /\ UNCHANGED <<store, owner, pc, target, addr, asked, result, resultID, record, queries>>

-----------------------------------------------------------------------------
(* The other side, the user and the environment *)

\* handleMeta of the peer: its address goes back under the same id.
HandleMeta(q) ==
    /\ queries' = queries \ {q}
    /\ answers' = answers \cup {q}
    /\ UNCHANGED <<memory, record>>

Lose(x) ==
    /\ "lose" \in Ops
    /\ queries' = queries \ {x}
    /\ answers' = answers \ {x}
    /\ UNCHANGED <<memory, record>>

\* SetRemark and SetPin: one transaction that keeps the other fields.
SetRemark(p) ==
    /\ record[p] # None
    /\ record' = [record EXCEPT ![p].remark = TRUE]
    /\ UNCHANGED <<memory, net>>

Restart ==
    /\ "restart" \in Ops
    /\ Crash
    /\ UNCHANGED record

SaveStep(c) ==
    \/ Lock(c)
    \/ Update(c) \/ UpdateError(c)
    \/ Query(c) \/ QueryError(c) \/ QueryPanic(c)
    \/ Receive(c) \/ Timeout(c)
    \/ SetEVMAddr(c) \/ SetEVMAddrError(c)

NetStep ==
    \/ \E q \in queries : HandleMeta(q)
    \/ \E a \in answers : HandleData(a)
    \/ \E x \in queries \cup answers : Lose(x)

Next ==
    \/ \E c \in Caller, p \in Peer : Claim(c, p) \/ Await(c, p)
    \/ \E c \in Caller : SaveStep(c)
    \/ NetStep
    \/ \E p \in Peer : SetRemark(p)
    \/ Restart

Spec == Init /\ [][Next]_vars

\* Fairness.  A goroutine in Save goes on; the mutex serves who waits for it
\* (Go's mutex hands over after a millisecond); packets arrive or are lost.
Fairness ==
    /\ \A c \in Caller : WF_vars(pc[c] # "lock" /\ SaveStep(c)) /\ SF_vars(Lock(c))
    /\ WF_vars(NetStep)

FairSpec == Spec /\ Fairness

-----------------------------------------------------------------------------
(* Properties *)

\* The shape of the state.
TypeOK ==
    /\ store \in [Peer -> {"absent", "mutex", "saved"}]
    /\ owner \in [Peer -> Caller \cup {None}]
    /\ record \in [Peer -> Record \cup {None}]
    /\ pc \in [Caller -> Stage]
    /\ target \in [Caller -> Peer]
    /\ addr \in [Caller -> Peer \cup {None}]
    /\ asked \in [Caller -> Id]
    /\ chan \in [Caller -> Peer \cup {None}]
    /\ result \in [Id -> Caller \cup {None}]
    /\ resultID \in Id
    /\ queries \subseteq Packet
    /\ answers \subseteq Packet

Inside(c) == pc[c] \in {"update", "query", "wait", "set"}

\* A mutex is held by exactly the goroutine that works on the peer's record:
\* no two work on one peer, none works on a saved peer, and none that left Save
\* or waits in it holds a mutex.
OneSaver ==
    /\ \A c \in Caller : Inside(c) => owner[target[c]] = c /\ store[target[c]] = "mutex"
    /\ \A p \in Peer : owner[p] # None => Inside(owner[p]) /\ target[owner[p]] = p

\* A peer that the process will not query again has its address in the
\* database, whichever of the transactions of Save failed before.
SavedIsComplete ==
    \A p \in Peer : store[p] = "saved" => record[p] # None /\ record[p].evm # None

\* The address in a record is that peer's own, whatever answers come late to
\* the process that asked.
OwnAddress ==
    \A p \in Peer : record[p] # None => record[p].evm \in {None, p}

\* A record never goes away, and its address is written once, into the record
\* as the user has it by then.
RecordsAreCompleted ==
    [][\A p \in Peer : record[p] # None =>
          /\ record'[p] # None
          /\ record[p].evm # None => record'[p].evm = record[p].evm
          /\ record[p].remark => record'[p].remark]_vars

\* Save returns: the receive loop and the probe are not held up for ever by one
\* another or by a peer that does not answer.
SaveReturns == \A c \in Caller : pc[c] # "idle" ~> pc[c] = "idle"
=============================================================================
