------------------------------ MODULE Destroy ------------------------------
(***************************************************************************)
(* The destroy loop of the message service (service/message.go) and the    *)
(* entries it works from.  Send and syncText write a message with a time   *)
(* to live together with an entry, keyed by the time at which it is over;  *)
(* the loop walks over the entries in the order of their keys when it is   *)
(* told of a new one and when its ticker fires.                            *)
(***************************************************************************)
EXTENDS Naturals, FiniteSetsExt

CONSTANTS
    Peer,       \* whom dialogues are with
    Ttl,        \* times to live; 0: for ever
    Horizon,    \* bound: the last moment at which anything happens
    MaxId,      \* bound: messages of a dialogue between two flushes
    Period,     \* how long the loop waits of itself (10 s)
    None        \* no entry, no end

Time == 0 .. Horizon

Id == 1 .. MaxId

VARIABLES
    now,        \* the clock
    dialogue,   \* the messages: peer, id and the moment until which it is valid
    sequence,   \* the sequence of a dialogue bucket
    pending,    \* the pending buckets: peer and id
    entries,    \* the destroy bucket: expiry -> peer and id
    updated,    \* destoryUpdated is full
    wake        \* when the ticker fires

vars == <<now, dialogue, sequence, pending, entries, updated, wake>>

Init ==
    /\ now = 0
    /\ dialogue = {}
    /\ sequence = [p \in Peer |-> 0]
    /\ pending = {}
    /\ entries = [t \in 0 .. Horizon + Max(Ttl) |-> None]
    /\ updated = FALSE
    /\ wake = 0

\* What Send and syncText write: the message and, if it is to be destroyed, its
\* entry, which takes the place of one with the same expiry, of whatever peer.
\* Then the loop is told.
Save(p, ttl) ==
    LET id == sequence[p] + 1
        until == IF ttl = 0 THEN None ELSE now + ttl
    IN
    /\ id \in Id
    /\ sequence' = [sequence EXCEPT ![p] = id]
    /\ dialogue' = dialogue \cup {[peer |-> p, id |-> id, until |-> until]}
    /\ \/ ttl = 0 /\ UNCHANGED <<entries, updated>>
       \/ /\ ttl > 0
          /\ entries' = [entries EXCEPT ![until] = [peer |-> p, id |-> id]]
          /\ updated' = TRUE
    /\ UNCHANGED <<now, wake>>

SyncText(p, ttl) == Save(p, ttl) /\ UNCHANGED pending

Send(p, ttl) ==
    /\ Save(p, ttl)
    /\ pending' = pending \cup {[peer |-> p, id |-> sequence[p] + 1]}

\* A pending message has reached its peer (AsyncSend).
Commit(m) == m \in pending /\ pending' = pending \ {m}
             /\ UNCHANGED <<now, dialogue, sequence, entries, updated, wake>>

\* The user deletes a message, or all of a dialogue with its sequence: the
\* entries stay.
DelMessages(m) ==
    /\ m \in dialogue
    /\ dialogue' = dialogue \ {m}
    /\ UNCHANGED <<now, sequence, pending, entries, updated, wake>>

FlushMessages(p) ==
    /\ dialogue' = {m \in dialogue : m.peer # p}
    /\ sequence' = [sequence EXCEPT ![p] = 0]
    /\ UNCHANGED <<now, pending, entries, updated, wake>>

\* The messages that an entry names.
Named(t, m) == entries[t] # None /\ [peer |-> m.peer, id |-> m.id] = entries[t]

\* One walk: it stops at the first entry whose time has passed, and the ticker is
\* set to how long ago that was; what it meets before that is destroyed.  No
\* entry is removed.
Destroy ==
    LET written == {t \in DOMAIN entries : entries[t] # None}
        Stops(t) == now > t
        met == {t \in written : \A x \in written : x <= t => ~Stops(x)}
        stop == {t \in written : Stops(t)}
    IN
    /\ updated \/ now >= wake
    /\ updated' = FALSE
    /\ wake' = now + (IF stop = {} THEN Period ELSE now - Min(stop))
    /\ dialogue' = {m \in dialogue : \A t \in met : ~Named(t, m)}
    /\ pending' = {m \in pending : \A t \in met : entries[t] # m}
    /\ UNCHANGED <<now, sequence, entries>>

\* Time passes.
Clock ==
    /\ now < Horizon
    /\ now' = now + 1
    /\ UNCHANGED <<dialogue, sequence, pending, entries, updated, wake>>

Next ==
    \/ \E p \in Peer, ttl \in Ttl : SyncText(p, ttl) \/ Send(p, ttl)
    \/ \E m \in pending : Commit(m)
    \/ \E m \in dialogue : DelMessages(m)
    \/ \E p \in Peer : FlushMessages(p)
    \/ Destroy
    \/ Clock

\* Fairness: the loop goes on, and so does time.
Spec == Init /\ [][Next]_vars /\ WF_vars(Destroy) /\ WF_vars(Clock)

\* The loop destroys a message only when its time to live is over, and never one
\* that has none.
ValidUntil ==
    [][Destroy => \A m \in dialogue \ dialogue' : m.until # None /\ m.until <= now]_vars
=============================================================================
