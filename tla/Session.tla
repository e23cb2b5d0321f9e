------------------------------ MODULE Session ------------------------------
(***************************************************************************)
(* The sessions of the mobile SDK (OpenSession, Status, Close in           *)
(* cmd/client/mobile/main.go) and the probe of a client                    *)
(* (service/probe.go) that finds out whether the peer of the open session  *)
(* is there.                                                               *)
(*                                                                         *)
(* A probe runs one round at a time, under a mutex, for whoever called Run *)
(* last: Run stops the round before it, waits for the mutex, registers the *)
(* cancel function of its own round and starts it.  OpenSession calls Run  *)
(* under the mutex of the SDK; the status loop of a session calls it again *)
(* whenever its round has ended, on the client that the SDK has by then.   *)
(* Clients come and go as in ClientLife.                                   *)
(***************************************************************************)
EXTENDS Naturals

CONSTANTS
    MaxSession, \* bound: sessions, numbered as they are opened
    MaxClient,  \* bound: clients, numbered as they become the SDK's
    Status,     \* what a heartbeat may find out
    Off,        \* the peer is not there
    Worlds,     \* what behaviours are checked with
    None        \* nobody, nothing

Session == 1 .. MaxSession
Client == 1 .. MaxClient

ASSUME SessionAssumption ==
    /\ MaxSession \in Nat
    /\ MaxClient \in Nat \ {0}
    /\ None \notin Session \cup Status
    /\ Off \in Status

\* fail: a client ends before it was ready.  overlap: a Run of a probe begins
\* while another one waits for the mutex or has not registered its round yet.
ASSUME WorldAssumption == Worlds \subseteq SUBSET {"fail", "overlap"}

Stage == {"none", "client", "lock", "register", "loop", "done"}

\* The status channel of a session: the buffer of one, and whether it is open.
Channel == [buf : Status \cup {None}, open : BOOLEAN]

VARIABLES
    world,      \* what this behaviour includes
    phase,      \* none, starting, ready, ended, or failed: ended before OK
    current,    \* SDK.client
    sessionMU,  \* the session that OpenSession is opening
    session,    \* SDK.session
    closing,    \* where a call of SDK.Close is
    stage,      \* where the goroutine of a session is: OpenSession, then Status
    via,        \* the client it calls Run of
    halt,       \* Session.halt is closed
    chan,       \* Session.statusUpdates
    shown,      \* what Status returned of this channel since it was last written
    holder,     \* Probe.runMU: for whom a round runs, or is about to
    round,      \* the goroutine of the round: none, probing, closed
    stopped,    \* the context of the round under way is cancelled
    found       \* the last status of the round under way

clients == <<phase, current>>
sdk == <<sessionMU, session, closing, halt>>
status == <<stage, via, chan, shown>>
probe == <<holder, round, stopped, found>>
vars == <<world, clients, sdk, status, probe>>

Init ==
    /\ world \in Worlds
    /\ phase = [g \in Client |-> IF g = 1 THEN "starting" ELSE "none"]
    /\ current = 1
    /\ sessionMU = None
    /\ session = None
    /\ closing = "no"
    /\ stage = [s \in Session |-> "none"]
    /\ via = [s \in Session |-> 1]
    /\ halt = [s \in Session |-> FALSE]
    /\ chan = [s \in Session |-> [buf |-> None, open |-> FALSE]]
    /\ shown = [s \in Session |-> None]
    /\ holder = [g \in Client |-> None]
    /\ round = [g \in Client |-> "none"]
    /\ stopped = [g \in Client |-> FALSE]
    /\ found = [g \in Client |-> Off]

-----------------------------------------------------------------------------
(* Clients *)

\* The supervisor puts a new client in the SDK; Close has stopped it.
Replace(g) ==
    /\ closing # "done"
    /\ g = current + 1
    /\ current' = g
    /\ phase' = [phase EXCEPT ![g] = "starting"]
    /\ UNCHANGED <<world, sdk, status, probe>>

Ready(g) ==
    /\ phase[g] = "starting"
    /\ phase' = [phase EXCEPT ![g] = "ready"]
    /\ UNCHANGED <<world, current, sdk, status, probe>>

\* Run returns: whoever waits for OK before that goes on waiting.
End(g) ==
    /\ \/ /\ phase[g] = "ready"
          /\ phase' = [phase EXCEPT ![g] = "ended"]
       \/ /\ phase[g] = "starting"
          /\ "fail" \in world
          /\ phase' = [phase EXCEPT ![g] = "failed"]
    /\ UNCHANGED <<world, current, sdk, status, probe>>

-----------------------------------------------------------------------------
(* OpenSession and Close *)

\* Mutant: the session before is not halted.
OpenSessionBeside(s) ==
    /\ stage[s] = "none"
    /\ \A r \in Session : r < s => stage[r] # "none"
    /\ sessionMU = None
    /\ sessionMU' = s
    /\ via' = [via EXCEPT ![s] = current]
    /\ stage' = [stage EXCEPT ![s] = "client"]
    /\ UNCHANGED <<world, clients, session, closing, halt, chan, shown, probe>>

\* Under the mutex: the session before is halted; Run will be called on the
\* client that the SDK has now.  (After Close as well: nothing forbids it, and
\* a call that waited for the mutex while Close had it goes ahead.)
OpenSession(s) ==
    /\ stage[s] = "none"
    /\ \A r \in Session : r < s => stage[r] # "none"
    /\ sessionMU = None
    /\ sessionMU' = s
    /\ halt' = IF session = None THEN halt ELSE [halt EXCEPT ![session] = TRUE]
    /\ via' = [via EXCEPT ![s] = current]
    /\ stage' = [stage EXCEPT ![s] = "client"]
    /\ UNCHANGED <<world, clients, session, closing, chan, shown, probe>>

CallClose ==
    /\ closing = "no"
    /\ closing' = "wait"
    /\ UNCHANGED <<world, clients, sessionMU, session, halt, status, probe>>

\* Under the mutex: the session is halted and forgotten.
CloseSession ==
    /\ closing = "wait"
    /\ sessionMU = None
    /\ halt' = IF session = None THEN halt ELSE [halt EXCEPT ![session] = TRUE]
    /\ session' = None
    /\ closing' = "stop"
    /\ UNCHANGED <<world, clients, sessionMU, status, probe>>

\* The supervisor is stopped: its client will end and have no successor.
CloseStop ==
    /\ closing = "stop"
    /\ closing' = "done"
    /\ UNCHANGED <<world, clients, sessionMU, session, halt, status, probe>>

-----------------------------------------------------------------------------
(* Probe.Run, for OpenSession and for Status *)

\* Two calls of Run on one probe do not get in one another's way.
Alone(s) ==
    \/ "overlap" \in world
    \/ \A r \in Session \ {s} : via[r] = via[s] => stage[r] \notin {"lock", "register"}

\* Mutant: the round before is not stopped.
RunOn(s) ==
    /\ stage[s] = "client"
    /\ phase[via[s]] \in {"ready", "ended"}
    /\ Alone(s)
    /\ stage' = [stage EXCEPT ![s] = "lock"]
    /\ UNCHANGED <<world, clients, sdk, via, chan, shown, probe>>

\* ProbeStatus waits for OK; then the cancel function of the round that is
\* registered is called.  A round that has the mutex and is not registered
\* yet is not stopped.
RunStop(s) ==
    LET g == via[s] IN
    /\ stage[s] = "client"
    /\ phase[g] \in {"ready", "ended"}
    /\ Alone(s)
    /\ stage' = [stage EXCEPT ![s] = "lock"]
    /\ stopped' = IF round[g] = "none" THEN stopped ELSE [stopped EXCEPT ![g] = TRUE]
    /\ UNCHANGED <<world, clients, sdk, via, chan, shown, holder, round, found>>

RunLock(s) ==
    /\ stage[s] = "lock"
    /\ holder[via[s]] = None
    /\ holder' = [holder EXCEPT ![via[s]] = s]
    /\ stage' = [stage EXCEPT ![s] = "register"]
    /\ UNCHANGED <<world, clients, sdk, via, chan, shown, round, stopped, found>>

\* The round has a context of its own and a channel that says Off; OpenSession
\* is done.
RunRegister(s) ==
    LET g == via[s] IN
    /\ stage[s] = "register"
    /\ round' = [round EXCEPT ![g] = "probing"]
    /\ stopped' = [stopped EXCEPT ![g] = FALSE]
    /\ found' = [found EXCEPT ![g] = Off]
    /\ chan' = [chan EXCEPT ![s] = [buf |-> Off, open |-> TRUE]]
    /\ stage' = [stage EXCEPT ![s] = "loop"]
    /\ \/ /\ sessionMU = s
          /\ session' = s
          /\ sessionMU' = None
       \/ /\ sessionMU # s
          /\ UNCHANGED <<session, sessionMU>>
    /\ UNCHANGED <<world, clients, closing, halt, via, shown, holder>>

-----------------------------------------------------------------------------
(* The goroutine of a round *)

\* Mutant: a status that finds the channel full is dropped.
ProbeDrops(g, x) ==
    LET s == holder[g] IN
    /\ round[g] = "probing"
    /\ x # found[g]
    /\ found' = [found EXCEPT ![g] = x]
    /\ chan' = IF chan[s].buf = None THEN [chan EXCEPT ![s].buf = x] ELSE chan
    /\ UNCHANGED <<world, clients, sdk, stage, via, shown, holder, round, stopped>>

\* A heartbeat finds out something else: what is in the channel gives way to it.
Probe(g, x) ==
    LET s == holder[g] IN
    /\ round[g] = "probing"
    /\ x # found[g]
    /\ found' = [found EXCEPT ![g] = x]
    /\ chan' = [chan EXCEPT ![s].buf = x]
    /\ shown' = [shown EXCEPT ![s] = None]
    /\ UNCHANGED <<world, clients, sdk, stage, via, holder, round, stopped>>

\* Mutant: the channel is not closed.
RoundEndsOpen(g) ==
    /\ round[g] = "probing"
    /\ stopped[g] \/ phase[g] = "ended"
    /\ round' = [round EXCEPT ![g] = "closed"]
    /\ shown' = [shown EXCEPT ![holder[g]] = None]
    /\ found' = [found EXCEPT ![g] = Off]
    /\ UNCHANGED <<world, clients, sdk, stage, via, chan, holder, stopped>>

\* The context is cancelled, with that of the client or by Run: the channel is
\* closed.  What is in it can still be read.
RoundEnds(g) ==
    /\ round[g] = "probing"
    /\ stopped[g] \/ phase[g] = "ended"
    /\ round' = [round EXCEPT ![g] = "closed"]
    /\ chan' = [chan EXCEPT ![holder[g]].open = FALSE]
    /\ shown' = [shown EXCEPT ![holder[g]] = None]
    /\ found' = [found EXCEPT ![g] = Off]
    /\ UNCHANGED <<world, clients, sdk, stage, via, holder, stopped>>

\* Mutant: the mutex is not unlocked.
RoundLocked(g) ==
    /\ round[g] = "closed"
    /\ round' = [round EXCEPT ![g] = "none"]
    /\ stopped' = [stopped EXCEPT ![g] = FALSE]
    /\ UNCHANGED <<world, clients, sdk, status, holder, found>>

\* The other deferred functions: the mutex is free.
RoundUnlocks(g) ==
    /\ round[g] = "closed"
    /\ round' = [round EXCEPT ![g] = "none"]
    /\ holder' = [holder EXCEPT ![g] = None]
    /\ stopped' = [stopped EXCEPT ![g] = FALSE]
    /\ UNCHANGED <<world, clients, sdk, status, found>>

-----------------------------------------------------------------------------
(* Status, called in a loop *)

StatusShow(s) ==
    /\ stage[s] = "loop"
    /\ chan[s].buf # None
    /\ shown' = [shown EXCEPT ![s] = IF chan[s].open THEN chan[s].buf ELSE None]
    /\ chan' = [chan EXCEPT ![s].buf = None]
    /\ UNCHANGED <<world, clients, sdk, stage, via, probe>>

\* Mutant: Run is called on the client of the last round.
StatusSameClient(s) ==
    /\ stage[s] = "loop"
    /\ chan[s].buf = None /\ ~chan[s].open
    /\ stage' = [stage EXCEPT ![s] = "client"]
    /\ UNCHANGED <<world, clients, sdk, via, chan, shown, probe>>

\* The channel is closed and empty: another round, even for a halted session,
\* since the select takes either case.
StatusAgain(s) ==
    /\ stage[s] = "loop"
    /\ chan[s].buf = None /\ ~chan[s].open
    /\ via' = [via EXCEPT ![s] = current]
    /\ stage' = [stage EXCEPT ![s] = "client"]
    /\ UNCHANGED <<world, clients, sdk, chan, shown, probe>>

\* Mutant: a halted session begins another round as well.
StatusDeaf(s) ==
    /\ stage[s] = "loop"
    /\ halt[s]
    /\ chan[s].buf = None /\ ~chan[s].open
    /\ via' = [via EXCEPT ![s] = current]
    /\ stage' = [stage EXCEPT ![s] = "client"]
    /\ UNCHANGED <<world, clients, sdk, chan, shown, probe>>

\* The session is halted: the loop ends with an error.
StatusHalted(s) ==
    /\ stage[s] = "loop"
    /\ halt[s]
    /\ stage' = [stage EXCEPT ![s] = "done"]
    /\ via' = [via EXCEPT ![s] = 1]
    /\ UNCHANGED <<world, clients, sdk, chan, shown, probe>>

RoundStep(g) == RoundEnds(g) \/ RoundUnlocks(g)

StatusStep(s) == StatusShow(s) \/ StatusAgain(s) \/ StatusHalted(s)

Next ==
    \/ \E g \in Client :
          Replace(g) \/ Ready(g) \/ End(g) \/ (\E x \in Status : Probe(g, x)) \/ RoundStep(g)
    \/ \E s \in Session :
          OpenSession(s) \/ RunStop(s) \/ RunLock(s) \/ RunRegister(s) \/ StatusStep(s)
    \/ CallClose \/ CloseSession \/ CloseStop

Spec == Init /\ [][Next]_vars

\* A client that is not the SDK's any more, or whose supervisor is stopped, ends
\* (Supervisor: StoppedEnds).
Superseded(g) == g # current \/ closing = "done"

\* A client that starts is ready or fails; one that is superseded ends.
Settles(g) ==
    \/ phase[g] = "starting" /\ (Ready(g) \/ End(g))
    \/ Superseded(g) /\ End(g)

\* A call of Run takes its turn with others: it waits for OK and for the mutex.
Run(s) == RunStop(s) \/ RunLock(s) \/ RunRegister(s)

\* Fairness: goroutines go on, a mutex serves who waits for it, a select that is
\* ready for two things does either some time.
Fairness ==
    /\ \A g \in Client : WF_vars(Settles(g)) /\ WF_vars(RoundStep(g))
    /\ \A s \in Session : SF_vars(Run(s)) /\ WF_vars(StatusStep(s)) /\ SF_vars(StatusHalted(s))
    /\ SF_vars(CloseSession \/ CloseStop)

FairSpec == Spec /\ Fairness

-----------------------------------------------------------------------------
(* Properties *)

\* The shape of the state.
TypeOK ==
    /\ world \in Worlds
    /\ phase \in [Client -> {"none", "starting", "ready", "ended", "failed"}]
    /\ current \in Client
    /\ sessionMU \in Session \cup {None}
    /\ session \in Session \cup {None}
    /\ closing \in {"no", "wait", "stop", "done"}
    /\ stage \in [Session -> Stage]
    /\ via \in [Session -> Client]
    /\ halt \in [Session -> BOOLEAN]
    /\ chan \in [Session -> Channel]
    /\ shown \in [Session -> Status \cup {None}]
    /\ holder \in [Client -> Session \cup {None}]
    /\ round \in [Client -> {"none", "probing", "closed"}]
    /\ stopped \in [Client -> BOOLEAN]
    /\ found \in [Client -> Status]

\* The status of a round is in the channel of its session, or was the last one
\* shown: however slowly the application reads, it is not left with an old one.
LatestStatus ==
    \A g \in Client : round[g] = "probing" =>
        LET s == holder[g] IN
        stage[s] = "loop" =>
            chan[s].buf = found[g] \/ (chan[s].buf = None /\ shown[s] = found[g])

\* A session that waits for news waits on a channel that a round under way, its
\* own, will close: no status loop is left with a channel that nobody writes.
LoopIsServed ==
    \A s \in Session : chan[s].open =>
        \E g \in Client : holder[g] = s /\ round[g] = "probing"

\* At most one session is neither halted nor still being opened, and it is the
\* SDK's: there is never one that the next OpenSession or Close would miss.
OneSession ==
    \A s \in Session :
        stage[s] # "none" /\ ~halt[s] => session = s \/ sessionMU = s

\* Behaviours in which the calls of Run do not overlap and no client fails
\* before it is ready.
Calm == world = {}

\* Whoever waits for the mutex of a probe waits for a round that has been told to
\* stop: the cancel function that Run called was that of the round that has the
\* mutex, and no other round got in between.  (When calls of Run overlap this is
\* not so: a round that is not registered yet is not stopped.)
WaitsForStopped ==
    "overlap" \notin world =>
        \A s \in Session : stage[s] = "lock" /\ holder[via[s]] # None =>
            round[via[s]] # "none" /\ stopped[via[s]]

\* OpenSession returns: the round before it ends and lets go of the mutex.
OpenReturns == Calm /\ sessionMU # None ~> sessionMU = None

\* Close returns: OpenSession does not keep the mutex of the SDK.
CloseReturns == Calm /\ closing = "wait" ~> closing = "done"

\* The open session is probed by the SDK's client, through all the replacements
\* of clients and in spite of the status loops of sessions before it.
SessionIsProbed ==
    Calm /\ session # None ~>
        \/ session = None \/ sessionMU # None
        \/ phase[current] \in {"starting", "ended"}
        \/ holder[current] = session /\ round[current] = "probing"

\* The status loops of the sessions that were replaced or closed end.
HaltedEnds ==
    Calm /\ (\E s \in Session : halt[s]) ~> \A s \in Session : halt[s] => stage[s] = "done"
=============================================================================
