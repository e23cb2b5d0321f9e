----------------------------- MODULE Supervisor -----------------------------
(***************************************************************************)
(* Init and Close of the mobile SDK (cmd/client/mobile/main.go) and the    *)
(* life of the clients they start (client.go).                             *)
(*                                                                         *)
(* Init starts a goroutine, the supervisor, that runs one client after the *)
(* other until its context is cancelled, and waits for the first result.   *)
(* The cancel function is kept in a channel of one, the stopper: the next  *)
(* Init, and Close, take it out and call it.                               *)
(***************************************************************************)
EXTENDS Naturals

CONSTANTS
    MaxInit,    \* bound: calls of Init, numbered in order
    Closer,     \* the goroutines that call Close
    Worlds,     \* the sets of faults that behaviours are checked with
    None        \* no call

Call == 1 .. MaxInit

ASSUME CallAssumption == MaxInit \in Nat /\ None \notin Call /\ Call \cap Closer = {}

\* config: there are bad configurations.  fail: a client ends by itself.
ASSUME WorldAssumption == Worlds \subseteq SUBSET {"config", "fail"}

\* What a configuration is good for.  loads: LoadConfig has nothing to object.
\* works: Client.Run gets its key out of it.  (LoadConfig objects to a field of
\* the wrong type and decodes the others all the same.)
Config == [loads : BOOLEAN, works : BOOLEAN]

Good == [loads |-> TRUE, works |-> TRUE]

VARIABLES
    world,      \* the faults of this behaviour
    stopper,    \* the cancel function in the stopper
    hand,       \* the one that a goroutine took out and will call
    cancelled,  \* the contexts of the supervisors
    init,       \* where a call of Init is
    config,     \* the configuration it was called with
    result,     \* its result channel
    answer,     \* what it returned
    sup,        \* where the supervisor of a call is
    ready,      \* does its client run with its OK channel closed?
    watched,    \* does a goroutine wait for that?
    current     \* SDK.client: the supervisor whose client it is

app == <<stopper, hand, cancelled, init, config>>
rounds == <<sup, ready, watched, current>>
vars == <<world, app, result, answer, rounds>>

Init ==
    /\ world \in Worlds
    /\ stopper = None
    /\ hand = [a \in Call \cup Closer |-> None]
    /\ cancelled = [k \in Call |-> FALSE]
    /\ init = [k \in Call |-> "none"]
    /\ config = [k \in Call |-> Good]
    /\ result = [k \in Call |-> "empty"]
    /\ answer = [k \in Call |-> "empty"]
    /\ sup = [k \in Call |-> "none"]
    /\ ready = [k \in Call |-> FALSE]
    /\ watched = [k \in Call |-> FALSE]
    /\ current = None

-----------------------------------------------------------------------------
(* Init and Close *)

CallInit(k, c) ==
    /\ c # Good => "config" \in world
    /\ init[k] = "none"
    /\ \A j \in Call : j < k => init[j] # "none"
    /\ init' = [init EXCEPT ![k] = "place"]
    /\ config' = [config EXCEPT ![k] = c]
    /\ UNCHANGED <<world, stopper, hand, cancelled, result, answer, rounds>>

\* The stopper is empty: the cancel function goes in, the supervisor starts.
Place(k) ==
    /\ init[k] = "place"
    /\ stopper = None
    /\ stopper' = k
    /\ init' = [init EXCEPT ![k] = "await"]
    /\ sup' = [sup EXCEPT ![k] = "start"]
    /\ UNCHANGED <<world, hand, cancelled, config, result, answer, ready, watched, current>>

\* The cancel function of an earlier call is taken out.
Take(a) ==
    /\ stopper # None
    /\ hand[a] = None
    /\ a \in Call => init[a] = "place"
    /\ hand' = [hand EXCEPT ![a] = stopper]
    /\ stopper' = None
    /\ init' = IF a \in Call THEN [init EXCEPT ![a] = "stop"] ELSE init
    /\ UNCHANGED <<world, cancelled, config, result, answer, rounds>>

\* Mutant: what was taken out is not called.
StopNothing(a) ==
    /\ hand[a] # None
    /\ hand' = [hand EXCEPT ![a] = None]
    /\ init' = IF a \in Call THEN [init EXCEPT ![a] = "place"] ELSE init
    /\ UNCHANGED <<world, stopper, cancelled, config, result, answer, rounds>>

\* It is called; Init looks at the stopper again, Close is done.
Stop(a) ==
    /\ hand[a] # None
    /\ cancelled' = [cancelled EXCEPT ![hand[a]] = TRUE]
    /\ hand' = [hand EXCEPT ![a] = None]
    /\ init' = IF a \in Call THEN [init EXCEPT ![a] = "place"] ELSE init
    /\ UNCHANGED <<world, stopper, config, result, answer, rounds>>

\* Init returns the first result.
Await(k) ==
    /\ init[k] = "await"
    /\ result[k] # "empty"
    /\ result' = [result EXCEPT ![k] = "empty"]
    /\ answer' = [answer EXCEPT ![k] = result[k]]
    /\ init' = [init EXCEPT ![k] = "done"]
    /\ UNCHANGED <<world, stopper, hand, cancelled, config, rounds>>

-----------------------------------------------------------------------------
(* The supervisor *)

\* A result is kept only if the channel is empty.  (After Init has returned
\* nobody looks at it.)
Report(k, r) ==
    result' = IF result[k] = "empty" /\ init[k] # "done"
              THEN [result EXCEPT ![k] = r] ELSE result

\* Mutant: OK is closed at once.
StartReady(k) ==
    /\ sup[k] = "start"
    /\ current' = k
    /\ ready' = [ready EXCEPT ![k] = TRUE]
    /\ watched' = [watched EXCEPT ![k] = TRUE]
    /\ sup' = [sup EXCEPT ![k] = "run"]
    /\ UNCHANGED <<world, app, result, answer>>

\* A new client is made and becomes that of the SDK, whether the configuration
\* (the same in every round) could be loaded or not; a goroutine waits for its OK.
Start(k) ==
    /\ sup[k] = "start"
    /\ current' = k
    /\ watched' = [watched EXCEPT ![k] = TRUE]
    /\ sup' = [sup EXCEPT ![k] = "run"]
    /\ IF config[k].loads THEN UNCHANGED result ELSE Report(k, "error")
    /\ UNCHANGED <<world, app, answer, ready>>

\* Client.Run has started everything and closes OK.
Ready(k) ==
    /\ sup[k] = "run"
    /\ config[k].works
    /\ ~ready[k]
    /\ ready' = [ready EXCEPT ![k] = TRUE]
    /\ UNCHANGED <<world, app, result, answer, sup, watched, current>>

\* Mutant: the end of a client is not reported.
RunEndsSilently(k) ==
    /\ sup[k] = "run"
    /\ cancelled[k] \/ "fail" \in world \/ ~config[k].works
    /\ sup' = [sup EXCEPT ![k] = "choose"]
    /\ ready' = [ready EXCEPT ![k] = FALSE]
    /\ watched' = [watched EXCEPT ![k] = FALSE]
    /\ UNCHANGED <<world, app, result, answer, current>>

\* Mutant: Client.Run does not look at its context.
RunEndsDeaf(k) ==
    /\ sup[k] = "run"
    /\ "fail" \in world \/ ~config[k].works
    /\ sup' = [sup EXCEPT ![k] = "choose"]
    /\ Report(k, "error")
    /\ ready' = [ready EXCEPT ![k] = FALSE]
    /\ watched' = [watched EXCEPT ![k] = FALSE]
    /\ UNCHANGED <<world, app, answer, current>>

\* Client.Run returns, before or after OK: its context is cancelled, there is no
\* key in the configuration, something cannot be started, or there are no peers.
\* The result is full then, and the goroutine that waits for OK has nothing more to
\* say.
RunEnds(k) ==
    /\ sup[k] = "run"
    /\ cancelled[k] \/ "fail" \in world \/ ~config[k].works
    /\ sup' = [sup EXCEPT ![k] = "choose"]
    /\ Report(k, "error")
    /\ ready' = [ready EXCEPT ![k] = FALSE]
    /\ watched' = [watched EXCEPT ![k] = FALSE]
    /\ UNCHANGED <<world, app, answer, current>>

\* The goroutine that waits for OK.  When the context of the round is cancelled
\* as well it may take either case.
Watch(k) ==
    /\ watched[k]
    /\ \/ ready[k] /\ Report(k, "ok")
       \/ cancelled[k] /\ UNCHANGED result
    /\ watched' = [watched EXCEPT ![k] = FALSE]
    /\ UNCHANGED <<world, app, answer, sup, ready, current>>

\* Mutant: the supervisor does not try again.
TickOnce(k) ==
    /\ sup[k] = "choose"
    /\ sup' = [sup EXCEPT ![k] = "gone"]
    /\ UNCHANGED <<world, app, result, answer, ready, watched, current>>

\* The ticker: one more client.  The select may take this case although the
\* context is cancelled, and the context may be cancelled just after.
Tick(k) ==
    /\ sup[k] = "choose"
    /\ sup' = [sup EXCEPT ![k] = "start"]
    /\ UNCHANGED <<world, app, result, answer, ready, watched, current>>

Exit(k) ==
    /\ sup[k] = "choose"
    /\ cancelled[k]
    /\ sup' = [sup EXCEPT ![k] = "gone"]
    /\ UNCHANGED <<world, app, result, answer, ready, watched, current>>

InitStep(k) == Place(k) \/ Take(k) \/ Stop(k) \/ Await(k)

RunStep(k) == Ready(k) \/ RunEnds(k)

\* A client becomes ready or fails, and ends when its context is cancelled.
RunGoesOn(k) == ~(ready[k] /\ ~cancelled[k]) /\ RunStep(k)

Next ==
    \/ \E k \in Call :
          \/ (\E c \in Config : CallInit(k, c)) \/ InitStep(k)
          \/ Start(k) \/ RunStep(k) \/ Watch(k) \/ Tick(k) \/ Exit(k)
    \/ \E c \in Closer : Take(c) \/ Stop(c)

Spec == Init /\ [][Next]_vars

\* Fairness: goroutines go on, and the select of the supervisor is a fair choice
\* (Go takes one of the ready cases at random).
Fairness ==
    /\ \A k \in Call :
          /\ WF_vars(InitStep(k))
          /\ WF_vars(Start(k)) /\ WF_vars(RunGoesOn(k)) /\ WF_vars(Watch(k))
          /\ WF_vars(Tick(k) \/ Exit(k)) /\ SF_vars(Exit(k))
    /\ \A c \in Closer : WF_vars(Stop(c))

FairSpec == Spec /\ Fairness

-----------------------------------------------------------------------------
(* Properties *)

\* The shape of the state.
TypeOK ==
    /\ world \in Worlds
    /\ stopper \in Call \cup {None}
    /\ hand \in [Call \cup Closer -> Call \cup {None}]
    /\ cancelled \in [Call -> BOOLEAN]
    /\ config \in [Call -> Config]
    /\ init \in [Call -> {"none", "place", "stop", "await", "done"}]
    /\ result \in [Call -> {"empty", "ok", "error"}]
    /\ answer \in [Call -> {"empty", "ok", "error"}]
    /\ sup \in [Call -> {"none", "start", "run", "choose", "gone"}]
    /\ ready \in [Call -> BOOLEAN]
    /\ watched \in [Call -> BOOLEAN]
    /\ current \in Call \cup {None}

\* A supervisor that nobody has stopped can be stopped: its cancel function is
\* in the stopper, or in the hand of someone who is about to call it.
NoOrphan ==
    \A k \in Call : sup[k] # "none" /\ ~cancelled[k] =>
        stopper = k \/ \E a \in Call \cup Closer : hand[a] = k

\* Init does not wait for nothing: until its result channel is full the first
\* client of its supervisor is about to start or runs, and while it runs, a
\* goroutine waits for its OK, unless the client has been cancelled and its end
\* will be the result.
AwaitIsAnswered ==
    \A k \in Call : init[k] = "await" /\ result[k] = "empty" =>
        sup[k] = "start" \/ (sup[k] = "run" /\ (watched[k] \/ cancelled[k]))

\* What the users of the SDK's client see.
Phase ==
    IF current = None THEN "none"
    ELSE IF sup[current] \in {"choose", "start", "gone"} THEN "ended"
    ELSE IF ready[current] THEN "ready" ELSE "starting"

Seen == INSTANCE ClientLife WITH phase <- Phase

ImplementsClientLife == Seen!Spec

\* Init returns, with overlapping calls of Init and Close as well.
InitReturns == \A k \in Call : init[k] = "place" ~> init[k] = "done"

\* A stopped supervisor ends, whatever its client is doing.
StoppedEnds == \A k \in Call : cancelled[k] ~> sup[k] = "gone"

\* As long as nobody stops it, a supervisor has a client ready again and again,
\* whenever its clients fail, unless they never stop failing: it tries as often
\* as it takes.  (With a configuration that works.)
ComesBack ==
    \A k \in Call :
        \/ []<><<RunEnds(k) /\ ~cancelled[k]>>_vars
        \/ sup[k] # "none" /\ config[k].works ~> cancelled[k] \/ (sup[k] = "run" /\ ready[k])
=============================================================================
