-------------------------- MODULE SupervisorProofs --------------------------
(***************************************************************************)
(* Proofs of the safety properties of Supervisor, and that it implements   *)
(* ClientLife.                                                             *)
(***************************************************************************)
EXTENDS Supervisor, TLAPS

-----------------------------------------------------------------------------
(* The inductive invariant *)

\* The supervisor of a call that has not put its cancel function in the stopper
\* is not there, and has nothing to say.
NotYet ==
    \A k \in Call : init[k] \in {"none", "place", "stop"} =>
        sup[k] = "none" /\ result[k] = "empty" /\ answer[k] = "empty"

\* Only a client that runs is ready or waited for.
RunsOnly == \A k \in Call : ready[k] \/ watched[k] => sup[k] = "run"

\* The client of the SDK was put there by a supervisor.
SomebodyPutIt == current # None => sup[current] # "none"

\* A call of Init that has a cancel function in its hand is about to call it.
InHand == \A k \in Call : hand[k] # None => init[k] = "stop"

Life == NotYet /\ RunsOnly /\ SomebodyPutIt /\ InHand

Inv == TypeOK /\ Life /\ NoOrphan /\ AwaitIsAnswered

-----------------------------------------------------------------------------

\* The invariant holds at first.
LEMMA Initially == Init => Inv
  BY CallAssumption DEF Init, Inv, TypeOK, Config, Good, Life, NotYet, RunsOnly, SomebodyPutIt, InHand,
    NoOrphan, AwaitIsAnswered

\* Every step keeps the types.
LEMMA TypeStep ==
    ASSUME TypeOK, [Next]_vars
    PROVE  TypeOK'
PROOF
<1> USE CallAssumption DEF TypeOK
<1>1. ASSUME NEW k \in Call, NEW c \in Config, CallInit(k, c)
     PROVE  TypeOK'
  BY <1>1 DEF CallInit, app, rounds
<1>2. ASSUME NEW k \in Call, Place(k)
     PROVE  TypeOK'
  BY <1>2 DEF Place, app, rounds
<1>3. ASSUME NEW a \in Call \cup Closer, Take(a)
     PROVE  TypeOK'
  BY <1>3 DEF Take, app, rounds
<1>4. ASSUME NEW a \in Call \cup Closer, Stop(a)
     PROVE  TypeOK'
  BY <1>4 DEF Stop, app, rounds
<1>5. ASSUME NEW k \in Call, Await(k)
     PROVE  TypeOK'
  BY <1>5 DEF Await, app, rounds
<1>6. ASSUME NEW k \in Call, Start(k)
     PROVE  TypeOK'
  BY <1>6 DEF Start, Report, app, rounds
<1>7. ASSUME NEW k \in Call, Ready(k)
     PROVE  TypeOK'
  BY <1>7 DEF Ready, app, rounds
<1>8. ASSUME NEW k \in Call, RunEnds(k)
     PROVE  TypeOK'
  BY <1>8 DEF RunEnds, Report, app, rounds
<1>9. ASSUME NEW k \in Call, Watch(k)
     PROVE  TypeOK'
  BY <1>9 DEF Watch, Report, app, rounds
<1>10. ASSUME NEW k \in Call, Tick(k)
     PROVE  TypeOK'
  BY <1>10 DEF Tick, app, rounds
<1>11. ASSUME NEW k \in Call, Exit(k)
     PROVE  TypeOK'
  BY <1>11 DEF Exit, app, rounds
<1>12. CASE UNCHANGED vars
  BY <1>12 DEF vars, app, rounds
<1>13. QED
  BY <1>1, <1>2, <1>3, <1>4, <1>5, <1>6, <1>7, <1>8, <1>9, <1>10, <1>11,
    <1>12 DEF Next, InitStep, RunStep

\* Every step keeps what is known of clients and supervisors.
LEMMA LifeStep ==
    ASSUME TypeOK, Life, [Next]_vars
    PROVE  Life'
PROOF
<1> USE CallAssumption DEF TypeOK, Life, NotYet, RunsOnly, SomebodyPutIt, InHand
<1>1. ASSUME NEW k \in Call, NEW c \in Config, CallInit(k, c)
     PROVE  Life'
  BY <1>1 DEF CallInit, app, rounds
<1>2. ASSUME NEW k \in Call, Place(k)
     PROVE  Life'
  BY <1>2 DEF Place, app, rounds
<1>3. ASSUME NEW a \in Call \cup Closer, Take(a)
     PROVE  Life'
  BY <1>3 DEF Take, app, rounds
<1>4. ASSUME NEW a \in Call \cup Closer, Stop(a)
     PROVE  Life'
  BY <1>4 DEF Stop, app, rounds
<1>5. ASSUME NEW k \in Call, Await(k)
     PROVE  Life'
  BY <1>5 DEF Await, app, rounds
<1>6. ASSUME NEW k \in Call, Start(k)
     PROVE  Life'
  BY <1>6 DEF Start, Report, app, rounds
<1>7. ASSUME NEW k \in Call, Ready(k)
     PROVE  Life'
  BY <1>7 DEF Ready, app, rounds
<1>8. ASSUME NEW k \in Call, RunEnds(k)
     PROVE  Life'
  BY <1>8 DEF RunEnds, Report, app, rounds
<1>9. ASSUME NEW k \in Call, Watch(k)
     PROVE  Life'
  BY <1>9 DEF Watch, Report, app, rounds
<1>10. ASSUME NEW k \in Call, Tick(k)
     PROVE  Life'
  BY <1>10 DEF Tick, app, rounds
<1>11. ASSUME NEW k \in Call, Exit(k)
     PROVE  Life'
  BY <1>11 DEF Exit, app, rounds
<1>12. CASE UNCHANGED vars
  BY <1>12 DEF vars, app, rounds
<1>13. QED
  BY <1>1, <1>2, <1>3, <1>4, <1>5, <1>6, <1>7, <1>8, <1>9, <1>10, <1>11,
    <1>12 DEF Next, InitStep, RunStep

\* A cancel function goes from hand to hand until it is called.
LEMMA NoOrphanStep ==
    ASSUME TypeOK, NoOrphan, [Next]_vars
    PROVE  NoOrphan'
PROOF
<1> USE CallAssumption DEF TypeOK, NoOrphan
<1>1. ASSUME NEW k \in Call, NEW c \in Config, CallInit(k, c)
     PROVE  NoOrphan'
  BY <1>1 DEF CallInit, app, rounds
<1>2. ASSUME NEW k \in Call, Place(k)
     PROVE  NoOrphan'
  BY <1>2 DEF Place, app, rounds
<1>3. ASSUME NEW a \in Call \cup Closer, Take(a)
     PROVE  NoOrphan'
  BY <1>3 DEF Take, app, rounds
<1>4. ASSUME NEW a \in Call \cup Closer, Stop(a)
     PROVE  NoOrphan'
  BY <1>4 DEF Stop, app, rounds
<1>5. ASSUME NEW k \in Call, Await(k)
     PROVE  NoOrphan'
  BY <1>5 DEF Await, app, rounds
<1>6. ASSUME NEW k \in Call, Start(k)
     PROVE  NoOrphan'
  BY <1>6 DEF Start, Report, app, rounds
<1>7. ASSUME NEW k \in Call, Ready(k)
     PROVE  NoOrphan'
  BY <1>7 DEF Ready, app, rounds
<1>8. ASSUME NEW k \in Call, RunEnds(k)
     PROVE  NoOrphan'
  BY <1>8 DEF RunEnds, Report, app, rounds
<1>9. ASSUME NEW k \in Call, Watch(k)
     PROVE  NoOrphan'
  BY <1>9 DEF Watch, Report, app, rounds
<1>10. ASSUME NEW k \in Call, Tick(k)
     PROVE  NoOrphan'
  BY <1>10 DEF Tick, app, rounds
<1>11. ASSUME NEW k \in Call, Exit(k)
     PROVE  NoOrphan'
  BY <1>11 DEF Exit, app, rounds
<1>12. CASE UNCHANGED vars
  BY <1>12 DEF vars, app, rounds
<1>13. QED
  BY <1>1, <1>2, <1>3, <1>4, <1>5, <1>6, <1>7, <1>8, <1>9, <1>10, <1>11,
    <1>12 DEF Next, InitStep, RunStep

\* Whoever awaits a result will get one.
LEMMA AwaitStep ==
    ASSUME TypeOK, AwaitIsAnswered, [Next]_vars
    PROVE  AwaitIsAnswered'
PROOF
<1> USE CallAssumption DEF TypeOK, AwaitIsAnswered
<1>1. ASSUME NEW k \in Call, NEW c \in Config, CallInit(k, c)
     PROVE  AwaitIsAnswered'
  BY <1>1 DEF CallInit, app, rounds
<1>2. ASSUME NEW k \in Call, Place(k)
     PROVE  AwaitIsAnswered'
  BY <1>2 DEF Place, app, rounds
<1>3. ASSUME NEW a \in Call \cup Closer, Take(a)
     PROVE  AwaitIsAnswered'
  BY <1>3 DEF Take, app, rounds
<1>4. ASSUME NEW a \in Call \cup Closer, Stop(a)
     PROVE  AwaitIsAnswered'
  BY <1>4 DEF Stop, app, rounds
<1>5. ASSUME NEW k \in Call, Await(k)
     PROVE  AwaitIsAnswered'
  BY <1>5 DEF Await, app, rounds
<1>6. ASSUME NEW k \in Call, Start(k)
     PROVE  AwaitIsAnswered'
  BY <1>6 DEF Start, Report, app, rounds
<1>7. ASSUME NEW k \in Call, Ready(k)
     PROVE  AwaitIsAnswered'
  BY <1>7 DEF Ready, app, rounds
<1>8. ASSUME NEW k \in Call, RunEnds(k)
     PROVE  AwaitIsAnswered'
  BY <1>8 DEF RunEnds, Report, app, rounds
<1>9. ASSUME NEW k \in Call, Watch(k)
     PROVE  AwaitIsAnswered'
  BY <1>9 DEF Watch, Report, app, rounds
<1>10. ASSUME NEW k \in Call, Tick(k)
     PROVE  AwaitIsAnswered'
  BY <1>10 DEF Tick, app, rounds
<1>11. ASSUME NEW k \in Call, Exit(k)
     PROVE  AwaitIsAnswered'
  BY <1>11 DEF Exit, app, rounds
<1>12. CASE UNCHANGED vars
  BY <1>12 DEF vars, app, rounds
<1>13. QED
  BY <1>1, <1>2, <1>3, <1>4, <1>5, <1>6, <1>7, <1>8, <1>9, <1>10, <1>11,
    <1>12 DEF Next, InitStep, RunStep

\* The invariant, for every number of calls and closers.
THEOREM Invariant == Spec => []Inv
<1>1. Inv /\ [Next]_vars => Inv'
  BY TypeStep, LifeStep, NoOrphanStep, AwaitStep DEF Inv
<1>2. QED
  BY <1>1, Initially, PTL DEF Spec

\* The types.
THEOREM TypeCorrect == Spec => []TypeOK
  BY Invariant, PTL DEF Inv

\* However calls of Init and Close overlap, there is no supervisor that neither
\* a later Init nor Close could stop.
THEOREM NoneIsOrphaned == Spec => []NoOrphan
  BY Invariant, PTL DEF Inv

\* However calls of Init and Close overlap and clients fail, somebody will send the
\* result that Init waits for.
THEOREM AwaitsAreAnswered == Spec => []AwaitIsAnswered
  BY Invariant, PTL DEF Inv

-----------------------------------------------------------------------------
(* Refinement *)

\* Every step of Supervisor is one of ClientLife, or none.
LEMMA LifeRefined ==
    ASSUME Inv, [Next]_vars
    PROVE  [Seen!Replace \/ Seen!Ready \/ Seen!End]_Phase
PROOF
<1> USE CallAssumption DEF TypeOK, Inv, Life, NotYet, RunsOnly, SomebodyPutIt, InHand, Phase,
       Seen!Replace, Seen!Ready, Seen!End
<1>1. ASSUME NEW k \in Call, NEW c \in Config, CallInit(k, c)
     PROVE  [Seen!Replace \/ Seen!Ready \/ Seen!End]_Phase
  BY <1>1 DEF CallInit, app, rounds
<1>2. ASSUME NEW k \in Call, Place(k)
     PROVE  [Seen!Replace \/ Seen!Ready \/ Seen!End]_Phase
  BY <1>2 DEF Place, app, rounds
<1>3. ASSUME NEW a \in Call \cup Closer, Take(a)
     PROVE  [Seen!Replace \/ Seen!Ready \/ Seen!End]_Phase
  BY <1>3 DEF Take, app, rounds
<1>4. ASSUME NEW a \in Call \cup Closer, Stop(a)
     PROVE  [Seen!Replace \/ Seen!Ready \/ Seen!End]_Phase
  BY <1>4 DEF Stop, app, rounds
<1>5. ASSUME NEW k \in Call, Await(k)
     PROVE  [Seen!Replace \/ Seen!Ready \/ Seen!End]_Phase
  BY <1>5 DEF Await, app, rounds
<1>6. ASSUME NEW k \in Call, Start(k)
     PROVE  [Seen!Replace \/ Seen!Ready \/ Seen!End]_Phase
  BY <1>6 DEF Start, Report, app, rounds
<1>7. ASSUME NEW k \in Call, Ready(k)
     PROVE  [Seen!Replace \/ Seen!Ready \/ Seen!End]_Phase
  BY <1>7 DEF Ready, app, rounds
<1>8. ASSUME NEW k \in Call, RunEnds(k)
     PROVE  [Seen!Replace \/ Seen!Ready \/ Seen!End]_Phase
  BY <1>8 DEF RunEnds, Report, app, rounds
<1>9. ASSUME NEW k \in Call, Watch(k)
     PROVE  [Seen!Replace \/ Seen!Ready \/ Seen!End]_Phase
  BY <1>9 DEF Watch, Report, app, rounds
<1>10. ASSUME NEW k \in Call, Tick(k)
     PROVE  [Seen!Replace \/ Seen!Ready \/ Seen!End]_Phase
  BY <1>10 DEF Tick, app, rounds
<1>11. ASSUME NEW k \in Call, Exit(k)
     PROVE  [Seen!Replace \/ Seen!Ready \/ Seen!End]_Phase
  BY <1>11 DEF Exit, app, rounds
<1>12. CASE UNCHANGED vars
  BY <1>12 DEF vars, app, rounds
<1>13. QED
  BY <1>1, <1>2, <1>3, <1>4, <1>5, <1>6, <1>7, <1>8, <1>9, <1>10, <1>11,
    <1>12 DEF Next, InitStep, RunStep

\* The users of the SDK's client see the life of a client: nothing is ready that
\* did not start, and nothing works again that has ended but its successor.
THEOREM Refinement == Spec => ImplementsClientLife
<1>1. Init => Seen!Init
  BY DEF Init, Seen!Init, Phase
<1>2. Inv /\ [Next]_vars => [Seen!Replace \/ Seen!Ready \/ Seen!End]_Phase
  BY LifeRefined
<1>3. QED
  BY <1>1, <1>2, Invariant, PTL DEF Spec, ImplementsClientLife, Seen!Spec
=============================================================================
