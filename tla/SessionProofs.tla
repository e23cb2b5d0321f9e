--------------------------- MODULE SessionProofs ---------------------------
(***************************************************************************)
(* Proofs of the safety properties of Session.                             *)
(***************************************************************************)
EXTENDS Session, TLAPS

-----------------------------------------------------------------------------
(* The inductive invariant *)

\* The mutex of a probe: a round is somebody's, and who is about to register a
\* round has the mutex to itself.
Mutex ==
    /\ \A g \in Client : holder[g] = None => round[g] = "none"
    /\ \A s \in Session :
          stage[s] = "register" => holder[via[s]] = s /\ round[via[s]] = "none"

\* The channel of a round under way is open, and no other round has it.
OwnChannel ==
    \A g \in Client : round[g] = "probing" =>
        /\ holder[g] # None
        /\ chan[holder[g]].open
        /\ \A h \in Client \ {g} : round[h] = "probing" => holder[h] # holder[g]

\* Who calls Run has no open channel.
NoChannel ==
    \A s \in Session :
        stage[s] \in {"none", "client", "lock", "register"} => ~chan[s].open

\* When OpenSession is under way, the session before is halted.
BeforeIsHalted == sessionMU # None /\ session # None => halt[session]

Rounds == Mutex /\ OwnChannel /\ NoChannel /\ LoopIsServed

Inv == TypeOK /\ Rounds /\ LatestStatus /\ BeforeIsHalted /\ OneSession

-----------------------------------------------------------------------------

\* The invariant holds at first.
LEMMA Initially == Init => Inv
  BY SessionAssumption DEF Init, Inv, TypeOK, Rounds, Mutex, OwnChannel, NoChannel,
    LoopIsServed, LatestStatus, BeforeIsHalted, OneSession, Session, Client, Stage, Channel

\* Every step keeps the types.
LEMMA TypeStep ==
    ASSUME TypeOK, [Next]_vars
    PROVE  TypeOK'
PROOF
<1> USE SessionAssumption DEF TypeOK, Session, Client, Stage, Channel
<1>1. ASSUME NEW g \in Client, Replace(g)
     PROVE  TypeOK'
  BY <1>1 DEF Replace, clients, sdk, status, probe
<1>2. ASSUME NEW g \in Client, Ready(g)
     PROVE  TypeOK'
  BY <1>2 DEF Ready, clients, sdk, status, probe
<1>3. ASSUME NEW g \in Client, End(g)
     PROVE  TypeOK'
  BY <1>3 DEF End, clients, sdk, status, probe
<1>4. ASSUME NEW s \in Session, OpenSession(s)
     PROVE  TypeOK'
  BY <1>4 DEF OpenSession, clients, sdk, status, probe
<1>5. ASSUME CallClose
     PROVE  TypeOK'
  BY <1>5 DEF CallClose, clients, sdk, status, probe
<1>6. ASSUME CloseSession
     PROVE  TypeOK'
  BY <1>6 DEF CloseSession, clients, sdk, status, probe
<1>7. ASSUME CloseStop
     PROVE  TypeOK'
  BY <1>7 DEF CloseStop, clients, sdk, status, probe
<1>8. ASSUME NEW s \in Session, RunStop(s)
     PROVE  TypeOK'
  BY <1>8 DEF RunStop, clients, sdk, status, probe
<1>9. ASSUME NEW s \in Session, RunLock(s)
     PROVE  TypeOK'
  BY <1>9 DEF RunLock, clients, sdk, status, probe
<1>10. ASSUME NEW s \in Session, RunRegister(s)
     PROVE  TypeOK'
  BY <1>10 DEF RunRegister, clients, sdk, status, probe
<1>11. ASSUME NEW g \in Client, NEW x \in Status, Probe(g, x)
     PROVE  TypeOK'
  BY <1>11 DEF Probe, clients, sdk, status, probe
<1>12. ASSUME NEW g \in Client, RoundEnds(g)
     PROVE  TypeOK'
  BY <1>12 DEF RoundEnds, clients, sdk, status, probe
<1>13. ASSUME NEW g \in Client, RoundUnlocks(g)
     PROVE  TypeOK'
  BY <1>13 DEF RoundUnlocks, clients, sdk, status, probe
<1>14. ASSUME NEW s \in Session, StatusShow(s)
     PROVE  TypeOK'
  BY <1>14 DEF StatusShow, clients, sdk, status, probe
<1>15. ASSUME NEW s \in Session, StatusAgain(s)
     PROVE  TypeOK'
  BY <1>15 DEF StatusAgain, clients, sdk, status, probe
<1>16. ASSUME NEW s \in Session, StatusHalted(s)
     PROVE  TypeOK'
  BY <1>16 DEF StatusHalted, clients, sdk, status, probe
<1>17. CASE UNCHANGED vars
  BY <1>17 DEF vars, clients, sdk, status, probe
<1>18. QED
  BY <1>1, <1>2, <1>3, <1>4, <1>5, <1>6, <1>7, <1>8, <1>9, <1>10, <1>11,
    <1>12, <1>13, <1>14, <1>15, <1>16, <1>17 DEF Next, RoundStep, StatusStep

\* The mutex of a probe keeps its rounds apart.
LEMMA MutexStep ==
    ASSUME TypeOK, Mutex, OwnChannel, [Next]_vars
    PROVE  Mutex'
PROOF
<1> USE SessionAssumption DEF TypeOK, Channel, Mutex, OwnChannel
<1>1. ASSUME NEW g \in Client, Replace(g)
     PROVE  Mutex'
  BY <1>1 DEF Replace, clients, sdk, status, probe
<1>2. ASSUME NEW g \in Client, Ready(g)
     PROVE  Mutex'
  BY <1>2 DEF Ready, clients, sdk, status, probe
<1>3. ASSUME NEW g \in Client, End(g)
     PROVE  Mutex'
  BY <1>3 DEF End, clients, sdk, status, probe
<1>4. ASSUME NEW s \in Session, OpenSession(s)
     PROVE  Mutex'
  BY <1>4 DEF OpenSession, clients, sdk, status, probe
<1>5. ASSUME CallClose
     PROVE  Mutex'
  BY <1>5 DEF CallClose, clients, sdk, status, probe
<1>6. ASSUME CloseSession
     PROVE  Mutex'
  BY <1>6 DEF CloseSession, clients, sdk, status, probe
<1>7. ASSUME CloseStop
     PROVE  Mutex'
  BY <1>7 DEF CloseStop, clients, sdk, status, probe
<1>8. ASSUME NEW s \in Session, RunStop(s)
     PROVE  Mutex'
  BY <1>8 DEF RunStop, clients, sdk, status, probe
<1>9. ASSUME NEW s \in Session, RunLock(s)
     PROVE  Mutex'
  BY <1>9 DEF RunLock, clients, sdk, status, probe
<1>10. ASSUME NEW s \in Session, RunRegister(s)
     PROVE  Mutex'
  BY <1>10 DEF RunRegister, clients, sdk, status, probe
<1>11. ASSUME NEW g \in Client, NEW x \in Status, Probe(g, x)
     PROVE  Mutex'
  BY <1>11 DEF Probe, clients, sdk, status, probe
<1>12. ASSUME NEW g \in Client, RoundEnds(g)
     PROVE  Mutex'
  BY <1>12 DEF RoundEnds, clients, sdk, status, probe
<1>13. ASSUME NEW g \in Client, RoundUnlocks(g)
     PROVE  Mutex'
  BY <1>13 DEF RoundUnlocks, clients, sdk, status, probe
<1>14. ASSUME NEW s \in Session, StatusShow(s)
     PROVE  Mutex'
  BY <1>14 DEF StatusShow, clients, sdk, status, probe
<1>15. ASSUME NEW s \in Session, StatusAgain(s)
     PROVE  Mutex'
  BY <1>15 DEF StatusAgain, clients, sdk, status, probe
<1>16. ASSUME NEW s \in Session, StatusHalted(s)
     PROVE  Mutex'
  BY <1>16 DEF StatusHalted, clients, sdk, status, probe
<1>17. CASE UNCHANGED vars
  BY <1>17 DEF vars, clients, sdk, status, probe
<1>18. QED
  BY <1>1, <1>2, <1>3, <1>4, <1>5, <1>6, <1>7, <1>8, <1>9, <1>10, <1>11,
    <1>12, <1>13, <1>14, <1>15, <1>16, <1>17 DEF Next, RoundStep, StatusStep

\* A channel belongs to one round.
LEMMA ChannelStep ==
    ASSUME TypeOK, Mutex, OwnChannel, NoChannel, [Next]_vars
    PROVE  (OwnChannel /\ NoChannel)'
PROOF
<1> USE SessionAssumption DEF TypeOK, Channel, Mutex, OwnChannel, NoChannel
<1>1. ASSUME NEW g \in Client, Replace(g)
     PROVE  (OwnChannel /\ NoChannel)'
  BY <1>1 DEF Replace, clients, sdk, status, probe
<1>2. ASSUME NEW g \in Client, Ready(g)
     PROVE  (OwnChannel /\ NoChannel)'
  BY <1>2 DEF Ready, clients, sdk, status, probe
<1>3. ASSUME NEW g \in Client, End(g)
     PROVE  (OwnChannel /\ NoChannel)'
  BY <1>3 DEF End, clients, sdk, status, probe
<1>4. ASSUME NEW s \in Session, OpenSession(s)
     PROVE  (OwnChannel /\ NoChannel)'
  BY <1>4 DEF OpenSession, clients, sdk, status, probe
<1>5. ASSUME CallClose
     PROVE  (OwnChannel /\ NoChannel)'
  BY <1>5 DEF CallClose, clients, sdk, status, probe
<1>6. ASSUME CloseSession
     PROVE  (OwnChannel /\ NoChannel)'
  BY <1>6 DEF CloseSession, clients, sdk, status, probe
<1>7. ASSUME CloseStop
     PROVE  (OwnChannel /\ NoChannel)'
  BY <1>7 DEF CloseStop, clients, sdk, status, probe
<1>8. ASSUME NEW s \in Session, RunStop(s)
     PROVE  (OwnChannel /\ NoChannel)'
  BY <1>8 DEF RunStop, clients, sdk, status, probe
<1>9. ASSUME NEW s \in Session, RunLock(s)
     PROVE  (OwnChannel /\ NoChannel)'
  BY <1>9 DEF RunLock, clients, sdk, status, probe
<1>10. ASSUME NEW s \in Session, RunRegister(s)
     PROVE  (OwnChannel /\ NoChannel)'
  BY <1>10 DEF RunRegister, clients, sdk, status, probe
<1>11. ASSUME NEW g \in Client, NEW x \in Status, Probe(g, x)
     PROVE  (OwnChannel /\ NoChannel)'
  BY <1>11 DEF Probe, clients, sdk, status, probe
<1>12. ASSUME NEW g \in Client, RoundEnds(g)
     PROVE  (OwnChannel /\ NoChannel)'
  BY <1>12 DEF RoundEnds, clients, sdk, status, probe
<1>13. ASSUME NEW g \in Client, RoundUnlocks(g)
     PROVE  (OwnChannel /\ NoChannel)'
  BY <1>13 DEF RoundUnlocks, clients, sdk, status, probe
<1>14. ASSUME NEW s \in Session, StatusShow(s)
     PROVE  (OwnChannel /\ NoChannel)'
  BY <1>14 DEF StatusShow, clients, sdk, status, probe
<1>15. ASSUME NEW s \in Session, StatusAgain(s)
     PROVE  (OwnChannel /\ NoChannel)'
  BY <1>15 DEF StatusAgain, clients, sdk, status, probe
<1>16. ASSUME NEW s \in Session, StatusHalted(s)
     PROVE  (OwnChannel /\ NoChannel)'
  BY <1>16 DEF StatusHalted, clients, sdk, status, probe
<1>17. CASE UNCHANGED vars
  BY <1>17 DEF vars, clients, sdk, status, probe
<1>18. QED
  BY <1>1, <1>2, <1>3, <1>4, <1>5, <1>6, <1>7, <1>8, <1>9, <1>10, <1>11,
    <1>12, <1>13, <1>14, <1>15, <1>16, <1>17 DEF Next, RoundStep, StatusStep

\* An open channel has its round.
LEMMA ServedStep ==
    ASSUME TypeOK, Rounds, [Next]_vars
    PROVE  LoopIsServed'
PROOF
<1> USE SessionAssumption DEF TypeOK, Channel, Rounds, Mutex, OwnChannel, NoChannel,
  LoopIsServed
<1>1. ASSUME NEW g \in Client, Replace(g)
     PROVE  LoopIsServed'
  BY <1>1 DEF Replace, clients, sdk, status, probe
<1>2. ASSUME NEW g \in Client, Ready(g)
     PROVE  LoopIsServed'
  BY <1>2 DEF Ready, clients, sdk, status, probe
<1>3. ASSUME NEW g \in Client, End(g)
     PROVE  LoopIsServed'
  BY <1>3 DEF End, clients, sdk, status, probe
<1>4. ASSUME NEW s \in Session, OpenSession(s)
     PROVE  LoopIsServed'
  BY <1>4 DEF OpenSession, clients, sdk, status, probe
<1>5. ASSUME CallClose
     PROVE  LoopIsServed'
  BY <1>5 DEF CallClose, clients, sdk, status, probe
<1>6. ASSUME CloseSession
     PROVE  LoopIsServed'
  BY <1>6 DEF CloseSession, clients, sdk, status, probe
<1>7. ASSUME CloseStop
     PROVE  LoopIsServed'
  BY <1>7 DEF CloseStop, clients, sdk, status, probe
<1>8. ASSUME NEW s \in Session, RunStop(s)
     PROVE  LoopIsServed'
  BY <1>8 DEF RunStop, clients, sdk, status, probe
<1>9. ASSUME NEW s \in Session, RunLock(s)
     PROVE  LoopIsServed'
  BY <1>9 DEF RunLock, clients, sdk, status, probe
<1>10. ASSUME NEW s \in Session, RunRegister(s)
     PROVE  LoopIsServed'
  BY <1>10 DEF RunRegister, clients, sdk, status, probe
<1>11. ASSUME NEW g \in Client, NEW x \in Status, Probe(g, x)
     PROVE  LoopIsServed'
  BY <1>11 DEF Probe, clients, sdk, status, probe
<1>12. ASSUME NEW g \in Client, RoundEnds(g)
     PROVE  LoopIsServed'
  BY <1>12 DEF RoundEnds, clients, sdk, status, probe
<1>13. ASSUME NEW g \in Client, RoundUnlocks(g)
     PROVE  LoopIsServed'
  BY <1>13 DEF RoundUnlocks, clients, sdk, status, probe
<1>14. ASSUME NEW s \in Session, StatusShow(s)
     PROVE  LoopIsServed'
  BY <1>14 DEF StatusShow, clients, sdk, status, probe
<1>15. ASSUME NEW s \in Session, StatusAgain(s)
     PROVE  LoopIsServed'
  BY <1>15 DEF StatusAgain, clients, sdk, status, probe
<1>16. ASSUME NEW s \in Session, StatusHalted(s)
     PROVE  LoopIsServed'
  BY <1>16 DEF StatusHalted, clients, sdk, status, probe
<1>17. CASE UNCHANGED vars
  BY <1>17 DEF vars, clients, sdk, status, probe
<1>18. QED
  BY <1>1, <1>2, <1>3, <1>4, <1>5, <1>6, <1>7, <1>8, <1>9, <1>10, <1>11,
    <1>12, <1>13, <1>14, <1>15, <1>16, <1>17 DEF Next, RoundStep, StatusStep

\* The channel, or the screen, has what the round found.
LEMMA LatestStep ==
    ASSUME TypeOK, Rounds, LatestStatus, [Next]_vars
    PROVE  LatestStatus'
PROOF
<1> USE SessionAssumption DEF TypeOK, Channel, Rounds, Mutex, OwnChannel, NoChannel,
  LatestStatus
<1>1. ASSUME NEW g \in Client, Replace(g)
     PROVE  LatestStatus'
  BY <1>1 DEF Replace, clients, sdk, status, probe
<1>2. ASSUME NEW g \in Client, Ready(g)
     PROVE  LatestStatus'
  BY <1>2 DEF Ready, clients, sdk, status, probe
<1>3. ASSUME NEW g \in Client, End(g)
     PROVE  LatestStatus'
  BY <1>3 DEF End, clients, sdk, status, probe
<1>4. ASSUME NEW s \in Session, OpenSession(s)
     PROVE  LatestStatus'
  BY <1>4 DEF OpenSession, clients, sdk, status, probe
<1>5. ASSUME CallClose
     PROVE  LatestStatus'
  BY <1>5 DEF CallClose, clients, sdk, status, probe
<1>6. ASSUME CloseSession
     PROVE  LatestStatus'
  BY <1>6 DEF CloseSession, clients, sdk, status, probe
<1>7. ASSUME CloseStop
     PROVE  LatestStatus'
  BY <1>7 DEF CloseStop, clients, sdk, status, probe
<1>8. ASSUME NEW s \in Session, RunStop(s)
     PROVE  LatestStatus'
  BY <1>8 DEF RunStop, clients, sdk, status, probe
<1>9. ASSUME NEW s \in Session, RunLock(s)
     PROVE  LatestStatus'
  BY <1>9 DEF RunLock, clients, sdk, status, probe
<1>10. ASSUME NEW s \in Session, RunRegister(s)
     PROVE  LatestStatus'
  BY <1>10 DEF RunRegister, clients, sdk, status, probe
<1>11. ASSUME NEW g \in Client, NEW x \in Status, Probe(g, x)
     PROVE  LatestStatus'
  BY <1>11 DEF Probe, clients, sdk, status, probe
<1>12. ASSUME NEW g \in Client, RoundEnds(g)
     PROVE  LatestStatus'
  BY <1>12 DEF RoundEnds, clients, sdk, status, probe
<1>13. ASSUME NEW g \in Client, RoundUnlocks(g)
     PROVE  LatestStatus'
  BY <1>13 DEF RoundUnlocks, clients, sdk, status, probe
<1>14. ASSUME NEW s \in Session, StatusShow(s)
     PROVE  LatestStatus'
  BY <1>14 DEF StatusShow, clients, sdk, status, probe
<1>15. ASSUME NEW s \in Session, StatusAgain(s)
     PROVE  LatestStatus'
  BY <1>15 DEF StatusAgain, clients, sdk, status, probe
<1>16. ASSUME NEW s \in Session, StatusHalted(s)
     PROVE  LatestStatus'
  BY <1>16 DEF StatusHalted, clients, sdk, status, probe
<1>17. CASE UNCHANGED vars
  BY <1>17 DEF vars, clients, sdk, status, probe
<1>18. QED
  BY <1>1, <1>2, <1>3, <1>4, <1>5, <1>6, <1>7, <1>8, <1>9, <1>10, <1>11,
    <1>12, <1>13, <1>14, <1>15, <1>16, <1>17 DEF Next, RoundStep, StatusStep

\* A session is halted before the next one is opened.
LEMMA OneSessionStep ==
    ASSUME TypeOK, BeforeIsHalted, OneSession, [Next]_vars
    PROVE  (BeforeIsHalted /\ OneSession)'
PROOF
<1> USE SessionAssumption DEF TypeOK, BeforeIsHalted, OneSession
<1>1. ASSUME NEW g \in Client, Replace(g)
     PROVE  (BeforeIsHalted /\ OneSession)'
  BY <1>1 DEF Replace, clients, sdk, status, probe
<1>2. ASSUME NEW g \in Client, Ready(g)
     PROVE  (BeforeIsHalted /\ OneSession)'
  BY <1>2 DEF Ready, clients, sdk, status, probe
<1>3. ASSUME NEW g \in Client, End(g)
     PROVE  (BeforeIsHalted /\ OneSession)'
  BY <1>3 DEF End, clients, sdk, status, probe
<1>4. ASSUME NEW s \in Session, OpenSession(s)
     PROVE  (BeforeIsHalted /\ OneSession)'
  BY <1>4 DEF OpenSession, clients, sdk, status, probe
<1>5. ASSUME CallClose
     PROVE  (BeforeIsHalted /\ OneSession)'
  BY <1>5 DEF CallClose, clients, sdk, status, probe
<1>6. ASSUME CloseSession
     PROVE  (BeforeIsHalted /\ OneSession)'
  BY <1>6 DEF CloseSession, clients, sdk, status, probe
<1>7. ASSUME CloseStop
     PROVE  (BeforeIsHalted /\ OneSession)'
  BY <1>7 DEF CloseStop, clients, sdk, status, probe
<1>8. ASSUME NEW s \in Session, RunStop(s)
     PROVE  (BeforeIsHalted /\ OneSession)'
  BY <1>8 DEF RunStop, clients, sdk, status, probe
<1>9. ASSUME NEW s \in Session, RunLock(s)
     PROVE  (BeforeIsHalted /\ OneSession)'
  BY <1>9 DEF RunLock, clients, sdk, status, probe
<1>10. ASSUME NEW s \in Session, RunRegister(s)
     PROVE  (BeforeIsHalted /\ OneSession)'
  BY <1>10 DEF RunRegister, clients, sdk, status, probe
<1>11. ASSUME NEW g \in Client, NEW x \in Status, Probe(g, x)
     PROVE  (BeforeIsHalted /\ OneSession)'
  BY <1>11 DEF Probe, clients, sdk, status, probe
<1>12. ASSUME NEW g \in Client, RoundEnds(g)
     PROVE  (BeforeIsHalted /\ OneSession)'
  BY <1>12 DEF RoundEnds, clients, sdk, status, probe
<1>13. ASSUME NEW g \in Client, RoundUnlocks(g)
     PROVE  (BeforeIsHalted /\ OneSession)'
  BY <1>13 DEF RoundUnlocks, clients, sdk, status, probe
<1>14. ASSUME NEW s \in Session, StatusShow(s)
     PROVE  (BeforeIsHalted /\ OneSession)'
  BY <1>14 DEF StatusShow, clients, sdk, status, probe
<1>15. ASSUME NEW s \in Session, StatusAgain(s)
     PROVE  (BeforeIsHalted /\ OneSession)'
  BY <1>15 DEF StatusAgain, clients, sdk, status, probe
<1>16. ASSUME NEW s \in Session, StatusHalted(s)
     PROVE  (BeforeIsHalted /\ OneSession)'
  BY <1>16 DEF StatusHalted, clients, sdk, status, probe
<1>17. CASE UNCHANGED vars
  BY <1>17 DEF vars, clients, sdk, status, probe
<1>18. QED
  BY <1>1, <1>2, <1>3, <1>4, <1>5, <1>6, <1>7, <1>8, <1>9, <1>10, <1>11,
    <1>12, <1>13, <1>14, <1>15, <1>16, <1>17 DEF Next, RoundStep, StatusStep

\* The invariant, in every environment, for every number of sessions and clients.
THEOREM Invariant == Spec => []Inv
<1>1. Inv /\ [Next]_vars => Inv'
  BY TypeStep, MutexStep, ChannelStep, ServedStep, LatestStep, OneSessionStep
  DEF Inv, Rounds
<1>2. QED
  BY <1>1, Initially, PTL DEF Spec

\* The types.
THEOREM TypeCorrect == Spec => []TypeOK
  BY Invariant, PTL DEF Inv

\* However slowly Status is called, what it returns next, or returned last, is the
\* last thing the round found out.
THEOREM StatusIsLatest == Spec => []LatestStatus
  BY Invariant, PTL DEF Inv

\* No status loop waits on a channel that no round will close, however calls of
\* Run overlap and clients come and go.
THEOREM LoopsAreServed == Spec => []LoopIsServed
  BY Invariant, PTL DEF Inv, Rounds

\* Whatever is not halted is the open session, or the one being opened.
THEOREM SessionIsOne == Spec => []OneSession
  BY Invariant, PTL DEF Inv
=============================================================================
