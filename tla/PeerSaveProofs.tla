--------------------------- MODULE PeerSaveProofs ---------------------------
(***************************************************************************)
(* Proofs of the properties of PeerSave.                                   *)
(***************************************************************************)
EXTENDS PeerSave, TLAPS

-----------------------------------------------------------------------------
(* The inductive invariant *)

\* Who waits for a mutex found one in the entry.
Mutexes == \A c \in Caller : pc[c] = "lock" => store[target[c]] # "absent"

\* Who goes on to write an address has one.
Answered == \A c \in Caller : pc[c] = "set" => addr[c] # None

Saving == OneSaver /\ Mutexes /\ Answered

\* An address about to be written is that of the peer it is written for.
AddressHeard == \A c \in Caller : pc[c] = "set" => addr[c] = target[c]

\* So is the one in the channel of a query.
ChannelHeard == \A c \in Caller : pc[c] = "wait" => chan[c] \in {None, target[c]}

\* A channel is registered only under the id of a goroutine that waits.
Registered ==
    \A i \in Id : result[i] # None => pc[result[i]] = "wait" /\ asked[result[i]] = i

\* What travels under the id that a goroutine waits for was asked by it.
AnswersFit ==
    \A c \in Caller : pc[c] = "wait" =>
        \A x \in queries \cup answers : x.id = asked[c] => x.peer = target[c]

Heard == AddressHeard /\ ChannelHeard /\ Registered /\ AnswersFit /\ OwnAddress

-----------------------------------------------------------------------------

LEMMA TypeInit == Init => TypeOK
  BY SavesAssumption, WidthAssumption DEF Init, TypeOK, Record, Packet, Stage, Id

\* Every step keeps the types.
LEMMA TypeStep ==
    ASSUME TypeOK, [Next]_vars
    PROVE  TypeOK'
PROOF
<1> USE SavesAssumption, WidthAssumption, NobodyAssumption DEF TypeOK, Record, Packet, Stage, Id
<1>1. ASSUME NEW c \in Caller, NEW p \in Peer, Claim(c, p)
     PROVE  TypeOK'
  BY <1>1 DEF Claim, memory, net
<1>2. ASSUME NEW c \in Caller, NEW p \in Peer, Await(c, p)
     PROVE  TypeOK'
  BY <1>2 DEF Await, memory, net
<1>3. ASSUME NEW c \in Caller, Lock(c)
     PROVE  TypeOK'
  <2>1. target[c] \in Peer /\ UNCHANGED <<store, result, resultID, record, queries, answers>>
    BY <1>3 DEF Lock, net
  <2>2. pc[c] = "lock" /\ owner[target[c]] = None
    BY <1>3 DEF Lock
  <2>3. CASE Return(c) /\ UNCHANGED owner
    BY <2>1, <2>2, <2>3 DEF Return
  <2>4. CASE /\ store[target[c]] # "saved"
             /\ pc' = [pc EXCEPT ![c] = "update"]
             /\ owner' = [owner EXCEPT ![target[c]] = c]
             /\ UNCHANGED <<target, addr, asked, chan>>
    BY <2>1, <2>2, <2>4
  <2>5. QED
    BY <1>3, <2>3, <2>4 DEF Lock
<1>4. ASSUME NEW c \in Caller, Update(c)
     PROVE  TypeOK'
  <2>1. target[c] \in Peer /\ Recorded(target[c]) \in Record
    BY DEF Recorded
  <2>2. /\ pc[c] = "update"
        /\ record' = [record EXCEPT ![target[c]] = Recorded(target[c])]
        /\ UNCHANGED <<result, resultID, queries, answers>>
    BY <1>4 DEF Update, net
  <2>3. CASE /\ pc' = [pc EXCEPT ![c] = "query"]
             /\ UNCHANGED <<store, owner, target, addr, asked, chan>>
    BY <2>1, <2>2, <2>3
  <2>4. CASE Recorded(target[c]).evm # None /\ Finish(c)
    BY <2>1, <2>2, <2>4 DEF Finish, Return
  <2>5. QED
    BY <1>4, <2>3, <2>4 DEF Update
<1>5. ASSUME NEW c \in Caller, UpdateError(c)
     PROVE  TypeOK'
  <2>1. CASE pc' = [pc EXCEPT ![c] = "query"] /\ UNCHANGED <<store, owner, target, addr, asked, chan, result, resultID, record, net>>
    BY <1>5, <2>1 DEF UpdateError, memory, net
  <2>2. CASE GiveUp(c) /\ UNCHANGED <<result, resultID, record, net>>
    BY <1>5, <2>2 DEF UpdateError, GiveUp, Return, memory, net
  <2>3. CASE Crash /\ UNCHANGED record
    BY <2>3 DEF Crash, Lingering, memory, net
  <2>4. QED
    BY <1>5, <2>1, <2>2, <2>3 DEF UpdateError
<1>6. ASSUME NEW c \in Caller, Query(c)
     PROVE  TypeOK'
  BY <1>6 DEF Query, Ask, IdIsFree, memory, net
<1>7. ASSUME NEW c \in Caller, QueryError(c)
     PROVE  TypeOK'
  BY <1>7 DEF QueryError, GiveUp, Return, memory, net
<1>8. ASSUME NEW c \in Caller, QueryPanic(c)
     PROVE  TypeOK'
  BY <1>8 DEF QueryPanic, Crash, Lingering, memory, net
<1>9. ASSUME NEW c \in Caller, Receive(c)
     PROVE  TypeOK'
  BY <1>9 DEF Receive, Deregister, memory, net
<1>10. ASSUME NEW c \in Caller, Timeout(c)
     PROVE  TypeOK'
  BY <1>10 DEF Timeout, Deregister, GiveUp, Return, memory, net
<1>11. ASSUME NEW c \in Caller, SetEVMAddr(c)
     PROVE  TypeOK'
  <2>1. target[c] \in Peer /\ record[target[c]] \in Record
    BY <1>11 DEF SetEVMAddr
  <2>2. PICK r \in Record : r.evm = addr[c] /\ record' = [record EXCEPT ![target[c]] = r]
    <3>1. addr[c] \in Peer \cup {None}
      OBVIOUS
    <3>2. [record[target[c]] EXCEPT !.evm = addr[c]] \in Record
      BY <2>1, <3>1
    <3>3. [record[target[c]] EXCEPT !.evm = addr[c]].evm = addr[c]
      BY <2>1
    <3>4. record' = [record EXCEPT ![target[c]] = [record[target[c]] EXCEPT !.evm = addr[c]]]
      BY <1>11 DEF SetEVMAddr
    <3>5. QED
      BY <3>2, <3>3, <3>4
  <2>3. Finish(c) /\ pc[c] = "set" /\ UNCHANGED <<result, resultID, queries, answers>>
    BY <1>11 DEF SetEVMAddr, net
  <2>4. QED
    BY <2>1, <2>2, <2>3 DEF Finish, Return
<1>12. ASSUME NEW c \in Caller, SetEVMAddrError(c)
     PROVE  TypeOK'
  BY <1>12 DEF SetEVMAddrError, GiveUp, Return, memory, net
<1>13. ASSUME NEW q \in queries, HandleMeta(q)
     PROVE  TypeOK'
  BY <1>13 DEF HandleMeta, memory, net
<1>14. ASSUME NEW a \in answers, HandleData(a)
     PROVE  TypeOK'
  BY <1>14 DEF HandleData, memory, net
<1>15. ASSUME NEW x \in queries \cup answers, Lose(x)
     PROVE  TypeOK'
  BY <1>15 DEF Lose, memory, net
<1>16. ASSUME NEW p \in Peer, SetRemark(p)
     PROVE  TypeOK'
  <2>1. UNCHANGED <<memory, net>>
    BY <1>16 DEF SetRemark
  <2>2. record' \in [Peer -> Record \cup {None}]
    <3>1. record \in [Peer -> Record \cup {None}] /\ record[p] # None
      BY <1>16 DEF SetRemark
    <3>2. record[p] \in Record
      BY <3>1
    <3>3. [record[p] EXCEPT !.remark = TRUE] \in Record
      BY <3>2 DEF Record
    <3>4. record' = [record EXCEPT ![p] = [record[p] EXCEPT !.remark = TRUE]]
      BY <1>16 DEF SetRemark
    <3>5. QED
      BY <3>1, <3>3, <3>4
  <2>3. QED
    BY <2>1, <2>2 DEF memory, net
<1>17. ASSUME Restart
     PROVE  TypeOK'
  BY <1>17 DEF Restart, Crash, Lingering, memory, net
<1>18. CASE UNCHANGED vars
  BY <1>18 DEF vars, memory, net
<1>19. QED
  BY <1>1, <1>2, <1>3, <1>4, <1>5, <1>6, <1>7, <1>8, <1>9, <1>10, <1>11, <1>12, <1>13, <1>14, <1>15, <1>16, <1>17, <1>18 DEF Next, SaveStep, NetStep

\* Every step keeps Saving.
LEMMA SaverStep ==
    ASSUME TypeOK, Saving, [Next]_vars
    PROVE  Saving'
PROOF
<1> USE SavesAssumption, WidthAssumption, NobodyAssumption DEF TypeOK, Saving, Answered, Mutexes, OneSaver, Inside, Record, Packet, Stage, Id
<1>1. ASSUME NEW c \in Caller, NEW p \in Peer, Claim(c, p)
     PROVE  Saving'
  BY <1>1 DEF Claim, memory, net
<1>2. ASSUME NEW c \in Caller, NEW p \in Peer, Await(c, p)
     PROVE  Saving'
  BY <1>2 DEF Await, memory, net
<1>3. ASSUME NEW c \in Caller, Lock(c)
     PROVE  Saving'
  <2>1. target[c] \in Peer /\ UNCHANGED <<store, result, resultID, record, queries, answers>>
    BY <1>3 DEF Lock, net
  <2>2. pc[c] = "lock" /\ owner[target[c]] = None
    BY <1>3 DEF Lock
  <2>3. CASE Return(c) /\ UNCHANGED owner
    BY <2>1, <2>2, <2>3 DEF Return
  <2>4. CASE /\ store[target[c]] # "saved"
             /\ pc' = [pc EXCEPT ![c] = "update"]
             /\ owner' = [owner EXCEPT ![target[c]] = c]
             /\ UNCHANGED <<target, addr, asked, chan>>
    BY <2>1, <2>2, <2>4
  <2>5. QED
    BY <1>3, <2>3, <2>4 DEF Lock
<1>4. ASSUME NEW c \in Caller, Update(c)
     PROVE  Saving'
  <2>1. target[c] \in Peer /\ Recorded(target[c]) \in Record
    BY DEF Recorded
  <2>2. /\ pc[c] = "update"
        /\ record' = [record EXCEPT ![target[c]] = Recorded(target[c])]
        /\ UNCHANGED <<result, resultID, queries, answers>>
    BY <1>4 DEF Update, net
  <2>3. CASE /\ pc' = [pc EXCEPT ![c] = "query"]
             /\ UNCHANGED <<store, owner, target, addr, asked, chan>>
    BY <2>1, <2>2, <2>3
  <2>4. CASE Recorded(target[c]).evm # None /\ Finish(c)
    BY <2>1, <2>2, <2>4 DEF Finish, Return
  <2>5. QED
    BY <1>4, <2>3, <2>4 DEF Update
<1>5. ASSUME NEW c \in Caller, UpdateError(c)
     PROVE  Saving'
  <2>1. CASE pc' = [pc EXCEPT ![c] = "query"] /\ UNCHANGED <<store, owner, target, addr, asked, chan, result, resultID, record, net>>
    BY <1>5, <2>1 DEF UpdateError, memory, net
  <2>2. CASE GiveUp(c) /\ UNCHANGED <<result, resultID, record, net>>
    BY <1>5, <2>2 DEF UpdateError, GiveUp, Return, memory, net
  <2>3. CASE Crash /\ UNCHANGED record
    BY <2>3 DEF Crash, Lingering, memory, net
  <2>4. QED
    BY <1>5, <2>1, <2>2, <2>3 DEF UpdateError
<1>6. ASSUME NEW c \in Caller, Query(c)
     PROVE  Saving'
  BY <1>6 DEF Query, Ask, IdIsFree, memory, net
<1>7. ASSUME NEW c \in Caller, QueryError(c)
     PROVE  Saving'
  BY <1>7 DEF QueryError, GiveUp, Return, memory, net
<1>8. ASSUME NEW c \in Caller, QueryPanic(c)
     PROVE  Saving'
  BY <1>8 DEF QueryPanic, Crash, Lingering, memory, net
<1>9. ASSUME NEW c \in Caller, Receive(c)
     PROVE  Saving'
  BY <1>9 DEF Receive, Deregister, memory, net
<1>10. ASSUME NEW c \in Caller, Timeout(c)
     PROVE  Saving'
  BY <1>10 DEF Timeout, Deregister, GiveUp, Return, memory, net
<1>11. ASSUME NEW c \in Caller, SetEVMAddr(c)
     PROVE  Saving'
  BY <1>11 DEF SetEVMAddr, Finish, Return, memory, net
<1>12. ASSUME NEW c \in Caller, SetEVMAddrError(c)
     PROVE  Saving'
  BY <1>12 DEF SetEVMAddrError, GiveUp, Return, memory, net
<1>13. ASSUME NEW q \in queries, HandleMeta(q)
     PROVE  Saving'
  BY <1>13 DEF HandleMeta, memory, net
<1>14. ASSUME NEW a \in answers, HandleData(a)
     PROVE  Saving'
  BY <1>14 DEF HandleData, memory, net
<1>15. ASSUME NEW x \in queries \cup answers, Lose(x)
     PROVE  Saving'
  BY <1>15 DEF Lose, memory, net
<1>16. ASSUME NEW p \in Peer, SetRemark(p)
     PROVE  Saving'
  BY <1>16 DEF SetRemark, memory, net
<1>17. ASSUME Restart
     PROVE  Saving'
  BY <1>17 DEF Restart, Crash, Lingering, memory, net
<1>18. CASE UNCHANGED vars
  BY <1>18 DEF vars, memory, net
<1>19. QED
  BY <1>1, <1>2, <1>3, <1>4, <1>5, <1>6, <1>7, <1>8, <1>9, <1>10, <1>11, <1>12, <1>13, <1>14, <1>15, <1>16, <1>17, <1>18 DEF Next, SaveStep, NetStep

\* Every step keeps Heard.
LEMMA HeardStep ==
    ASSUME "linger" \notin Ops, TypeOK, Heard, [Next]_vars
    PROVE  Heard'
PROOF
<1> USE SavesAssumption, WidthAssumption, NobodyAssumption DEF TypeOK, Heard, AddressHeard, ChannelHeard, Registered, AnswersFit, OwnAddress, Record, Packet, Stage, Id
<1>1. ASSUME NEW c \in Caller, NEW p \in Peer, Claim(c, p)
     PROVE  Heard'
  BY <1>1 DEF Claim, memory, net
<1>2. ASSUME NEW c \in Caller, NEW p \in Peer, Await(c, p)
     PROVE  Heard'
  BY <1>2 DEF Await, memory, net
<1>3. ASSUME NEW c \in Caller, Lock(c)
     PROVE  Heard'
  <2>1. target[c] \in Peer /\ UNCHANGED <<store, result, resultID, record, queries, answers>>
    BY <1>3 DEF Lock, net
  <2>2. pc[c] = "lock" /\ owner[target[c]] = None
    BY <1>3 DEF Lock
  <2>3. CASE Return(c) /\ UNCHANGED owner
    BY <2>1, <2>2, <2>3 DEF Return
  <2>4. CASE /\ store[target[c]] # "saved"
             /\ pc' = [pc EXCEPT ![c] = "update"]
             /\ owner' = [owner EXCEPT ![target[c]] = c]
             /\ UNCHANGED <<target, addr, asked, chan>>
    BY <2>1, <2>2, <2>4
  <2>5. QED
    BY <1>3, <2>3, <2>4 DEF Lock
<1>4. ASSUME NEW c \in Caller, Update(c)
     PROVE  Heard'
  <2>1. target[c] \in Peer /\ Recorded(target[c]) \in Record
    BY DEF Recorded
  <2>6. Recorded(target[c]).evm \in {None, target[c]}
    BY <2>1 DEF Recorded
  <2>2. /\ pc[c] = "update"
        /\ record' = [record EXCEPT ![target[c]] = Recorded(target[c])]
        /\ UNCHANGED <<result, resultID, queries, answers>>
    BY <1>4 DEF Update, net
  <2>3. CASE /\ pc' = [pc EXCEPT ![c] = "query"]
             /\ UNCHANGED <<store, owner, target, addr, asked, chan>>
    BY <2>1, <2>2, <2>3, <2>6
  <2>4. CASE Recorded(target[c]).evm # None /\ Finish(c)
    BY <2>1, <2>2, <2>4, <2>6 DEF Finish, Return
  <2>5. QED
    BY <1>4, <2>3, <2>4 DEF Update
<1>5. ASSUME NEW c \in Caller, UpdateError(c)
     PROVE  Heard'
  <2>1. CASE pc' = [pc EXCEPT ![c] = "query"] /\ UNCHANGED <<store, owner, target, addr, asked, chan, result, resultID, record, net>>
    BY <1>5, <2>1 DEF UpdateError, memory, net
  <2>2. CASE GiveUp(c) /\ UNCHANGED <<result, resultID, record, net>>
    BY <1>5, <2>2 DEF UpdateError, GiveUp, Return, memory, net
  <2>3. CASE Crash /\ UNCHANGED record
    BY <2>3 DEF Crash, Lingering, memory, net
  <2>4. QED
    BY <1>5, <2>1, <2>2, <2>3 DEF UpdateError
<1>6. ASSUME NEW c \in Caller, Query(c)
     PROVE  Heard'
  BY <1>6 DEF Query, Ask, IdIsFree, memory, net
<1>7. ASSUME NEW c \in Caller, QueryError(c)
     PROVE  Heard'
  <2>1. pc[c] = "query" /\ GiveUp(c) /\ UNCHANGED <<result, record, queries, answers>>
    BY <1>7 DEF QueryError, net
  <2>2. QED
    BY <2>1 DEF GiveUp, Return
<1>8. ASSUME NEW c \in Caller, QueryPanic(c)
     PROVE  Heard'
  BY <1>8 DEF QueryPanic, Crash, Lingering, memory, net
<1>9. ASSUME NEW c \in Caller, Receive(c)
     PROVE  Heard'
  BY <1>9 DEF Receive, Deregister, memory, net
<1>10. ASSUME NEW c \in Caller, Timeout(c)
     PROVE  Heard'
  BY <1>10 DEF Timeout, Deregister, GiveUp, Return, memory, net
<1>11. ASSUME NEW c \in Caller, SetEVMAddr(c)
     PROVE  Heard'
  BY <1>11 DEF SetEVMAddr, Finish, Return, memory, net
<1>12. ASSUME NEW c \in Caller, SetEVMAddrError(c)
     PROVE  Heard'
  BY <1>12 DEF SetEVMAddrError, GiveUp, Return, memory, net
<1>13. ASSUME NEW q \in queries, HandleMeta(q)
     PROVE  Heard'
  BY <1>13 DEF HandleMeta, memory, net
<1>14. ASSUME NEW a \in answers, HandleData(a)
     PROVE  Heard'
  <2>1. UNCHANGED <<pc, target, addr, asked, result, record, queries>> /\ answers' \subseteq answers
    BY <1>14 DEF HandleData
  <2>2. AddressHeard' /\ Registered' /\ AnswersFit' /\ OwnAddress'
    BY <2>1
  <2>3. ChannelHeard'
    <3>1. CASE UNCHANGED chan
      BY <2>1, <3>1
    <3>2. CASE result[a.id] # None /\ chan' = [chan EXCEPT ![result[a.id]] = a.peer]
      <4>1. a.id \in Id
        OBVIOUS
      <4>2. PICK c \in Caller : c = result[a.id]
        BY <3>2, <4>1
      <4>3. pc[c] = "wait" /\ asked[c] = a.id
        BY <3>2, <4>1, <4>2
      <4>4. a.peer = target[c]
        BY <4>3
      <4>5. QED
        BY <2>1, <3>2, <4>2, <4>4
    <3>3. QED
      BY <1>14, <3>1, <3>2 DEF HandleData
  <2>4. QED
    BY <2>2, <2>3
<1>15. ASSUME NEW x \in queries \cup answers, Lose(x)
     PROVE  Heard'
  BY <1>15 DEF Lose, memory, net
<1>16. ASSUME NEW p \in Peer, SetRemark(p)
     PROVE  Heard'
  BY <1>16 DEF SetRemark, memory, net
<1>17. ASSUME Restart
     PROVE  Heard'
  BY <1>17 DEF Restart, Crash, Lingering, memory, net
<1>18. CASE UNCHANGED vars
  BY <1>18 DEF vars, memory, net
<1>19. QED
  BY <1>1, <1>2, <1>3, <1>4, <1>5, <1>6, <1>7, <1>8, <1>9, <1>10, <1>11, <1>12, <1>13, <1>14, <1>15, <1>16, <1>17, <1>18 DEF Next, SaveStep, NetStep

\* Every step keeps SavedIsComplete.
LEMMA SavedStep ==
    ASSUME TypeOK, Saving, SavedIsComplete, [Next]_vars
    PROVE  SavedIsComplete'
PROOF
<1> USE SavesAssumption, WidthAssumption, NobodyAssumption DEF TypeOK, Saving, OneSaver, Inside, Answered, SavedIsComplete, Record, Packet, Stage, Id
<1>1. ASSUME NEW c \in Caller, NEW p \in Peer, Claim(c, p)
     PROVE  SavedIsComplete'
  BY <1>1 DEF Claim, memory, net
<1>2. ASSUME NEW c \in Caller, NEW p \in Peer, Await(c, p)
     PROVE  SavedIsComplete'
  BY <1>2 DEF Await, memory, net
<1>3. ASSUME NEW c \in Caller, Lock(c)
     PROVE  SavedIsComplete'
  BY <1>3 DEF Lock, Return, memory, net
<1>4. ASSUME NEW c \in Caller, Update(c)
     PROVE  SavedIsComplete'
  <2>1. target[c] \in Peer /\ Recorded(target[c]) \in Record
    BY DEF Recorded
  <2>2. /\ pc[c] = "update"
        /\ record' = [record EXCEPT ![target[c]] = Recorded(target[c])]
        /\ UNCHANGED <<result, resultID, queries, answers>>
    BY <1>4 DEF Update, net
  <2>3. CASE /\ pc' = [pc EXCEPT ![c] = "query"]
             /\ UNCHANGED <<store, owner, target, addr, asked, chan>>
    BY <2>1, <2>2, <2>3
  <2>4. CASE Recorded(target[c]).evm # None /\ Finish(c)
    BY <2>1, <2>2, <2>4 DEF Finish, Return
  <2>5. QED
    BY <1>4, <2>3, <2>4 DEF Update
<1>5. ASSUME NEW c \in Caller, UpdateError(c)
     PROVE  SavedIsComplete'
  BY <1>5 DEF UpdateError, Recorded, GiveUp, Return, Crash, Lingering, memory, net
<1>6. ASSUME NEW c \in Caller, Query(c)
     PROVE  SavedIsComplete'
  BY <1>6 DEF Query, Ask, IdIsFree, memory, net
<1>7. ASSUME NEW c \in Caller, QueryError(c)
     PROVE  SavedIsComplete'
  BY <1>7 DEF QueryError, GiveUp, Return, memory, net
<1>8. ASSUME NEW c \in Caller, QueryPanic(c)
     PROVE  SavedIsComplete'
  BY <1>8 DEF QueryPanic, Crash, Lingering, memory, net
<1>9. ASSUME NEW c \in Caller, Receive(c)
     PROVE  SavedIsComplete'
  BY <1>9 DEF Receive, Deregister, memory, net
<1>10. ASSUME NEW c \in Caller, Timeout(c)
     PROVE  SavedIsComplete'
  BY <1>10 DEF Timeout, Deregister, GiveUp, Return, memory, net
<1>11. ASSUME NEW c \in Caller, SetEVMAddr(c)
     PROVE  SavedIsComplete'
  <2>1. target[c] \in Peer /\ record[target[c]] \in Record
    BY <1>11 DEF SetEVMAddr
  <2>2. PICK r \in Record : r.evm = addr[c] /\ record' = [record EXCEPT ![target[c]] = r]
    <3>1. addr[c] \in Peer \cup {None}
      OBVIOUS
    <3>2. [record[target[c]] EXCEPT !.evm = addr[c]] \in Record
      BY <2>1, <3>1
    <3>3. [record[target[c]] EXCEPT !.evm = addr[c]].evm = addr[c]
      BY <2>1
    <3>4. record' = [record EXCEPT ![target[c]] = [record[target[c]] EXCEPT !.evm = addr[c]]]
      BY <1>11 DEF SetEVMAddr
    <3>5. QED
      BY <3>2, <3>3, <3>4
  <2>5. addr[c] # None
    BY <1>11 DEF SetEVMAddr
  <2>3. Finish(c) /\ pc[c] = "set" /\ UNCHANGED <<result, resultID, queries, answers>>
    BY <1>11 DEF SetEVMAddr, net
  <2>4. QED
    BY <2>1, <2>2, <2>3, <2>5 DEF Finish, Return
<1>12. ASSUME NEW c \in Caller, SetEVMAddrError(c)
     PROVE  SavedIsComplete'
  BY <1>12 DEF SetEVMAddrError, GiveUp, Return, memory, net
<1>13. ASSUME NEW q \in queries, HandleMeta(q)
     PROVE  SavedIsComplete'
  BY <1>13 DEF HandleMeta, memory, net
<1>14. ASSUME NEW a \in answers, HandleData(a)
     PROVE  SavedIsComplete'
  BY <1>14 DEF HandleData, memory, net
<1>15. ASSUME NEW x \in queries \cup answers, Lose(x)
     PROVE  SavedIsComplete'
  BY <1>15 DEF Lose, memory, net
<1>16. ASSUME NEW p \in Peer, SetRemark(p)
     PROVE  SavedIsComplete'
  <2>1. record[p] \in Record
    BY <1>16 DEF SetRemark
  <2>2. PICK r \in Record : r.evm = record[p].evm /\ record' = [record EXCEPT ![p] = r]
    BY <1>16, <2>1 DEF SetRemark
  <2>3. UNCHANGED store
    BY <1>16 DEF SetRemark, memory
  <2>4. QED
    BY <2>1, <2>2, <2>3
<1>17. ASSUME Restart
     PROVE  SavedIsComplete'
  BY <1>17 DEF Restart, Crash, Lingering, memory, net
<1>18. CASE UNCHANGED vars
  BY <1>18 DEF vars, memory, net
<1>19. QED
  BY <1>1, <1>2, <1>3, <1>4, <1>5, <1>6, <1>7, <1>8, <1>9, <1>10, <1>11, <1>12, <1>13, <1>14, <1>15, <1>16, <1>17, <1>18 DEF Next, SaveStep, NetStep

-----------------------------------------------------------------------------
(* Records *)

\* What RecordsAreCompleted says of a step.
Completed ==
    \A p \in Peer : record[p] # None =>
        /\ record'[p] # None
        /\ record[p].evm # None => record'[p].evm = record[p].evm
        /\ record[p].remark => record'[p].remark

\* Only Update, SetEVMAddr and SetRemark write a record.
LEMMA RecordStep ==
    ASSUME TypeOK, Heard, [Next]_vars
    PROVE  Completed
PROOF
<1> USE SavesAssumption, NobodyAssumption DEF TypeOK, Record, Stage, Completed
<1>1. ASSUME NEW c \in Caller, Update(c)
      PROVE  Completed
  <2>1. record' = [record EXCEPT ![target[c]] = Recorded(target[c])]
    BY <1>1 DEF Update
  <2>2. target[c] \in Peer /\ Recorded(target[c]) \in Record
    BY DEF Recorded
  <2>3. record[target[c]] # None => Recorded(target[c]) = record[target[c]]
    BY DEF Recorded
  <2>4. QED
    BY <2>1, <2>2, <2>3
<1>2. ASSUME NEW c \in Caller, SetEVMAddr(c)
      PROVE  Completed
  <2>1. target[c] \in Peer /\ record[target[c]] \in Record /\ addr[c] = target[c]
    BY <1>2 DEF SetEVMAddr, Heard, AddressHeard
  <2>2. record[target[c]].evm \in {None, target[c]}
    BY <2>1 DEF Heard, OwnAddress
  <2>3. record' = [record EXCEPT ![target[c]] = [record[target[c]] EXCEPT !.evm = addr[c]]]
    BY <1>2 DEF SetEVMAddr
  <2>4. PICK r \in Record : /\ r.evm = addr[c]
                            /\ r.remark = record[target[c]].remark
                            /\ record' = [record EXCEPT ![target[c]] = r]
    BY <2>1, <2>3
  <2>5. QED
    BY <2>1, <2>2, <2>4
<1>3. ASSUME NEW p \in Peer, SetRemark(p)
      PROVE  Completed
  <2>1. record[p] \in Record
    BY <1>3 DEF SetRemark
  <2>2. PICK r \in Record : /\ r.evm = record[p].evm
                            /\ r.remark
                            /\ record' = [record EXCEPT ![p] = r]
    BY <1>3, <2>1 DEF SetRemark
  <2>3. QED
    BY <2>1, <2>2
<1>4. CASE UNCHANGED record
  BY <1>4
<1>5. ASSUME NEW c \in Caller, SaveStep(c)
      PROVE  Update(c) \/ SetEVMAddr(c) \/ UNCHANGED record
  BY <1>5 DEF SaveStep, Lock, UpdateError, Query, Ask, QueryError, QueryPanic, Receive,
     Timeout, SetEVMAddrError
<1>6. ASSUME NetStep
      PROVE  UNCHANGED record
  BY <1>6 DEF NetStep, HandleMeta, HandleData, Lose
<1>7. ASSUME NEW c \in Caller, NEW p \in Peer, Claim(c, p) \/ Await(c, p)
      PROVE  UNCHANGED record
  BY <1>7 DEF Claim, Await
<1>8. ASSUME Restart \/ UNCHANGED vars
      PROVE  UNCHANGED record
  BY <1>8 DEF Restart, vars
<1>9. QED
  BY <1>1, <1>2, <1>3, <1>4, <1>5, <1>6, <1>7, <1>8 DEF Next

-----------------------------------------------------------------------------
(* The theorems *)

Inv == TypeOK /\ Saving /\ SavedIsComplete

LEMMA Initially == Init => Inv /\ Heard
  BY SavesAssumption, WidthAssumption, NobodyAssumption, TypeInit
     DEF Init, Inv, Saving, OneSaver, Mutexes, Answered, Inside, Heard, AddressHeard,
         ChannelHeard, Registered, AnswersFit, OwnAddress, SavedIsComplete, Id

LEMMA InvStep == Inv /\ [Next]_vars => Inv'
  BY TypeStep, SaverStep, SavedStep DEF Inv

\* The inductive invariant, in every environment.
THEOREM Invariant == Spec => []Inv
  BY Initially, InvStep, PTL DEF Spec

\* The part of it that needs the connections to end with their process.
THEOREM HeardInvariant == ASSUME "linger" \notin Ops PROVE Spec => []Heard
<1>1. Inv /\ Heard /\ [Next]_vars => Heard'
  BY HeardStep DEF Inv
<1>2. QED
  BY <1>1, Initially, Invariant, PTL DEF Spec

\* The types, for every number of goroutines, peers and ids.
THEOREM TypeCorrect == Spec => []TypeOK
  BY Invariant, PTL DEF Inv

\* However the receive loop, the probe and Run come together in Save, and
\* wherever it fails, one goroutine at a time works on a peer, with its mutex
\* held, and none that left Save leaves a mutex locked.
THEOREM OneSaverAtATime == Spec => []OneSaver
  BY Invariant, PTL DEF Inv, Saving

\* The process never takes a peer for saved whose address is not in the
\* database: a failed query or transaction leaves the peer to the next caller.
THEOREM SavedMeansComplete == Spec => []SavedIsComplete
  BY Invariant, PTL DEF Inv

\* An answer that comes after its query timed out never becomes the address of
\* another peer, as long as no id is used again while a packet has it.
THEOREM AddressesAreOwn == ASSUME "linger" \notin Ops PROVE Spec => []OwnAddress
  BY HeardInvariant, PTL DEF Heard

\* Records do not go away, addresses do not change, and the transaction that
\* adds an address keeps what the user set while the query was on its way.
THEOREM RecordsStay == ASSUME "linger" \notin Ops PROVE Spec => RecordsAreCompleted
<1>1. Inv /\ Heard /\ [Next]_vars => [Completed]_vars
  BY RecordStep DEF Inv
<1>2. QED
  BY <1>1, Invariant, HeardInvariant, PTL DEF Spec, RecordsAreCompleted, Completed
=============================================================================
