------------------------- MODULE MessagingDelivered -------------------------
(***************************************************************************)
(* A text message that its sender takes for delivered was stored, and the  *)
(* service implements Delivery, as long as the environment is Calm: a user *)
(* has one partner, nobody flushes a dialogue and no AsyncSend stalls.     *)
(***************************************************************************)
EXTENDS MessagingAgreement

(* What confirms a message, and what ends its goroutine *)

\* The answer in the channel says that the message was stored.
Confirmed(n, p, i) ==
    Commit(n, p, i) /\ (worker[<<n, p, i>>].mode = "send" \/ worker[<<n, p, i>>].chan.ok)

LEMMA ReachedChange ==
  ASSUME TypeOK, [Next]_vars, NEW n \in Node, NEW p \in Node, NEW i \in Id,
         i # seq[<<n, p>>] + 1, dialogue[<<n, p, i>>] # None, dialogue'[<<n, p, i>>] # None,
         ~dialogue[<<n, p, i>>].reached, dialogue'[<<n, p, i>>].reached
  PROVE  Confirmed(n, p, i)
<1> USE DEF stores, images, local, net, history
<1> DEFINE d == dialogue[<<n, p, i>>]
           e == dialogue'[<<n, p, i>>]
<1>1. d # e
  OBVIOUS
<1>2. CASE UserStep
  <2>1. ASSUME NEW m \in Node, NEW q \in Node, NEW c \in Content, Send(m, q, c)
        PROVE  d = e
    <3>1. <<m, q, seq[<<m, q>>] + 1>> # <<n, p, i>>
      <4>1. ASSUME <<m, q, seq[<<m, q>>] + 1>> = <<n, p, i>>
            PROVE  FALSE
        <5>1. m = n /\ q = p /\ seq[<<m, q>>] + 1 = i
          BY <4>1
        <5> QED
          BY <5>1
      <4> QED
        BY <4>1
    <3> QED
      BY <2>1, <3>1 DEF Send, TypeOK, Key
  <2>2. ASSUME NEW m \in Node, NEW q \in Node, NEW ids, DelMessages(m, q, ids)
        PROVE  d = e
    BY <2>2 DEF DelMessages, Key
  <2>3. ASSUME NEW m \in Node, NEW q \in Node, FlushMessages(m, q)
        PROVE  d = e
    BY <2>3 DEF FlushMessages, Key
  <2> QED
    BY <1>1, <1>2, <2>1, <2>2, <2>3, UserCases DEF AsyncSend
<1>3. CASE RequestStep
  <2>1. ASSUME NEW r \in requests, Store(r)
        PROVE  d = e
    <3>1. <<r.to, r.from, seq[<<r.to, r.from>>] + 1>> # <<n, p, i>>
      <4>1. ASSUME <<r.to, r.from, seq[<<r.to, r.from>>] + 1>> = <<n, p, i>>
            PROVE  FALSE
        <5>1. r.to = n /\ r.from = p /\ seq[<<r.to, r.from>>] + 1 = i
          BY <4>1
        <5> QED
          BY <5>1
      <4> QED
        BY <4>1
    <3> QED
      BY <2>1, <3>1 DEF Store, TypeOK, Key
  <2> QED
    BY <1>1, <1>3, <2>1, StoreOrNot
<1>4. CASE WorkerStep
  <2>1. ASSUME NEW m \in Node, NEW q \in Node, NEW j \in Id, Commit(m, q, j)
        PROVE  Confirmed(n, p, i)
    <3>1. CASE <<m, q, j>> # <<n, p, i>>
      <4>1. d = e
        BY <2>1, <3>1 DEF Commit, TypeOK, Key
      <4> QED
        BY <1>1, <4>1
    <3>2. CASE <<m, q, j>> = <<n, p, i>>
      <4>1. m = n /\ q = p /\ j = i
        BY <3>2
      <4>2. Commit(n, p, i)
        BY <2>1, <4>1
      <4> QED
        BY <1>1, <4>2 DEF Commit, Confirmed
    <3> QED
      BY <3>1, <3>2
  <2> QED
    BY <1>1, <1>4, <2>1 DEF WorkerStep, SendBytes, SendBytesError, Panic, Timeout
<1>5. CASE EnvironmentStep
  <2>1. ASSUME NEW m \in Node, NEW q \in Node, NEW j \in Id, Age(m, q, j)
        PROVE  e.reached = d.reached
    BY <2>1 DEF Age, TypeOK, Key, Message
  <2>2. ASSUME NEW m \in Node, NEW q \in Node, NEW j \in Id, Destroy(m, q, j)
        PROVE  d = e
    BY <2>2 DEF Destroy, TypeOK, Key
  <2> QED
    BY <1>1, <1>5, <2>1, <2>2 DEF EnvironmentStep, Restart
<1> QED
  BY <1>1, <1>2, <1>3, <1>4, <1>5, SnapshotFrame, ResponseFrame DEF Next, vars

LEMMA WorkerLoss ==
  ASSUME TypeOK, RegisteredIsAwaited, [Next]_vars, NEW n \in Node, NEW p \in Node, NEW i \in Id,
         worker[<<n, p, i>>] # None, worker'[<<n, p, i>>] = None
  PROVE  \/ Commit(n, p, i) \/ SendBytesError(n, p, i) \/ Timeout(n, p, i)
         \/ Crash(n)
<1> USE DEF stores, images, local, net, history
<1> DEFINE w == worker[<<n, p, i>>]
           v == worker'[<<n, p, i>>]
<1>1. CASE SnapshotStep
  <2>1. ASSUME NEW m \in snapshot, Launch(m)
        PROVE  v # None
    <3>1. <<m.from, m.to, m.id>> # <<n, p, i>>
      BY <2>1 DEF Launch
    <3> QED
      BY <2>1, <3>1 DEF Launch, TypeOK, Key
  <2> QED
    BY <1>1, <2>1 DEF SnapshotStep, LaunchSkip, LaunchError
<1>2. CASE ResponseStep
  <2>1. ASSUME NEW a \in responses, HandleResponse(a)
        PROVE  v # None
    BY <2>1, HandleResponseEffect, NoneAssumption DEF TypeOK, Key
  <2> QED
    BY <1>2, <2>1 DEF ResponseStep, DropResponse, LoseResponse
<1>3. CASE WorkerStep
  <2>1. ASSUME NEW m \in Node, NEW q \in Node, NEW j \in Id, Exit(m, q, j)
        PROVE  m = n /\ q = p /\ j = i
    <3>1. <<m, q, j>> = <<n, p, i>>
      BY <2>1 DEF Exit, TypeOK, Key
    <3> QED
      BY <3>1
  <2>2. ASSUME NEW m \in Node, Crash(m)
        PROVE  m = n
    BY <2>2 DEF Crash, TypeOK, Key
  <2>3. ASSUME NEW m \in Node, NEW q \in Node, NEW j \in Id, SendBytes(m, q, j)
        PROVE  v # None
    <3> DEFINE u == Resumed(worker[<<m, q, j>>])
    <3>1. worker' = [worker EXCEPT ![<<m, q, j>>] = u] /\ u # None
      BY <2>3, SendBytesEffect, NoneAssumption
    <3> HIDE DEF u
    <3> QED
      BY <3>1 DEF TypeOK, Key
  <2>4. ASSUME NEW m \in Node, NEW q \in Node, NEW j \in Id,
               Commit(m, q, j) \/ SendBytesError(m, q, j) \/ Timeout(m, q, j)
        PROVE  Commit(n, p, i) \/ SendBytesError(n, p, i) \/ Timeout(n, p, i)
    <3>1. Exit(m, q, j)
      BY <2>4 DEF Commit, SendBytesError, Timeout
    <3>2. m = n /\ q = p /\ j = i
      BY <2>1, <3>1
    <3> QED
      BY <2>4, <3>2
  <2>5. ASSUME NEW m \in Node, NEW q \in Node, NEW j \in Id, Panic(m, q, j)
        PROVE  Crash(n)
    <3>1. Crash(m)
      BY <2>5 DEF Panic
    <3> QED
      BY <2>2, <3>1
  <2> QED
    BY <1>3, <2>3, <2>4, <2>5 DEF WorkerStep
<1>4. CASE EnvironmentStep
  <2>1. ASSUME NEW m \in Node, Crash(m)
        PROVE  Crash(n)
    <3>1. m = n
      BY <2>1 DEF Crash, TypeOK, Key
    <3> QED
      BY <2>1, <3>1
  <2> QED
    BY <1>4, <2>1 DEF EnvironmentStep, Age, Destroy, Restart
<1> QED
  BY <1>1, <1>2, <1>3, <1>4, UserFrame, RequestFrame DEF Next, vars

-----------------------------------------------------------------------------
(* A text message that was not stored *)

\* The message is a text that its receiver did not store.
Undelivered(n, p, i) == (\E c \in Text : <<n, p, i, c>> \in sent) /\ ~Stored(n, p, i)

LEMMA TextIsContent ==
  ASSUME TypeOK, NEW n \in Node, NEW p \in Node, NEW i \in Id, Undelivered(n, p, i)
  PROVE  Submitted(n, p, i)
  BY DEF Undelivered, Submitted, Content

\* Under one partner, the only answer its goroutine can take is the no to a check.
LEMMA TakesNo ==
  ASSUME TypeOK, AgreementInv, OnePartner,
         NEW n \in Node, NEW p \in Node, NEW i \in Id, Undelivered(n, p, i),
         worker[<<n, p, i>>] # None,
         NEW a \in responses, a.to = n, a.id = i,
         a.proto = ProtoOf(worker[<<n, p, i>>].content)
  PROVE  ~a.ok /\ a.kind = "RespExistence" /\ a.from = p
<1>1. worker[<<n, p, i>>].content \in Text
  <2>1. PICK c \in Text : <<n, p, i, c>> \in sent
    BY DEF Undelivered
  <2>2. <<n, p, i, worker[<<n, p, i>>].content>> \in sent
    BY DEF AgreementInv, WorkerOK
  <2> QED
    BY <2>1, <2>2 DEF AgreementInv, SentOK
<1>2. PICK c \in Content : <<a.to, a.from, a.id, c>> \in sent /\ a.proto = ProtoOf(c)
  BY DEF AgreementInv, ResponseOK
<1>3. c \in Text /\ a.proto = "text"
  BY <1>1, <1>2, PayloadAssumption DEF ProtoOf
<1>4. a.from = p
  <2>1. PICK d \in Text : <<n, p, i, d>> \in sent
    BY DEF Undelivered
  <2>2. <<n, p, d>> \in Talk /\ <<n, a.from, c>> \in Talk
    BY <1>2, <2>1 DEF AgreementInv, SentOK
  <2>3. a.from \in Node
    BY DEF TypeOK, Response
  <2> QED
    BY <1>3, <2>1, <2>2, <2>3 DEF OnePartner
<1>5. ~a.ok
  BY <1>4 DEF AgreementInv, ResponseOK, Undelivered
<1> QED
  BY <1>3, <1>4, <1>5 DEF AgreementInv, ResponseOK

\* There is one check of it, and one answer.
LEMMA OneAsked ==
  ASSUME TypeOK, AgreementInv,
         NEW n \in Node, NEW p \in Node, NEW i \in Id, Undelivered(n, p, i),
         NEW r \in requests, r.kind = "ReqExistence", r.from = n, r.to = p, r.id = i
  PROVE  r = [kind |-> "ReqExistence", proto |-> "text", from |-> n, to |-> p, id |-> i,
              content |-> None]
<1>1. PICK d \in Text : <<n, p, i, d>> \in sent
  BY DEF Undelivered
<1>2. PICK c \in Content : <<n, p, i, c>> \in sent /\ r.proto = ProtoOf(c)
  BY DEF AgreementInv, RequestOK
<1>3. c = d
  BY <1>1, <1>2 DEF AgreementInv, SentOK
<1>4. r.proto = "text"
  BY <1>1, <1>2, <1>3 DEF ProtoOf
<1> QED
  BY <1>4 DEF TypeOK, Request, Carried

LEMMA OneTold ==
  ASSUME TypeOK, AgreementInv,
         NEW n \in Node, NEW p \in Node, NEW i \in Id, Undelivered(n, p, i),
         NEW a \in responses, a.kind = "RespExistence", a.to = n, a.from = p, a.id = i
  PROVE  a = [kind |-> "RespExistence", proto |-> "text", from |-> p, to |-> n, id |-> i,
              ok |-> FALSE]
<1>1. PICK d \in Text : <<n, p, i, d>> \in sent
  BY DEF Undelivered
<1>2. PICK c \in Content : <<n, p, i, c>> \in sent /\ a.proto = ProtoOf(c)
  BY DEF AgreementInv, ResponseOK
<1>3. c = d
  BY <1>1, <1>2 DEF AgreementInv, SentOK
<1>4. a.proto = "text"
  BY <1>1, <1>2, <1>3 DEF ProtoOf
<1>5. ~a.ok
  BY DEF AgreementInv, ResponseOK, Undelivered
<1> QED
  BY <1>4, <1>5 DEF TypeOK, Response

\* What the goroutine of such a message does next.
LEMMA UndeliveredWorker ==
  ASSUME TypeOK, AgreementInv, OnePartner, [Next]_vars,
         NEW n \in Node, NEW p \in Node, NEW i \in Id, Undelivered(n, p, i),
         worker'[<<n, p, i>>] # None
  PROVE  LET w == worker[<<n, p, i>>]
             v == worker'[<<n, p, i>>] IN
         \/ v = w
         \/ /\ w = None
            /\ \E m \in snapshot : /\ Launch(m) /\ m.from = n /\ m.to = p /\ m.id = i
                                   /\ v.mode = m.mode /\ v.reached = m.reached /\ v.chan = None
         \/ /\ w # None /\ w.chan = None
            /\ v.mode = w.mode /\ v.reached = w.reached /\ v.chan # None /\ ~v.chan.ok
            /\ \E a \in responses : /\ HandleResponse(a) /\ a.kind = "RespExistence"
                                    /\ a.to = n /\ a.from = p /\ a.id = i
<1> DEFINE w == worker[<<n, p, i>>]
           v == worker'[<<n, p, i>>]
<1>1. w # None => w \in Worker
  BY DEF TypeOK, Key
<1>2. ASSUME NEW m \in snapshot, v = Started(m)
      PROVE  v.mode = m.mode /\ v.reached = m.reached /\ v.chan = None
  BY <1>2 DEF Started
<1>3. ASSUME NEW a \in responses, w # None, a.to = n, a.id = i, a.proto = ProtoOf(w.content),
             v = Taking(a), Taker(a) = p
      PROVE  /\ v.mode = w.mode /\ v.reached = w.reached /\ v.chan # None /\ ~v.chan.ok
             /\ a.kind = "RespExistence" /\ a.from = p
  <2>1. ~a.ok /\ a.kind = "RespExistence" /\ a.from = p
    BY <1>3, TakesNo
  <2>2. v = [w EXCEPT !.chan = [kind |-> a.kind, ok |-> a.ok]]
    BY <1>3 DEF Taking
  <2>3. [kind |-> a.kind, ok |-> a.ok] \in Answer
    BY DEF TypeOK, Response, Answer
  <2> QED
    BY <1>1, <1>3, <2>1, <2>2, <2>3, NoneAssumption DEF Worker
<1>4. ~SendBytes(n, p, i)
  <2>1. ASSUME SendBytes(n, p, i) PROVE FALSE
    <3>1. w.content \in Image /\ w # None
      BY <2>1, SendBytesEffect
    <3>2. PICK c \in Text : <<n, p, i, c>> \in sent
      BY DEF Undelivered
    <3>3. <<n, p, i, w.content>> \in sent
      BY <3>1 DEF AgreementInv, WorkerOK
    <3> QED
      BY <3>1, <3>2, <3>3, PayloadAssumption DEF AgreementInv, SentOK
  <2> QED
    BY <2>1
<1> HIDE DEF w, v
<1>5. \/ v = w
      \/ /\ w = None
         /\ \E m \in snapshot : /\ Launch(m) /\ m.from = n /\ m.to = p /\ m.id = i
                                /\ v = Started(m)
      \/ /\ w # None /\ w.chan = None
         /\ \E a \in responses : /\ HandleResponse(a) /\ a.to = n /\ a.id = i
                                 /\ a.proto = ProtoOf(w.content) /\ v = Taking(a)
                                 /\ Taker(a) = p
  BY <1>4, WorkerChange DEF AgreementInv, w, v
<1> QED
  BY <1>2, <1>3, <1>5 DEF w, v

LEMMA UndeliveredBefore ==
  ASSUME TypeOK, AgreementInv', [Next]_vars,
         NEW n \in Node, NEW p \in Node, NEW i \in Id, Undelivered(n, p, i)', Submitted(n, p, i)
  PROVE  Undelivered(n, p, i)
<1>1. PICK c \in Text : <<n, p, i, c>> \in sent'
  BY DEF Undelivered
<1>2. PICK d \in Content : <<n, p, i, d>> \in sent
  BY DEF Submitted
<1>3. c = d
  BY <1>1, <1>2, SentGrows DEF AgreementInv, SentOK
<1> QED
  BY <1>1, <1>2, <1>3, SubmittedStays DEF Undelivered

\* A message just sent: nothing else names it yet.
LEMMA NewMessage ==
  ASSUME TypeOK, TypeOK', AgreementInv, [Next]_vars,
         NEW n \in Node, NEW p \in Node, NEW i \in Id, Undelivered(n, p, i)', ~Submitted(n, p, i)
  PROVE  Unconfirmed(n, p, i)' /\ ChecksApart(n, p, i)'
<1>1. PICK c \in Content : Send(n, p, c) /\ i = seq[<<n, p>>] + 1
  <2>1. PICK c \in Text : <<n, p, i, c>> \in sent'
    BY DEF Undelivered
  <2>2. <<n, p, i, c>> \notin sent
    BY <2>1 DEF Submitted, Content
  <2>3. PICK m \in Node, q \in Node, d \in Content : Send(m, q, d)
    BY <2>1, <2>2, SentChange
  <2>4. <<n, p, i, c>> = <<m, q, seq[<<m, q>>] + 1, d>>
    BY <2>1, <2>2, <2>3 DEF Send
  <2>5. m = n /\ q = p /\ i = seq[<<n, p>>] + 1
    BY <2>4
  <2> QED
    BY <2>3, <2>5
<1>2. UNCHANGED <<worker, requests, responses, arrived>>
  BY <1>1 DEF Send, net
<1>3. worker[<<n, p, i>>] = None
  BY DEF AgreementInv, WorkerOK, Submitted, TypeOK, Key, Worker
<1>4. ~Asked(n, p, i) /\ ~Told(n, p, i) /\ <<n, p, i>> \notin arrived
  BY DEF AgreementInv, RequestOK, ResponseOK, ArrivedOK, Asked, Told, Submitted
<1>5. ~Asked(n, p, i)' /\ ~Told(n, p, i)' /\ <<n, p, i>> \notin arrived'
  BY <1>2, <1>4 DEF Asked, Told
<1>6. ~dialogue'[<<n, p, i>>].reached
  BY <1>1 DEF Send, TypeOK, Key
<1>7. ASSUME NEW m \in snapshot', m.from = n, m.to = p, m.id = i
      PROVE  ~m.reached
  <2>1. CASE m \in snapshot
    <3>1. m.content \in Content /\ <<n, p, i, m.content>> \in sent
      BY <1>7, <2>1 DEF AgreementInv, SnapshotOK, TypeOK, Snapshot
    <3> QED
      BY <3>1 DEF Submitted
  <2>2. CASE Reads(m, dialogue, pending)
    BY <1>7, <2>2 DEF Reads, AgreementInv, PendingOK
  <2>3. CASE Reads(m, dialogue', pending')
    BY <1>6, <1>7, <2>3 DEF Reads
  <2> QED
    BY <2>1, <2>2, <2>3, SnapshotChange
<1>8. worker'[<<n, p, i>>] = None
  BY <1>2, <1>3
<1>9. Unconfirmed(n, p, i)'
  BY <1>5, <1>6, <1>7, <1>8 DEF Unconfirmed
<1>10. ChecksApart(n, p, i)'
  BY <1>5, <1>8 DEF ChecksApart, Working
<1> QED
  BY <1>9, <1>10

\* Nothing confirms the message: the goroutine that waits for it has no answer
\* to a request to store, and no answer yes to a check.
LEMMA NotConfirmed ==
  ASSUME TypeOK, NEW n \in Node, NEW p \in Node, NEW i \in Id, ChecksApart(n, p, i)
  PROVE  ~Confirmed(n, p, i)
<1>1. ASSUME Confirmed(n, p, i) PROVE FALSE
  <2>1. worker[<<n, p, i>>] # None /\ worker[<<n, p, i>>].chan # None
    BY <1>1 DEF Confirmed, Commit, Answered
  <2>2. worker[<<n, p, i>>].mode \in Mode
    BY <2>1 DEF TypeOK, Worker, Key
  <2> QED
    BY <1>1, <2>1, <2>2 DEF ChecksApart, Confirmed, Working, Mode
<1> QED
  BY <1>1

LEMMA UnconfirmedNext ==
  ASSUME TypeOK, TypeOK', AgreementInv, OnePartner, [Next]_vars,
         NEW n \in Node, NEW p \in Node, NEW i \in Id, Undelivered(n, p, i),
         Unconfirmed(n, p, i), ChecksApart(n, p, i)
  PROVE  Unconfirmed(n, p, i)'
<1>0. Submitted(n, p, i) /\ i # seq[<<n, p>>] + 1
  BY TextIsContent, SubmittedId DEF AgreementInv
<1>1. ASSUME dialogue'[<<n, p, i>>] # None
      PROVE  ~dialogue'[<<n, p, i>>].reached
  <2>1. dialogue[<<n, p, i>>] # None
    BY <1>0, <1>1, RecordChange DEF Kept
  <2>2. ~dialogue[<<n, p, i>>].reached
    BY <2>1 DEF Unconfirmed
  <2> QED
    BY <1>0, <1>1, <2>1, <2>2, ReachedChange, NotConfirmed
<1>2. ASSUME worker'[<<n, p, i>>] # None
      PROVE  ~worker'[<<n, p, i>>].reached
  BY <1>2, UndeliveredWorker DEF Unconfirmed
<1>3. ASSUME NEW m \in snapshot', m.from = n, m.to = p, m.id = i
      PROVE  ~m.reached
  <2>1. CASE m \in snapshot
    BY <1>3, <2>1 DEF Unconfirmed
  <2>2. CASE Reads(m, dialogue, pending)
    BY <1>3, <2>2 DEF Reads, Unconfirmed
  <2>3. CASE Reads(m, dialogue', pending')
    BY <1>1, <1>3, <2>3 DEF Reads
  <2> QED
    BY <2>1, <2>2, <2>3, SnapshotChange
<1>4. <<n, p, i>> \notin arrived'
  <2>1. ASSUME Commit(n, p, i), worker[<<n, p, i>>].mode = "send" \/ worker[<<n, p, i>>].reached
        PROVE  FALSE
    <3>1. worker[<<n, p, i>>] # None
      BY <2>1 DEF Commit, Answered
    <3>2. worker[<<n, p, i>>].mode # "send"
      BY <2>1, NotConfirmed DEF Confirmed
    <3> QED
      BY <2>1, <3>1, <3>2 DEF Unconfirmed
  <2> QED
    BY <2>1, ArrivedChange DEF Unconfirmed
<1> QED
  BY <1>1, <1>2, <1>3, <1>4 DEF Unconfirmed

\* A goroutine is launched when there is none, and nothing else moves.
LEMMA LaunchEffect ==
  ASSUME NEW m \in snapshot, Launch(m)
  PROVE  worker[<<m.from, m.to, m.id>>] = None /\ UNCHANGED responses
  BY DEF Launch, history

LEMMA HandleResponseFrame ==
  ASSUME NEW a \in responses, HandleResponse(a)
  PROVE  UNCHANGED <<requests, snapshot>> /\ responses' = responses \ {a}
  BY DEF HandleResponse

\* A goroutine that sends is never joined by a check.
LEMMA SendingApart ==
  ASSUME TypeOK, AgreementInv, OnePartner, [Next]_vars,
         NEW n \in Node, NEW p \in Node, NEW i \in Id, Undelivered(n, p, i),
         ChecksApart(n, p, i), Working(n, p, i, "send")'
  PROVE  worker'[<<n, p, i>>].chan = None /\ ~Asked(n, p, i)' /\ ~Told(n, p, i)'
<1> DEFINE w == worker[<<n, p, i>>]
           v == worker'[<<n, p, i>>]
<1>1. v # None /\ v.mode = "send"
  BY DEF Working
<1>2. CASE v = w
  <2>1. w # None /\ w.chan = None /\ ~Asked(n, p, i) /\ ~Told(n, p, i)
    BY <1>1, <1>2 DEF ChecksApart, Working
  <2>2. ~Asked(n, p, i)'
    BY <2>1, AskedChange, LaunchEffect
  <2>3. ~Told(n, p, i)'
    BY <2>1, ToldChange DEF Asked
  <2> QED
    BY <1>2, <2>1, <2>2, <2>3
<1>3. ASSUME NEW m \in snapshot, w = None, Launch(m), m.from = n, m.to = p, m.id = i,
             m.mode = "send", v.chan = None
      PROVE  v.chan = None /\ ~Asked(n, p, i)' /\ ~Told(n, p, i)'
  <2>1. Reading(n, p, i, "send") /\ ~Working(n, p, i, "check")
    BY <1>3 DEF Reading, Working
  <2>2. ~Asked(n, p, i) /\ ~Told(n, p, i)
    BY <2>1 DEF ChecksApart
  <2>3. requests' = requests \cup {RequestOf(m.from, m.to, m.id, FirstStage(m), m.content)}
    BY <1>3 DEF Launch
  <2>4. RequestOf(m.from, m.to, m.id, FirstStage(m), m.content).kind # "ReqExistence"
    BY <1>3 DEF RequestOf, FirstStage
  <2>5. ~Asked(n, p, i)'
    BY <2>2, <2>3, <2>4 DEF Asked
  <2>6. ~Told(n, p, i)'
    BY <1>3, <2>2, LaunchEffect DEF Told
  <2> QED
    BY <1>3, <2>5, <2>6
<1>4. ASSUME NEW a \in responses, w # None, v.mode = w.mode, a.kind = "RespExistence",
             a.to = n, a.from = p, a.id = i
      PROVE  FALSE
  <2>1. ~Told(n, p, i)
    BY <1>1, <1>4 DEF ChecksApart, Working
  <2> QED
    BY <1>4, <2>1 DEF Told
<1> HIDE DEF w, v
<1>5. \/ v = w
      \/ /\ w = None
         /\ \E m \in snapshot : /\ Launch(m) /\ m.from = n /\ m.to = p /\ m.id = i
                                /\ v.mode = m.mode /\ v.chan = None
      \/ /\ w # None /\ v.mode = w.mode
         /\ \E a \in responses : a.kind = "RespExistence" /\ a.to = n /\ a.from = p /\ a.id = i
  BY <1>1, UndeliveredWorker DEF w, v
<1>6. v.chan = None /\ ~Asked(n, p, i)' /\ ~Told(n, p, i)'
  BY <1>1, <1>2, <1>3, <1>4, <1>5 DEF v
<1> QED
  BY <1>6 DEF v

\* What AsyncSend reads as fresh has no check under way; as long as a goroutine
\* of it is to be started to send, a check has its goroutine, without an answer.
LEMMA ReadingApart ==
  ASSUME TypeOK, AgreementInv, AgeInv, AgeInv', OnePartner, "stall" \notin Ops, [Next]_vars,
         NEW n \in Node, NEW p \in Node, NEW i \in Id, Undelivered(n, p, i),
         ChecksApart(n, p, i), Reading(n, p, i, "send")'
  PROVE  /\ ~(Asked(n, p, i)' /\ Told(n, p, i)')
         /\ Asked(n, p, i)' \/ Told(n, p, i)' =>
                Working(n, p, i, "check")' /\ worker'[<<n, p, i>>].chan = None
<1> DEFINE w == worker[<<n, p, i>>]
           v == worker'[<<n, p, i>>]
<1>1. PICK m \in snapshot' : m.from = n /\ m.to = p /\ m.id = i /\ m.mode = "send"
  BY DEF Reading
<1>2. CASE Reads(m, dialogue', pending')
  <2>1. dialogue'[<<n, p, i>>] # None /\ dialogue'[<<n, p, i>>].fresh
    BY <1>1, <1>2 DEF Reads
  <2>2. ~Checked(n, p, i)'
    BY <2>1 DEF AgeInv, Old
  <2> QED
    BY <2>2 DEF Checked
<1>3. CASE m \in snapshot
  <2>1. Reading(n, p, i, "send")
    BY <1>1, <1>3 DEF Reading
  <2>2. CASE ~Asked(n, p, i) /\ ~Told(n, p, i)
    <3>1. ~Told(n, p, i)'
      BY <2>2, ToldChange DEF Asked
    <3>2. ASSUME Asked(n, p, i)'
          PROVE  v # None /\ v.mode = "check" /\ v.chan = None
      <4>1. PICK k \in snapshot : /\ Launch(k) /\ k.mode = "check"
                                  /\ k.from = n /\ k.to = p /\ k.id = i
        BY <2>2, <3>2, AskedChange
      <4>2. Started(k) \in Worker /\ Started(k) # None
        BY StartedType, NoneAssumption DEF TypeOK
      <4>3. v = Started(k)
        BY <4>1 DEF Launch, TypeOK, Key
      <4> QED
        BY <4>1, <4>2, <4>3 DEF Started
    <3> QED
      BY <3>1, <3>2 DEF Working
  <2>3. CASE Asked(n, p, i) \/ Told(n, p, i)
    <3>1. w # None /\ w.mode = "check" /\ w.chan = None /\ ~(Asked(n, p, i) /\ Told(n, p, i))
      BY <2>1, <2>3 DEF ChecksApart, Working
    <3>2. v # None
      <4>1. ~Commit(n, p, i) /\ ~SendBytesError(n, p, i)
        BY <3>1 DEF Commit, SendBytesError, Answered
      <4>2. ~Timeout(n, p, i)
        BY <1>1, <1>3 DEF Timeout
      <4>3. ~Crash(n)
        BY <1>1 DEF Crash
      <4> QED
        BY <3>1, <4>1, <4>2, <4>3, WorkerLoss DEF AgreementInv
    <3>3. Asked(n, p, i)' => Asked(n, p, i)
      BY <3>1, AskedChange, LaunchEffect
    <3>4. CASE v = w
      <4>1. ~(Asked(n, p, i)' /\ Told(n, p, i)')
        <5>1. CASE Told(n, p, i)
          BY <3>1, <3>3, <5>1
        <5>2. CASE ~Told(n, p, i)
          <6>1. ASSUME NEW r \in requests, Consume(r), r.kind = "ReqExistence",
                       r.from = n, r.to = p, r.id = i
                PROVE  ~Asked(n, p, i)'
            <7>1. ASSUME NEW q \in requests', q.kind = "ReqExistence", q.from = n, q.to = p, q.id = i
                  PROVE  FALSE
              <8>1. q \in requests /\ q # r
                BY <6>1 DEF Consume
              <8> QED
                BY <6>1, <7>1, <8>1, OneAsked
            <7> QED
              BY <7>1 DEF Asked
          <6> QED
            BY <5>2, <6>1, ToldChange
        <5> QED
          BY <5>1, <5>2
      <4> QED
        BY <3>1, <3>4, <4>1 DEF Working
    <3>5. ASSUME NEW a \in responses, HandleResponse(a), a.kind = "RespExistence",
                 a.to = n, a.from = p, a.id = i
          PROVE  ~Asked(n, p, i)' /\ ~Told(n, p, i)'
      <4>1. Told(n, p, i) /\ ~Asked(n, p, i)
        BY <3>1, <3>5 DEF Told
      <4>2. ASSUME NEW b \in responses', b.kind = "RespExistence", b.to = n, b.from = p, b.id = i
            PROVE  FALSE
        <5>1. b \in responses /\ b # a
          BY <3>5, HandleResponseFrame
        <5> DEFINE told == [kind |-> "RespExistence", proto |-> "text", from |-> p, to |-> n,
                            id |-> i, ok |-> FALSE]
        <5>2. a = told
          BY <3>5, OneTold
        <5>3. b = told
          BY <4>2, <5>1, OneTold
        <5> QED
          BY <5>1, <5>2, <5>3
      <4> QED
        BY <3>3, <4>1, <4>2 DEF Told
    <3> QED
      BY <3>1, <3>2, <3>4, <3>5, UndeliveredWorker
  <2> QED
    BY <2>2, <2>3
<1>4. CASE Reads(m, dialogue, pending)
  <2>1. dialogue[<<n, p, i>>] # None /\ dialogue[<<n, p, i>>].fresh
    BY <1>1, <1>4 DEF Reads
  <2>2. ~Asked(n, p, i) /\ ~Reading(n, p, i, "check") /\ ~Told(n, p, i)
    BY <2>1 DEF AgeInv, Old, Checked
  <2>3. ~Told(n, p, i)'
    BY <2>2, ToldChange DEF Asked
  <2>4. ~Asked(n, p, i)'
    BY <2>2, AskedChange DEF Reading
  <2> QED
    BY <2>3, <2>4
<1> QED
  BY <1>2, <1>3, <1>4, SnapshotChange

LEMMA NextUndelivered ==
  ASSUME TypeOK, TypeOK', AgreementInv, AgreementInv', AgeInv, AgeInv', UndeliveredInv,
         [Next]_vars, Calm
  PROVE  UndeliveredInv'
<1> SUFFICES ASSUME NEW n \in Node, NEW p \in Node, NEW i \in Id, Undelivered(n, p, i)'
             PROVE  Unconfirmed(n, p, i)' /\ ChecksApart(n, p, i)'
  BY DEF UndeliveredInv, Undelivered
<1> USE DEF Calm
<1>1. CASE ~Submitted(n, p, i)
  BY <1>1, NewMessage
<1>2. CASE Submitted(n, p, i)
  <2>1. Undelivered(n, p, i)
    BY <1>2, UndeliveredBefore
  <2>2. Unconfirmed(n, p, i) /\ ChecksApart(n, p, i)
    BY <2>1 DEF UndeliveredInv, Undelivered
  <2>3. Unconfirmed(n, p, i)'
    BY <2>1, <2>2, UnconfirmedNext
  <2>4. Working(n, p, i, "send")' =>
           worker'[<<n, p, i>>].chan = None /\ ~Asked(n, p, i)' /\ ~Told(n, p, i)'
    BY <2>1, <2>2, SendingApart
  <2>5. ASSUME Working(n, p, i, "check")', worker'[<<n, p, i>>].chan # None
        PROVE  ~worker'[<<n, p, i>>].chan.ok
    BY <2>1, <2>2, <2>5, UndeliveredWorker DEF Working, ChecksApart
  <2>6. Reading(n, p, i, "send")' =>
           /\ ~(Asked(n, p, i)' /\ Told(n, p, i)')
           /\ Asked(n, p, i)' \/ Told(n, p, i)' =>
                  Working(n, p, i, "check")' /\ worker'[<<n, p, i>>].chan = None
    BY <2>1, <2>2, ReadingApart
  <2> QED
    BY <2>3, <2>4, <2>5, <2>6 DEF ChecksApart
<1> QED
  BY <1>1, <1>2

LEMMA InitUndelivered == Init => UndeliveredInv
  BY DEF Init, UndeliveredInv

\* TextInv is inductive: in a calm environment the states in which a text
\* message is confirmed and not stored cannot be reached.
THEOREM TextInvariant ==
  ASSUME Calm
  PROVE  Spec => [](TypeOK /\ TextInv)
<1>1. Init => TypeOK /\ TextInv
  BY InitTypeOK, InitAgreement, InitAge, InitUndelivered DEF TextInv
<1>2. TypeOK /\ TextInv /\ [Next]_vars => (TypeOK /\ TextInv)'
  <2> SUFFICES ASSUME TypeOK, AgreementInv, AgeInv, UndeliveredInv, [Next]_vars
               PROVE  TypeOK' /\ AgreementInv' /\ AgeInv' /\ UndeliveredInv'
    BY DEF TextInv
  <2>1. TypeOK'
    BY NextTypeOK DEF AgreementInv
  <2>2. AgreementInv' /\ AgeInv'
    BY <2>1, NextAgreement, NextAge DEF Calm
  <2> QED
    BY <2>1, <2>2, NextUndelivered
<1> QED
  BY <1>1, <1>2, PTL DEF Spec

LEMMA ReachedIsStored == TypeOK /\ TextInv => ReachedTextDelivered
<1> SUFFICES ASSUME TypeOK, AgreementInv, UndeliveredInv,
                    NEW n \in Node, NEW p \in Node, NEW i \in Id, Own(n, p, i),
                    dialogue[<<n, p, i>>].reached, dialogue[<<n, p, i>>].content \in Text
             PROVE  <<n, p, i, dialogue[<<n, p, i>>].content>> \in got
  BY DEF TextInv, ReachedTextDelivered
<1>1. <<n, p, i, dialogue[<<n, p, i>>].content>> \in sent
  BY DEF AgreementInv, DialogueOK, Own
<1>2. Stored(n, p, i)
  BY <1>1 DEF UndeliveredInv, Unconfirmed, Own
<1>3. PICK c \in Content : <<n, p, i, c>> \in got
  BY <1>2 DEF Stored
<1>4. PICK d \in Content : <<n, p, i, d>> \in sent /\ Carries(c, d)
  BY <1>3 DEF AgreementInv, GotOK
<1>5. d = dialogue[<<n, p, i>>].content
  BY <1>1, <1>4 DEF AgreementInv, SentOK
<1> QED
  BY <1>3, <1>4, <1>5, PayloadAssumption DEF Carries

\* A text message that its sender's history shows as reached is in its
\* receiver's store, whatever is lost, late, deleted, burnt or restarted.
THEOREM ReachedWasDelivered ==
  ASSUME Calm
  PROVE  Spec => []ReachedTextDelivered
BY TextInvariant, ReachedIsStored, PTL

-----------------------------------------------------------------------------
(* The service implements Delivery *)

(* What the two sets of Delivery that are read off the stores contain *)

ConfirmedTexts ==
    { t \in Texts(sent) : Own(t[1], t[2], t[3]) /\ dialogue[<<t[1], t[2], t[3]>>].reached }
NotifiedTexts == { t \in Texts(sent) : <<t[1], t[2], t[3]>> \in arrived }

LEMMA TextType ==
  ASSUME TypeOK, NEW t \in Texts(sent)
  PROVE  /\ t[1] \in Node /\ t[2] \in Node /\ t[3] \in Id /\ t[4] \in Text
         /\ t = <<t[1], t[2], t[3], t[4]>>
         /\ t \in sent
         /\ t \in Promise!Letter
         /\ Submitted(t[1], t[2], t[3])
<1>1. t \in sent /\ t[4] \in Text
  BY DEF Texts
<1>2. t[1] \in Node /\ t[2] \in Node /\ t[3] \in Id /\ t = <<t[1], t[2], t[3], t[4]>>
  BY <1>1 DEF TypeOK
<1> QED
  BY <1>1, <1>2 DEF Promise!Letter, Submitted, Content

\* A text whose sender takes it for delivered was stored.
TakenStored == ConfirmedTexts \cup NotifiedTexts \subseteq Texts(got)

LEMMA TakenIsStored == TypeOK /\ TextInv => TakenStored
<1> SUFFICES ASSUME TypeOK, TextInv, NEW t \in ConfirmedTexts \cup NotifiedTexts
             PROVE  t \in Texts(got)
  BY DEF TakenStored
<1>1. t \in Texts(sent)
  BY DEF ConfirmedTexts, NotifiedTexts
<1>2. ~Unconfirmed(t[1], t[2], t[3])
  BY DEF ConfirmedTexts, NotifiedTexts, Own, Unconfirmed
<1>3. Stored(t[1], t[2], t[3])
  BY <1>1, <1>2, TextType DEF TextInv, UndeliveredInv
<1>4. PICK c \in Content : <<t[1], t[2], t[3], c>> \in got
  BY <1>3 DEF Stored
<1>5. c = t[4]
  <2>1. PICK d \in Content : <<t[1], t[2], t[3], d>> \in sent /\ Carries(c, d)
    BY <1>4 DEF TextInv, AgreementInv, GotOK
  <2>2. d = t[4] /\ t[4] \in Text
    BY <1>1, <2>1, TextType DEF TextInv, AgreementInv, SentOK
  <2> QED
    BY <2>1, <2>2, PayloadAssumption DEF Carries
<1> QED
  BY <1>1, <1>4, <1>5, TextType DEF Texts

\* The record of a message that was sent before is the same message after a
\* step, if there is one.
LEMMA SentKept ==
  ASSUME TypeOK, AgreementInv, [Next]_vars,
         NEW n \in Node, NEW p \in Node, NEW i \in Id, Submitted(n, p, i)
  PROVE  Own(n, p, i)' => Own(n, p, i)
<1>1. i # seq[<<n, p>>] + 1
  BY SubmittedId DEF AgreementInv
<1> QED
  BY <1>1, RecordChange DEF Own, Kept

LEMMA TakenChange ==
  ASSUME TypeOK, AgreementInv, [Next]_vars, NEW t \in Texts(sent)
  PROVE  /\ t \in ConfirmedTexts' => t \in ConfirmedTexts \/ Confirmed(t[1], t[2], t[3])
         /\ t \in NotifiedTexts' => t \in NotifiedTexts \/ Commit(t[1], t[2], t[3])
         /\ t \in NotifiedTexts => t \in NotifiedTexts'
<1>0. /\ t[1] \in Node /\ t[2] \in Node /\ t[3] \in Id
      /\ Submitted(t[1], t[2], t[3]) /\ t[3] # seq[<<t[1], t[2]>>] + 1
  BY TextType, SubmittedId DEF AgreementInv
<1>1. t \in Texts(sent)'
  BY SentGrows DEF Texts
<1>2. ASSUME t \in ConfirmedTexts'
      PROVE  t \in ConfirmedTexts \/ Confirmed(t[1], t[2], t[3])
  <2>1. Own(t[1], t[2], t[3])' /\ dialogue'[<<t[1], t[2], t[3]>>].reached
    BY <1>2 DEF ConfirmedTexts
  <2>2. Own(t[1], t[2], t[3])
    BY <1>0, <2>1, SentKept
  <2> QED
    BY <1>0, <2>1, <2>2, ReachedChange DEF ConfirmedTexts, Own
<1>3. ASSUME t \in NotifiedTexts'
      PROVE  t \in NotifiedTexts \/ Commit(t[1], t[2], t[3])
  BY <1>0, <1>3, ArrivedChange DEF NotifiedTexts
<1>4. arrived \subseteq arrived'
  <2>1. CASE WorkerStep
    BY <2>1 DEF WorkerStep, Commit, SendBytes, SendBytesError, Panic, Timeout, history
  <2> QED
    BY <2>1, UserFrame, SnapshotFrame, RequestFrame, ResponseFrame, EnvironmentFrame
    DEF Next, vars, history
<1> QED
  BY <1>1, <1>2, <1>3, <1>4 DEF NotifiedTexts

\* A step of the service that is a step of Delivery.
Maps ==
    \/ Promise!Next
    \/ /\ UNCHANGED <<Texts(sent), Texts(got)>>
       /\ UNCHANGED <<ConfirmedTexts, NotifiedTexts>>

LEMMA MapsSend ==
  ASSUME TypeOK, TypeOK', TextInv, TextInv', [Next]_vars,
         NEW n \in Node, NEW p \in Node, NEW c \in Content, Send(n, p, c)
  PROVE  Maps
<1> DEFINE i == seq[<<n, p>>] + 1
           t == <<n, p, i, c>>
<1>1. sent' = sent \cup {t} /\ UNCHANGED <<got, arrived>>
  BY DEF Send
<1>2. i \in Id /\ <<n, p, i>> \in Key
  BY BoundAssumption DEF Send, TypeOK, Id, Key
<1>3. ~Submitted(n, p, i)
  BY <1>2, SubmittedId DEF TextInv, AgreementInv
<1>4. dialogue' = [dialogue EXCEPT ![<<n, p, i>>] =
                     [content |-> c, reached |-> FALSE, initiator |-> TRUE, fresh |-> TRUE]]
  BY DEF Send
<1> HIDE DEF i
<1>5. ASSUME NEW u \in Texts(sent)
      PROVE  <<u[1], u[2], u[3]>> # <<n, p, i>>
  <2>1. CASE <<u[1], u[2], u[3]>> = <<n, p, i>>
    <3>1. u[1] = n /\ u[2] = p /\ u[3] = i
      BY <2>1
    <3> QED
      BY <1>3, <3>1, TextType
  <2> QED
    BY <2>1
<1>6. ASSUME NEW u \in Texts(sent)
      PROVE  /\ u \in ConfirmedTexts' <=> u \in ConfirmedTexts
             /\ u \in NotifiedTexts' <=> u \in NotifiedTexts
  <2>1. <<u[1], u[2], u[3]>> \in Key /\ u \in Texts(sent)'
    BY <1>1, TextType DEF Key, Texts
  <2>2. dialogue'[<<u[1], u[2], u[3]>>] = dialogue[<<u[1], u[2], u[3]>>]
    BY <1>4, <1>5, <2>1 DEF TypeOK
  <2> QED
    BY <1>1, <2>1, <2>2 DEF ConfirmedTexts, NotifiedTexts, Own
<1>7. t \notin ConfirmedTexts' /\ t \notin NotifiedTexts'
  <2>1. ~dialogue'[<<n, p, i>>].reached
    BY <1>2, <1>4 DEF TypeOK
  <2>2. <<n, p, i>> \notin arrived'
    BY <1>1, <1>2, <1>3 DEF TextInv, AgreementInv, ArrivedOK
  <2> QED
    BY <2>1, <2>2 DEF ConfirmedTexts, NotifiedTexts
<1>8. Texts(sent)' \subseteq Texts(sent) \cup {t}
  BY <1>1 DEF Texts
<1>9. UNCHANGED <<ConfirmedTexts, NotifiedTexts>>
  <2>1. /\ ConfirmedTexts \subseteq Texts(sent) /\ NotifiedTexts \subseteq Texts(sent)
        /\ ConfirmedTexts' \subseteq Texts(sent)' /\ NotifiedTexts' \subseteq Texts(sent)'
    BY DEF ConfirmedTexts, NotifiedTexts
  <2> QED
    BY <1>6, <1>7, <1>8, <2>1
<1>10. UNCHANGED Texts(got)
  BY <1>1 DEF Texts
<1>11. CASE c \in Text
  <2>1. Texts(sent)' = Texts(sent) \cup {t}
    BY <1>1, <1>11 DEF Texts
  <2>2. t \in Promise!Letter
    BY <1>2, <1>11 DEF Promise!Letter
  <2>3. Promise!Submit(t)
    BY <1>5, <1>9, <1>10, <2>1 DEF Promise!Submit, ConfirmedTexts, NotifiedTexts
  <2> QED
    BY <2>2, <2>3 DEF Promise!Next, Maps
<1>12. CASE c \notin Text
  BY <1>1, <1>9, <1>10, <1>12 DEF Maps, Texts
<1> QED
  BY <1>11, <1>12

LEMMA MapsStore ==
  ASSUME TypeOK, TypeOK', TextInv, TextInv', RequestStep, NEW r \in requests,
         Store(r), r.kind # "ReqExistence"
  PROVE  Maps
<1> DEFINE n == r.to
           p == r.from
           i == seq[<<n, p>>] + 1
           t == <<p, n, r.id, r.content>>
<1>1. UNCHANGED <<sent, arrived>> /\ got' = got \cup {t}
  BY RequestFrame DEF Store
<1>2. n \in Node /\ p \in Node /\ r.id \in Id
  BY DEF TypeOK, Request
<1>3. i \in Id /\ <<n, p, i>> \in Key
  BY <1>2, BoundAssumption DEF Store, TypeOK, Id, Key
<1>4. ~Submitted(n, p, i)
  BY <1>2, <1>3, SubmittedId DEF TextInv, AgreementInv
<1>5. dialogue' = [dialogue EXCEPT ![<<n, p, i>>] =
                     [content |-> r.content, reached |-> TRUE, initiator |-> FALSE, fresh |-> TRUE]]
  BY DEF Store
<1> HIDE DEF i
<1>6. ASSUME NEW u \in Texts(sent)
      PROVE  <<u[1], u[2], u[3]>> # <<n, p, i>>
  <2>1. CASE <<u[1], u[2], u[3]>> = <<n, p, i>>
    <3>1. u[1] = n /\ u[2] = p /\ u[3] = i
      BY <2>1
    <3> QED
      BY <1>4, <3>1, TextType
  <2> QED
    BY <2>1
<1>7. ASSUME NEW u \in Texts(sent)
      PROVE  /\ u \in ConfirmedTexts' <=> u \in ConfirmedTexts
             /\ u \in NotifiedTexts' <=> u \in NotifiedTexts
  <2>1. <<u[1], u[2], u[3]>> \in Key /\ u \in Texts(sent)'
    BY <1>1, TextType DEF Key, Texts
  <2>2. dialogue'[<<u[1], u[2], u[3]>>] = dialogue[<<u[1], u[2], u[3]>>]
    BY <1>5, <1>6, <2>1 DEF TypeOK
  <2> QED
    BY <1>1, <2>1, <2>2 DEF ConfirmedTexts, NotifiedTexts, Own
<1>8. UNCHANGED Texts(sent)
  BY <1>1 DEF Texts
<1>9. UNCHANGED <<ConfirmedTexts, NotifiedTexts>>
  <2>1. /\ ConfirmedTexts \subseteq Texts(sent) /\ NotifiedTexts \subseteq Texts(sent)
        /\ ConfirmedTexts' \subseteq Texts(sent)' /\ NotifiedTexts' \subseteq Texts(sent)'
    BY DEF ConfirmedTexts, NotifiedTexts
  <2> QED
    BY <1>7, <1>8, <2>1
<1>10. CASE r.content \in Text
  <2>1. t \in Texts(sent)
    <3>1. \E c \in Content : <<r.from, r.to, r.id, c>> \in sent /\ Carries(r.content, c)
      BY StoresSent DEF TextInv, AgreementInv
    <3> QED
      BY <1>10, <3>1, PayloadAssumption DEF Carries, Texts
  <2>2. Texts(got)' = Texts(got) \cup {t}
    BY <1>1, <1>10 DEF Texts
  <2>3. Promise!Store(t)
    BY <1>8, <1>9, <2>1, <2>2 DEF Promise!Store, ConfirmedTexts, NotifiedTexts
  <2>4. t \in Promise!Letter
    BY <1>2, <1>10 DEF Promise!Letter
  <2> QED
    BY <2>3, <2>4 DEF Promise!Next, Maps
<1>11. CASE r.content \notin Text
  BY <1>1, <1>8, <1>9, <1>11 DEF Maps, Texts
<1> QED
  BY <1>10, <1>11

LEMMA MapsCommit ==
  ASSUME TypeOK, TypeOK', TextInv, TakenStored', [Next]_vars,
         NEW n \in Node, NEW p \in Node, NEW i \in Id, Commit(n, p, i)
  PROVE  Maps
<1>1. UNCHANGED <<sent, got>> /\ arrived' \in {arrived, arrived \cup {<<n, p, i>>}}
  BY DEF Commit
<1>2. UNCHANGED <<Texts(sent), Texts(got)>>
  BY <1>1 DEF Texts
<1>3. \/ UNCHANGED dialogue
      \/ /\ dialogue[<<n, p, i>>] # None
         /\ dialogue' = [dialogue EXCEPT ![<<n, p, i>>].reached = TRUE]
  BY DEF Commit
<1>4. ASSUME NEW u \in Texts(sent), <<u[1], u[2], u[3]>> # <<n, p, i>>
      PROVE  /\ u \in ConfirmedTexts' <=> u \in ConfirmedTexts
             /\ u \in NotifiedTexts' <=> u \in NotifiedTexts
  <2>1. <<u[1], u[2], u[3]>> \in Key /\ u \in Texts(sent)'
    BY <1>2, TextType DEF Key
  <2>2. dialogue'[<<u[1], u[2], u[3]>>] = dialogue[<<u[1], u[2], u[3]>>]
    BY <1>3, <1>4, <2>1 DEF TypeOK
  <2>3. <<u[1], u[2], u[3]>> \in arrived' <=> <<u[1], u[2], u[3]>> \in arrived
    BY <1>1, <1>4
  <2> QED
    BY <1>2, <2>1, <2>2, <2>3 DEF ConfirmedTexts, NotifiedTexts, Own
<1>5. ASSUME NEW u \in ConfirmedTexts
      PROVE  u \in ConfirmedTexts'
  <2>1. <<u[1], u[2], u[3]>> \in Key /\ u \in Texts(sent)'
    BY <1>2, TextType DEF Key, ConfirmedTexts
  <2>2. /\ dialogue[<<u[1], u[2], u[3]>>] # None
        /\ dialogue[<<u[1], u[2], u[3]>>].reached /\ dialogue[<<u[1], u[2], u[3]>>].initiator
    BY DEF ConfirmedTexts, Own
  <2>3. dialogue[<<u[1], u[2], u[3]>>] \in Message
    BY <2>1, <2>2 DEF TypeOK
  <2>4. /\ dialogue'[<<u[1], u[2], u[3]>>] # None
        /\ dialogue'[<<u[1], u[2], u[3]>>].reached /\ dialogue'[<<u[1], u[2], u[3]>>].initiator
    <3>1. CASE UNCHANGED dialogue
      BY <2>2, <3>1
    <3>2. CASE dialogue' = [dialogue EXCEPT ![<<n, p, i>>].reached = TRUE]
      <4>1. CASE <<u[1], u[2], u[3]>> = <<n, p, i>>
        <5>1. dialogue'[<<u[1], u[2], u[3]>>] = [dialogue[<<u[1], u[2], u[3]>>] EXCEPT !.reached = TRUE]
          BY <2>1, <3>2, <4>1 DEF TypeOK
        <5>2. dialogue'[<<u[1], u[2], u[3]>>] \in Message
          BY <2>3, <5>1 DEF Message
        <5> QED
          BY <2>2, <2>3, <5>1, <5>2, NoneAssumption DEF Message
      <4>2. CASE <<u[1], u[2], u[3]>> # <<n, p, i>>
        BY <2>1, <2>2, <3>2, <4>2 DEF TypeOK
      <4> QED
        BY <4>1, <4>2
    <3> QED
      BY <1>3, <3>1, <3>2
  <2> QED
    BY <2>1, <2>4 DEF ConfirmedTexts, Own
<1>6. NotifiedTexts \subseteq NotifiedTexts'
  BY <1>1, <1>2 DEF NotifiedTexts
<1>7. /\ ConfirmedTexts' \subseteq Texts(sent) /\ NotifiedTexts' \subseteq Texts(sent)
      /\ ConfirmedTexts \subseteq Texts(sent) /\ NotifiedTexts \subseteq Texts(sent)
  BY <1>2 DEF ConfirmedTexts, NotifiedTexts
<1>8. CASE \E t \in Texts(sent) : <<t[1], t[2], t[3]>> = <<n, p, i>>
  <2>1. PICK t \in Texts(sent) : <<t[1], t[2], t[3]>> = <<n, p, i>>
    BY <1>8
  <2>2. ASSUME NEW u \in Texts(sent), u # t
        PROVE  <<u[1], u[2], u[3]>> # <<n, p, i>>
    <3>1. ASSUME <<u[1], u[2], u[3]>> = <<n, p, i>>
          PROVE  FALSE
      <4>1. u[1] = t[1] /\ u[2] = t[2] /\ u[3] = t[3]
        BY <2>1, <3>1
      <4>2. u[4] = t[4]
        BY <4>1, TextType DEF TextInv, AgreementInv, SentOK
      <4>3. u = <<u[1], u[2], u[3], u[4]>> /\ t = <<t[1], t[2], t[3], t[4]>>
        BY TextType
      <4> QED
        BY <2>2, <4>1, <4>2, <4>3
    <3> QED
      BY <3>1
  <2>3. /\ ConfirmedTexts' \in {ConfirmedTexts, ConfirmedTexts \cup {t}}
        /\ NotifiedTexts' \in {NotifiedTexts, NotifiedTexts \cup {t}}
    BY <1>4, <1>5, <1>6, <1>7, <2>2
  <2>4. CASE UNCHANGED <<ConfirmedTexts, NotifiedTexts>>
    BY <1>2, <2>4 DEF Maps
  <2>5. CASE t \in ConfirmedTexts' \cup NotifiedTexts'
    <3>1. t \in Texts(got)
      BY <1>2, <2>5 DEF TakenStored
    <3>2. Promise!Confirm(t)
      BY <1>2, <2>3, <3>1 DEF Promise!Confirm, ConfirmedTexts, NotifiedTexts
    <3>3. t \in Promise!Letter
      BY TextType
    <3> QED
      BY <3>2, <3>3 DEF Promise!Next, Maps
  <2> QED
    BY <2>3, <2>4, <2>5
<1>9. CASE ~\E t \in Texts(sent) : <<t[1], t[2], t[3]>> = <<n, p, i>>
  <2>1. UNCHANGED <<ConfirmedTexts, NotifiedTexts>>
    BY <1>4, <1>7, <1>9
  <2> QED
    BY <1>2, <2>1 DEF Maps
<1> QED
  BY <1>8, <1>9

\* The other steps only take confirmed messages away, with their records.
LEMMA MapsForget ==
  ASSUME TypeOK, TextInv, [Next]_vars, UNCHANGED <<sent, got>>,
         \A n, p \in Node, i \in Id : ~Commit(n, p, i)
  PROVE  Maps
<1>1. UNCHANGED <<Texts(sent), Texts(got)>>
  BY DEF Texts
<1>2. /\ ConfirmedTexts' \subseteq Texts(sent) /\ NotifiedTexts' \subseteq Texts(sent)
      /\ ConfirmedTexts \subseteq Texts(sent) /\ NotifiedTexts \subseteq Texts(sent)
  BY <1>1 DEF ConfirmedTexts, NotifiedTexts
<1>3. ASSUME NEW t \in Texts(sent)
      PROVE  /\ t \in ConfirmedTexts' => t \in ConfirmedTexts
             /\ t \in NotifiedTexts' <=> t \in NotifiedTexts
  BY TextType, TakenChange DEF TextInv, Confirmed
<1>4. PICK ts : ts = ConfirmedTexts \ ConfirmedTexts'
  OBVIOUS
<1>5. /\ ConfirmedTexts' = ConfirmedTexts \ ts /\ UNCHANGED NotifiedTexts
      /\ ts \subseteq Promise!Letter
  BY <1>2, <1>3, <1>4, TextType
<1>6. Promise!Forget(ts)
  BY <1>1, <1>5 DEF Promise!Forget, ConfirmedTexts, NotifiedTexts
<1> QED
  BY <1>5, <1>6 DEF Promise!Next, Maps

LEMMA StepMaps ==
  ASSUME TypeOK, TypeOK', TextInv, TextInv', TakenStored', [Next]_vars
  PROVE  Maps
<1>1. CASE UNCHANGED <<sent, got>>
  BY <1>1, MapsCommit, MapsForget
<1>2. ASSUME NEW n \in Node, NEW p \in Node, NEW c \in Content, Send(n, p, c)
      PROVE  Maps
  BY <1>2, MapsSend
<1>3. CASE RequestStep
  BY <1>1, <1>3, MapsStore, StoreOrNot, RequestFrame
<1>4. ~RequestStep => UNCHANGED got
  BY UserFrame, SnapshotFrame, ResponseFrame, WorkerFrame, EnvironmentFrame DEF Next, vars, history
<1> QED
  BY <1>1, <1>2, <1>3, <1>4, SentChange

\* In a calm environment the service delivers text messages as Delivery
\* promises: a message is confirmed and notified only after it was stored.
THEOREM DeliveryImplemented ==
  ASSUME Calm
  PROVE  Spec => ImplementsDelivery
<1>1. Init => Promise!Init
  BY DEF Init, Promise!Init, Texts
<1>2. TypeOK /\ TypeOK' /\ TextInv /\ TextInv' /\ TakenStored' /\ [Next]_vars
        => [Promise!Next]_(Promise!vars)
  BY StepMaps DEF Maps, Promise!vars, ConfirmedTexts, NotifiedTexts
<1>3. Spec => [](TypeOK /\ TextInv /\ TakenStored)
  BY TextInvariant, TakenIsStored, PTL
<1> QED
  BY <1>1, <1>2, <1>3, PTL DEF Spec, ImplementsDelivery, Promise!Spec
=============================================================================
