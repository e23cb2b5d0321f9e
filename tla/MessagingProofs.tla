--------------------------- MODULE MessagingProofs ---------------------------
(***************************************************************************)
(* The inductive invariant behind the properties of Messaging that hold of *)
(* text messages; and the proofs of what holds in every environment: the   *)
(* types, what records and images keep, whom answers are for.              *)
(* (MessagingAgreement and MessagingDelivered have those of the            *)
(* invariant.)                                                             *)
(***************************************************************************)
EXTENDS Messaging, TLAPS

\* Where the invariant holds.  A user with two partners, a flushed dialogue and
\* an AsyncSend that stalls each break it.
OnePartner ==
    \A n, p, q \in Node, c, d \in Text :
        <<n, p, c>> \in Talk /\ <<n, q, d>> \in Talk => p = q

Calm == OnePartner /\ "flush" \notin Ops /\ "stall" \notin Ops

-----------------------------------------------------------------------------
(* Every part of the state that names a message agrees on what it is. *)

SentOK ==
    /\ \A t \in sent : <<t[1], t[2], t[4]>> \in Talk /\ t[3] <= seq[<<t[1], t[2]>>]
    /\ \A t, u \in sent : t[1] = u[1] /\ t[2] = u[2] /\ t[3] = u[3] => t[4] = u[4]

Submitted(n, p, i) == \E c \in Content : <<n, p, i, c>> \in sent
Stored(n, p, i) == \E c \in Content : <<n, p, i, c>> \in got

DialogueOK ==
    \A n, p \in Node, i \in Id : dialogue[<<n, p, i>>] # None =>
        /\ i <= seq[<<n, p>>]
        /\ dialogue[<<n, p, i>>].initiator <=> Submitted(n, p, i)
        /\ Submitted(n, p, i) => <<n, p, i, dialogue[<<n, p, i>>].content>> \in sent

PendingOK == \A n, p \in Node, i \in Id : <<n, p, i>> \in pending => Submitted(n, p, i)

SnapshotOK == \A m \in snapshot : <<m.from, m.to, m.id, m.content>> \in sent

WorkerOK ==
    \A n, p \in Node, i \in Id :
        worker[<<n, p, i>>] # None => <<n, p, i, worker[<<n, p, i>>].content>> \in sent

\* The bytes of an image may be of another one, when its file was not whole.
Carries(d, c) == d = c \/ (d \in Image /\ c \in Image)

RequestOK ==
    \A r \in requests :
        \E c \in Content : /\ <<r.from, r.to, r.id, c>> \in sent
                           /\ r.proto = ProtoOf(c)
                           /\ r.content = None \/ Carries(r.content, c)

\* A yes is never wrong, and the only no to a text message is that of a check.
ResponseOK ==
    \A a \in responses :
        /\ \E c \in Content : <<a.to, a.from, a.id, c>> \in sent /\ a.proto = ProtoOf(c)
        /\ a.ok => Stored(a.to, a.from, a.id)
        /\ ~a.ok /\ a.proto = "text" => a.kind = "RespExistence"

ReceivedOK == \A n, p \in Node, i \in Id : <<p, n, i>> \in received => Stored(n, p, i)

GotOK ==
    \A t \in got :
        \E c \in Content : <<t[1], t[2], t[3], c>> \in sent /\ Carries(t[4], c)

ArrivedOK == \A n, p \in Node, i \in Id : <<n, p, i>> \in arrived => Submitted(n, p, i)

AgreementInv ==
    /\ SentOK
    /\ DialogueOK
    /\ PendingOK
    /\ SnapshotOK
    /\ WorkerOK
    /\ RequestOK
    /\ ResponseOK
    /\ ReceivedOK
    /\ GotOK
    /\ ArrivedOK
    /\ RegisteredIsAwaited

-----------------------------------------------------------------------------
(* A message is checked only when it is old, and then sent no more. *)

Reading(n, p, i, mode) ==
    \E m \in snapshot : m.from = n /\ m.to = p /\ m.id = i /\ m.mode = mode

Working(n, p, i, mode) == worker[<<n, p, i>>] # None /\ worker[<<n, p, i>>].mode = mode

Asked(n, p, i) ==
    \E r \in requests : r.kind = "ReqExistence" /\ r.from = n /\ r.to = p /\ r.id = i

Told(n, p, i) ==
    \E a \in responses : a.kind = "RespExistence" /\ a.to = n /\ a.from = p /\ a.id = i

Checked(n, p, i) ==
    \/ Reading(n, p, i, "check")
    \/ Working(n, p, i, "check")
    \/ Asked(n, p, i)
    \/ Told(n, p, i)

Old(n, p, i) == dialogue[<<n, p, i>>] # None => ~dialogue[<<n, p, i>>].fresh

AgeInv ==
    /\ \A n, p \in Node, i \in Id : Checked(n, p, i) => Old(n, p, i)
    /\ FreshStaysPending

-----------------------------------------------------------------------------
(* Of a text message that its receiver did not store, nothing says that it *)
(* was; and the answer no to a check meets no goroutine that sends it.     *)

\* Nothing on the sender's side takes the message for delivered.
Unconfirmed(n, p, i) ==
    /\ dialogue[<<n, p, i>>] # None => ~dialogue[<<n, p, i>>].reached
    /\ worker[<<n, p, i>>] # None => ~worker[<<n, p, i>>].reached
    /\ \A m \in snapshot : m.from = n /\ m.to = p /\ m.id = i => ~m.reached
    /\ <<n, p, i>> \notin arrived

\* The check and its answer are out of the way of whoever still sends.
ChecksApart(n, p, i) ==
    /\ Working(n, p, i, "send") =>
          worker[<<n, p, i>>].chan = None /\ ~Asked(n, p, i) /\ ~Told(n, p, i)
    /\ Working(n, p, i, "check") /\ worker[<<n, p, i>>].chan # None =>
          ~worker[<<n, p, i>>].chan.ok
    /\ Reading(n, p, i, "send") =>
          /\ ~(Asked(n, p, i) /\ Told(n, p, i))
          /\ Asked(n, p, i) \/ Told(n, p, i) =>
                Working(n, p, i, "check") /\ worker[<<n, p, i>>].chan = None

UndeliveredInv ==
    \A n, p \in Node, i \in Id :
        (\E c \in Text : <<n, p, i, c>> \in sent) /\ ~Stored(n, p, i) =>
            Unconfirmed(n, p, i) /\ ChecksApart(n, p, i)

\* The inductive invariant.
TextInv == AgreementInv /\ AgeInv /\ UndeliveredInv

-----------------------------------------------------------------------------
(* What each kind of step leaves alone. *)
FileStep(n, p, c) ==
    SendImage(n, p, c) \/ OpenImage(n, p, c) \/ WriteImage(n, p, c) \/ SendError(n, p, c)

LEMMA FileFrame ==
  ASSUME NEW n \in Node, NEW p \in Node, NEW c \in Content, FileStep(n, p, c)
  PROVE  UNCHANGED <<stores, local, net, history>>
BY DEF FileStep, SendImage, OpenImage, WriteImage, SendError

\* What the user's steps do to more than the image directory.
LEMMA UserCases ==
  ASSUME UserStep
  PROVE  \/ UNCHANGED <<stores, local, net, history>>
         \/ \E n, p \in Node :
               \/ AsyncSend(n, p)
               \/ \E c \in Content : Send(n, p, c)
               \/ \E ids \in SUBSET Listed(n, p) : DelMessages(n, p, ids)
               \/ FlushMessages(n, p)
<1>1. PICK n \in Node, p \in Node :
         \/ AsyncSend(n, p)
         \/ \E c \in Content : FileStep(n, p, c) \/ Send(n, p, c)
         \/ \E ids \in SUBSET Listed(n, p) : DelMessages(n, p, ids)
         \/ FlushMessages(n, p)
  BY DEF UserStep, FileStep
<1> QED
  BY <1>1, FileFrame

LEMMA UserFrame ==
  UserStep => UNCHANGED <<received, worker, result, requests, responses, got, arrived>>
<1> DEFINE Same == UNCHANGED <<received, worker, result, requests, responses, got, arrived>>
<1>1. UNCHANGED <<stores, local, net, history>> => Same
  BY DEF stores, local, net, history
<1>2. ASSUME NEW n, NEW p, AsyncSend(n, p) PROVE Same
  BY <1>2 DEF AsyncSend, stores, net, history
<1>3. ASSUME NEW n, NEW p, NEW c, Send(n, p, c) PROVE Same
  BY <1>3 DEF Send, net
<1>4. ASSUME NEW n, NEW p, NEW ids, DelMessages(n, p, ids) PROVE Same
  BY <1>4 DEF DelMessages, local, net, history
<1>5. ASSUME NEW n, NEW p, FlushMessages(n, p) PROVE Same
  BY <1>5 DEF FlushMessages, local, net, history
<1> HIDE DEF Same
<1>6. UserStep => Same
  BY <1>1, <1>2, <1>3, <1>4, <1>5, UserCases
<1> QED
  BY <1>6 DEF Same

LEMMA SnapshotFrame ==
  SnapshotStep => UNCHANGED <<dialogue, seq, pending, received, burning, images, responses,
                              sent, got, arrived>>
  BY DEF SnapshotStep, LaunchSkip, Launch, LaunchError, stores, images, local, net, history

LEMMA RequestFrame ==
  RequestStep => UNCHANGED <<pending, worker, result, sent, arrived>>
  BY DEF RequestStep, Handle, HandleSyncText, HandleSyncHash, HandleSyncHashMiss,
         HandleSyncBytes, HandleExist, HandleError, LoseRequest, stores, images, local, net, history

LEMMA ResponseFrame ==
  ResponseStep => UNCHANGED <<dialogue, seq, pending, received, burning, images, snapshot,
                              result, requests, sent, got, arrived>>
  BY DEF ResponseStep, HandleResponse, DropResponse, LoseResponse, stores, images, local, net, history

LEMMA WorkerFrame ==
  WorkerStep => UNCHANGED <<seq, received, burning, files, partial, responses, sent, got>>
  BY DEF WorkerStep, Commit, SendBytes, SendBytesError, Panic, Timeout, stores, images, local, net, history

LEMMA EnvironmentFrame ==
  EnvironmentStep => UNCHANGED <<seq, received, burning, files, partial, requests, responses,
                                 sent, got, arrived>>
  BY DEF EnvironmentStep, Age, Destroy, Restart, stores, images, local, net, history

LEMMA StoreOrNot ==
  ASSUME RequestStep
  PROVE  \/ \E r \in requests : Store(r) /\ r.kind # "ReqExistence" /\ Consume(r)
         \/ UNCHANGED <<dialogue, seq, received, burning, got>>
  BY DEF RequestStep, Handle, HandleSyncText, HandleSyncHash, HandleSyncHashMiss,
         HandleSyncBytes, HandleExist, HandleError, LoseRequest, stores, images, local, net, history

LEMMA SentChange ==
  ASSUME [Next]_vars
  PROVE  UNCHANGED sent \/ \E n, p \in Node, c \in Content : Send(n, p, c)
<1>1. CASE UserStep
  BY <1>1, UserCases
  DEF AsyncSend, DelMessages, FlushMessages, history
<1> QED
  BY <1>1, SnapshotFrame, RequestFrame, ResponseFrame, WorkerFrame, EnvironmentFrame
  DEF Next, vars, history

LEMMA GotChange ==
  ASSUME [Next]_vars
  PROVE  \/ UNCHANGED <<got, received>>
         \/ \E r \in requests : Store(r) /\ r.kind # "ReqExistence" /\ Consume(r)
  BY UserFrame, SnapshotFrame, StoreOrNot, ResponseFrame, WorkerFrame, EnvironmentFrame
  DEF Next, vars, history, stores

LEMMA StoreSeqGrows ==
  ASSUME TypeOK, NEW r \in requests, Store(r)
  PROVE  \A n, p \in Node : seq[<<n, p>>] <= seq'[<<n, p>>]
<1>1. r.to \in Node /\ r.from \in Node
  BY DEF TypeOK, Request
<1>2. \A np \in Node \X Node : seq[np] \in Nat
  BY BoundAssumption DEF TypeOK
<1>3. /\ seq \in [Node \X Node -> 0..MaxSeq]
      /\ seq' = [seq EXCEPT ![<<r.to, r.from>>] = seq[<<r.to, r.from>>] + 1]
  BY DEF Store, TypeOK
<1>4. ASSUME NEW np \in Node \X Node PROVE seq[np] <= seq'[np]
  BY <1>2, <1>3
<1> QED
  BY <1>4

LEMMA SendSeqGrows ==
  ASSUME TypeOK, NEW m \in Node, NEW q \in Node, NEW c \in Content, Send(m, q, c)
  PROVE  \A n, p \in Node : seq[<<n, p>>] <= seq'[<<n, p>>]
<1>1. \A np \in Node \X Node : seq[np] \in Nat
  BY BoundAssumption DEF TypeOK
<1>2. /\ seq \in [Node \X Node -> 0..MaxSeq]
      /\ seq' = [seq EXCEPT ![<<m, q>>] = seq[<<m, q>>] + 1]
  BY DEF Send, TypeOK
<1>3. ASSUME NEW np \in Node \X Node PROVE seq[np] <= seq'[np]
  BY <1>1, <1>2
<1> QED
  BY <1>3

LEMMA SeqGrows ==
  ASSUME TypeOK, [Next]_vars, "flush" \notin Ops
  PROVE  \A n, p \in Node : seq[<<n, p>>] <= seq'[<<n, p>>]
<1>1. CASE UNCHANGED seq
  BY <1>1 DEF TypeOK
<1>2. CASE UserStep
  <2>1. ASSUME NEW n \in Node, NEW p \in Node, NEW c \in Content, Send(n, p, c)
        PROVE \A m, q \in Node : seq[<<m, q>>] <= seq'[<<m, q>>]
    BY <2>1, SendSeqGrows
  <2> QED
    BY <1>1, <1>2, <2>1, UserCases
    DEF AsyncSend, DelMessages, FlushMessages, stores
<1>3. CASE RequestStep
  BY <1>1, <1>3, StoreSeqGrows, StoreOrNot
<1> QED
  BY <1>1, <1>2, <1>3, SnapshotFrame, ResponseFrame, WorkerFrame, EnvironmentFrame
  DEF Next, vars, stores
-----------------------------------------------------------------------------
(* Type correctness *)

LEMMA InitTypeOK == Init => TypeOK
<1> SUFFICES ASSUME Init PROVE TypeOK
  OBVIOUS
<1>1. sending \in [Node \X Node \X Image -> Writing]
  BY DEF Init, Writing
<1>2. dialogue \in [Key -> Message \cup {None}] /\ worker \in [Key -> Worker \cup {None}]
  BY DEF Init
<1>3. /\ seq \in [Node \X Node -> 0..MaxSeq]
      /\ result \in [Node \X Proto \X Id -> Node \cup {None}]
  BY BoundAssumption DEF Init
<1> QED
  BY <1>1, <1>2, <1>3 DEF Init, TypeOK

LEMMA ViewType ==
  ASSUME TypeOK, NEW n \in Node, NEW p \in Node,
         NEW D \in [Key -> Message \cup {None}], NEW Q
  PROVE  View(n, p, D, Q) \subseteq Snapshot
<1> SUFFICES ASSUME NEW m \in View(n, p, D, Q) PROVE m \in Snapshot
  OBVIOUS
<1>1. PICK i \in Id :
         /\ D[<<n, p, i>>] # None
         /\ m = [from |-> n, to |-> p, id |-> i,
                 mode |-> IF D[<<n, p, i>>].fresh THEN "send" ELSE "check",
                 content |-> D[<<n, p, i>>].content, reached |-> D[<<n, p, i>>].reached]
  BY DEF View
<1>2. D[<<n, p, i>>] \in Message
  BY <1>1 DEF Key
<1> QED
  BY <1>1, <1>2 DEF Snapshot, Message, Mode

LEMMA ConsumeType ==
  ASSUME TypeOK, NEW r \in requests, Consume(r)
  PROVE  requests' \subseteq Request /\ snapshot' \subseteq Snapshot
<1>1. r.to \in Node /\ r.from \in Node
  BY DEF TypeOK, Request
<1>2. View(r.to, r.from, dialogue, pending) \subseteq Snapshot
  BY <1>1, ViewType DEF TypeOK
<1> QED
  BY <1>2 DEF TypeOK, Consume

LEMMA RespondType ==
  ASSUME TypeOK, NEW r \in requests, NEW kind \in RespKind, NEW ok \in BOOLEAN,
         Respond(r, kind, ok)
  PROVE  responses' \subseteq Response
  BY DEF TypeOK, Respond, Request, Response

LEMMA StoreType ==
  ASSUME TypeOK, NEW r \in requests, r.kind # "ReqExistence", Store(r)
  PROVE  /\ seq' \in [Node \X Node -> 0..MaxSeq]
         /\ dialogue' \in [Key -> Message \cup {None}]
         /\ received' \subseteq Key
         /\ burning' \subseteq Key
         /\ got' \subseteq Node \X Node \X Id \X Content
<1> DEFINE i == seq[<<r.to, r.from>>] + 1
<1>1. r.to \in Node /\ r.from \in Node /\ r.id \in Id /\ r.content \in Content
  BY DEF TypeOK, Request, Carried, Content
<1>2. seq[<<r.to, r.from>>] \in 0..MaxSeq /\ seq[<<r.to, r.from>>] < MaxSeq
  BY <1>1 DEF TypeOK, Store
<1>3. i \in Id
  BY <1>2, BoundAssumption DEF Id
<1>4. [content |-> r.content, reached |-> TRUE, initiator |-> FALSE, fresh |-> TRUE] \in Message
  BY <1>1 DEF Message
<1> HIDE DEF i
<1>5. dialogue' \in [Key -> Message \cup {None}]
  BY <1>1, <1>3, <1>4 DEF TypeOK, Store, i
<1>6. seq' \in [Node \X Node -> 0..MaxSeq]
  BY <1>1, <1>2, <1>3 DEF TypeOK, Store, i, Id
<1>7. received' \subseteq Key /\ burning' \subseteq Key
  BY <1>1, <1>3 DEF TypeOK, Store, i, Key
<1>8. got' \subseteq Node \X Node \X Id \X Content
  BY <1>1 DEF TypeOK, Store
<1> QED
  BY <1>5, <1>6, <1>7, <1>8

LEMMA RequestOfType ==
  ASSUME NEW n \in Node, NEW p \in Node, NEW i \in Id, NEW stage \in Stage, NEW c \in Content,
         stage = "ReqExistence" \/ c \in Carried(stage)
  PROVE  RequestOf(n, p, i, stage, c) \in Request
  BY DEF RequestOf, Request, ProtoOf, Proto, Carried, Content

LEMMA StartedType ==
  ASSUME NEW m \in Snapshot
  PROVE  Started(m) \in Worker
<1>1. /\ m.mode \in Mode /\ m.content \in Content /\ m.reached \in BOOLEAN
      /\ FirstStage(m) \in Stage
  BY DEF Snapshot, FirstStage, Stage
<1>2. IF m.mode = "check" THEN FirstStage(m) = "ReqExistence"
                          ELSE m.content \in Carried(FirstStage(m))
  BY <1>1 DEF FirstStage, Carried, Content
<1> QED
  BY <1>1, <1>2 DEF Started, Worker

\* The worker that an answer reaches, and what it is then.
Taker(a) == result[<<a.to, a.proto, a.id>>]
Taking(a) == [worker[<<a.to, Taker(a), a.id>>] EXCEPT !.chan = [kind |-> a.kind, ok |-> a.ok]]

LEMMA HandleResponseEffect ==
  ASSUME TypeOK, RegisteredIsAwaited, NEW a \in responses, HandleResponse(a)
  PROVE  /\ Taker(a) \in Node
         /\ worker[<<a.to, Taker(a), a.id>>] \in Worker
         /\ worker[<<a.to, Taker(a), a.id>>].chan = None
         /\ ProtoOf(worker[<<a.to, Taker(a), a.id>>].content) = a.proto
         /\ Taking(a) \in Worker
         /\ worker' = [worker EXCEPT ![<<a.to, Taker(a), a.id>>] = Taking(a)]
<1>1. /\ a.to \in Node /\ a.proto \in Proto /\ a.id \in Id
      /\ [kind |-> a.kind, ok |-> a.ok] \in Answer
  BY DEF TypeOK, Response, Answer
<1>2. Taker(a) \in Node
  BY <1>1 DEF TypeOK, HandleResponse, Taker
<1>3. /\ worker[<<a.to, Taker(a), a.id>>] \in Worker
      /\ ProtoOf(worker[<<a.to, Taker(a), a.id>>].content) = a.proto
  BY <1>1, <1>2 DEF TypeOK, HandleResponse, RegisteredIsAwaited, Key, Taker
<1>4. Taking(a) \in Worker
  BY <1>1, <1>3 DEF Worker, Taking
<1> QED
  BY <1>2, <1>3, <1>4 DEF HandleResponse, Taking, Taker

\* The worker that goes on to send the bytes.
Resumed(w) == [w EXCEPT !.stage = "ReqSyncBytes", !.chan = None]

LEMMA SendBytesEffect ==
  ASSUME TypeOK, NEW n \in Node, NEW p \in Node, NEW i \in Id, SendBytes(n, p, i)
  PROVE  /\ worker[<<n, p, i>>] \in Worker
         /\ worker[<<n, p, i>>] # None
         /\ worker[<<n, p, i>>].content \in Image
         /\ worker[<<n, p, i>>].mode = "send"
         /\ Resumed(worker[<<n, p, i>>]) \in Worker
         /\ worker' = [worker EXCEPT ![<<n, p, i>>] = Resumed(worker[<<n, p, i>>])]
<1> DEFINE w == worker[<<n, p, i>>]
<1>1. w \in Worker /\ w # None
  BY DEF TypeOK, SendBytes, Answered, Key
<1>2. w.content \in Image /\ w.mode = "send"
  BY <1>1 DEF SendBytes, BytesNeeded, Worker, Mode, Carried
<1>3. Resumed(w) \in Worker
  BY <1>1, <1>2 DEF Worker, Stage, Carried, Resumed
<1> QED
  BY <1>1, <1>2, <1>3 DEF SendBytes, Resumed

LEMMA SendingType ==
  ASSUME TypeOK, NEW n \in Node, NEW p \in Node, NEW c \in Image, NEW state \in Writing
  PROVE  Sending(n, p, c, state) \in [Node \X Node \X Image -> Writing]
BY DEF TypeOK, Sending

LEMMA AbandonedType ==
  ASSUME TypeOK, NEW n, NEW c
  PROVE  Abandoned(n, c) \in [Node \X Node \X Image -> Writing]
BY DEF TypeOK, Abandoned, Writing

LEMMA WrittenType ==
  ASSUME TypeOK, NEW r \in requests, r.content \in Image, Written(r)
  PROVE  /\ files' \subseteq Node \X Image
         /\ partial' \subseteq Node \X Image
         /\ UNCHANGED sending
BY DEF TypeOK, Request, Written

LEMMA FileType ==
  ASSUME TypeOK, NEW n \in Node, NEW p \in Node, NEW c \in Content, FileStep(n, p, c)
  PROVE  /\ files' \subseteq Node \X Image
         /\ partial' \subseteq Node \X Image
         /\ sending' \in [Node \X Node \X Image -> Writing]
<1>1. c \in Image
  BY DEF FileStep, SendImage, OpenImage, WriteImage, SendError
<1>2. CASE SendImage(n, p, c)
  BY <1>1, <1>2, SendingType DEF SendImage, TypeOK, Writing
<1>3. CASE OpenImage(n, p, c)
  <2>1. /\ files' = files \ {<<n, c>>}
        /\ partial' = partial \cup {<<n, c>>}
        /\ sending' = [Abandoned(n, c) EXCEPT ![<<n, p, c>>] = "writing"]
    BY <1>3 DEF OpenImage
  <2>2. sending' \in [Node \X Node \X Image -> Writing]
    BY <1>1, <2>1, AbandonedType DEF Writing
  <2> QED
    BY <1>1, <2>1, <2>2 DEF TypeOK
<1>4. CASE WriteImage(n, p, c)
  <2>1. sending' \in [Node \X Node \X Image -> Writing]
    BY <1>1, <1>4, SendingType DEF WriteImage, Writing
  <2> QED
    BY <1>1, <1>4, <2>1 DEF WriteImage, TypeOK
<1>5. CASE SendError(n, p, c)
  BY <1>1, <1>5, SendingType DEF SendError, TypeOK, Writing
<1> QED
  BY <1>2, <1>3, <1>4, <1>5 DEF FileStep

LEMMA ReadType ==
  ASSUME NEW n \in Node, NEW c \in Image
  PROVE  Read(n, c) \in Image
BY PayloadAssumption DEF Read

LEMMA CrashType ==
  ASSUME TypeOK, NEW n \in Node, Crash(n)
  PROVE  /\ snapshot' \subseteq Snapshot
         /\ worker' \in [Key -> Worker \cup {None}]
         /\ result' \in [Node \X Proto \X Id -> Node \cup {None}]
         /\ sending' \in [Node \X Node \X Image -> Writing]
BY DEF TypeOK, Crash, Writing

LEMMA NextTypeOK == TypeOK /\ RegisteredIsAwaited /\ [Next]_vars => TypeOK'
<1> SUFFICES ASSUME TypeOK, RegisteredIsAwaited, [Next]_vars PROVE TypeOK'
  OBVIOUS
<1> USE DEF stores, images, local, net, history
<1>1. ASSUME NEW n \in Node, NEW p \in Node, AsyncSend(n, p) PROVE TypeOK'
  BY <1>1, ViewType DEF TypeOK, AsyncSend
<1>2. ASSUME NEW n \in Node, NEW p \in Node, NEW c \in Content, Send(n, p, c) PROVE TypeOK'
  <2> DEFINE i == seq[<<n, p>>] + 1
  <2>0. seq[<<n, p>>] \in 0..MaxSeq /\ seq[<<n, p>>] < MaxSend
    BY <1>2 DEF Send, TypeOK
  <2>1. i \in Id /\ <<n, p, i>> \in Key
    BY <2>0, BoundAssumption DEF Id, Key
  <2>2. dialogue' \in [Key -> Message \cup {None}] 
    BY <1>2, <2>1 DEF Send, TypeOK, Message
  <2>3. snapshot' \subseteq Snapshot
    BY <1>2, <2>2, ViewType DEF Send, TypeOK
  <2>4. seq' \in [Node \X Node -> 0..MaxSeq]
    BY <1>2, <2>1 DEF Send, TypeOK, Id
  <2>5. pending' \subseteq Key /\ burning' \subseteq Key
    BY <1>2, <2>1 DEF Send, TypeOK
  <2>6. sending' \in [Node \X Node \X Image -> Writing]
    BY <1>2, SendingType DEF Send, TypeOK, Writing
  <2>7. sent' \subseteq Node \X Node \X Id \X Content
    BY <1>2, <2>1 DEF Send, TypeOK
  <2> QED
    BY <1>2, <2>2, <2>3, <2>4, <2>5, <2>6, <2>7 DEF Send, TypeOK
<1>3. ASSUME NEW n \in Node, NEW p \in Node, NEW ids, DelMessages(n, p, ids) PROVE TypeOK'
  BY <1>3 DEF TypeOK, DelMessages
<1>4. ASSUME NEW n \in Node, NEW p \in Node, FlushMessages(n, p) PROVE TypeOK'
  BY <1>4, BoundAssumption DEF TypeOK, FlushMessages
<1>5. ASSUME NEW m \in snapshot, LaunchSkip(m) PROVE TypeOK'
  BY <1>5 DEF TypeOK, LaunchSkip
<1>6. ASSUME NEW m \in snapshot, Launch(m) PROVE TypeOK'
  <2>1. /\ m.from \in Node /\ m.to \in Node /\ m.id \in Id
        /\ m.mode \in Mode /\ m.content \in Content /\ m.reached \in BOOLEAN
    BY DEF TypeOK, Snapshot
  <2>2. FirstStage(m) \in Stage /\ ProtoOf(m.content) \in Proto
    BY DEF FirstStage, Stage, ProtoOf, Proto
  <2>3. FirstStage(m) = "ReqExistence" \/ m.content \in Carried(FirstStage(m))
    BY <2>1 DEF FirstStage, Carried, Content
  <2>4. Started(m) \in Worker
    BY StartedType DEF TypeOK
  <2>5. worker' \in [Key -> Worker \cup {None}]
    BY <1>6, <2>1, <2>4 DEF TypeOK, Launch, Key
  <2>6. requests' \subseteq Request
    BY <1>6, <2>1, <2>2, <2>3, RequestOfType DEF TypeOK, Launch
  <2> QED
    BY <1>6, <2>1, <2>2, <2>5, <2>6 DEF TypeOK, Launch
<1>7. ASSUME NEW m \in snapshot, LaunchError(m) PROVE TypeOK'
  BY <1>7 DEF TypeOK, LaunchError
<1>8. ASSUME NEW r \in requests, HandleSyncText(r) PROVE TypeOK'
  BY <1>8, StoreType, ConsumeType, RespondType DEF TypeOK, HandleSyncText, RespKind
<1>9. ASSUME NEW r \in requests, HandleSyncHash(r) PROVE TypeOK'
  BY <1>9, StoreType, ConsumeType, RespondType DEF TypeOK, HandleSyncHash, RespKind
<1>10. ASSUME NEW r \in requests, HandleSyncHashMiss(r) PROVE TypeOK'
  BY <1>10, ConsumeType, RespondType, AbandonedType DEF TypeOK, HandleSyncHashMiss, RespKind
<1>11. ASSUME NEW r \in requests, HandleSyncBytes(r) PROVE TypeOK'
  <2>1. r.kind # "ReqExistence" /\ r.to \in Node
    BY <1>11 DEF TypeOK, Request, HandleSyncBytes
  <2>2. r.content \in Image
    BY <1>11 DEF TypeOK, Request, Carried, HandleSyncBytes
  <2>3. responses' \subseteq Response
    BY <1>11, RespondType DEF HandleSyncBytes, RespKind
  <2> QED
    BY <1>11, <2>1, <2>2, <2>3, StoreType, ConsumeType, WrittenType DEF TypeOK, HandleSyncBytes
<1>12. ASSUME NEW r \in requests, HandleExist(r) PROVE TypeOK'
  <2>1. (<<r.to, r.from, r.id>> \in received) \in BOOLEAN /\ "RespExistence" \in RespKind
    BY DEF RespKind
  <2>2. responses' \subseteq Response
    BY <1>12, <2>1, RespondType DEF HandleExist
  <2> QED
    BY <1>12, <2>2, ConsumeType DEF TypeOK, HandleExist
<1>13. ASSUME NEW r \in requests, HandleError(r) PROVE TypeOK'
  <2>1. r.to \in Node
    BY DEF TypeOK, Request
  <2>2. r.kind = "ReqSyncBytes" => r.content \in Image
    BY DEF TypeOK, Request, Carried
  <2>3. /\ files' \subseteq Node \X Image
        /\ partial' \subseteq Node \X Image
        /\ sending' \in [Node \X Node \X Image -> Writing]
    BY <1>13, <2>1, <2>2, WrittenType, AbandonedType DEF TypeOK, HandleError
  <2> QED
    BY <1>13, <2>3, ConsumeType DEF TypeOK, HandleError
<1>14. ASSUME NEW r \in requests, LoseRequest(r) PROVE TypeOK'
  BY <1>14 DEF TypeOK, LoseRequest
<1>15. ASSUME NEW a \in responses, HandleResponse(a) PROVE TypeOK'
  <2>1. a.to \in Node /\ a.id \in Id
    BY DEF TypeOK, Response
  <2> QED
    BY <1>15, <2>1, HandleResponseEffect DEF TypeOK, HandleResponse
<1>16. ASSUME NEW a \in responses, DropResponse(a) PROVE TypeOK'
  BY <1>16 DEF TypeOK, DropResponse
<1>17. ASSUME NEW a \in responses, LoseResponse(a) PROVE TypeOK'
  BY <1>17 DEF TypeOK, LoseResponse
<1>18. ASSUME NEW n \in Node, NEW p \in Node, NEW i \in Id, Commit(n, p, i) PROVE TypeOK'
  <2>1. <<n, p, i>> \in Key
    BY DEF Key
  <2>2. dialogue[<<n, p, i>>] # None => dialogue[<<n, p, i>>] \in Message
    BY <2>1 DEF TypeOK
  <2>3. dialogue' \in [Key -> Message \cup {None}]
    BY <1>18, <2>1, <2>2 DEF TypeOK, Commit, Message
  <2>4. pending' \subseteq Key /\ arrived' \subseteq Key
    BY <1>18, <2>1 DEF TypeOK, Commit
  <2>5. /\ worker' \in [Key -> Worker \cup {None}]
        /\ result' \in [Node \X Proto \X Id -> Node \cup {None}]
    BY <1>18 DEF TypeOK, Commit, Exit
  <2> QED
    BY <1>18, <2>3, <2>4, <2>5 DEF TypeOK, Commit
<1>19. ASSUME NEW n \in Node, NEW p \in Node, NEW i \in Id, SendBytes(n, p, i) PROVE TypeOK'
  <2>1. worker' \in [Key -> Worker \cup {None}]
    BY <1>19, SendBytesEffect DEF TypeOK
  <2>2. RequestOf(n, p, i, "ReqSyncBytes", Read(n, worker[<<n, p, i>>].content)) \in Request
    BY <1>19, SendBytesEffect, ReadType, RequestOfType DEF Content, Stage, Carried
  <2> QED
    BY <1>19, <2>1, <2>2 DEF TypeOK, SendBytes, Proto
<1>20. ASSUME NEW n \in Node, NEW p \in Node, NEW i \in Id, SendBytesError(n, p, i) PROVE TypeOK'
  BY <1>20 DEF TypeOK, SendBytesError, Exit
<1>21. ASSUME NEW n \in Node, NEW p \in Node, NEW i \in Id, Panic(n, p, i) PROVE TypeOK'
  BY <1>21, CrashType DEF TypeOK, Panic
<1>22. ASSUME NEW n \in Node, NEW p \in Node, NEW i \in Id, Timeout(n, p, i) PROVE TypeOK'
  BY <1>22 DEF TypeOK, Timeout, Exit
<1>23. ASSUME NEW n \in Node, NEW p \in Node, NEW i \in Id, Age(n, p, i) PROVE TypeOK'
  <2>1. dialogue[<<n, p, i>>] \in Message
    BY <1>23 DEF TypeOK, Age, Key
  <2>2. [dialogue[<<n, p, i>>] EXCEPT !.fresh = FALSE] \in Message
    BY <2>1 DEF Message
  <2>3. dialogue' = [dialogue EXCEPT ![<<n, p, i>>] = [dialogue[<<n, p, i>>] EXCEPT !.fresh = FALSE]]
    BY <1>23 DEF Age
  <2>4. dialogue' \in [Key -> Message \cup {None}]
    BY <2>2, <2>3 DEF TypeOK
  <2> QED
    BY <1>23, <2>4 DEF TypeOK, Age
<1>24. ASSUME NEW n \in Node, NEW p \in Node, NEW i \in Id, Destroy(n, p, i) PROVE TypeOK'
  <2>1. dialogue' \in [Key -> Message \cup {None}] /\ pending' \subseteq Key
    BY <1>24 DEF TypeOK, Destroy
  <2> QED
    BY <1>24, <2>1 DEF TypeOK, Destroy
<1>25. ASSUME NEW n \in Node, Restart(n) PROVE TypeOK'
  BY <1>25, CrashType DEF TypeOK, Restart
<1>26. ASSUME NEW n \in Node, NEW p \in Node, NEW c \in Content, FileStep(n, p, c) PROVE TypeOK'
  BY <1>26, FileType, FileFrame DEF TypeOK
<1>27. ASSUME UNCHANGED vars PROVE TypeOK'
  BY <1>27 DEF TypeOK, vars
<1>28. UserStep => TypeOK'
  BY <1>1, <1>2, <1>3, <1>4, <1>26 DEF UserStep, FileStep
<1>29. SnapshotStep => TypeOK'
  BY <1>5, <1>6, <1>7 DEF SnapshotStep
<1>30. RequestStep => TypeOK'
  BY <1>8, <1>9, <1>10, <1>11, <1>12, <1>13, <1>14 DEF RequestStep, Handle
<1>31. ResponseStep => TypeOK'
  BY <1>15, <1>16, <1>17 DEF ResponseStep
<1>32. WorkerStep => TypeOK'
  BY <1>18, <1>19, <1>20, <1>21, <1>22 DEF WorkerStep
<1>33. EnvironmentStep => TypeOK'
  BY <1>23, <1>24, <1>25 DEF EnvironmentStep
<1> QED
  BY <1>27, <1>28, <1>29, <1>30, <1>31, <1>32, <1>33 DEF Next

LEMMA InitRegistered == Init => RegisteredIsAwaited
  BY DEF Init, RegisteredIsAwaited, Proto

LEMMA NextRegistered ==
  TypeOK /\ RegisteredIsAwaited /\ [Next]_vars => RegisteredIsAwaited'
<1> SUFFICES ASSUME TypeOK, RegisteredIsAwaited, [Next]_vars PROVE RegisteredIsAwaited'
  OBVIOUS
<1> USE DEF stores, images, local, net, history
<1>1. CASE UNCHANGED <<worker, result>>
  BY <1>1 DEF RegisteredIsAwaited
<1>2. ASSUME NEW m \in snapshot, Launch(m) PROVE RegisteredIsAwaited'
  <2>1. m \in Snapshot /\ m.from \in Node /\ m.to \in Node /\ m.id \in Id
    BY DEF TypeOK, Snapshot
  <2>2. Started(m) # None /\ Started(m).content = m.content
    BY <2>1, StartedType, NoneAssumption DEF Started
  <2>3. /\ worker' = [worker EXCEPT ![<<m.from, m.to, m.id>>] = Started(m)]
        /\ result' = [result EXCEPT ![<<m.from, ProtoOf(m.content), m.id>>] = m.to]
    BY <1>2 DEF Launch
  <2> QED
    BY <1>2, <2>1, <2>2, <2>3 DEF Launch, RegisteredIsAwaited, TypeOK, Key
<1>3. ASSUME NEW m \in snapshot, LaunchError(m) PROVE RegisteredIsAwaited'
  BY <1>3 DEF LaunchError, RegisteredIsAwaited, TypeOK, Snapshot
<1>4. ASSUME NEW a \in responses, HandleResponse(a) PROVE RegisteredIsAwaited'
  <2>1. a.to \in Node /\ a.id \in Id /\ UNCHANGED result
    BY <1>4 DEF TypeOK, Response, HandleResponse
  <2>2. Taking(a) # None /\ Taking(a).content = worker[<<a.to, Taker(a), a.id>>].content
    BY <1>4, HandleResponseEffect, NoneAssumption DEF Taking, Worker
  <2> QED
    BY <1>4, <2>1, <2>2, HandleResponseEffect DEF RegisteredIsAwaited, TypeOK, Key
<1>5. ASSUME NEW n \in Node, NEW p \in Node, NEW i \in Id, Exit(n, p, i) PROVE RegisteredIsAwaited'
  BY <1>5 DEF Exit, RegisteredIsAwaited, TypeOK, Key
<1>6. ASSUME NEW n \in Node, NEW p \in Node, NEW i \in Id, SendBytes(n, p, i) PROVE RegisteredIsAwaited'
  <2> DEFINE w == worker[<<n, p, i>>]
  <2>1. Resumed(w) # None /\ worker' = [worker EXCEPT ![<<n, p, i>>] = Resumed(w)]
    BY <1>6, SendBytesEffect, NoneAssumption
  <2>2. Resumed(w).content = w.content /\ ProtoOf(w.content) = "image"
    BY <1>6, SendBytesEffect, PayloadAssumption DEF Worker, ProtoOf, Resumed
  <2>3. result' = [result EXCEPT ![<<n, "image", i>>] = p] /\ w # None
    BY <1>6, SendBytesEffect DEF SendBytes
  <2> HIDE DEF w
  <2>4. \A m, q \in Node, j \in Id :
           worker[<<m, q, j>>] # None =>
             /\ worker'[<<m, q, j>>] # None
             /\ worker'[<<m, q, j>>].content = worker[<<m, q, j>>].content
    BY <2>1, <2>2 DEF TypeOK, Key, w
  <2>5. worker'[<<n, p, i>>] # None /\ ProtoOf(worker'[<<n, p, i>>].content) = "image"
    BY <2>2, <2>3, <2>4 DEF w
  <2>6. \A m, q \in Node, proto \in Proto, j \in Id :
           result'[<<m, proto, j>>] = q =>
             \/ result[<<m, proto, j>>] = q
             \/ m = n /\ proto = "image" /\ j = i /\ q = p
    BY <2>3 DEF TypeOK, Proto
  <2>7. result' \in [Node \X Proto \X Id -> Node \cup {None}]
    BY <2>3 DEF TypeOK, Proto
  <2> QED
    BY <2>4, <2>5, <2>6, <2>7, NoneAssumption DEF RegisteredIsAwaited
<1>7. ASSUME NEW n \in Node, Crash(n) PROVE RegisteredIsAwaited'
  BY <1>7 DEF Crash, RegisteredIsAwaited, TypeOK, Key
<1>8. SnapshotStep => RegisteredIsAwaited'
  BY <1>1, <1>2, <1>3 DEF SnapshotStep, LaunchSkip
<1>9. ResponseStep => RegisteredIsAwaited'
  BY <1>1, <1>4 DEF ResponseStep, DropResponse, LoseResponse
<1>10. WorkerStep => RegisteredIsAwaited'
  BY <1>5, <1>6, <1>7 DEF WorkerStep, Commit, SendBytesError, Panic, Timeout
<1>11. EnvironmentStep => RegisteredIsAwaited'
  BY <1>1, <1>7 DEF EnvironmentStep, Age, Destroy, Restart
<1> QED
  BY <1>1, <1>8, <1>9, <1>10, <1>11, UserFrame, RequestFrame DEF Next, vars

\* Every state of the service has the shape that TypeOK gives it; and a channel
\* in the result map always belongs to a goroutine that still waits on it.
THEOREM TypeCorrect == Spec => [](TypeOK /\ RegisteredIsAwaited)
<1>1. Init => TypeOK /\ RegisteredIsAwaited
  BY InitTypeOK, InitRegistered
<1>2. TypeOK /\ RegisteredIsAwaited /\ [Next]_vars => (TypeOK /\ RegisteredIsAwaited)'
  BY NextTypeOK, NextRegistered
<1> QED
  BY <1>1, <1>2, PTL DEF Spec

\* The first half of it: buckets, goroutines and packets keep their shape.
THEOREM TypesAreKept == Spec => []TypeOK
BY TypeCorrect, PTL

-----------------------------------------------------------------------------
(* How the stores evolve *)

\* An image is recorded when its file is there.
LEMMA StoreFile ==
  ASSUME TypeOK, RequestStep
  PROVE  \/ \E r \in requests : Store(r) /\ (r.content \in Image => <<r.to, r.content>> \in files')
         \/ UNCHANGED dialogue
<1> USE DEF stores, images, local, net, history
<1>1. ASSUME NEW r \in requests, HandleSyncText(r)
      PROVE  Store(r) /\ r.content \notin Image
  <2>1. r.content \in Text
    BY <1>1 DEF TypeOK, Request, Carried, HandleSyncText
  <2> QED
    BY <1>1, <2>1, PayloadAssumption DEF HandleSyncText
<1>2. ASSUME NEW r \in requests, HandleSyncHash(r) \/ HandleSyncBytes(r)
      PROVE  Store(r) /\ <<r.to, r.content>> \in files'
  BY <1>2 DEF HandleSyncHash, HandleSyncBytes, Written
<1> QED
  BY <1>1, <1>2 DEF RequestStep, Handle, HandleSyncHashMiss, HandleExist, HandleError, LoseRequest

Kept(d, e) ==
    /\ d # None
    /\ e.content = d.content
    /\ e.initiator = d.initiator
    /\ d.reached => e.reached
    /\ e.fresh => d.fresh

\* A record stays what it is, or its id is the next one of the bucket and it
\* is a message just sent or just received.
LEMMA RecordChange ==
  ASSUME TypeOK, [Next]_vars, NEW n \in Node, NEW p \in Node, NEW i \in Id,
         dialogue'[<<n, p, i>>] # None
  PROVE  LET e == dialogue'[<<n, p, i>>] IN
         \/ Kept(dialogue[<<n, p, i>>], e)
         \/ /\ i = seq[<<n, p>>] + 1 /\ seq'[<<n, p>>] = i
            /\ Send(n, p, e.content) /\ e.initiator /\ e.fresh /\ ~e.reached
         \/ /\ i = seq[<<n, p>>] + 1 /\ seq'[<<n, p>>] = i
            /\ UNCHANGED sent /\ ~e.initiator
            /\ e.content \in Image => <<n, e.content>> \in files'
<1> USE DEF stores, images, local, net, history
<1> DEFINE d == dialogue[<<n, p, i>>]
           e == dialogue'[<<n, p, i>>]
<1>1. CASE d = e
  BY <1>1 DEF Kept
<1>2. CASE UserStep
  <2>1. ASSUME NEW m \in Node, NEW q \in Node, NEW c \in Content, Send(m, q, c)
        PROVE  \/ d = e
               \/ /\ i = seq[<<n, p>>] + 1 /\ seq'[<<n, p>>] = i
                  /\ Send(n, p, e.content) /\ e.initiator /\ e.fresh /\ ~e.reached
    <3>1. seq[<<m, q>>] + 1 \in Id /\ <<m, q, seq[<<m, q>>] + 1>> \in Key
      BY <2>1, BoundAssumption DEF Send, TypeOK, Id, Key
    <3>2. CASE <<m, q, seq[<<m, q>>] + 1>> = <<n, p, i>>
      BY <2>1, <3>1, <3>2 DEF Send, TypeOK
    <3>3. CASE <<m, q, seq[<<m, q>>] + 1>> # <<n, p, i>>
      BY <2>1, <3>1, <3>3 DEF Send, TypeOK, Key
    <3> QED
      BY <3>2, <3>3
  <2>2. ASSUME NEW m \in Node, NEW q \in Node, NEW ids, DelMessages(m, q, ids)
        PROVE  d = e
    BY <2>2 DEF DelMessages, Key
  <2>3. ASSUME NEW m \in Node, NEW q \in Node, FlushMessages(m, q)
        PROVE  d = e
    BY <2>3 DEF FlushMessages, Key
  <2> QED
    BY <1>1, <1>2, <2>1, <2>2, <2>3, UserCases
    DEF AsyncSend
<1>3. CASE RequestStep
  <2>1. ASSUME NEW r \in requests, Store(r)
        PROVE  \/ d = e
               \/ /\ i = seq[<<n, p>>] + 1 /\ seq'[<<n, p>>] = i /\ ~e.initiator
                  /\ r.to = n /\ r.content = e.content
    <3>1. r.to \in Node /\ r.from \in Node
      BY DEF TypeOK, Request
    <3>2. <<r.to, r.from, seq[<<r.to, r.from>>] + 1>> \in Key
      BY <2>1, <3>1, BoundAssumption DEF Store, TypeOK, Id, Key
    <3>3. CASE <<r.to, r.from, seq[<<r.to, r.from>>] + 1>> = <<n, p, i>>
      BY <2>1, <3>1, <3>2, <3>3 DEF Store, TypeOK
    <3>4. CASE <<r.to, r.from, seq[<<r.to, r.from>>] + 1>> # <<n, p, i>>
      BY <2>1, <3>1, <3>2, <3>4 DEF Store, TypeOK, Key
    <3> QED
      BY <3>3, <3>4
  <2> QED
    BY <1>1, <1>3, <2>1, StoreFile, RequestFrame
<1>4. CASE WorkerStep
  <2>1. ASSUME NEW m \in Node, NEW q \in Node, NEW j \in Id, Commit(m, q, j)
        PROVE  Kept(d, e)
    BY <2>1 DEF Commit, TypeOK, Key, Message, Kept
  <2> QED
    BY <1>1, <1>4, <2>1 DEF WorkerStep, SendBytes, SendBytesError, Panic, Timeout
<1>5. CASE EnvironmentStep
  <2>1. ASSUME NEW m \in Node, NEW q \in Node, NEW j \in Id, Age(m, q, j)
        PROVE  Kept(d, e)
    BY <2>1 DEF Age, TypeOK, Key, Message, Kept
  <2>2. ASSUME NEW m \in Node, NEW q \in Node, NEW j \in Id, Destroy(m, q, j)
        PROVE  d = e
    BY <2>2 DEF Destroy, TypeOK, Key
  <2> QED
    BY <1>1, <1>5, <2>1, <2>2 DEF EnvironmentStep, Restart
<1> QED
  BY <1>1, <1>2, <1>3, <1>4, <1>5, SnapshotFrame, ResponseFrame DEF Next, vars

LEMMA PendingChange ==
  ASSUME [Next]_vars, NEW n \in Node, NEW p \in Node, NEW i \in Id, <<n, p, i>> \in pending'
  PROVE  <<n, p, i>> \in pending \/ \E c \in Content : Send(n, p, c) /\ i = seq[<<n, p>>] + 1
<1> USE DEF stores, images, local, net, history
<1>1. CASE UserStep
  <2>1. ASSUME NEW m \in Node, NEW q \in Node, NEW c \in Content, Send(m, q, c),
               <<n, p, i>> \notin pending
        PROVE  m = n /\ q = p /\ i = seq[<<n, p>>] + 1
    <3>1. <<n, p, i>> = <<m, q, seq[<<m, q>>] + 1>>
      BY <2>1 DEF Send
    <3> QED
      BY <3>1
  <2> QED
    BY <1>1, <2>1, UserCases
    DEF AsyncSend, DelMessages, FlushMessages
<1>2. CASE WorkerStep
  BY <1>2 DEF WorkerStep, Commit, SendBytes, SendBytesError, Panic, Timeout
<1>3. CASE EnvironmentStep
  BY <1>3 DEF EnvironmentStep, Age, Destroy, Restart
<1> QED
  BY <1>1, <1>2, <1>3, SnapshotFrame, RequestFrame, ResponseFrame DEF Next, vars

\* What AsyncSend reads is a record with a pending entry.
Reads(m, records, queue) ==
    LET d == records[<<m.from, m.to, m.id>>] IN
    /\ <<m.from, m.to, m.id>> \in queue
    /\ d # None
    /\ m.mode = IF d.fresh THEN "send" ELSE "check"
    /\ m.content = d.content
    /\ m.reached = d.reached

LEMMA ViewReads ==
  ASSUME NEW n \in Node, NEW p \in Node, NEW D, NEW Q, NEW m \in View(n, p, D, Q)
  PROVE  Reads(m, D, Q)
<1>1. PICK i \in Id :
         /\ D[<<n, p, i>>] # None
         /\ <<n, p, i>> \in Q
         /\ m = [from |-> n, to |-> p, id |-> i,
                 mode |-> IF D[<<n, p, i>>].fresh THEN "send" ELSE "check",
                 content |-> D[<<n, p, i>>].content, reached |-> D[<<n, p, i>>].reached]
  BY DEF View
<1> QED
  BY <1>1 DEF Reads

LEMMA SnapshotChange ==
  ASSUME TypeOK, [Next]_vars, NEW m \in snapshot'
  PROVE  m \in snapshot \/ Reads(m, dialogue, pending) \/ Reads(m, dialogue', pending')
<1> USE DEF stores, images, local, net, history
<1>1. CASE UserStep
  <2>1. ASSUME NEW n \in Node, NEW p \in Node, AsyncSend(n, p)
        PROVE  m \in snapshot \/ Reads(m, dialogue, pending)
    BY <2>1, ViewReads DEF AsyncSend
  <2>2. ASSUME NEW n \in Node, NEW p \in Node, NEW c \in Content, Send(n, p, c)
        PROVE  m \in snapshot \/ Reads(m, dialogue', pending')
    <3>1. m \in snapshot \/ m \in View(n, p, dialogue', pending')
      BY <2>2 DEF Send
    <3> QED
      BY <3>1, ViewReads
  <2> QED
    BY <1>1, <2>1, <2>2, UserCases
    DEF DelMessages, FlushMessages
<1>2. CASE SnapshotStep
  BY <1>2 DEF SnapshotStep, LaunchSkip, Launch, LaunchError
<1>3. CASE RequestStep
  <2>1. ASSUME NEW r \in requests, Consume(r)
        PROVE  m \in snapshot \/ Reads(m, dialogue, pending)
    <3>1. r.to \in Node /\ r.from \in Node
      BY DEF TypeOK, Request
    <3> QED
      BY <2>1, <3>1, ViewReads DEF Consume
  <2> QED
    BY <1>3, <2>1 DEF RequestStep, Handle, HandleSyncText, HandleSyncHash, HandleSyncHashMiss,
         HandleSyncBytes, HandleExist, HandleError, LoseRequest
<1>4. CASE WorkerStep
  BY <1>4 DEF WorkerStep, Commit, SendBytes, SendBytesError, Panic, Timeout, Crash
<1>5. CASE EnvironmentStep
  BY <1>5 DEF EnvironmentStep, Age, Destroy, Restart, Crash
<1> QED
  BY <1>1, <1>2, <1>3, <1>4, <1>5, ResponseFrame DEF Next, vars

\* A goroutine is started from what AsyncSend read, takes an answer, goes on
\* to its second request, or ends.
LEMMA WorkerChange ==
  ASSUME TypeOK, RegisteredIsAwaited, [Next]_vars, NEW n \in Node, NEW p \in Node, NEW i \in Id,
         worker'[<<n, p, i>>] # None
  PROVE  LET w == worker[<<n, p, i>>]
             v == worker'[<<n, p, i>>] IN
         \/ v = w
         \/ /\ w = None
            /\ \E m \in snapshot : /\ Launch(m) /\ m.from = n /\ m.to = p /\ m.id = i
                                   /\ v = Started(m)
         \/ /\ w # None /\ w.chan = None
            /\ \E a \in responses : /\ HandleResponse(a) /\ a.to = n /\ a.id = i
                                    /\ a.proto = ProtoOf(w.content) /\ v = Taking(a)
                                    /\ Taker(a) = p
         \/ w # None /\ w.mode = "send" /\ SendBytes(n, p, i) /\ v = Resumed(w)
<1> USE DEF stores, images, local, net, history
<1> DEFINE w == worker[<<n, p, i>>]
           v == worker'[<<n, p, i>>]
<1>1. CASE v = w
  BY <1>1
<1>2. CASE SnapshotStep
  <2>1. ASSUME NEW m \in snapshot, Launch(m), v # w
        PROVE  w = None /\ m.from = n /\ m.to = p /\ m.id = i /\ v = Started(m)
    <3>1. <<m.from, m.to, m.id>> \in Key
      BY DEF TypeOK, Snapshot, Key
    <3>2. CASE <<m.from, m.to, m.id>> = <<n, p, i>>
      BY <2>1, <3>1, <3>2 DEF Launch, TypeOK
    <3>3. CASE <<m.from, m.to, m.id>> # <<n, p, i>>
      BY <2>1, <3>1, <3>3 DEF Launch, TypeOK, Key
    <3> QED
      BY <3>2, <3>3
  <2> QED
    BY <1>1, <1>2, <2>1 DEF SnapshotStep, LaunchSkip, LaunchError
<1>3. CASE ResponseStep
  <2>1. ASSUME NEW a \in responses, HandleResponse(a), v # w
        PROVE  /\ w # None /\ w.chan = None
               /\ a.to = n /\ a.id = i /\ a.proto = ProtoOf(w.content)
               /\ v = Taking(a) /\ Taker(a) = p
    <3>1. <<a.to, Taker(a), a.id>> \in Key
      BY <2>1, HandleResponseEffect DEF TypeOK, Response, Key
    <3>2. CASE <<a.to, Taker(a), a.id>> = <<n, p, i>>
      <4>1. a.to = n /\ a.id = i /\ Taker(a) = p
        BY <3>2
      <4> QED
        BY <2>1, <3>1, <3>2, <4>1, HandleResponseEffect, NoneAssumption DEF TypeOK
    <3>3. CASE <<a.to, Taker(a), a.id>> # <<n, p, i>>
      BY <2>1, <3>1, <3>3, HandleResponseEffect DEF TypeOK, Key
    <3> QED
      BY <3>2, <3>3
  <2> QED
    BY <1>1, <1>3, <2>1 DEF ResponseStep, DropResponse, LoseResponse
<1>4. CASE WorkerStep
  <2>1. ASSUME NEW m \in Node, NEW q \in Node, NEW j \in Id, Exit(m, q, j)
        PROVE  v = w
    BY <2>1 DEF Exit, TypeOK, Key
  <2>2. ASSUME NEW m \in Node, Crash(m)
        PROVE  v = w
    BY <2>2 DEF Crash, TypeOK, Key
  <2>3. ASSUME NEW m \in Node, NEW q \in Node, NEW j \in Id, SendBytes(m, q, j), v # w
        PROVE  w # None /\ w.mode = "send" /\ m = n /\ q = p /\ j = i /\ v = Resumed(w)
    <3>1. CASE <<m, q, j>> = <<n, p, i>>
      <4>1. m = n /\ q = p /\ j = i
        BY <3>1
      <4>2. /\ w # None /\ w.mode = "send"
            /\ worker' = [worker EXCEPT ![<<n, p, i>>] = Resumed(w)]
        BY <2>3, <4>1, SendBytesEffect
      <4> QED
        BY <4>1, <4>2 DEF TypeOK, Key
    <3>2. CASE <<m, q, j>> # <<n, p, i>>
      <4> DEFINE u == Resumed(worker[<<m, q, j>>])
      <4>1. worker' = [worker EXCEPT ![<<m, q, j>>] = u]
        BY <2>3, SendBytesEffect
      <4> HIDE DEF u
      <4>2. v = w
        BY <3>2, <4>1 DEF TypeOK, Key
      <4> QED
        BY <2>3, <4>2
    <3> QED
      BY <3>1, <3>2
  <2> QED
    BY <1>1, <1>4, <2>1, <2>2, <2>3 DEF WorkerStep, Commit, SendBytesError, Panic, Timeout
<1>5. CASE EnvironmentStep
  <2>2. ASSUME NEW m \in Node, Crash(m)
        PROVE  v = w
    BY <2>2 DEF Crash, TypeOK, Key
  <2> QED
    BY <1>1, <1>5, <2>2 DEF EnvironmentStep, Age, Destroy, Restart
<1> QED
  BY <1>1, <1>2, <1>3, <1>4, <1>5, UserFrame, RequestFrame DEF Next, vars

LEMMA RequestsChange ==
  ASSUME [Next]_vars, NEW r \in requests'
  PROVE  \/ r \in requests
         \/ \E m \in snapshot : /\ Launch(m)
                                /\ r = RequestOf(m.from, m.to, m.id, FirstStage(m), m.content)
         \/ \E n, p \in Node, i \in Id :
               /\ SendBytes(n, p, i)
               /\ r = RequestOf(n, p, i, "ReqSyncBytes", Read(n, worker[<<n, p, i>>].content))
<1> USE DEF stores, images, local, net, history
<1>1. CASE SnapshotStep
  BY <1>1 DEF SnapshotStep, LaunchSkip, Launch, LaunchError
<1>2. CASE RequestStep
  BY <1>2 DEF RequestStep, Handle, HandleSyncText, HandleSyncHash, HandleSyncHashMiss,
         HandleSyncBytes, HandleExist, HandleError, LoseRequest, Consume
<1>3. CASE WorkerStep
  <2>1. ASSUME NEW n \in Node, NEW p \in Node, NEW i \in Id, SendBytes(n, p, i)
        PROVE  \/ r \in requests
               \/ r = RequestOf(n, p, i, "ReqSyncBytes", Read(n, worker[<<n, p, i>>].content))
    BY <2>1 DEF SendBytes
  <2> QED
    BY <1>3, <2>1 DEF WorkerStep, Commit, SendBytesError, Panic, Timeout
<1> QED
  BY <1>1, <1>2, <1>3, UserFrame, ResponseFrame, EnvironmentFrame DEF Next, vars

\* What the answer to a request is.
Answers(r, a) ==
    /\ a.from = r.to /\ a.to = r.from /\ a.id = r.id /\ a.proto = r.proto
    /\ a.kind = "RespExistence" <=> r.kind = "ReqExistence"
    /\ \/ Store(r) /\ r.kind # "ReqExistence" /\ a.ok
       \/ r.kind = "ReqExistence" /\ a.ok = (<<r.to, r.from, r.id>> \in received)
       \/ r.kind = "ReqSyncHash" /\ ~a.ok

LEMMA ResponsesChange ==
  ASSUME [Next]_vars, NEW a \in responses'
  PROVE  a \in responses \/ \E r \in requests : Consume(r) /\ Answers(r, a)
<1> USE DEF stores, images, local, net, history
<1>1. CASE RequestStep
  <2>1. ASSUME NEW r \in requests, HandleSyncText(r), a \notin responses
        PROVE  Consume(r) /\ Answers(r, a)
    <3>1. a = [kind |-> "RespSyncText", proto |-> r.proto, from |-> r.to, to |-> r.from,
               id |-> r.id, ok |-> TRUE]
      BY <2>1 DEF HandleSyncText, Respond
    <3> QED
      BY <2>1, <3>1 DEF HandleSyncText, Answers
  <2>2. ASSUME NEW r \in requests, HandleSyncHash(r), a \notin responses
        PROVE  Consume(r) /\ Answers(r, a)
    <3>1. a = [kind |-> "RespSyncHash", proto |-> r.proto, from |-> r.to, to |-> r.from,
               id |-> r.id, ok |-> TRUE]
      BY <2>2 DEF HandleSyncHash, Respond
    <3> QED
      BY <2>2, <3>1 DEF HandleSyncHash, Answers
  <2>3. ASSUME NEW r \in requests, HandleSyncHashMiss(r), a \notin responses
        PROVE  Consume(r) /\ Answers(r, a)
    <3>1. a = [kind |-> "RespSyncHash", proto |-> r.proto, from |-> r.to, to |-> r.from,
               id |-> r.id, ok |-> FALSE]
      BY <2>3 DEF HandleSyncHashMiss, Respond
    <3> QED
      BY <2>3, <3>1 DEF HandleSyncHashMiss, Answers
  <2>4. ASSUME NEW r \in requests, HandleSyncBytes(r), a \notin responses
        PROVE  Consume(r) /\ Answers(r, a)
    <3>1. a = [kind |-> "RespSyncBytes", proto |-> r.proto, from |-> r.to, to |-> r.from,
               id |-> r.id, ok |-> TRUE]
      BY <2>4 DEF HandleSyncBytes, Respond
    <3> QED
      BY <2>4, <3>1 DEF HandleSyncBytes, Answers
  <2>5. ASSUME NEW r \in requests, HandleExist(r), a \notin responses
        PROVE  Consume(r) /\ Answers(r, a)
    <3>1. a = [kind |-> "RespExistence", proto |-> r.proto, from |-> r.to, to |-> r.from,
               id |-> r.id, ok |-> (<<r.to, r.from, r.id>> \in received)]
      BY <2>5 DEF HandleExist, Respond
    <3> QED
      BY <2>5, <3>1 DEF HandleExist, Answers
  <2> QED
    BY <1>1, <2>1, <2>2, <2>3, <2>4, <2>5 DEF RequestStep, Handle, HandleError, LoseRequest
<1>2. CASE ResponseStep
  BY <1>2 DEF ResponseStep, HandleResponse, DropResponse, LoseResponse
<1> QED
  BY <1>1, <1>2, UserFrame, SnapshotFrame, WorkerFrame, EnvironmentFrame DEF Next, vars

-----------------------------------------------------------------------------
(* What holds of the stores in every environment *)

\* A record has an id that its bucket handed out.
HandedOut ==
    \A n, p \in Node, i \in Id : dialogue[<<n, p, i>>] # None => i <= seq[<<n, p>>]

\* A bucket's sequence goes back only when the bucket is emptied.
LEMMA SeqGrowsOrEmpty ==
  ASSUME TypeOK, [Next]_vars, NEW n \in Node, NEW p \in Node
  PROVE  \/ seq[<<n, p>>] <= seq'[<<n, p>>]
         \/ \A i \in Id : dialogue'[<<n, p, i>>] = None
<1> USE DEF stores, images, local, net, history
<1>1. CASE seq[<<n, p>>] = seq'[<<n, p>>]
  BY <1>1 DEF TypeOK
<1>2. CASE UserStep
  <2>1. ASSUME NEW m \in Node, NEW q \in Node, NEW c \in Content, Send(m, q, c)
        PROVE  seq[<<n, p>>] <= seq'[<<n, p>>]
    BY <2>1, SendSeqGrows
  <2>2. ASSUME NEW m \in Node, NEW q \in Node, FlushMessages(m, q)
        PROVE  \/ seq[<<n, p>>] = seq'[<<n, p>>]
               \/ \A i \in Id : dialogue'[<<n, p, i>>] = None
    BY <2>2 DEF FlushMessages, TypeOK, Key
  <2> QED
    BY <1>1, <1>2, <2>1, <2>2, UserCases
    DEF AsyncSend, DelMessages
<1>3. CASE RequestStep
  BY <1>1, <1>3, StoreSeqGrows, StoreOrNot
<1> QED
  BY <1>1, <1>2, <1>3, SnapshotFrame, ResponseFrame, WorkerFrame, EnvironmentFrame
  DEF Next, vars

LEMMA NextHandedOut ==
  ASSUME TypeOK, TypeOK', HandedOut, [Next]_vars
  PROVE  HandedOut'
<1> SUFFICES ASSUME NEW n \in Node, NEW p \in Node, NEW i \in Id, dialogue'[<<n, p, i>>] # None
             PROVE  i <= seq'[<<n, p>>]
  BY DEF HandedOut
<1>1. seq[<<n, p>>] \in Nat /\ seq'[<<n, p>>] \in Nat /\ i \in Nat
  BY DEF TypeOK, Id
<1>2. CASE Kept(dialogue[<<n, p, i>>], dialogue'[<<n, p, i>>])
  <2>1. i <= seq[<<n, p>>]
    BY <1>2 DEF HandedOut, Kept
  <2> QED
    BY <1>1, <2>1, SeqGrowsOrEmpty
<1>3. CASE seq'[<<n, p>>] = i
  BY <1>1, <1>3
<1>4. Kept(dialogue[<<n, p, i>>], dialogue'[<<n, p, i>>]) \/ seq'[<<n, p>>] = i
  <2> DEFINE e == dialogue'[<<n, p, i>>]
  <2>1. \/ Kept(dialogue[<<n, p, i>>], e)
        \/ /\ i = seq[<<n, p>>] + 1 /\ seq'[<<n, p>>] = i
           /\ Send(n, p, e.content) /\ e.initiator /\ e.fresh /\ ~e.reached
        \/ /\ i = seq[<<n, p>>] + 1 /\ seq'[<<n, p>>] = i
           /\ UNCHANGED sent /\ ~e.initiator
    BY RecordChange
  <2> HIDE DEF e
  <2> QED
    BY <2>1 DEF e
<1> QED
  BY <1>2, <1>3, <1>4

LEMMA InvariantHandedOut == Spec => [](TypeOK /\ RegisteredIsAwaited /\ HandedOut)
<1>1. Init => TypeOK /\ RegisteredIsAwaited /\ HandedOut
  BY InitTypeOK, InitRegistered DEF Init, HandedOut, Key
<1>2. TypeOK /\ RegisteredIsAwaited /\ HandedOut /\ [Next]_vars
        => (TypeOK /\ RegisteredIsAwaited /\ HandedOut)'
  BY NextTypeOK, NextRegistered, NextHandedOut
<1> QED
  BY <1>1, <1>2, PTL DEF Spec

\* Whatever the goroutines that are still under way do, a record that was
\* deleted, burnt or flushed does not come back.
THEOREM DeletedStaysDeleted == Spec => NothingResurrected
<1>1. ASSUME TypeOK, [Next]_vars
      PROVE  \A n, p \in Node, i \in Id :
                dialogue[<<n, p, i>>] = None /\ dialogue'[<<n, p, i>>] # None =>
                    /\ seq'[<<n, p>>] = i
                    /\ seq[<<n, p>>] = i - 1
  <2> SUFFICES ASSUME NEW n \in Node, NEW p \in Node, NEW i \in Id,
                      dialogue[<<n, p, i>>] = None, dialogue'[<<n, p, i>>] # None
               PROVE  seq'[<<n, p>>] = i /\ seq[<<n, p>>] = i - 1
    OBVIOUS
  <2>1. i = seq[<<n, p>>] + 1 /\ seq'[<<n, p>>] = i
    BY <1>1, RecordChange DEF Kept
  <2> QED
    BY <1>1, <2>1 DEF TypeOK
<1>2. Spec => []TypeOK
  BY TypeCorrect, PTL
<1> QED
  BY <1>1, <1>2, PTL DEF Spec, NothingResurrected

\* A record never becomes another message and never loses its reached mark.
THEOREM RecordsStayWhatTheyAre == Spec => RecordsAreStable
<1>1. ASSUME TypeOK, HandedOut, [Next]_vars
      PROVE  \A n, p \in Node, i \in Id :
                dialogue[<<n, p, i>>] # None /\ dialogue'[<<n, p, i>>] # None =>
                    /\ dialogue'[<<n, p, i>>].content = dialogue[<<n, p, i>>].content
                    /\ dialogue'[<<n, p, i>>].initiator = dialogue[<<n, p, i>>].initiator
                    /\ dialogue[<<n, p, i>>].reached => dialogue'[<<n, p, i>>].reached
  <2> SUFFICES ASSUME NEW n \in Node, NEW p \in Node, NEW i \in Id,
                      dialogue[<<n, p, i>>] # None, dialogue'[<<n, p, i>>] # None
               PROVE  Kept(dialogue[<<n, p, i>>], dialogue'[<<n, p, i>>])
    BY DEF Kept
  <2>1. i # seq[<<n, p>>] + 1
    <3>1. i <= seq[<<n, p>>] /\ seq[<<n, p>>] \in Nat /\ i \in Nat
      BY <1>1 DEF HandedOut, TypeOK, Id
    <3> QED
      BY <3>1
  <2> QED
    BY <1>1, <2>1, RecordChange
<1> QED
  BY <1>1, InvariantHandedOut, PTL DEF Spec, RecordsAreStable

\* A received image is recorded only with a whole file, whoever else writes or
\* removes files of that name.
THEOREM ReceivedImagesAreWhole == Spec => ReceivedIsWhole
<1>1. ASSUME TypeOK, [Next]_vars
      PROVE  \A n, p \in Node, i \in Id :
                LET m == dialogue'[<<n, p, i>>] IN
                dialogue[<<n, p, i>>] = None /\ m # None /\ ~m.initiator /\ m.content \in Image =>
                    <<n, m.content>> \in files'
  <2> SUFFICES ASSUME NEW n \in Node, NEW p \in Node, NEW i \in Id,
                      dialogue[<<n, p, i>>] = None, dialogue'[<<n, p, i>>] # None,
                      ~dialogue'[<<n, p, i>>].initiator,
                      dialogue'[<<n, p, i>>].content \in Image
               PROVE  <<n, dialogue'[<<n, p, i>>].content>> \in files'
    OBVIOUS
  <2> QED
    BY <1>1, RecordChange DEF Kept
<1>2. Spec => []TypeOK
  BY TypeCorrect, PTL
<1> QED
  BY <1>1, <1>2, PTL DEF Spec, ReceivedIsWhole
=============================================================================
