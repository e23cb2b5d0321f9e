------------------------- MODULE MessagingAgreement -------------------------
(***************************************************************************)
(* As long as nobody flushes a dialogue, every part of the state that      *)
(* names a message agrees on what it is, and a message young enough to be  *)
(* sent is never given up: AgreementInv and AgeInv are inductive.          *)
(***************************************************************************)
EXTENDS MessagingProofs

(* The histories grow *)

LEMMA SentGrows ==
  ASSUME [Next]_vars
  PROVE  sent \subseteq sent'
<1>1. ASSUME NEW n, NEW p, NEW c, Send(n, p, c) PROVE sent \subseteq sent'
  BY <1>1 DEF Send
<1> QED
  BY <1>1, SentChange

LEMMA GotGrows ==
  ASSUME [Next]_vars
  PROVE  got \subseteq got'
  BY GotChange DEF Store

LEMMA SubmittedStays ==
  ASSUME [Next]_vars, NEW n \in Node, NEW p \in Node, NEW i \in Id
  PROVE  /\ Submitted(n, p, i) => Submitted(n, p, i)'
         /\ Stored(n, p, i) => Stored(n, p, i)'
  BY SentGrows, GotGrows DEF Submitted, Stored

\* A message that Send adds has the next id of its dialogue.
LEMMA SentNew ==
  ASSUME TypeOK, [Next]_vars, NEW t \in sent'
  PROVE  \/ t \in sent
         \/ /\ <<t[1], t[2], t[4]>> \in Talk
            /\ t[1] \in Node /\ t[2] \in Node /\ t[4] \in Content
            /\ t = <<t[1], t[2], t[3], t[4]>>
            /\ t[3] = seq[<<t[1], t[2]>>] + 1
            /\ seq'[<<t[1], t[2]>>] = t[3]
            /\ sent' = sent \cup {t}
<1>1. CASE UNCHANGED sent
  BY <1>1
<1>2. ASSUME NEW n \in Node, NEW p \in Node, NEW c \in Content, Send(n, p, c), t \notin sent
      PROVE  /\ <<t[1], t[2], t[4]>> \in Talk
             /\ t[1] \in Node /\ t[2] \in Node /\ t[4] \in Content
             /\ t = <<t[1], t[2], t[3], t[4]>>
             /\ t[3] = seq[<<t[1], t[2]>>] + 1
             /\ seq'[<<t[1], t[2]>>] = t[3]
             /\ sent' = sent \cup {t}
  <2>1. t = <<n, p, seq[<<n, p>>] + 1, c>>
    BY <1>2 DEF Send
  <2>2. seq'[<<n, p>>] = seq[<<n, p>>] + 1
    BY <1>2 DEF Send, TypeOK
  <2> QED
    BY <1>2, <2>1, <2>2 DEF Send
<1> QED
  BY <1>1, <1>2, SentChange

\* The state of a message already under an id the bucket handed out is not
\* touched by a new message.
LEMMA SubmittedAsBefore ==
  ASSUME TypeOK, [Next]_vars, NEW n \in Node, NEW p \in Node, NEW i \in Id,
         i <= seq[<<n, p>>]
  PROVE  /\ Submitted(n, p, i)' => Submitted(n, p, i)
         /\ \A c \in Content : <<n, p, i, c>> \in sent' => <<n, p, i, c>> \in sent
<1>1. ASSUME NEW c \in Content, <<n, p, i, c>> \in sent'
      PROVE  <<n, p, i, c>> \in sent
  <2>1. seq[<<n, p>>] \in Nat /\ i \in Nat
    BY DEF TypeOK, Id
  <2>2. CASE <<n, p, i, c>> \notin sent
    <3>1. i = seq[<<n, p>>] + 1
      BY <1>1, <2>2, SentNew
    <3> QED
      BY <2>1, <3>1
  <2> QED
    BY <2>2
<1> QED
  BY <1>1 DEF Submitted

-----------------------------------------------------------------------------
(* Each conjunct is preserved *)

LEMMA SentNext ==
  ASSUME TypeOK, TypeOK', SentOK, [Next]_vars, "flush" \notin Ops
  PROVE  SentOK'
<1>1. ASSUME NEW t \in sent
      PROVE  /\ <<t[1], t[2], t[4]>> \in Talk
             /\ t[3] \in Nat /\ seq[<<t[1], t[2]>>] \in Nat
             /\ t[3] <= seq[<<t[1], t[2]>>]
             /\ t[3] <= seq'[<<t[1], t[2]>>]
  <2>1. t[1] \in Node /\ t[2] \in Node /\ t[3] \in Nat
    BY DEF TypeOK, Id
  <2>2. t[3] <= seq[<<t[1], t[2]>>] /\ <<t[1], t[2], t[4]>> \in Talk
    BY DEF SentOK
  <2>3. seq[<<t[1], t[2]>>] <= seq'[<<t[1], t[2]>>]
    BY <2>1, SeqGrows
  <2>4. seq[<<t[1], t[2]>>] \in Nat /\ seq'[<<t[1], t[2]>>] \in Nat
    BY <2>1 DEF TypeOK
  <2> QED
    BY <2>1, <2>2, <2>3, <2>4
<1>2. ASSUME NEW t \in sent', t \notin sent
      PROVE  /\ <<t[1], t[2], t[4]>> \in Talk
             /\ t[3] \in Nat
             /\ t[3] = seq[<<t[1], t[2]>>] + 1
             /\ t[3] = seq'[<<t[1], t[2]>>]
             /\ sent' = sent \cup {t}
  <2>1. t[3] \in Nat
    BY DEF TypeOK, Id
  <2> QED
    BY <1>2, <2>1, SentNew
<1>3. ASSUME NEW t \in sent'
      PROVE  <<t[1], t[2], t[4]>> \in Talk /\ t[3] <= seq'[<<t[1], t[2]>>]
  <2>1. CASE t \in sent
    BY <1>1, <2>1
  <2>2. CASE t \notin sent
    <3>1. t[3] \in Nat /\ t[3] = seq'[<<t[1], t[2]>>] /\ <<t[1], t[2], t[4]>> \in Talk
      BY <1>2, <2>2
    <3> QED
      BY <3>1
  <2> QED
    BY <2>1, <2>2
<1>4. ASSUME NEW t \in sent', NEW u \in sent', t[1] = u[1], t[2] = u[2], t[3] = u[3]
      PROVE  t[4] = u[4]
  <2>1. CASE t \in sent /\ u \in sent
    BY <1>4, <2>1 DEF SentOK
  <2>2. CASE t \in sent /\ u \notin sent
    <3>1. t[3] <= seq[<<t[1], t[2]>>] /\ t[3] = seq[<<t[1], t[2]>>] + 1
      <4>1. t[3] <= seq[<<t[1], t[2]>>]
        BY <1>1, <2>2
      <4>2. u[3] = seq[<<u[1], u[2]>>] + 1
        BY <1>2, <2>2
      <4> QED
        BY <1>4, <4>1, <4>2
    <3>2. t[3] \in Nat /\ seq[<<t[1], t[2]>>] \in Nat
      BY <1>1, <2>2
    <3> QED
      BY <3>1, <3>2
  <2>3. CASE t \notin sent /\ u \in sent
    <3>1. u[3] <= seq[<<u[1], u[2]>>] /\ u[3] = seq[<<u[1], u[2]>>] + 1
      <4>1. u[3] <= seq[<<u[1], u[2]>>]
        BY <1>1, <2>3
      <4>2. t[3] = seq[<<t[1], t[2]>>] + 1
        BY <1>2, <2>3
      <4> QED
        BY <1>4, <4>1, <4>2
    <3>2. u[3] \in Nat /\ seq[<<u[1], u[2]>>] \in Nat
      BY <1>1, <2>3
    <3> QED
      BY <3>1, <3>2
  <2>4. CASE t \notin sent /\ u \notin sent
    <3>1. sent' = sent \cup {t}
      BY <1>2, <2>4
    <3> QED
      BY <2>4, <3>1
  <2> QED
    BY <2>1, <2>2, <2>3, <2>4
<1> QED
  BY <1>3, <1>4 DEF SentOK

LEMMA DialogueNext ==
  ASSUME TypeOK, TypeOK', SentOK, DialogueOK, [Next]_vars, "flush" \notin Ops
  PROVE  DialogueOK'
<1> SUFFICES ASSUME NEW n \in Node, NEW p \in Node, NEW i \in Id, dialogue'[<<n, p, i>>] # None
             PROVE  /\ i <= seq'[<<n, p>>]
                    /\ dialogue'[<<n, p, i>>].initiator <=> Submitted(n, p, i)'
                    /\ Submitted(n, p, i)' =>
                          <<n, p, i, dialogue'[<<n, p, i>>].content>> \in sent'
  BY DEF DialogueOK
<1> DEFINE d == dialogue[<<n, p, i>>]
           e == dialogue'[<<n, p, i>>]
<1>1. seq[<<n, p>>] \in Nat /\ seq'[<<n, p>>] \in Nat /\ seq[<<n, p>>] <= seq'[<<n, p>>] /\ i \in Nat
  BY SeqGrows DEF TypeOK, Id
<1>2. CASE Kept(d, e)
  <2>1. /\ i <= seq[<<n, p>>]
        /\ d.initiator <=> Submitted(n, p, i)
        /\ Submitted(n, p, i) => <<n, p, i, d.content>> \in sent
    BY <1>2 DEF Kept, DialogueOK
  <2>2. Submitted(n, p, i)' <=> Submitted(n, p, i)
    BY <2>1, SubmittedAsBefore, SubmittedStays
  <2>3. e.initiator = d.initiator /\ e.content = d.content
    BY <1>2 DEF Kept
  <2> QED
    BY <1>1, <2>1, <2>2, <2>3, SentGrows
<1>3. CASE /\ i = seq[<<n, p>>] + 1 /\ seq'[<<n, p>>] = i
           /\ Send(n, p, e.content) /\ e.initiator /\ e.fresh /\ ~e.reached
  <2>1. <<n, p, i, e.content>> \in sent' /\ e.content \in Content
    <3>1. e \in Message
      BY DEF TypeOK, Key
    <3> QED
      BY <1>3, <3>1 DEF Send, Message
  <2> QED
    BY <1>1, <1>3, <2>1 DEF Submitted
<1>4. CASE /\ i = seq[<<n, p>>] + 1 /\ seq'[<<n, p>>] = i
           /\ UNCHANGED sent /\ ~e.initiator
  <2>1. ~Submitted(n, p, i)
    <3>1. ASSUME NEW c \in Content, <<n, p, i, c>> \in sent PROVE FALSE
      <4>1. i <= seq[<<n, p>>]
        BY <3>1 DEF SentOK
      <4> QED
        BY <1>1, <1>4, <4>1
    <3> QED
      BY <3>1 DEF Submitted
  <2>2. ~Submitted(n, p, i)'
    BY <1>4, <2>1 DEF Submitted
  <2> QED
    BY <1>1, <1>4, <2>2
<1>5. \/ Kept(d, e)
      \/ /\ i = seq[<<n, p>>] + 1 /\ seq'[<<n, p>>] = i
         /\ Send(n, p, e.content) /\ e.initiator /\ e.fresh /\ ~e.reached
      \/ /\ i = seq[<<n, p>>] + 1 /\ seq'[<<n, p>>] = i
         /\ UNCHANGED sent /\ ~e.initiator
  BY RecordChange
<1> QED
  BY <1>2, <1>3, <1>4, <1>5

LEMMA PendingNext ==
  ASSUME TypeOK, PendingOK, [Next]_vars
  PROVE  PendingOK'
<1> SUFFICES ASSUME NEW n \in Node, NEW p \in Node, NEW i \in Id, <<n, p, i>> \in pending'
             PROVE  Submitted(n, p, i)'
  BY DEF PendingOK
<1>1. CASE <<n, p, i>> \in pending
  BY <1>1, SubmittedStays DEF PendingOK
<1>2. ASSUME NEW c \in Content, Send(n, p, c), i = seq[<<n, p>>] + 1
      PROVE  Submitted(n, p, i)'
  BY <1>2 DEF Send, Submitted
<1> QED
  BY <1>1, <1>2, PendingChange

LEMMA SnapshotNext ==
  ASSUME TypeOK, TypeOK', SentOK, DialogueOK, PendingOK, SnapshotOK, [Next]_vars, "flush" \notin Ops
  PROVE  SnapshotOK'
<1> SUFFICES ASSUME NEW m \in snapshot'
             PROVE  <<m.from, m.to, m.id, m.content>> \in sent'
  BY DEF SnapshotOK
<1>1. m.from \in Node /\ m.to \in Node /\ m.id \in Id
  BY DEF TypeOK, Snapshot
<1>2. CASE m \in snapshot
  BY <1>2, SentGrows DEF SnapshotOK
<1>3. CASE Reads(m, dialogue, pending)
  <2>1. <<m.from, m.to, m.id, m.content>> \in sent
    BY <1>1, <1>3 DEF Reads, PendingOK, DialogueOK
  <2> QED
    BY <2>1, SentGrows
<1>4. CASE Reads(m, dialogue', pending')
  <2>1. DialogueOK' /\ PendingOK'
    BY DialogueNext, PendingNext
  <2> QED
    BY <1>1, <1>4, <2>1 DEF Reads, PendingOK, DialogueOK
<1> QED
  BY <1>2, <1>3, <1>4, SnapshotChange

LEMMA WorkerNext ==
  ASSUME TypeOK, RegisteredIsAwaited, SnapshotOK, WorkerOK, [Next]_vars
  PROVE  WorkerOK'
<1> SUFFICES ASSUME NEW n \in Node, NEW p \in Node, NEW i \in Id, worker'[<<n, p, i>>] # None
             PROVE  <<n, p, i, worker'[<<n, p, i>>].content>> \in sent'
  BY DEF WorkerOK
<1> DEFINE w == worker[<<n, p, i>>]
           v == worker'[<<n, p, i>>]
<1> SUFFICES <<n, p, i, v.content>> \in sent
  BY SentGrows
<1>1. CASE v = w
  BY <1>1 DEF WorkerOK
<1>2. ASSUME NEW m \in snapshot, m.from = n, m.to = p, m.id = i, v = Started(m)
      PROVE  <<n, p, i, v.content>> \in sent
  BY <1>2 DEF SnapshotOK, Started
<1>3. ASSUME w # None, v.content = w.content
      PROVE  <<n, p, i, v.content>> \in sent
  BY <1>3 DEF WorkerOK
<1>4. w # None => w \in Worker
  BY DEF TypeOK, Key
<1>5. ASSUME NEW a \in responses, w # None, v = Taking(a), Taker(a) = p, a.to = n, a.id = i
      PROVE  v.content = w.content
  BY <1>4, <1>5 DEF Taking, Worker
<1>6. ASSUME w # None, v = Resumed(w)
      PROVE  v.content = w.content
  BY <1>4, <1>6 DEF Resumed, Worker
<1> QED
  BY <1>1, <1>2, <1>3, <1>5, <1>6, WorkerChange

LEMMA RequestNext ==
  ASSUME TypeOK, RegisteredIsAwaited, SnapshotOK, WorkerOK, RequestOK, [Next]_vars
  PROVE  RequestOK'
<1> SUFFICES ASSUME NEW r \in requests'
             PROVE  \E c \in Content : /\ <<r.from, r.to, r.id, c>> \in sent'
                                       /\ r.proto = ProtoOf(c)
                                       /\ r.content = None \/ Carries(r.content, c)
  BY DEF RequestOK
<1>1. CASE r \in requests
  BY <1>1, SentGrows DEF RequestOK
<1>2. ASSUME NEW n, NEW p, NEW i, NEW stage, NEW c \in Content, NEW d,
             <<n, p, i, c>> \in sent, Carries(d, c), r = RequestOf(n, p, i, stage, d)
      PROVE  /\ <<r.from, r.to, r.id, c>> \in sent'
             /\ r.proto = ProtoOf(c)
             /\ r.content = None \/ Carries(r.content, c)
  BY <1>2, SentGrows, PayloadAssumption DEF RequestOf, Carries, ProtoOf
<1>3. ASSUME NEW m \in snapshot, r = RequestOf(m.from, m.to, m.id, FirstStage(m), m.content)
      PROVE  \E c \in Content : /\ <<r.from, r.to, r.id, c>> \in sent'
                                /\ r.proto = ProtoOf(c)
                                /\ r.content = None \/ Carries(r.content, c)
  <2>1. m.content \in Content /\ <<m.from, m.to, m.id, m.content>> \in sent
    BY DEF TypeOK, Snapshot, SnapshotOK
  <2>2. Carries(m.content, m.content)
    BY DEF Carries
  <2> QED
    BY <1>2, <1>3, <2>1, <2>2
<1>4. ASSUME NEW n \in Node, NEW p \in Node, NEW i \in Id, SendBytes(n, p, i),
             r = RequestOf(n, p, i, "ReqSyncBytes", Read(n, worker[<<n, p, i>>].content))
      PROVE  \E c \in Content : /\ <<r.from, r.to, r.id, c>> \in sent'
                                /\ r.proto = ProtoOf(c)
                                /\ r.content = None \/ Carries(r.content, c)
  <2>1. /\ worker[<<n, p, i>>].content \in Content
        /\ <<n, p, i, worker[<<n, p, i>>].content>> \in sent
    BY <1>4, SendBytesEffect DEF WorkerOK, Content
  <2>2. Carries(Read(n, worker[<<n, p, i>>].content), worker[<<n, p, i>>].content)
    BY <1>4, SendBytesEffect, ReadType DEF Carries
  <2> QED
    BY <1>2, <1>4, <2>1, <2>2
<1> QED
  BY <1>1, <1>3, <1>4, RequestsChange

\* A stored payload is the one its sender gave the id to, or both are images.
LEMMA StoresSent ==
  ASSUME TypeOK, RequestOK, NEW r \in requests, r.kind # "ReqExistence"
  PROVE  /\ \E c \in Content : <<r.from, r.to, r.id, c>> \in sent /\ Carries(r.content, c)
         /\ r.proto = ProtoOf(r.content)
         /\ r.content \in Content
<1>1. r.content \in Content
  BY DEF TypeOK, Request, Carried, Content
<1>2. r.content # None
  BY <1>1, NoneAssumption
<1>3. PICK c \in Content : /\ <<r.from, r.to, r.id, c>> \in sent
                            /\ r.proto = ProtoOf(c)
                            /\ Carries(r.content, c)
  BY <1>2 DEF RequestOK
<1>4. ProtoOf(c) = ProtoOf(r.content)
  BY <1>3, PayloadAssumption DEF Carries, ProtoOf
<1> QED
  BY <1>1, <1>3, <1>4

LEMMA GotNext ==
  ASSUME TypeOK, RequestOK, GotOK, [Next]_vars
  PROVE  GotOK'
<1>1. CASE UNCHANGED got
  BY <1>1, SentGrows DEF GotOK
<1>2. ASSUME NEW r \in requests, Store(r), r.kind # "ReqExistence"
      PROVE  GotOK'
  <2>1. got' = got \cup {<<r.from, r.to, r.id, r.content>>}
    BY <1>2 DEF Store
  <2>2. \E c \in Content : <<r.from, r.to, r.id, c>> \in sent' /\ Carries(r.content, c)
    BY <1>2, StoresSent, SentGrows
  <2> QED
    BY <2>1, <2>2, SentGrows DEF GotOK
<1> QED
  BY <1>1, <1>2, GotChange

LEMMA ReceivedNext ==
  ASSUME TypeOK, RequestOK, ReceivedOK, [Next]_vars
  PROVE  ReceivedOK'
<1> SUFFICES ASSUME NEW n \in Node, NEW p \in Node, NEW i \in Id, <<p, n, i>> \in received'
             PROVE  Stored(n, p, i)'
  BY DEF ReceivedOK
<1>1. CASE <<p, n, i>> \in received
  BY <1>1, SubmittedStays DEF ReceivedOK
<1>2. ASSUME NEW r \in requests, Store(r), r.kind # "ReqExistence", <<p, n, i>> \notin received
      PROVE  Stored(n, p, i)'
  <2>1. r.to = p /\ r.from = n /\ r.id = i
    BY <1>2 DEF Store
  <2>2. <<n, p, i, r.content>> \in got' /\ r.content \in Content
    BY <1>2, <2>1, StoresSent DEF Store
  <2> QED
    BY <2>2 DEF Stored
<1> QED
  BY <1>1, <1>2, GotChange

LEMMA ResponseNext ==
  ASSUME TypeOK, RequestOK, ResponseOK, ReceivedOK, [Next]_vars
  PROVE  ResponseOK'
<1> SUFFICES ASSUME NEW a \in responses'
             PROVE  /\ \E c \in Content : <<a.to, a.from, a.id, c>> \in sent' /\ a.proto = ProtoOf(c)
                    /\ a.ok => Stored(a.to, a.from, a.id)'
                    /\ ~a.ok /\ a.proto = "text" => a.kind = "RespExistence"
  BY DEF ResponseOK
<1>1. CASE a \in responses
  <2>1. a.to \in Node /\ a.from \in Node /\ a.id \in Id
    BY <1>1 DEF TypeOK, Response
  <2> QED
    BY <1>1, <2>1, SentGrows, SubmittedStays DEF ResponseOK
<1>2. ASSUME NEW r \in requests, Answers(r, a)
      PROVE  /\ \E c \in Content : <<a.to, a.from, a.id, c>> \in sent' /\ a.proto = ProtoOf(c)
             /\ a.ok => Stored(a.to, a.from, a.id)'
             /\ ~a.ok /\ a.proto = "text" => a.kind = "RespExistence"
  <2>1. /\ a.from = r.to /\ a.to = r.from /\ a.id = r.id /\ a.proto = r.proto
        /\ r.to \in Node /\ r.from \in Node /\ r.id \in Id
    BY <1>2 DEF Answers, TypeOK, Request
  <2>2. \E c \in Content : <<a.to, a.from, a.id, c>> \in sent' /\ a.proto = ProtoOf(c)
    BY <2>1, SentGrows DEF RequestOK
  <2>3. a.ok => Stored(a.to, a.from, a.id)'
    <3>1. CASE Store(r) /\ r.kind # "ReqExistence"
      <4>1. <<r.from, r.to, r.id, r.content>> \in got' /\ r.content \in Content
        BY <3>1, StoresSent DEF Store
      <4> QED
        BY <2>1, <4>1 DEF Stored
    <3>2. CASE <<r.to, r.from, r.id>> \in received
      BY <2>1, <3>2, SubmittedStays DEF ReceivedOK
    <3> QED
      BY <1>2, <3>1, <3>2 DEF Answers
  <2>4. ~a.ok /\ a.proto = "text" => a.kind = "RespExistence"
    <3>1. CASE r.kind = "ReqSyncHash"
      <4>1. r.content \in Image
        BY <3>1 DEF TypeOK, Request, Carried
      <4>2. r.proto = "image"
        BY <3>1, <4>1, StoresSent, PayloadAssumption DEF ProtoOf
      <4> QED
        BY <2>1, <4>2
    <3> QED
      BY <1>2, <3>1 DEF Answers
  <2> QED
    BY <2>2, <2>3, <2>4
<1> QED
  BY <1>1, <1>2, ResponsesChange

\* The arrived event is emitted by the transaction of a goroutine.
LEMMA ArrivedChange ==
  ASSUME [Next]_vars, NEW n \in Node, NEW p \in Node, NEW i \in Id, <<n, p, i>> \in arrived'
  PROVE  LET w == worker[<<n, p, i>>] IN
         \/ <<n, p, i>> \in arrived
         \/ Commit(n, p, i) /\ (w.mode = "send" \/ w.reached)
<1> USE DEF history
<1>1. CASE UNCHANGED arrived
  BY <1>1
<1>2. CASE WorkerStep
  <2>1. ASSUME NEW m \in Node, NEW q \in Node, NEW j \in Id, Commit(m, q, j),
               <<n, p, i>> \notin arrived
        PROVE  m = n /\ q = p /\ j = i /\ (worker[<<m, q, j>>].mode = "send" \/ worker[<<m, q, j>>].reached)
    BY <2>1 DEF Commit
  <2> QED
    BY <1>1, <1>2, <2>1 DEF WorkerStep, SendBytes, SendBytesError, Panic, Timeout
<1> QED
  BY <1>1, <1>2, UserFrame, SnapshotFrame, RequestFrame, ResponseFrame, EnvironmentFrame
  DEF Next, vars

LEMMA ArrivedNext ==
  ASSUME TypeOK, WorkerOK, ArrivedOK, [Next]_vars
  PROVE  ArrivedOK'
<1> SUFFICES ASSUME NEW n \in Node, NEW p \in Node, NEW i \in Id, <<n, p, i>> \in arrived'
             PROVE  Submitted(n, p, i)'
  BY DEF ArrivedOK
<1>1. CASE <<n, p, i>> \in arrived
  BY <1>1, SubmittedStays DEF ArrivedOK
<1>2. CASE Commit(n, p, i)
  <2>1. worker[<<n, p, i>>] # None /\ worker[<<n, p, i>>] \in Worker
    BY <1>2 DEF Commit, Answered, TypeOK, Key
  <2>2. Submitted(n, p, i)
    BY <2>1 DEF WorkerOK, Submitted, Worker
  <2> QED
    BY <2>2, SubmittedStays
<1> QED
  BY <1>1, <1>2, ArrivedChange

-----------------------------------------------------------------------------
LEMMA InitAgreement == Init => AgreementInv
  BY InitRegistered
  DEF Init, AgreementInv, SentOK, DialogueOK, PendingOK, SnapshotOK, WorkerOK, RequestOK,
      ResponseOK, ReceivedOK, GotOK, ArrivedOK, Key

LEMMA NextAgreement ==
  ASSUME TypeOK, TypeOK', AgreementInv, [Next]_vars, "flush" \notin Ops
  PROVE  AgreementInv'
<1> USE DEF AgreementInv
<1>1. SentOK' /\ DialogueOK' /\ PendingOK' /\ SnapshotOK'
  BY SentNext, DialogueNext, PendingNext, SnapshotNext
<1>2. WorkerOK' /\ RequestOK'
  BY WorkerNext, RequestNext
<1>3. ResponseOK' /\ ReceivedOK' /\ GotOK' /\ ArrivedOK'
  BY ResponseNext, ReceivedNext, GotNext, ArrivedNext
<1>4. RegisteredIsAwaited'
  BY NextRegistered
<1> QED
  BY <1>1, <1>2, <1>3, <1>4

\* Whatever is lost, late, deleted, burnt or restarted: a record the sender
\* calls its own is one it sent, a request carries what its id was given to,
\* and the answer yes is given only for what was stored.
THEOREM Agreement ==
  ASSUME "flush" \notin Ops
  PROVE  Spec => [](TypeOK /\ AgreementInv)
<1>1. Init => TypeOK /\ AgreementInv
  BY InitTypeOK, InitAgreement
<1>2. TypeOK /\ AgreementInv /\ [Next]_vars => (TypeOK /\ AgreementInv)'
  <2> SUFFICES ASSUME TypeOK, AgreementInv, [Next]_vars PROVE TypeOK' /\ AgreementInv'
    OBVIOUS
  <2>1. TypeOK'
    BY NextTypeOK DEF AgreementInv
  <2> QED
    BY <2>1, NextAgreement
<1> QED
  BY <1>1, <1>2, PTL DEF Spec

-----------------------------------------------------------------------------
(* How checks come into being *)

LEMMA AskedChange ==
  ASSUME [Next]_vars, NEW n \in Node, NEW p \in Node, NEW i \in Id, Asked(n, p, i)'
  PROVE  \/ Asked(n, p, i)
         \/ \E m \in snapshot : /\ Launch(m) /\ m.mode = "check"
                                /\ m.from = n /\ m.to = p /\ m.id = i
<1>1. PICK r \in requests' : r.kind = "ReqExistence" /\ r.from = n /\ r.to = p /\ r.id = i
  BY DEF Asked
<1>2. CASE r \in requests
  BY <1>1, <1>2 DEF Asked
<1>3. ASSUME NEW m \in snapshot, Launch(m),
             r = RequestOf(m.from, m.to, m.id, FirstStage(m), m.content)
      PROVE  m.mode = "check" /\ m.from = n /\ m.to = p /\ m.id = i
  BY <1>1, <1>3 DEF RequestOf, FirstStage
<1>4. ASSUME NEW m \in Node, NEW q \in Node, NEW j \in Id,
             r = RequestOf(m, q, j, "ReqSyncBytes", Read(m, worker[<<m, q, j>>].content))
      PROVE  FALSE
  BY <1>1, <1>4 DEF RequestOf
<1> QED
  BY <1>2, <1>3, <1>4, RequestsChange

LEMMA ToldChange ==
  ASSUME [Next]_vars, NEW n \in Node, NEW p \in Node, NEW i \in Id, Told(n, p, i)'
  PROVE  \/ Told(n, p, i)
         \/ \E r \in requests : /\ Consume(r) /\ r.kind = "ReqExistence"
                                /\ r.from = n /\ r.to = p /\ r.id = i
<1>1. PICK a \in responses' : a.kind = "RespExistence" /\ a.to = n /\ a.from = p /\ a.id = i
  BY DEF Told
<1>2. CASE a \in responses
  BY <1>1, <1>2 DEF Told
<1>3. ASSUME NEW r \in requests, Consume(r), Answers(r, a)
      PROVE  Consume(r) /\ r.kind = "ReqExistence" /\ r.from = n /\ r.to = p /\ r.id = i
  BY <1>1, <1>3 DEF Answers
<1> QED
  BY <1>2, <1>3, ResponsesChange

\* Once there is a check of a message, it is because AsyncSend read it as old.
LEMMA CheckedChange ==
  ASSUME TypeOK, RegisteredIsAwaited, [Next]_vars,
         NEW n \in Node, NEW p \in Node, NEW i \in Id, Checked(n, p, i)'
  PROVE  \/ Checked(n, p, i)
         \/ /\ <<n, p, i>> \in pending /\ dialogue[<<n, p, i>>] # None
            /\ ~dialogue[<<n, p, i>>].fresh
         \/ /\ dialogue'[<<n, p, i>>] # None
            /\ ~dialogue'[<<n, p, i>>].fresh
<1>1. CASE Asked(n, p, i)'
  BY <1>1, AskedChange DEF Checked, Reading
<1>2. CASE Told(n, p, i)'
  BY <1>2, ToldChange DEF Checked, Asked
<1>3. CASE Reading(n, p, i, "check")'
  <2>1. PICK m \in snapshot' : m.from = n /\ m.to = p /\ m.id = i /\ m.mode = "check"
    BY <1>3 DEF Reading
  <2>2. CASE m \in snapshot
    BY <2>1, <2>2 DEF Checked, Reading
  <2>3. CASE Reads(m, dialogue, pending)
    BY <2>1, <2>3 DEF Reads
  <2>4. CASE Reads(m, dialogue', pending')
    BY <2>1, <2>4 DEF Reads
  <2> QED
    BY <2>2, <2>3, <2>4, SnapshotChange
<1>4. CASE Working(n, p, i, "check")'
  <2> DEFINE w == worker[<<n, p, i>>]
             v == worker'[<<n, p, i>>]
  <2>1. v # None /\ v.mode = "check" /\ (w # None => w \in Worker)
    BY <1>4 DEF Working, TypeOK, Key
  <2>2. CASE v = w
    BY <2>1, <2>2 DEF Checked, Working
  <2>3. ASSUME NEW m \in snapshot, m.from = n, m.to = p, m.id = i, v = Started(m)
        PROVE  Checked(n, p, i)
    BY <2>1, <2>3 DEF Checked, Reading, Started
  <2>4. ASSUME NEW a \in responses, w # None, v = Taking(a), Taker(a) = p, a.to = n, a.id = i
        PROVE  Checked(n, p, i)
    BY <2>1, <2>4 DEF Checked, Working, Taking, Worker
  <2>5. ASSUME w # None, v = Resumed(w)
        PROVE  Checked(n, p, i)
    BY <2>1, <2>5 DEF Checked, Working, Resumed, Worker
  <2> HIDE DEF w, v
  <2>6. \/ v = w
        \/ \E m \in snapshot : m.from = n /\ m.to = p /\ m.id = i /\ v = Started(m)
        \/ w # None /\ \E a \in responses : a.to = n /\ a.id = i /\ v = Taking(a) /\ Taker(a) = p
        \/ w # None /\ v = Resumed(w)
    BY <2>1, WorkerChange DEF w, v
  <2> QED
    BY <2>2, <2>3, <2>4, <2>5, <2>6
<1> QED
  BY <1>1, <1>2, <1>3, <1>4 DEF Checked

LEMMA CheckedIsSubmitted ==
  ASSUME TypeOK, AgreementInv, NEW n \in Node, NEW p \in Node, NEW i \in Id, Checked(n, p, i)
  PROVE  Submitted(n, p, i)
<1>1. CASE Reading(n, p, i, "check")
  BY <1>1 DEF Reading, AgreementInv, SnapshotOK, Submitted, TypeOK, Snapshot
<1>2. CASE Working(n, p, i, "check")
  BY <1>2 DEF Working, AgreementInv, WorkerOK, Submitted, TypeOK, Worker, Key
<1>3. CASE Asked(n, p, i)
  BY <1>3 DEF Asked, AgreementInv, RequestOK, Submitted
<1>4. CASE Told(n, p, i)
  BY <1>4 DEF Told, AgreementInv, ResponseOK, Submitted
<1> QED
  BY <1>1, <1>2, <1>3, <1>4 DEF Checked

\* An id that was handed out is not given to another record.
LEMMA SubmittedId ==
  ASSUME TypeOK, SentOK, NEW n \in Node, NEW p \in Node, NEW i \in Id, Submitted(n, p, i)
  PROVE  i # seq[<<n, p>>] + 1
<1>1. seq[<<n, p>>] \in Nat /\ i \in Nat
  BY DEF TypeOK, Id
<1>2. i <= seq[<<n, p>>]
  BY DEF Submitted, SentOK
<1> QED
  BY <1>1, <1>2

LEMMA OldStays ==
  ASSUME TypeOK, AgreementInv, [Next]_vars, NEW n \in Node, NEW p \in Node, NEW i \in Id,
         Submitted(n, p, i), Old(n, p, i)
  PROVE  Old(n, p, i)'
<1> SUFFICES ASSUME dialogue'[<<n, p, i>>] # None PROVE ~dialogue'[<<n, p, i>>].fresh
  BY DEF Old
<1>1. i # seq[<<n, p>>] + 1
  BY SubmittedId DEF AgreementInv
<1>2. Kept(dialogue[<<n, p, i>>], dialogue'[<<n, p, i>>])
  BY <1>1, RecordChange
<1> QED
  BY <1>2 DEF Old, Kept

-----------------------------------------------------------------------------
(* A message young enough to be sent is never given up *)

LEMMA PendingLoss ==
  ASSUME [Next]_vars, NEW n \in Node, NEW p \in Node, NEW i \in Id,
         <<n, p, i>> \in pending, <<n, p, i>> \notin pending'
  PROVE  Commit(n, p, i) \/ Destroy(n, p, i)
<1> USE DEF stores, images, local, net, history
<1>1. CASE UserStep
  <2>1. ASSUME NEW m \in Node, NEW q \in Node, NEW c \in Content, Send(m, q, c)
        PROVE  <<n, p, i>> \in pending'
    BY <2>1 DEF Send
  <2> QED
    BY <1>1, <2>1, UserCases
    DEF AsyncSend, DelMessages, FlushMessages
<1>2. CASE WorkerStep
  <2>1. ASSUME NEW m \in Node, NEW q \in Node, NEW j \in Id, Commit(m, q, j)
        PROVE  Commit(n, p, i)
    <3>1. <<m, q, j>> = <<n, p, i>>
      BY <2>1 DEF Commit
    <3>2. m = n /\ q = p /\ j = i
      BY <3>1
    <3> QED
      BY <2>1, <3>2
  <2> QED
    BY <1>2, <2>1 DEF WorkerStep, SendBytes, SendBytesError, Panic, Timeout
<1>3. CASE EnvironmentStep
  <2>1. ASSUME NEW m \in Node, NEW q \in Node, NEW j \in Id, Destroy(m, q, j)
        PROVE  Destroy(n, p, i)
    <3>1. <<m, q, j>> = <<n, p, i>>
      BY <2>1 DEF Destroy
    <3>2. m = n /\ q = p /\ j = i
      BY <3>1
    <3> QED
      BY <2>1, <3>2
  <2> QED
    BY <1>3, <2>1 DEF EnvironmentStep, Age, Restart
<1> QED
  BY <1>1, <1>2, <1>3, SnapshotFrame, RequestFrame, ResponseFrame DEF Next, vars

LEMMA NextAge ==
  ASSUME TypeOK, TypeOK', AgreementInv, AgeInv, [Next]_vars
  PROVE  AgeInv'
<1>1. ASSUME NEW n \in Node, NEW p \in Node, NEW i \in Id, Checked(n, p, i)'
      PROVE  Old(n, p, i)'
  <2>1. CASE Checked(n, p, i)
    BY <2>1, CheckedIsSubmitted, OldStays DEF AgeInv
  <2>2. CASE /\ <<n, p, i>> \in pending /\ dialogue[<<n, p, i>>] # None
             /\ ~dialogue[<<n, p, i>>].fresh
    BY <2>2, OldStays DEF AgreementInv, PendingOK, Old
  <2>3. CASE ~dialogue'[<<n, p, i>>].fresh
    BY <2>3 DEF Old
  <2> QED
    BY <1>1, <2>1, <2>2, <2>3, CheckedChange DEF AgreementInv
<1>2. ASSUME NEW n \in Node, NEW p \in Node, NEW i \in Id, Own(n, p, i)',
             dialogue'[<<n, p, i>>].fresh, ~dialogue'[<<n, p, i>>].reached
      PROVE  <<n, p, i>> \in pending'
  <2> DEFINE d == dialogue[<<n, p, i>>]
             e == dialogue'[<<n, p, i>>]
             w == worker[<<n, p, i>>]
  <2>1. CASE Kept(d, e)
    <3>1. /\ d # None /\ d.initiator /\ d.fresh /\ ~d.reached
          /\ <<n, p, i>> \in pending
      BY <1>2, <2>1 DEF AgeInv, FreshStaysPending, Own, Kept
    <3>2. ~Destroy(n, p, i)
      BY <1>2 DEF Own, Destroy, TypeOK, Key
    <3>3. ASSUME Commit(n, p, i)
          PROVE  FALSE
      <4>1. w \in Worker /\ w # None
        BY <3>3 DEF Commit, Answered, TypeOK, Key
      <4>2. w.mode = "check"
        BY <1>2, <3>1, <3>3, <4>1 DEF Commit, TypeOK, Key, Worker, Mode, Message
      <4> QED
        BY <3>1, <4>1, <4>2 DEF AgeInv, Checked, Working, Old
    <3> QED
      BY <3>1, <3>2, <3>3, PendingLoss
  <2>2. CASE i = seq[<<n, p>>] + 1 /\ Send(n, p, e.content)
    BY <2>2 DEF Send
  <2>3. CASE ~e.initiator
    BY <1>2, <2>3 DEF Own
  <2> QED
    BY <1>2, <2>1, <2>2, <2>3, RecordChange DEF Own
<1> QED
  BY <1>1, <1>2 DEF AgeInv, FreshStaysPending

LEMMA InitAge == Init => AgeInv
  BY DEF Init, AgeInv, FreshStaysPending, Own, Old, Key

\* Whatever is lost, late, deleted, burnt or restarted, a message that is not
\* yet older than MessageSendingPeriod stays in the pending bucket until it is
\* confirmed: only the answer to a check gives it up, and no check of it is
\* under way before it is old.
THEOREM NothingYoungGivenUp ==
  ASSUME "flush" \notin Ops
  PROVE  Spec => []FreshStaysPending
<1>1. Init => TypeOK /\ AgreementInv /\ AgeInv
  BY InitTypeOK, InitAgreement, InitAge
<1>2. TypeOK /\ AgreementInv /\ AgeInv /\ [Next]_vars => (TypeOK /\ AgreementInv /\ AgeInv)'
  <2> SUFFICES ASSUME TypeOK, AgreementInv, AgeInv, [Next]_vars
               PROVE  TypeOK' /\ AgreementInv' /\ AgeInv'
    OBVIOUS
  <2>1. TypeOK'
    BY NextTypeOK DEF AgreementInv
  <2> QED
    BY <2>1, NextAgreement, NextAge
<1>3. AgeInv => FreshStaysPending
  BY DEF AgeInv
<1> QED
  BY <1>1, <1>2, <1>3, PTL DEF Spec
=============================================================================
