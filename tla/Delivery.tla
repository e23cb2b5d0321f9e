------------------------------ MODULE Delivery ------------------------------
(***************************************************************************)
(* What the message service promises about text messages, without workers, *)
(* packets or retries: a message is confirmed to its sender, and the       *)
(* arrived event is emitted for it, only after its peer stored it.         *)
(*                                                                         *)
(* A message is <<sender, receiver, id, payload>>.                         *)
(***************************************************************************)
EXTENDS Naturals

CONSTANTS Node, Payload, Id

VARIABLES
    submitted,  \* messages the sender's dialogue took
    stored,     \* messages the receiver's dialogue took
    confirmed,  \* messages the sender's dialogue shows as reached
    notified    \* messages whose arrived event was emitted

vars == <<submitted, stored, confirmed, notified>>

Letter == Node \X Node \X Id \X Payload

Init ==
    /\ submitted = {}
    /\ stored = {}
    /\ confirmed = {}
    /\ notified = {}

\* An id names one message of a dialogue.
Submit(t) ==
    /\ \A u \in submitted : <<u[1], u[2], u[3]>> # <<t[1], t[2], t[3]>>
    /\ submitted' = submitted \cup {t}
    /\ UNCHANGED <<stored, confirmed, notified>>

Store(t) ==
    /\ t \in submitted
    /\ stored' = stored \cup {t}
    /\ UNCHANGED <<submitted, confirmed, notified>>

\* The sender learns that the message was stored: its record shows it, unless
\* the record is gone, and the event may be emitted.
Confirm(t) ==
    /\ t \in stored
    /\ confirmed' \in {confirmed, confirmed \cup {t}}
    /\ notified' \in {notified, notified \cup {t}}
    /\ UNCHANGED <<submitted, stored>>

\* Records are deleted or burnt.
Forget(ts) ==
    /\ confirmed' = confirmed \ ts
    /\ UNCHANGED <<submitted, stored, notified>>

Next ==
    \/ \E t \in Letter : Submit(t) \/ Store(t) \/ Confirm(t)
    \/ \E ts \in SUBSET Letter : Forget(ts)

Spec == Init /\ [][Next]_vars
=============================================================================
