----------------------------- MODULE MCStreams -----------------------------
(***************************************************************************)
(* Two nodes that write to each other, and a goroutine that tells of       *)
(* direct connections at the node with the smaller id.                     *)
(***************************************************************************)
EXTENDS StreamsProofs

CONSTANTS alice, bob, notifee

TwoUsers == {alice, bob, notifee}
TwoHomes == [u \in TwoUsers |-> IF u = bob THEN 2 ELSE 1]
TwoPeers == [u \in TwoUsers |-> IF u = bob THEN 1 ELSE 2]

\* Sizes at the bounds of the forms of a header; the last one takes two chunks.
TwoFrames ==
    [u \in TwoUsers |->
        CASE u = alice -> {[flag |-> 2, size |-> 16]}
          [] u = bob -> {[flag |-> 1, size |-> 4094]}
          [] OTHER -> {}]

TwoWorlds ==
    {{"timeout", "refuse"}, {"break"}, {"idle"}, {"timeout", "reorder"}, {"direct"}}
=============================================================================
