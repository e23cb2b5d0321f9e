----------------------------- MODULE MCPeerSave -----------------------------
(***************************************************************************)
(* The receive loop and the probe save two peers, Run saves the node.      *)
(***************************************************************************)
EXTENDS PeerSave, TLC

CONSTANTS loop, probe, run, me, bob, carol

\* The receive loop and the probe both save either peer.
AllSaves == {<<run, me>>, <<loop, bob>>, <<loop, carol>>, <<probe, bob>>, <<probe, carol>>}
\* Neither the two goroutines nor the two peers differ.
Alike == Permutations({loop, probe}) \cup Permutations({bob, carol})
\* One peer that both write to and probe.
BobSaves == {<<run, me>>, <<loop, bob>>, <<probe, bob>>}
=============================================================================
