---------------------------- MODULE MCSupervisor ----------------------------
(***************************************************************************)
(* Two calls of Init and any number of calls of Close, overlapping.        *)
(***************************************************************************)
EXTENDS Supervisor

InitWorlds == {{"config"}, {"config", "fail"}}
=============================================================================
