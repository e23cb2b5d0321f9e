----------------------------- MODULE MCSession -----------------------------
(***************************************************************************)
(* Two sessions, two clients, Close.                                       *)
(***************************************************************************)
EXTENDS Session

CONSTANTS off, direct

AllWorlds == {{}, {"fail", "overlap"}}
=============================================================================
