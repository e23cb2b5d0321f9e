----------------------------- MODULE ClientLife -----------------------------
(***************************************************************************)
(* What the users of SDK.getClient see: a client that starts, is perhaps   *)
(* ready some time (its OK channel is closed), ends, and is replaced by a  *)
(* new one.  Supervisor implements it; Session takes it for granted.       *)
(***************************************************************************)

VARIABLE
    phase       \* none, starting, ready, ended

Init == phase = "none"

\* A client is put in place of whatever was there.
Replace == phase' = "starting"

Ready == phase = "starting" /\ phase' = "ready"

End == phase \in {"starting", "ready"} /\ phase' = "ended"

Spec == Init /\ [][Replace \/ Ready \/ End]_phase
=============================================================================
