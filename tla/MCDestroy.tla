----------------------------- MODULE MCDestroy -----------------------------
(***************************************************************************)
(* One dialogue with messages that live for ever, a short or a long time.  *)
(***************************************************************************)
EXTENDS Destroy

CONSTANT p

=============================================================================
