-------------------------- MODULE MCSessionRecovery -------------------------
(* SessionRecovery for TLC: each worker process has a holder id of its own.  *)
EXTENDS SessionRecovery

CONSTANTS c1, r1, hc, hr

MCHolderOf == (c1 :> hc @@ r1 :> hr)
ReaperOnlyHolderOf == (r1 :> hr)
=============================================================================
