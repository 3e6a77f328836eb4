-------------------------- MODULE SessionOwnership --------------------------
(***************************************************************************)
(* What a durable store promises about who may write a session.            *)
(*                                                                         *)
(* Every grant of a session gets a generation of its own.  While a grant   *)
(* is live nobody else is granted the session and nobody writes without a  *)
(* grant; a lapsed grant never becomes live again; and a write made under  *)
(* a grant is only ever made under the newest one.  There is no clock,     *)
(* lock, fence number or transaction here: those are how SessionLease      *)
(* keeps the promise.                                                      *)
(***************************************************************************)
EXTENDS Naturals

CONSTANT Session

VARIABLES
    owner,    \* owner[s]: generation of the newest grant, 0 if there is none
    live,     \* live[s]: that grant has not lapsed
    issued,   \* the number of generations issued so far
    written   \* written[s]: generation of the last write made under a grant

vars == <<owner, live, issued, written>>

Init ==
    /\ owner = [s \in Session |-> 0]
    /\ live = [s \in Session |-> FALSE]
    /\ issued = 0
    /\ written = [s \in Session |-> 0]

\* A session nobody holds is granted under a fresh generation.
Grant(s) ==
    /\ ~live[s]
    /\ issued' = issued + 1
    /\ owner' = [owner EXCEPT ![s] = issued']
    /\ live' = [live EXCEPT ![s] = TRUE]
    /\ UNCHANGED written

\* Grants lapse: one is released, or time passes over any number of them.
Lapse ==
    /\ \E S \in SUBSET Session : live' = [s \in Session |-> live[s] /\ s \notin S]
    /\ UNCHANGED <<owner, issued, written>>

\* A write under a grant, which is the newest one (it may just have lapsed).
Write(s) ==
    /\ owner[s] # 0
    /\ written' = [written EXCEPT ![s] = owner[s]]
    /\ UNCHANGED <<owner, live, issued>>

\* The session and every trace of its grants are deleted.  A later grant still
\* gets a generation that was never used.
Forget(s) ==
    /\ owner' = [owner EXCEPT ![s] = 0]
    /\ live' = [live EXCEPT ![s] = FALSE]
    /\ UNCHANGED <<issued, written>>

Next ==
    \/ Lapse
    \/ \E s \in Session : Grant(s) \/ Write(s) \/ Forget(s)

Spec == Init /\ [][Next]_vars
=============================================================================
