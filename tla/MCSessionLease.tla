--------------------------- MODULE MCSessionLease ---------------------------
(* SessionLease for TLC: one session contended by two runtime processes.    *)
EXTENDS SessionLease, TLC

CONSTANTS h1, h2

HolderSymmetry == Permutations({h1, h2})
=============================================================================
