---------------------------- MODULE MCAuthStore ----------------------------
(* Values of AuthStore's constants for TLC.                                 *)
EXTENDS AuthStore, TLC

CONSTANTS i1

MCFirstIssuer == [r \in Resources |-> i1]
Interchangeable == Permutations(Procs)
==============================================================================
