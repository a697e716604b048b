----------------------------- MODULE MCRetries -----------------------------
(* The calls of the instances: two that read, one that changes something.  *)
EXTENDS Retries

CONSTANTS read, another, write
=============================================================================
