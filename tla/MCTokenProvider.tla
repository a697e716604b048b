--------------------------- MODULE MCTokenProvider ---------------------------
(* Values of TokenProvider's constants for TLC.                            *)
EXTENDS TokenProvider, TLC
=============================================================================
