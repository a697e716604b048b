--------------------------- MODULE MCVerifiedFile ---------------------------
(* Values of VerifiedFile's constants for TLC: every method may be called. *)
EXTENDS VerifiedFile

CONSTANTS write, r1, r2, r3, blue, red

MCFileOf ==
  [r \in Revisions |-> CASE r = r1 -> red [] r = r2 -> blue [] OTHER -> None]
MCStatuses == {200, 403, 404, 409, 503}

(* Only what a reader is given matters.                                    *)
MCAnswers ==
  [m \in Methods |->
     CASE m[3] = "inspect"   -> {[id |-> r, file |-> MCFileOf[r]] : r \in Revisions}
       [] m[3] = "read_file" -> {red, blue}
       [] OTHER              -> {None}]
=============================================================================
