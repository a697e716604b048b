---------------------------- MODULE MutationOnce ----------------------------
(***************************************************************************)
(* What a client promises about a request that changes something on the    *)
(* service: it takes effect at most once, and what the caller is told is   *)
(* true and stays true. "unknown" covers every answer that leaves it open   *)
(* (a failed connection, a timeout, a cancellation, a 5xx status); the      *)
(* request may then still take effect afterwards.                           *)
(***************************************************************************)
EXTENDS Naturals

CONSTANT Calls            \* the calls that change something

VARIABLES
  outcome,                \* what the caller has been told of each call
  effects                 \* how often each call has taken effect

vars == <<outcome, effects>>

Outcomes == {"pending", "done", "refused", "unknown"}

Init ==
  /\ outcome = [c \in Calls |-> "pending"]
  /\ effects = [c \in Calls |-> 0]

(* The call takes effect, for the first time and not after a refusal.      *)
TakeEffect(c) ==
  /\ effects[c] = 0
  /\ outcome[c] \in {"pending", "unknown"}
  /\ effects' = [effects EXCEPT ![c] = 1]
  /\ UNCHANGED outcome

(* The caller learns the outcome.                                          *)
Report(c, o) ==
  /\ outcome[c] = "pending"
  /\ o = "done" => effects[c] = 1
  /\ o = "refused" => effects[c] = 0
  /\ outcome' = [outcome EXCEPT ![c] = o]
  /\ UNCHANGED effects

Next ==
  \E c \in Calls :
    \/ TakeEffect(c)
    \/ \E o \in Outcomes \ {"pending"} : Report(c, o)

Spec == Init /\ [][Next]_vars
=============================================================================
