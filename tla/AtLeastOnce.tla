---------------------------- MODULE AtLeastOnce ----------------------------
(***************************************************************************)
(* What the durable outbox promises (docs/DECISIONS.md, D-011: "the        *)
(* semantics is at-least-once"), with no worker, no attempts and no crash: *)
(* an announcement falls due, Telegram may accept it any number of times,  *)
(* it is settled as done only after Telegram accepted it at least once     *)
(* since it fell due, and otherwise it can only be dropped.                *)
(***************************************************************************)
CONSTANT Keys

VARIABLES phase,    \* [Keys -> "none" | "due" | "done" | "dropped"]
          accepted  \* [Keys -> BOOLEAN]: accepted since it last fell due

vars == <<phase, accepted>>

Init == /\ phase = [k \in Keys |-> "none"]
        /\ accepted = [k \in Keys |-> FALSE]

(* An announcement falls due: first time, or again after it was settled.   *)
FallDue(k) == /\ phase[k] # "due"
              /\ phase' = [phase EXCEPT ![k] = "due"]
              /\ accepted' = [accepted EXCEPT ![k] = FALSE]

Accept(k) == /\ phase[k] = "due"
             /\ accepted' = [accepted EXCEPT ![k] = TRUE]
             /\ UNCHANGED phase

Done(k) == /\ phase[k] = "due"
           /\ accepted[k]
           /\ phase' = [phase EXCEPT ![k] = "done"]
           /\ accepted' = [accepted EXCEPT ![k] = FALSE]

(* Cancelled by the business transaction, or given up by the worker.       *)
Drop(k) == /\ phase[k] = "due"
           /\ phase' = [phase EXCEPT ![k] = "dropped"]
           /\ accepted' = [accepted EXCEPT ![k] = FALSE]

Next == \E k \in Keys : FallDue(k) \/ Accept(k) \/ Done(k) \/ Drop(k)

Spec == Init /\ [][Next]_vars
=============================================================================
