----------------------------- MODULE OneOutcome -----------------------------
(***************************************************************************)
(* What every durable request of a user promises, whatever worker serves   *)
(* it.  While no two processes run at once, an accepted request is answered *)
(* or refused, once and for all, and the announcements it owes are recorded *)
(* in that same step and never again.  Once processes have overlapped, one *)
(* outcome may replace the other, announced as well; what has an outcome is *)
(* never open again, and nothing announced is taken back.  Profile updates, *)
(* inbox questions and exports implement it.                               *)
(***************************************************************************)
CONSTANTS Requests,
          AnswerNotices,   \* [Requests -> set of announcements an answer owes]
          RefusalNotices   \* the same for a refusal

VARIABLES outcome,  \* [Requests -> "none" | "open" | "answered" | "refused"]
          notices,  \* [Requests -> announcements recorded]
          alone     \* whether no two processes have run at once

vars == <<outcome, notices, alone>>

Init == /\ outcome = [r \in Requests |-> "none"]
        /\ notices = [r \in Requests |-> {}]
        /\ alone = TRUE

Accept(r) == /\ outcome[r] = "none"
             /\ outcome' = [outcome EXCEPT ![r] = "open"]
             /\ UNCHANGED <<notices, alone>>

Decide(r, new, owed) == /\ outcome' = [outcome EXCEPT ![r] = new]
                        /\ notices' = [notices EXCEPT ![r] = @ \cup owed[r]]
                        /\ UNCHANGED alone

Answer(r) == outcome[r] = "open" /\ notices[r] = {} /\ Decide(r, "answered", AnswerNotices)
Refuse(r) == outcome[r] = "open" /\ notices[r] = {} /\ Decide(r, "refused", RefusalNotices)

(* Only for processes that overlap: a late commit of the other outcome.     *)
Amend(r) == /\ ~alone
            /\ \/ outcome[r] = "answered" /\ Decide(r, "refused", RefusalNotices)
               \/ outcome[r] = "refused" /\ Decide(r, "answered", AnswerNotices)

Overlap == alone' = FALSE /\ UNCHANGED <<outcome, notices>>

Next == (\E r \in Requests : Accept(r) \/ Answer(r) \/ Refuse(r) \/ Amend(r)) \/ Overlap

(* A request that is open does not stay open.                               *)
Spec == /\ Init /\ [][Next]_vars
        /\ \A r \in Requests : WF_vars(Answer(r) \/ Refuse(r))
=============================================================================
