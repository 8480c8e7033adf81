----------------------------- MODULE OneSource -----------------------------
(***************************************************************************)
(* What the pipeline may rely on about the sources of its Items, whatever  *)
(* they are: a source is READY only with content that is durable, content  *)
(* once durable is not fetched again, a failure for good is for good, and  *)
(* only a Retry opens a source again - one that failed, or a post of which *)
(* more may be had.  ItemPipeline keeps to it, and so does the extraction  *)
(* of transcripts and of posts, piece by piece.                            *)
(***************************************************************************)
CONSTANT Sources

VARIABLE row  \* [Sources -> [state, saved, holes]]; holes is "whole" until saved

Holes == {"whole", "recheck", "retryable", "lost"}
Fresh == [state |-> "PENDING", saved |-> FALSE, holes |-> "whole"]

Init == row = [x \in Sources |-> Fresh]

Save(x) == /\ row[x] = Fresh
           /\ \E h \in Holes : row'[x] = [Fresh EXCEPT !.saved = TRUE, !.holes = h]

MarkReady(x) == /\ row[x].state = "PENDING" /\ row[x].saved
                /\ row'[x] = [row[x] EXCEPT !.state = "READY"]

(* Content and READY in one commit, where nothing comes between.            *)
SaveReady(x) == /\ row[x] = Fresh
                /\ row'[x] = [Fresh EXCEPT !.state = "READY", !.saved = TRUE]

Fail(x) == /\ row[x] = Fresh
           /\ \E s \in {"FAILED", "DEAD"} : row'[x] = [Fresh EXCEPT !.state = s]

Reopen(x) == /\ \/ row[x].state = "FAILED"
                \/ row[x].state = "READY" /\ row[x].holes \in {"recheck", "retryable"}
             /\ row'[x] = Fresh

Stay(x) == row'[x] = row[x]

Next == \A x \in Sources : \/ Stay(x)
                           \/ Save(x) \/ MarkReady(x) \/ SaveReady(x) \/ Fail(x) \/ Reopen(x)

Spec == Init /\ [][Next]_row
=============================================================================
