------------------------------ MODULE MCOutbox ------------------------------
(* A small outbox: one Item's result and failure notice, and a video button *)
(* that competes with them for the one worker.                              *)
EXTENDS Outbox

CONSTANTS result, failure, video

MCKeys == {result, failure, video}
MCKind == [k \in MCKeys |-> CASE k = result -> "READY"
                              [] k = failure -> "FAILURE"
                              [] k = video -> "VIDEO"]
MCMaxResults == [k \in MCKeys |-> IF k = failure THEN 1 ELSE 2]
=============================================================================
