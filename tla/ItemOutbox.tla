----------------------------- MODULE ItemOutbox -----------------------------
(***************************************************************************)
(* The pipeline and the outbox together, as the one process runs them: the *)
(* transaction that makes an Item READY or FAILED records the announcement *)
(* of it, Retry cancels the notice of the failure it leaves behind, and    *)
(* the DeliveryWorker reads the Item again before it sends.                *)
(***************************************************************************)
EXTENDS ItemPipeline

CONSTANTS TelegramItems,  \* Items with a Telegram chat to answer in
          MaxAttempts

VARIABLES row, rowId, attempts, wanted, opened, shown, dw

outbox == <<row, rowId, attempts, wanted, opened, shown, dw>>
allVars == <<vars, outbox>>

Key(i, type) == <<i, type>>
ItemKeys == Items \X {"READY", "FAILURE"}

O == INSTANCE Outbox WITH
        Keys <- ItemKeys,
        Kind <- [k \in ItemKeys |-> k[2]],
        MaxResults <- [k \in ItemKeys |-> 2 * (MaxRetries[k[1]] + 1)]

InitBoth == Init /\ O!Init

-----------------------------------------------------------------------------
(* wants_telegram_item_delivery: HTTP clients poll instead.                 *)
Announce(i, type) == IF i \in TelegramItems THEN O!EnqueueItemDelivery(Key(i, type))
                                            ELSE UNCHANGED outbox

(* Fault: the result is committed without the intent to announce it.        *)
PublishSilently(w) == Publish(w) /\ UNCHANGED outbox

PublishResult(w) == Publish(w) /\ Announce(wk[w].item, "READY")

AnnounceFailure(w) == MarkFailed(w) /\ Announce(wk[w].item, "FAILURE")

RetryAndCancel == RetryWon /\ O!CancelFailure(Key(tap.item, "FAILURE"))

(* Only a notice whose Item is still FAILED is sent; a result is sent from  *)
(* the Item as it is, and past the analysis that is the next result.        *)
NextResult(i) == IF item[i].stage \in {"TOPIC_CLASSIFYING", "PRIORITIZING"} THEN 1 ELSE 0

ReadItem ==
    LET i == dw.key[1]
        ahead == IF dw.key[2] = "READY" THEN NextResult(i) ELSE 0
    IN /\ O!ReadSnapshot(item[i].status # "FAILED", wanted[dw.key] + ahead)
       /\ UNCHANGED vars

Deliver == \/ (\E k \in ItemKeys : O!Claim(k)) /\ UNCHANGED vars
           \/ ReadItem
           \/ (O!Telegram \/ O!RereadRow \/ O!Settle) /\ UNCHANGED vars

ProcessOne(w) == \/ /\ \/ \E i \in Items : Claim(w, i)
                       \/ Advance(w)
                       \/ Return(w)
                       \/ Interrupt(w)
                    /\ UNCHANGED outbox
                 \/ PublishResult(w)
                 \/ AnnounceFailure(w)

UserActs == \/ /\ \/ \E i \in Items : Ingest(i) \/ IngestRejectedMedia(i) \/ RetryRead(i)
                  \/ RetryLost
               /\ UNCHANGED outbox
            \/ RetryAndCancel

Restart == CrashRestart /\ O!CrashRestart

NextBoth == \/ UserActs
            \/ \E w \in Workers : ProcessOne(w)
            \/ Deliver
            \/ Restart

FairnessBoth == /\ \A w \in Workers : WF_allVars(ProcessOne(w))
                /\ WF_allVars(Deliver)

SpecBoth == InitBoth /\ [][NextBoth]_allVars
FairSpecBoth == SpecBoth /\ FairnessBoth

-----------------------------------------------------------------------------
(* Properties                                                              *)

(* The row the worker has to settle, and the text it will have sent.        *)
Row(i, type) == row[Key(i, type)]
Due == {"PENDING", "SENDING"}

(* D-011: Retry withdraws the notice of the failure it leaves behind.  What *)
(* can survive is a notice whose sending had begun before: its attempt,     *)
(* when it fails, may put the row back.  That attempt is counted, unless a  *)
(* second failure reopened the row meanwhile and a second Retry withdrew    *)
(* it: the late verdict then brings it back with its count at zero.  (Not   *)
(* after a deadline that struck a durable READY, `late`.)                   *)
RetryWithdrawsNotice ==
    \A i \in Items :
       Row(i, "FAILURE") \in Due /\ item[i].status # "FAILED" /\ ~history[i].late
          => attempts[Key(i, "FAILURE")] > 0 \/ history[i].retries > 1

(* A failure is settled in silence only if the user did retry: the check of *)
(* the Item before sending never swallows a notice of its own accord.       *)
NoticeNotSwallowed ==
    \A i \in Items :
       Row(i, "FAILURE") = "SENT" /\ shown[Key(i, "FAILURE")] < wanted[Key(i, "FAILURE")]
          => history[i].retries > 0

(* The first result of an Item reaches the user, or Telegram has refused it *)
(* MaxAttempts times - whatever process deaths come between the READY       *)
(* commit and the message, and whatever a Retry does meanwhile.             *)
ResultReachesUser ==
    \A i \in TelegramItems :
       item[i].status = "READY" ~> shown[Key(i, "READY")] > 0 \/ Row(i, "READY") = "FAILED"

(* A failed run is announced, unless the user moves first.  (An Item that   *)
(* was born FAILED has its answer from the handler that ingested it.  After *)
(* a Retry a second failure can be lost: the withdrawn notice of the first, *)
(* put back by its failed attempt, is dropped as obsolete while the second  *)
(* failure finds the row SENDING and leaves it alone.)                      *)
BornFailed(i) == item[i].stage = "INGESTED" /\ Failures(i) # {}

FailureReachesUser ==
    \A i \in TelegramItems :
       item[i].status = "FAILED" /\ ~BornFailed(i) /\ history[i].retries = 0
          ~> \/ shown[Key(i, "FAILURE")] > 0
             \/ Row(i, "FAILURE") = "FAILED"
             \/ item[i].status # "FAILED"

-----------------------------------------------------------------------------
(* What the repository says and the code does not do: "the same durable     *)
(* delivery key then publishes the newly synthesized result once instead of *)
(* suppressing it as a replay" (ProcessingPipeline.run).                    *)
NewResultIsPublished ==
    \A i \in Items :
       Row(i, "READY") = "SENT" /\ ~history[i].late =>
          shown[Key(i, "READY")] >= wanted[Key(i, "READY")]
=============================================================================
