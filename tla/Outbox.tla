------------------------------- MODULE Outbox -------------------------------
(***************************************************************************)
(* The durable Telegram outbox: rows of the `deliveries` table, the one    *)
(* DeliveryWorker that drains them, and startup recovery                   *)
(* (app/services/delivery.py).  Every action is one database transaction   *)
(* or one Telegram call; between two of them other coroutines run and the  *)
(* process may die.                                                        *)
(*                                                                         *)
(* A business transaction asks for an announcement of a RESULT; results of *)
(* a key are numbered.  `wanted` and `shown` are what an outside observer  *)
(* sees: the newest result the business asked to announce, and the newest  *)
(* one Telegram accepted.  `opened` is the result for which the row last   *)
(* became PENDING from nothing or from a terminal status.                  *)
(***************************************************************************)
EXTENDS Naturals, FiniteSets

CONSTANTS Keys,         \* delivery keys: (item or job, delivery type)
          Kind,         \* [Keys -> Kinds]
          MaxAttempts,  \* DeliveryWorker.max_attempts
          MaxResults,   \* bound: [Keys -> Nat], results asked for
          MaxCrashes,   \* bound: process deaths
          Nil

Kinds == {"READY",    \* ITEM_READY: reopened by every new READY result
          "FAILURE",  \* ITEM_FAILED: the same, and cancelled by Retry
          "VIDEO",    \* ITEM_VIDEO:<source>: asked for by a button
          "JOB"}      \* PROFILE_UPDATED, ASK_*, EXPORT_*: once per job

ASSUME OutboxAssumption == /\ IsFiniteSet(Keys)
                           /\ Kind \in [Keys -> Kinds]
                           /\ MaxAttempts \in Nat \ {0}
                           /\ MaxResults \in [Keys -> Nat]
                           /\ MaxCrashes \in Nat
                           /\ Nil \notin Keys

Terminal == {"SENT", "FAILED", "CANCELLED"}
Statuses == {"NONE", "PENDING", "SENDING"} \cup Terminal

VARIABLES row,       \* [Keys -> Statuses]; "NONE" is "no such row"
          rowId,     \* [Keys -> Nat]: insertion order, 0 without a row
          attempts,  \* [Keys -> Nat]
          wanted, opened, shown,  \* [Keys -> Nat], see above
          dw,        \* the worker: where it is, and what it holds in memory
          crashes

rows == <<row, rowId, attempts, wanted, opened>>
vars == <<row, rowId, attempts, wanted, opened, shown, dw, crashes>>

IdleWorker == [pc |-> "idle", key |-> Nil, result |-> 0, permanent |-> FALSE,
               verdict |-> "NONE"]

Init == /\ row = [k \in Keys |-> "NONE"]
        /\ rowId = [k \in Keys |-> 0]
        /\ attempts = [k \in Keys |-> 0]
        /\ wanted = [k \in Keys |-> 0]
        /\ opened = [k \in Keys |-> 0]
        /\ shown = [k \in Keys |-> 0]
        /\ dw = IdleWorker
        /\ crashes = 0

-----------------------------------------------------------------------------
(* The intents, recorded inside the caller's business transaction.         *)

NextId == Cardinality({k \in Keys : row[k] # "NONE"}) + 1

Insert(k) == /\ row' = [row EXCEPT ![k] = "PENDING"]
             /\ rowId' = [rowId EXCEPT ![k] = NextId]
             /\ opened' = [opened EXCEPT ![k] = wanted[k] + 1]
             /\ UNCHANGED attempts

Reopen(k) == /\ row' = [row EXCEPT ![k] = "PENDING"]
             /\ attempts' = [attempts EXCEPT ![k] = 0]
             /\ opened' = [opened EXCEPT ![k] = wanted[k] + 1]
             /\ UNCHANGED rowId

(* Fault: a row that is being sent is reopened like a settled one.           *)
EnqueueReopensInFlight(k) ==
    /\ wanted' = [wanted EXCEPT ![k] = @ + 1]
    /\ \/ row[k] = "NONE" /\ Insert(k)
       \/ row[k] \in Terminal \cup {"SENDING"} /\ Reopen(k)
       \/ row[k] = "PENDING" /\ UNCHANGED <<row, rowId, attempts, opened>>
    /\ UNCHANGED <<shown, dw, crashes>>

(* enqueue_item_delivery(reopen=True): an existing row that is PENDING or   *)
(* SENDING is returned as it is.                                           *)
EnqueueItemDelivery(k) ==
    /\ wanted' = [wanted EXCEPT ![k] = @ + 1]
    /\ \/ row[k] = "NONE" /\ Insert(k)
       \/ row[k] \in Terminal /\ Reopen(k)
       \/ row[k] \in {"PENDING", "SENDING"} /\ UNCHANGED <<row, rowId, attempts, opened>>
    /\ UNCHANGED <<shown, dw, crashes>>

(* Who may ask.  A video request that is in progress is refused            *)
(* (enqueue_item_video_delivery_in_session); enqueue_profile/ask/export     *)
(* write one row per job and never reopen it; results are always accepted.  *)
MayAsk(k) ==
    /\ Kind[k] = "VIDEO" => row[k] \notin {"PENDING", "SENDING"}
    /\ Kind[k] = "JOB" => row[k] = "NONE"

(* Fault: only a notice that is being sent is cancelled.                     *)
CancelOnlySending(k) ==
    /\ row' = [row EXCEPT ![k] = IF @ = "SENDING" THEN "CANCELLED" ELSE @]
    /\ UNCHANGED <<rowId, attempts, wanted, opened, shown, dw, crashes>>

(* The Retry transaction cancels a failure notice that is not terminal.     *)
CancelFailure(k) ==
    /\ row' = [row EXCEPT ![k] = IF @ \in {"PENDING", "SENDING"} THEN "CANCELLED" ELSE @]
    /\ UNCHANGED <<rowId, attempts, wanted, opened, shown, dw, crashes>>

-----------------------------------------------------------------------------
(* DeliveryWorker.process_one                                              *)

Oldest(k) == \A other \in Keys : row[other] = "PENDING" => rowId[k] <= rowId[other]

(* Fault: the attempt is not counted.                                       *)
ClaimUncounted(k) ==
    /\ dw.pc = "idle"
    /\ row[k] = "PENDING"
    /\ Oldest(k)
    /\ row' = [row EXCEPT ![k] = "SENDING"]
    /\ dw' = [dw EXCEPT !.pc = "claimed", !.key = k]
    /\ UNCHANGED <<rowId, attempts, wanted, opened, shown, crashes>>

(* Fault: the id that the claim returns is not kept.                        *)
ClaimForgotten(k) ==
    /\ dw.pc = "idle"
    /\ row[k] = "PENDING"
    /\ Oldest(k)
    /\ row' = [row EXCEPT ![k] = "SENDING"]
    /\ attempts' = [attempts EXCEPT ![k] = @ + 1]
    /\ dw' = [dw EXCEPT !.pc = "claimed"]
    /\ UNCHANGED <<rowId, wanted, opened, shown, crashes>>

(* claim_next: the oldest PENDING row.  created_at survives a reopen.       *)
Claim(k) ==
    /\ dw.pc = "idle"
    /\ row[k] = "PENDING"
    /\ Oldest(k)
    /\ row' = [row EXCEPT ![k] = "SENDING"]
    /\ attempts' = [attempts EXCEPT ![k] = @ + 1]
    /\ dw' = [dw EXCEPT !.pc = "claimed", !.key = k]
    /\ UNCHANGED <<rowId, wanted, opened, shown, crashes>>

(* _send loads the row and the Item, and then talks to Telegram from that   *)
(* snapshot.  A failure notice for an Item that is not FAILED any more      *)
(* (`obsolete`) is dropped on the floor and treated as sent.  A result is    *)
(* rendered from the Item as it is: the one that was asked for last, or     *)
(* (ItemOutbox) one that is about to be.                                   *)
ReadSnapshot(obsolete, result) ==
    /\ dw.pc = "claimed"
    /\ dw' = [dw EXCEPT !.pc = IF Kind[dw.key] = "FAILURE" /\ obsolete THEN "sent"
                                                                       ELSE "sending",
                        !.result = result]
    /\ UNCHANGED <<rows, shown, crashes>>

Newer(a, b) == IF a > b THEN a ELSE b

(* The Telegram call.  It may raise although Telegram accepted the message  *)
(* (a lost reply); only media sends classify an error as permanent.         *)
Transmit(accepted, outcome) ==
    /\ dw.pc = "sending"
    /\ outcome = "ok" => accepted
    /\ outcome = "permanent" => Kind[dw.key] = "VIDEO"
    /\ shown' = IF accepted THEN [shown EXCEPT ![dw.key] = Newer(@, dw.result)] ELSE shown
    /\ dw' = [dw EXCEPT !.pc = IF outcome = "ok" THEN "sent" ELSE "raised",
                        !.permanent = (outcome = "permanent")]
    /\ UNCHANGED <<rows, crashes>>

(* _mark_sent and _record_failure read the row first; that read is not part *)
(* of the transaction that writes.  Anything but SENDING ends the attempt.  *)
(* Faults: one attempt too many, one too few.                               *)
RetryLeftOneMore(k) == ~dw.permanent /\ attempts[k] <= MaxAttempts
RetryLeftOneLess(k) == ~dw.permanent /\ attempts[k] < MaxAttempts - 1

RetryLeft(k) == ~dw.permanent /\ attempts[k] < MaxAttempts

(* Fault: a row whose attempts are used up is closed as sent.               *)
SettledAsSent(k) == IF dw.pc = "sent" \/ ~RetryLeft(k) THEN "SENT" ELSE "PENDING"

Settled(k) == IF dw.pc = "sent" THEN "SENT"
              ELSE IF RetryLeft(k) THEN "PENDING" ELSE "FAILED"

RereadRow ==
    /\ dw.pc \in {"sent", "raised"}
    /\ dw' = IF row[dw.key] = "SENDING"
             THEN [dw EXCEPT !.pc = "settling", !.verdict = Settled(dw.key)]
             ELSE IdleWorker
    /\ UNCHANGED <<rows, shown, crashes>>

(* ... and then update it by its id, whatever its status has become.        *)
Settle ==
    /\ dw.pc = "settling"
    /\ row' = [row EXCEPT ![dw.key] = dw.verdict]
    /\ dw' = IdleWorker
    /\ UNCHANGED <<rowId, attempts, wanted, opened, shown, crashes>>

(* The process dies (a crash, or a database error raised to the supervisor) *)
(* and starts again: requeue_sending_deliveries, before any worker starts.  *)
(* Faults: interrupted rows are left alone, or taken for sent.              *)
RequeueNothing == row
RequeueAsSent == [k \in Keys |-> IF row[k] = "SENDING" THEN "SENT" ELSE row[k]]

RequeueSending == [k \in Keys |-> IF row[k] = "SENDING" THEN "PENDING" ELSE row[k]]

CrashRestart ==
    /\ crashes < MaxCrashes
    /\ crashes' = crashes + 1
    /\ row' = RequeueSending
    /\ dw' = IdleWorker
    /\ UNCHANGED <<rowId, attempts, wanted, opened, shown>>

-----------------------------------------------------------------------------
(* The outbox on its own.  The business side asks for anything its kinds    *)
(* allow, cancels failure notices when it likes, and whether a notice is    *)
(* obsolete when it is read is left open; ItemOutbox closes all three.      *)

Business == \E k \in Keys :
    \/ wanted[k] < MaxResults[k] /\ MayAsk(k) /\ EnqueueItemDelivery(k)
    \/ Kind[k] = "FAILURE" /\ CancelFailure(k)

ReadRow == /\ dw.pc = "claimed"
           /\ \E obsolete \in BOOLEAN : ReadSnapshot(obsolete, wanted[dw.key])

Telegram == \E accepted \in BOOLEAN, outcome \in {"ok", "transient", "permanent"} :
               Transmit(accepted, outcome)

Worker == \/ \E k \in Keys : Claim(k)
          \/ ReadRow
          \/ Telegram
          \/ RereadRow
          \/ Settle

Next == Business \/ Worker \/ CrashRestart

(* The worker is a critical task: the supervisor ends the process when it   *)
(* exits, and every network call it makes has a timeout.                    *)
Fairness == WF_vars(Worker)

Spec == Init /\ [][Next]_vars
FairSpec == Spec /\ Fairness

-----------------------------------------------------------------------------
(* Properties                                                              *)

WorkerPcs == {"idle", "claimed", "sending", "sent", "raised", "settling"}
WorkerStates == [pc : WorkerPcs, key : Keys \cup {Nil}, result : Nat, permanent : BOOLEAN,
                 verdict : {"NONE", "SENT", "PENDING", "FAILED"}]

(* Every variable has its type; a worker past the claim holds a key.        *)
TypeOK ==
    /\ row \in [Keys -> Statuses]
    /\ rowId \in [Keys -> Nat]
    /\ attempts \in [Keys -> Nat]
    /\ wanted \in [Keys -> Nat]
    /\ opened \in [Keys -> Nat]
    /\ shown \in [Keys -> Nat]
    /\ dw \in WorkerStates
    /\ crashes \in Nat
    /\ dw.pc # "idle" => dw.key \in Keys

(* A claimed row is never orphaned: while the process lives, only the row   *)
(* the worker is busy with is SENDING (startup requeues all the others, and *)
(* nothing but startup ever looks for SENDING rows).                        *)
SendingIsOwned == \A k \in Keys : row[k] = "SENDING" => dw.pc # "idle" /\ dw.key = k

(* An announcement is attempted at most MaxAttempts times, plus one attempt *)
(* for every process death, which requeues the row with its attempt spent.  *)
AttemptsBounded == \A k \in Keys : attempts[k] <= MaxAttempts + crashes

(* At-least-once, D-011: a row is SENT only when Telegram has accepted a    *)
(* message that shows the result for which the row was (re)opened, whatever *)
(* crashes, lost replies and retries came between.  Failure notices may     *)
(* also be settled by suppression, see ItemOutbox.                          *)
SentWasShown ==
    \A k \in Keys : row[k] = "SENT" /\ Kind[k] # "FAILURE" => shown[k] >= opened[k]

(* The worker gives an announcement up only after MaxAttempts attempts; a   *)
(* media send may also fail for good.                                       *)
GivenUpWhenExhausted ==
    \A k \in Keys :
       row[k] = "FAILED" /\ Kind[k] \in {"READY", "JOB"} => attempts[k] >= MaxAttempts

(* The attempts of an announcement are used up, and not exceeded, whatever  *)
(* deaths, lost replies and reopenings come between claim and settle.       *)
AttemptsRespected == AttemptsBounded /\ GivenUpWhenExhausted

(* Every announcement that falls due is settled: a poisoned message cannot  *)
(* hold the oldest place in the queue for ever.                             *)
EveryIntentSettles == \A k \in Keys : row[k] = "PENDING" ~> row[k] \in Terminal

(* The outbox implements the promise, for every announcement but failure    *)
(* notices.                                                                *)
Promised == {k \in Keys : Kind[k] # "FAILURE"}

Phase(k) == CASE row[k] = "NONE" -> "none"
              [] row[k] \in {"PENDING", "SENDING"} -> "due"
              [] row[k] = "SENT" -> "done"
              [] OTHER -> "dropped"

Promise == INSTANCE AtLeastOnce WITH
              Keys <- Promised,
              phase <- [k \in Promised |-> Phase(k)],
              accepted <- [k \in Promised |-> Phase(k) = "due" /\ shown[k] >= opened[k]]

ImplementsPromise == Promise!Spec
=============================================================================
