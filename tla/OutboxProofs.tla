---------------------------- MODULE OutboxProofs ----------------------------
(***************************************************************************)
(* Proofs about the outbox, for any keys, kinds, attempts and bounds.      *)
(*                                                                         *)
(* The safety invariants are not inductive: they hold because of what the  *)
(* worker has in memory between its claim and the row it settles.          *)
(***************************************************************************)
EXTENDS Outbox, FiniteSetTheorems, TLAPS

Holds(k) == dw.pc # "idle" /\ dw.key = k

(* An idle worker remembers nothing of its last delivery.                   *)
IdleIsClean == dw.pc = "idle" => dw = IdleWorker

(* Nobody but the worker moves a row it holds, unless it is a failure       *)
(* notice, which Retry may cancel.                                         *)
HeldIsSending == \A k \in Keys : Holds(k) /\ Kind[k] # "FAILURE" => row[k] = "SENDING"

(* An attempt is left for every row that waits, and for a verdict to wait.  *)
AttemptLeft ==
    /\ \A k \in Keys : row[k] = "PENDING" => attempts[k] < MaxAttempts + crashes
    /\ dw.pc = "settling" /\ dw.verdict = "PENDING" => attempts[dw.key] < MaxAttempts + crashes
    /\ \A k \in Keys : row[k] = "NONE" => attempts[k] = 0

(* What the worker knows of the result it is about to settle.               *)
ShownSoFar ==
    \A k \in Keys : Holds(k) /\ Kind[k] # "FAILURE" =>
       /\ dw.pc = "sending" => dw.result >= opened[k]
       /\ dw.pc = "sent" => shown[k] >= opened[k]
       /\ dw.pc = "settling" /\ dw.verdict = "SENT" => shown[k] >= opened[k]

(* Results are announced in the order they are asked for.                   *)
ResultsInOrder ==
    /\ \A k \in Keys : opened[k] <= wanted[k] /\ shown[k] <= wanted[k]
    /\ \A k \in Keys : Holds(k) => dw.result <= wanted[k]

(* Only media sends fail for good; the others run out of attempts.          *)
ExhaustedVerdict ==
    /\ dw.pc # "idle" /\ dw.permanent => Kind[dw.key] = "VIDEO"
    /\ dw.pc = "settling" /\ dw.verdict = "FAILED" /\ Kind[dw.key] \in {"READY", "JOB"}
          => attempts[dw.key] >= MaxAttempts

VerdictReached == dw.pc = "settling" => dw.verdict # "NONE"

IInv == /\ TypeOK
        /\ IdleIsClean
        /\ SendingIsOwned
        /\ HeldIsSending
        /\ AttemptsBounded
        /\ AttemptLeft
        /\ SentWasShown
        /\ ShownSoFar
        /\ ResultsInOrder
        /\ GivenUpWhenExhausted
        /\ ExhaustedVerdict
        /\ VerdictReached

-----------------------------------------------------------------------------
(* Initially                                                               *)

LEMMA InitInv == Init => IInv
  BY OutboxAssumption
     DEF Init, IInv, TypeOK, IdleIsClean, SendingIsOwned, HeldIsSending, AttemptsBounded,
         AttemptLeft, SentWasShown, ShownSoFar, ResultsInOrder, GivenUpWhenExhausted,
         ExhaustedVerdict, VerdictReached, Holds, IdleWorker, WorkerStates, Statuses,
         Terminal, WorkerPcs

-----------------------------------------------------------------------------
(* One step                                                                *)

(* The business transaction asks for an announcement.                      *)
LEMMA EnqueueInv == ASSUME IInv, NEW k \in Keys, MayAsk(k), EnqueueItemDelivery(k) PROVE IInv'
<1>id. NextId \in Nat
  <2>1. IsFiniteSet({other \in Keys : row[other] # "NONE"})
    BY OutboxAssumption, FS_Subset
  <2> QED
    BY <2>1, FS_CardinalityType DEF NextId
<1>1. TypeOK'
  BY <1>id DEF IInv, EnqueueItemDelivery, Insert, Reopen, TypeOK, WorkerStates,
         WorkerPcs, Statuses, Terminal
<1>2. IdleIsClean'
  BY DEF IInv, EnqueueItemDelivery, Insert, Reopen, IdleIsClean, IdleWorker
<1>3. SendingIsOwned'
  BY DEF IInv, EnqueueItemDelivery, Insert, Reopen, SendingIsOwned, TypeOK
<1>4. HeldIsSending'
  BY DEF IInv, EnqueueItemDelivery, Insert, Reopen, HeldIsSending, Holds,
         IdleIsClean, TypeOK, Terminal, MayAsk
<1>5. AttemptsBounded'
  BY OutboxAssumption DEF IInv, EnqueueItemDelivery, Insert, Reopen,
         AttemptsBounded, AttemptLeft, TypeOK
<1>6. AttemptLeft'
  BY OutboxAssumption DEF IInv, EnqueueItemDelivery, Insert, Reopen, AttemptLeft,
         TypeOK
<1>7. SentWasShown'
  BY DEF IInv, EnqueueItemDelivery, Insert, Reopen, SentWasShown, TypeOK, Terminal
<1>8. ShownSoFar'
  BY DEF IInv, EnqueueItemDelivery, Insert, Reopen, ShownSoFar, HeldIsSending,
         Holds, TypeOK, Terminal
<1>9. ResultsInOrder'
  BY DEF IInv, EnqueueItemDelivery, Insert, Reopen, ResultsInOrder, Holds, TypeOK,
         WorkerStates, WorkerPcs
<1>10. GivenUpWhenExhausted'
  BY DEF IInv, EnqueueItemDelivery, Insert, Reopen, GivenUpWhenExhausted, TypeOK
<1>11. ExhaustedVerdict'
  BY OutboxAssumption DEF IInv, EnqueueItemDelivery, Insert, Reopen,
         ExhaustedVerdict, TypeOK, HeldIsSending, Holds, Terminal, Kinds
<1>12. VerdictReached'
  BY DEF IInv, EnqueueItemDelivery, Insert, Reopen, VerdictReached, TypeOK
<1> QED
  BY <1>1, <1>2, <1>3, <1>4, <1>5, <1>6, <1>7, <1>8, <1>9, <1>10, <1>11, <1>12 DEF IInv

(* Retry cancels a failure notice.                                         *)
LEMMA CancelInv == ASSUME IInv, NEW k \in Keys, Kind[k] = "FAILURE", CancelFailure(k) PROVE IInv'
<1>1. TypeOK'
  BY DEF IInv, CancelFailure, TypeOK, WorkerStates, WorkerPcs, Statuses, Terminal
<1>2. IdleIsClean'
  BY DEF IInv, CancelFailure, IdleIsClean, IdleWorker
<1>3. SendingIsOwned'
  BY DEF IInv, CancelFailure, SendingIsOwned, TypeOK
<1>4. HeldIsSending'
  BY DEF IInv, CancelFailure, HeldIsSending, Holds, IdleIsClean, TypeOK
<1>5. AttemptsBounded'
  BY DEF IInv, CancelFailure, AttemptsBounded, AttemptLeft, TypeOK
<1>6. AttemptLeft'
  BY DEF IInv, CancelFailure, AttemptLeft, TypeOK
<1>7. SentWasShown'
  BY DEF IInv, CancelFailure, SentWasShown, TypeOK
<1>8. ShownSoFar'
  BY DEF IInv, CancelFailure, ShownSoFar, HeldIsSending, Holds, TypeOK
<1>9. ResultsInOrder'
  BY DEF IInv, CancelFailure, ResultsInOrder, Holds, TypeOK
<1>10. GivenUpWhenExhausted'
  BY DEF IInv, CancelFailure, GivenUpWhenExhausted, TypeOK
<1>11. ExhaustedVerdict'
  BY DEF IInv, CancelFailure, ExhaustedVerdict, TypeOK
<1>12. VerdictReached'
  BY DEF IInv, CancelFailure, VerdictReached, TypeOK
<1> QED
  BY <1>1, <1>2, <1>3, <1>4, <1>5, <1>6, <1>7, <1>8, <1>9, <1>10, <1>11, <1>12 DEF IInv

(* The worker claims the oldest row.                                       *)
LEMMA ClaimInv == ASSUME IInv, NEW k \in Keys, Claim(k) PROVE IInv'
<1>1. TypeOK'
  <2>1. dw' \in WorkerStates
    BY DEF IInv, Claim, TypeOK, WorkerStates, WorkerPcs, Statuses, Terminal
  <2>2. dw'.pc # "idle" => dw'.key \in Keys
    BY DEF IInv, Claim, TypeOK, WorkerStates, WorkerPcs, Statuses, Terminal
  <2> QED
    BY <2>1, <2>2 DEF IInv, Claim, TypeOK, Statuses
<1>2. IdleIsClean'
  BY DEF IInv, Claim, IdleIsClean, IdleWorker
<1>3. SendingIsOwned'
  BY DEF IInv, Claim, SendingIsOwned, TypeOK
<1>4. HeldIsSending'
  BY DEF IInv, Claim, HeldIsSending, Holds, IdleIsClean, TypeOK
<1>5. AttemptsBounded'
  BY OutboxAssumption DEF IInv, Claim, AttemptsBounded, AttemptLeft, TypeOK
<1>6. AttemptLeft'
  BY DEF IInv, Claim, AttemptLeft, TypeOK
<1>7. SentWasShown'
  BY DEF IInv, Claim, SentWasShown, TypeOK
<1>8. ShownSoFar'
  BY DEF IInv, Claim, ShownSoFar, HeldIsSending, Holds, TypeOK
<1>9. ResultsInOrder'
  BY DEF IInv, Claim, ResultsInOrder, Holds, TypeOK, IdleIsClean, IdleWorker
<1>10. GivenUpWhenExhausted'
  BY DEF IInv, Claim, GivenUpWhenExhausted, TypeOK
<1>11. ExhaustedVerdict'
  BY DEF IInv, Claim, ExhaustedVerdict, TypeOK, IdleIsClean, IdleWorker
<1>12. VerdictReached'
  BY DEF IInv, Claim, VerdictReached, TypeOK
<1> QED
  BY <1>1, <1>2, <1>3, <1>4, <1>5, <1>6, <1>7, <1>8, <1>9, <1>10, <1>11, <1>12 DEF IInv

(* The worker loads what it will send.                                     *)
LEMMA ReadRowInv == ASSUME IInv, ReadRow PROVE IInv'
<1>1. TypeOK'
  <2>1. dw' \in WorkerStates
    BY DEF IInv, ReadRow, ReadSnapshot, rows, TypeOK, WorkerStates, WorkerPcs,
         Statuses, Terminal
  <2>2. dw'.pc # "idle" => dw'.key \in Keys
    BY DEF IInv, ReadRow, ReadSnapshot, rows, TypeOK, WorkerStates, WorkerPcs,
         Statuses, Terminal
  <2> QED
    BY <2>1, <2>2 DEF IInv, ReadRow, ReadSnapshot, rows, TypeOK, Statuses
<1>2. IdleIsClean'
  BY DEF IInv, ReadRow, ReadSnapshot, rows, IdleIsClean, IdleWorker
<1>3. SendingIsOwned'
  BY DEF IInv, ReadRow, ReadSnapshot, rows, SendingIsOwned, TypeOK
<1>4. HeldIsSending'
  BY DEF IInv, ReadRow, ReadSnapshot, rows, HeldIsSending, Holds, IdleIsClean,
         TypeOK
<1>5. AttemptsBounded'
  BY DEF IInv, ReadRow, ReadSnapshot, rows, AttemptsBounded, AttemptLeft, TypeOK
<1>6. AttemptLeft'
  BY DEF IInv, ReadRow, ReadSnapshot, rows, AttemptLeft, TypeOK
<1>7. SentWasShown'
  BY DEF IInv, ReadRow, ReadSnapshot, rows, SentWasShown, TypeOK
<1>8. ShownSoFar'
  BY DEF IInv, ReadRow, ReadSnapshot, rows, ShownSoFar, HeldIsSending, Holds,
         TypeOK, ResultsInOrder
<1>9. ResultsInOrder'
  BY DEF IInv, ReadRow, ReadSnapshot, rows, ResultsInOrder, Holds, TypeOK
<1>10. GivenUpWhenExhausted'
  BY DEF IInv, ReadRow, ReadSnapshot, rows, GivenUpWhenExhausted, TypeOK
<1>11. ExhaustedVerdict'
  BY DEF IInv, ReadRow, ReadSnapshot, rows, ExhaustedVerdict, TypeOK
<1>12. VerdictReached'
  BY DEF IInv, ReadRow, ReadSnapshot, rows, VerdictReached, TypeOK
<1> QED
  BY <1>1, <1>2, <1>3, <1>4, <1>5, <1>6, <1>7, <1>8, <1>9, <1>10, <1>11, <1>12 DEF IInv

(* Telegram accepts, refuses, or leaves the worker in doubt.               *)
LEMMA TelegramInv == ASSUME IInv, Telegram PROVE IInv'
<1>1. TypeOK'
  <2>1. dw' \in WorkerStates
    BY DEF IInv, Telegram, Transmit, rows, TypeOK, WorkerStates, WorkerPcs,
         Statuses, Terminal, Newer
  <2>2. dw'.pc # "idle" => dw'.key \in Keys
    BY DEF IInv, Telegram, Transmit, rows, TypeOK, WorkerStates, WorkerPcs,
         Statuses, Terminal, Newer
  <2> QED
    BY <2>1, <2>2 DEF IInv, Telegram, Transmit, rows, TypeOK, Statuses,
         WorkerStates, Newer
<1>2. IdleIsClean'
  BY DEF IInv, Telegram, Transmit, rows, IdleIsClean, IdleWorker
<1>3. SendingIsOwned'
  BY DEF IInv, Telegram, Transmit, rows, SendingIsOwned, TypeOK
<1>4. HeldIsSending'
  BY DEF IInv, Telegram, Transmit, rows, HeldIsSending, Holds, IdleIsClean, TypeOK
<1>5. AttemptsBounded'
  BY DEF IInv, Telegram, Transmit, rows, AttemptsBounded, AttemptLeft, TypeOK
<1>6. AttemptLeft'
  BY DEF IInv, Telegram, Transmit, rows, AttemptLeft, TypeOK
<1>7. SentWasShown'
  BY DEF IInv, Telegram, Transmit, rows, SentWasShown, TypeOK, Newer, WorkerStates,
         WorkerPcs
<1>8. ShownSoFar'
  BY DEF IInv, Telegram, Transmit, rows, ShownSoFar, HeldIsSending, Holds, TypeOK,
         Newer, WorkerStates, WorkerPcs
<1>9. ResultsInOrder'
  BY DEF IInv, Telegram, Transmit, rows, ResultsInOrder, Holds, TypeOK, Newer,
         WorkerStates, WorkerPcs
<1>10. GivenUpWhenExhausted'
  BY DEF IInv, Telegram, Transmit, rows, GivenUpWhenExhausted, TypeOK
<1>11. ExhaustedVerdict'
  BY DEF IInv, Telegram, Transmit, rows, ExhaustedVerdict, TypeOK, WorkerStates,
         WorkerPcs
<1>12. VerdictReached'
  BY DEF IInv, Telegram, Transmit, rows, VerdictReached, TypeOK
<1> QED
  BY <1>1, <1>2, <1>3, <1>4, <1>5, <1>6, <1>7, <1>8, <1>9, <1>10, <1>11, <1>12 DEF IInv

(* The worker looks at the row again and makes up its mind.                *)
LEMMA RereadInv == ASSUME IInv, RereadRow PROVE IInv'
<1>1. TypeOK'
  BY DEF IInv, RereadRow, rows, TypeOK, WorkerStates, WorkerPcs, Statuses, Terminal,
         Settled, IdleWorker
<1>2. IdleIsClean'
  BY DEF IInv, RereadRow, rows, IdleIsClean, IdleWorker
<1>3. SendingIsOwned'
  BY DEF IInv, RereadRow, rows, SendingIsOwned, TypeOK
<1>4. HeldIsSending'
  BY DEF IInv, RereadRow, rows, HeldIsSending, Holds, IdleIsClean, TypeOK,
         IdleWorker
<1>5. AttemptsBounded'
  BY DEF IInv, RereadRow, rows, AttemptsBounded, AttemptLeft, TypeOK
<1>6. AttemptLeft'
  BY OutboxAssumption DEF IInv, RereadRow, rows, AttemptLeft, TypeOK, Settled,
         RetryLeft, IdleWorker
<1>7. SentWasShown'
  BY DEF IInv, RereadRow, rows, SentWasShown, TypeOK
<1>8. ShownSoFar'
  BY OutboxAssumption DEF IInv, RereadRow, rows, ShownSoFar, HeldIsSending, Holds,
         TypeOK, Settled, RetryLeft, IdleWorker
<1>9. ResultsInOrder'
  BY DEF IInv, RereadRow, rows, ResultsInOrder, Holds, TypeOK, IdleWorker
<1>10. GivenUpWhenExhausted'
  BY DEF IInv, RereadRow, rows, GivenUpWhenExhausted, TypeOK
<1>11. ExhaustedVerdict'
  BY OutboxAssumption DEF IInv, RereadRow, rows, ExhaustedVerdict, TypeOK, Settled,
         RetryLeft, IdleWorker
<1>12. VerdictReached'
  BY OutboxAssumption DEF IInv, RereadRow, rows, VerdictReached, TypeOK, Settled,
         RetryLeft, IdleWorker
<1> QED
  BY <1>1, <1>2, <1>3, <1>4, <1>5, <1>6, <1>7, <1>8, <1>9, <1>10, <1>11, <1>12 DEF IInv

(* The worker writes its verdict.                                          *)
LEMMA SettleInv == ASSUME IInv, Settle PROVE IInv'
<1>1. TypeOK'
  BY DEF IInv, Settle, TypeOK, WorkerStates, WorkerPcs, Statuses, Terminal,
         IdleWorker
<1>2. IdleIsClean'
  BY DEF IInv, Settle, IdleIsClean, IdleWorker
<1>3. SendingIsOwned'
  BY DEF IInv, Settle, SendingIsOwned, TypeOK, IdleWorker, VerdictReached,
         WorkerStates, WorkerPcs
<1>4. HeldIsSending'
  BY DEF IInv, Settle, HeldIsSending, Holds, IdleIsClean, TypeOK, IdleWorker
<1>5. AttemptsBounded'
  BY DEF IInv, Settle, AttemptsBounded, AttemptLeft, TypeOK, IdleWorker
<1>6. AttemptLeft'
  BY DEF IInv, Settle, AttemptLeft, TypeOK, VerdictReached, IdleWorker
<1>7. SentWasShown'
  BY DEF IInv, Settle, SentWasShown, TypeOK, ShownSoFar, Holds
<1>8. ShownSoFar'
  BY DEF IInv, Settle, ShownSoFar, HeldIsSending, Holds, TypeOK, IdleWorker
<1>9. ResultsInOrder'
  BY DEF IInv, Settle, ResultsInOrder, Holds, TypeOK, IdleWorker
<1>10. GivenUpWhenExhausted'
  BY DEF IInv, Settle, GivenUpWhenExhausted, TypeOK, ExhaustedVerdict, Kinds
<1>11. ExhaustedVerdict'
  BY DEF IInv, Settle, ExhaustedVerdict, TypeOK, IdleWorker
<1>12. VerdictReached'
  BY DEF IInv, Settle, VerdictReached, TypeOK, IdleWorker
<1> QED
  BY <1>1, <1>2, <1>3, <1>4, <1>5, <1>6, <1>7, <1>8, <1>9, <1>10, <1>11, <1>12 DEF IInv

(* The process dies and starts again.                                      *)
LEMMA CrashInv == ASSUME IInv, CrashRestart PROVE IInv'
<1>1. TypeOK'
  BY DEF IInv, CrashRestart, RequeueSending, TypeOK, WorkerStates, WorkerPcs,
         Statuses, Terminal, IdleWorker
<1>2. IdleIsClean'
  BY DEF IInv, CrashRestart, RequeueSending, IdleIsClean, IdleWorker
<1>3. SendingIsOwned'
  BY DEF IInv, CrashRestart, RequeueSending, SendingIsOwned, TypeOK, IdleWorker
<1>4. HeldIsSending'
  BY DEF IInv, CrashRestart, RequeueSending, HeldIsSending, Holds, IdleIsClean,
         TypeOK, IdleWorker
<1>5. AttemptsBounded'
  BY OutboxAssumption DEF IInv, CrashRestart, RequeueSending, AttemptsBounded,
         AttemptLeft, TypeOK
<1>6. AttemptLeft'
  BY OutboxAssumption DEF IInv, CrashRestart, RequeueSending, AttemptLeft, TypeOK,
         AttemptsBounded, IdleWorker
<1>7. SentWasShown'
  BY DEF IInv, CrashRestart, RequeueSending, SentWasShown, TypeOK, IdleWorker
<1>8. ShownSoFar'
  BY DEF IInv, CrashRestart, RequeueSending, ShownSoFar, HeldIsSending, Holds,
         TypeOK, IdleWorker
<1>9. ResultsInOrder'
  BY DEF IInv, CrashRestart, RequeueSending, ResultsInOrder, Holds, TypeOK,
         IdleWorker
<1>10. GivenUpWhenExhausted'
  BY DEF IInv, CrashRestart, RequeueSending, GivenUpWhenExhausted, TypeOK,
         IdleWorker
<1>11. ExhaustedVerdict'
  BY DEF IInv, CrashRestart, RequeueSending, ExhaustedVerdict, TypeOK, IdleWorker
<1>12. VerdictReached'
  BY DEF IInv, CrashRestart, RequeueSending, VerdictReached, TypeOK, IdleWorker
<1> QED
  BY <1>1, <1>2, <1>3, <1>4, <1>5, <1>6, <1>7, <1>8, <1>9, <1>10, <1>11, <1>12 DEF IInv

(* Nothing happens.                                                         *)
LEMMA StutterInv == ASSUME IInv, UNCHANGED vars PROVE IInv'
  BY DEF vars, IInv, TypeOK, IdleIsClean, SendingIsOwned, HeldIsSending, AttemptsBounded,
         AttemptLeft, SentWasShown, ShownSoFar, ResultsInOrder, GivenUpWhenExhausted,
         ExhaustedVerdict, VerdictReached, Holds

(* Every step of the outbox keeps the inductive invariant.                  *)
LEMMA NextInv == ASSUME IInv, [Next]_vars PROVE IInv'
<1>1. CASE Business
  <2>1. PICK k \in Keys : \/ MayAsk(k) /\ EnqueueItemDelivery(k)
                          \/ Kind[k] = "FAILURE" /\ CancelFailure(k)
    BY <1>1 DEF Business
  <2> QED
    BY <2>1, EnqueueInv, CancelInv
<1>2. CASE Worker
  <2>1. CASE \E k \in Keys : Claim(k)
    BY <2>1, ClaimInv
  <2> QED
    BY <1>2, <2>1, ReadRowInv, TelegramInv, RereadInv, SettleInv DEF Worker
<1>3. CASE CrashRestart
  BY <1>3, CrashInv
<1>4. CASE UNCHANGED vars
  BY <1>4, StutterInv
<1> QED
  BY <1>1, <1>2, <1>3, <1>4 DEF Next

-----------------------------------------------------------------------------
(* The theorems                                                            *)

(* The inductive invariant holds in every reachable state.                  *)
THEOREM Invariance == Spec => []IInv
  BY InitInv, NextInv, PTL DEF Spec

(* Every variable keeps its type (delivery.py as a whole).                  *)
THEOREM TypeCorrect == Spec => []TypeOK
<1>1. IInv => TypeOK
  BY DEF IInv
<1> QED
  BY <1>1, Invariance, PTL

(* No claimed row is orphaned while the process lives: SENDING rows are in  *)
(* the worker's hands (claim_next, _mark_sent, _record_failure, startup).   *)
THEOREM NoOrphanedRow == Spec => []SendingIsOwned
<1>1. IInv => SendingIsOwned
  BY DEF IInv
<1> QED
  BY <1>1, Invariance, PTL

(* At-least-once: SENT means that Telegram accepted the result (_mark_sent  *)
(* after _send, across crashes, lost replies and retries).                  *)
THEOREM AtLeastOnceDelivery == Spec => []SentWasShown
<1>1. IInv => SentWasShown
  BY DEF IInv
<1> QED
  BY <1>1, Invariance, PTL

(* The attempts of an announcement are bounded by max_attempts and one for  *)
(* every process death, and it is given up only when they are used up, or   *)
(* for a media send that failed for good (claim_next, _record_failure).     *)
THEOREM AttemptsSpent == Spec => []AttemptsRespected
<1>1. IInv => AttemptsRespected
  BY DEF IInv, AttemptsRespected
<1> QED
  BY <1>1, Invariance, PTL

-----------------------------------------------------------------------------
(* Refinement: each step of the outbox is a step of the promise, or none    *)

PhaseOf == [k \in Promised |-> Phase(k)]
AcceptedOf == [k \in Promised |-> Phase(k) = "due" /\ shown[k] >= opened[k]]

LEMMA RefineInit == Init => Promise!Init
  BY OutboxAssumption DEF Init, Promise!Init, Phase, Promised

(* A step that leaves a key's phase and acceptance alone does not show.     *)
LEMMA Invisible ==
  ASSUME \A k \in Promised : /\ Phase(k)' = Phase(k)
                             /\ (Phase(k) = "due" /\ shown[k] >= opened[k])'
                                   = (Phase(k) = "due" /\ shown[k] >= opened[k])
  PROVE  UNCHANGED Promise!vars
<1>1. PhaseOf' = PhaseOf /\ AcceptedOf' = AcceptedOf
  BY DEF PhaseOf, AcceptedOf, Promised
<1> QED
  BY <1>1 DEF PhaseOf, AcceptedOf, Promise!vars

(* A request makes a settled announcement fall due; what falls due has not  *)
(* been shown yet, because results are numbered in order.                   *)
LEMMA EnqueueRefines ==
  ASSUME IInv, NEW k \in Keys, EnqueueItemDelivery(k)
  PROVE  [Promise!Next]_(Promise!vars)
<1>1. CASE k \notin Promised \/ row[k] \in {"PENDING", "SENDING"}
  <2>1. \A j \in Promised : row'[j] = row[j] /\ opened'[j] = opened[j] /\ shown'[j] = shown[j]
    BY <1>1 DEF EnqueueItemDelivery, Insert, Reopen, Promised, IInv, TypeOK, Terminal
  <2> QED
    BY <2>1, Invisible DEF Phase
<1>2. CASE k \in Promised /\ row[k] \notin {"PENDING", "SENDING"}
  <2>1. /\ row' = [row EXCEPT ![k] = "PENDING"]
        /\ opened' = [opened EXCEPT ![k] = wanted[k] + 1]
        /\ shown' = shown
    BY <1>2 DEF EnqueueItemDelivery, Insert, Reopen
  <2>2. ~(shown[k] >= wanted[k] + 1)
    BY DEF IInv, ResultsInOrder, TypeOK
  <2>3. PhaseOf[k] # "due"
    BY <1>2 DEF PhaseOf, Phase
  <2>4. PhaseOf' = [PhaseOf EXCEPT ![k] = "due"]
    BY <1>2, <2>1 DEF PhaseOf, Phase, Promised, IInv, TypeOK
  <2>5. AcceptedOf' = [AcceptedOf EXCEPT ![k] = FALSE]
    BY <1>2, <2>1, <2>2 DEF AcceptedOf, Phase, Promised, IInv, TypeOK
  <2>6. Promise!FallDue(k)
    BY <2>3, <2>4, <2>5 DEF Promise!FallDue, PhaseOf, AcceptedOf
  <2> QED
    BY <1>2, <2>6 DEF Promise!Next
<1> QED
  BY <1>1, <1>2

(* Claiming, reading and re-reading are not seen from outside, nor is the   *)
(* end of a failure notice, nor a death of the process: all keep "due".     *)
LEMMA SilentRefines ==
  ASSUME IInv,
         \/ \E k \in Keys : Claim(k)
         \/ \E k \in Keys : Kind[k] = "FAILURE" /\ CancelFailure(k)
         \/ ReadRow
         \/ RereadRow
         \/ CrashRestart
         \/ UNCHANGED vars
  PROVE  UNCHANGED Promise!vars
<1>1. opened' = opened /\ shown' = shown
  BY DEF Claim, CancelFailure, ReadRow, ReadSnapshot, RereadRow, CrashRestart, rows, vars
<1>2. \A j \in Promised : Phase(j)' = Phase(j)
  BY DEF Claim, CancelFailure, ReadRow, ReadSnapshot, RereadRow, CrashRestart, RequeueSending,
         rows, vars, Phase, Promised, IInv, TypeOK
<1> QED
  BY <1>1, <1>2, Invisible

(* Telegram accepts a message for the row that is being sent.               *)
LEMMA TelegramRefines ==
  ASSUME IInv, Telegram
  PROVE  [Promise!Next]_(Promise!vars)
<1>k. PICK k \in Keys : k = dw.key
  BY DEF Telegram, Transmit, IInv, TypeOK
<1>1. row' = row /\ opened' = opened /\ dw.pc = "sending"
  BY DEF Telegram, Transmit, rows
<1>2. CASE shown' = shown
  BY <1>1, <1>2, Invisible DEF Phase
<1>3. CASE k \notin Promised /\ shown' = [shown EXCEPT ![k] = Newer(@, dw.result)]
  <2>1. \A j \in Promised : shown'[j] = shown[j]
    BY <1>3 DEF IInv, TypeOK, Promised
  <2> QED
    BY <1>1, <2>1, Invisible DEF Phase
<1>4. CASE k \in Promised /\ shown' = [shown EXCEPT ![k] = Newer(@, dw.result)]
  <2>1. row[k] = "SENDING" /\ dw.result >= opened[k]
    BY <1>k, <1>1, <1>4 DEF IInv, HeldIsSending, ShownSoFar, Holds, Promised
  <2>2. shown'[k] >= opened[k]
    BY <1>1, <1>4, <2>1 DEF Newer, IInv, TypeOK, WorkerStates
  <2>3. PhaseOf' = PhaseOf /\ PhaseOf[k] = "due"
    BY <1>1, <1>4, <2>1 DEF PhaseOf, Phase
  <2>4. AcceptedOf' = [AcceptedOf EXCEPT ![k] = TRUE]
    BY <1>1, <1>4, <2>1, <2>2 DEF AcceptedOf, Phase, Promised, IInv, TypeOK
  <2>5. Promise!Accept(k)
    BY <2>3, <2>4 DEF Promise!Accept, PhaseOf, AcceptedOf
  <2> QED
    BY <1>4, <2>5 DEF Promise!Next
<1> QED
  BY <1>k, <1>2, <1>3, <1>4 DEF Telegram, Transmit

(* The verdict: done when shown, dropped, or still due.                     *)
LEMMA SettleRefines ==
  ASSUME IInv, Settle
  PROVE  [Promise!Next]_(Promise!vars)
<1>k. PICK k \in Keys : k = dw.key
  BY DEF Settle, IInv, TypeOK
<1>1. /\ row' = [row EXCEPT ![k] = dw.verdict]
      /\ opened' = opened /\ shown' = shown
      /\ dw.pc = "settling"
      /\ dw.verdict \in {"SENT", "PENDING", "FAILED"}
  BY <1>k DEF Settle, IInv, TypeOK, WorkerStates, VerdictReached
<1>2. CASE k \notin Promised
  <2>1. \A j \in Promised : row'[j] = row[j]
    BY <1>1, <1>2 DEF IInv, TypeOK, Promised
  <2> QED
    BY <1>1, <2>1, Invisible DEF Phase
<1>3. CASE k \in Promised
  <2>1. row[k] = "SENDING"
    BY <1>k, <1>1, <1>3 DEF IInv, HeldIsSending, Holds, Promised
  <2>2. CASE dw.verdict = "PENDING"
    <3>1. \A j \in Promised : Phase(j)' = Phase(j)
      BY <1>1, <2>1, <2>2 DEF Phase, Promised, IInv, TypeOK
    <3> QED
      BY <1>1, <3>1, Invisible
  <2>3. CASE dw.verdict # "PENDING"
    <3> DEFINE end == IF dw.verdict = "SENT" THEN "done" ELSE "dropped"
    <3>1. PhaseOf[k] = "due" /\ PhaseOf' = [PhaseOf EXCEPT ![k] = end]
      BY <1>1, <1>3, <2>1, <2>3 DEF PhaseOf, Phase, Promised, IInv, TypeOK
    <3>2. AcceptedOf' = [AcceptedOf EXCEPT ![k] = FALSE]
      BY <1>1, <1>3, <2>1, <2>3 DEF AcceptedOf, Phase, Promised, IInv, TypeOK
    <3>3. dw.verdict = "SENT" => AcceptedOf[k]
      BY <1>k, <1>1, <1>3, <2>1 DEF AcceptedOf, Phase, IInv, ShownSoFar, Holds, Promised
    <3>4. Promise!Done(k) \/ Promise!Drop(k)
      BY <1>1, <2>3, <3>1, <3>2, <3>3 DEF Promise!Done, Promise!Drop, PhaseOf, AcceptedOf
    <3> QED
      BY <1>3, <3>4 DEF Promise!Next
  <2> QED
    BY <2>2, <2>3
<1> QED
  BY <1>2, <1>3

LEMMA RefineNext == ASSUME IInv, [Next]_vars PROVE [Promise!Next]_(Promise!vars)
<1>1. CASE Business
  <2>1. PICK k \in Keys : \/ MayAsk(k) /\ EnqueueItemDelivery(k)
                          \/ Kind[k] = "FAILURE" /\ CancelFailure(k)
    BY <1>1 DEF Business
  <2> QED
    BY <2>1, EnqueueRefines, SilentRefines
<1>2. CASE Worker
  BY <1>2, SilentRefines, TelegramRefines, SettleRefines DEF Worker
<1>3. CASE CrashRestart \/ UNCHANGED vars
  BY <1>3, SilentRefines
<1> QED
  BY <1>1, <1>2, <1>3 DEF Next

(* The outbox implements the promise of D-011 for every announcement but    *)
(* failure notices: due until Telegram accepted it, or dropped.             *)
THEOREM OutboxKeepsPromise == Spec => ImplementsPromise
  BY RefineInit, RefineNext, Invariance, PTL DEF Spec, Promise!Spec, ImplementsPromise
=============================================================================
