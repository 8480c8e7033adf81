---------------------------- MODULE ItemPipeline ----------------------------
(***************************************************************************)
(* How a saved Item becomes READY or FAILED: the queue in the `items`      *)
(* table, the ProcessingWorkers (app/workers/processing.py), the staged    *)
(* ProcessingPipeline with its durable checkpoints                         *)
(* (app/services/processing.py) and the user's Retry                       *)
(* (app/services/actions.py).                                              *)
(*                                                                         *)
(* One action is one committed transaction together with the in-memory     *)
(* work before it; other workers, a Retry handler and process death come   *)
(* between two of them.  Content is abstracted to which child sources it   *)
(* was made from.                                                          *)
(***************************************************************************)
EXTENDS Naturals, FiniteSets

CONSTANTS NumItems,     \* Items are 1..NumItems, by age (created_at, id)
          MaxSources,   \* bound: child sources of an Item
          SourceCount,  \* [Items -> 0..MaxSources]: found at ingestion
          Posts,        \* the sources that are multi-part Instagram posts
          Text,         \* [Items -> TextKinds]
          Workers,      \* processing_concurrency of them
          MaxRetries,   \* bound: [Items -> Nat], Retries won
          MaxCrashes,   \* bound: process deaths
          Nil

Items == 1..NumItems
Slots == {x \in Items \X (0..MaxSources) : x[2] < SourceCount[x[1]]}

TextKinds == {"none",       \* nothing but the links or the file
              "note",       \* the user's own words
              "forwarded"}  \* words of the author of a forwarded post

ASSUME PipelineAssumption ==
    /\ NumItems \in Nat
    /\ MaxSources \in Nat
    /\ SourceCount \in [Items -> 0..MaxSources]
    /\ Posts \subseteq Slots
    /\ Text \in [Items -> TextKinds]
    /\ \A i \in Items : SourceCount[i] = 0 => Text[i] # "none"
    /\ MaxRetries \in [Items -> Nat]
    /\ MaxCrashes \in Nat
    /\ Nil \notin Items

VARIABLES item,     \* the rows of `items`
          source,   \* the rows of `item_sources`
          wk,       \* the ProcessingWorkers
          tap,      \* a Retry handler between its read and its update
          history,  \* what happened to an Item, for the properties only
          crashes

vars == <<item, source, wk, tap, history, crashes>>

-----------------------------------------------------------------------------
(* Rows                                                                    *)

Statuses == {"NONE", "QUEUED", "PROCESSING", "READY", "FAILED"}
Stages == {"INGESTED", "EXTRACTING", "ANALYZING", "TOPIC_CLASSIFYING", "PRIORITIZING", "READY"}

(* extraction_status, with "DEAD" for FAILED and failure_permanent; whether  *)
(* restorable content is durable; which parts of a post are missing from it  *)
(* ("recheck": none, but it could not be read again and may be retried).     *)
SourceRows == [state : {"PENDING", "READY", "FAILED", "DEAD"},
               saved : BOOLEAN,
               holes : {"whole", "recheck", "retryable", "lost"}]

(* `covered`: the sources whose content the stored analysis was made from.  *)
ItemRows == [status : Statuses, stage : Stages, partial : BOOLEAN, covered : SUBSET (0..MaxSources)]

Of(i) == {s \in 0..MaxSources : <<i, s>> \in Slots}
InState(i, states) == {s \in Of(i) : source[<<i, s>>].state \in states}
Failures(i) == InState(i, {"FAILED", "DEAD"})

NoTap == [item |-> Nil, failed |-> FALSE, sources |-> {}, posts |-> {}]
IdleWorker == [pc |-> "idle", item |-> Nil, at |-> 0, got |-> {}, kept |-> FALSE]

Init == /\ item = [i \in Items |-> [status |-> "NONE", stage |-> "INGESTED",
                                    partial |-> FALSE, covered |-> {}]]
        /\ source = [x \in Slots |-> [state |-> "PENDING", saved |-> FALSE, holes |-> "whole"]]
        /\ wk = [w \in Workers |-> IdleWorker]
        /\ tap = NoTap
        /\ history = [i \in Items |-> [analyses |-> 0, retries |-> 0,
                                       late |-> FALSE, stale |-> FALSE]]
        /\ crashes = 0

-----------------------------------------------------------------------------
(* Ingestion: the Item and its child sources are saved in one transaction.  *)

Ingest(i) ==
    /\ item[i].status = "NONE"
    /\ \A j \in 1..(i - 1) : item[j].status # "NONE"
    /\ item' = [item EXCEPT ![i].status = "QUEUED"]
    /\ UNCHANGED <<source, wk, tap, history, crashes>>

(* A file that is too large or unsupported is a permanent failure from the   *)
(* start; with no text and no link beside it the Item is born FAILED.       *)
IngestRejectedMedia(i) ==
    /\ item[i].status = "NONE"
    /\ \A j \in 1..(i - 1) : item[j].status # "NONE"
    /\ <<i, 0>> \in Slots \ Posts
    /\ item' = [item EXCEPT ![i].status =
                   IF Text[i] = "none" /\ SourceCount[i] = 1 THEN "FAILED" ELSE "QUEUED"]
    /\ source' = [source EXCEPT ![<<i, 0>>].state = "DEAD"]
    /\ UNCHANGED <<wk, tap, history, crashes>>

-----------------------------------------------------------------------------
(* ProcessingWorker.process_one and ProcessingPipeline.run                 *)

At(w, pc) == wk[w].pc = pc
Goto(w, pc) == wk' = [wk EXCEPT ![w].pc = pc]
SetStage(i, stage) == item' = [item EXCEPT ![i].stage = stage]

(* Faults: a claim without its condition on the status, or one that loses    *)
(* the id.                                                                 *)
ClaimUnfinished(w, i) ==
    /\ At(w, "idle")
    /\ item[i].status \in {"QUEUED", "PROCESSING"}
    /\ \A j \in Items : item[j].status = "QUEUED" => i <= j
    /\ item' = [item EXCEPT ![i].status = "PROCESSING"]
    /\ wk' = [wk EXCEPT ![w] = [IdleWorker EXCEPT !.pc = "claimed", !.item = i]]
    /\ UNCHANGED <<source, tap, history, crashes>>

ClaimForgotten(w, i) ==
    /\ At(w, "idle")
    /\ item[i].status = "QUEUED"
    /\ item' = [item EXCEPT ![i].status = "PROCESSING"]
    /\ wk' = [wk EXCEPT ![w] = [IdleWorker EXCEPT !.pc = "claimed"]]
    /\ UNCHANGED <<source, tap, history, crashes>>

Claim(w, i) ==
    /\ At(w, "idle")
    /\ item[i].status = "QUEUED"
    /\ \A j \in Items : item[j].status = "QUEUED" => i <= j
    /\ item' = [item EXCEPT ![i].status = "PROCESSING"]
    /\ wk' = [wk EXCEPT ![w] = [IdleWorker EXCEPT !.pc = "claimed", !.item = i]]
    /\ UNCHANGED <<source, tap, history, crashes>>

(* Words that may carry an analysis when every source failed.               *)
HasFallback(i) == Text[i] # "none"

(* Fault: a source that is PENDING again does not count.                    *)
RestorableWithoutPending(i) ==
    /\ \A s \in InState(i, {"READY"}) : source[<<i, s>>].saved
    /\ InState(i, {"READY"}) # {} \/ HasFallback(i)

(* _restored_content: all of it, or nothing.                                *)
Restorable(i) ==
    /\ InState(i, {"PENDING"}) = {}
    /\ \A s \in InState(i, {"READY"}) : source[<<i, s>>].saved
    /\ InState(i, {"READY"}) # {} \/ HasFallback(i)

(* topic_classification_content: the category is never drawn from the       *)
(* user's own note.                                                        *)
TopicEvidence(i, got) == got # {} \/ SourceCount[i] = 0 \/ Text[i] = "forwarded"

(* The run resumes at the stage that is durable.  PRIORITIZING needs        *)
(* nothing; ANALYZING and TOPIC_CLASSIFYING need the content, extracted     *)
(* again unless all of it can be restored; an analysis is kept from         *)
(* TOPIC_CLASSIFYING on.                                                    *)
ResumeAtPublish(w) ==
    /\ At(w, "claimed")
    /\ item[wk[w].item].stage = "PRIORITIZING"
    /\ Goto(w, "publish")
    /\ UNCHANGED <<item, source, tap, history, crashes>>

(* Fault: the durable analysis is not used.                                 *)
ResumeAnalysing(w) ==
    LET i == wk[w].item
    IN /\ At(w, "claimed")
       /\ item[i].stage \in {"ANALYZING", "TOPIC_CLASSIFYING"}
       /\ Restorable(i)
       /\ wk' = [wk EXCEPT ![w].got = InState(i, {"READY"}), ![w].pc = "analyze"]
       /\ UNCHANGED <<item, source, tap, history, crashes>>

ResumeWithContent(w) ==
    LET i == wk[w].item
        got == InState(i, {"READY"})
    IN /\ At(w, "claimed")
       /\ item[i].stage \in {"ANALYZING", "TOPIC_CLASSIFYING"}
       /\ Restorable(i)
       /\ IF item[i].stage = "TOPIC_CLASSIFYING" /\ ~TopicEvidence(i, got)
          THEN SetStage(i, "PRIORITIZING") ELSE UNCHANGED item
       /\ wk' = [wk EXCEPT ![w].got = got,
                           ![w].pc = CASE item[i].stage = "ANALYZING" -> "analyze"
                                       [] TopicEvidence(i, got) -> "classify"
                                       [] OTHER -> "publish"]
       /\ UNCHANGED <<source, tap, history, crashes>>

StartExtraction(w) ==
    LET i == wk[w].item
    IN /\ At(w, "claimed")
       /\ item[i].stage # "PRIORITIZING"
       /\ item[i].stage \in {"ANALYZING", "TOPIC_CLASSIFYING"} => ~Restorable(i)
       /\ SetStage(i, "EXTRACTING")
       /\ wk' = [wk EXCEPT ![w].pc = "extract",
                           ![w].kept = (item[i].stage = "TOPIC_CLASSIFYING")]
       /\ UNCHANGED <<source, tap, history, crashes>>

-----------------------------------------------------------------------------
(* _extract_item_sources: the sources in order, each on its own             *)

Slot(w) == <<wk[w].item, wk[w].at>>
Extracting(w) == At(w, "extract") /\ Slot(w) \in Slots
NextSource(w, got) == wk' = [wk EXCEPT ![w].at = @ + 1, ![w].got = @ \cup got]

SkipFailedSource(w) ==
    /\ Extracting(w)
    /\ source[Slot(w)].state \in {"FAILED", "DEAD"}
    /\ NextSource(w, {})
    /\ UNCHANGED <<item, source, tap, history, crashes>>

(* The adapter's content becomes durable: at once for transcripts and posts *)
(* (optional visual work comes after it), with the READY mark for the rest. *)
SaveSourceContent(w, holes) ==
    /\ Extracting(w)
    /\ source[Slot(w)].state \in {"PENDING", "READY"}
    /\ ~source[Slot(w)].saved
    /\ holes # "whole" => Slot(w) \in Posts
    /\ source' = [source EXCEPT ![Slot(w)].saved = TRUE, ![Slot(w)].holes = holes]
    /\ UNCHANGED <<item, wk, tap, history, crashes>>

(* Fault: READY is committed before the content.                            *)
MarkReadyFirst(w) ==
    /\ Extracting(w)
    /\ source[Slot(w)].state \in {"PENDING", "READY"}
    /\ source' = [source EXCEPT ![Slot(w)].state = "READY"]
    /\ NextSource(w, {wk[w].at})
    /\ UNCHANGED <<item, tap, history, crashes>>

(* Fresh or restored, content makes its source READY.                       *)
MarkSourceReady(w) ==
    /\ Extracting(w)
    /\ source[Slot(w)].state \in {"PENDING", "READY"}
    /\ source[Slot(w)].saved
    /\ source' = [source EXCEPT ![Slot(w)].state = "READY"]
    /\ NextSource(w, {wk[w].at})
    /\ UNCHANGED <<item, tap, history, crashes>>

(* An AppError of the adapter is this source's outcome, not the Item's.     *)
SourceFails(w, permanent) ==
    /\ Extracting(w)
    /\ source[Slot(w)].state \in {"PENDING", "READY"}
    /\ ~source[Slot(w)].saved
    /\ source' = [source EXCEPT ![Slot(w)].state = IF permanent THEN "DEAD" ELSE "FAILED"]
    /\ NextSource(w, {})
    /\ UNCHANGED <<item, tap, history, crashes>>

(* All sources visited: compose the content, or give up without any.  A     *)
(* kept analysis is not made again.                                        *)
Compose(w) ==
    LET i == wk[w].item
        got == wk[w].got
        stage == IF ~wk[w].kept THEN "ANALYZING"
                 ELSE IF TopicEvidence(i, got) THEN "TOPIC_CLASSIFYING" ELSE "PRIORITIZING"
    IN /\ At(w, "extract")
       /\ wk[w].at = SourceCount[i]
       /\ IF got = {} /\ ~HasFallback(i)
          THEN Goto(w, "failing") /\ UNCHANGED item
          ELSE /\ SetStage(i, stage)
               /\ Goto(w, CASE stage = "ANALYZING" -> "analyze"
                            [] stage = "TOPIC_CLASSIFYING" -> "classify"
                            [] OTHER -> "publish")
       /\ UNCHANGED <<source, tap, history, crashes>>

-----------------------------------------------------------------------------
(* Analysis, classification, publication                                   *)

(* _completeness: PARTIAL with a failed source or a post with missing parts *)
(* (or CAPTION_ONLY, which Retry treats alike for such a post).             *)
IsPartial(i, got) ==
    \/ Failures(i) # {}
    \/ \E s \in got : source[<<i, s>>].holes \in {"retryable", "lost"}

Analyze(w) ==
    LET i == wk[w].item
        got == wk[w].got
        next == IF TopicEvidence(i, got) THEN "TOPIC_CLASSIFYING" ELSE "PRIORITIZING"
    IN /\ At(w, "analyze")
       /\ item' = [item EXCEPT ![i].stage = next,
                               ![i].covered = got,
                               ![i].partial = IsPartial(i, got)]
       /\ Goto(w, IF next = "TOPIC_CLASSIFYING" THEN "classify" ELSE "publish")
       /\ history' = [history EXCEPT ![i].analyses = @ + 1, ![i].stale = FALSE]
       /\ UNCHANGED <<source, tap, crashes>>

Classify(w) ==
    /\ At(w, "classify")
    /\ SetStage(wk[w].item, "PRIORITIZING")
    /\ Goto(w, "publish")
    /\ UNCHANGED <<source, tap, history, crashes>>

Publish(w) ==
    /\ At(w, "publish")
    /\ item' = [item EXCEPT ![wk[w].item].status = "READY", ![wk[w].item].stage = "READY"]
    /\ Goto(w, "published")
    /\ UNCHANGED <<source, tap, history, crashes>>

Return(w) ==
    /\ At(w, "published")
    /\ wk' = [wk EXCEPT ![w] = IdleWorker]
    /\ UNCHANGED <<item, source, tap, history, crashes>>

(* A provider error, or the deadline of wait_for, at any await of the run.  *)
(* The deadline may also strike while the READY commit is on its way to     *)
(* disk: it is durable, yet the worker takes the failure path.              *)
Running == {"claimed", "extract", "analyze", "classify", "publish", "published"}

Interrupt(w) ==
    /\ wk[w].pc \in Running
    /\ Goto(w, "failing")
    /\ history' = [history EXCEPT ![wk[w].item].late = @ \/ At(w, "published")]
    /\ UNCHANGED <<item, source, tap, crashes>>

(* mark_failed writes whatever the status has become; the stage stays.      *)
MarkFailed(w) ==
    /\ At(w, "failing")
    /\ item' = [item EXCEPT ![wk[w].item].status = "FAILED"]
    /\ wk' = [wk EXCEPT ![w] = IdleWorker]
    /\ UNCHANGED <<source, tap, history, crashes>>

-----------------------------------------------------------------------------
(* Retry.  Handlers of one user run one at a time, beside the workers.      *)

(* Fault: any failed source may be retried.                                 *)
RetryReadAnyFailed(i) ==
    /\ tap = NoTap
    /\ item[i].status # "NONE"
    /\ history[i].retries < MaxRetries[i]
    /\ tap' = [item |-> i, failed |-> Failures(i) # {}, sources |-> Failures(i), posts |-> {}]
    /\ UNCHANGED <<item, source, wk, history, crashes>>

(* The sources are read first, outside the transaction of the update.       *)
RetryRead(i) ==
    /\ tap = NoTap
    /\ item[i].status # "NONE"
    /\ history[i].retries < MaxRetries[i]
    /\ tap' = [item |-> i,
               failed |-> Failures(i) # {},
               sources |-> InState(i, {"FAILED"}),
               posts |-> {s \in InState(i, {"READY"}) :
                             <<i, s>> \in Posts /\ source[<<i, s>>].holes \in {"recheck", "retryable"}}]
    /\ UNCHANGED <<item, source, wk, history, crashes>>

RetryablePartial(i, read) ==
    /\ item[i].status = "READY"
    /\ item[i].partial
    /\ read.sources \cup read.posts # {}

RetryableFailed(i, read) ==
    /\ item[i].status = "FAILED"
    /\ item[i].stage = "EXTRACTING" => ~read.failed \/ read.sources # {}

(* The conditional UPDATE and, when it wins, what it entails: the sources   *)
(* that were read as failed are PENDING again, and so are posts with        *)
(* retryable parts if extraction is where the Item resumes.                 *)
RetryWins == RetryablePartial(tap.item, tap) \/ RetryableFailed(tap.item, tap)

ResumeStage == IF RetryablePartial(tap.item, tap) THEN "EXTRACTING" ELSE item[tap.item].stage

RetryReopens == {<<tap.item, s>> :
                    s \in tap.sources \cup (IF ResumeStage = "EXTRACTING" THEN tap.posts ELSE {})}

Reopened(x) == [source[x] EXCEPT !.state = "PENDING", !.saved = @ /\ x \notin Posts]

RetryWon ==
    LET i == tap.item
        late == ResumeStage \in {"TOPIC_CLASSIFYING", "PRIORITIZING"} /\ RetryReopens # {}
    IN /\ tap # NoTap
       /\ RetryWins
       /\ item' = [item EXCEPT ![i].status = "QUEUED", ![i].stage = ResumeStage]
       /\ source' = [x \in Slots |-> IF x \in RetryReopens THEN Reopened(x) ELSE source[x]]
       /\ tap' = NoTap
       /\ history' = [history EXCEPT ![i].retries = @ + 1, ![i].stale = @ \/ late]
       /\ UNCHANGED <<wk, crashes>>

RetryLost ==
    /\ tap # NoTap
    /\ ~RetryWins
    /\ tap' = NoTap
    /\ UNCHANGED <<item, source, wk, history, crashes>>

-----------------------------------------------------------------------------
(* The process dies (also when a worker meets a database error) and starts  *)
(* again: requeue_stale, before any worker; the durable stage stays.        *)
(* Fault: interrupted Items are left alone.                                 *)
RequeueNothing == item

Requeued == [i \in Items |-> IF item[i].status = "PROCESSING"
                             THEN [item[i] EXCEPT !.status = "QUEUED"] ELSE item[i]]

CrashRestart ==
    /\ crashes < MaxCrashes
    /\ crashes' = crashes + 1
    /\ item' = Requeued
    /\ wk' = [w \in Workers |-> IdleWorker]
    /\ tap' = NoTap
    /\ UNCHANGED <<source, history>>

-----------------------------------------------------------------------------
Extract(w) == \/ SkipFailedSource(w)
              \/ \E holes \in {"whole", "recheck", "retryable", "lost"} : SaveSourceContent(w, holes)
              \/ MarkSourceReady(w)
              \/ \E permanent \in BOOLEAN : SourceFails(w, permanent)
              \/ Compose(w)

Advance(w) == \/ ResumeAtPublish(w) \/ ResumeWithContent(w) \/ StartExtraction(w)
              \/ Extract(w)
              \/ Analyze(w) \/ Classify(w)

User == \/ \E i \in Items : Ingest(i) \/ IngestRejectedMedia(i)
        \/ \E i \in Items : RetryRead(i)
        \/ RetryWon
        \/ RetryLost

Work(w) == \/ \E i \in Items : Claim(w, i)
           \/ Advance(w)
           \/ Publish(w)
           \/ Return(w)
           \/ MarkFailed(w)

Next == \/ User
        \/ \E w \in Workers : Work(w) \/ Interrupt(w)
        \/ CrashRestart

(* Workers are critical tasks: the process ends with any of them, and the   *)
(* deadline ends a run that hangs.                                         *)
Fairness == \A w \in Workers : WF_vars(Work(w) \/ Interrupt(w))

Spec == Init /\ [][Next]_vars
FairSpec == Spec /\ Fairness

-----------------------------------------------------------------------------
(* Properties                                                              *)

WorkerPcs == Running \cup {"idle", "failing"}

(* Every variable has its type; a worker past the claim holds an Item.      *)
TypeOK ==
    /\ item \in [Items -> ItemRows]
    /\ source \in [Slots -> SourceRows]
    /\ wk \in [Workers -> [pc : WorkerPcs, item : Items \cup {Nil}, at : 0..MaxSources,
                           got : SUBSET (0..MaxSources), kept : BOOLEAN]]
    /\ \A w \in Workers : wk[w].pc # "idle" => wk[w].item \in Items
    /\ tap \in [item : Items \cup {Nil}, failed : BOOLEAN,
                sources : SUBSET (0..MaxSources), posts : SUBSET (0..MaxSources)]
    /\ tap # NoTap => tap.item \in Items
    /\ history \in [Items -> [analyses : Nat, retries : Nat, late : BOOLEAN, stale : BOOLEAN]]
    /\ crashes \in Nat

(* A worker whose run is not over.                                          *)
Busy(w, i) == wk[w].pc \notin {"idle", "published"} /\ wk[w].item = i

(* "Two workers cannot take one Item" (ProcessingWorker): a claimed Item is *)
(* in the hands of exactly one worker until that worker publishes or fails  *)
(* it - nobody else re-queues it, and none is left PROCESSING with nobody   *)
(* at work on it, which only a restart would cure.  (Except after a         *)
(* deadline that struck a durable READY: `late`.)                           *)
SoleOwner ==
    \A i \in Items : ~history[i].late =>
        /\ item[i].status = "PROCESSING" => \E w \in Workers : Busy(w, i)
        /\ \A w \in Workers : Busy(w, i) => item[i].status = "PROCESSING"
        /\ \A v, w \in Workers : Busy(v, i) /\ Busy(w, i) => v = w

(* Checkpoints are honest (D-001): a source is READY only with durable      *)
(* content, and the Item stands at a stage past the analysis only with an   *)
(* analysis, whatever was interrupted in between.                           *)
CheckpointsAreHonest ==
    /\ \A x \in Slots : source[x].state = "READY" => source[x].saved
    /\ \A i \in Items :
          item[i].stage \in {"TOPIC_CLASSIFYING", "PRIORITIZING", "READY"}
              => history[i].analyses > 0

(* The primary analysis is paid for once, and once more per Retry: a crash, *)
(* a deadline or a failing classifier after it never buys another.          *)
AnalysisPaidOnce ==
    \A i \in Items : history[i].analyses <= 1 + history[i].retries

(* D-016: the result that is shown comes from all the sources that could be *)
(* extracted, and PARTIAL says exactly that something is missing.  (Not for *)
(* sources reopened behind a kept analysis: `stale`.)                       *)
ResultCoversSources ==
    \A i \in Items :
       item[i].status = "READY" /\ ~history[i].late /\ ~history[i].stale =>
          /\ InState(i, {"PENDING"}) = {}
          /\ item[i].covered = InState(i, {"READY"})
          /\ item[i].partial = IsPartial(i, item[i].covered)

(* Extraction outcomes are durable: a permanent failure is never tried      *)
(* again, and the content of a READY source is never fetched again (only a  *)
(* post with missing parts is reopened), by any mix of Retry, crash and     *)
(* deadline.                                                               *)
OutcomesAreDurable ==
    [][\A x \in Slots :
          /\ source[x].state = "DEAD" => source'[x].state = "DEAD"
          /\ source[x].state = "READY" /\ x \notin Posts => source'[x] = source[x]]_vars

(* Every Item in the queue reaches an outcome, whatever fails or hangs on   *)
(* the way, the oldest Item first, and across process deaths.               *)
EveryItemSettles ==
    \A i \in Items : item[i].status = "QUEUED" ~> item[i].status \in {"READY", "FAILED"}

(* Seen one by one, the sources keep to what OneSource says of any.         *)
Source == INSTANCE OneSource WITH
    Sources <- Slots,
    row <- [x \in Slots |-> [source[x] EXCEPT !.holes = IF source[x].saved THEN @ ELSE "whole"]]

-----------------------------------------------------------------------------
(* What the repository says and the code does not do                        *)

(* D-016 without the exception above: "after extraction all successful      *)
(* parts are gathered into one content and pass one Analyzer".              *)
EveryResultCoversSources ==
    \A i \in Items :
       item[i].status = "READY" /\ ~history[i].late => item[i].covered = InState(i, {"READY"})

(* "A processing error does not lose the Item: it becomes FAILED [...] and  *)
(* stays available for Retry" (ProcessingWorker.process_one): at least when *)
(* something is left to try or to analyse.                                  *)
WorthRetrying(i) == InState(i, {"PENDING", "READY", "FAILED"}) # {} \/ HasFallback(i)

FailedStaysRetryable ==
    \A i \in Items :
       item[i].status = "FAILED" /\ WorthRetrying(i) =>
          RetryableFailed(i, [failed |-> Failures(i) # {}, sources |-> InState(i, {"FAILED"})])
=============================================================================
