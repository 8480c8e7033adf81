----------------------------- MODULE ExportJobs -----------------------------
(***************************************************************************)
(* /export: durable jobs, the archives they leave on disk, and the         *)
(* deliveries that send and remove them (app/services/export.py,           *)
(* app/workers/export.py, the EXPORT_FILE parts of                         *)
(* app/services/delivery.py).  The database and the directory have no      *)
(* common transaction: every action changes one of them, and a process may *)
(* die between any two.  Two processes may overlap: a process reads the    *)
(* status of a row again before it commits, but the commit itself is an    *)
(* UPDATE by id, which no condition on the status guards.                  *)
(***************************************************************************)
EXTENDS Naturals, FiniteSets

CONSTANTS Jobs,         \* job ids in the order of creation; a Telegram message each
          Processes,    \* processes of the program; two may overlap
          First,        \* the one that runs at first
          MaxAttempts,  \* DeliveryWorker.max_attempts
          MaxFiles,     \* bound: archives begun for one job
          MaxRestarts,  \* bound: process starts after the first
          Nil

ExportAssumption == /\ Jobs \subseteq Nat /\ Nil \notin Jobs
                    /\ First \in Processes
                    /\ {MaxAttempts, MaxFiles} \subseteq Nat \ {0}
                    /\ MaxRestarts \in Nat

Files == Jobs \X (1..MaxFiles)   \* names are never used twice (uuid4)
Rows == Jobs \X {"EXPORT_FILE", "EXPORT_FAILED"}   \* deliveries: one of a type for a job

VARIABLES job,       \* [Jobs -> status]
          delivery,  \* [Rows -> [st, file, attempts]], st "NONE" without a row
          file,      \* [Files -> "unused" | "temp" | "final" | "removed"]
          aged,      \* files older than the retention
          worker,    \* [Processes -> the export worker]
          sender,    \* [Processes -> the delivery worker]
          restarts

vars == <<job, delivery, file, aged, worker, sender, restarts>>

NoDelivery == [st |-> "NONE", file |-> Nil, attempts |-> 0]
Idle == [pc |-> "idle", job |-> Nil, file |-> Nil, doomed |-> {}, newer |-> FALSE, code |-> Nil]
Off == [Idle EXCEPT !.pc = "off"]    \* not started
Waiting == [pc |-> "idle", row |-> Nil]

Init == /\ job = [j \in Jobs |-> "NONE"]
        /\ delivery = [r \in Rows |-> NoDelivery]
        /\ file = [f \in Files |-> "unused"]
        /\ aged = {}
        /\ worker = [p \in Processes |-> IF p = First THEN Idle ELSE Off]
        /\ sender = [p \in Processes |-> IF p = First THEN Waiting
                                        ELSE [Waiting EXCEPT !.pc = "off"]]
        /\ restarts = 0

(* enqueue_export: the message identity absorbs a redelivered update.       *)
Enqueue(j) == /\ job[j] = "NONE" /\ \A k \in Jobs : k < j => job[k] # "NONE"
              /\ job' = [job EXCEPT ![j] = "PENDING"]
              /\ UNCHANGED <<delivery, file, aged, worker, sender, restarts>>

-----------------------------------------------------------------------------
(* Generation: ExportWorker.process_one, ExportService.process             *)

Work(p, new) == worker' = [worker EXCEPT ![p] = new]
OnlyWorker == UNCHANGED <<delivery, aged, sender, restarts>>

(* claim_oldest_export_job                                                  *)
Claim(p, j) == /\ worker[p].pc = "idle"
               /\ job[j] = "PENDING" /\ \A k \in Jobs : job[k] = "PENDING" => j <= k
               /\ job' = [job EXCEPT ![j] = "RUNNING"]
               /\ Work(p, [Idle EXCEPT !.pc = "claimed", !.job = j])
               /\ file' = file /\ OnlyWorker

(* build_export_snapshot: one session, but the driver begins a transaction  *)
(* only at the first write, so every SELECT sees the database of its own    *)
(* moment.  The Items and their sources come first; reminders, events and   *)
(* primary contents must then refer to what was read.  `newer`: an Item was *)
(* saved since, with its sources and its CREATED event.                     *)
ReadItems(p) == /\ worker[p].pc = "claimed"
                /\ Work(p, [worker[p] EXCEPT !.pc = "items"])
                /\ UNCHANGED <<job, file>> /\ OnlyWorker

(* Whether the rows read now name an Item that was not read.                *)
ReadReferences(p, from, to, foreign) ==
    /\ worker[p].pc = from
    /\ Work(p, IF foreign THEN [worker[p] EXCEPT !.pc = "failed", !.newer = FALSE,
                                                  !.code = "EXPORT_INVALID_SNAPSHOT"]
               ELSE [worker[p] EXCEPT !.pc = to])
    /\ UNCHANGED <<job, file>> /\ OnlyWorker

(* A new Item may have a reminder or a content by now; its event it has.    *)
May(b) == IF b THEN BOOLEAN ELSE {FALSE}
ReadReminders(p) == \E foreign \in May(worker[p].newer) :
                       ReadReferences(p, "items", "reminders", foreign)
ReadEvents(p) == ReadReferences(p, "reminders", "events", worker[p].newer)
ReadContents(p) == \E foreign \in May(worker[p].newer) :
                      ReadReferences(p, "events", "projecting", foreign)

(* No owner, an unknown mode, too much content.                             *)
Refuse(p) == /\ worker[p].pc \in {"claimed", "events"}
             /\ Work(p, [worker[p] EXCEPT !.pc = "failed", !.newer = FALSE])
             /\ UNCHANGED <<job, file>> /\ OnlyWorker

(* The rows become portable records; the session is closed.                 *)
Project(p) == /\ worker[p].pc = "projecting"
              /\ Work(p, [worker[p] EXCEPT !.pc = "snapshot", !.newer = FALSE])
              /\ UNCHANGED <<job, file>> /\ OnlyWorker

(* ingest_* commits an Item while exports read.                             *)
Reading == {p \in Processes : worker[p].pc \in {"items", "reminders", "events", "projecting"}}
SaveItem == /\ Reading # {}
            /\ worker' = [p \in Processes |-> IF p \in Reading THEN [worker[p] EXCEPT !.newer = TRUE]
                                              ELSE worker[p]]
            /\ UNCHANGED <<job, file>> /\ OnlyWorker

(* _write_archive, on a thread: a temporary file, an atomic rename, a last  *)
(* check of what is there.                                                  *)
WriteTemp(p, f) ==
    /\ worker[p].pc = "snapshot"
    /\ f[1] = worker[p].job /\ file[f] = "unused"
    /\ \A n \in 1..(f[2] - 1) : file[<<f[1], n>>] # "unused"
    /\ file' = [file EXCEPT ![f] = "temp"]
    /\ Work(p, [worker[p] EXCEPT !.pc = "writing", !.file = f])
    /\ job' = job /\ OnlyWorker

Publish(p) == /\ worker[p].pc = "writing"
              /\ file' = [file EXCEPT ![worker[p].file] = "final"]
              /\ Work(p, [worker[p] EXCEPT !.pc = "published"])
              /\ job' = job /\ OnlyWorker

Validate(p) == /\ worker[p].pc = "published"
               /\ Work(p, [worker[p] EXCEPT !.pc = "ready"])
               /\ UNCHANGED <<job, file>> /\ OnlyWorker

(* Too large, damaged, or any error on the way: both names are unlinked.    *)
Abandon(p) == /\ worker[p].pc \in {"writing", "published"}
              /\ file' = [file EXCEPT ![worker[p].file] = "removed"]
              /\ Work(p, [worker[p] EXCEPT !.pc = "failed"])
              /\ job' = job /\ OnlyWorker

(* process, fail: session.get, whose SELECT begins no transaction.  An      *)
(* overtaken process removes what it wrote.                                 *)
Reread(p) ==
    LET w == worker[p]
    IN /\ w.pc \in {"ready", "failed"}
       /\ IF job[w.job] = "RUNNING"
          THEN /\ Work(p, [w EXCEPT !.pc = IF @ = "ready" THEN "finishing" ELSE "failing"])
               /\ file' = file
          ELSE /\ Work(p, Idle)
               /\ file' = IF w.pc = "ready" THEN [file EXCEPT ![w.file] = "removed"] ELSE file
       /\ job' = job /\ OnlyWorker

(* enqueue_export_delivery: unless there is a row of that type.             *)
Notify(r, f) == delivery' = IF delivery[r].st = "NONE"
                            THEN [delivery EXCEPT ![r] = [st |-> "PENDING", file |-> f,
                                                          attempts |-> 0]]
                            ELSE delivery

(* The status by id and the delivery of the archive, or of the failure, in  *)
(* one commit.                                                              *)
Commit(p, st, type) ==
    /\ job' = [job EXCEPT ![worker[p].job] = st]
    /\ Notify(<<worker[p].job, type>>, IF type = "EXPORT_FILE" THEN worker[p].file ELSE Nil)
    /\ Work(p, Idle)
    /\ UNCHANGED <<file, aged, sender, restarts>>

Finish(p) == worker[p].pc = "finishing" /\ Commit(p, "DONE", "EXPORT_FILE")
Fail(p) == worker[p].pc = "failing" /\ Commit(p, "FAILED", "EXPORT_FAILED")

-----------------------------------------------------------------------------
(* Retention: cleanup_export_artifacts, at the start and every hour between *)
(* two jobs.                                                               *)

OnDisk == {f \in Files : file[f] \in {"temp", "final"}}

FileRow(j) == delivery[<<j, "EXPORT_FILE">>]
ActiveNames == {FileRow(j).file : j \in {k \in Jobs : FileRow(k).st \in {"PENDING", "SENDING"}}}

(* Fault: only published archives are recognized as the program's own.      *)
ExpiredPublished == {f \in aged : file[f] = "final"} \ ActiveNames

(* App-owned names older than the cutoff, temporary ones included.          *)
Expired == (OnDisk \cap aged) \ ActiveNames

(* The names of the active rows are read, and the cutoff is fixed; the      *)
(* files go one by one while the senders work.                              *)
StartCleanup(p) == /\ worker[p].pc = "idle" /\ Expired # {}
                   /\ Work(p, [Idle EXCEPT !.pc = "cleaning", !.doomed = Expired])
                   /\ UNCHANGED <<job, file>> /\ OnlyWorker

RemoveExpired(p) == /\ worker[p].pc = "cleaning"
                    /\ \E f \in worker[p].doomed \cap OnDisk :
                          file' = [file EXCEPT ![f] = "removed"]
                    /\ UNCHANGED <<job, worker>> /\ OnlyWorker

EndCleanup(p) == /\ worker[p].pc = "cleaning" /\ worker[p].doomed \cap OnDisk = {}
                 /\ Work(p, Idle)
                 /\ UNCHANGED <<job, file>> /\ OnlyWorker

-----------------------------------------------------------------------------
(* Sending: DeliveryWorker                                                 *)

OnlySender == UNCHANGED <<job, aged, worker, restarts>>
SenderAt(p, pc) ==
    sender' = [sender EXCEPT ![p] = IF pc = "idle" THEN Waiting ELSE [@ EXCEPT !.pc = pc]]

ClaimDelivery(p, r) ==
    /\ sender[p].pc = "idle" /\ delivery[r].st = "PENDING"
    /\ delivery' = [delivery EXCEPT ![r].st = "SENDING", ![r].attempts = @ + 1]
    /\ sender' = [sender EXCEPT ![p] = [pc |-> "claimed", row |-> r]]
    /\ file' = file /\ OnlySender

(* _send, its session: the job must be what the delivery says of it.        *)
Load(p) ==
    LET r == sender[p].row
    IN /\ sender[p].pc = "claimed"
       /\ SenderAt(p, IF job[r[1]] = (IF r[2] = "EXPORT_FILE" THEN "DONE" ELSE "FAILED")
                      THEN "sending" ELSE "failed")
       /\ UNCHANGED <<delivery, file>> /\ OnlySender

(* The archive must be there, unchanged; Telegram may refuse.               *)
Readable(r) == r[2] = "EXPORT_FILE" => file[delivery[r].file] = "final"
Send(p, accepted) ==
    /\ sender[p].pc = "sending"
    /\ accepted => Readable(sender[p].row)
    /\ SenderAt(p, IF accepted THEN "sent" ELSE "failed")
    /\ UNCHANGED <<delivery, file>> /\ OnlySender

(* _mark_sent, _record_failure: session.get.  Who finds the row no longer   *)
(* SENDING leaves it; the attempts of a failed one are those read here.     *)
RereadRow(p) ==
    LET row == delivery[sender[p].row]
    IN /\ sender[p].pc \in {"sent", "failed"}
       /\ SenderAt(p, CASE row.st # "SENDING" -> "idle"
                        [] row.st = "SENDING" /\ sender[p].pc = "sent" -> "marking"
                        [] row.st = "SENDING" /\ sender[p].pc = "failed" ->
                              IF row.attempts < MaxAttempts THEN "retrying" ELSE "refusing")
       /\ UNCHANGED <<delivery, file>> /\ OnlySender

(* The writes, by id.                                                       *)
Write(p, st) == delivery' = [delivery EXCEPT ![sender[p].row].st = st]

(* Fault: the archive goes before the row says SENT.                        *)
MarkSentAfterRemoval(p) ==
    LET r == sender[p].row
    IN /\ sender[p].pc = "marking"
       /\ \/ /\ r[2] = "EXPORT_FILE" /\ Readable(r)
             /\ file' = [file EXCEPT ![delivery[r].file] = "removed"]
             /\ UNCHANGED <<delivery, sender>>
          \/ /\ r[2] # "EXPORT_FILE" \/ ~Readable(r)
             /\ Write(p, "SENT") /\ SenderAt(p, "idle")
             /\ file' = file
       /\ OnlySender

(* _mark_sent: SENT first, then the archive is removed.                     *)
MarkSent(p) ==
    /\ sender[p].pc = "marking"
    /\ Write(p, "SENT")
    /\ SenderAt(p, IF sender[p].row[2] = "EXPORT_FILE" THEN "removing" ELSE "idle")
    /\ file' = file /\ OnlySender

(* The removal may fail: it is only logged.                                 *)
RemoveSent(p, works) ==
    LET f == delivery[sender[p].row].file
    IN /\ sender[p].pc = "removing"
       /\ file' = IF works THEN [file EXCEPT ![f] = "removed"] ELSE file
       /\ SenderAt(p, "idle")
       /\ delivery' = delivery /\ OnlySender

(* _record_failure                                                          *)
RecordFailure(p) ==
    /\ \/ sender[p].pc = "retrying" /\ Write(p, "PENDING")
       \/ sender[p].pc = "refusing" /\ Write(p, "FAILED")
    /\ SenderAt(p, "idle")
    /\ file' = file /\ OnlySender

-----------------------------------------------------------------------------
(* A file grows older than the retention, which no generation lasts.        *)
Age(f) == /\ f \in OnDisk \ aged /\ \A p \in Processes : worker[p].file # f
          /\ aged' = aged \cup {f}
          /\ UNCHANGED <<job, delivery, file, worker, sender, restarts>>

(* A process dies and starts again: what is RUNNING and SENDING is requeued. *)
Restart(p) ==
    /\ restarts < MaxRestarts /\ restarts' = restarts + 1
    /\ job' = [j \in Jobs |-> IF job[j] = "RUNNING" THEN "PENDING" ELSE job[j]]
    /\ delivery' = [r \in Rows |-> IF delivery[r].st = "SENDING"
                                   THEN [delivery[r] EXCEPT !.st = "PENDING"] ELSE delivery[r]]
    /\ worker' = [worker EXCEPT ![p] = Idle]
    /\ sender' = [sender EXCEPT ![p] = Waiting]
    /\ UNCHANGED <<file, aged>>

Generate(p) == \/ \E j \in Jobs : Claim(p, j)
               \/ ReadItems(p) \/ ReadReminders(p) \/ ReadEvents(p) \/ ReadContents(p)
               \/ Refuse(p) \/ Project(p)
               \/ \E f \in Files : WriteTemp(p, f)
               \/ Publish(p) \/ Validate(p) \/ Abandon(p)
               \/ Reread(p) \/ Finish(p) \/ Fail(p)
Cleanup(p) == StartCleanup(p) \/ RemoveExpired(p) \/ EndCleanup(p)
Deliver(p) == \/ \E r \in Rows : ClaimDelivery(p, r)
              \/ Load(p)
              \/ \E accepted \in BOOLEAN : Send(p, accepted)
              \/ RereadRow(p) \/ MarkSent(p) \/ RecordFailure(p)
              \/ \E works \in BOOLEAN : RemoveSent(p, works)

Next == \/ \E j \in Jobs : Enqueue(j)
        \/ \E p \in Processes : Generate(p) \/ Cleanup(p) \/ Deliver(p) \/ Restart(p)
        \/ \E f \in Files : Age(f)
        \/ SaveItem

Spec == Init /\ [][Next]_vars

(* The worker loop alternates cleanup and jobs, the sender has its own; a   *)
(* file that stays grows old.                                               *)
Fairness == /\ \A p \in Processes : /\ WF_vars(Generate(p)) /\ WF_vars(Cleanup(p))
                                    /\ WF_vars(Deliver(p))
            /\ \A f \in Files : WF_vars(Age(f))
FairSpec == Spec /\ Fairness

-----------------------------------------------------------------------------
TypeOK == /\ job \in [Jobs -> {"NONE", "PENDING", "RUNNING", "DONE", "FAILED"}]
          /\ delivery \in [Rows -> [st : {"NONE", "PENDING", "SENDING", "SENT", "FAILED"},
                                    file : Files \cup {Nil}, attempts : Nat]]
          /\ file \in [Files -> {"unused", "temp", "final", "removed"}]
          /\ aged \subseteq Files
          /\ \A p \in Processes : worker[p].pc \notin {"idle", "cleaning", "off"}
                                  => worker[p].job \in Jobs
          /\ restarts \in 0..MaxRestarts

(* "Read an owner-scoped consistent snapshot" (app/services/export.py:786):  *)
(* every row names a saved Item at every moment, so no export is refused    *)
(* for a row that names an Item it does not have.                           *)
ConsistentSnapshot == \A p \in Processes : worker[p].code # "EXPORT_INVALID_SNAPSHOT"

(* No second process has been started beside the first: deaths and restarts *)
(* of one process are all there was, as the deployment has it.              *)
Alone == \A p \in Processes \ {First} : worker[p].pc = "off"

(* What is still to be sent is there to be sent: no retention, death or     *)
(* repeated delivery takes the archive of an active row away.  Processes    *)
(* that overlap may: one removes what it sent, and a late failure of the    *)
(* other makes the row PENDING again.                                       *)
ActiveDeliveryHasArtifact == Alone => \A f \in ActiveNames : file[f] = "final"

(* Private archives do not pile up: whatever dies where, every file that    *)
(* was begun is gone in the end.                                            *)
ArchivesVanish == \A f \in Files : []<>(f \notin OnDisk)

(* One outcome for every export, and one announcement of it.                *)
Outcome == [j \in Jobs |-> CASE job[j] = "NONE" -> "none" [] job[j] = "DONE" -> "answered"
                             [] job[j] = "FAILED" -> "refused" [] OTHER -> "open"]
Notices == [j \in Jobs |-> {type \in {"EXPORT_FILE", "EXPORT_FAILED"} :
                              delivery[<<j, type>>].st # "NONE"}]

Promise == INSTANCE OneOutcome WITH
    Requests <- Jobs, outcome <- Outcome, notices <- Notices, alone <- Alone,
    AnswerNotices <- [j \in Jobs |-> {"EXPORT_FILE"}],
    RefusalNotices <- [j \in Jobs |-> {"EXPORT_FAILED"}]
=============================================================================
