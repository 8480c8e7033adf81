--------------------------- MODULE ExportJobsProofs ---------------------------
(***************************************************************************)
(* Theorems about ExportJobs, for any jobs, processes, deaths and ageing   *)
(* files.  While no second process has been started, the archive of a      *)
(* delivery that is still to be sent is on disk, and an export has one     *)
(* outcome, announced in the commit that decides it.  Once two processes   *)
(* overlap, an outcome may be replaced by the other one, announced as well; *)
(* nothing is ever open again, and no announcement is lost.                *)
(***************************************************************************)
EXTENDS ExportJobs, TLAPS

JobStatuses == {"NONE", "PENDING", "RUNNING", "DONE", "FAILED"}
DeliveryType == [st : {"NONE", "PENDING", "SENDING", "SENT", "FAILED"},
                 file : Files \cup {Nil}, attempts : Nat]
FileStates == {"unused", "temp", "final", "removed"}
HoldPcs == {"writing", "published", "ready", "finishing"}
AtRest == {"idle", "cleaning", "off"}
WorkerType == [pc : HoldPcs \cup AtRest \cup
                    {"claimed", "items", "reminders", "events", "projecting", "snapshot",
                     "failed", "failing"},
               job : Jobs \cup {Nil}, file : Files \cup {Nil}, doomed : SUBSET Files,
               newer : BOOLEAN, code : {Nil, "EXPORT_INVALID_SNAPSHOT"}]
Sending == {"claimed", "sending", "sent", "failed", "marking", "retrying", "refusing"}
SenderType == [pc : {"idle", "off", "removing"} \cup Sending, row : Rows \cup {Nil}]

Types == /\ job \in [Jobs -> JobStatuses]
         /\ delivery \in [Rows -> DeliveryType]
         /\ file \in [Files -> FileStates]
         /\ aged \subseteq Files
         /\ worker \in [Processes -> WorkerType]
         /\ sender \in [Processes -> SenderType]
         /\ restarts \in 0..MaxRestarts

(* The archives that a row names, sent or not.                              *)
Named == {FileRow(j).file : j \in {k \in Jobs : FileRow(k).st # "NONE"}}

(* The archive a worker is at work on is its own, young and not in a row;   *)
(* what it cleans up is old.                                                *)
Holds(r) == r.pc \in HoldPcs
Fine(r) ==
    /\ r.pc \notin AtRest => r.job \in Jobs /\ job[r.job] # "NONE"
    /\ Holds(r) => /\ r.file \in Files /\ r.file[1] = r.job
                   /\ r.file \notin aged /\ r.file \notin Named
                   /\ file[r.file] = IF r.pc = "writing" THEN "temp" ELSE "final"
    /\ r.doomed \subseteq aged
WorkersFine == \A p \in Processes : Fine(worker[p])

Apart == \A p, q \in Processes :
            Holds(worker[p]) /\ Holds(worker[q]) /\ worker[p].file = worker[q].file => p = q

(* A row comes with an outcome of its job, the last outcome has its row,    *)
(* and the row of an archive names an archive of the job.                   *)
RowFine(j) ==
    /\ \A type \in {"EXPORT_FILE", "EXPORT_FAILED"} :
          delivery[<<j, type>>].st # "NONE" => job[j] \in {"DONE", "FAILED"}
    /\ job[j] = "DONE" => FileRow(j).st # "NONE"
    /\ job[j] = "FAILED" => delivery[<<j, "EXPORT_FAILED">>].st # "NONE"
    /\ FileRow(j).st # "NONE" => /\ FileRow(j).file \in Files /\ FileRow(j).file[1] = j
                                 /\ file[FileRow(j).file] # "unused"
RowsFine == \A j \in Jobs : RowFine(j)

(* A sender has a row, of an archive if it removes one; it runs when the    *)
(* worker of its process does.                                              *)
SenderFine(p) ==
    /\ sender[p].pc \in Sending \cup {"removing"} =>
          sender[p].row \in Rows /\ delivery[sender[p].row].st # "NONE"
    /\ sender[p].pc = "removing" => sender[p].row[2] = "EXPORT_FILE"
    /\ sender[p].pc = "off" <=> worker[p].pc = "off"
SendersFine == \A p \in Processes : SenderFine(p)

AgedFine == \A f \in aged : file[f] # "unused"

Base == Types /\ WorkersFine /\ Apart /\ RowsFine /\ SendersFine /\ AgedFine

(* What holds as long as nobody else writes: between the read of a status   *)
(* and the write by id it stays as it was read, and what cleanup is to      *)
(* remove is not wanted again.                                              *)
Held ==
    /\ worker[First].pc \notin AtRest => job[worker[First].job] = "RUNNING"
    /\ worker[First].doomed \cap ActiveNames = {}
    /\ sender[First].pc \in Sending => delivery[sender[First].row].st = "SENDING"
    /\ sender[First].pc = "removing" => delivery[sender[First].row].st = "SENT"
    /\ \A f \in ActiveNames : file[f] = "final"

IInv == Base /\ (Alone => Held)

-----------------------------------------------------------------------------
LEMMA IdleTyped ==
  /\ Idle \in WorkerType /\ Off \in WorkerType
  /\ Idle.pc = "idle" /\ Off.pc = "off" /\ Idle.doomed = {} /\ Off.doomed = {}
  BY DEF Idle, Off, WorkerType, AtRest

LEMMA WaitingTyped ==
  LET off == [Waiting EXCEPT !.pc = "off"]
  IN Waiting \in SenderType /\ Waiting.pc = "idle" /\ off \in SenderType /\ off.pc = "off"
  BY DEF Waiting, SenderType

LEMMA IdleFine == ASSUME NEW r, r.pc \in AtRest, r.doomed = {} PROVE Fine(r) /\ ~Holds(r)
  BY DEF Fine, Holds, HoldPcs, AtRest

(* The rows of a job.                                                       *)
LEMMA RowOf ==
  ASSUME NEW j \in Jobs
  PROVE  <<j, "EXPORT_FILE">> \in Rows /\ <<j, "EXPORT_FAILED">> \in Rows
  BY DEF Rows

LEMMA RowParts ==
  ASSUME NEW r \in Rows
  PROVE  /\ r[1] \in Jobs /\ r[2] \in {"EXPORT_FILE", "EXPORT_FAILED"}
         /\ r = <<r[1], r[2]>>
  BY DEF Rows

LEMMA NamesActive == ActiveNames \subseteq Named
  BY DEF ActiveNames, Named

LEMMA InitInvariant == ASSUME ExportAssumption, Init PROVE IInv
<1>1. NoDelivery \in DeliveryType /\ NoDelivery.st = "NONE"
  BY DEF NoDelivery, DeliveryType
<1>2. \A r \in Rows : delivery[r].st = "NONE"
  BY <1>1 DEF Init
<1>3. Types
  <2>1. restarts \in 0..MaxRestarts
    BY DEF Init, ExportAssumption
  <2>2. delivery \in [Rows -> DeliveryType]
    BY <1>1 DEF Init
  <2>3. worker \in [Processes -> WorkerType] /\ sender \in [Processes -> SenderType]
    BY WaitingTyped, IdleTyped DEF Init
  <2> QED
    BY <2>1, <2>2, <2>3 DEF Init, Types, JobStatuses, FileStates
<1>4. \A p \in Processes : worker[p].pc \in AtRest /\ worker[p].doomed = {}
  BY IdleTyped DEF Init, AtRest
<1>5. WorkersFine /\ Apart
  BY <1>4, IdleFine DEF WorkersFine, Apart, Holds, HoldPcs, AtRest
<1>6. RowsFine /\ ActiveNames = {}
  BY <1>2, RowOf DEF Init, RowsFine, RowFine, FileRow, ActiveNames
<1>7. SendersFine /\ AgedFine
  BY WaitingTyped, IdleTyped DEF Init, SendersFine, SenderFine, Sending, AgedFine
<1>8. Held
  BY <1>6, IdleTyped, WaitingTyped DEF Init, Held, ExportAssumption, AtRest, Sending
<1> QED
  BY <1>3, <1>5, <1>6, <1>7, <1>8 DEF IInv, Base

-----------------------------------------------------------------------------
(* What a step leaves alone.                                               *)

(* Jobs move on: an outcome stays, and what was requested stays requested.  *)
JobsMove == /\ job' \in [Jobs -> JobStatuses]
            /\ \A j \in Jobs : \/ job'[j] = job[j]
                               \/ /\ job[j] \in {"NONE", "PENDING", "RUNNING"}
                                  /\ job'[j] \in {"PENDING", "RUNNING"}

LEMMA JobsKept == ASSUME Base, job' = job PROVE JobsMove
  BY DEF Base, Types, JobsMove

(* Rows change their status, and are neither made nor unmade.               *)
RowsMove == /\ delivery' \in [Rows -> DeliveryType]
            /\ \A r \in Rows : /\ delivery'[r].st = "NONE" <=> delivery[r].st = "NONE"
                               /\ delivery'[r].file = delivery[r].file

LEMMA RowsKept == ASSUME Base, delivery' = delivery PROVE RowsMove
  BY DEF Base, Types, RowsMove

LEMMA SameNames == ASSUME RowsMove PROVE Named' = Named
  BY RowOf DEF Named, FileRow, RowsMove

(* A worker stays fine while its archive stays as it is.                    *)
LEMMA StaysFine ==
  ASSUME JobsMove, Named' = Named, NEW p \in Processes, NEW r, Fine(r), worker'[p] = r,
         aged \subseteq aged',
         Holds(r) => file'[r.file] = file[r.file] /\ r.file \notin aged'
  PROVE  Fine(worker[p])'
<1>1. r.pc \notin AtRest => job'[r.job] # "NONE"
  BY DEF JobsMove, Fine
<1> QED
  BY <1>1 DEF Fine, Holds

LEMMA RowsStayFine ==
  ASSUME Base, JobsMove, RowsMove, \A f \in Files : file[f] # "unused" => file'[f] # "unused"
  PROVE  RowsFine'
<1>1. ASSUME NEW j \in Jobs PROVE RowFine(j)'
  <2>1. RowFine(j) /\ <<j, "EXPORT_FILE">> \in Rows /\ <<j, "EXPORT_FAILED">> \in Rows
    BY RowOf DEF Base, RowsFine
  <2> QED
    BY <2>1 DEF RowFine, FileRow, JobsMove, RowsMove
<1> QED
  BY <1>1 DEF RowsFine

(* A worker goes on by itself, jobs begin.                                  *)
LEMMA WorkerMoves ==
  ASSUME Base, JobsMove, NEW p \in Processes, NEW new \in WorkerType, Fine(new),
         Holds(new) => Holds(worker[p]) /\ new.file = worker[p].file,
         new.pc # "off", worker[p].pc # "off",
         worker' = [worker EXCEPT ![p] = new],
         UNCHANGED <<delivery, file, aged, sender, restarts>>
  PROVE  Base'
<1>1. /\ worker' \in [Processes -> WorkerType]
      /\ \A q \in Processes : worker'[q] = IF q = p THEN new ELSE worker[q]
  BY DEF Base, Types
<1>2. WorkersFine'
  <2>1. ASSUME NEW q \in Processes PROVE Fine(worker[q])'
    <3> DEFINE r == IF q = p THEN new ELSE worker[q]
    <3>1. Fine(r) /\ worker'[q] = r
      BY <1>1 DEF Base, WorkersFine
    <3>2. Holds(r) => file'[r.file] = file[r.file] /\ r.file \notin aged'
      BY <3>1 DEF Fine
    <3> HIDE DEF r
    <3> QED
      BY <3>1, <3>2, RowsKept, SameNames, StaysFine
  <2> QED
    BY <2>1 DEF WorkersFine
<1>3. Apart'
  <2>1. \A q \in Processes : Holds(worker'[q]) => /\ Holds(worker[q])
                                                  /\ worker'[q].file = worker[q].file
    BY <1>1
  <2> QED
    BY <2>1 DEF Base, Apart, Holds
<1>4. RowsFine'
  BY RowsKept, RowsStayFine
<1>5. SendersFine' /\ AgedFine'
  BY <1>1 DEF Base, SendersFine, SenderFine, AgedFine
<1>6. Types'
  BY <1>1 DEF Base, Types, JobsMove
<1> QED
  BY <1>2, <1>3, <1>4, <1>5, <1>6 DEF Base

(* A file that nobody holds may go.                                         *)
LEMMA FileGoes ==
  ASSUME Base, NEW f \in Files, file[f] # "unused", file' = [file EXCEPT ![f] = "removed"],
         worker' \in [Processes -> WorkerType],
         \A q \in Processes : \/ worker'[q] = worker[q]
                              \/ ~Holds(worker'[q]) /\ Fine(worker'[q]),
         \A q \in Processes : Holds(worker'[q]) => worker'[q].file # f,
         sender' \in [Processes -> SenderType], SendersFine',
         UNCHANGED <<job, delivery, aged, restarts>>
  PROVE  Base'
<1>1. /\ file' \in [Files -> FileStates]
      /\ \A g \in Files : file'[g] = IF g = f THEN "removed" ELSE file[g]
  BY DEF Base, Types, FileStates
<1>2. WorkersFine'
  <2>1. ASSUME NEW q \in Processes PROVE Fine(worker[q])'
    <3>1. PICK r : r = worker'[q]
      OBVIOUS
    <3>2. Fine(r)
      BY <3>1 DEF Base, WorkersFine
    <3>3. Holds(r) => file'[r.file] = file[r.file] /\ r.file \notin aged'
      BY <1>1, <3>1, <3>2 DEF Fine
    <3> QED
      BY <3>1, <3>2, <3>3, JobsKept, RowsKept, SameNames, StaysFine
  <2> QED
    BY <2>1 DEF WorkersFine
<1>3. Apart'
  BY DEF Base, Apart, Holds
<1>4. RowsFine'
  BY <1>1, JobsKept, RowsKept, RowsStayFine
<1>5. AgedFine'
  BY <1>1 DEF Base, AgedFine, Types
<1>6. Types'
  BY <1>1 DEF Base, Types
<1> QED
  BY <1>2, <1>3, <1>4, <1>5, <1>6 DEF Base

(* Senders and the rows they have claimed move on.                          *)
LEMMA SendersMove ==
  ASSUME Base, RowsMove, sender' \in [Processes -> SenderType], SendersFine',
         UNCHANGED <<job, file, aged, worker, restarts>>
  PROVE  Base'
<1>1. WorkersFine'
  <2>1. ASSUME NEW q \in Processes PROVE Fine(worker[q])'
    <3>1. PICK r : r = worker[q]
      OBVIOUS
    <3>2. Fine(r) /\ worker'[q] = r
      BY <3>1 DEF Base, WorkersFine
    <3>3. Holds(r) => file'[r.file] = file[r.file] /\ r.file \notin aged'
      BY <3>2 DEF Fine
    <3> QED
      BY <3>2, <3>3, JobsKept, SameNames, StaysFine
  <2> QED
    BY <2>1 DEF WorkersFine
<1>2. Apart' /\ AgedFine'
  BY DEF Base, Apart, Holds, AgedFine
<1>3. RowsFine'
  BY JobsKept, RowsStayFine
<1>4. Types'
  BY DEF Base, Types, RowsMove
<1> QED
  BY <1>1, <1>2, <1>3, <1>4 DEF Base

-----------------------------------------------------------------------------
(* A single process.                                                       *)

(* Who runs without a second process is the first one.                      *)
LEMMA OnlyFirst ==
  ASSUME Base, Alone, NEW p \in Processes, worker[p].pc # "off" \/ sender[p].pc # "off"
  PROVE  p = First
  BY DEF Alone, Base, SendersFine, SenderFine

(* Workers that run go on running: what is alone then was alone before.     *)
LEMMA AloneStays ==
  ASSUME Base, NEW p \in Processes, worker[p].pc # "off", NEW new, new.pc # "off",
         worker' = [worker EXCEPT ![p] = new]
  PROVE  Alone' <=> Alone
  BY DEF Alone, Base, Types

LEMMA SameActive == ASSUME delivery' = delivery PROVE ActiveNames' = ActiveNames
  BY DEF ActiveNames, FileRow

(* The worker of the only process goes on.                                  *)
LEMMA WorkerHeld ==
  ASSUME ExportAssumption, IInv, NEW p \in Processes, NEW new, worker' = [worker EXCEPT ![p] = new],
         worker[p].pc # "off", new.pc # "off",
         new.pc \notin AtRest => /\ new.job \in Jobs
                                 /\ (job[worker[p].job] = "RUNNING" => job'[new.job] = "RUNNING")
                                 /\ (worker[p].pc \in AtRest => job'[new.job] = "RUNNING"),
         Alone => new.doomed \cap ActiveNames = {},
         \A f \in ActiveNames : file[f] = "final" => file'[f] = "final",
         UNCHANGED <<delivery, sender>>
  PROVE  Alone' => Held'
<1> SUFFICES ASSUME Alone' PROVE Held'
  OBVIOUS
<1>1. Alone /\ Held /\ p = First
  BY AloneStays, OnlyFirst DEF IInv
<1>2. worker'[First] = new
  BY <1>1 DEF IInv, Base, Types
<1> QED
  BY <1>1, <1>2, SameActive DEF Held

-----------------------------------------------------------------------------
(* Generation.                                                             *)
LEMMA EnqueueStep ==
  ASSUME ExportAssumption, IInv, NEW j \in Jobs, Enqueue(j)
  PROVE  IInv'
<1>1. /\ job[j] = "NONE" /\ job' = [job EXCEPT ![j] = "PENDING"]
      /\ UNCHANGED <<delivery, file, aged, worker, sender, restarts>>
  BY DEF Enqueue
<1>2. Base /\ JobsMove
  BY <1>1 DEF IInv, Base, Types, JobStatuses, JobsMove
<1>3. WorkersFine'
  <2>1. ASSUME NEW q \in Processes PROVE Fine(worker[q])'
    <3>1. PICK r : r = worker[q]
      OBVIOUS
    <3>2. Fine(r) /\ worker'[q] = r
      BY <1>1, <1>2, <3>1 DEF Base, WorkersFine
    <3>3. Holds(r) => file'[r.file] = file[r.file] /\ r.file \notin aged'
      BY <1>1, <3>2 DEF Fine
    <3> QED
      BY <1>1, <1>2, <3>2, <3>3, RowsKept, SameNames, StaysFine
  <2> QED
    BY <2>1 DEF WorkersFine
<1>4. RowsFine'
  BY <1>1, <1>2, RowsKept, RowsStayFine
<1>5. Apart' /\ SendersFine' /\ AgedFine'
  BY <1>1, <1>2 DEF Base, Apart, Holds, SendersFine, SenderFine, AgedFine
<1>6. Types'
  BY <1>1, <1>2 DEF Base, Types, JobsMove
<1>7. Alone' => Alone /\ Held'
  <2> SUFFICES ASSUME Alone' PROVE Alone /\ Held'
    OBVIOUS
  <2>1. Alone /\ Held
    BY <1>1 DEF Alone, IInv
  <2>2. worker[First].pc \notin AtRest => job'[worker[First].job] = "RUNNING"
    BY <1>1, <2>1 DEF Held, IInv, Base, Types
  <2> QED
    BY <1>1, <2>1, <2>2, SameActive DEF Held
<1> QED
  BY <1>3, <1>4, <1>5, <1>6, <1>7 DEF IInv, Base

LEMMA ClaimStep ==
  ASSUME ExportAssumption, IInv, NEW p \in Processes, NEW j \in Jobs, Claim(p, j)
  PROVE  IInv'
<1> DEFINE new == [Idle EXCEPT !.pc = "claimed", !.job = j]
<1>1. /\ worker[p].pc = "idle" /\ job[j] = "PENDING" /\ job' = [job EXCEPT ![j] = "RUNNING"]
      /\ worker' = [worker EXCEPT ![p] = new]
      /\ UNCHANGED <<delivery, file, aged, sender, restarts>>
  BY DEF Claim, Work, OnlyWorker
<1>2. new \in WorkerType /\ new.pc = "claimed" /\ new.job = j /\ new.doomed = {}
  BY IdleTyped DEF Idle, WorkerType
<1> HIDE DEF new
<1>3. Fine(new) /\ ~Holds(new)
  BY <1>1, <1>2 DEF Fine, Holds, HoldPcs
<1>4. Base /\ JobsMove /\ job'[j] = "RUNNING"
  BY <1>1 DEF IInv, Base, Types, JobStatuses, JobsMove
<1>5. Base'
  BY <1>1, <1>2, <1>3, <1>4, WorkerMoves
<1>6. Alone' => Held'
  BY <1>1, <1>2, <1>4, WorkerHeld DEF AtRest
<1> QED
  BY <1>5, <1>6 DEF IInv

(* A worker goes to its next step, keeping job, archive and list.           *)
LEMMA GoesOn ==
  ASSUME ExportAssumption, IInv, NEW p \in Processes, worker[p].pc \notin AtRest,
         NEW new \in WorkerType, new.pc # "off", new.job = worker[p].job,
         new.file = worker[p].file, new.doomed = worker[p].doomed,
         Holds(new) => /\ worker[p].pc \in {"published", "ready"}
                       /\ new.pc \in {"published", "ready", "finishing"},
         worker' = [worker EXCEPT ![p] = new],
         UNCHANGED <<job, delivery, file, aged, sender, restarts>>
  PROVE  IInv'
<1>1. Base /\ Fine(worker[p]) /\ worker[p].pc # "off" /\ JobsMove
  BY JobsKept DEF IInv, Base, WorkersFine, AtRest
<1>2. Fine(new) /\ (Holds(new) => Holds(worker[p]))
  BY <1>1 DEF Fine, Holds, HoldPcs, AtRest
<1>3. Base'
  BY <1>1, <1>2, WorkerMoves
<1>4. Alone => new.doomed \cap ActiveNames = {}
  BY <1>1, OnlyFirst DEF IInv, Held
<1>5. Alone' => Held'
  BY <1>1, <1>4, WorkerHeld DEF Fine
<1> QED
  BY <1>3, <1>5 DEF IInv

LEMMA ReadStep ==
  ASSUME ExportAssumption, IInv, NEW p \in Processes,
         \/ ReadItems(p) \/ ReadReminders(p) \/ ReadEvents(p) \/ ReadContents(p)
         \/ Refuse(p) \/ Project(p) \/ Validate(p)
  PROVE  IInv'
<1>1. worker[p] \in WorkerType
  BY DEF IInv, Base, Types
<1>2. ASSUME NEW pc \in {"items", "reminders", "events", "projecting", "ready"},
             worker[p].pc \notin AtRest, pc = "ready" => worker[p].pc = "published",
             worker' = [worker EXCEPT ![p] = [worker[p] EXCEPT !.pc = pc]],
             UNCHANGED <<job, delivery, file, aged, sender, restarts>>
      PROVE  IInv'
  <2> DEFINE new == [worker[p] EXCEPT !.pc = pc]
  <2>1. /\ new \in WorkerType /\ new.job = worker[p].job /\ new.file = worker[p].file
        /\ new.doomed = worker[p].doomed /\ new.pc = pc
    BY <1>1 DEF WorkerType, HoldPcs
  <2>2. worker' = [worker EXCEPT ![p] = new]
    BY <1>2
  <2> HIDE DEF new
  <2>3. Holds(new) => /\ worker[p].pc \in {"published", "ready"}
                      /\ new.pc \in {"published", "ready", "finishing"}
    BY <1>2, <2>1 DEF Holds, HoldPcs
  <2> QED
    BY <1>2, <2>1, <2>2, <2>3, GoesOn
<1>3. ASSUME NEW pc \in {"snapshot", "failed"}, worker[p].pc \notin AtRest,
             worker' = [worker EXCEPT ![p] = [worker[p] EXCEPT !.pc = pc, !.newer = FALSE]],
             UNCHANGED <<job, delivery, file, aged, sender, restarts>>
      PROVE  IInv'
  <2> DEFINE new == [worker[p] EXCEPT !.pc = pc, !.newer = FALSE]
  <2>1. /\ new \in WorkerType /\ new.job = worker[p].job /\ new.file = worker[p].file
        /\ new.doomed = worker[p].doomed /\ new.pc = pc
    BY <1>1 DEF WorkerType
  <2>2. worker' = [worker EXCEPT ![p] = new]
    BY <1>3
  <2> HIDE DEF new
  <2>3. ~Holds(new)
    BY <2>1 DEF Holds, HoldPcs
  <2> QED
    BY <1>3, <2>1, <2>2, <2>3, GoesOn
<1>4. ASSUME worker[p].pc \notin AtRest,
             worker' = [worker EXCEPT ![p] = [worker[p] EXCEPT
                 !.pc = "failed", !.newer = FALSE, !.code = "EXPORT_INVALID_SNAPSHOT"]],
             UNCHANGED <<job, delivery, file, aged, sender, restarts>>
      PROVE  IInv'
  <2> DEFINE new == [worker[p] EXCEPT !.pc = "failed", !.newer = FALSE,
                                      !.code = "EXPORT_INVALID_SNAPSHOT"]
  <2>1. /\ new \in WorkerType /\ new.job = worker[p].job /\ new.file = worker[p].file
        /\ new.doomed = worker[p].doomed /\ new.pc = "failed"
    BY <1>1 DEF WorkerType
  <2>2. worker' = [worker EXCEPT ![p] = new]
    BY <1>4
  <2> HIDE DEF new
  <2>3. ~Holds(new)
    BY <2>1 DEF Holds, HoldPcs
  <2> QED
    BY <1>4, <2>1, <2>2, <2>3, GoesOn
<1>5. CASE ReadItems(p) \/ Validate(p)
  BY <1>2, <1>5 DEF ReadItems, Validate, Work, OnlyWorker, AtRest
<1>6. CASE Refuse(p) \/ Project(p)
  BY <1>3, <1>6 DEF Refuse, Project, Work, OnlyWorker, AtRest
<1>7. ASSUME NEW from \in {"items", "reminders", "events"},
             NEW to \in {"reminders", "events", "projecting"}, NEW foreign,
             ReadReferences(p, from, to, foreign)
      PROVE  IInv'
  <2>1. worker[p].pc \notin AtRest /\ UNCHANGED <<job, delivery, file, aged, sender, restarts>>
    BY <1>7 DEF ReadReferences, OnlyWorker, AtRest
  <2>2. CASE foreign
    BY <1>4, <1>7, <2>1, <2>2 DEF ReadReferences, Work
  <2>3. CASE ~foreign
    BY <1>2, <1>7, <2>1, <2>3 DEF ReadReferences, Work
  <2> QED
    BY <2>2, <2>3
<1> QED
  BY <1>5, <1>6, <1>7 DEF ReadReminders, ReadEvents, ReadContents

LEMMA SaveItemStep ==
  ASSUME ExportAssumption, IInv, SaveItem
  PROVE  IInv'
<1>1. /\ UNCHANGED <<job, delivery, file, aged, sender, restarts>>
      /\ worker' = [q \in Processes |-> IF q \in Reading THEN [worker[q] EXCEPT !.newer = TRUE]
                                        ELSE worker[q]]
  BY DEF SaveItem, OnlyWorker
<1>2. ASSUME NEW q \in Processes
      PROVE  /\ worker'[q] \in WorkerType /\ worker'[q].pc = worker[q].pc
             /\ worker'[q].job = worker[q].job /\ worker'[q].file = worker[q].file
             /\ worker'[q].doomed = worker[q].doomed
  BY <1>1 DEF IInv, Base, Types, WorkerType
<1>3. worker' \in [Processes -> WorkerType]
  BY <1>1, <1>2
<1>4. WorkersFine'
  <2>1. ASSUME NEW q \in Processes PROVE Fine(worker[q])'
    <3>1. PICK r : r = worker'[q]
      OBVIOUS
    <3>2. Fine(worker[q])
      BY DEF IInv, Base, WorkersFine
    <3>3. Fine(r)
      BY <1>2, <3>1, <3>2 DEF Fine, Holds
    <3>4. Holds(r) => file'[r.file] = file[r.file] /\ r.file \notin aged'
      BY <1>1, <3>3 DEF Fine
    <3> QED
      BY <1>1, <3>1, <3>3, <3>4, JobsKept, RowsKept, SameNames, StaysFine DEF IInv
  <2> QED
    BY <2>1 DEF WorkersFine
<1>5. Apart'
  BY <1>2 DEF IInv, Base, Apart, Holds
<1>6. RowsFine'
  BY <1>1, JobsKept, RowsKept, RowsStayFine DEF IInv
<1>7. SendersFine' /\ AgedFine'
  BY <1>1, <1>2 DEF IInv, Base, SendersFine, SenderFine, AgedFine
<1>8. Types'
  BY <1>1, <1>3 DEF IInv, Base, Types
<1>9. Alone' => Held'
  <2>1. Alone' => Alone
    BY <1>2 DEF Alone
  <2> QED
    BY <1>1, <1>2, <2>1, SameActive DEF IInv, Held, ExportAssumption
<1> QED
  BY <1>4, <1>5, <1>6, <1>7, <1>8, <1>9 DEF IInv, Base

(* A worker begins an archive, or gives the one it has its name.            *)
LEMMA FileTurns ==
  ASSUME ExportAssumption, IInv, NEW p \in Processes, NEW f \in Files, f \notin Named,
         f \notin aged, NEW st \in {"temp", "final"}, file' = [file EXCEPT ![f] = st],
         \A q \in Processes : Holds(worker[q]) /\ worker[q].file = f => q = p,
         NEW new \in WorkerType, new.pc = IF st = "temp" THEN "writing" ELSE "published",
         worker[p].pc \notin AtRest,
         new.file = f, new.job = f[1], new.job = worker[p].job, new.doomed = worker[p].doomed,
         worker' = [worker EXCEPT ![p] = new],
         UNCHANGED <<job, delivery, aged, sender, restarts>>
  PROVE  IInv'
<1>1. /\ file' \in [Files -> FileStates]
      /\ \A g \in Files : file'[g] = IF g = f THEN st ELSE file[g]
  BY DEF IInv, Base, Types, FileStates
<1>2. /\ worker' \in [Processes -> WorkerType]
      /\ \A q \in Processes : worker'[q] = IF q = p THEN new ELSE worker[q]
  BY DEF IInv, Base, Types
<1>3. Base /\ JobsMove /\ RowsMove /\ Named' = Named /\ Fine(worker[p])
  BY JobsKept, RowsKept, SameNames DEF IInv, Base, WorkersFine
<1>4. WorkersFine'
  <2>1. ASSUME NEW q \in Processes, q # p PROVE Fine(worker[q])'
    <3>1. PICK r : r = worker[q]
      OBVIOUS
    <3>2. Fine(r) /\ worker'[q] = r
      BY <1>2, <2>1, <3>1 DEF IInv, Base, WorkersFine
    <3>3. Holds(r) => file'[r.file] = file[r.file] /\ r.file \notin aged'
      BY <1>1, <2>1, <3>1, <3>2 DEF Fine
    <3> QED
      BY <1>3, <3>2, <3>3, StaysFine
  <2>2. Fine(worker[p])'
    <3>1. worker'[p] = new /\ new.job \in Jobs /\ job[new.job] # "NONE"
      BY <1>2, <1>3 DEF Fine
    <3>2. new.file \in Files /\ new.file[1] = new.job
      OBVIOUS
    <3>3. new.file \notin aged' /\ new.file \notin Named'
      BY <1>3
    <3>4. file'[new.file] = IF new.pc = "writing" THEN "temp" ELSE "final"
      BY <1>1
    <3>5. job'[new.job] # "NONE" /\ new.doomed \subseteq aged'
      BY <1>3, <3>1 DEF Fine
    <3> QED
      BY <3>1, <3>2, <3>3, <3>4, <3>5 DEF Fine, Holds
  <2> QED
    BY <2>1, <2>2 DEF WorkersFine
<1>5. Apart'
  BY <1>2 DEF IInv, Base, Apart, Holds
<1>6. RowsFine'
  BY <1>1, <1>3, RowsStayFine
<1>7. AgedFine'
  BY <1>1 DEF IInv, Base, AgedFine, Types
<1>8. SendersFine'
  BY <1>2 DEF IInv, Base, SendersFine, SenderFine, AtRest
<1>9. Types'
  BY <1>1, <1>2 DEF IInv, Base, Types
<1>10. Alone' => Held'
  <2>1. new.pc \notin AtRest /\ new.pc # "off" /\ worker[p].pc # "off" /\ new.job \in Jobs
    BY <1>3 DEF AtRest, Fine
  <2>2. Alone => new.doomed \cap ActiveNames = {}
    BY <1>3, <2>1, OnlyFirst DEF IInv, Held
  <2>3. \A g \in ActiveNames : file[g] = "final" => file'[g] = "final"
    BY NamesActive
  <2> QED
    BY <2>1, <2>2, <2>3, WorkerHeld
<1> QED
  BY <1>4, <1>5, <1>6, <1>7, <1>8, <1>9, <1>10 DEF IInv, Base

LEMMA WriteTempStep ==
  ASSUME ExportAssumption, IInv, NEW p \in Processes, NEW f \in Files, WriteTemp(p, f)
  PROVE  IInv'
<1> DEFINE new == [worker[p] EXCEPT !.pc = "writing", !.file = f]
<1>1. /\ worker[p].pc = "snapshot" /\ f[1] = worker[p].job /\ file[f] = "unused"
      /\ file' = [file EXCEPT ![f] = "temp"] /\ worker' = [worker EXCEPT ![p] = new]
      /\ UNCHANGED <<job, delivery, aged, sender, restarts>>
  BY DEF WriteTemp, Work, OnlyWorker
<1>2. worker[p] \in WorkerType
  BY DEF IInv, Base, Types
<1>3. new \in WorkerType
  BY <1>2 DEF WorkerType, HoldPcs
<1>4. new.pc = "writing" /\ new.file = f /\ new.job = worker[p].job /\ new.doomed = worker[p].doomed
  BY <1>2 DEF WorkerType
<1> HIDE DEF new
<1>5. worker[p].pc \notin AtRest /\ new.job = f[1]
  BY <1>1, <1>4 DEF AtRest
<1>6. f \notin Named /\ f \notin aged
  BY <1>1 DEF Named, FileRow, IInv, Base, RowsFine, RowFine, AgedFine
<1>7. \A q \in Processes : Holds(worker[q]) /\ worker[q].file = f => q = p
  BY <1>1 DEF IInv, Base, WorkersFine, Fine
<1> QED
  BY <1>1, <1>3, <1>4, <1>5, <1>6, <1>7, FileTurns

LEMMA PublishStep ==
  ASSUME ExportAssumption, IInv, NEW p \in Processes, Publish(p)
  PROVE  IInv'
<1> DEFINE new == [worker[p] EXCEPT !.pc = "published"]
           f == worker[p].file
<1>1. /\ worker[p].pc = "writing" /\ file' = [file EXCEPT ![f] = "final"]
      /\ worker' = [worker EXCEPT ![p] = new] /\ UNCHANGED <<job, delivery, aged, sender, restarts>>
  BY DEF Publish, Work, OnlyWorker
<1>2. worker[p] \in WorkerType /\ Fine(worker[p]) /\ Holds(worker[p])
  BY <1>1 DEF IInv, Base, Types, WorkersFine, Holds, HoldPcs
<1>3. new \in WorkerType
  BY <1>2 DEF WorkerType, HoldPcs
<1>4. new.pc = "published" /\ new.file = f /\ new.job = worker[p].job /\ new.doomed = worker[p].doomed
  BY <1>2 DEF WorkerType
<1> HIDE DEF new
<1>5. /\ f \in Files /\ f \notin Named /\ f \notin aged
      /\ worker[p].pc \notin AtRest /\ new.job = f[1]
  BY <1>1, <1>2, <1>4 DEF Fine, AtRest
<1>6. \A q \in Processes : Holds(worker[q]) /\ worker[q].file = f => q = p
  BY <1>2 DEF IInv, Base, Apart
<1> HIDE DEF f
<1> QED
  BY <1>1, <1>3, <1>4, <1>5, <1>6, FileTurns

(* The archive a worker gives up is nobody else's.                          *)
LEMMA GivesUp ==
  ASSUME ExportAssumption, IInv, NEW p \in Processes, Holds(worker[p]),
         file' = [file EXCEPT ![worker[p].file] = "removed"],
         NEW new \in WorkerType, ~Holds(new), Fine(new), new.pc # "off",
         new.pc \notin AtRest => new.job = worker[p].job,
         new.doomed = {} \/ new.doomed = worker[p].doomed,
         worker' = [worker EXCEPT ![p] = new],
         UNCHANGED <<job, delivery, aged, sender, restarts>>
  PROVE  IInv'
<1> DEFINE f == worker[p].file
<1>1. Base /\ Fine(worker[p]) /\ worker[p].pc \notin AtRest
  BY DEF IInv, Base, WorkersFine, Holds, HoldPcs, AtRest
<1>2. f \in Files /\ f \notin ActiveNames /\ file[f] # "unused"
  BY <1>1, NamesActive DEF Fine
<1>3. /\ worker' \in [Processes -> WorkerType]
      /\ \A q \in Processes : worker'[q] = IF q = p THEN new ELSE worker[q]
  BY DEF IInv, Base, Types
<1>4. \A q \in Processes : Holds(worker'[q]) => worker'[q].file # f
  BY <1>3 DEF IInv, Base, Apart
<1>5. sender' \in [Processes -> SenderType] /\ SendersFine'
  BY <1>1, <1>3 DEF Base, Types, SendersFine, SenderFine, AtRest
<1>6. \A q \in Processes : worker'[q] = worker[q] \/ (~Holds(worker'[q]) /\ Fine(worker'[q]))
  BY <1>3
<1> HIDE DEF f
<1>7. file' = [file EXCEPT ![f] = "removed"]
  BY DEF f
<1>8. Base'
  BY <1>1, <1>2, <1>3, <1>4, <1>5, <1>6, <1>7, FileGoes
<1>9. Alone' => Held'
  <2>1. worker[p].pc # "off" /\ (new.pc \notin AtRest => new.job \in Jobs)
    BY <1>1 DEF AtRest, Fine
  <2>2. Alone => new.doomed \cap ActiveNames = {}
    BY <1>1, <2>1, OnlyFirst DEF IInv, Held
  <2>3. \A g \in ActiveNames : file[g] = "final" => file'[g] = "final"
    BY <1>2, <1>7
  <2> QED
    BY <1>1, <2>1, <2>2, <2>3, WorkerHeld
<1> QED
  BY <1>8, <1>9 DEF IInv

LEMMA AbandonStep ==
  ASSUME ExportAssumption, IInv, NEW p \in Processes, Abandon(p)
  PROVE  IInv'
<1> DEFINE new == [worker[p] EXCEPT !.pc = "failed"]
<1>1. /\ worker[p].pc \in {"writing", "published"} /\ worker' = [worker EXCEPT ![p] = new]
      /\ file' = [file EXCEPT ![worker[p].file] = "removed"]
      /\ UNCHANGED <<job, delivery, aged, sender, restarts>>
  BY DEF Abandon, Work, OnlyWorker
<1>2. worker[p] \in WorkerType /\ Fine(worker[p]) /\ Holds(worker[p])
  BY <1>1 DEF IInv, Base, Types, WorkersFine, Holds, HoldPcs
<1>3. /\ new \in WorkerType /\ new.pc = "failed"
      /\ new.job = worker[p].job /\ new.doomed = worker[p].doomed
  BY <1>2 DEF WorkerType
<1> HIDE DEF new
<1>4. ~Holds(new) /\ Fine(new)
  BY <1>1, <1>2, <1>3 DEF Holds, HoldPcs, Fine, AtRest
<1> QED
  BY <1>1, <1>2, <1>3, <1>4, GivesUp

LEMMA IdleWorker ==
  /\ Idle \in WorkerType /\ Idle.pc = "idle" /\ Idle.doomed = {} /\ Idle.pc \in AtRest
  /\ Fine(Idle) /\ ~Holds(Idle)
  BY IdleTyped, IdleFine DEF AtRest

LEMMA RereadStep ==
  ASSUME ExportAssumption, IInv, NEW p \in Processes, Reread(p)
  PROVE  IInv'
<1>1. /\ worker[p].pc \in {"ready", "failed"} /\ UNCHANGED <<job, delivery, aged, sender, restarts>>
      /\ worker[p] \in WorkerType /\ worker[p].pc \notin AtRest /\ worker[p].pc # "off"
  BY DEF Reread, OnlyWorker, IInv, Base, Types, AtRest
<1>2. CASE job[worker[p].job] = "RUNNING"
  <2> DEFINE new == [worker[p] EXCEPT !.pc = IF worker[p].pc = "ready" THEN "finishing"
                                             ELSE "failing"]
  <2>1. worker' = [worker EXCEPT ![p] = new] /\ file' = file
    BY <1>2 DEF Reread, Work
  <2>2. /\ new \in WorkerType /\ new.job = worker[p].job /\ new.file = worker[p].file
        /\ new.doomed = worker[p].doomed
        /\ new.pc = IF worker[p].pc = "ready" THEN "finishing" ELSE "failing"
    BY <1>1 DEF WorkerType, HoldPcs
  <2> HIDE DEF new
  <2>3. /\ new.pc # "off"
        /\ Holds(new) => worker[p].pc = "ready" /\ new.pc = "finishing"
    BY <2>2 DEF Holds, HoldPcs
  <2> QED
    BY <1>1, <2>1, <2>2, <2>3, GoesOn
<1>3. CASE job[worker[p].job] # "RUNNING"
  <2>1. worker' = [worker EXCEPT ![p] = Idle]
    BY <1>3 DEF Reread, Work
  <2>2. CASE worker[p].pc = "ready"
    <3>1. file' = [file EXCEPT ![worker[p].file] = "removed"] /\ Holds(worker[p])
      BY <1>3, <2>2 DEF Reread, Holds, HoldPcs
    <3> QED
      BY <1>1, <2>1, <3>1, IdleWorker, GivesUp
  <2>3. CASE worker[p].pc = "failed"
    <3>1. file' = file /\ Base
      BY <1>3, <2>3 DEF Reread, IInv
    <3>2. Base'
      BY <1>1, <2>1, <3>1, IdleWorker, JobsKept, WorkerMoves
    <3>3. Alone' => Held'
      BY <1>1, <2>1, <3>1, IdleWorker, WorkerHeld
    <3> QED
      BY <3>2, <3>3 DEF IInv
  <2> QED
    BY <1>1, <2>2, <2>3
<1> QED
  BY <1>2, <1>3

(* A notice makes its row, unless there is one.                             *)
LEMMA NotifyMakes ==
  ASSUME Base, NEW r \in Rows, NEW f \in Files \cup {Nil}, Notify(r, f)
  PROVE  /\ delivery' \in [Rows -> DeliveryType]
         /\ \A q \in Rows \ {r} : delivery'[q] = delivery[q]
         /\ delivery'[r].st # "NONE"
         /\ delivery[r].st # "NONE" => delivery'[r] = delivery[r]
         /\ delivery[r].st = "NONE" => delivery'[r].file = f
<1> DEFINE new == [st |-> "PENDING", file |-> f, attempts |-> 0]
<1>1. new \in DeliveryType /\ new.st = "PENDING" /\ new.file = f
  BY DEF DeliveryType
<1>2. delivery \in [Rows -> DeliveryType]
  BY DEF Base, Types
<1>3. CASE delivery[r].st = "NONE"
  <2>1. delivery' = [delivery EXCEPT ![r] = new]
    BY <1>3 DEF Notify
  <2> HIDE DEF new
  <2> QED
    BY <1>1, <1>2, <1>3, <2>1
<1>4. CASE delivery[r].st # "NONE"
  BY <1>2, <1>4 DEF Notify
<1> QED
  BY <1>3, <1>4

(* What a commit changes: the status of the job of the worker, by id, and   *)
(* the row that announces it.                                               *)
LEMMA CommitMakes ==
  ASSUME IInv, NEW p \in Processes, NEW done \in BOOLEAN,
         worker[p].pc = IF done THEN "finishing" ELSE "failing",
         IF done THEN Finish(p) ELSE Fail(p)
  PROVE  LET j == worker[p].job
             r == <<j, IF done THEN "EXPORT_FILE" ELSE "EXPORT_FAILED">>
             st == IF done THEN "DONE" ELSE "FAILED"
         IN /\ j \in Jobs /\ job[j] # "NONE" /\ r \in Rows
            /\ job' \in [Jobs -> JobStatuses]
            /\ \A k \in Jobs : job'[k] = IF k = j THEN st ELSE job[k]
            /\ delivery' \in [Rows -> DeliveryType]
            /\ \A q \in Rows \ {r} : delivery'[q] = delivery[q]
            /\ delivery'[r].st # "NONE"
            /\ delivery[r].st # "NONE" => delivery'[r] = delivery[r]
            /\ delivery[r].st = "NONE" /\ done => delivery'[r].file = worker[p].file
            /\ worker' = [worker EXCEPT ![p] = Idle]
            /\ UNCHANGED <<file, aged, sender, restarts>>
<1> DEFINE j == worker[p].job
           type == IF done THEN "EXPORT_FILE" ELSE "EXPORT_FAILED"
           st == IF done THEN "DONE" ELSE "FAILED"
           f == IF done THEN worker[p].file ELSE Nil
<1>1. Commit(p, st, type)
  BY DEF Finish, Fail
<1>2. /\ Notify(<<j, type>>, f) /\ job' = [job EXCEPT ![j] = st]
      /\ worker' = [worker EXCEPT ![p] = Idle] /\ UNCHANGED <<file, aged, sender, restarts>>
  BY <1>1 DEF Commit, Work
<1>3. Base /\ Fine(worker[p]) /\ worker[p] \in WorkerType
  BY DEF IInv, Base, WorkersFine, Types
<1>4. j \in Jobs /\ job[j] # "NONE"
  BY <1>3 DEF Fine, AtRest
<1>5. <<j, type>> \in Rows /\ f \in Files \cup {Nil}
  BY <1>3, <1>4 DEF Rows, WorkerType
<1>6. job' \in [Jobs -> JobStatuses] /\ \A k \in Jobs : job'[k] = IF k = j THEN st ELSE job[k]
  BY <1>2, <1>3, <1>4 DEF Base, Types, JobStatuses
<1>7. PICK r \in Rows : r = <<j, type>>
  BY <1>5
<1>8. PICK g \in Files \cup {Nil} : g = f
  BY <1>5
<1>9. Notify(r, g)
  BY <1>2, <1>7, <1>8
<1>10. /\ delivery' \in [Rows -> DeliveryType]
       /\ \A q \in Rows \ {r} : delivery'[q] = delivery[q]
       /\ delivery'[r].st # "NONE"
       /\ delivery[r].st # "NONE" => delivery'[r] = delivery[r]
       /\ delivery[r].st = "NONE" => delivery'[r].file = g
  BY <1>3, <1>9, NotifyMakes
<1> QED
  BY <1>2, <1>4, <1>6, <1>7, <1>8, <1>10

LEMMA CommitStep ==
  ASSUME ExportAssumption, IInv, NEW p \in Processes, Finish(p) \/ Fail(p)
  PROVE  IInv'
<1>1. PICK done \in BOOLEAN : /\ worker[p].pc = IF done THEN "finishing" ELSE "failing"
                              /\ IF done THEN Finish(p) ELSE Fail(p)
  <2>1. CASE Finish(p)
    BY <2>1 DEF Finish
  <2>2. CASE Fail(p)
    BY <2>2 DEF Fail
  <2> QED
    BY <2>1, <2>2
<1> DEFINE type == IF done THEN "EXPORT_FILE" ELSE "EXPORT_FAILED"
<1>2. worker[p].job \in Jobs /\ <<worker[p].job, type>> \in Rows
  BY <1>1, CommitMakes
<1>3. PICK j \in Jobs : j = worker[p].job
  BY <1>2
<1>4. PICK r \in Rows : r = <<j, type>>
  BY <1>2, <1>3
<1>5. PICK f : f = worker[p].file
  OBVIOUS
<1>6. /\ job[j] # "NONE" /\ job' \in [Jobs -> JobStatuses]
      /\ \A k \in Jobs : job'[k] = IF k = j THEN IF done THEN "DONE" ELSE "FAILED" ELSE job[k]
  BY <1>1, <1>3, CommitMakes
<1>7. /\ delivery' \in [Rows -> DeliveryType]
      /\ \A q \in Rows \ {r} : delivery'[q] = delivery[q]
      /\ delivery'[r].st # "NONE"
      /\ delivery[r].st # "NONE" => delivery'[r] = delivery[r]
      /\ delivery[r].st = "NONE" /\ done => delivery'[r].file = f
  BY <1>1, <1>3, <1>4, <1>5, CommitMakes
<1>8. worker' = [worker EXCEPT ![p] = Idle] /\ UNCHANGED <<file, aged, sender, restarts>>
  BY <1>1, CommitMakes
<1>9. Base /\ Fine(worker[p]) /\ worker[p].pc # "off" /\ worker[p].pc \notin AtRest
  BY <1>1 DEF IInv, Base, WorkersFine, AtRest
<1>10. /\ done => Holds(worker[p])
       /\ done => f \in Files /\ f[1] = j /\ file[f] = "final" /\ f \notin aged
  BY <1>1, <1>3, <1>5, <1>9 DEF Fine, Holds, HoldPcs
<1>11. /\ worker' \in [Processes -> WorkerType]
       /\ \A q \in Processes : worker'[q] = IF q = p THEN Idle ELSE worker[q]
  BY <1>8, IdleTyped DEF IInv, Base, Types
<1>12. \A k \in Jobs : \/ FileRow(k)' = FileRow(k)
                       \/ k = j /\ done /\ FileRow(k).st = "NONE" /\ FileRow(k)'.file = f
  BY <1>4, <1>7, RowOf DEF FileRow
<1>13. /\ Named' \subseteq Named \cup (IF done THEN {f} ELSE {})
       /\ ActiveNames' \subseteq ActiveNames \cup (IF done THEN {f} ELSE {})
  BY <1>12 DEF Named, ActiveNames
<1>14. WorkersFine'
  <2>1. ASSUME NEW q \in Processes, q # p PROVE Fine(worker[q])'
    <3>1. worker'[q] = worker[q] /\ Fine(worker[q]) /\ file' = file /\ aged' = aged
      BY <1>8, <1>11, <2>1 DEF IInv, Base, WorkersFine
    <3>2. Holds(worker[q]) => worker[q].file \notin Named'
      BY <1>5, <1>10, <1>13, <2>1, <3>1 DEF Fine, IInv, Base, Apart
    <3>3. worker[q].pc \notin AtRest => worker[q].job \in Jobs /\ job'[worker[q].job] # "NONE"
      BY <1>6, <3>1 DEF Fine
    <3> QED
      BY <3>1, <3>2, <3>3 DEF Fine, Holds
  <2>2. Fine(worker[p])'
    BY <1>11, IdleTyped DEF Fine, Holds, HoldPcs, AtRest
  <2> QED
    BY <2>1, <2>2 DEF WorkersFine
<1>15. Apart'
  BY <1>11, IdleTyped DEF IInv, Base, Apart, Holds, HoldPcs
<1>16. RowsFine'
  <2>1. ASSUME NEW k \in Jobs, k # j PROVE RowFine(k)'
    <3>1. RowFine(k) /\ job'[k] = job[k]
      BY <1>6, <2>1 DEF IInv, Base, RowsFine
    <3>2. \A t \in {"EXPORT_FILE", "EXPORT_FAILED"} : delivery'[<<k, t>>] = delivery[<<k, t>>]
      BY <1>4, <1>7, <2>1, RowOf
    <3> QED
      BY <1>8, <3>1, <3>2 DEF RowFine, FileRow
  <2>2. RowFine(j)'
    <3>1. RowFine(j)
      BY <1>6 DEF IInv, Base, RowsFine
    <3>2. /\ job'[j] = IF done THEN "DONE" ELSE "FAILED"
          /\ done => FileRow(j)'.st # "NONE"
          /\ ~done => delivery'[<<j, "EXPORT_FAILED">>].st # "NONE"
      BY <1>4, <1>6, <1>7 DEF FileRow
    <3>3. FileRow(j)'.st # "NONE" => /\ FileRow(j)'.file \in Files /\ FileRow(j)'.file[1] = j
                                     /\ file'[FileRow(j)'.file] # "unused"
      BY <1>6, <1>8, <1>10, <1>12, <3>1 DEF RowFine
    <3> QED
      BY <3>2, <3>3 DEF RowFine, FileRow
  <2> QED
    BY <2>1, <2>2 DEF RowsFine
<1>17. SendersFine'
  <2>1. \A q \in Rows : delivery[q].st # "NONE" => delivery'[q].st # "NONE"
    BY <1>7
  <2> QED
    BY <1>8, <1>9, <1>11, <2>1, IdleTyped DEF Base, SendersFine, SenderFine
<1>18. AgedFine'
  BY <1>8, <1>9 DEF Base, AgedFine
<1>19. Types'
  BY <1>6, <1>7, <1>8, <1>9, <1>11 DEF Base, Types
<1>20. Alone' => Held'
  <2> SUFFICES ASSUME Alone' PROVE Held'
    OBVIOUS
  <2>1. Alone /\ Held /\ p = First /\ worker'[First] = Idle
    BY <1>8, <1>9, <1>11, IdleTyped, AloneStays, OnlyFirst DEF IInv
  <2>2. \A q \in Rows : delivery[q].st # "NONE" => delivery'[q] = delivery[q]
    BY <1>7
  <2>3. \A g \in ActiveNames' : file'[g] = "final"
    BY <1>8, <1>10, <1>13, <2>1 DEF Held
  <2>4. SenderFine(First)
    BY <2>1 DEF IInv, Base, SendersFine
  <2>5. /\ sender'[First].pc \in Sending => delivery'[sender'[First].row].st = "SENDING"
        /\ sender'[First].pc = "removing" => delivery'[sender'[First].row].st = "SENT"
    BY <1>8, <2>1, <2>2, <2>4 DEF Held, SenderFine
  <2> QED
    BY <2>1, <2>3, <2>5, IdleWorker DEF Held
<1> QED
  BY <1>14, <1>15, <1>16, <1>17, <1>18, <1>19, <1>20 DEF IInv, Base

-----------------------------------------------------------------------------
(* Retention.                                                              *)
LEMMA CleanupStep ==
  ASSUME ExportAssumption, IInv, NEW p \in Processes, Cleanup(p)
  PROVE  IInv'
<1>1. Base /\ Fine(worker[p])
  BY DEF IInv, Base, WorkersFine
<1>2. CASE StartCleanup(p)
  <2> DEFINE new == [Idle EXCEPT !.pc = "cleaning", !.doomed = Expired]
  <2>1. Expired \subseteq Files /\ Expired \subseteq aged /\ Expired \cap ActiveNames = {}
    BY DEF Expired, OnDisk
  <2>2. new \in WorkerType
    BY <2>1, IdleTyped DEF WorkerType, AtRest
  <2>3. new.pc = "cleaning" /\ new.doomed = Expired
    BY DEF Idle
  <2>4. /\ worker[p].pc = "idle" /\ worker' = [worker EXCEPT ![p] = new]
        /\ UNCHANGED <<job, delivery, file, aged, sender, restarts>>
    BY <1>2 DEF StartCleanup, Work, OnlyWorker
  <2> HIDE DEF new
  <2>5. Fine(new) /\ ~Holds(new) /\ new.pc # "off" /\ new.pc \in AtRest
    BY <2>1, <2>3 DEF Fine, Holds, HoldPcs, AtRest
  <2>6. Base'
    BY <1>1, <2>2, <2>4, <2>5, JobsKept, WorkerMoves
  <2>7. Alone' => Held'
    BY <2>1, <2>3, <2>4, <2>5, WorkerHeld
  <2> QED
    BY <2>6, <2>7 DEF IInv
<1>3. CASE EndCleanup(p)
  <2>1. /\ worker[p].pc = "cleaning" /\ worker' = [worker EXCEPT ![p] = Idle]
        /\ UNCHANGED <<job, delivery, file, aged, sender, restarts>>
    BY <1>3 DEF EndCleanup, Work, OnlyWorker
  <2>2. Base'
    BY <1>1, <2>1, IdleWorker, JobsKept, WorkerMoves
  <2>3. Alone' => Held'
    BY <2>1, IdleWorker, WorkerHeld
  <2> QED
    BY <2>2, <2>3 DEF IInv
<1>4. CASE RemoveExpired(p)
  <2>1. PICK f \in worker[p].doomed \cap OnDisk : file' = [file EXCEPT ![f] = "removed"]
    BY <1>4 DEF RemoveExpired
  <2>2. worker[p].pc = "cleaning" /\ UNCHANGED <<job, worker, delivery, aged, sender, restarts>>
    BY <1>4 DEF RemoveExpired, OnlyWorker
  <2>3. f \in Files /\ file[f] # "unused" /\ f \in aged
    BY <1>1, <2>1 DEF Fine, OnDisk
  <2>4. \A q \in Processes : Holds(worker'[q]) => worker'[q].file # f
    BY <1>1, <2>2, <2>3 DEF Base, WorkersFine, Fine
  <2>5. /\ sender' \in [Processes -> SenderType] /\ SendersFine'
        /\ worker' \in [Processes -> WorkerType] /\ \A q \in Processes : worker'[q] = worker[q]
    BY <1>1, <2>2 DEF Base, Types, SendersFine, SenderFine
  <2>6. Base'
    BY <1>1, <2>1, <2>2, <2>3, <2>4, <2>5, FileGoes
  <2>7. Alone' => Held'
    <3> SUFFICES ASSUME Alone' PROVE Held'
      OBVIOUS
    <3>1. Alone /\ Held /\ p = First
      BY <1>1, <2>2, OnlyFirst DEF IInv, Alone
    <3>2. f \notin ActiveNames
      BY <2>1, <3>1 DEF Held
    <3> QED
      BY <2>1, <2>2, <3>1, <3>2, SameActive DEF Held
  <2> QED
    BY <2>6, <2>7 DEF IInv
<1> QED
  BY <1>2, <1>3, <1>4 DEF Cleanup

(* Nothing that is held grows old.                                          *)
LEMMA AgeStep ==
  ASSUME ExportAssumption, IInv, NEW f \in Files, Age(f)
  PROVE  IInv'
<1>1. /\ f \in OnDisk /\ aged' = aged \cup {f} /\ \A p \in Processes : worker[p].file # f
      /\ UNCHANGED <<job, delivery, file, worker, sender, restarts>>
  BY DEF Age
<1>2. Base
  BY DEF IInv
<1>3. WorkersFine'
  <2>1. ASSUME NEW q \in Processes PROVE Fine(worker[q])'
    <3>1. PICK r : r = worker[q]
      OBVIOUS
    <3>2. Fine(r) /\ worker'[q] = r
      BY <1>1, <1>2, <3>1 DEF Base, WorkersFine
    <3>3. Holds(r) => file'[r.file] = file[r.file] /\ r.file \notin aged'
      BY <1>1, <3>1, <3>2 DEF Fine
    <3> QED
      BY <1>1, <1>2, <3>2, <3>3, JobsKept, RowsKept, SameNames, StaysFine
  <2> QED
    BY <2>1 DEF WorkersFine
<1>4. AgedFine'
  BY <1>1, <1>2 DEF Base, AgedFine, OnDisk
<1>5. RowsFine'
  BY <1>1, <1>2, JobsKept, RowsKept, RowsStayFine
<1>6. Apart' /\ SendersFine'
  BY <1>1, <1>2 DEF Base, Apart, Holds, SendersFine, SenderFine
<1>7. Types'
  BY <1>1, <1>2 DEF Base, Types
<1>8. Alone' => Held'
  BY <1>1, SameActive DEF IInv, Alone, Held
<1> QED
  BY <1>3, <1>4, <1>5, <1>6, <1>7, <1>8 DEF IInv, Base

-----------------------------------------------------------------------------
(* Sending.                                                                *)

(* A sender moves on, and with it the row it has.                           *)
LEMMA SenderMoves ==
  ASSUME ExportAssumption, IInv, NEW p \in Processes, sender[p].pc # "off", RowsMove,
         NEW new \in SenderType, sender' = [sender EXCEPT ![p] = new], new.pc # "off",
         new.pc \in Sending \cup {"removing"} => new.row \in Rows /\ delivery'[new.row].st # "NONE",
         new.pc = "removing" => new.row[2] = "EXPORT_FILE",
         Alone => /\ new.pc \in Sending => delivery'[new.row].st = "SENDING"
                  /\ new.pc = "removing" => delivery'[new.row].st = "SENT"
                  /\ ActiveNames' \subseteq ActiveNames,
         UNCHANGED <<job, file, aged, worker, restarts>>
  PROVE  IInv'
<1>1. Base
  BY DEF IInv
<1>2. /\ sender' \in [Processes -> SenderType]
      /\ \A q \in Processes : sender'[q] = IF q = p THEN new ELSE sender[q]
  BY <1>1 DEF Base, Types
<1>3. SendersFine'
  <2>1. \A q \in Processes : SenderFine(q)
    BY <1>1 DEF Base, SendersFine
  <2>2. SenderFine(p)'
    BY <1>2, <2>1 DEF SenderFine
  <2>3. ASSUME NEW q \in Processes, q # p PROVE SenderFine(q)'
    <3>1. SenderFine(q) /\ sender'[q] = sender[q]
      BY <1>2, <2>1, <2>3
    <3> QED
      BY <3>1 DEF SenderFine, RowsMove
  <2> QED
    BY <2>2, <2>3 DEF SendersFine
<1>4. Base'
  BY <1>1, <1>2, <1>3, SendersMove
<1>5. Alone' => Held'
  <2> SUFFICES ASSUME Alone' PROVE Held'
    OBVIOUS
  <2>1. Alone /\ Held
    BY DEF IInv, Alone
  <2>2. p = First /\ sender'[First] = new
    BY <1>1, <1>2, <2>1, OnlyFirst
  <2> QED
    BY <2>1, <2>2 DEF Held
<1> QED
  BY <1>4, <1>5 DEF IInv

LEMMA SenderGoes ==
  ASSUME Base, NEW p \in Processes, NEW pc \in {"idle", "removing"} \cup Sending, SenderAt(p, pc)
  PROVE  \E new \in SenderType : /\ sender' = [sender EXCEPT ![p] = new]
                                 /\ new.pc = pc
                                 /\ pc # "idle" => new.row = sender[p].row
<1>1. sender \in [Processes -> SenderType] /\ sender[p] \in SenderType
  BY DEF Base, Types
<1>2. CASE pc = "idle"
  BY <1>1, <1>2, WaitingTyped DEF SenderAt
<1>3. CASE pc # "idle"
  <2> DEFINE new == [sender[p] EXCEPT !.pc = pc]
  <2>1. new \in SenderType /\ new.pc = pc /\ new.row = sender[p].row
    BY <1>1 DEF SenderType
  <2>2. sender' = [sender EXCEPT ![p] = new]
    BY <1>1, <1>3 DEF SenderAt
  <2> QED
    BY <2>1, <2>2
<1> QED
  BY <1>2, <1>3

(* A row that exists takes another status.                                  *)
LEMMA RowWrites ==
  ASSUME Base, NEW r \in Rows, delivery[r].st # "NONE", NEW n \in Nat,
         NEW st \in {"PENDING", "SENDING", "SENT", "FAILED"},
         delivery' = [delivery EXCEPT ![r] = [delivery[r] EXCEPT !.st = st, !.attempts = n]]
  PROVE  /\ RowsMove /\ delivery'[r].st = st
         /\ delivery[r].st \in {"PENDING", "SENDING"} => ActiveNames' \subseteq ActiveNames
<1> DEFINE new == [delivery[r] EXCEPT !.st = st, !.attempts = n]
<1>1. delivery \in [Rows -> DeliveryType] /\ delivery[r] \in DeliveryType
  BY DEF Base, Types
<1>2. new \in DeliveryType /\ new.st = st /\ new.file = delivery[r].file
  BY <1>1 DEF DeliveryType
<1> HIDE DEF new
<1>3. \A q \in Rows : delivery'[q] = IF q = r THEN new ELSE delivery[q]
  BY <1>1 DEF new
<1>4. RowsMove /\ delivery'[r].st = st
  <2>1. delivery' \in [Rows -> DeliveryType]
    BY <1>1, <1>2 DEF new
  <2> QED
    BY <1>2, <1>3, <2>1 DEF RowsMove
<1>5. ASSUME delivery[r].st \in {"PENDING", "SENDING"} PROVE ActiveNames' \subseteq ActiveNames
  <2>1. \A q \in Rows : /\ delivery'[q].file = delivery[q].file
                        /\ delivery'[q].st \in {"PENDING", "SENDING"}
                            => delivery[q].st \in {"PENDING", "SENDING"}
    BY <1>2, <1>3, <1>5
  <2>2. \A j \in Jobs : /\ FileRow(j)'.file = FileRow(j).file
                        /\ FileRow(j)'.st \in {"PENDING", "SENDING"}
                            => FileRow(j).st \in {"PENDING", "SENDING"}
    BY <2>1, RowOf DEF FileRow
  <2> QED
    BY <2>2 DEF ActiveNames
<1> QED
  BY <1>4, <1>5

(* A sender reads and decides, the row stays.                               *)
LEMMA SenderTurns ==
  ASSUME ExportAssumption, IInv, NEW p \in Processes, sender[p].pc \in Sending,
         NEW pc \in {"idle"} \cup Sending, SenderAt(p, pc),
         UNCHANGED <<job, delivery, file, aged, worker, restarts>>
  PROVE  IInv'
<1>1. Base /\ SenderFine(p) /\ sender[p].pc # "off"
  BY DEF IInv, Base, SendersFine, Sending
<1>2. PICK new \in SenderType : /\ sender' = [sender EXCEPT ![p] = new] /\ new.pc = pc
                                /\ pc # "idle" => new.row = sender[p].row
  BY <1>1, SenderGoes
<1>3. new.pc # "off" /\ new.pc # "removing" /\ (new.pc \in Sending => new.row = sender[p].row)
  BY <1>2 DEF Sending
<1>4. Alone => (new.pc \in Sending => delivery'[new.row].st = "SENDING")
  BY <1>1, <1>3, OnlyFirst DEF IInv, Held
<1> QED
  BY <1>1, <1>2, <1>3, <1>4, RowsKept, SameActive, SenderMoves DEF SenderFine

(* A sender writes by id.                                                   *)
LEMMA SenderWrites ==
  ASSUME ExportAssumption, IInv, NEW p \in Processes, sender[p].pc \in Sending,
         NEW st \in {"PENDING", "SENT", "FAILED"}, NEW pc \in {"idle", "removing"},
         pc = "removing" => st = "SENT" /\ sender[p].row[2] = "EXPORT_FILE",
         Write(p, st), SenderAt(p, pc),
         UNCHANGED <<job, file, aged, worker, restarts>>
  PROVE  IInv'
<1>1. Base /\ SenderFine(p) /\ sender[p].pc # "off"
  BY DEF IInv, Base, SendersFine, Sending
<1>2. PICK r \in Rows : r = sender[p].row /\ delivery[r].st # "NONE"
  BY <1>1 DEF SenderFine
<1>3. delivery[r] \in DeliveryType /\ delivery[r].attempts \in Nat
  BY <1>1 DEF Base, Types, DeliveryType
<1>4. delivery' = [delivery EXCEPT ![r] = [delivery[r] EXCEPT !.st = st,
                                                             !.attempts = delivery[r].attempts]]
  <2>1. [delivery[r] EXCEPT !.st = st]
         = [delivery[r] EXCEPT !.st = st, !.attempts = delivery[r].attempts]
    BY <1>3 DEF DeliveryType
  <2> QED
    BY <1>2, <2>1 DEF Write
<1>5. /\ RowsMove /\ delivery'[r].st = st
      /\ delivery[r].st \in {"PENDING", "SENDING"} => ActiveNames' \subseteq ActiveNames
  BY <1>1, <1>2, <1>3, <1>4, RowWrites
<1>6. PICK new \in SenderType : /\ sender' = [sender EXCEPT ![p] = new] /\ new.pc = pc
                                /\ pc # "idle" => new.row = r
  BY <1>1, <1>2, SenderGoes
<1>7. new.pc # "off" /\ new.pc \notin Sending
  BY <1>6 DEF Sending
<1>8. Alone => ActiveNames' \subseteq ActiveNames
  BY <1>1, <1>2, <1>5, OnlyFirst DEF IInv, Held
<1> QED
  BY <1>1, <1>2, <1>5, <1>6, <1>7, <1>8, SenderMoves

LEMMA ClaimDeliveryStep ==
  ASSUME ExportAssumption, IInv, NEW p \in Processes, NEW r \in Rows, ClaimDelivery(p, r)
  PROVE  IInv'
<1> DEFINE new == [pc |-> "claimed", row |-> r]
<1>1. /\ sender[p].pc = "idle" /\ delivery[r].st = "PENDING"
      /\ sender' = [sender EXCEPT ![p] = new]
      /\ UNCHANGED <<job, file, aged, worker, restarts>>
  BY DEF ClaimDelivery, OnlySender
<1>2. Base /\ delivery \in [Rows -> DeliveryType] /\ delivery[r].attempts \in Nat
  BY DEF IInv, Base, Types, DeliveryType
<1>3. delivery' = [delivery EXCEPT ![r] = [delivery[r] EXCEPT !.st = "SENDING",
                                                             !.attempts = delivery[r].attempts + 1]]
  BY <1>2 DEF ClaimDelivery
<1>4. RowsMove /\ delivery'[r].st = "SENDING" /\ ActiveNames' \subseteq ActiveNames
  <2>1. delivery[r].attempts + 1 \in Nat
    BY <1>2
  <2> QED
    BY <1>1, <1>2, <1>3, <2>1, RowWrites
<1>5. new \in SenderType /\ new.pc = "claimed" /\ new.row = r
  BY DEF SenderType, Sending
<1> HIDE DEF new
<1> QED
  BY <1>1, <1>4, <1>5, SenderMoves

LEMMA RemoveSentStep ==
  ASSUME ExportAssumption, IInv, NEW p \in Processes, NEW works \in BOOLEAN, RemoveSent(p, works)
  PROVE  IInv'
<1>1. /\ sender[p].pc = "removing" /\ SenderAt(p, "idle")
      /\ UNCHANGED <<job, delivery, aged, worker, restarts>>
  BY DEF RemoveSent, OnlySender
<1>2. Base /\ SenderFine(p) /\ sender[p].pc # "off"
  BY <1>1 DEF IInv, Base, SendersFine
<1>3. PICK new \in SenderType : sender' = [sender EXCEPT ![p] = new] /\ new.pc = "idle"
  BY <1>1, <1>2, SenderGoes
<1>4. new.pc # "off" /\ new.pc \notin Sending \cup {"removing"}
  BY <1>3 DEF Sending
<1>5. CASE ~works
  <2>1. file' = file
    BY <1>5 DEF RemoveSent
  <2> QED
    BY <1>1, <1>2, <1>3, <1>4, <2>1, RowsKept, SameActive, SenderMoves
<1>6. CASE works
  <2>1. PICK j \in Jobs : sender[p].row = <<j, "EXPORT_FILE">> /\ FileRow(j).st # "NONE"
    BY <1>1, <1>2, RowParts DEF SenderFine, FileRow
  <2>2. PICK f : f = FileRow(j).file
    OBVIOUS
  <2>3. file' = [file EXCEPT ![f] = "removed"]
    BY <1>6, <2>1, <2>2 DEF RemoveSent, FileRow
  <2>4. f \in Files /\ f[1] = j /\ file[f] # "unused" /\ f \in Named
    BY <1>2, <2>1, <2>2 DEF Base, RowsFine, RowFine, Named
  <2>5. \A q \in Processes : Holds(worker'[q]) => worker'[q].file # f
    BY <1>1, <1>2, <2>4 DEF Base, WorkersFine, Fine
  <2>6. /\ sender' \in [Processes -> SenderType]
        /\ \A q \in Processes : sender'[q] = IF q = p THEN new ELSE sender[q]
    BY <1>2, <1>3 DEF Base, Types
  <2>7. SendersFine'
    <3>1. ASSUME NEW q \in Processes PROVE SenderFine(q)'
      <4>1. SenderFine(q)
        BY <1>2 DEF Base, SendersFine
      <4> QED
        BY <1>1, <1>2, <1>4, <2>6, <4>1 DEF SenderFine
    <3> QED
      BY <3>1 DEF SendersFine
  <2>8. worker' \in [Processes -> WorkerType] /\ \A q \in Processes : worker'[q] = worker[q]
    BY <1>1, <1>2 DEF Base, Types
  <2>9. Base'
    BY <1>1, <1>2, <2>3, <2>4, <2>5, <2>6, <2>7, <2>8, FileGoes
  <2>10. Alone' => Held'
    <3> SUFFICES ASSUME Alone' PROVE Held'
      OBVIOUS
    <3>1. Alone /\ Held /\ p = First
      BY <1>1, <1>2, OnlyFirst DEF IInv, Alone
    <3>2. f \notin ActiveNames
      <4>1. ASSUME NEW k \in Jobs, FileRow(k).st \in {"PENDING", "SENDING"}, FileRow(k).file = f
            PROVE  FALSE
        <5>1. k = j
          BY <1>2, <2>4, <4>1 DEF Base, RowsFine, RowFine
        <5> QED
          BY <1>1, <2>1, <3>1, <4>1, <5>1 DEF Held, FileRow
      <4> QED
        BY <4>1 DEF ActiveNames
    <3>3. \A g \in ActiveNames' : file'[g] = "final"
      BY <1>1, <2>3, <3>1, <3>2, SameActive DEF Held
    <3>4. sender'[First].pc \notin Sending \cup {"removing"}
      BY <1>4, <2>6, <3>1
    <3> QED
      BY <1>1, <3>1, <3>3, <3>4, SameActive DEF Held
  <2> QED
    BY <2>9, <2>10 DEF IInv
<1> QED
  BY <1>5, <1>6

LEMMA DeliverStep ==
  ASSUME ExportAssumption, IInv, NEW p \in Processes, Deliver(p)
  PROVE  IInv'
<1>1. CASE Load(p)
  BY <1>1, SenderTurns DEF Load, OnlySender, Sending
<1>2. ASSUME NEW accepted \in BOOLEAN, Send(p, accepted) PROVE IInv'
  BY <1>2, SenderTurns DEF Send, OnlySender, Sending
<1>3. CASE RereadRow(p)
  <2> DEFINE row == delivery[sender[p].row]
             pc == CASE row.st # "SENDING" -> "idle"
                     [] row.st = "SENDING" /\ sender[p].pc = "sent" -> "marking"
                     [] row.st = "SENDING" /\ sender[p].pc = "failed" ->
                           IF row.attempts < MaxAttempts THEN "retrying" ELSE "refusing"
  <2>1. /\ sender[p].pc \in {"sent", "failed"} /\ SenderAt(p, pc)
        /\ UNCHANGED <<job, delivery, file, aged, worker, restarts>>
    BY <1>3 DEF RereadRow, OnlySender
  <2>2. pc \in {"idle", "marking", "retrying", "refusing"}
    BY <2>1
  <2> HIDE DEF pc
  <2> QED
    BY <2>1, <2>2, SenderTurns DEF Sending
<1>4. CASE MarkSent(p)
  <2> DEFINE pc == IF sender[p].row[2] = "EXPORT_FILE" THEN "removing" ELSE "idle"
  <2>1. /\ sender[p].pc \in Sending /\ Write(p, "SENT") /\ SenderAt(p, pc)
        /\ UNCHANGED <<job, file, aged, worker, restarts>>
    BY <1>4 DEF MarkSent, OnlySender, Sending
  <2> QED
    BY <2>1, SenderWrites
<1>5. CASE RecordFailure(p)
  BY <1>5, SenderWrites DEF RecordFailure, OnlySender, Sending
<1> QED
  BY <1>1, <1>2, <1>3, <1>4, <1>5, ClaimDeliveryStep, RemoveSentStep DEF Deliver

-----------------------------------------------------------------------------
LEMMA RestartStep ==
  ASSUME ExportAssumption, IInv, NEW p \in Processes, Restart(p)
  PROVE  IInv'
<1>1. /\ restarts < MaxRestarts /\ restarts' = restarts + 1
      /\ job' = [j \in Jobs |-> IF job[j] = "RUNNING" THEN "PENDING" ELSE job[j]]
      /\ delivery' = [r \in Rows |-> IF delivery[r].st = "SENDING"
                                     THEN [delivery[r] EXCEPT !.st = "PENDING"] ELSE delivery[r]]
      /\ worker' = [worker EXCEPT ![p] = Idle] /\ sender' = [sender EXCEPT ![p] = Waiting]
      /\ UNCHANGED <<file, aged>>
  BY DEF Restart
<1>2. Base
  BY DEF IInv
<1>3. ASSUME NEW r \in Rows
      PROVE  /\ delivery'[r] \in DeliveryType /\ delivery'[r].file = delivery[r].file
             /\ delivery'[r].st = IF delivery[r].st = "SENDING" THEN "PENDING" ELSE delivery[r].st
  <2>1. delivery[r] \in DeliveryType
    BY <1>2 DEF Base, Types
  <2> QED
    BY <1>1, <2>1 DEF DeliveryType
<1>4. RowsMove /\ ActiveNames' = ActiveNames
  <2>1. RowsMove
    BY <1>1, <1>3 DEF RowsMove
  <2>2. \A j \in Jobs : /\ FileRow(j)'.file = FileRow(j).file
                        /\ FileRow(j)'.st \in {"PENDING", "SENDING"}
                            <=> FileRow(j).st \in {"PENDING", "SENDING"}
    BY <1>3, RowOf DEF FileRow
  <2> QED
    BY <2>1, <2>2 DEF ActiveNames
<1>5. JobsMove /\ restarts' \in 0..MaxRestarts
  BY <1>1, <1>2 DEF JobsMove, Base, Types, JobStatuses, ExportAssumption
<1>6. /\ worker' \in [Processes -> WorkerType]
      /\ \A q \in Processes : worker'[q] = IF q = p THEN Idle ELSE worker[q]
  BY <1>1, <1>2, IdleTyped DEF Base, Types
<1>7. /\ sender' \in [Processes -> SenderType]
      /\ \A q \in Processes : sender'[q] = IF q = p THEN Waiting ELSE sender[q]
  BY <1>1, <1>2, WaitingTyped DEF Base, Types
<1>8. WorkersFine'
  <2>1. ASSUME NEW q \in Processes PROVE Fine(worker[q])'
    <3>1. PICK r : r = worker'[q]
      OBVIOUS
    <3>2. Fine(r)
      BY <1>2, <1>6, <3>1, IdleWorker DEF Base, WorkersFine
    <3>3. Holds(r) => file'[r.file] = file[r.file] /\ r.file \notin aged'
      BY <1>1, <3>2 DEF Fine
    <3> QED
      BY <1>1, <1>4, <1>5, <3>1, <3>2, <3>3, SameNames, StaysFine
  <2> QED
    BY <2>1 DEF WorkersFine
<1>9. Apart'
  BY <1>2, <1>6, IdleWorker DEF Base, Apart, Holds, HoldPcs
<1>10. RowsFine'
  BY <1>1, <1>2, <1>4, <1>5, RowsStayFine
<1>11. SendersFine'
  <2>1. ASSUME NEW q \in Processes PROVE SenderFine(q)'
    <3>1. SenderFine(q)
      BY <1>2 DEF Base, SendersFine
    <3> QED
      BY <1>4, <1>6, <1>7, <3>1, IdleWorker, WaitingTyped DEF SenderFine, RowsMove, Sending
  <2> QED
    BY <2>1 DEF SendersFine
<1>12. AgedFine' /\ Types'
  <2>1. AgedFine'
    BY <1>1, <1>2 DEF Base, AgedFine
  <2>2. Types'
    BY <1>1, <1>2, <1>4, <1>5, <1>6, <1>7 DEF Base, Types, RowsMove, JobsMove
  <2> QED
    BY <2>1, <2>2
<1>13. Alone' => Held'
  <2> SUFFICES ASSUME Alone' PROVE Held'
    OBVIOUS
  <2>1. p = First
    BY <1>6, IdleTyped DEF Alone
  <2>2. Alone /\ Held
    BY <1>6, <2>1 DEF Alone, IInv
  <2> QED
    BY <1>1, <1>4, <1>6, <1>7, <2>1, <2>2, IdleWorker, WaitingTyped DEF Held, Sending
<1> QED
  BY <1>8, <1>9, <1>10, <1>11, <1>12, <1>13 DEF IInv, Base

-----------------------------------------------------------------------------
LEMMA GenerateStep ==
  ASSUME ExportAssumption, IInv, NEW p \in Processes, Generate(p)
  PROVE  IInv'
  BY ClaimStep, ReadStep, WriteTempStep, PublishStep, AbandonStep, RereadStep, CommitStep
  DEF Generate

LEMMA StutterStep == ASSUME IInv, UNCHANGED vars PROVE IInv'
<1>1. UNCHANGED <<job, delivery, file, aged, worker, sender, restarts>>
  BY DEF vars
<1>2. Base'
  <2>1. \A q \in Processes : Fine(worker[q]) /\ SenderFine(q)
    BY DEF IInv, Base, WorkersFine, SendersFine
  <2>2. SendersFine'
    BY <1>1, <2>1 DEF SendersFine, SenderFine
  <2> QED
    BY <1>1, <2>2, RowsKept, SendersMove DEF IInv, Base, Types
<1>3. Alone' => Held'
  BY <1>1, SameActive DEF IInv, Alone, Held
<1> QED
  BY <1>2, <1>3 DEF IInv

LEMMA StepInvariant ==
  ASSUME ExportAssumption, IInv, [Next]_vars
  PROVE  IInv'
<1>1. CASE UNCHANGED vars
  BY <1>1, StutterStep
<1>2. CASE Next
  BY <1>2, EnqueueStep, GenerateStep, CleanupStep, DeliverStep, RestartStep, AgeStep, SaveItemStep
  DEF Next
<1> QED
  BY <1>1, <1>2

(* The inductive invariant holds for any constants: whoever overlaps, an    *)
(* archive in writing is not touched, no row comes without an outcome and   *)
(* no outcome without its row; and a single process finds what it read      *)
(* still true when it writes.                                               *)
THEOREM Invariance == ASSUME ExportAssumption PROVE Spec => []IInv
<1>1. Init => IInv
  BY InitInvariant
<1>2. IInv /\ [Next]_vars => IInv'
  BY StepInvariant
<1> QED
  BY <1>1, <1>2, PTL DEF Spec

(* Every variable keeps its type.                                           *)
THEOREM TypeCorrect == ASSUME ExportAssumption PROVE Spec => []TypeOK
<1>1. IInv => TypeOK
  BY DEF IInv, Base, Types, JobStatuses, DeliveryType, FileStates, WorkersFine, Fine, AtRest, TypeOK
<1> QED
  BY <1>1, Invariance, PTL

(* Whatever dies or is retried, as long as no second process is started the *)
(* archive of a delivery that is PENDING or SENDING is on disk under its    *)
(* final name.                                                              *)
THEOREM ArtifactKept == ASSUME ExportAssumption PROVE Spec => []ActiveDeliveryHasArtifact
<1>1. IInv => ActiveDeliveryHasArtifact
  BY DEF IInv, Held, ActiveDeliveryHasArtifact
<1> QED
  BY <1>1, Invariance, PTL

-----------------------------------------------------------------------------
(* The refinement: one outcome for every export.                            *)

(* A step that neither ends a job nor creates a row shows nothing.          *)
Silent == /\ \A r \in Rows : delivery'[r].st = "NONE" <=> delivery[r].st = "NONE"
          /\ \A j \in Jobs : \/ job'[j] = job[j]
                             \/ {job[j], job'[j]} \subseteq {"PENDING", "RUNNING"}

LEMMA SameViews == ASSUME Silent PROVE Outcome' = Outcome /\ Notices' = Notices
<1>1. \A j \in Jobs : Outcome'[j] = Outcome[j] /\ Notices'[j] = Notices[j]
  BY RowOf DEF Silent, Outcome, Notices
<1> QED
  BY <1>1 DEF Outcome, Notices

LEMMA Unseen ==
  ASSUME Silent, Alone' <=> Alone
  PROVE  [Promise!Next]_(Promise!vars)
  BY SameViews DEF Promise!vars, Alone

LEMMA Overlaps == ASSUME Silent, ~Alone' PROVE [Promise!Next]_(Promise!vars)
  BY SameViews DEF Promise!Next, Promise!Overlap, Alone

LEMMA EnqueueAccepts ==
  ASSUME IInv, NEW j \in Jobs, Enqueue(j)
  PROVE  [Promise!Next]_(Promise!vars)
<1>1. job \in [Jobs -> JobStatuses]
  BY DEF IInv, Base, Types
<1>2. Outcome[j] = "none" /\ Outcome' = [Outcome EXCEPT ![j] = "open"]
  BY <1>1 DEF Enqueue, Outcome
<1>3. Notices' = Notices /\ Alone' = Alone
  BY DEF Enqueue, Notices, Alone
<1> QED
  BY <1>2, <1>3 DEF Promise!Next, Promise!Accept

(* The commit of DONE or FAILED, with its row: of an open job it decides,   *)
(* and only a process that overlaps commits once more.                      *)
LEMMA CommitDecides ==
  ASSUME ExportAssumption, IInv, NEW p \in Processes, Finish(p) \/ Fail(p)
  PROVE  [Promise!Next]_(Promise!vars)
<1>1. PICK done \in BOOLEAN : /\ worker[p].pc = IF done THEN "finishing" ELSE "failing"
                              /\ IF done THEN Finish(p) ELSE Fail(p)
  <2>1. CASE Finish(p)
    BY <2>1 DEF Finish
  <2>2. CASE Fail(p)
    BY <2>2 DEF Fail
  <2> QED
    BY <2>1, <2>2
<1>2. PICK type \in {"EXPORT_FILE", "EXPORT_FAILED"} :
         type = IF done THEN "EXPORT_FILE" ELSE "EXPORT_FAILED"
  OBVIOUS
<1>3. PICK new \in {"answered", "refused"} : new = IF done THEN "answered" ELSE "refused"
  OBVIOUS
<1>4. worker[p].job \in Jobs
  BY <1>1, CommitMakes
<1>5. PICK j \in Jobs : j = worker[p].job
  BY <1>4
<1>6. /\ job[j] # "NONE"
      /\ \A k \in Jobs : job'[k] = IF k = j THEN IF done THEN "DONE" ELSE "FAILED" ELSE job[k]
  BY <1>1, <1>5, CommitMakes
<1>7. /\ \A q \in Rows \ {<<j, type>>} : delivery'[q] = delivery[q]
      /\ delivery'[<<j, type>>].st # "NONE"
  BY <1>1, <1>2, <1>5, CommitMakes
<1>8. \A k \in Jobs : Outcome'[k] = IF k = j THEN new ELSE Outcome[k]
  BY <1>3, <1>6 DEF Outcome
<1>9. \A k \in Jobs : Notices'[k] = IF k = j THEN Notices[k] \cup {type} ELSE Notices[k]
  BY <1>7, RowOf DEF Notices
<1>10. /\ Outcome' = [Outcome EXCEPT ![j] = new]
       /\ Notices' = [Notices EXCEPT ![j] = @ \cup {type}]
  BY <1>8, <1>9 DEF Outcome, Notices
<1>11. Alone' = Alone /\ (Alone => job[j] = "RUNNING")
  <2>1. /\ Base /\ worker[p].pc # "off" /\ worker[p].pc \notin AtRest
        /\ worker' = [worker EXCEPT ![p] = Idle]
    BY <1>1, CommitMakes DEF IInv, AtRest
  <2>2. Alone' <=> Alone
    BY <2>1, IdleTyped, AloneStays
  <2> QED
    BY <1>5, <2>1, <2>2, OnlyFirst DEF IInv, Held, Alone
<1>12. RowFine(j) /\ job[j] \in JobStatuses
  BY DEF IInv, Base, RowsFine, Types
<1>13. CASE job[j] \in {"PENDING", "RUNNING"}
  <2>1. Outcome[j] = "open" /\ Notices[j] = {}
    BY <1>12, <1>13 DEF Outcome, Notices, RowFine
  <2>2. CASE done
    BY <1>2, <1>3, <1>10, <1>11, <2>1, <2>2 DEF Promise!Next, Promise!Answer, Promise!Decide
  <2>3. CASE ~done
    BY <1>2, <1>3, <1>10, <1>11, <2>1, <2>3 DEF Promise!Next, Promise!Refuse, Promise!Decide
  <2> QED
    BY <2>2, <2>3
<1>14. CASE job[j] \in {"DONE", "FAILED"} /\ Outcome[j] = new
  <2>1. type \in Notices[j]
    BY <1>2, <1>3, <1>12, <1>14 DEF Outcome, Notices, RowFine, FileRow
  <2>2. Outcome' = Outcome /\ Notices' = Notices
    BY <1>8, <1>9, <1>14, <2>1 DEF Outcome, Notices
  <2> QED
    BY <1>11, <2>2 DEF Promise!vars
<1>15. CASE job[j] \in {"DONE", "FAILED"} /\ Outcome[j] # new
  <2>1. ~Alone
    BY <1>11, <1>15
  <2>2. CASE done
    <3>1. Outcome[j] = "refused"
      BY <1>3, <1>15, <2>2 DEF Outcome
    <3> QED
      BY <1>2, <1>3, <1>10, <1>11, <2>1, <2>2, <3>1 DEF Promise!Next, Promise!Amend, Promise!Decide
  <2>3. CASE ~done
    <3>1. Outcome[j] = "answered"
      BY <1>3, <1>15, <2>3 DEF Outcome
    <3> QED
      BY <1>2, <1>3, <1>10, <1>11, <2>1, <2>3, <3>1 DEF Promise!Next, Promise!Amend, Promise!Decide
  <2> QED
    BY <2>2, <2>3
<1> QED
  BY <1>6, <1>12, <1>13, <1>14, <1>15 DEF JobStatuses

(* A worker that runs goes on running.                                      *)
LEMMA WorkersRun ==
  ASSUME Base, NEW p \in Processes, Generate(p) \/ Cleanup(p)
  PROVE  Alone' <=> Alone
<1>1. CASE UNCHANGED worker
  BY <1>1 DEF Alone
<1>2. ASSUME NEW new, worker[p].pc # "off", new.pc # "off", worker' = [worker EXCEPT ![p] = new]
      PROVE  Alone' <=> Alone
  BY <1>2, AloneStays
<1>3. worker[p] \in WorkerType
  BY DEF Base, Types
<1>4. ASSUME NEW new, worker[p].pc # "off", worker' = [worker EXCEPT ![p] = new],
             \/ \E pc \in (HoldPcs \cup {"items", "reminders", "events", "projecting", "failing",
                                         "failed"}) : new = [worker[p] EXCEPT !.pc = pc]
             \/ \E pc \in {"snapshot", "failed"} : new = [worker[p] EXCEPT !.pc = pc, !.newer = FALSE]
             \/ \E f : new = [worker[p] EXCEPT !.pc = "writing", !.file = f]
             \/ \E code : new = [worker[p] EXCEPT !.pc = "failed", !.newer = FALSE, !.code = code]
             \/ \E j : new = [Idle EXCEPT !.pc = "claimed", !.job = j]
             \/ \E d : new = [Idle EXCEPT !.pc = "cleaning", !.doomed = d]
             \/ new = Idle
      PROVE  Alone' <=> Alone
  <2>1. new.pc # "off"
    <3>1. ASSUME NEW pc, pc # "off", new = [worker[p] EXCEPT !.pc = pc] PROVE new.pc # "off"
      BY <1>3, <3>1 DEF WorkerType
    <3>2. ASSUME NEW pc, pc # "off", new = [worker[p] EXCEPT !.pc = pc, !.newer = FALSE]
          PROVE  new.pc # "off"
      BY <1>3, <3>2 DEF WorkerType
    <3>3. ASSUME NEW f, new = [worker[p] EXCEPT !.pc = "writing", !.file = f]
          PROVE  new.pc # "off"
      BY <1>3, <3>3 DEF WorkerType
    <3>4. ASSUME NEW code, new = [worker[p] EXCEPT !.pc = "failed", !.newer = FALSE, !.code = code]
          PROVE  new.pc # "off"
      BY <1>3, <3>4 DEF WorkerType
    <3>5. ASSUME NEW j, new = [Idle EXCEPT !.pc = "claimed", !.job = j] PROVE new.pc # "off"
      BY <3>5 DEF Idle
    <3>6. ASSUME NEW d, new = [Idle EXCEPT !.pc = "cleaning", !.doomed = d] PROVE new.pc # "off"
      BY <3>6 DEF Idle
    <3> QED
      BY <1>4, <3>1, <3>2, <3>3, <3>4, <3>5, <3>6, IdleTyped DEF HoldPcs
  <2> QED
    BY <1>2, <1>4, <2>1
<1>5. CASE (\E j \in Jobs : Claim(p, j)) \/ Cleanup(p)
  BY <1>1, <1>4, <1>5
  DEF Claim, Cleanup, StartCleanup, RemoveExpired, EndCleanup, Work
<1>6. ASSUME NEW from \in {"items", "reminders", "events"},
             NEW to \in {"reminders", "events", "projecting"}, NEW foreign,
             ReadReferences(p, from, to, foreign)
      PROVE  Alone' <=> Alone
  <2>1. CASE foreign
    BY <1>4, <1>6, <2>1 DEF ReadReferences, Work
  <2>2. CASE ~foreign
    BY <1>4, <1>6, <2>2 DEF ReadReferences, Work
  <2> QED
    BY <2>1, <2>2
<1>7. CASE ReadItems(p) \/ Publish(p) \/ Validate(p) \/ Abandon(p)
  BY <1>4, <1>7 DEF ReadItems, Publish, Validate, Abandon, Work, HoldPcs
<1>8. CASE Refuse(p) \/ Project(p)
  BY <1>4, <1>8 DEF Refuse, Project, Work
<1>9. CASE \E f \in Files : WriteTemp(p, f)
  BY <1>4, <1>9 DEF WriteTemp, Work
<1>10. CASE Reread(p)
  <2> DEFINE pc == IF worker[p].pc = "ready" THEN "finishing" ELSE "failing"
  <2>1. worker[p].pc # "off" /\ pc \in HoldPcs \cup {"failing"}
    BY <1>10 DEF Reread, HoldPcs
  <2>2. \/ worker' = [worker EXCEPT ![p] = [worker[p] EXCEPT !.pc = pc]]
        \/ worker' = [worker EXCEPT ![p] = Idle]
    BY <1>10 DEF Reread, Work
  <2> HIDE DEF pc
  <2> QED
    BY <1>4, <2>1, <2>2
<1>11. CASE Finish(p) \/ Fail(p)
  BY <1>4, <1>11 DEF Finish, Fail, Commit, Work
<1> QED
  BY <1>5, <1>6, <1>7, <1>8, <1>9, <1>10, <1>11
  DEF Generate, ReadReminders, ReadEvents, ReadContents

LEMMA GenerateKeepsPromise ==
  ASSUME ExportAssumption, IInv, NEW p \in Processes, Generate(p)
  PROVE  [Promise!Next]_(Promise!vars)
<1>1. Alone' <=> Alone
  BY WorkersRun DEF IInv
<1>2. CASE UNCHANGED <<job, delivery>>
  BY <1>1, <1>2, Unseen DEF Silent
<1>3. ASSUME NEW j \in Jobs, Claim(p, j) PROVE [Promise!Next]_(Promise!vars)
  <2>1. \A k \in Jobs : job'[k] = IF k = j THEN "RUNNING" ELSE job[k]
    BY <1>3 DEF Claim, IInv, Base, Types
  <2>2. job[j] = "PENDING" /\ delivery' = delivery
    BY <1>3 DEF Claim, OnlyWorker
  <2> QED
    BY <1>1, <2>1, <2>2, Unseen DEF Silent
<1> QED
  BY <1>2, <1>3, CommitDecides
  DEF Generate, ReadItems, ReadReminders, ReadEvents, ReadContents, ReadReferences, Refuse,
      Project, WriteTemp, Publish, Validate, Abandon, Reread, OnlyWorker

LEMMA DeliverKeepsPromise ==
  ASSUME ExportAssumption, IInv, NEW p \in Processes, Deliver(p)
  PROVE  [Promise!Next]_(Promise!vars)
<1>1. job' = job /\ worker' = worker
  BY DEF Deliver, ClaimDelivery, Load, Send, RereadRow, MarkSent, RecordFailure, RemoveSent,
         OnlySender
<1>2. \A r \in Rows : delivery'[r].st = "NONE" <=> delivery[r].st = "NONE"
  <2>1. delivery \in [Rows -> DeliveryType] /\ SenderFine(p)
    BY DEF IInv, Base, Types, SendersFine
  <2>2. ASSUME NEW q \in Rows, delivery[q].st # "NONE", NEW st \in {"PENDING", "SENT", "FAILED"},
               delivery' = [delivery EXCEPT ![q].st = st]
        PROVE  \A r \in Rows : delivery'[r].st = "NONE" <=> delivery[r].st = "NONE"
    <3>1. [delivery[q] EXCEPT !.st = st].st = st
      BY <2>1 DEF DeliveryType
    <3> QED
      BY <2>1, <2>2, <3>1
  <2>3. CASE \E q \in Rows : ClaimDelivery(p, q)
    <3>1. PICK q \in Rows : ClaimDelivery(p, q)
      BY <2>3
    <3>2. delivery[q] \in DeliveryType
      BY <2>1
    <3>3. [delivery[q] EXCEPT !.st = "SENDING", !.attempts = delivery[q].attempts + 1].st = "SENDING"
      BY <3>2 DEF DeliveryType
    <3>4. delivery[q].st = "PENDING"
      BY <3>1 DEF ClaimDelivery
    <3> QED
      BY <2>1, <3>1, <3>3, <3>4 DEF ClaimDelivery
  <2>4. CASE MarkSent(p) \/ RecordFailure(p)
    BY <2>1, <2>2, <2>4 DEF MarkSent, RecordFailure, Write, SenderFine, Sending
  <2>5. CASE delivery' = delivery
    BY <2>5
  <2> QED
    BY <2>3, <2>4, <2>5 DEF Deliver, Load, Send, RereadRow, RemoveSent
<1> QED
  BY <1>1, <1>2, Unseen DEF Silent, Alone

LEMMA RestartKeepsPromise ==
  ASSUME ExportAssumption, IInv, NEW p \in Processes, Restart(p)
  PROVE  [Promise!Next]_(Promise!vars)
<1>1. Silent
  <2>1. delivery \in [Rows -> DeliveryType]
    BY DEF IInv, Base, Types
  <2> QED
    BY <2>1 DEF Silent, Restart, DeliveryType
<1>2. \A q \in Processes : worker'[q] = IF q = p THEN Idle ELSE worker[q]
  BY DEF Restart, IInv, Base, Types
<1>3. CASE p = First
  BY <1>1, <1>2, <1>3, Unseen DEF Alone
<1>4. CASE p # First
  BY <1>1, <1>2, <1>4, IdleTyped, Overlaps DEF Alone
<1> QED
  BY <1>3, <1>4

LEMMA StepKeepsPromise ==
  ASSUME ExportAssumption, IInv, [Next]_vars
  PROVE  [Promise!Next]_(Promise!vars)
<1>1. CASE UNCHANGED <<job, delivery>> /\ (Alone' <=> Alone)
  BY <1>1, Unseen DEF Silent
<1>2. ASSUME NEW p \in Processes, Cleanup(p) PROVE [Promise!Next]_(Promise!vars)
  BY <1>1, <1>2, WorkersRun
  DEF IInv, Cleanup, StartCleanup, RemoveExpired, EndCleanup, OnlyWorker
<1>3. CASE SaveItem
  <2>1. \A q \in Processes : worker'[q].pc = worker[q].pc
    BY <1>3 DEF SaveItem, IInv, Base, Types, WorkerType
  <2> QED
    BY <1>1, <1>3, <2>1 DEF SaveItem, OnlyWorker, Alone
<1>4. CASE (\E f \in Files : Age(f)) \/ UNCHANGED vars
  BY <1>1, <1>4 DEF Age, vars, Alone
<1> QED
  BY <1>2, <1>3, <1>4, EnqueueAccepts, GenerateKeepsPromise, DeliverKeepsPromise,
     RestartKeepsPromise DEF Next

(* While a single process runs, an export is done or failed at most once,   *)
(* and the one delivery it owes is recorded in that commit (process, fail). *)
(* Once two overlap, it still comes to an outcome and never to none again,  *)
(* every outcome it takes is announced with it, and an announcement stays:  *)
(* the safety part of Promise!Spec.                                         *)
THEOREM KeepsPromise ==
  ASSUME ExportAssumption PROVE Spec => Promise!Init /\ [][Promise!Next]_(Promise!vars)
<1>1. ASSUME Init PROVE Promise!Init
  <2>1. \A r \in Rows : delivery[r].st = "NONE"
    BY <1>1 DEF Init, NoDelivery
  <2>2. \A j \in Jobs : Outcome[j] = "none" /\ Notices[j] = {}
    BY <1>1, <2>1, RowOf DEF Init, Outcome, Notices
  <2>3. Alone
    BY <1>1, IdleTyped DEF Init, Alone
  <2> QED
    BY <2>2, <2>3 DEF Outcome, Notices, Promise!Init
<1>2. IInv /\ [Next]_vars => [Promise!Next]_(Promise!vars)
  BY StepKeepsPromise
<1> QED
  BY <1>1, <1>2, Invariance, PTL DEF Spec
=============================================================================
