--------------------------- MODULE RemindersProofs ---------------------------
(***************************************************************************)
(* Theorems about Reminders: for any workers, Items, times and settings,   *)
(* an Item that sleeps has its wake-up call, a digest is not replayed and  *)
(* an attention kind has one open claim; and one process never loses a     *)
(* claim it sends for, and keeps gap and budget.                           *)
(***************************************************************************)
EXTENDS Reminders, FiniteSetTheorems, TLAPS

-----------------------------------------------------------------------------
(* Rows are of three kinds, and name what they are about.                  *)
LEMMA Kinds ==
  /\ SnoozeIds \cap BudgetIds = {}
  /\ DigestIds \cap AttentionIds = {}
  /\ MotivationIds \cap ProactiveIds = {}
  BY DEF SnoozeIds, BudgetIds, AttentionIds, DigestIds, MotivationIds, ProactiveIds,
         Snooze, Digest, Motivation, Proactive

LEMMA Names ==
  /\ \A i \in Items, t \in Times : Snooze(i, t) \in SnoozeIds /\ Snooze(i, t)[2] = i /\ Snooze(i, t)[3] = t
  /\ \A d \in Days : Digest(d) \in DigestIds /\ Digest(d)[2] = d
  /\ \A id \in SnoozeIds : id[2] \in Items /\ id[3] \in Times /\ id = Snooze(id[2], id[3])
  BY DEF SnoozeIds, DigestIds, Snooze, Digest

LEMMA Bounds ==
  ASSUME RemindersAssumption
  PROVE  /\ MaxTime \in Nat \ {0} /\ DayLength \in Nat \ {0}
         /\ MaxActs \in Nat /\ MaxCrashes \in Nat /\ MaxLost \in Nat /\ MaxGeneration \in Nat
         /\ SnoozeDelays \subseteq Nat \ {0} /\ GenericCap \in [Levels -> 0..2]
<1>1. {MaxTime, Lease, SendWindow, MaxSendAttempts, DayLength} \subseteq Nat \ {0}
  BY Zenon DEF RemindersAssumption
<1>2. {RepeatGap, DismissCooldown, MaxRows, MaxActs, MaxCrashes, MaxLost, MaxGeneration} \subseteq Nat
  BY Zenon DEF RemindersAssumption
<1>3. SnoozeDelays \subseteq Nat \ {0} /\ GenericCap \in [Levels -> 0..2]
  BY Zenon DEF RemindersAssumption
<1> QED
  BY <1>1, <1>2, <1>3

LEMMA DaysCount ==
  ASSUME RemindersAssumption, NEW t \in 0..MaxTime
  PROVE  Day(t) \in Days
<1>1. DayLength \in Nat \ {0} /\ MaxTime \in Nat
  BY Bounds
<1> QED
  BY <1>1 DEF Day, Days

-----------------------------------------------------------------------------
(* The inductive invariant.                                                *)

TodoType == SnoozeIds \cup (AttentionIds \X Nat)
WorkerType == [pc : PCs, id : Ids \cup {Nil}, gen : Nat, claimed : Nat, at : Nat, tries : Nat,
               todo : SUBSET TodoType, next : {"idle", "motivation", "proactive"}]

Types == /\ now \in 1..MaxTime
         /\ settings \in Settings /\ since \in 1..MaxTime
         /\ item \in [Items -> [state : {"ACTIVE", "SNOOZED", "RESOLVED"}, until : 0..MaxTime]]
         /\ dismissed \in [Items -> 0..MaxTime]
         /\ row \in [Ids -> RowType]
         /\ shown \in [Ids -> Nat]
         /\ worker \in [Workers -> WorkerType]
         /\ acts \in 0..MaxActs /\ crashes \in 0..MaxCrashes /\ lost \in 0..MaxLost

(* What a worker holds was claimed before, and the snoozes it lists are due. *)
Senders == {"sending", "accepted", "failed"}
Fine(r) == /\ r.pc \in Senders \cup {"doomed", "prepare"} => r.id \in Ids /\ r.gen \in 1..row[r.id].gen
           /\ r.pc = "doomed" => r.id \in ProactiveIds
           /\ r.pc = "prepare" => r.id \in AttentionIds
           /\ r.at <= now
           /\ r.pc # "cancel" => \A id \in r.todo \cap SnoozeIds : id[3] <= r.at
WorkersFine == \A w \in Workers : Fine(worker[w])

(* A claim has a generation, and a snooze is claimed when it is due.        *)
ClaimsAgree == \A id \in Ids : row[id].st = "CLAIMED" =>
                  row[id].gen >= 1 /\ (id \in SnoozeIds => id[3] <= now)

Sleeping == \A i \in Items : item[i].state = "SNOOZED" =>
               item[i].until \in Times /\ row[Snooze(i, item[i].until)].st = "PENDING"

Alone == \A S \in {ProactiveIds, MotivationIds} : \A a, b \in Open(S) : a = b

(* A digest has one sender, ever, who has shown it once or lost a reply.    *)
Sends(r, id) == r.pc \in Senders /\ r.id = id
DigestsOnce == \A id \in DigestIds :
    /\ row[id].st \in {"NONE", "PENDING"} =>
          shown[id] = 0 /\ \A w \in Workers : ~Sends(worker[w], id)
    /\ \A v, w \in Workers : Sends(worker[v], id) /\ Sends(worker[w], id) => v = w
    /\ shown[id] <= 1 + lost
    /\ \A w \in Workers : Sends(worker[w], id) /\ worker[w].pc = "sending" => shown[id] <= lost

IInv == Types /\ WorkersFine /\ ClaimsAgree /\ Sleeping /\ Alone /\ DigestsOnce

-----------------------------------------------------------------------------
LEMMA IdleFine ==
  /\ Idle \in WorkerType /\ Idle.pc = "idle" /\ Idle.at = 0 /\ Idle.todo = {} /\ Idle.id = Nil
  /\ \A t \in Nat : 0 <= t
  BY DEF Idle, WorkerType, PCs

LEMMA InitInvariant == ASSUME RemindersAssumption, Init PROVE IInv
<1>1. /\ MaxTime \in Nat \ {0} /\ MaxActs \in Nat /\ MaxCrashes \in Nat /\ MaxLost \in Nat
      /\ MaxGeneration \in Nat
  BY Bounds
<1>2. NoRow \in RowType /\ NoRow.st = "NONE"
  BY <1>1 DEF NoRow, RowType, Statuses
<1>3. Types
  <2>1. item \in [Items -> [state : {"ACTIVE", "SNOOZED", "RESOLVED"}, until : 0..MaxTime]]
    BY <1>1 DEF Init
  <2>2. row \in [Ids -> RowType] /\ shown \in [Ids -> Nat] /\ worker \in [Workers -> WorkerType]
    BY <1>2, IdleFine DEF Init
  <2>3. now \in 1..MaxTime /\ since \in 1..MaxTime /\ dismissed \in [Items -> 0..MaxTime]
    BY <1>1 DEF Init
  <2>4. acts \in 0..MaxActs /\ crashes \in 0..MaxCrashes /\ lost \in 0..MaxLost
    BY <1>1 DEF Init
  <2> QED
    BY <2>1, <2>2, <2>3, <2>4 DEF Init, Types
<1>4. WorkersFine
  <2>1. now = 1 /\ \A w \in Workers : worker[w] = Idle
    BY DEF Init
  <2>2. Fine(Idle)
    BY <2>1, IdleFine DEF Fine, Senders
  <2> QED
    BY <2>1, <2>2 DEF WorkersFine
<1>5. ClaimsAgree /\ Alone
  BY <1>2 DEF Init, ClaimsAgree, Alone, Open, Has, Ids, BudgetIds, AttentionIds
<1>6. Sleeping
  BY DEF Init, Sleeping
<1>7. DigestsOnce
  BY <1>2, IdleFine DEF Init, DigestsOnce, Sends, Senders, Ids, BudgetIds
<1> QED
  BY <1>3, <1>4, <1>5, <1>6, <1>7 DEF IInv

-----------------------------------------------------------------------------
(* Three kinds of steps: of the rows without a claim, of a claim, and of    *)
(* what others see.                                                        *)

(* No row is claimed, none is forgotten, no digest is opened again.         *)
QuietRows ==
    /\ row' \in [Ids -> RowType]
    /\ \A id \in Ids : /\ row'[id].gen = row[id].gen
                       /\ row'[id].st = "CLAIMED" => row[id].st = "CLAIMED"
                       /\ id \in DigestIds /\ row[id].st \notin {"NONE", "PENDING"}
                            => row'[id].st \notin {"NONE", "PENDING"}
                       /\ id \in DigestIds /\ row[id].st = "NONE" => row'[id].st \in {"NONE", "PENDING"}

SnoozesKept == item' = item /\ \A id \in SnoozeIds : row'[id] = row[id]

LEMMA SleepKept ==
  ASSUME IInv, SnoozesKept
  PROVE  Sleeping'
  BY Names DEF SnoozesKept, IInv, Sleeping

LEMMA SameRows ==
  ASSUME IInv, row' = row
  PROVE  QuietRows
  BY DEF QuietRows, IInv, Types

LEMMA CancelQuiet ==
  ASSUME IInv, NEW S, S \subseteq AttentionIds, row' = Cancelled(S)
  PROVE  QuietRows /\ \A id \in SnoozeIds : row'[id] = row[id]
<1>1. row \in [Ids -> RowType]
  BY DEF IInv, Types
<1>2. \A id \in Ids : row'[id] = IF id \in S THEN Closed(id, "CANCELLED") ELSE row[id]
  BY DEF Cancelled
<1>3. \A id \in Ids : /\ Closed(id, "CANCELLED") \in RowType /\ Closed(id, "CANCELLED").gen = row[id].gen
                      /\ Closed(id, "CANCELLED").st = "CANCELLED"
  BY <1>1 DEF Closed, RowType, Statuses
<1>4. row' \in [Ids -> RowType]
  BY <1>1, <1>3 DEF Cancelled
<1>5. \A id \in DigestIds \cup SnoozeIds : id \notin S /\ id \in Ids
  BY Kinds DEF Ids, BudgetIds
<1> QED
  BY <1>2, <1>3, <1>4, <1>5 DEF QuietRows

(* A worker goes on with what it had, or with nothing.                      *)
Continues(w, new) ==
    /\ new \in WorkerType /\ Fine(new)
    /\ new.pc \in Senders /\ new.id \in DigestIds
         => /\ worker[w].pc \in Senders /\ new.id = worker[w].id
            /\ new.pc = "sending" => worker[w].pc = "sending"

Others == /\ settings' \in Settings /\ since' \in 1..MaxTime
          /\ item' \in [Items -> [state : {"ACTIVE", "SNOOZED", "RESOLVED"}, until : 0..MaxTime]]
          /\ dismissed' \in [Items -> 0..MaxTime]
          /\ acts' \in 0..MaxActs /\ crashes' \in 0..MaxCrashes

LEMMA OthersKept ==
  ASSUME IInv, UNCHANGED <<settings, since, item, dismissed, acts, crashes>>
  PROVE  Others
  BY DEF Others, IInv, Types

LEMMA QuietRowsKeep ==
  ASSUME IInv, QuietRows, now' \in Nat, now <= now'
  PROVE  ClaimsAgree' /\ Alone'
<1>1. \A id \in SnoozeIds : id[3] \in Nat /\ id \in Ids
  BY Names DEF Times, Ids
<1>2. now \in Nat
  BY DEF IInv, Types
<1>3. ClaimsAgree'
  BY <1>1, <1>2 DEF IInv, QuietRows, ClaimsAgree
<1>4. Alone'
  BY DEF IInv, QuietRows, Alone, Open, Has, Ids, BudgetIds, AttentionIds
<1> QED
  BY <1>3, <1>4

LEMMA QuietKeeps ==
  ASSUME RemindersAssumption, IInv, NEW w \in Workers, NEW new, Continues(w, new),
         worker' = [worker EXCEPT ![w] = new], QuietRows, Sleeping', Others,
         UNCHANGED <<now, shown, lost>>
  PROVE  IInv'
<1>1. /\ worker' \in [Workers -> WorkerType]
      /\ \A v \in Workers : worker'[v] = IF v = w THEN new ELSE worker[v]
  BY DEF Continues, IInv, Types
<1>2. WorkersFine'
  <2>1. \A v \in Workers : Fine(worker'[v])
    BY <1>1 DEF Continues, IInv, WorkersFine
  <2>2. ASSUME NEW v \in Workers PROVE Fine(worker[v])'
    BY <1>1, <2>1 DEF QuietRows, Fine
  <2> QED
    BY <2>2 DEF WorkersFine
<1>3. ClaimsAgree' /\ Alone'
  BY QuietRowsKeep DEF IInv, Types
<1>4. DigestsOnce'
  <2>1. \A v \in Workers, id \in DigestIds :
           Sends(worker'[v], id) => /\ Sends(worker[v], id)
                                    /\ worker'[v].pc = "sending" => worker[v].pc = "sending"
    BY <1>1 DEF Continues, Sends
  <2>2. \A id \in DigestIds : id \in Ids
    BY DEF Ids, BudgetIds
  <2> QED
    BY <2>1, <2>2 DEF IInv, DigestsOnce, QuietRows
<1>5. Types'
  BY <1>1 DEF Others, QuietRows, IInv, Types
<1> QED
  BY <1>2, <1>3, <1>4, <1>5 DEF IInv

(* A claim: of a row that nobody may hold, by one worker.                   *)
LEMMA ClaimedTyped ==
  ASSUME RemindersAssumption, IInv, NEW id \in Ids, row[id].gen < MaxGeneration
  PROVE  /\ Claimed(id) \in RowType /\ Claimed(id).st = "CLAIMED"
         /\ Claimed(id).gen = row[id].gen + 1 /\ Claimed(id).gen \in Nat /\ Claimed(id).gen >= 1
<1>1. MaxGeneration \in Nat /\ MaxTime \in Nat
  BY Bounds
<1>2. row[id].gen \in 0..MaxGeneration /\ now \in Nat
  BY <1>1 DEF IInv, Types, RowType
<1>3. row[id].gen + 1 \in 0..MaxGeneration /\ row[id].gen + 1 >= 1
  BY <1>1, <1>2
<1>4. "CLAIMED" \in Statuses
  BY DEF Statuses
<1>5. Claimed(id) \in RowType
  BY <1>2, <1>3, <1>4 DEF Claimed, RowType
<1> QED
  BY <1>1, <1>3, <1>5 DEF Claimed

Claims(w, id, new) ==
    /\ row' \in [Ids -> RowType] /\ row'[id] = Claimed(id)
    /\ \A o \in Ids \ {id} : \/ row'[o] = row[o]
                             \/ o \in AttentionIds /\ row'[o] = Closed(o, "CANCELLED")
    /\ id \in SnoozeIds => id[3] <= now
    /\ id \in DigestIds => row[id].st \in {"NONE", "PENDING"}
    /\ \A S \in {ProactiveIds, MotivationIds} :
          id \in S => \A o \in Open(S) : o # id => row'[o].st # "CLAIMED"
    /\ new \in WorkerType /\ new.id = id /\ new.gen = row[id].gen + 1
    /\ new.pc \in {"sending", "prepare"} /\ (new.pc = "prepare" => id \in AttentionIds)
    /\ new.at <= now /\ \A o \in new.todo \cap SnoozeIds : o[3] <= new.at

LEMMA ClaimKeeps ==
  ASSUME RemindersAssumption, IInv, NEW w \in Workers, NEW id \in Ids, NEW new,
         row[id].gen < MaxGeneration, Claims(w, id, new),
         worker' = [worker EXCEPT ![w] = new], Sleeping', Others,
         UNCHANGED <<now, shown, lost>>
  PROVE  IInv'
<1>1. /\ worker' \in [Workers -> WorkerType]
      /\ \A v \in Workers : worker'[v] = IF v = w THEN new ELSE worker[v]
  BY DEF Claims, IInv, Types
<1>2. /\ Claimed(id).st = "CLAIMED" /\ Claimed(id).gen = row[id].gen + 1
      /\ Claimed(id).gen \in Nat /\ Claimed(id).gen >= 1 /\ row[id].gen \in Nat
  <2>1. row[id].gen \in Nat
    BY DEF IInv, Types, RowType
  <2> QED
    BY <2>1, ClaimedTyped
<1>3. \A o \in Ids : o # id => /\ row'[o].gen = row[o].gen
                               /\ row'[o].st = "CLAIMED" => row[o].st = "CLAIMED"
                               /\ o \notin AttentionIds => row'[o] = row[o]
  <2>1. \A o \in Ids : row[o] \in RowType
    BY DEF IInv, Types
  <2>2. \A o \in Ids : Closed(o, "CANCELLED").gen = row[o].gen /\ Closed(o, "CANCELLED").st = "CANCELLED"
    BY <2>1 DEF Closed, RowType
  <2> QED
    BY <2>2 DEF Claims
<1>4. WorkersFine'
  <2>1. ASSUME NEW v \in Workers, v # w PROVE Fine(worker[v])'
    <3>1. worker'[v] = worker[v] /\ Fine(worker[v]) /\ now' = now
      BY <1>1, <2>1 DEF IInv, WorkersFine
    <3>2. worker[v].id \in Ids /\ worker[v].gen \in 1..row[worker[v].id].gen
            => worker[v].gen \in 1..row'[worker[v].id].gen
      BY <1>2, <1>3 DEF Claims, IInv, Types, WorkerType, RowType
    <3> QED
      BY <3>1, <3>2 DEF Fine
  <2>2. Fine(worker[w])'
    <3>1. worker'[w] = new /\ now' = now /\ row'[id].gen = row[id].gen + 1
      BY <1>1, <1>2 DEF Claims
    <3>2. new.gen \in 1..row'[id].gen
      BY <1>2, <3>1 DEF Claims
    <3> QED
      BY <3>1, <3>2 DEF Claims, Fine, Senders
  <2> QED
    BY <2>1, <2>2 DEF WorkersFine
<1>5. ClaimsAgree'
  BY <1>2, <1>3 DEF Claims, IInv, ClaimsAgree
<1>6. Alone'
  <2>1. ASSUME NEW S \in {ProactiveIds, MotivationIds} PROVE \A a, b \in Open(S)' : a = b
    <3>1. S \subseteq Ids
      BY <2>1 DEF Ids, BudgetIds, AttentionIds
    <3>2. Open(S)' \subseteq Open(S) \cup {id}
      BY <1>3, <3>1 DEF Open, Has
    <3>3. CASE id \in S
      <4>1. \A o \in Open(S)' : o = id
        BY <3>2, <3>3 DEF Claims, Open, Has
      <4> QED
        BY <4>1
    <3>4. CASE id \notin S
      BY <2>1, <3>2, <3>4 DEF IInv, Alone, Open, Has
    <3> QED
      BY <3>3, <3>4
  <2> QED
    BY <2>1 DEF Alone
<1>7. DigestsOnce'
  <2>1. ASSUME NEW o \in DigestIds, o # id
        PROVE  /\ \A v \in Workers : Sends(worker'[v], o) => Sends(worker[v], o) /\ worker'[v] = worker[v]
               /\ row'[o] = row[o]
    BY <1>1, <1>3, <2>1, Kinds DEF Claims, Sends, Ids, BudgetIds
  <2>2. ASSUME id \in DigestIds
        PROVE  /\ shown[id] = 0 /\ row'[id].st = "CLAIMED"
               /\ \A v \in Workers : Sends(worker'[v], id) => v = w
    BY <1>1, <1>2, <2>2 DEF Claims, IInv, DigestsOnce
  <2>3. lost \in Nat
    BY Bounds DEF IInv, Types
  <2> QED
    BY <2>1, <2>2, <2>3 DEF IInv, DigestsOnce
<1>8. Types'
  BY <1>1 DEF Claims, Others, IInv, Types
<1> QED
  BY <1>4, <1>5, <1>6, <1>7, <1>8 DEF IInv
-----------------------------------------------------------------------------
(* The five ways in which a worker goes on.                                *)
LEMMA GotoStep ==
  ASSUME RemindersAssumption, IInv, NEW w \in Workers,
         NEW pc \in {"digest", "select", "claim", "sending", "failed"},
         worker[w].pc # "cancel", pc = "sending" => worker[w].pc = "prepare",
         pc = "failed" => worker[w].pc = "sending",
         Goto(w, pc), row' = row, OnlyRows
  PROVE  IInv'
<1> DEFINE new == [worker[w] EXCEPT !.pc = pc]
<1>1. worker[w] \in WorkerType /\ Fine(worker[w])
  BY DEF IInv, Types, WorkersFine
<1>2. new \in WorkerType
  BY <1>1 DEF WorkerType, PCs
<1>3. /\ new.pc = pc /\ new.id = worker[w].id /\ new.gen = worker[w].gen
      /\ new.at = worker[w].at /\ new.todo = worker[w].todo
  BY <1>1 DEF WorkerType
<1>4. worker' = [worker EXCEPT ![w] = new]
  BY DEF Goto
<1> HIDE DEF new
<1>5. Fine(new)
  BY <1>1, <1>3 DEF Fine, Senders
<1>6. Continues(w, new)
  BY <1>1, <1>2, <1>3, <1>5, Kinds DEF Continues, Fine, Senders
<1>7. QuietRows /\ Sleeping' /\ Others
  BY SameRows, SleepKept, OthersKept DEF SnoozesKept, OnlyRows
<1> QED
  BY <1>4, <1>6, <1>7, QuietKeeps DEF OnlyRows

LEMMA RestStep ==
  ASSUME RemindersAssumption, IInv, NEW w \in Workers, Rest(w), QuietRows, Sleeping', Others,
         UNCHANGED <<now, shown, lost>>
  PROVE  IInv'
<1>1. now \in Nat
  BY DEF IInv, Types
<1>2. Fine(Idle)
  BY <1>1, IdleFine DEF Fine, Senders
<1>3. Continues(w, Idle)
  BY <1>2, IdleFine DEF Continues, Senders
<1> QED
  BY <1>3, QuietKeeps DEF Rest

LEMMA EnterStep ==
  ASSUME RemindersAssumption, IInv, NEW w \in Workers, EnterSnoozes(w), QuietRows,
         Sleeping', Others, UNCHANGED <<now, shown, lost>>
  PROVE  IInv'
<1> DEFINE new == [Idle EXCEPT !.pc = "snoozes", !.at = now, !.todo = DueSnoozes]
<1>1. now \in Nat
  BY DEF IInv, Types
<1>2. DueSnoozes \subseteq SnoozeIds /\ \A id \in DueSnoozes : id[3] <= now
  BY DEF DueSnoozes, Has
<1>3. new \in WorkerType
  BY <1>1, <1>2, IdleFine DEF WorkerType, PCs, TodoType
<1>4. new.pc = "snoozes" /\ new.at = now /\ new.todo = DueSnoozes
  BY DEF Idle
<1>5. worker' = [worker EXCEPT ![w] = new]
  BY DEF EnterSnoozes
<1> HIDE DEF new
<1>6. Fine(new)
  BY <1>1, <1>2, <1>4 DEF Fine, Senders
<1>7. Continues(w, new)
  BY <1>3, <1>4, <1>6 DEF Continues, Senders
<1> QED
  BY <1>5, <1>7, QuietKeeps

LEMMA LaterStep ==
  ASSUME RemindersAssumption, IInv, NEW w \in Workers, NEW id, Later(w, id),
         worker[w].pc \in {"snoozes", "cancel"}, QuietRows, Sleeping', Others,
         UNCHANGED <<now, shown, lost>>
  PROVE  IInv'
<1> DEFINE new == [worker[w] EXCEPT !.todo = @ \ {id}]
<1>1. worker[w] \in WorkerType /\ Fine(worker[w])
  BY DEF IInv, Types, WorkersFine
<1>2. new \in WorkerType
  BY <1>1 DEF WorkerType
<1>3. new.pc = worker[w].pc /\ new.at = worker[w].at /\ new.todo = worker[w].todo \ {id}
  BY <1>1 DEF WorkerType
<1>4. worker' = [worker EXCEPT ![w] = new]
  BY DEF Later
<1> HIDE DEF new
<1>5. Fine(new)
  BY <1>1, <1>3 DEF Fine, Senders
<1>6. Continues(w, new)
  BY <1>2, <1>3, <1>5 DEF Continues, Senders
<1> QED
  BY <1>4, <1>6, QuietKeeps

LEMMA NextStep ==
  ASSUME RemindersAssumption, IInv, NEW w \in Workers, NextPhase(w), QuietRows,
         worker[w].pc \in Senders, Sleeping', Others, UNCHANGED <<now, shown, lost>>
  PROVE  IInv'
<1>1. CASE worker[w].id \in DigestIds /\ EnterSnoozes(w)
  BY <1>1, EnterStep
<1>2. CASE worker' = [worker EXCEPT
             ![w] = [Idle EXCEPT !.pc = "snoozes", !.at = worker[w].at, !.todo = worker[w].todo]]
  <2> DEFINE new == [Idle EXCEPT !.pc = "snoozes", !.at = worker[w].at, !.todo = worker[w].todo]
  <2>1. worker[w] \in WorkerType /\ Fine(worker[w])
    BY DEF IInv, Types, WorkersFine
  <2>2. new \in WorkerType
    BY <2>1, IdleFine DEF WorkerType, PCs
  <2>3. new.pc = "snoozes" /\ new.at = worker[w].at /\ new.todo = worker[w].todo
    BY DEF Idle
  <2>4. worker' = [worker EXCEPT ![w] = new]
    BY <1>2
  <2> HIDE DEF new
  <2>5. Fine(new)
    BY <2>1, <2>3 DEF Fine, Senders
  <2>6. Continues(w, new)
    BY <2>2, <2>3, <2>5 DEF Continues, Senders
  <2> QED
    BY <2>4, <2>6, QuietKeeps
<1>3. CASE Rest(w)
  BY <1>3, RestStep
<1> QED
  BY <1>1, <1>2, <1>3 DEF NextPhase
-----------------------------------------------------------------------------
(* The rows that wait, end or are taken over.                              *)
LEMMA RowsApart ==
  /\ DigestIds \subseteq Ids /\ AttentionIds \subseteq Ids /\ SnoozeIds \subseteq Ids
  /\ MotivationIds \subseteq AttentionIds /\ ProactiveIds \subseteq AttentionIds
  /\ \A id \in DigestIds \cup AttentionIds : id \notin SnoozeIds
  /\ \A id \in AttentionIds \cup SnoozeIds : id \notin DigestIds
  BY Kinds DEF Ids, BudgetIds, AttentionIds

LEMMA DeferQuiet ==
  ASSUME RemindersAssumption, IInv, NEW S, S \subseteq DigestIds, row' = Defer(row, S)
  PROVE  QuietRows /\ \A id \in SnoozeIds : row'[id] = row[id]
<1>1. row \in [Ids -> RowType] /\ "PENDING" \in Statuses
  BY DEF IInv, Types, Statuses
<1>2. \A id \in Ids : row'[id] = IF id \in S /\ row[id].st = "NONE"
                                THEN [row[id] EXCEPT !.st = "PENDING"] ELSE row[id]
  BY DEF Defer
<1>3. \A id \in Ids : LET new == [row[id] EXCEPT !.st = "PENDING"]
                     IN new \in RowType /\ new.gen = row[id].gen /\ new.st = "PENDING"
  BY <1>1 DEF RowType
<1>4. row' \in [Ids -> RowType]
  BY <1>1, <1>3 DEF Defer
<1> QED
  BY <1>2, <1>3, <1>4, RowsApart DEF QuietRows

(* A claim that was fenced is closed: nobody's alarm.                       *)
LEMMA CloseQuiet ==
  ASSUME RemindersAssumption, IInv, NEW id \in Ids, row[id].st = "CLAIMED",
         NEW new \in RowType, new.gen = row[id].gen, new.st \in {"SENT", "FAILED"},
         row' = [row EXCEPT ![id] = new], item' = item
  PROVE  QuietRows /\ Sleeping'
<1>1. row \in [Ids -> RowType]
  BY DEF IInv, Types
<1>2. \A o \in Ids : row'[o] = IF o = id THEN new ELSE row[o]
  BY <1>1
<1>3. row' \in [Ids -> RowType]
  BY <1>1
<1>4. QuietRows
  BY <1>2, <1>3 DEF QuietRows
<1>5. Sleeping'
  BY <1>2, RowsApart, Names DEF IInv, Sleeping
<1> QED
  BY <1>4, <1>5

(* A claim of a digest or of an attention row.                              *)
LEMMA HoldStep ==
  ASSUME RemindersAssumption, IInv, NEW w \in Workers, NEW id \in DigestIds \cup AttentionIds,
         NEW pc \in {"sending", "prepare"}, pc = "prepare" => id \in AttentionIds,
         worker[w].pc # "cancel", row[id].gen < MaxGeneration,
         NEW S, S \subseteq AttentionIds, row' = [Cancelled(S) EXCEPT ![id] = Claimed(id)],
         id \in DigestIds => row[id].st \in {"NONE", "PENDING"},
         \A K \in {ProactiveIds, MotivationIds} : id \in K => Open(K) \ {id} \subseteq S,
         Holding(w, pc, id), OnlyRows
  PROVE  IInv'
<1> DEFINE new == [worker[w] EXCEPT !.pc = pc, !.id = id, !.gen = row[id].gen + 1,
                                    !.claimed = now, !.tries = 0]
<1>1. worker[w] \in WorkerType /\ Fine(worker[w]) /\ now \in Nat
  BY DEF IInv, Types, WorkersFine
<1>2. row \in [Ids -> RowType] /\ id \in Ids /\ row[id].gen \in Nat
  BY RowsApart DEF IInv, Types, RowType
<1>3. new \in WorkerType
  <2>1. pc \in PCs /\ id \in Ids \cup {Nil} /\ row[id].gen + 1 \in Nat /\ 0 \in Nat
    BY <1>2 DEF PCs
  <2> QED
    BY <1>1, <2>1 DEF WorkerType
<1>4. /\ new.pc = pc /\ new.id = id /\ new.gen = row[id].gen + 1
      /\ new.at = worker[w].at /\ new.todo = worker[w].todo
  BY <1>1 DEF WorkerType
<1>5. worker' = [worker EXCEPT ![w] = new]
  BY DEF Holding
<1> HIDE DEF new
<1>6. /\ \A o \in Ids : Closed(o, "CANCELLED") \in RowType /\ Closed(o, "CANCELLED").st = "CANCELLED"
      /\ Claimed(id) \in RowType
  <2>1. Claimed(id) \in RowType
    BY <1>2, ClaimedTyped
  <2>2. \A o \in Ids : Closed(o, "CANCELLED") \in RowType /\ Closed(o, "CANCELLED").st = "CANCELLED"
    BY <1>2 DEF Closed, RowType, Statuses
  <2> QED
    BY <2>1, <2>2
<1>7. /\ row' \in [Ids -> RowType] /\ row'[id] = Claimed(id)
      /\ \A o \in Ids \ {id} : row'[o] = IF o \in S THEN Closed(o, "CANCELLED") ELSE row[o]
  <2>1. Cancelled(S) \in [Ids -> RowType]
    BY <1>2, <1>6 DEF Cancelled
  <2>2. row' \in [Ids -> RowType] /\ row'[id] = Claimed(id)
    BY <1>2, <1>6, <2>1
  <2>3. \A o \in Ids \ {id} : row'[o] = Cancelled(S)[o]
    BY <2>1
  <2> QED
    BY <2>2, <2>3 DEF Cancelled
<1>8. \A K \in {ProactiveIds, MotivationIds} :
         id \in K => \A o \in Open(K) : o # id => row'[o].st # "CLAIMED"
  BY <1>6, <1>7, RowsApart DEF Open, Has
<1>9. Claims(w, id, new)
  BY <1>1, <1>3, <1>4, <1>7, <1>8, RowsApart DEF Claims, Fine
<1>10. Sleeping'
  <2>1. \A o \in SnoozeIds : row'[o] = row[o]
    BY <1>7, RowsApart
  <2> QED
    BY <2>1, SleepKept DEF SnoozesKept, OnlyRows
<1> QED
  BY <1>2, <1>5, <1>9, <1>10, OthersKept, ClaimKeeps DEF OnlyRows
-----------------------------------------------------------------------------
(* The steps of a worker.                                                  *)
LEMMA DigestStep ==
  ASSUME RemindersAssumption, IInv, NEW w \in Workers, ProcessDigest(w)
  PROVE  IInv'
<1>1. worker[w].pc = "digest" /\ OnlyRows /\ row \in [Ids -> RowType]
  BY DEF ProcessDigest, IInv, Types
<1>2. Others
  BY <1>1, OthersKept DEF OnlyRows
<1>3. ASSUME EnterSnoozes(w), QuietRows, \A id \in SnoozeIds : row'[id] = row[id] PROVE IInv'
  BY <1>1, <1>2, <1>3, SleepKept, EnterStep DEF SnoozesKept, OnlyRows
<1>4. CASE row' = row /\ EnterSnoozes(w)
  BY <1>3, <1>4, SameRows
<1>5. ASSUME NEW S, S \subseteq DigestIds, row' = Defer(row, S), EnterSnoozes(w) PROVE IInv'
  BY <1>3, <1>5, DeferQuiet
<1>6. ASSUME NEW d \in Days, MayClaimDigest(d), row[Digest(d)].gen < MaxGeneration,
             row' = [row EXCEPT ![Digest(d)] = Claimed(Digest(d))],
             Holding(w, "sending", Digest(d))
      PROVE  IInv'
  <2>1. row = Cancelled({})
    BY <1>1 DEF Cancelled
  <2>2. Digest(d) \in DigestIds
    BY Names
  <2>3. \A K \in {ProactiveIds, MotivationIds} : Digest(d) \notin K
    BY <2>2, RowsApart
  <2> QED
    BY <1>1, <1>6, <2>1, <2>2, <2>3, HoldStep DEF MayClaimDigest
<1>7. {Digest(d) : d \in DeferredDates} \subseteq DigestIds
  BY Names DEF DeferredDates
<1>8. TargetDates \subseteq Days
  BY DEF TargetDates, PendingDates
<1>9. {Digest(d) : d \in TargetDates} \subseteq DigestIds
  BY <1>8, Names
<1>10. CASE row' = Defer(row, {Digest(d) : d \in DeferredDates}) /\ EnterSnoozes(w)
  BY <1>5, <1>7, <1>10
<1>11. CASE /\ row' = IF YesterdaysTurn THEN Defer(row, {Digest(d) : d \in TargetDates}) ELSE row
            /\ EnterSnoozes(w)
  BY <1>4, <1>5, <1>9, <1>11
<1> QED
  BY <1>4, <1>6, <1>8, <1>10, <1>11 DEF ProcessDigest

LEMMA SnoozeStep ==
  ASSUME RemindersAssumption, IInv, NEW w \in Workers, NEW id \in SnoozeIds, ClaimSnooze(w, id)
  PROVE  IInv'
<1>1. /\ worker[w].pc = "snoozes" /\ id \in worker[w].todo
      /\ UNCHANGED <<now, settings, since, dismissed, shown, acts, crashes, lost>>
  BY DEF ClaimSnooze, NextSnooze
<1>2. /\ id \in Ids /\ id[2] \in Items /\ id[3] \in Times /\ id = Snooze(id[2], id[3])
      /\ id \notin DigestIds /\ id \notin AttentionIds
  BY Names, RowsApart
<1>3. /\ row \in [Ids -> RowType] /\ worker[w] \in WorkerType /\ Fine(worker[w])
      /\ now \in Nat
      /\ item \in [Items -> [state : {"ACTIVE", "SNOOZED", "RESOLVED"}, until : 0..MaxTime]]
  BY DEF IInv, Types, WorkersFine
<1>4. id[3] <= worker[w].at /\ worker[w].at <= now /\ id[3] <= now
  BY <1>1, <1>2, <1>3 DEF Fine, WorkerType, Times
<1>5. CASE Later(w, id) /\ UNCHANGED rows
  <2>1. QuietRows /\ Sleeping' /\ Others
    BY <1>1, <1>5, SameRows, SleepKept, OthersKept DEF SnoozesKept, rows
  <2> QED
    BY <1>1, <1>5, <2>1, LaterStep
<1>6. CASE /\ row[id].st = "PENDING" /\ ~DueItem(w, id[2]) /\ Later(w, id)
           /\ row' = [row EXCEPT ![id].st = "CANCELLED"] /\ item' = item
  <2> DEFINE new == [row[id] EXCEPT !.st = "CANCELLED"]
  <2>1. new \in RowType /\ new.st = "CANCELLED" /\ new.gen = row[id].gen
    BY <1>2, <1>3 DEF RowType, Statuses
  <2>2. row' \in [Ids -> RowType] /\ \A o \in Ids : row'[o] = IF o = id THEN new ELSE row[o]
    BY <1>2, <1>3, <1>6, <2>1
  <2> HIDE DEF new
  <2>3. QuietRows
    BY <1>2, <2>1, <2>2 DEF QuietRows
  <2>4. Sleeping'
    <3>1. ASSUME NEW i \in Items, item[i].state = "SNOOZED"
          PROVE  item[i].until \in Times /\ Snooze(i, item[i].until) # id
                 /\ row[Snooze(i, item[i].until)].st = "PENDING"
      <4>1. item[i].until \in Times /\ row[Snooze(i, item[i].until)].st = "PENDING"
        BY <3>1 DEF IInv, Sleeping
      <4>2. ASSUME Snooze(i, item[i].until) = id PROVE FALSE
        <5>1. i = id[2] /\ item[i].until = id[3]
          BY <4>1, <4>2, Names
        <5> QED
          BY <1>4, <1>6, <3>1, <5>1 DEF DueItem
      <4> QED
        BY <4>1, <4>2
    <3>2. \A i \in Items, t \in Times : Snooze(i, t) \in Ids
      BY Names, RowsApart
    <3> QED
      BY <1>6, <2>2, <3>1, <3>2 DEF Sleeping
  <2>5. Others
    BY <1>1, <1>6, OthersKept
  <2> QED
    BY <1>1, <1>6, <2>3, <2>4, <2>5, LaterStep
<1>7. CASE /\ row[id].st = "PENDING" /\ row[id].gen < MaxGeneration
           /\ row' = [row EXCEPT ![id] = Claimed(id)]
           /\ item' = [item EXCEPT ![id[2]] = [state |-> "ACTIVE", until |-> 0]]
           /\ worker' = [worker EXCEPT
                  ![w] = [@ EXCEPT !.pc = "sending", !.id = id, !.gen = row[id].gen + 1,
                                   !.claimed = now, !.tries = 0, !.todo = worker[w].todo \ {id}]]
  <2> DEFINE new == [worker[w] EXCEPT !.pc = "sending", !.id = id, !.gen = row[id].gen + 1,
                                      !.claimed = now, !.tries = 0, !.todo = worker[w].todo \ {id}]
  <2>1. new \in WorkerType
    <3>1. /\ "sending" \in PCs /\ id \in Ids \cup {Nil} /\ row[id].gen + 1 \in Nat
          /\ 0 \in Nat
      BY <1>2, <1>3 DEF PCs, RowType
    <3>2. worker[w].todo \ {id} \in SUBSET TodoType
      BY <1>3 DEF WorkerType
    <3> QED
      BY <1>3, <3>1, <3>2 DEF WorkerType
  <2>2. /\ new.pc = "sending" /\ new.id = id /\ new.gen = row[id].gen + 1
        /\ new.at = worker[w].at /\ new.todo = worker[w].todo \ {id}
    BY <1>3 DEF WorkerType
  <2>3. worker' = [worker EXCEPT ![w] = new]
    BY <1>7
  <2> HIDE DEF new
  <2>4. /\ row' \in [Ids -> RowType] /\ row'[id] = Claimed(id)
        /\ \A o \in Ids : o # id => row'[o] = row[o]
    <3>1. Claimed(id) \in RowType
      BY <1>2, <1>7, ClaimedTyped
    <3> QED
      BY <1>2, <1>3, <1>7, <3>1
  <2>5. Claims(w, id, new)
    BY <1>1, <1>2, <1>3, <1>4, <2>1, <2>2, <2>4, RowsApart DEF Claims, Fine
  <2>6. Others
    <3>1. item' \in [Items -> [state : {"ACTIVE", "SNOOZED", "RESOLVED"}, until : 0..MaxTime]]
      BY <1>2, <1>3, <1>7, Bounds
    <3> QED
      BY <1>1, <3>1 DEF Others, IInv, Types
  <2>7. Sleeping'
    <3>1. \A i \in Items : item'[i].state = "SNOOZED" => i # id[2] /\ item'[i] = item[i]
      BY <1>2, <1>3, <1>7
    <3>2. ASSUME NEW i \in Items, item'[i].state = "SNOOZED"
          PROVE  item'[i].until \in Times /\ row'[Snooze(i, item'[i].until)].st = "PENDING"
      <4>1. i # id[2] /\ item'[i] = item[i]
        BY <3>1, <3>2
      <4>2. item[i].until \in Times /\ row[Snooze(i, item[i].until)].st = "PENDING"
        BY <3>2, <4>1 DEF IInv, Sleeping
      <4>3. Snooze(i, item[i].until) # id /\ Snooze(i, item[i].until) \in Ids
        BY <4>1, <4>2, Names, RowsApart
      <4> QED
        BY <2>4, <4>1, <4>2, <4>3
    <3> QED
      BY <3>2 DEF Sleeping
  <2>8. id \in Ids /\ row[id].gen < MaxGeneration /\ UNCHANGED <<now, shown, lost>>
    BY <1>1, <1>2, <1>7
  <2> QED
    BY <2>3, <2>5, <2>6, <2>7, <2>8, ClaimKeeps
<1> QED
  BY <1>5, <1>6, <1>7 DEF ClaimSnooze

LEMMA ChoiceType ==
  \A p, m \in BOOLEAN : Choice(p, m) \in {"proactive", "motivation", "nothing"}
  BY DEF Choice
LEMMA SelectStep ==
  ASSUME RemindersAssumption, IInv, NEW w \in Workers, NEW R, NEW facts \in BOOLEAN,
         Select(w, R, facts)
  PROVE  IInv'
<1>1. /\ row' = row /\ OnlyRows /\ UNCHANGED <<now, shown, lost>> /\ worker[w].pc = "select"
  BY DEF Select, OnlyWorker, OnlyRows
<1>2. QuietRows /\ Sleeping' /\ Others
  BY <1>1, SameRows, SleepKept, OthersKept DEF SnoozesKept, OnlyRows
<1>3. CASE Rest(w)
  BY <1>1, <1>2, <1>3, RestStep
<1>4. ASSUME NEW next \in {"idle", "motivation", "proactive"}, NEW dead, dead \subseteq AttentionIds,
             worker' = [worker EXCEPT ![w] = [Idle EXCEPT
                 !.pc = "cancel", !.next = next, !.todo = {<<id, row[id].gen>> : id \in dead}]]
      PROVE  IInv'
  <2> DEFINE todo == {<<id, row[id].gen>> : id \in dead}
             new == [Idle EXCEPT !.pc = "cancel", !.next = next, !.todo = todo]
  <2>1. \A id \in AttentionIds : row[id].gen \in Nat
    BY RowsApart DEF IInv, Types, RowType
  <2>2. todo \subseteq TodoType
    BY <1>4, <2>1 DEF TodoType
  <2>3. worker' = [worker EXCEPT ![w] = new]
    BY <1>4
  <2> HIDE DEF todo
  <2>4. new \in WorkerType
    BY <2>2, IdleFine DEF WorkerType, PCs
  <2>5. new.pc = "cancel" /\ new.at = 0
    BY DEF Idle
  <2> HIDE DEF new
  <2>6. Fine(new)
    BY <2>5 DEF Fine, Senders, IInv, Types
  <2>7. Continues(w, new)
    BY <2>4, <2>5, <2>6 DEF Continues, Senders
  <2> QED
    BY <1>1, <1>2, <2>3, <2>7, QuietKeeps
<1> DEFINE selected == Choice(Sendable(R, now) # {}, facts /\ GenericOpen(now))
           dead == IF Blocked(now, {}) = "none"
                   THEN IF selected = "motivation" THEN {} ELSE Open(MotivationIds)
                   ELSE IF Blocked(now, {}) \in Transient THEN {} ELSE Open(AttentionIds)
           next == CASE Blocked(now, {}) # "none" -> "idle"
                     [] Blocked(now, {}) = "none" /\ selected # "nothing" -> selected
                     [] OTHER -> IF Open(ProactiveIds) # {} THEN "proactive" ELSE "idle"
<1>5. dead \subseteq AttentionIds
  BY RowsApart DEF Open, Has
<1>6. next \in {"idle", "motivation", "proactive"}
  <2>1. selected \in {"proactive", "motivation", "nothing"}
    BY DEF Choice
  <2> QED
    BY <2>1
<1>7. CASE worker' = [worker EXCEPT ![w] = [Idle EXCEPT
               !.pc = "cancel", !.next = next, !.todo = {<<id, row[id].gen>> : id \in dead}]]
  <2> HIDE DEF dead, next
  <2> QED
    BY <1>4, <1>5, <1>6, <1>7
<1> QED
  BY <1>3, <1>7 DEF Select

LEMMA CancelStaleStep ==
  ASSUME RemindersAssumption, IInv, NEW w \in Workers, NEW id \in AttentionIds, NEW gen,
         CancelStale(w, id, gen)
  PROVE  IInv'
<1>1. /\ worker[w].pc = "cancel" /\ Later(w, <<id, gen>>) /\ OnlyRows
      /\ row' = row \/ row' = Cancelled({id})
  BY DEF CancelStale
<1>2. QuietRows /\ \A o \in SnoozeIds : row'[o] = row[o]
  BY <1>1, SameRows, CancelQuiet
<1>3. Sleeping' /\ Others
  BY <1>1, <1>2, SleepKept, OthersKept DEF SnoozesKept, OnlyRows
<1> QED
  BY <1>1, <1>2, <1>3, LaterStep DEF OnlyRows

LEMMA OnwardsStep ==
  ASSUME RemindersAssumption, IInv, NEW w \in Workers, Onwards(w)
  PROVE  IInv'
<1> DEFINE new == [Idle EXCEPT !.pc = worker[w].next]
<1>1. worker[w].next \in {"idle", "motivation", "proactive"}
  BY DEF IInv, Types, WorkerType
<1>2. new \in WorkerType
  BY <1>1, IdleFine DEF WorkerType, PCs
<1>3. new.pc = worker[w].next /\ new.at = 0 /\ new.todo = {}
  BY DEF Idle
<1>4. worker' = [worker EXCEPT ![w] = new] /\ row' = row /\ OnlyRows
  BY DEF Onwards, OnlyWorker
<1> HIDE DEF new
<1>5. Fine(new)
  BY <1>1, <1>3 DEF Fine, Senders, IInv, Types
<1>6. Continues(w, new)
  BY <1>1, <1>2, <1>3, <1>5 DEF Continues, Senders
<1>7. QuietRows /\ Sleeping' /\ Others
  BY <1>4, SameRows, SleepKept, OthersKept DEF SnoozesKept, OnlyRows
<1> QED
  BY <1>4, <1>6, <1>7, QuietKeeps DEF OnlyRows

(* A worker rests, whatever it has cancelled.                               *)
LEMMA GivesUp ==
  ASSUME RemindersAssumption, IInv, NEW w \in Workers, NEW S, S \subseteq AttentionIds,
         row' = row \/ row' = Cancelled(S), Rest(w), OnlyRows
  PROVE  IInv'
<1>1. QuietRows /\ \A o \in SnoozeIds : row'[o] = row[o]
  BY SameRows, CancelQuiet
<1>2. Sleeping' /\ Others
  BY <1>1, SleepKept, OthersKept DEF SnoozesKept, OnlyRows
<1> QED
  BY <1>1, <1>2, RestStep DEF OnlyRows

(* The day's used slots are counted, so the next one is a slot.             *)
LEMMA SlotOpen ==
  ASSUME RemindersAssumption, IInv, GenericOpen(now)
  PROVE  Motivation(Day(now), GenericUsed(now) + 1) \in MotivationIds
<1>1. DayLength \in Nat \ {0} /\ MaxTime \in Nat /\ GenericCap \in [Levels -> 0..2]
  BY Bounds
<1>2. IsFiniteSet(MotivationIds)
  <2>1. Day(MaxTime) \in Int
    BY <1>1 DEF Day
  <2>2. IsFiniteSet(Days) /\ IsFiniteSet(Slots)
    <3>1. IsFiniteSet(0..Day(MaxTime))
      BY <2>1, FS_Interval
    <3>2. ASSUME NEW n \in Int PROVE IsFiniteSet(0..n)
      BY FS_Interval
    <3>3. IsFiniteSet(1..2)
      <4>1. 1..2 \in SUBSET (0..2)
        OBVIOUS
      <4>2. 2 \in Int
        OBVIOUS
      <4>3. IsFiniteSet(0..2)
        BY <3>2, <4>2, Zenon
      <4> QED
        BY <4>1, <4>3, FS_Subset
    <3> QED
      BY <3>1, <3>3 DEF Days, Slots
  <2>3. IsFiniteSet(Days \X Slots)
    BY <2>2, FS_Product
  <2> DEFINE f == [p \in Days \X Slots |-> Motivation(p[1], p[2])]
  <2>4. f \in Surjection(Days \X Slots, MotivationIds)
    <3>1. f \in [Days \X Slots -> MotivationIds]
      BY DEF MotivationIds
    <3>2. ASSUME NEW id \in MotivationIds PROVE \E p \in Days \X Slots : f[p] = id
      <4>1. PICK d \in Days, s \in Slots : id = Motivation(d, s)
        BY DEF MotivationIds
      <4>2. <<d, s>> \in Days \X Slots /\ f[<<d, s>>] = id
        BY <4>1
      <4> QED
        BY <4>2
    <3> QED
      BY <3>1, <3>2 DEF Surjection
  <2> QED
    BY <2>3, <2>4, FS_Surjection
<1>3. GenericUsed(now) \in Nat
  <2>1. SentOn(MotivationIds, Day(now)) \in SUBSET MotivationIds
    BY DEF SentOn, Has
  <2> QED
    BY <1>2, <2>1, FS_Subset, FS_CardinalityType DEF GenericUsed
<1>4. GenericUsed(now) + 1 \in Slots
  <2>1. settings.level \in Levels
    <3>1. Settings \subseteq [digest : BOOLEAN, attention : BOOLEAN, level : Levels, generic : BOOLEAN]
      BY Zenon DEF RemindersAssumption
    <3>2. settings \in Settings
      BY DEF IInv, Types
    <3> QED
      BY <3>1, <3>2
  <2>2. GenericCap[Level] \in 0..2 /\ GenericUsed(now) < GenericCap[Level]
    BY <1>1, <2>1 DEF GenericOpen, Level
  <2> QED
    BY <1>3, <2>2 DEF Slots
<1>5. Day(now) \in Days
  BY <1>1, DaysCount DEF IInv, Types
<1> QED
  BY <1>4, <1>5 DEF MotivationIds

LEMMA MotivationStep ==
  ASSUME RemindersAssumption, IInv, NEW w \in Workers, NEW R, NEW facts, ClaimMotivation(w, R, facts)
  PROVE  IInv'
<1> DEFINE open == Open(MotivationIds)
           slot == Motivation(Day(now), GenericUsed(now) + 1)
<1>1. worker[w].pc = "motivation" /\ OnlyRows
  BY DEF ClaimMotivation
<1>2. open \subseteq MotivationIds /\ open \subseteq AttentionIds
  BY RowsApart DEF Open, Has
<1>3. CASE (row' = row \/ row' = Cancelled(open) \/ row' = Cancelled(open \ {slot})) /\ Rest(w)
  BY <1>1, <1>2, <1>3, GivesUp
<1>4. CASE /\ GenericOpen(now) /\ row[slot].gen < MaxGeneration
           /\ row' = [Cancelled(open \ {slot}) EXCEPT ![slot] = Claimed(slot)]
           /\ Holding(w, "prepare", slot)
  <2>1. slot \in MotivationIds
    BY <1>4, SlotOpen
  <2> HIDE DEF slot
  <2>2. slot \in AttentionIds /\ slot \notin DigestIds /\ slot \notin ProactiveIds
    BY <2>1, RowsApart, Kinds
  <2>3. \A K \in {ProactiveIds, MotivationIds} : slot \in K => Open(K) \ {slot} \subseteq open \ {slot}
    BY <2>2
  <2>4. open \ {slot} \subseteq AttentionIds
    BY <1>2
  <2> HIDE DEF open
  <2> QED
    BY <1>1, <1>4, <2>2, <2>3, <2>4, HoldStep
<1> QED
  BY <1>3, <1>4 DEF ClaimMotivation, CancelUnless
LEMMA PrecheckStep ==
  ASSUME RemindersAssumption, IInv, NEW w \in Workers, Precheck(w)
  PROVE  IInv'
<1>1. row' = row /\ OnlyRows /\ UNCHANGED <<now, shown, lost>> /\ worker[w].pc = "proactive"
  BY DEF Precheck, OnlyWorker, OnlyRows
<1>2. QuietRows /\ Sleeping' /\ Others
  BY <1>1, SameRows, SleepKept, OthersKept DEF SnoozesKept, OnlyRows
<1>3. CASE Rest(w)
  BY <1>1, <1>2, <1>3, RestStep
<1>4. CASE Goto(w, "claim")
  BY <1>1, <1>4, GotoStep
<1>5. ASSUME NEW id \in Open(ProactiveIds),
             worker' = [worker EXCEPT ![w] = [Idle EXCEPT !.pc = "doomed", !.id = id, !.gen = row[id].gen]]
      PROVE  IInv'
  <2> DEFINE new == [Idle EXCEPT !.pc = "doomed", !.id = id, !.gen = row[id].gen]
  <2>1. id \in ProactiveIds /\ id \in Ids /\ row[id].st = "CLAIMED"
    BY RowsApart DEF Open, Has
  <2>2. row[id].gen \in Nat /\ row[id].gen >= 1
    BY <2>1 DEF IInv, Types, RowType, ClaimsAgree
  <2>3. new \in WorkerType
    BY <2>1, <2>2, IdleFine DEF WorkerType, PCs
  <2>4. new.pc = "doomed" /\ new.id = id /\ new.gen = row[id].gen /\ new.at = 0 /\ new.todo = {}
    BY DEF Idle
  <2>5. worker' = [worker EXCEPT ![w] = new]
    BY <1>5
  <2> HIDE DEF new
  <2>6. new.gen \in 1..row[id].gen
    BY <2>2, <2>4
  <2>7. Fine(new)
    BY <2>1, <2>4, <2>6 DEF Fine, Senders, IInv, Types
  <2>8. Continues(w, new)
    BY <2>3, <2>4, <2>7 DEF Continues, Senders
  <2> QED
    BY <1>1, <1>2, <2>5, <2>8, QuietKeeps
<1> QED
  BY <1>3, <1>4, <1>5 DEF Precheck

LEMMA DoomedStep ==
  ASSUME RemindersAssumption, IInv, NEW w \in Workers, CancelDoomed(w)
  PROVE  IInv'
<1>1. worker[w].id \in AttentionIds
  BY RowsApart DEF CancelDoomed, IInv, WorkersFine, Fine
<1> QED
  BY <1>1, GivesUp DEF CancelDoomed

LEMMA ProactiveStep ==
  ASSUME RemindersAssumption, IInv, NEW w \in Workers, NEW R, R \subseteq Items, ClaimProactive(w, R)
  PROVE  IInv'
<1> DEFINE open == Open(ProactiveIds)
<1>1. worker[w].pc = "claim" /\ OnlyRows
  BY DEF ClaimProactive
<1>2. open \subseteq ProactiveIds /\ open \subseteq AttentionIds
  BY RowsApart DEF Open, Has
<1>3. CASE (row' = row \/ row' = Cancelled(open)) /\ Rest(w)
  BY <1>1, <1>2, <1>3, GivesUp
<1>4. ASSUME NEW id \in ProactiveIds, row[id].gen < MaxGeneration,
             row' = [Cancelled(open \ {id}) EXCEPT ![id] = Claimed(id)],
             Holding(w, "prepare", id)
      PROVE  IInv'
  <2>1. id \in AttentionIds /\ id \notin DigestIds /\ id \notin MotivationIds
    BY RowsApart, Kinds
  <2>2. \A K \in {ProactiveIds, MotivationIds} : id \in K => Open(K) \ {id} \subseteq open \ {id}
    BY <2>1
  <2>3. open \ {id} \subseteq AttentionIds
    BY <1>2
  <2> HIDE DEF open
  <2> QED
    BY <1>1, <1>4, <2>1, <2>2, <2>3, HoldStep
<1>5. \A i \in Sendable(R, now) : Fresh(i) \subseteq ProactiveIds
  BY DEF Sendable, Fresh, ProactiveIds
<1> QED
  BY <1>2, <1>3, <1>4, <1>5 DEF ClaimProactive, CancelUnless

LEMMA PrepareStep ==
  ASSUME RemindersAssumption, IInv, NEW w \in Workers, NEW R, NEW facts, Prepare(w, R, facts)
  PROVE  IInv'
<1>1. worker[w].pc = "prepare" /\ OnlyRows /\ worker[w].id \in AttentionIds
  BY DEF Prepare, IInv, WorkersFine, Fine
<1>2. CASE (row' = row \/ row' = Cancelled({worker[w].id})) /\ Rest(w)
  BY <1>1, <1>2, GivesUp
<1>3. CASE row' = row /\ Goto(w, "sending")
  BY <1>1, <1>3, GotoStep
<1> QED
  BY <1>2, <1>3 DEF Prepare, CancelUnless

(* An attempt: the message may be out, the reply may be lost.               *)
LEMMA AttemptStep ==
  ASSUME RemindersAssumption, IInv, NEW w \in Workers, worker[w].pc = "sending",
         NEW new \in WorkerType, new.id = worker[w].id, new.gen = worker[w].gen,
         new.pc \in Senders, new.at <= now, \A id \in new.todo \cap SnoozeIds : id[3] <= new.at,
         worker' = [worker EXCEPT ![w] = new],
         NEW out \in BOOLEAN,
         shown' = IF out THEN [shown EXCEPT ![worker[w].id] = @ + 1] ELSE shown,
         lost' \in 0..MaxLost, lost <= lost', out /\ new.pc = "sending" => lost' = lost + 1,
         UNCHANGED <<now, settings, since, item, dismissed, row, acts, crashes>>
  PROVE  IInv'
<1> DEFINE id == worker[w].id
<1>1. id \in Ids /\ worker[w] \in WorkerType /\ Fine(worker[w])
  BY DEF IInv, Types, WorkersFine, Fine, Senders
<1>2. /\ worker' \in [Workers -> WorkerType]
      /\ \A v \in Workers : worker'[v] = IF v = w THEN new ELSE worker[v]
  BY DEF IInv, Types
<1>3. shown \in [Ids -> Nat] /\ lost \in Nat /\ lost' \in Nat
  BY Bounds DEF IInv, Types
<1>4. /\ shown' \in [Ids -> Nat]
      /\ \A o \in Ids : shown'[o] = IF out /\ o = id THEN shown[o] + 1 ELSE shown[o]
  BY <1>1, <1>3
<1>5. WorkersFine'
  <2>1. Fine(new)
    BY <1>1 DEF Fine, Senders
  <2>2. \A v \in Workers : Fine(worker'[v])
    BY <1>2, <2>1 DEF IInv, WorkersFine
  <2>3. ASSUME NEW v \in Workers PROVE Fine(worker[v])'
    BY <2>2 DEF Fine
  <2> QED
    BY <2>3 DEF WorkersFine
<1>6. ClaimsAgree' /\ Sleeping' /\ Alone'
  BY DEF IInv, ClaimsAgree, Sleeping, Alone, Open, Has
<1>7. DigestsOnce'
  <2>1. \A v \in Workers, o \in DigestIds : Sends(worker'[v], o) => Sends(worker[v], o)
    BY <1>2 DEF Sends, Senders
  <2>2. \A v \in Workers : v # w => worker'[v] = worker[v]
    BY <1>2
  <2>3. ASSUME NEW o \in DigestIds, o # id \/ ~out
        PROVE  /\ shown'[o] = shown[o] /\ shown[o] \in Nat
               /\ \A v \in Workers : Sends(worker'[v], o) /\ worker'[v].pc = "sending"
                                      => worker[v].pc = "sending"
    BY <1>2, <1>3, <1>4, <2>3, RowsApart
  <2>4. ASSUME id \in DigestIds, out
        PROVE  /\ shown[id] <= lost /\ shown[id] \in Nat /\ shown'[id] = shown[id] + 1
               /\ row[id].st \notin {"NONE", "PENDING"}
               /\ \A v \in Workers : Sends(worker'[v], id) => v = w
    <3>1. Sends(worker[w], id)
      BY DEF Sends, Senders
    <3>2. shown[id] <= lost /\ row[id].st \notin {"NONE", "PENDING"}
      BY <2>4, <3>1 DEF IInv, DigestsOnce
    <3>3. \A v \in Workers : Sends(worker'[v], id) => v = w
      BY <2>1, <2>4, <3>1 DEF IInv, DigestsOnce
    <3> QED
      BY <1>1, <1>3, <1>4, <2>4, <3>2, <3>3
  <2>5. ASSUME NEW o \in DigestIds, o # id \/ ~out
        PROVE  /\ row'[o].st \in {"NONE", "PENDING"} =>
                     shown'[o] = 0 /\ \A v \in Workers : ~Sends(worker'[v], o)
               /\ \A u, v \in Workers : Sends(worker'[u], o) /\ Sends(worker'[v], o) => u = v
               /\ shown'[o] <= 1 + lost'
               /\ \A v \in Workers : Sends(worker'[v], o) /\ worker'[v].pc = "sending"
                                      => shown'[o] <= lost'
    BY <1>3, <2>1, <2>3, <2>5 DEF IInv, DigestsOnce
  <2>6. ASSUME id \in DigestIds, out
        PROVE  /\ row'[id].st \notin {"NONE", "PENDING"}
               /\ \A u, v \in Workers : Sends(worker'[u], id) /\ Sends(worker'[v], id) => u = v
               /\ shown'[id] <= 1 + lost'
               /\ \A v \in Workers : Sends(worker'[v], id) /\ worker'[v].pc = "sending"
                                      => shown'[id] <= lost'
    BY <1>2, <1>3, <2>4, <2>6
  <2> QED
    BY <2>5, <2>6 DEF DigestsOnce, Sends
<1>8. Types'
  BY <1>2, <1>4 DEF IInv, Types
<1> QED
  BY <1>5, <1>6, <1>7, <1>8 DEF IInv
LEMMA AcceptedStep ==
  ASSUME RemindersAssumption, IInv, NEW w \in Workers, Accepted(w)
  PROVE  IInv'
<1> DEFINE new == [worker[w] EXCEPT !.pc = "accepted", !.at = now]
<1>1. /\ worker[w].pc = "sending" /\ OnlySend
      /\ shown' = [shown EXCEPT ![worker[w].id] = @ + 1] /\ lost' = lost
      /\ worker' = [worker EXCEPT ![w] = new]
  BY DEF Accepted
<1>2. worker[w] \in WorkerType /\ Fine(worker[w]) /\ now \in Nat /\ lost \in 0..MaxLost
  BY DEF IInv, Types, WorkersFine
<1>3. new \in WorkerType
  BY <1>2 DEF WorkerType, PCs
<1>4. /\ new.pc = "accepted" /\ new.id = worker[w].id /\ new.gen = worker[w].gen
      /\ new.at = now /\ new.todo = worker[w].todo
  BY <1>2 DEF WorkerType
<1> HIDE DEF new
<1>5. \A id \in new.todo \cap SnoozeIds : id[3] <= new.at
  <2>1. \A id \in SnoozeIds : id[3] \in Nat
    BY Names DEF Times
  <2>2. worker[w].at \in Nat
    BY <1>2 DEF WorkerType
  <2> QED
    BY <1>1, <1>2, <1>4, <2>1, <2>2 DEF Fine
<1>6. lost <= lost' /\ lost' \in 0..MaxLost /\ new.at <= now
  BY <1>1, <1>2, <1>4, Bounds
<1>7. new.pc \in Senders
  BY <1>4 DEF Senders
<1>8. new.pc # "sending"
  BY <1>4
<1> QED
  BY <1>1, <1>3, <1>4, <1>5, <1>6, <1>7, <1>8, AttemptStep DEF OnlySend

LEMMA FailsStep ==
  ASSUME RemindersAssumption, IInv, NEW w \in Workers, NEW out \in BOOLEAN, AttemptFails(w, out)
  PROVE  IInv'
<1> DEFINE pc == IF worker[w].tries + 1 = MaxSendAttempts THEN "failed" ELSE worker[w].pc
           new == [worker[w] EXCEPT !.tries = worker[w].tries + 1, !.pc = pc]
<1>1. /\ worker[w].pc = "sending" /\ OnlySend
      /\ out => lost < MaxLost
      /\ shown' = IF out THEN [shown EXCEPT ![worker[w].id] = @ + 1] ELSE shown
      /\ lost' = IF out THEN lost + 1 ELSE lost
  BY DEF AttemptFails
<1>2. /\ worker[w] \in WorkerType /\ Fine(worker[w]) /\ lost \in 0..MaxLost /\ MaxLost \in Nat
      /\ worker \in [Workers -> WorkerType]
  BY Bounds DEF IInv, Types, WorkersFine
<1>3. worker' = [worker EXCEPT ![w] = new]
  BY <1>2 DEF AttemptFails
<1>4. pc \in Senders /\ pc \in PCs
  BY <1>1 DEF Senders, PCs
<1> HIDE DEF pc
<1>5. new \in WorkerType
  <2>1. worker[w].tries + 1 \in Nat
    BY <1>2 DEF WorkerType
  <2> QED
    BY <1>2, <1>4, <2>1 DEF WorkerType
<1>6. /\ new.pc = pc /\ new.id = worker[w].id /\ new.gen = worker[w].gen
      /\ new.at = worker[w].at /\ new.todo = worker[w].todo
  BY <1>2 DEF WorkerType
<1> HIDE DEF new
<1>7. new.at <= now /\ \A id \in new.todo \cap SnoozeIds : id[3] <= new.at
  BY <1>1, <1>2, <1>6 DEF Fine
<1>8. lost' \in 0..MaxLost /\ lost <= lost' /\ (out => lost' = lost + 1)
  BY <1>1, <1>2
<1> QED
  BY <1>1, <1>3, <1>4, <1>5, <1>6, <1>7, <1>8, AttemptStep DEF OnlySend

(* A message that is out, or given up, closes its row if it is still its.   *)
LEMMA SettleStep ==
  ASSUME RemindersAssumption, IInv, NEW w \in Workers, worker[w].pc \in {"accepted", "failed"},
         NEW new \in RowType, new.gen = row[worker[w].id].gen, new.st \in {"SENT", "FAILED"},
         row' = IF Owns(w) THEN [row EXCEPT ![worker[w].id] = new] ELSE row,
         NextPhase(w), OnlyRows
  PROVE  IInv'
<1>1. worker[w].id \in Ids /\ worker[w].pc \in Senders
  BY DEF IInv, WorkersFine, Fine, Senders
<1>2. QuietRows /\ Sleeping'
  <2>1. CASE Owns(w)
    BY <1>1, <2>1, CloseQuiet DEF Owns, OnlyRows
  <2>2. CASE ~Owns(w)
    BY <2>2, SameRows, SleepKept DEF SnoozesKept, OnlyRows
  <2> QED
    BY <2>1, <2>2
<1>3. Others
  BY OthersKept DEF OnlyRows
<1> QED
  BY <1>1, <1>2, <1>3, NextStep DEF OnlyRows

LEMMA FinalStep ==
  ASSUME RemindersAssumption, IInv, NEW w \in Workers, Finalize(w) \/ MarkFailed(w)
  PROVE  IInv'
<1>1. worker[w].id \in Ids /\ row[worker[w].id] \in RowType /\ worker[w].at \in Nat
  BY DEF Finalize, MarkFailed, IInv, Types, WorkersFine, Fine, WorkerType, Senders
<1>2. CASE Finalize(w)
  <2> DEFINE new == Delivered(worker[w].id, worker[w].at)
  <2>1. new \in RowType /\ new.gen = row[worker[w].id].gen /\ new.st = "SENT"
    <3>1. LET closed == Closed(worker[w].id, "SENT")
          IN closed \in RowType /\ closed.gen = row[worker[w].id].gen /\ closed.st = "SENT"
      BY <1>1 DEF Closed, RowType, Statuses
    <3> QED
      BY <1>1, <3>1 DEF Delivered, RowType
  <2>2. row' = IF Owns(w) THEN [row EXCEPT ![worker[w].id] = new] ELSE row
    BY <1>2 DEF Finalize
  <2> HIDE DEF new
  <2> QED
    BY <1>2, <2>1, <2>2, SettleStep DEF Finalize
<1>3. CASE MarkFailed(w)
  <2> DEFINE new == Closed(worker[w].id, "FAILED")
  <2>1. new \in RowType /\ new.gen = row[worker[w].id].gen /\ new.st = "FAILED"
    BY <1>1 DEF Closed, RowType, Statuses
  <2>2. row' = IF Owns(w) THEN [row EXCEPT ![worker[w].id] = new] ELSE row
    BY <1>3 DEF MarkFailed
  <2> HIDE DEF new
  <2> QED
    BY <1>3, <2>1, <2>2, SettleStep DEF MarkFailed
<1> QED
  BY <1>2, <1>3

-----------------------------------------------------------------------------
(* The steps of the user, the clock and a death.                           *)
LEMMA UserKeeps ==
  ASSUME RemindersAssumption, IInv, QuietRows, Sleeping', Others, UNCHANGED <<now, worker, shown, lost>>
  PROVE  IInv'
<1>1. WorkersFine'
  <2>1. ASSUME NEW v \in Workers PROVE Fine(worker[v])'
    <3>1. Fine(worker[v]) /\ now' = now /\ worker' = worker
      BY DEF IInv, WorkersFine
    <3> QED
      BY <3>1 DEF QuietRows, Fine
  <2> QED
    BY <2>1 DEF WorkersFine
<1>2. ClaimsAgree' /\ Alone'
  BY QuietRowsKeep DEF IInv, Types
<1>3. DigestsOnce'
  BY RowsApart DEF IInv, DigestsOnce, QuietRows, Sends
<1>4. Types'
  BY DEF Others, QuietRows, IInv, Types
<1> QED
  BY <1>1, <1>2, <1>3, <1>4 DEF IInv

LEMMA WithoutQuiet ==
  ASSUME RemindersAssumption, IInv, NEW i \in Items
  PROVE  LET new == WithoutSnoozes(i)
         IN /\ new \in [Ids -> RowType]
            /\ \A id \in Ids : /\ new[id].gen = row[id].gen
                               /\ new[id].st = row[id].st \/ new[id].st = "CANCELLED"
                               /\ id \notin SnoozeIds \/ id[2] # i => new[id] = row[id]
<1>1. row \in [Ids -> RowType]
  BY DEF IInv, Types
<1>2. \A id \in Ids : LET new == [row[id] EXCEPT !.st = "CANCELLED"]
                     IN new \in RowType /\ new.gen = row[id].gen /\ new.st = "CANCELLED"
  BY <1>1 DEF RowType, Statuses
<1> QED
  BY <1>1, <1>2 DEF WithoutSnoozes

LEMMA SnoozeItemStep ==
  ASSUME RemindersAssumption, IInv, NEW i \in Items, NEW t \in Times, now < t, SnoozeItem(i, t)
  PROVE  IInv'
<1> DEFINE without == WithoutSnoozes(i)
           id == Snooze(i, t)
           new == [without[id] EXCEPT !.st = "PENDING", !.sent = 0]
<1>1. /\ without \in [Ids -> RowType]
      /\ \A o \in Ids : /\ without[o].gen = row[o].gen
                        /\ without[o].st = row[o].st \/ without[o].st = "CANCELLED"
                        /\ o \notin SnoozeIds \/ o[2] # i => without[o] = row[o]
  BY WithoutQuiet
<1>2. /\ UNCHANGED <<now, worker, shown, lost>> /\ UNCHANGED <<settings, since, dismissed, crashes>>
      /\ item' = [item EXCEPT ![i] = [state |-> "SNOOZED", until |-> t]]
      /\ row' = AddSnooze(without, id) /\ acts < MaxActs /\ acts' = acts + 1
  BY DEF SnoozeItem, OnlyItems, Act
<1>3. id \in SnoozeIds /\ id \in Ids /\ id[2] = i /\ id[3] = t /\ id \notin DigestIds
  BY Names, RowsApart
<1> HIDE DEF without, id
<1>4. new \in RowType /\ new.gen = row[id].gen /\ new.st = "PENDING"
  <2>1. without[id] \in RowType /\ without[id].gen = row[id].gen
    BY <1>1, <1>3
  <2> QED
    BY <2>1 DEF RowType, Statuses
<1>5. \/ row' = without /\ without[id].st \in {"PENDING", "CLAIMED"}
      \/ row' = [without EXCEPT ![id] = new]
  BY <1>2 DEF AddSnooze
<1> HIDE DEF new
<1>6. /\ row' \in [Ids -> RowType]
      /\ \A o \in Ids : o # id => row'[o] = without[o]
      /\ row'[id] = without[id] \/ row'[id] = new
  BY <1>1, <1>3, <1>4, <1>5
<1>7. QuietRows
  BY <1>1, <1>3, <1>4, <1>6, RowsApart DEF QuietRows
<1>8. row'[id].st = "PENDING"
  <2>1. row[id].st # "CLAIMED" /\ row[id].st \in Statuses
    <3>1. now \in Nat /\ t \in Nat
      BY DEF IInv, Types, Times
    <3> QED
      BY <1>3, <3>1 DEF IInv, Types, RowType, ClaimsAgree
  <2>2. without[id].st # "CLAIMED"
    BY <1>1, <1>3, <2>1
  <2>3. row' = [without EXCEPT ![id] = new] => row'[id] = new
    BY <1>1, <1>3
  <2> QED
    BY <1>4, <1>5, <2>2, <2>3
<1>9. Sleeping'
  <2>1. item \in [Items -> [state : {"ACTIVE", "SNOOZED", "RESOLVED"}, until : 0..MaxTime]]
    BY DEF IInv, Types
  <2>2. item'[i].until = t /\ \A j \in Items : j # i => item'[j] = item[j]
    BY <1>2, <2>1
  <2>3. ASSUME NEW j \in Items, j # i, item'[j].state = "SNOOZED"
        PROVE  item'[j].until \in Times /\ row'[Snooze(j, item'[j].until)].st = "PENDING"
    <3>1. item[j].until \in Times /\ row[Snooze(j, item[j].until)].st = "PENDING"
      BY <2>2, <2>3 DEF IInv, Sleeping
    <3>2. LET o == Snooze(j, item[j].until) IN o \in Ids /\ o[2] # i /\ o # id
      BY <1>3, <2>3, <3>1, Names, RowsApart
    <3> QED
      BY <1>1, <1>6, <2>2, <2>3, <3>1, <3>2
  <2>4. row'[Snooze(i, t)].st = "PENDING"
    BY <1>8 DEF id
  <2> QED
    BY <2>2, <2>3, <2>4 DEF Sleeping
<1>10. Others
  <2>1. item' \in [Items -> [state : {"ACTIVE", "SNOOZED", "RESOLVED"}, until : 0..MaxTime]]
    <3>1. item \in [Items -> [state : {"ACTIVE", "SNOOZED", "RESOLVED"}, until : 0..MaxTime]]
      BY DEF IInv, Types
    <3>2. t \in 0..MaxTime
      BY Bounds DEF Times
    <3> QED
      BY <1>2, <3>1, <3>2
  <2>2. acts' \in 0..MaxActs
    BY <1>2, Bounds DEF IInv, Types
  <2> QED
    BY <1>2, <2>1, <2>2 DEF Others, IInv, Types
<1> QED
  BY <1>2, <1>7, <1>9, <1>10, UserKeeps

LEMMA WakeStep ==
  ASSUME RemindersAssumption, IInv, NEW i \in Items, CancelSnooze(i) \/ Resolve(i)
  PROVE  IInv'
<1>1. /\ UNCHANGED <<now, worker, shown, lost>> /\ UNCHANGED <<settings, since, dismissed, acts, crashes>>
      /\ row' = WithoutSnoozes(i)
  BY DEF CancelSnooze, Resolve
<1>2. PICK st \in {"ACTIVE", "RESOLVED"} : item' = [item EXCEPT ![i] = [state |-> st, until |-> 0]]
  BY DEF CancelSnooze, Resolve
<1>3. /\ row' \in [Ids -> RowType]
      /\ \A id \in Ids : /\ row'[id].gen = row[id].gen
                         /\ row'[id].st = row[id].st \/ row'[id].st = "CANCELLED"
                         /\ id \notin SnoozeIds \/ id[2] # i => row'[id] = row[id]
  BY <1>1, WithoutQuiet
<1>4. QuietRows
  BY <1>3, RowsApart DEF QuietRows
<1>5. item \in [Items -> [state : {"ACTIVE", "SNOOZED", "RESOLVED"}, until : 0..MaxTime]]
  BY DEF IInv, Types
<1>6. Sleeping'
  <2>1. item'[i].state # "SNOOZED" /\ \A j \in Items : j # i => item'[j] = item[j]
    BY <1>2, <1>5
  <2>2. ASSUME NEW j \in Items, item'[j].state = "SNOOZED"
        PROVE  item'[j].until \in Times /\ row'[Snooze(j, item'[j].until)].st = "PENDING"
    <3>1. j # i /\ item[j].until \in Times /\ row[Snooze(j, item[j].until)].st = "PENDING"
      BY <2>1, <2>2 DEF IInv, Sleeping
    <3>2. LET o == Snooze(j, item[j].until) IN o \in Ids /\ o[2] # i
      BY <3>1, Names, RowsApart
    <3> QED
      BY <1>3, <2>1, <2>2, <3>1, <3>2
  <2> QED
    BY <2>2 DEF Sleeping
<1>7. Others
  <2>1. item' \in [Items -> [state : {"ACTIVE", "SNOOZED", "RESOLVED"}, until : 0..MaxTime]]
    BY <1>2, <1>5, Bounds
  <2> QED
    BY <1>1, <2>1 DEF Others, IInv, Types
<1> QED
  BY <1>1, <1>4, <1>6, <1>7, UserKeeps

LEMMA DismissStep ==
  ASSUME RemindersAssumption, IInv, NEW i \in Items, Dismiss(i)
  PROVE  IInv'
<1>1. /\ UNCHANGED <<now, worker, shown, lost>> /\ UNCHANGED <<settings, since, item, row, crashes>>
      /\ dismissed' = [dismissed EXCEPT ![i] = now] /\ acts < MaxActs /\ acts' = acts + 1
  BY DEF Dismiss, Act
<1>2. now \in 0..MaxTime /\ acts' \in 0..MaxActs
  BY <1>1, Bounds DEF IInv, Types
<1>3. dismissed' \in [Items -> 0..MaxTime]
  BY <1>1, <1>2 DEF IInv, Types
<1>4. Others
  BY <1>1, <1>2, <1>3 DEF Others, IInv, Types
<1> QED
  BY <1>1, <1>4, SameRows, SleepKept, UserKeeps DEF SnoozesKept

LEMMA SettingsStep ==
  ASSUME RemindersAssumption, IInv, NEW new \in Settings, ChangeSettings(new)
  PROVE  IInv'
<1>1. /\ UNCHANGED <<now, worker, shown, lost>> /\ UNCHANGED <<item, dismissed, row, crashes>>
      /\ settings' = new /\ (since' = now \/ since' = since) /\ acts < MaxActs /\ acts' = acts + 1
  BY DEF ChangeSettings, Act
<1>2. acts' \in 0..MaxActs
  BY <1>1, Bounds DEF IInv, Types
<1>3. since' \in 1..MaxTime
  BY <1>1 DEF IInv, Types
<1>4. Others
  BY <1>1, <1>2, <1>3 DEF Others, IInv, Types
<1> QED
  BY <1>1, <1>4, SameRows, SleepKept, UserKeeps DEF SnoozesKept

LEMMA TickStep ==
  ASSUME RemindersAssumption, IInv, Tick
  PROVE  IInv'
<1>1. now < MaxTime /\ now' = now + 1 /\ now \in 1..MaxTime /\ MaxTime \in Nat
      /\ UNCHANGED <<settings, since, item, dismissed, row, shown, worker, acts, crashes, lost>>
  BY Bounds DEF Tick, IInv, Types
<1>2. now' \in 1..MaxTime /\ now' \in Nat /\ now <= now'
  BY <1>1
<1>3. WorkersFine'
  <2>1. ASSUME NEW v \in Workers PROVE Fine(worker[v])'
    <3>1. Fine(worker[v]) /\ worker[v].at \in Nat /\ worker' = worker /\ row' = row
      BY <1>1 DEF IInv, WorkersFine, Types, WorkerType
    <3>2. worker[v].at <= now'
      BY <1>1, <1>2, <3>1 DEF Fine
    <3> QED
      BY <3>1, <3>2 DEF Fine
  <2> QED
    BY <2>1 DEF WorkersFine
<1>4. ClaimsAgree' /\ Alone'
  BY <1>1, <1>2, SameRows, QuietRowsKeep
<1>5. Sleeping'
  BY <1>1, SleepKept DEF SnoozesKept
<1>6. DigestsOnce'
  BY <1>1 DEF IInv, DigestsOnce, Sends
<1>7. Types'
  BY <1>1, <1>2 DEF IInv, Types
<1> QED
  BY <1>3, <1>4, <1>5, <1>6, <1>7 DEF IInv

LEMMA CrashStep ==
  ASSUME RemindersAssumption, IInv, NEW w \in Workers, CrashRestart(w)
  PROVE  IInv'
<1>1. /\ Rest(w) /\ crashes < MaxCrashes /\ crashes' = crashes + 1
      /\ UNCHANGED <<now, settings, since, item, dismissed, row, shown, acts, lost>>
  BY DEF CrashRestart
<1>2. crashes' \in 0..MaxCrashes
  BY <1>1, Bounds DEF IInv, Types
<1>3. Others
  BY <1>1, <1>2 DEF Others, IInv, Types
<1> QED
  BY <1>1, <1>3, SameRows, SleepKept, RestStep DEF SnoozesKept

-----------------------------------------------------------------------------
(* Every step of a worker keeps the invariant.                             *)
LEMMA WorkerKeeps ==
  ASSUME RemindersAssumption, IInv, NEW w \in Workers, WorkerStep(w)
  PROVE  IInv'
<1>1. CASE StartCycle(w)
  BY <1>1, GotoStep DEF StartCycle, OnlyWorker
<1>2. CASE ProcessDigest(w)
  BY <1>2, DigestStep
<1>3. CASE \E id \in SnoozeIds : ClaimSnooze(w, id)
  BY <1>3, SnoozeStep
<1>4. CASE LeaveSnoozes(w)
  BY <1>4, GotoStep DEF LeaveSnoozes, OnlyWorker
<1>5. CASE \E R \in SUBSET RankedItems, facts \in FactsLeft : Select(w, R, facts)
  <2>1. FactsLeft \subseteq BOOLEAN
    BY DEF FactsLeft
  <2> QED
    BY <1>5, <2>1, SelectStep
<1>6. CASE \E id \in AttentionIds, gen \in 1..MaxGeneration : CancelStale(w, id, gen)
  BY <1>6, CancelStaleStep
<1>7. CASE Onwards(w)
  BY <1>7, OnwardsStep
<1>8. CASE \E R \in SUBSET RankedItems, facts \in FactsLeft : ClaimMotivation(w, R, facts)
  BY <1>8, MotivationStep
<1>9. CASE Precheck(w) \/ CancelDoomed(w)
  BY <1>9, PrecheckStep, DoomedStep
<1>10. CASE \E R \in SUBSET RankedItems : ClaimProactive(w, R)
  <2>1. RankedItems \subseteq Items
    BY DEF RankedItems
  <2> QED
    BY <1>10, <2>1, ProactiveStep
<1>11. CASE \E R \in SUBSET RankedItems, facts \in FactsLeft : Prepare(w, R, facts)
  BY <1>11, PrepareStep
<1>12. CASE Accepted(w) \/ \E out \in BOOLEAN : AttemptFails(w, out)
  BY <1>12, AcceptedStep, FailsStep
<1>13. CASE DeadlinePasses(w)
  BY <1>13, GotoStep DEF DeadlinePasses, OnlyWorker
<1>14. CASE Finalize(w) \/ MarkFailed(w)
  BY <1>14, FinalStep
<1> QED
  BY <1>1, <1>2, <1>3, <1>4, <1>5, <1>6, <1>7, <1>8, <1>9, <1>10, <1>11, <1>12, <1>13, <1>14
  DEF WorkerStep

LEMMA UserStepKeeps ==
  ASSUME RemindersAssumption, IInv, UserStep
  PROVE  IInv'
<1>1. CASE \E i \in Items : CancelSnooze(i) \/ Resolve(i) \/ Dismiss(i)
  BY <1>1, WakeStep, DismissStep
<1>2. CASE \E i \in Items, d \in SnoozeDelays : now + d <= MaxTime /\ SnoozeItem(i, now + d)
  <2>1. PICK i \in Items, d \in SnoozeDelays : now + d <= MaxTime /\ SnoozeItem(i, now + d)
    BY <1>2
  <2>2. now \in 1..MaxTime /\ d \in Nat \ {0} /\ MaxTime \in Nat
    BY Bounds DEF IInv, Types
  <2>3. now + d \in Times /\ now < now + d
    BY <2>1, <2>2 DEF Times
  <2> QED
    BY <2>1, <2>3, SnoozeItemStep
<1>3. CASE \E new \in Settings : ChangeSettings(new)
  BY <1>3, SettingsStep
<1> QED
  BY <1>1, <1>2, <1>3 DEF UserStep

LEMMA StutterKeeps ==
  ASSUME IInv, UNCHANGED vars
  PROVE  IInv'
  BY DEF vars, IInv, Types, WorkersFine, Fine, ClaimsAgree, Sleeping, Alone, Open, Has,
         DigestsOnce, Sends

LEMMA StepInvariant ==
  ASSUME RemindersAssumption, IInv, [Next]_vars
  PROVE  IInv'
<1>1. CASE Next
  BY <1>1, WorkerKeeps, CrashStep, UserStepKeeps, TickStep DEF Next
<1>2. CASE UNCHANGED vars
  BY <1>2, StutterKeeps
<1> QED
  BY <1>1, <1>2
(* The inductive invariant holds for any constants.                         *)
THEOREM Invariance == ASSUME RemindersAssumption PROVE Spec => []IInv
<1>1. Init => IInv
  BY InitInvariant
<1>2. IInv /\ [Next]_vars => IInv'
  BY StepInvariant
<1> QED
  BY <1>1, <1>2, PTL DEF Spec

(* Every variable keeps its type, and a worker past a claim names a row and *)
(* a generation that row has had.                                           *)
THEOREM TypeCorrect == ASSUME RemindersAssumption PROVE Spec => []TypeOK
<1>1. IInv => TypeOK
  <2>1. ASSUME IInv, NEW w \in Workers
        PROVE  /\ worker[w].pc \in PCs
               /\ worker[w].pc \in {"doomed", "prepare", "sending", "accepted", "failed"}
                     => worker[w].id \in Ids /\ worker[w].gen \in 1..row[worker[w].id].gen
    BY <2>1 DEF IInv, Types, WorkersFine, WorkerType, Fine, Senders
  <2> QED
    BY <2>1 DEF IInv, Types, TypeOK
<1> QED
  BY <1>1, Invariance, PTL

(* A sleeping Item always has a PENDING row at the instant it sleeps to,    *)
(* however its user snoozes and wakes it and whatever the workers do: the   *)
(* rows and the Item change in the same commits.                            *)
THEOREM Alarmed == ASSUME RemindersAssumption PROVE Spec => []SleeperHasAlarm
<1>1. IInv => SleeperHasAlarm
  BY DEF IInv, Sleeping, SleeperHasAlarm
<1> QED
  BY <1>1, Invariance, PTL

(* A digest is shown once, or once more for every reply that was lost, with *)
(* any number of workers and deaths: its row is claimed once and has one    *)
(* sender, ever.                                                            *)
THEOREM ShownOnce == ASSUME RemindersAssumption PROVE Spec => []NoReplay
<1>1. IInv => NoReplay
  BY Names DEF IInv, DigestsOnce, NoReplay
<1> QED
  BY <1>1, Invariance, PTL

(* A user has at most one open claim of each attention kind, however many   *)
(* workers compete: every claim cancels or takes over the one before it.    *)
THEOREM ClaimedAlone == ASSUME RemindersAssumption PROVE Spec => []OneOpenClaim
<1>1. ASSUME IInv, NEW S \in {ProactiveIds, MotivationIds} PROVE Cardinality(Open(S)) <= 1
  <2>1. CASE Open(S) = {}
    BY <2>1, FS_EmptySet
  <2>2. CASE Open(S) # {}
    <3>1. PICK a : a \in Open(S)
      BY <2>2
    <3>2. Open(S) = {a}
      BY <1>1, <3>1 DEF IInv, Alone
    <3>3. Cardinality({a}) = 1
      BY FS_Singleton
    <3> QED
      BY <3>2, <3>3
  <2> QED
    BY <2>1, <2>2
<1>2. IInv => OneOpenClaim
  BY <1>1 DEF OneOpenClaim
<1> QED
  BY <1>2, Invariance, PTL

-----------------------------------------------------------------------------
(* One process: nobody takes away the claim it sends for.                  *)
OneProcess == \A v, w \in Workers : v = w
Owning == \A w \in Workers : worker[w].pc \in Senders => Owns(w)

(* What the user does leaves the claimed rows alone.                        *)
LEMMA UserLeavesClaims ==
  ASSUME RemindersAssumption, IInv, UserStep
  PROVE  worker' = worker /\ \A id \in Ids : row[id].st = "CLAIMED" => row'[id] = row[id]
<1>1. ASSUME NEW i \in Items, NEW id \in Ids, row[id].st = "CLAIMED"
      PROVE  WithoutSnoozes(i)[id] = row[id]
  BY <1>1 DEF WithoutSnoozes
<1>2. CASE \E i \in Items : CancelSnooze(i) \/ Resolve(i) \/ Dismiss(i)
  BY <1>1, <1>2 DEF CancelSnooze, Resolve, Dismiss
<1>3. ASSUME NEW i \in Items, NEW t, SnoozeItem(i, t)
      PROVE  worker' = worker /\ \A id \in Ids : row[id].st = "CLAIMED" => row'[id] = row[id]
  <2>1. worker' = worker /\ row' = AddSnooze(WithoutSnoozes(i), Snooze(i, t))
    BY <1>3 DEF SnoozeItem, OnlyItems
  <2>2. ASSUME NEW id \in Ids, row[id].st = "CLAIMED" PROVE row'[id] = row[id]
    <3> DEFINE without == WithoutSnoozes(i)
    <3>1. without[id] = row[id]
      BY <1>1, <2>2
    <3> HIDE DEF without
    <3>2. AddSnooze(without, Snooze(i, t))[id] = without[id]
      BY <2>2, <3>1 DEF AddSnooze
    <3> QED
      BY <2>1, <3>1, <3>2 DEF without
  <2> QED
    BY <2>1, <2>2
<1>4. CASE \E new \in Settings : ChangeSettings(new)
  BY <1>4 DEF ChangeSettings
<1> QED
  BY <1>2, <1>3, <1>4 DEF UserStep

LEMMA OwningStep ==
  ASSUME RemindersAssumption, OneProcess, IInv, Owning, [Next]_vars
  PROVE  Owning'
<1> SUFFICES ASSUME NEW w \in Workers, (worker[w].pc \in Senders)'
             PROVE  Owns(w)'
  BY DEF Owning
<1>1. worker \in [Workers -> WorkerType] /\ worker[w] \in WorkerType /\ row \in [Ids -> RowType]
  BY DEF IInv, Types
<1>2. worker[w].pc \in Senders => worker[w].id \in Ids /\ Owns(w)
  BY DEF IInv, WorkersFine, Fine, Owning, Senders
<1>3. ASSUME /\ worker'[w].id = worker[w].id /\ worker'[w].gen = worker[w].gen
             /\ Owns(w) /\ row'[worker[w].id] = row[worker[w].id]
      PROVE  Owns(w)'
  BY <1>3 DEF Owns
<1>4. ASSUME NEW id \in Ids, row' = [row EXCEPT ![id] = Claimed(id)],
             worker'[w].id = id, worker'[w].gen = row[id].gen + 1
      PROVE  Owns(w)'
  BY <1>1, <1>4 DEF Owns, Claimed
<1>5. CASE WorkerStep(w)
  <2>1. CASE \/ StartCycle(w) \/ LeaveSnoozes(w) \/ Onwards(w) \/ Precheck(w) \/ CancelDoomed(w)
    <3>1. ASSUME NEW pc, Goto(w, pc) PROVE worker'[w].pc = pc
      BY <1>1, <3>1 DEF Goto, WorkerType
    <3>2. ASSUME Rest(w) PROVE worker'[w].pc = "idle"
      BY <1>1, <3>2 DEF Rest, Idle
    <3>3. ASSUME Onwards(w) PROVE worker'[w].pc = worker[w].next
      BY <1>1, <3>3 DEF Onwards, Idle
    <3>4. ASSUME Precheck(w) PROVE worker'[w].pc \in {"doomed", "idle", "claim"}
      <4>1. ASSUME NEW id, worker' = [worker EXCEPT ![w] =
                       [Idle EXCEPT !.pc = "doomed", !.id = id, !.gen = row[id].gen]]
            PROVE  worker'[w].pc = "doomed"
        BY <1>1, <4>1 DEF Idle
      <4> QED
        BY <3>1, <3>2, <3>4, <4>1 DEF Precheck
    <3> QED
      BY <1>1, <2>1, <3>1, <3>2, <3>3, <3>4
      DEF StartCycle, LeaveSnoozes, CancelDoomed, Senders, WorkerType
  <2>2. ASSUME EnterSnoozes(w) PROVE worker'[w].pc = "snoozes"
    BY <1>1, <2>2 DEF EnterSnoozes, Idle
  <2>3. ASSUME NEW id, Later(w, id) PROVE worker'[w].pc = worker[w].pc
    BY <1>1, <2>3 DEF Later, WorkerType
  <2>4. ASSUME NEW pc, NEW id, Holding(w, pc, id)
        PROVE  worker'[w].pc = pc /\ worker'[w].id = id /\ worker'[w].gen = row[id].gen + 1
    BY <1>1, <2>4 DEF Holding, WorkerType
  <2>5. ASSUME Rest(w) PROVE worker'[w].pc = "idle"
    BY <1>1, <2>5 DEF Rest, Idle
  <2>6. CASE ProcessDigest(w)
    <3>1. CASE EnterSnoozes(w)
      BY <2>2, <3>1 DEF Senders
    <3>2. ASSUME NEW d \in Days, row' = [row EXCEPT ![Digest(d)] = Claimed(Digest(d))],
                 Holding(w, "sending", Digest(d))
          PROVE  Owns(w)'
      <4>1. Digest(d) \in Ids
        BY Names, RowsApart
      <4> QED
        BY <1>4, <2>4, <3>2, <4>1
    <3>3. TargetDates \subseteq Days
      BY DEF TargetDates, PendingDates
    <3> QED
      BY <2>6, <3>1, <3>2, <3>3 DEF ProcessDigest
  <2>7. ASSUME NEW id \in SnoozeIds, ClaimSnooze(w, id) PROVE Owns(w)'
    <3>1. worker[w].pc = "snoozes" /\ id \in Ids
      BY <2>7, RowsApart DEF ClaimSnooze, NextSnooze
    <3>2. CASE Later(w, id)
      BY <2>3, <3>1, <3>2 DEF Senders
    <3>3. CASE /\ row' = [row EXCEPT ![id] = Claimed(id)]
               /\ worker' = [worker EXCEPT
                    ![w] = [@ EXCEPT !.pc = "sending", !.id = id, !.gen = row[id].gen + 1,
                                     !.claimed = now, !.tries = 0, !.todo = worker[w].todo \ {id}]]
      <4>1. worker'[w].id = id /\ worker'[w].gen = row[id].gen + 1
        BY <1>1, <3>3 DEF WorkerType
      <4> QED
        BY <1>4, <3>1, <3>3, <4>1
    <3> QED
      BY <2>7, <3>2, <3>3 DEF ClaimSnooze
  <2>8. CASE \E R \in SUBSET RankedItems, facts \in FactsLeft : Select(w, R, facts)
    <3>1. worker'[w].pc \in {"idle", "cancel"}
      <4>1. ASSUME NEW next, NEW todo, worker' = [worker EXCEPT ![w] =
                       [Idle EXCEPT !.pc = "cancel", !.next = next, !.todo = todo]]
            PROVE  worker'[w].pc = "cancel"
        BY <1>1, <4>1 DEF Idle
      <4> QED
        BY <2>5, <2>8, <4>1 DEF Select
    <3> QED
      BY <3>1 DEF Senders
  <2>9. CASE \E id \in AttentionIds, gen \in 1..MaxGeneration : CancelStale(w, id, gen)
    BY <2>3, <2>9 DEF CancelStale, Senders
  <2>10. CASE \/ \E R \in SUBSET RankedItems, facts \in FactsLeft : ClaimMotivation(w, R, facts)
              \/ \E R \in SUBSET RankedItems : ClaimProactive(w, R)
    <3>1. Rest(w) \/ \E id : Holding(w, "prepare", id)
      BY <2>10 DEF ClaimMotivation, ClaimProactive
    <3> QED
      BY <2>4, <2>5, <3>1 DEF Senders
  <2>11. ASSUME NEW pc, Goto(w, pc)
         PROVE  worker'[w].pc = pc /\ worker'[w].id = worker[w].id /\ worker'[w].gen = worker[w].gen
    BY <1>1, <2>11 DEF Goto, WorkerType
  <2>12. CASE \E R \in SUBSET RankedItems, facts \in FactsLeft : Prepare(w, R, facts)
    <3>1. Rest(w) \/ (Owns(w) /\ row' = row /\ Goto(w, "sending"))
      BY <2>12 DEF Prepare
    <3> QED
      BY <1>3, <2>5, <2>11, <3>1 DEF Senders
  <2>13. CASE Accepted(w) \/ (\E out \in BOOLEAN : AttemptFails(w, out)) \/ DeadlinePasses(w)
    <3>1. worker[w].pc = "sending" /\ row' = row
      BY <2>13 DEF Accepted, AttemptFails, DeadlinePasses, OnlySend, OnlyWorker
    <3>2. worker'[w].id = worker[w].id /\ worker'[w].gen = worker[w].gen
      <4>1. CASE Accepted(w)
        BY <1>1, <4>1 DEF Accepted, WorkerType
      <4>2. CASE \E out \in BOOLEAN : AttemptFails(w, out)
        BY <1>1, <4>2 DEF AttemptFails, WorkerType
      <4>3. CASE DeadlinePasses(w)
        BY <2>11, <4>3 DEF DeadlinePasses
      <4> QED
        BY <2>13, <4>1, <4>2, <4>3
    <3> QED
      BY <1>2, <1>3, <3>1, <3>2 DEF Senders
  <2>14. CASE Finalize(w) \/ MarkFailed(w)
    <3>1. NextPhase(w)
      BY <2>14 DEF Finalize, MarkFailed
    <3>2. worker'[w].pc \in {"idle", "snoozes"}
      <4>1. CASE worker' = [worker EXCEPT ![w] = [Idle EXCEPT
                      !.pc = "snoozes", !.at = worker[w].at, !.todo = worker[w].todo]]
        BY <1>1, <4>1 DEF Idle
      <4> QED
        BY <2>2, <2>5, <3>1, <4>1 DEF NextPhase
    <3> QED
      BY <3>2 DEF Senders
  <2> QED
    BY <1>5, <2>1, <2>6, <2>7, <2>8, <2>9, <2>10, <2>12, <2>13, <2>14 DEF WorkerStep
<1>6. CASE CrashRestart(w)
  BY <1>1, <1>6 DEF CrashRestart, Rest, Idle, Senders
<1>7. ASSUME worker' = worker, \A id \in Ids : row[id].st = "CLAIMED" => row'[id] = row[id]
      PROVE  Owns(w)'
  BY <1>2, <1>3, <1>7 DEF Owns
<1>8. CASE UserStep
  BY <1>7, <1>8, UserLeavesClaims
<1>9. CASE Tick \/ UNCHANGED vars
  BY <1>7, <1>9 DEF Tick, vars
<1> QED
  BY <1>5, <1>6, <1>8, <1>9 DEF Next, OneProcess

(* One process never sends for a claim that is no longer its own, and never *)
(* finishes one either: between the claim and the commit that settles it    *)
(* the row is neither cancelled, reopened nor taken over.                   *)
THEOREM KeepsItsClaim ==
  ASSUME RemindersAssumption, OneProcess
  PROVE  Spec => []SenderOwnsClaim
<1>1. Init => IInv /\ Owning
  <2>1. Init => Owning
    BY IdleFine DEF Init, Owning, Senders
  <2> QED
    BY <2>1, InitInvariant
<1>2. IInv /\ Owning /\ [Next]_vars => (IInv /\ Owning)'
  BY StepInvariant, OwningStep
<1>3. Owning => SenderOwnsClaim
  BY DEF Owning, SenderOwnsClaim, Senders
<1> QED
  BY <1>1, <1>2, <1>3, PTL DEF Spec

-----------------------------------------------------------------------------
(* The pace of attention.  A function of the levels has a greatest value.   *)
LEMMA GreatestUpTo ==
  ASSUME NEW f \in [Levels -> Int], NEW n \in Nat,
         \/ Levels \cap (1..n) = {}
         \/ \E k \in Levels \cap (1..n) : \A l \in Levels \cap (1..n) : f[l] <= f[k]
  PROVE  \/ Levels \cap (1..(n + 1)) = {}
         \/ \E k \in Levels \cap (1..(n + 1)) : \A l \in Levels \cap (1..(n + 1)) : f[l] <= f[k]
<1>1. 1..(n + 1) = (1..n) \cup {n + 1}
  OBVIOUS
<1>2. CASE n + 1 \notin Levels
  <2>1. Levels \cap (1..(n + 1)) = Levels \cap (1..n)
    BY <1>1, <1>2
  <2> QED
    BY <2>1
<1>3. CASE n + 1 \in Levels /\ Levels \cap (1..n) = {}
  <2>1. Levels \cap (1..(n + 1)) = {n + 1}
    BY <1>1, <1>3
  <2> QED
    BY <1>3, <2>1
<1>4. ASSUME n + 1 \in Levels, NEW k \in Levels \cap (1..n),
             \A l \in Levels \cap (1..n) : f[l] <= f[k]
      PROVE  \E m \in Levels \cap (1..(n + 1)) : \A l \in Levels \cap (1..(n + 1)) : f[l] <= f[m]
  <2>1. CASE f[n + 1] <= f[k]
    BY <1>1, <1>4, <2>1
  <2>2. CASE f[k] <= f[n + 1]
    BY <1>1, <1>4, <2>2
  <2> QED
    BY <1>4, <2>1, <2>2
<1> QED
  BY <1>2, <1>3, <1>4

LEMMA Greatest ==
  ASSUME Levels \subseteq 1..5, NEW f \in [Levels -> Int], NEW l \in Levels
  PROVE  \E k \in Levels : \A m \in Levels : f[m] <= f[k]
<1> DEFINE Upto(n) == \/ Levels \cap (1..n) = {}
                      \/ \E k \in Levels \cap (1..n) : \A m \in Levels \cap (1..n) : f[m] <= f[k]
<1>1. Upto(0)
  OBVIOUS
<1>2. \A n \in Nat : Upto(n) => Upto(n + 1)
  BY GreatestUpTo
<1>3. Upto(0 + 1) /\ Upto(0 + 1 + 1) /\ Upto(0 + 1 + 1 + 1) /\ Upto(0 + 1 + 1 + 1 + 1)
      /\ Upto(0 + 1 + 1 + 1 + 1 + 1)
  <2> HIDE DEF Upto
  <2> QED
    BY <1>1, <1>2
<1>4. Upto(5)
  BY <1>3
<1>5. Levels \cap (1..5) = Levels
  OBVIOUS
<1> QED
  BY <1>4, <1>5

(* The least gap and the highest cap are those of some level, and bound the *)
(* current ones.                                                            *)
LEMMA Paces ==
  ASSUME RemindersAssumption, IInv
  PROVE  /\ LeastGap \in Nat /\ MinGap[Level] \in Nat /\ LeastGap <= MinGap[Level]
         /\ HighestCap \in Nat /\ DailyCap[Level] \in Nat /\ DailyCap[Level] <= HighestCap
<1>1. Levels \subseteq 1..5 /\ DailyCap \in [Levels -> Nat] /\ MinGap \in [Levels -> Nat]
  <2>1. {DailyCap, MinGap, ItemCooldown} \subseteq [Levels -> Nat]
    BY Zenon DEF RemindersAssumption
  <2> QED
    BY <2>1, Zenon DEF RemindersAssumption
<1>2. Level \in Levels
  <2>1. Settings \subseteq [digest : BOOLEAN, attention : BOOLEAN, level : Levels,
                             generic : BOOLEAN]
    BY Zenon DEF RemindersAssumption
  <2> QED
    BY <2>1 DEF IInv, Types, Level
<1>3. \E g \in {MinGap[l] : l \in Levels} : \A l \in Levels : g <= MinGap[l]
  <2> DEFINE f == [l \in Levels |-> -MinGap[l]]
  <2>1. f \in [Levels -> Int]
    BY <1>1
  <2>2. PICK k \in Levels : \A m \in Levels : f[m] <= f[k]
    <3> HIDE DEF f
    <3> QED
      BY <1>1, <1>2, <2>1, Greatest
  <2>3. \A m \in Levels : MinGap[k] <= MinGap[m]
    BY <1>1, <2>2
  <2> QED
    BY <2>3
<1>4. \E c \in {DailyCap[l] : l \in Levels} : \A l \in Levels : DailyCap[l] <= c
  <2>1. DailyCap \in [Levels -> Int]
    BY <1>1
  <2>2. PICK k \in Levels : \A m \in Levels : DailyCap[m] <= DailyCap[k]
    BY <1>1, <1>2, <2>1, Greatest
  <2> QED
    BY <2>2
<1>5. LeastGap \in {MinGap[l] : l \in Levels} /\ \A l \in Levels : LeastGap <= MinGap[l]
  BY <1>3, Zenon DEF LeastGap
<1>6. HighestCap \in {DailyCap[l] : l \in Levels} /\ \A l \in Levels : DailyCap[l] <= HighestCap
  BY <1>4, Zenon DEF HighestCap
<1> QED
  BY <1>1, <1>2, <1>5, <1>6

(* There is room for an attention message at t: the gap to every message    *)
(* that is out has passed, and the day has budget left.                     *)
Sent == Has(Ids, "SENT")
Room(t) == /\ \A b \in Sent : row[b].sent + LeastGap <= t
           /\ Cardinality(SentOn(BudgetIds, Day(t))) < HighestCap

(* A worker that has passed the last look has room for its message until it *)
(* is settled: with one process nothing else is sent meanwhile.             *)
Paced(r) ==
    /\ r.pc = "accepted" => \A b \in Sent : row[b].sent <= r.at
    /\ r.pc = "accepted" /\ r.id \in AttentionIds => Room(r.at)
    /\ r.pc = "sending" /\ r.id \in AttentionIds => Room(now)

Pacing == /\ IsFiniteSet(Sent) /\ \A b \in Sent : row[b].sent <= now
          /\ \A w \in Workers : Paced(worker[w])
          /\ AttentionIsPaced

(* Nothing becomes SENT.                                                    *)
Unsent == \A id \in Ids : row'[id].st = "SENT" => row'[id] = row[id]

LEMMA Part ==
  ASSUME NEW S, NEW T, T \subseteq S, IsFiniteSet(S)
  PROVE  /\ IsFiniteSet(T) /\ Cardinality(T) \in Nat /\ Cardinality(S) \in Nat
         /\ Cardinality(T) <= Cardinality(S)
BY FS_Subset, FS_CardinalityType

LEMMA SentFacts ==
  ASSUME RemindersAssumption, IInv
  PROVE  /\ \A b \in Sent : b \in Ids /\ row[b].st = "SENT" /\ row[b].sent \in Nat
         /\ \A d : SentOn(BudgetIds, d) \subseteq Sent
         /\ now \in Nat /\ \A w \in Workers : worker[w] \in WorkerType /\ worker[w].at \in Nat
  BY DEF Sent, Has, SentOn, Ids, IInv, Types, RowType, WorkerType

LEMMA UnsentRoom ==
  ASSUME RemindersAssumption, IInv, IsFiniteSet(Sent), Unsent, NEW t, Room(t)
  PROVE  Room(t)'
<1>1. Sent' \subseteq Sent /\ \A b \in Sent' : row'[b] = row[b]
  BY DEF Sent, Has, Unsent
<1>2. SentOn(BudgetIds, Day(t))' \subseteq SentOn(BudgetIds, Day(t))
  BY DEF SentOn, Has, Unsent, Ids
<1>3. IsFiniteSet(SentOn(BudgetIds, Day(t)))
  BY SentFacts, FS_Subset
<1>4. /\ Cardinality(SentOn(BudgetIds, Day(t)))' \in Nat /\ Cardinality(SentOn(BudgetIds, Day(t))) \in Nat
      /\ Cardinality(SentOn(BudgetIds, Day(t)))' <= Cardinality(SentOn(BudgetIds, Day(t)))
  BY <1>2, <1>3, Part
<1>5. Cardinality(SentOn(BudgetIds, Day(t)))' < HighestCap
  BY <1>4, Paces DEF Room
<1> QED
  BY <1>1, <1>5 DEF Room

LEMMA UnsentPaced ==
  ASSUME RemindersAssumption, IInv, IsFiniteSet(Sent), AttentionIsPaced, Unsent
  PROVE  AttentionIsPaced'
<1>1. /\ \A a \in Has(AttentionIds, "SENT")' : a \in Has(AttentionIds, "SENT") /\ row'[a] = row[a]
      /\ \A b \in Has(Ids, "SENT")' : b \in Has(Ids, "SENT") /\ row'[b] = row[b]
  BY RowsApart DEF Has, Unsent
<1>2. ASSUME NEW a \in Has(AttentionIds, "SENT")'
      PROVE  /\ \A b \in Before(a)' : b \in Before(a) /\ row'[b] = row[b]
             /\ row'[a] = row[a] /\ a \in Has(AttentionIds, "SENT")
  BY <1>1, <1>2 DEF Before
<1>3. Spacing'
  BY <1>2 DEF AttentionIsPaced, Spacing
<1>4. ASSUME NEW a \in Has(AttentionIds, "SENT")'
      PROVE  (Cardinality(Before(a) \cap SentOn(BudgetIds, Day(row[a].sent))) < HighestCap)'
  <2> DEFINE S == Before(a) \cap SentOn(BudgetIds, Day(row[a].sent))
  <2>1. Before(a)' \cap SentOn(BudgetIds, Day(row[a].sent))' \subseteq S
    <3>1. row'[a] = row[a]
      BY <1>2
    <3>2. ASSUME NEW b \in Before(a)', b \in SentOn(BudgetIds, Day(row[a].sent))'
          PROVE  b \in S
      <4>1. b \in Before(a) /\ row'[b] = row[b]
        BY <1>2
      <4>2. b \in BudgetIds /\ row'[b].st = "SENT" /\ Day(row'[b].sent) = Day(row'[a].sent)
        BY <3>2 DEF SentOn, Has, Day
      <4> QED
        BY <3>1, <4>1, <4>2 DEF SentOn, Has
    <3> QED
      BY <3>2
  <2>2. IsFiniteSet(S)
    <3>1. S \subseteq Sent
      BY SentFacts
    <3> QED
      BY <3>1, FS_Subset
  <2>3. Cardinality(S) < HighestCap
    BY <1>2 DEF AttentionIsPaced, WithinBudget
  <2> HIDE DEF S
  <2>4. /\ Cardinality(Before(a)' \cap SentOn(BudgetIds, Day(row[a].sent))') \in Nat
        /\ Cardinality(S) \in Nat
        /\ Cardinality(Before(a)' \cap SentOn(BudgetIds, Day(row[a].sent))') <= Cardinality(S)
    BY <2>1, <2>2, Part
  <2>5. Cardinality(Before(a)' \cap SentOn(BudgetIds, Day(row[a].sent))') < HighestCap
    BY <2>3, <2>4, Paces
  <2> QED
    BY <2>5
<1>5. WithinBudget'
  BY <1>4 DEF WithinBudget
<1> QED
  BY <1>3, <1>5 DEF AttentionIsPaced

(* A step that sends nothing.                                               *)
LEMMA UnsentStep ==
  ASSUME RemindersAssumption, IInv, Pacing, Unsent, now' = now,
         \A w \in Workers : Paced(worker'[w])
  PROVE  Pacing'
<1>1. Sent' \subseteq Sent /\ \A b \in Sent' : row'[b] = row[b]
  BY DEF Sent, Has, Unsent
<1>2. IsFiniteSet(Sent')
  BY <1>1, FS_Subset DEF Pacing
<1>3. \A b \in Sent' : row'[b].sent <= now'
  BY <1>1 DEF Pacing
<1>4. ASSUME NEW w \in Workers PROVE Paced(worker[w])'
  <2>1. Paced(worker'[w])
    OBVIOUS
  <2>2. PICK n : n = now
    OBVIOUS
  <2>3. PICK t : t = worker'[w].at
    OBVIOUS
  <2>4. Room(n) => Room(n)'
    BY UnsentRoom DEF Pacing
  <2>5. Room(t) => Room(t)'
    BY UnsentRoom DEF Pacing
  <2>6. Room(now) => Room(now)'
    BY <2>2, <2>4 DEF Room
  <2>7. Room(worker'[w].at) => Room(worker[w].at)'
    BY <2>3, <2>5 DEF Room
  <2> QED
    BY <1>1, <2>1, <2>6, <2>7 DEF Paced
<1>5. AttentionIsPaced'
  BY UnsentPaced DEF Pacing
<1> QED
  BY <1>2, <1>3, <1>4, <1>5 DEF Pacing

(* The clock: on a new day nothing has been sent yet.                       *)
LEMMA TickPaced ==
  ASSUME RemindersAssumption, IInv, Pacing, Tick
  PROVE  Pacing'
<1>1. /\ now' = now + 1 /\ row' = row /\ worker' = worker /\ now \in Nat
      /\ DayLength \in Nat \ {0}
  BY SentFacts, Bounds DEF Tick
<1>2. Sent' = Sent /\ AttentionIsPaced'
  <2>1. Unsent
    BY <1>1 DEF Unsent
  <2>2. AttentionIsPaced'
    BY <2>1, UnsentPaced DEF Pacing
  <2> QED
    BY <1>1, <2>2 DEF Sent, Has
<1>3. \A b \in Sent' : row'[b].sent <= now'
  BY <1>1, <1>2, SentFacts DEF Pacing
<1>4. ASSUME Room(now) PROVE Room(now')
  <2>1. \A b \in Sent : row[b].sent + LeastGap <= now'
    BY <1>1, <1>4, SentFacts, Paces DEF Room
  <2>2. CASE Day(now') = Day(now)
    BY <1>4, <2>1, <2>2 DEF Room
  <2>3. CASE Day(now') # Day(now)
    <3>1. Day(now) < Day(now')
      <4>1. now \div DayLength <= (now + 1) \div DayLength
        BY <1>1
      <4> QED
        BY <1>1, <2>3, <4>1 DEF Day
    <3>2. ASSUME NEW b \in Sent PROVE Day(row[b].sent) # Day(now')
      <4>1. row[b].sent \in Nat /\ row[b].sent <= now
        BY SentFacts DEF Pacing
      <4>2. row[b].sent \div DayLength <= now \div DayLength
        BY <1>1, <4>1
      <4> QED
        BY <1>1, <3>1, <4>1, <4>2 DEF Day
    <3>3. SentOn(BudgetIds, Day(now')) = {}
      BY <3>2 DEF SentOn, Has, Sent, Ids
    <3>4. Cardinality(SentOn(BudgetIds, Day(now))) \in Nat
      BY SentFacts, Part DEF Pacing
    <3>5. 0 < HighestCap
      BY <1>4, <3>4, Paces DEF Room
    <3>6. Cardinality(SentOn(BudgetIds, Day(now'))) = 0
      BY <3>3, FS_EmptySet
    <3> QED
      BY <2>1, <3>5, <3>6 DEF Room
  <2> QED
    BY <2>2, <2>3
<1>5. ASSUME NEW w \in Workers PROVE Paced(worker[w])'
  <2>1. PICK n : n = now'
    OBVIOUS
  <2>2. PICK t : t = worker[w].at
    OBVIOUS
  <2>3. Unsent
    BY <1>1 DEF Unsent
  <2>4. Room(n) => Room(n)'
    BY <2>3, UnsentRoom DEF Pacing
  <2>5. Room(t) => Room(t)'
    BY <2>3, UnsentRoom DEF Pacing
  <2>6. Room(now) => Room(now)'
    BY <1>4, <2>1, <2>4 DEF Room
  <2>7. Room(worker[w].at) => Room(worker[w].at)'
    BY <1>1, <2>2, <2>5 DEF Room
  <2> QED
    BY <1>1, <1>2, <2>6, <2>7 DEF Paced, Pacing
<1> QED
  BY <1>1, <1>2, <1>3, <1>5 DEF Pacing

(* A message is booked at the moment Telegram took it: after everything     *)
(* that is out, and in the room it had.                                     *)
LEMMA BookedPaced ==
  ASSUME RemindersAssumption, IInv, Pacing, NEW x \in Ids, row[x].st # "SENT", NEW at \in Nat,
         \A b \in Sent : row[b].sent <= at, x \in AttentionIds => Room(at),
         row'[x].st = "SENT", row'[x].sent = at, \A id \in Ids \ {x} : row'[id] = row[id]
  PROVE  AttentionIsPaced'
<1>1. /\ Sent' = Sent \cup {x} /\ x \notin Sent
      /\ \A a \in Has(AttentionIds, "SENT")' : a = x \/ a \in Has(AttentionIds, "SENT")
      /\ Has(AttentionIds, "SENT") \subseteq Sent
  BY RowsApart DEF Sent, Has
<1>2. \A b \in Sent : row'[b] = row[b]
  BY <1>1, SentFacts
<1>3. ASSUME NEW a \in Has(AttentionIds, "SENT")', a = x
      PROVE  /\ Before(a)' \subseteq Sent /\ Room(at)
  BY <1>1, <1>3 DEF Before, Has, Sent
<1>4. ASSUME NEW a \in Has(AttentionIds, "SENT")', a # x
      PROVE  /\ a \in Has(AttentionIds, "SENT") /\ a \in Sent /\ row'[a] = row[a]
             /\ \A b \in Before(a)' : b # x => b \in Before(a) /\ row'[b] = row[b]
             /\ x \in Before(a)' => x \in AttentionIds /\ row[a].sent = at
  <2>1. a \in Has(AttentionIds, "SENT") /\ a \in Sent /\ row'[a] = row[a]
    BY <1>1, <1>2, <1>4
  <2>2. ASSUME NEW b \in Before(a)', b # x PROVE b \in Before(a) /\ row'[b] = row[b]
    <3>1. b \in Sent
      BY <1>1, <2>2 DEF Before, Sent
    <3> QED
      BY <1>2, <2>1, <2>2, <3>1 DEF Before, Sent
  <2>3. ASSUME x \in Before(a)' PROVE x \in AttentionIds /\ row[a].sent = at
    <3>1. row[a].sent \in Nat /\ row[a].sent <= at
      BY <2>1, SentFacts
    <3>2. \/ row'[x].sent < row'[a].sent
          \/ x \in AttentionIds /\ row'[x].sent = row'[a].sent
      BY <2>3 DEF Before
    <3> QED
      BY <2>1, <3>1, <3>2
  <2> QED
    BY <2>1, <2>2, <2>3
<1>5. Spacing'
  <2> SUFFICES ASSUME NEW a \in Has(AttentionIds, "SENT")', NEW b \in Before(a)'
               PROVE  row'[b].sent + LeastGap <= row'[a].sent
    BY DEF Spacing
  <2>1. CASE a = x
    BY <1>2, <1>3, <2>1 DEF Room
  <2>2. CASE a # x /\ b # x
    BY <1>4, <2>2 DEF Pacing, AttentionIsPaced, Spacing
  <2>3. CASE a # x /\ b = x
    <3>1. Room(at) /\ row[a].sent = at /\ a \in Sent /\ row'[a] = row[a]
      BY <1>4, <2>3
    <3>2. at + LeastGap <= at
      BY <3>1 DEF Room
    <3> QED
      BY <2>3, <3>1, <3>2
  <2> QED
    BY <2>1, <2>2, <2>3
<1>6. ASSUME NEW a \in Has(AttentionIds, "SENT")'
      PROVE  Cardinality(Before(a)' \cap SentOn(BudgetIds, Day(row[a].sent))') < HighestCap
  <2> DEFINE After == Before(a)' \cap SentOn(BudgetIds, Day(row[a].sent))'
             Today == SentOn(BudgetIds, Day(at))
  <2>1. IsFiniteSet(Today) /\ Cardinality(Today) \in Nat
    BY SentFacts, Part DEF Pacing
  <2>2. CASE a = x
    <3>1. After \subseteq Today
      <4> SUFFICES ASSUME NEW b \in After PROVE b \in Today
        OBVIOUS
      <4>1. b \in Sent /\ row'[b] = row[b]
        BY <1>2, <1>3, <2>2
      <4>2. b \in BudgetIds /\ row'[b].st = "SENT" /\ Day(row'[b].sent) = Day(at)
        BY <2>2 DEF SentOn, Has, Day
      <4> QED
        BY <4>1, <4>2 DEF SentOn, Has
    <3>2. Cardinality(Today) < HighestCap
      BY <1>3, <2>2 DEF Room
    <3> HIDE DEF After, Today
    <3>3. Cardinality(After) \in Nat /\ Cardinality(After) <= Cardinality(Today)
      BY <2>1, <3>1, Part
    <3> HIDE DEF After
    <3>4. Cardinality(After) < HighestCap
      BY <2>1, <3>2, <3>3, Paces
    <3> QED
      BY <3>4 DEF After
  <2>3. CASE a # x /\ x \notin Before(a)'
    <3> DEFINE S == Before(a) \cap SentOn(BudgetIds, Day(row[a].sent))
    <3>1. After \subseteq S
      <4> SUFFICES ASSUME NEW b \in After PROVE b \in S
        OBVIOUS
      <4>1. b \in Before(a) /\ row'[b] = row[b] /\ row'[a] = row[a]
        BY <1>4, <2>3
      <4>2. b \in BudgetIds /\ row'[b].st = "SENT" /\ Day(row'[b].sent) = Day(row'[a].sent)
        BY DEF SentOn, Has, Day
      <4> QED
        BY <4>1, <4>2 DEF SentOn, Has
    <3>2. S \subseteq Sent
      BY SentFacts
    <3>3. Cardinality(S) < HighestCap
      BY <1>4, <2>3 DEF Pacing, AttentionIsPaced, WithinBudget
    <3> HIDE DEF After, S
    <3>4. IsFiniteSet(S)
      BY <3>2, Part DEF Pacing
    <3>5. Cardinality(After) \in Nat /\ Cardinality(S) \in Nat /\ Cardinality(After) <= Cardinality(S)
      BY <3>1, <3>4, Part
    <3>6. Cardinality(After) < HighestCap
      BY <3>3, <3>5, Paces
    <3> QED
      BY <3>6 DEF After
  <2>4. CASE a # x /\ x \in Before(a)'
    <3>1. /\ Room(at) /\ row[a].sent = at /\ a \in Sent /\ row'[a] = row[a]
          /\ a \in AttentionIds /\ row[a].st = "SENT"
      BY <1>4, <2>4 DEF Has
    <3>2. a \in Today /\ a \notin After
      BY <3>1 DEF SentOn, Has, BudgetIds, Before
    <3>3. After \subseteq (Today \ {a}) \cup {x}
      <4> SUFFICES ASSUME NEW b \in After, b # x PROVE b \in Today
        BY <3>2
      <4>1. b \in Before(a) /\ row'[b] = row[b]
        BY <1>4, <2>4
      <4>2. b \in BudgetIds /\ row'[b].st = "SENT" /\ Day(row'[b].sent) = Day(row'[a].sent)
        BY DEF SentOn, Has, Day
      <4> QED
        BY <3>1, <4>1, <4>2 DEF SentOn, Has
    <3>4. Cardinality(Today) < HighestCap
      BY <3>1 DEF Room
    <3> HIDE DEF After, Today
    <3>5. /\ IsFiniteSet(Today \ {a}) /\ Cardinality(Today \ {a}) = Cardinality(Today) - 1
      BY <2>1, <3>2, FS_RemoveElement
    <3>6. /\ IsFiniteSet((Today \ {a}) \cup {x})
          /\ Cardinality((Today \ {a}) \cup {x}) <= Cardinality(Today)
      <4>1. Cardinality((Today \ {a}) \cup {x})
              = IF x \in Today \ {a} THEN Cardinality(Today \ {a}) ELSE Cardinality(Today \ {a}) + 1
        BY <3>5, FS_AddElement
      <4> QED
        BY <2>1, <3>5, <4>1, FS_AddElement
    <3>7. /\ Cardinality(After) \in Nat /\ Cardinality((Today \ {a}) \cup {x}) \in Nat
          /\ Cardinality(After) <= Cardinality((Today \ {a}) \cup {x})
      BY <3>3, <3>6, Part
    <3>8. Cardinality(After) < HighestCap
      BY <2>1, <3>4, <3>6, <3>7, Paces
    <3> QED
      BY <3>8 DEF After
  <2> QED
    BY <2>2, <2>3, <2>4
<1>7. WithinBudget'
  BY <1>6 DEF WithinBudget
<1> QED
  BY <1>5, <1>7 DEF AttentionIsPaced

(* What a step writes, other than the booking of a message, sends nothing.  *)
LEMMA NothingSent ==
  ASSUME RemindersAssumption, IInv,
         \/ row' = row
         \/ \E S : row' = Cancelled(S)
         \/ \E S : row' = Defer(row, S)
         \/ \E id, new : new.st # "SENT" /\ row' = [row EXCEPT ![id] = new]
         \/ \E S, id : row' = [Cancelled(S) EXCEPT ![id] = Claimed(id)]
  PROVE  Unsent
<1>1. row \in [Ids -> RowType] /\ \A id \in Ids : Closed(id, "CANCELLED").st = "CANCELLED"
  BY DEF IInv, Types, Closed, RowType
<1>2. \A S : Cancelled(S) = [id \in Ids |-> IF id \in S THEN Closed(id, "CANCELLED") ELSE row[id]]
  BY DEF Cancelled
<1>3. CASE \E S : row' = Cancelled(S)
  BY <1>1, <1>2, <1>3 DEF Unsent
<1>4. CASE \E S : row' = Defer(row, S)
  <2>1. PICK S : row' = Defer(row, S)
    BY <1>4
  <2>2. \A id \in Ids : row'[id] = IF id \in S /\ row[id].st = "NONE"
                                  THEN [row[id] EXCEPT !.st = "PENDING"] ELSE row[id]
    BY <2>1 DEF Defer
  <2>3. \A id \in Ids : [row[id] EXCEPT !.st = "PENDING"].st = "PENDING"
    BY <1>1 DEF RowType
  <2> QED
    BY <2>2, <2>3 DEF Unsent
<1>5. CASE \E id, new : new.st # "SENT" /\ row' = [row EXCEPT ![id] = new]
  BY <1>1, <1>5 DEF Unsent
<1>6. CASE \E S, id : row' = [Cancelled(S) EXCEPT ![id] = Claimed(id)]
  <2>1. PICK S, id : row' = [Cancelled(S) EXCEPT ![id] = Claimed(id)]
    BY <1>6
  <2>2. Claimed(id).st = "CLAIMED"
    BY DEF Claimed
  <2>3. \A o \in Ids : row'[o] = IF o = id THEN Claimed(id)
                                ELSE IF o \in S THEN Closed(o, "CANCELLED") ELSE row[o]
    BY <1>2, <2>1
  <2> QED
    BY <1>1, <2>2, <2>3 DEF Unsent
<1> QED
  BY <1>3, <1>4, <1>5, <1>6 DEF Unsent

LEMMA UserSendsNothing ==
  ASSUME RemindersAssumption, IInv, UserStep
  PROVE  Unsent /\ worker' = worker /\ now' = now
<1>1. row \in [Ids -> RowType]
  BY DEF IInv, Types
<1>2. ASSUME NEW i \in Items, NEW id \in Ids
      PROVE  WithoutSnoozes(i)[id] \in RowType
             /\ (WithoutSnoozes(i)[id].st = "SENT" => WithoutSnoozes(i)[id] = row[id])
  <2>1. LET new == [row[id] EXCEPT !.st = "CANCELLED"] IN new \in RowType /\ new.st = "CANCELLED"
    BY <1>1 DEF RowType, Statuses
  <2>2. WithoutSnoozes(i)[id] = [row[id] EXCEPT !.st = "CANCELLED"] \/ WithoutSnoozes(i)[id] = row[id]
    BY DEF WithoutSnoozes
  <2> QED
    BY <1>1, <2>1, <2>2
<1>3. CASE \E i \in Items : CancelSnooze(i) \/ Resolve(i) \/ Dismiss(i)
  BY <1>2, <1>3 DEF CancelSnooze, Resolve, Dismiss, Unsent
<1>4. ASSUME NEW i \in Items, NEW t, SnoozeItem(i, t)
      PROVE  Unsent /\ worker' = worker /\ now' = now
  <2>1. worker' = worker /\ now' = now /\ row' = AddSnooze(WithoutSnoozes(i), Snooze(i, t))
    BY <1>4 DEF SnoozeItem, OnlyItems
  <2> DEFINE r == WithoutSnoozes(i)
  <2>2. \A id \in Ids : r[id] \in RowType /\ (r[id].st = "SENT" => r[id] = row[id])
    BY <1>2
  <2>3. r = [id \in Ids |-> r[id]]
    BY DEF WithoutSnoozes
  <2> HIDE DEF r
  <2>4. ASSUME NEW id \in Ids, row'[id].st = "SENT" PROVE row'[id] = row[id]
    <3>1. CASE AddSnooze(r, Snooze(i, t))[id] = r[id]
      BY <2>1, <2>2, <2>4, <3>1 DEF r
    <3>2. CASE AddSnooze(r, Snooze(i, t))[id] = [r[id] EXCEPT !.st = "PENDING", !.sent = 0]
      <4>1. [r[id] EXCEPT !.st = "PENDING", !.sent = 0].st = "PENDING"
        BY <2>2 DEF RowType
      <4>2. row'[id].st = "PENDING"
        BY <2>1, <3>2, <4>1 DEF r
      <4> QED
        BY <2>4, <4>2
    <3>3. AddSnooze(r, Snooze(i, t))[id] \in {r[id], [r[id] EXCEPT !.st = "PENDING", !.sent = 0]}
      BY <2>3 DEF AddSnooze
    <3> QED
      BY <3>1, <3>2, <3>3
  <2> QED
    BY <2>1, <2>4 DEF Unsent
<1>5. CASE \E new \in Settings : ChangeSettings(new)
  BY <1>5 DEF ChangeSettings, Unsent
<1> QED
  BY <1>3, <1>4, <1>5 DEF UserStep

(* The last look finds room.                                                *)
LEMMA OpenGate ==
  ASSUME RemindersAssumption, IInv, Pacing, NEW own, Blocked(now, own) = "none"
  PROVE  Room(now)
<1>1. BudgetUsed(now) < DailyCap[Level] /\ ~Within(GapIds, MinGap[Level], now)
  <2>1. Cardinality(SentOn(BudgetIds, Day(now))) \in Nat /\ DailyCap[Level] \in Nat
    BY SentFacts, Paces, Part DEF Pacing
  <2> QED
    BY <2>1 DEF Blocked, BudgetUsed
<1>2. Cardinality(SentOn(BudgetIds, Day(now))) < HighestCap
  <2>1. Cardinality(SentOn(BudgetIds, Day(now))) \in Nat
    BY SentFacts, Part DEF Pacing
  <2> QED
    BY <1>1, <2>1, Paces DEF BudgetUsed
<1>3. ASSUME NEW b \in Sent PROVE row[b].sent + LeastGap <= now
  <2>1. ~(now < row[b].sent + MinGap[Level])
    BY <1>1 DEF Within, GapIds, Sent
  <2> QED
    BY <2>1, SentFacts, Paces
<1> QED
  BY <1>2, <1>3 DEF Room

LEMMA WorkerPaced ==
  ASSUME RemindersAssumption, OneProcess, IInv, Pacing, NEW w \in Workers, WorkerStep(w)
  PROVE  Pacing'
<1>1. /\ worker \in [Workers -> WorkerType] /\ worker[w] \in WorkerType /\ row \in [Ids -> RowType]
      /\ Paced(worker[w]) /\ now \in Nat
  BY SentFacts DEF IInv, Types, Pacing
<1>2. ASSUME Unsent, now' = now, Paced(worker'[w])
      PROVE  Pacing'
  BY <1>2, UnsentStep DEF OneProcess
<1>3. ASSUME worker'[w].pc \notin {"sending", "accepted"}
      PROVE  Paced(worker'[w])
  BY <1>3 DEF Paced
<1>4. ASSUME NEW pc, Goto(w, pc)
      PROVE  worker'[w].pc = pc /\ worker'[w].id = worker[w].id /\ worker'[w].at = worker[w].at
  BY <1>1, <1>4 DEF Goto, WorkerType
<1>5. ASSUME Rest(w) PROVE worker'[w].pc = "idle"
  BY <1>1, <1>5 DEF Rest, Idle
<1>6. ASSUME EnterSnoozes(w) PROVE worker'[w].pc = "snoozes"
  BY <1>1, <1>6 DEF EnterSnoozes, Idle
<1>7. ASSUME NEW id, Later(w, id) PROVE worker'[w].pc = worker[w].pc
  BY <1>1, <1>7 DEF Later, WorkerType
<1>8. ASSUME NEW pc, NEW id, Holding(w, pc, id)
      PROVE  worker'[w].pc = pc /\ worker'[w].id = id
  BY <1>1, <1>8 DEF Holding, WorkerType
<1>9. ASSUME NextPhase(w) PROVE worker'[w].pc \in {"idle", "snoozes"}
  <2>1. CASE worker' = [worker EXCEPT ![w] = [Idle EXCEPT
                  !.pc = "snoozes", !.at = worker[w].at, !.todo = worker[w].todo]]
    BY <1>1, <2>1 DEF Idle
  <2> QED
    BY <1>5, <1>6, <1>9, <2>1 DEF NextPhase
<1>10. CASE \/ StartCycle(w) \/ LeaveSnoozes(w) \/ Onwards(w) \/ Precheck(w) \/ CancelDoomed(w)
  <2>1. now' = now /\ Unsent
    <3>1. row' = row \/ \E S : row' = Cancelled(S)
      BY <1>10 DEF StartCycle, LeaveSnoozes, Onwards, Precheck, CancelDoomed, OnlyWorker
    <3>2. now' = now
      BY <1>10 DEF StartCycle, LeaveSnoozes, Onwards, Precheck, CancelDoomed, OnlyWorker, OnlyRows
    <3> QED
      BY <3>1, <3>2, NothingSent
  <2>2. worker'[w].pc \notin {"sending", "accepted"}
    <3>1. ASSUME Onwards(w) PROVE worker'[w].pc = worker[w].next
      BY <1>1, <3>1 DEF Onwards, Idle
    <3>2. ASSUME Precheck(w) PROVE worker'[w].pc \in {"doomed", "idle", "claim"}
      <4>1. ASSUME NEW id, worker' = [worker EXCEPT ![w] =
                       [Idle EXCEPT !.pc = "doomed", !.id = id, !.gen = row[id].gen]]
            PROVE  worker'[w].pc = "doomed"
        BY <1>1, <4>1 DEF Idle
      <4> QED
        BY <1>4, <1>5, <3>2, <4>1 DEF Precheck
    <3> QED
      BY <1>1, <1>4, <1>5, <1>10, <3>1, <3>2
      DEF StartCycle, LeaveSnoozes, CancelDoomed, WorkerType
  <2> QED
    BY <1>2, <1>3, <2>1, <2>2
<1>11. CASE ProcessDigest(w)
  <2>1. now' = now
    BY <1>11 DEF ProcessDigest, OnlyRows
  <2>2. CASE EnterSnoozes(w) /\ (row' = row \/ \E S : row' = Defer(row, S))
    <3>1. Unsent
      BY <2>2, NothingSent
    <3> QED
      BY <1>2, <1>3, <1>6, <2>1, <2>2, <3>1
  <2>3. ASSUME NEW d \in Days, row' = [row EXCEPT ![Digest(d)] = Claimed(Digest(d))],
               Holding(w, "sending", Digest(d))
        PROVE  Pacing'
    <3>1. Claimed(Digest(d)).st # "SENT"
      BY DEF Claimed
    <3>2. Unsent
      BY <2>3, <3>1, NothingSent
    <3>3. Digest(d) \notin AttentionIds
      BY Names, RowsApart
    <3>4. Paced(worker'[w])
      BY <1>8, <2>3, <3>3 DEF Paced
    <3> QED
      BY <1>2, <2>1, <3>2, <3>4
  <2>4. TargetDates \subseteq Days
    BY DEF TargetDates, PendingDates
  <2> QED
    BY <1>11, <2>2, <2>3, <2>4 DEF ProcessDigest
<1>12. ASSUME NEW id \in SnoozeIds, ClaimSnooze(w, id) PROVE Pacing'
  <2>1. worker[w].pc = "snoozes" /\ id \in Ids /\ id \notin AttentionIds /\ now' = now
    BY <1>12, RowsApart DEF ClaimSnooze, NextSnooze
  <2>2. CASE Later(w, id) /\ (row' = row \/ row' = [row EXCEPT ![id].st = "CANCELLED"])
    <3>1. [row[id] EXCEPT !.st = "CANCELLED"].st # "SENT"
      BY <1>1, <2>1 DEF RowType
    <3>2. Unsent
      BY <2>2, <3>1, NothingSent
    <3> QED
      BY <1>2, <1>3, <1>7, <2>1, <2>2, <3>2
  <2>3. CASE /\ row' = [row EXCEPT ![id] = Claimed(id)]
             /\ worker' = [worker EXCEPT
                  ![w] = [@ EXCEPT !.pc = "sending", !.id = id, !.gen = row[id].gen + 1,
                                   !.claimed = now, !.tries = 0, !.todo = worker[w].todo \ {id}]]
    <3>1. worker'[w].id = id /\ worker'[w].pc = "sending"
      BY <1>1, <2>3 DEF WorkerType
    <3>2. Claimed(id).st # "SENT"
      BY DEF Claimed
    <3>3. Unsent
      BY <2>3, <3>2, NothingSent
    <3>4. Paced(worker'[w])
      BY <2>1, <3>1 DEF Paced
    <3> QED
      BY <1>2, <2>1, <3>3, <3>4
  <2> QED
    BY <1>12, <2>2, <2>3 DEF ClaimSnooze, rows
<1>13. CASE \E R \in SUBSET RankedItems, facts \in FactsLeft : Select(w, R, facts)
  <2>1. row' = row /\ now' = now
    BY <1>13 DEF Select, OnlyWorker, OnlyRows
  <2>2. worker'[w].pc \in {"idle", "cancel"}
    <3>1. ASSUME NEW next, NEW todo, worker' = [worker EXCEPT ![w] =
                     [Idle EXCEPT !.pc = "cancel", !.next = next, !.todo = todo]]
          PROVE  worker'[w].pc = "cancel"
      BY <1>1, <3>1 DEF Idle
    <3> QED
      BY <1>5, <1>13, <3>1 DEF Select
  <2>3. Unsent
    BY <2>1, NothingSent
  <2> QED
    BY <1>2, <1>3, <2>1, <2>2, <2>3
<1>14. CASE \E id \in AttentionIds, gen \in 1..MaxGeneration : CancelStale(w, id, gen)
  <2>1. (row' = row \/ \E S : row' = Cancelled(S)) /\ now' = now
    BY <1>14 DEF CancelStale, OnlyRows
  <2>2. worker'[w].pc = "cancel"
    BY <1>7, <1>14 DEF CancelStale
  <2>3. Unsent
    BY <2>1, NothingSent
  <2> QED
    BY <1>2, <1>3, <2>1, <2>2, <2>3
<1>15. CASE \/ \E R \in SUBSET RankedItems, facts \in FactsLeft : ClaimMotivation(w, R, facts)
            \/ \E R \in SUBSET RankedItems : ClaimProactive(w, R)
  <2>1. now' = now /\ (Rest(w) \/ \E id : Holding(w, "prepare", id))
    BY <1>15 DEF ClaimMotivation, ClaimProactive, OnlyRows
  <2>2. \/ row' = row
        \/ \E S : row' = Cancelled(S)
        \/ \E S, id : row' = [Cancelled(S) EXCEPT ![id] = Claimed(id)]
    BY <1>15 DEF ClaimMotivation, ClaimProactive, CancelUnless
  <2>3. Unsent
    BY <2>2, NothingSent
  <2> QED
    BY <1>2, <1>3, <1>5, <1>8, <2>1, <2>3
<1>16. CASE \E R \in SUBSET RankedItems, facts \in FactsLeft : Prepare(w, R, facts)
  <2>1. CASE Rest(w) /\ (row' = row \/ \E S : row' = Cancelled(S)) /\ now' = now
    <3>1. Unsent
      BY <2>1, NothingSent
    <3> QED
      BY <1>2, <1>3, <1>5, <2>1, <3>1
  <2>2. CASE Blocked(now, {worker[w].id}) = "none" /\ row' = row /\ Goto(w, "sending") /\ now' = now
    <3>1. Unsent
      BY <2>2, NothingSent
    <3>2. Room(now)
      BY <2>2, OpenGate
    <3> QED
      BY <1>2, <1>4, <2>2, <3>1, <3>2 DEF Paced
  <2> QED
    BY <1>16, <2>1, <2>2 DEF Prepare, CancelUnless, OnlyRows
<1>17. CASE Accepted(w)
  <2>1. worker[w].pc = "sending" /\ row' = row /\ now' = now
    BY <1>17 DEF Accepted, OnlySend
  <2>2. worker'[w].id = worker[w].id /\ worker'[w].pc = "accepted" /\ worker'[w].at = now
    BY <1>1, <1>17 DEF Accepted, WorkerType
  <2>3. Paced(worker'[w])
    BY <1>1, <2>1, <2>2 DEF Paced, Pacing
  <2>4. Unsent
    BY <2>1, NothingSent
  <2> QED
    BY <1>2, <2>1, <2>3, <2>4
<1>18. CASE (\E out \in BOOLEAN : AttemptFails(w, out)) \/ DeadlinePasses(w)
  <2>1. worker[w].pc = "sending" /\ row' = row /\ now' = now
    BY <1>18 DEF AttemptFails, DeadlinePasses, OnlySend, OnlyWorker, OnlyRows
  <2>2. worker'[w].id = worker[w].id /\ worker'[w].pc \in {"sending", "failed"}
    <3>1. CASE \E out \in BOOLEAN : AttemptFails(w, out)
      BY <1>1, <3>1 DEF AttemptFails, WorkerType
    <3>2. CASE DeadlinePasses(w)
      BY <1>4, <3>2 DEF DeadlinePasses
    <3> QED
      BY <1>18, <3>1, <3>2
  <2>3. Paced(worker'[w])
    BY <1>1, <2>1, <2>2 DEF Paced
  <2>4. Unsent
    BY <2>1, NothingSent
  <2> QED
    BY <1>2, <2>1, <2>3, <2>4
<1>19. CASE MarkFailed(w)
  <2>1. worker[w].id \in Ids /\ NextPhase(w) /\ now' = now
    BY <1>19 DEF MarkFailed, IInv, WorkersFine, Fine, Senders, OnlyRows
  <2>2. Closed(worker[w].id, "FAILED").st # "SENT"
    BY <1>1, <2>1 DEF Closed, RowType
  <2>3. row' = row \/ row' = [row EXCEPT ![worker[w].id] = Closed(worker[w].id, "FAILED")]
    BY <1>19 DEF MarkFailed
  <2>4. Unsent
    BY <2>2, <2>3, NothingSent
  <2> QED
    BY <1>2, <1>3, <1>9, <2>1, <2>4
<1>20. CASE Finalize(w)
  <2> DEFINE x == worker[w].id
             at == worker[w].at
  <2>1. x \in Ids /\ NextPhase(w) /\ now' = now /\ worker[w].pc = "accepted" /\ at \in Nat
        /\ at <= now /\ worker'[w].pc \in {"idle", "snoozes"}
    BY <1>1, <1>9, <1>20 DEF Finalize, IInv, WorkersFine, Fine, Senders, OnlyRows, WorkerType
  <2>2. CASE ~Owns(w)
    <3>1. Unsent
      BY <1>20, <2>2, NothingSent DEF Finalize
    <3> QED
      BY <1>2, <1>3, <2>1, <3>1
  <2>3. CASE Owns(w)
    <3>1. row[x].st = "CLAIMED" /\ row' = [row EXCEPT ![x] = Delivered(x, at)]
      BY <1>20, <2>3 DEF Finalize, Owns
    <3>2. Delivered(x, at).st = "SENT" /\ Delivered(x, at).sent = at
      BY <1>1, <2>1 DEF Delivered, Closed, RowType
    <3>3. /\ row'[x].st = "SENT" /\ row'[x].sent = at /\ \A id \in Ids \ {x} : row'[id] = row[id]
      BY <1>1, <2>1, <3>1, <3>2
    <3>4. (\A b \in Sent : row[b].sent <= at) /\ (x \in AttentionIds => Room(at))
      BY <1>1, <2>1 DEF Paced
    <3> HIDE DEF x, at
    <3>5. AttentionIsPaced'
      BY <2>1, <3>1, <3>3, <3>4, BookedPaced
    <3>6. Sent' = Sent \cup {x}
      BY <2>1, <3>3 DEF Sent, Has
    <3>7. IsFiniteSet(Sent')
      BY <3>6, FS_AddElement DEF Pacing
    <3>8. \A b \in Sent' : row'[b].sent <= now'
      <4>1. \A b \in Sent : b \in Ids /\ (b # x => row'[b] = row[b])
        BY <3>3, SentFacts
      <4> QED
        BY <2>1, <3>3, <3>6, <4>1 DEF Pacing
    <3>9. \A v \in Workers : Paced(worker[v])'
      BY <2>1 DEF Paced, OneProcess
    <3> QED
      BY <3>5, <3>7, <3>8, <3>9 DEF Pacing
  <2> QED
    BY <2>2, <2>3
<1> QED
  BY <1>10, <1>11, <1>12, <1>13, <1>14, <1>15, <1>16, <1>17, <1>18, <1>19, <1>20 DEF WorkerStep

LEMMA PacingStep ==
  ASSUME RemindersAssumption, OneProcess, IInv, Pacing, [Next]_vars
  PROVE  Pacing'
<1>1. CASE \E w \in Workers : WorkerStep(w)
  BY <1>1, WorkerPaced
<1>2. ASSUME NEW w \in Workers, CrashRestart(w) PROVE Pacing'
  <2>1. row' = row /\ now' = now /\ worker'[w].pc = "idle"
    BY <1>2 DEF CrashRestart, Rest, Idle, IInv, Types
  <2>2. \A v \in Workers : Paced(worker'[v])
    BY <2>1 DEF Paced, OneProcess
  <2>3. Unsent
    BY <2>1, NothingSent
  <2> QED
    BY <2>1, <2>2, <2>3, UnsentStep
<1>3. CASE UserStep \/ UNCHANGED vars
  <2>1. Unsent /\ worker' = worker /\ now' = now
    BY <1>3, UserSendsNothing, NothingSent DEF vars
  <2> QED
    BY <2>1, UnsentStep DEF Pacing
<1>4. CASE Tick
  BY <1>4, TickPaced
<1> QED
  BY <1>1, <1>2, <1>3, <1>4 DEF Next

LEMMA PacingInit == ASSUME RemindersAssumption, Init PROVE Pacing
<1>1. Sent = {} /\ Has(AttentionIds, "SENT") = {}
  BY RowsApart DEF Init, Sent, Has, NoRow
<1>2. \A w \in Workers : Paced(worker[w])
  BY IdleFine DEF Init, Paced
<1>3. AttentionIsPaced
  BY <1>1 DEF AttentionIsPaced, Spacing, WithinBudget
<1> QED
  BY <1>1, <1>2, <1>3, FS_EmptySet DEF Pacing

(* One process keeps the least gap before every attention message and stays *)
(* within the highest daily cap, digest included, whatever the user changes *)
(* between the claim and the message and whenever the process dies.         *)
THEOREM PaceKept ==
  ASSUME RemindersAssumption, OneProcess
  PROVE  Spec => []AttentionIsPaced
<1>1. Init => IInv /\ Pacing
  BY InitInvariant, PacingInit
<1>2. IInv /\ Pacing /\ [Next]_vars => (IInv /\ Pacing)'
  BY StepInvariant, PacingStep
<1>3. Pacing => AttentionIsPaced
  BY DEF Pacing
<1> QED
  BY <1>1, <1>2, <1>3, PTL DEF Spec
=============================================================================
