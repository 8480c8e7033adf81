------------------------------ MODULE Reminders ------------------------------
(***************************************************************************)
(* The reminder scheduler of one user (app/services/notifications.py): the *)
(* `reminders` rows of the four kinds, the ReminderWorker that claims,     *)
(* revalidates, sends and finalizes them, and the user who snoozes Items   *)
(* and changes settings meanwhile.  Every action is one transaction, one   *)
(* autocommitted read or one Telegram call.                                *)
(*                                                                         *)
(* Time is counted in ticks, DayLength of them to a local day.  Several    *)
(* workers are several processes ("competing worker attempts", D-031); the *)
(* deployed program has one.  Which Items rank above the threshold and     *)
(* which motivation facts hold changes from read to read and is left open. *)
(***************************************************************************)
EXTENDS Naturals, FiniteSets

CONSTANTS Workers, Items,
          Levels,            \* attention intensities, a subset of 1..5
          DailyCap, GenericCap, MinGap, ItemCooldown,  \* [Levels -> Nat], GenericCap at most 2
          RepeatGap, DismissCooldown,
          Lease, SendWindow, \* PROACTIVE_CLAIM_LEASE, NOTIFICATION_SEND_TIMEOUT
          MaxSendAttempts,
          DayLength, QuietStart, QuietEnd, DigestTime,
          SnoozeDelays,      \* what the snooze keyboard offers
          Settings,          \* what the user may set: [digest, attention, level, generic]
          MaxTime,           \* bound: the clock stops here
          MaxRows,           \* bound: proactive rows of an Item
          MaxGeneration,     \* bound: claims of one row
          MaxActs,           \* bound: acts of the user; ending a snooze or an Item is free
          MaxCrashes, MaxLost,  \* bounds: process deaths, lost replies
          Nil

ASSUME RemindersAssumption ==
    /\ Levels \subseteq 1..5
    /\ {DailyCap, MinGap, ItemCooldown} \subseteq [Levels -> Nat]
    /\ GenericCap \in [Levels -> 0..2]
    /\ {RepeatGap, DismissCooldown, MaxRows, MaxActs, MaxCrashes, MaxLost, MaxGeneration}
          \subseteq Nat
    /\ {MaxTime, Lease, SendWindow, MaxSendAttempts, DayLength} \subseteq Nat \ {0}
    /\ SendWindow < Lease
    /\ {QuietStart, QuietEnd, DigestTime} \subseteq 0..(DayLength - 1)
    /\ SnoozeDelays \subseteq Nat \ {0}
    /\ Settings \subseteq [digest : BOOLEAN, attention : BOOLEAN, level : Levels,
                           generic : BOOLEAN]

VARIABLES now,
          settings,  \* the current one of Settings
          since,     \* daily_digest_enabled_at
          item,      \* [Items -> [state, until]]
          dismissed, \* [Items -> Nat]: latest REMINDER_DISMISSED, 0 for none
          row,       \* [Ids -> [st, gen, claimed, sent]]
          shown,     \* [Ids -> Nat]: messages Telegram accepted
          worker,    \* [Workers -> where it is and what it holds in memory]
          acts, crashes, lost

rows == <<row, item>>
vars == <<now, settings, since, item, dismissed, row, shown, worker, acts, crashes, lost>>

Day(t) == t \div DayLength
Clock(t) == t % DayLength
Days == 0..Day(MaxTime)
Slots == 1..2

Digest(d) == <<"digest", d, 0>>
Motivation(d, s) == <<"motivation", d, s>>
Proactive(i, n) == <<"proactive", i, n>>
Snooze(i, t) == <<"snooze", i, t>>
Times == 1..MaxTime

DigestIds == {Digest(d) : d \in Days}
MotivationIds == {Motivation(d, s) : d \in Days, s \in Slots}
ProactiveIds == {Proactive(i, n) : i \in Items, n \in 1..MaxRows}
SnoozeIds == {Snooze(i, t) : i \in Items, t \in Times}
AttentionIds == MotivationIds \cup ProactiveIds
BudgetIds == DigestIds \cup AttentionIds       \* _BUDGET_REMINDER_TYPES
Ids == BudgetIds \cup SnoozeIds                \* _GAP_, _DELIVERY_CLAIM_TYPES

Statuses == {"NONE", "PENDING", "CLAIMED", "SENT", "FAILED", "CANCELLED"}
NoRow == [st |-> "NONE", gen |-> 0, claimed |-> 0, sent |-> 0]
Idle == [pc |-> "idle", id |-> Nil, gen |-> 0, claimed |-> 0, at |-> 0, tries |-> 0,
         todo |-> {}, next |-> "idle"]

Init == /\ now = 1
        /\ settings \in Settings
        /\ since = 1
        /\ item = [i \in Items |-> [state |-> "ACTIVE", until |-> 0]]
        /\ dismissed = [i \in Items |-> 0]
        /\ row = [id \in Ids |-> NoRow]
        /\ shown = [id \in Ids |-> 0]
        /\ worker = [w \in Workers |-> Idle]
        /\ acts = 0 /\ crashes = 0 /\ lost = 0

-----------------------------------------------------------------------------
(* What the scheduler reads.                                               *)

(* in_quiet_hours, for overnight and same-day windows.                      *)
InQuiet(t) == LET c == Clock(t)
              IN CASE QuietStart = QuietEnd -> TRUE
                   [] QuietStart < QuietEnd -> QuietStart <= c /\ c < QuietEnd
                   [] OTHER -> c >= QuietStart \/ c < QuietEnd

Has(S, st) == {id \in S : row[id].st = st}
Stale(id) == row[id].claimed + Lease <= now

(* Fault: a claim reserves the user until it is settled.                    *)
ActiveClaimForEver(own) == Has(Ids, "CLAIMED") \ own # {}

(* _has_active_notification_claim: some other claim of any kind is live.    *)
ActiveClaim(own) == \E id \in Has(Ids, "CLAIMED") \ own : ~Stale(id)

SentOn(S, d) == {id \in Has(S, "SENT") : Day(row[id].sent) = d}

(* Fault: messages of the digest do not use up the budget.                  *)
BudgetUsedByAttention(t) == Cardinality(SentOn(AttentionIds, Day(t)))
BudgetUsed(t) == Cardinality(SentOn(BudgetIds, Day(t)))

(* The latest message of a kind is less than gap ticks old.                 *)
Within(S, gap, t) == \E id \in Has(S, "SENT") : t < row[id].sent + gap

(* Fault: a resurfaced Item does not anchor the minimum gap.                *)
GapIdsWithoutSnooze == BudgetIds
GapIds == Ids

Level == settings.level

(* _attention_gate, in the order of its tests.                              *)
Blocked(t, own) ==
    IF ~settings.attention THEN "disabled"
    ELSE IF InQuiet(t) THEN "quiet_hours"
    ELSE IF ActiveClaim(own) THEN "delivery_in_progress"
    ELSE IF BudgetUsed(t) >= DailyCap[Level] THEN "daily_cap"
    ELSE IF Within(GapIds, MinGap[Level], t) THEN "minimum_gap" ELSE "none"

Transient == {"quiet_hours", "delivery_in_progress"}

Actionable(i) == item[i].state = "ACTIVE"

(* _proactive_cooldown_active                                              *)
Cooling(i, t) ==
    \/ Within({Proactive(i, n) : n \in 1..MaxRows}, ItemCooldown[Level], t)
    \/ dismissed[i] # 0 /\ t < dismissed[i] + DismissCooldown
Sendable(R, t) == {i \in R : Actionable(i) /\ ~Cooling(i, t)}

(* _generic_motivation_gate: opted in, below the cap, not repeated too soon. *)
GenericUsed(t) == Cardinality(SentOn(MotivationIds, Day(t)))
GenericOpen(t) == /\ settings.generic
                  /\ GenericUsed(t) < GenericCap[Level]
                  /\ ~Within(MotivationIds, RepeatGap, t)

LatestIsProactive ==
    \E id \in Has(ProactiveIds, "SENT") :
        \A other \in Has(AttentionIds, "SENT") : row[other].sent <= row[id].sent

(* _choose_attention_intervention                                          *)
Choice(hasProactive, hasMotivation) ==
    LET preferMotivation == Level > 3 /\ LatestIsProactive
    IN CASE hasProactive /\ (~preferMotivation \/ ~hasMotivation) -> "proactive"
         [] hasMotivation /\ (preferMotivation \/ ~hasProactive) -> "motivation"
         [] OTHER -> "nothing"

-----------------------------------------------------------------------------
(* The rows change in four ways.                                           *)

Claimed(id) == [st |-> "CLAIMED", gen |-> row[id].gen + 1, claimed |-> now, sent |-> 0]
Closed(id, st) == [row[id] EXCEPT !.st = st, !.claimed = 0]
CancelledNot(S) == row    \* fault: nothing is cancelled
Cancelled(S) == [id \in Ids |-> IF id \in S THEN Closed(id, "CANCELLED") ELSE row[id]]

(* The fence of every write after a claim: status and generation.           *)
Owns(w) == LET id == worker[w].id
           IN row[id].st = "CLAIMED" /\ row[id].gen = worker[w].gen

Goto(w, pc) == worker' = [worker EXCEPT ![w].pc = pc]
Rest(w) == worker' = [worker EXCEPT ![w] = Idle]

(* Fault: the id of the claimed row is not kept.                            *)
HoldingNothing(w, pc, id) ==
    worker' = [worker EXCEPT ![w] = [@ EXCEPT !.pc = pc, !.gen = row[id].gen + 1,
                                              !.claimed = now, !.tries = 0]]
Holding(w, pc, id) ==
    worker' = [worker EXCEPT ![w] = [@ EXCEPT !.pc = pc, !.id = id, !.gen = row[id].gen + 1,
                                              !.claimed = now, !.tries = 0]]

OnlyRows == UNCHANGED <<now, settings, since, item, dismissed, shown, acts, crashes, lost>>
OnlyWorker == row' = row /\ OnlyRows

StartCycle(w) == worker[w].pc = "idle" /\ Goto(w, "digest") /\ OnlyWorker

(* The snoozes that are due are listed once; the instant of the list is     *)
(* what they are judged by, however long the sends before them take.        *)
DueSnoozes == {id \in Has(SnoozeIds, "PENDING") : id[3] <= now}
EnterSnoozes(w) ==
    worker' = [worker EXCEPT ![w] = [Idle EXCEPT !.pc = "snoozes", !.at = now,
                                                 !.todo = DueSnoozes]]

-----------------------------------------------------------------------------
(* The daily digest: _process_user                                         *)

Overnight == QuietStart > QuietEnd

(* A digest that falls due in quiet hours leaves a PENDING row for its      *)
(* local date, if the digest was on by then.                                *)
DeferredDates ==
    {d \in Days : /\ \/ Clock(now) >= DigestTime /\ d = Day(now)
                     \/ Overnight /\ Clock(now) < DigestTime /\ Clock(now) < QuietEnd
                        /\ d + 1 = Day(now)
                  /\ since <= d * DayLength + DigestTime}

Defer(r, S) == [id \in Ids |-> IF id \in S /\ r[id].st = "NONE"
                               THEN [r[id] EXCEPT !.st = "PENDING"] ELSE r[id]]

PendingDates == {d \in Days : row[Digest(d)].st = "PENDING"}

(* The date whose digest is sent outside quiet hours: the oldest deferred   *)
(* one, yesterday's if the digest time lies in overnight quiet hours, or    *)
(* today's.                                                                 *)
YesterdaysTurn == /\ PendingDates = {} /\ Overnight
                  /\ InQuiet(DigestTime) /\ Clock(now) >= QuietEnd
TargetDates ==
    IF PendingDates # {}
    THEN {d \in PendingDates : \A other \in PendingDates : d <= other}
    ELSE {d \in Days : IF YesterdaysTurn THEN d + 1 = Day(now)
                       ELSE d = Day(now) /\ Clock(now) >= DigestTime}

(* Fault: an abandoned claim is taken again after its lease.                *)
MayReplayDigest(d) == \/ row[Digest(d)].st \in {"NONE", "PENDING"}
                      \/ row[Digest(d)].st = "CLAIMED" /\ Stale(Digest(d))

(* _claim_digest: a new row, or a deferred one; anything else was sent, or  *)
(* is a claim that is never replayed.                                       *)
MayClaimDigest(d) == row[Digest(d)].st \in {"NONE", "PENDING"}

ProcessDigest(w) ==
    /\ worker[w].pc = "digest"
    /\ \/ /\ ~settings.digest
          /\ EnterSnoozes(w)
          /\ row' = row
       \/ /\ settings.digest /\ InQuiet(now)
          /\ row' = Defer(row, {Digest(d) : d \in DeferredDates})
          /\ EnterSnoozes(w)
       \/ /\ settings.digest /\ ~InQuiet(now)
          /\ LET Targets == TargetDates
                 Wanted == {Digest(d) : d \in Targets}
                 Free == {d \in Targets : MayClaimDigest(d) /\ ~ActiveClaim({})}
             IN \/ /\ Free = {}
                   /\ row' = IF YesterdaysTurn THEN Defer(row, Wanted) ELSE row
                   /\ EnterSnoozes(w)
                \/ \E d \in Free :
                      /\ row[Digest(d)].gen < MaxGeneration
                      /\ row' = [row EXCEPT ![Digest(d)] = Claimed(Digest(d))]
                      /\ Holding(w, "sending", Digest(d))
    /\ OnlyRows

-----------------------------------------------------------------------------
(* Snoozed Items that are due: _process_snoozes, _claim_snooze              *)

Later(w, id) == worker' = [worker EXCEPT ![w].todo = @ \ {id}]

NextSnooze(w, id) ==
    /\ worker[w].pc = "snoozes"
    /\ id \in worker[w].todo
    /\ \A other \in worker[w].todo : id[3] <= other[3]

DueItem(w, i) == item[i].state = "SNOOZED" /\ item[i].until <= worker[w].at

(* Fault: the claim leaves the Item SNOOZED until the message is out.       *)
ClaimSnoozeOnly(w, id) ==
    LET held == row[id].st # "PENDING" \/ ActiveClaim({}) \/ InQuiet(worker[w].at)
    IN /\ NextSnooze(w, id)
       /\ ~held /\ DueItem(w, id[2])
       /\ row' = [row EXCEPT ![id] = Claimed(id)]
       /\ worker' = [worker EXCEPT
              ![w] = [@ EXCEPT !.pc = "sending", !.id = id, !.gen = row[id].gen + 1,
                               !.claimed = now, !.tries = 0, !.todo = worker[w].todo \ {id}]]
       /\ UNCHANGED <<now, settings, since, item, dismissed, shown, acts, crashes, lost>>

(* The Item is ACTIVE again from the claim on, whatever becomes of the      *)
(* message.                                                                 *)
ClaimSnooze(w, id) ==
    LET held == row[id].st # "PENDING" \/ ActiveClaim({}) \/ InQuiet(worker[w].at)
    IN /\ NextSnooze(w, id)
       /\ \/ /\ held
             /\ Later(w, id)
             /\ UNCHANGED rows
          \/ /\ ~held /\ ~DueItem(w, id[2])
             /\ row' = [row EXCEPT ![id].st = "CANCELLED"]
             /\ Later(w, id)
             /\ item' = item
          \/ /\ ~held /\ DueItem(w, id[2])
             /\ row[id].gen < MaxGeneration
             /\ row' = [row EXCEPT ![id] = Claimed(id)]
             /\ item' = [item EXCEPT ![id[2]] = [state |-> "ACTIVE", until |-> 0]]
             /\ worker' = [worker EXCEPT
                    ![w] = [@ EXCEPT !.pc = "sending", !.id = id, !.gen = row[id].gen + 1,
                                     !.claimed = now, !.tries = 0, !.todo = worker[w].todo \ {id}]]
       /\ UNCHANGED <<now, settings, since, dismissed, shown, acts, crashes, lost>>

LeaveSnoozes(w) == /\ worker[w].pc = "snoozes" /\ worker[w].todo = {}
                   /\ Goto(w, "select")
                   /\ OnlyWorker

-----------------------------------------------------------------------------
(* One attention intervention a cycle.                                     *)

Open(S) == Has(S, "CLAIMED")    \* no PENDING row of these kinds is written

(* _process_attention_intervention: one read that decides; the cancels it   *)
(* asks for are transactions of their own, fenced by what was read.         *)
Select(w, R, facts) ==
    LET open == Open(AttentionIds)
        blocked == Blocked(now, {})
        selected == Choice(Sendable(R, now) # {}, facts /\ GenericOpen(now))
        dead == IF blocked = "none" THEN IF selected = "motivation" THEN {} ELSE Open(MotivationIds)
                ELSE IF blocked \in Transient THEN {} ELSE open
        onwards == CASE blocked # "none" -> "idle"
                     [] blocked = "none" /\ selected # "nothing" -> selected
                     [] OTHER -> IF Open(ProactiveIds) # {} THEN "proactive" ELSE "idle"
    IN /\ worker[w].pc = "select"
       /\ \/ (\E id \in open : ~Stale(id)) /\ Rest(w)
          \/ /\ \A id \in open : Stale(id)
             /\ worker' = [worker EXCEPT
                    ![w] = [Idle EXCEPT !.pc = "cancel", !.next = onwards,
                                        !.todo = {<<id, row[id].gen>> : id \in dead}]]
       /\ OnlyWorker

(* _cancel_stale_open_claim, for each of them.                              *)
CancelStale(w, id, gen) ==
    /\ worker[w].pc = "cancel" /\ <<id, gen>> \in worker[w].todo
    /\ row' = IF row[id].st = "CLAIMED" /\ row[id].gen = gen /\ Stale(id)
              THEN Cancelled({id}) ELSE row
    /\ Later(w, <<id, gen>>)
    /\ OnlyRows

Onwards(w) == /\ worker[w].pc = "cancel" /\ worker[w].todo = {}
              /\ worker' = [worker EXCEPT ![w] = [Idle EXCEPT !.pc = worker[w].next]]
              /\ OnlyWorker

(* What a serialized transaction does with the claim it stands on when the  *)
(* gate is closed: nothing if the block is transient, else CANCELLED.       *)
CancelUnless(blocked, S) == row' = IF blocked \in Transient THEN row ELSE Cancelled(S)

(* _claim_motivation_nudge: facts, gate and arbitration again; the row of   *)
(* the day's next slot is taken, or taken over.                             *)
ClaimMotivation(w, R, facts) ==
    LET open == Open(MotivationIds)
        blocked == Blocked(now, open)
        slot == Motivation(Day(now), GenericUsed(now) + 1)
        wins == /\ blocked = "none" /\ facts /\ GenericOpen(now)
                /\ Choice(Sendable(R, now) # {}, TRUE) = "motivation"
    IN /\ worker[w].pc = "motivation"
       /\ \/ (\E id \in open : ~Stale(id)) /\ row' = row /\ Rest(w)
          \/ /\ \A id \in open : Stale(id)
             /\ ~wins
             /\ CancelUnless(blocked, open)
             /\ Rest(w)
          \/ /\ \A id \in open : Stale(id)
             /\ wins /\ row[slot].st = "SENT"
             /\ row' = Cancelled(open \ {slot})
             /\ Rest(w)
          \/ /\ \A id \in open : Stale(id)
             /\ wins /\ row[slot].st # "SENT" /\ row[slot].gen < MaxGeneration
             /\ row' = [Cancelled(open \ {slot}) EXCEPT ![slot] = Claimed(slot)]
             /\ Holding(w, "prepare", slot)
       /\ OnlyRows

(* _process_proactive_attention reads the open claim and the gate, and      *)
(* cancels by id from what it read, without a transaction around both.      *)
Precheck(w) ==
    LET open == Open(ProactiveIds)
        blocked == Blocked(now, open)
        Doomed == {id \in open : IF Stale(id) THEN blocked \notin Transient \cup {"none"}
                                 ELSE blocked = "disabled" \/ ~Actionable(id[2])}
    IN /\ worker[w].pc = "proactive"
       /\ \/ \E id \in Doomed : worker' = [worker EXCEPT
                  ![w] = [Idle EXCEPT !.pc = "doomed", !.id = id, !.gen = row[id].gen]]
          \/ /\ Doomed = {}
             /\ blocked # "none" \/ \E id \in open : ~Stale(id)
             /\ Rest(w)
          \/ /\ blocked = "none" /\ \A id \in open : Stale(id)
             /\ Goto(w, "claim")
       /\ OnlyWorker

CancelDoomed(w) == /\ worker[w].pc = "doomed"
                   /\ row' = Cancelled({worker[w].id})
                   /\ Rest(w)
                   /\ OnlyRows

(* A new row for the Item, after those it has.                              *)
Fresh(i) == {Proactive(i, n) : n \in {m \in 1..MaxRows :
                /\ row[Proactive(i, m)].st = "NONE"
                /\ \A k \in 1..(m - 1) : row[Proactive(i, k)].st # "NONE"}}

(* _claim_proactive_attention: the open claim is recovered while its Item   *)
(* still qualifies, else it is cancelled and the best other Item gets a new *)
(* row.                                                                     *)
ClaimProactive(w, R) ==
    LET open == Open(ProactiveIds)
        blocked == Blocked(now, open)
        Kept == {id \in open : id[2] \in Sendable(R, now)}
        Choices == IF Kept # {} THEN Kept ELSE UNION {Fresh(i) : i \in Sendable(R, now)}
    IN /\ worker[w].pc = "claim"
       /\ \/ /\ blocked # "none"
             /\ CancelUnless(blocked, open)
             /\ Rest(w)
          \/ /\ blocked = "none" /\ \E id \in open : ~Stale(id)
             /\ row' = row
             /\ Rest(w)
          \/ /\ blocked = "none" /\ \A id \in open : Stale(id)
             /\ Sendable(R, now) = {}
             /\ row' = Cancelled(open)
             /\ Rest(w)
          \/ /\ blocked = "none" /\ \A id \in open : Stale(id)
             /\ \E id \in Choices :
                   /\ row[id].gen < MaxGeneration
                   /\ row' = [Cancelled(open \ {id}) EXCEPT ![id] = Claimed(id)]
                   /\ Holding(w, "prepare", id)
       /\ OnlyRows

-----------------------------------------------------------------------------
(* The last look before the message: _prepare_proactive_send,               *)
(* _prepare_motivation_send.                                               *)

StillProactive(id, R) == id[2] \in Sendable(R, now)
StillMotivation(id, R, facts) ==
    /\ id[2] = Day(now) /\ id[3] = GenericUsed(now) + 1
    /\ facts /\ GenericOpen(now)
    /\ Choice(Sendable(R, now) # {}, TRUE) = "motivation"

Prepare(w, R, facts) ==
    LET id == worker[w].id
        blocked == Blocked(now, {id})
        valid == IF id \in ProactiveIds THEN StillProactive(id, R)
                 ELSE StillMotivation(id, R, facts)
    IN /\ worker[w].pc = "prepare"
       /\ \/ /\ ~Owns(w) \/ Stale(id)
             /\ row' = row
             /\ Rest(w)
          \/ /\ Owns(w) /\ ~Stale(id)
             /\ blocked # "none" \/ ~valid
             /\ CancelUnless(blocked, {id})
             /\ Rest(w)
          \/ /\ Owns(w) /\ ~Stale(id)
             /\ blocked = "none" /\ valid
             /\ row' = row
             /\ Goto(w, "sending")
       /\ OnlyRows

-----------------------------------------------------------------------------
(* _send_with_retry: attempts until a deadline anchored to the claim.       *)

InWindow(w) == now < worker[w].claimed + SendWindow

OnlySend == UNCHANGED <<now, settings, since, item, dismissed, row, acts, crashes>>

Accepted(w) ==
    /\ worker[w].pc = "sending" /\ InWindow(w)
    /\ shown' = [shown EXCEPT ![worker[w].id] = @ + 1]
    /\ worker' = [worker EXCEPT ![w] = [@ EXCEPT !.pc = "accepted", !.at = now]]
    /\ lost' = lost
    /\ OnlySend

(* An attempt fails, with the message out (the reply is lost) or not.       *)
AttemptFails(w, out) ==
    /\ worker[w].pc = "sending" /\ InWindow(w)
    /\ out => lost < MaxLost
    /\ shown' = IF out THEN [shown EXCEPT ![worker[w].id] = @ + 1] ELSE shown
    /\ lost' = IF out THEN lost + 1 ELSE lost
    /\ worker' = [worker EXCEPT
           ![w].tries = @ + 1,
           ![w].pc = IF worker[w].tries + 1 = MaxSendAttempts THEN "failed" ELSE @]
    /\ OnlySend

DeadlinePasses(w) == /\ worker[w].pc = "sending" /\ ~InWindow(w)
                     /\ Goto(w, "failed")
                     /\ OnlyWorker

(* After a digest come the snoozes, after a snooze the next one.            *)
NextPhase(w) ==
    \/ worker[w].id \in DigestIds /\ EnterSnoozes(w)
    \/ /\ worker[w].id \in SnoozeIds
       /\ worker' = [worker EXCEPT
             ![w] = [Idle EXCEPT !.pc = "snoozes", !.at = worker[w].at, !.todo = worker[w].todo]]
    \/ worker[w].id \in AttentionIds /\ Rest(w)

(* sent_at is when Telegram answered, not when the row is written.          *)
Delivered(id, at) == [Closed(id, "SENT") EXCEPT !.sent = at]

(* _mark_digest_sent, _mark_snooze_sent, _finalize_motivation_send,         *)
(* _finalize_proactive_send                                                 *)
Finalize(w) ==
    LET id == worker[w].id
    IN /\ worker[w].pc = "accepted"
       /\ row' = IF Owns(w) THEN [row EXCEPT ![id] = Delivered(id, worker[w].at)] ELSE row
       /\ NextPhase(w)
       /\ OnlyRows

(* _mark_failed, _set_proactive_status                                      *)
MarkFailed(w) ==
    LET id == worker[w].id
    IN /\ worker[w].pc = "failed"
       /\ row' = IF Owns(w) THEN [row EXCEPT ![id] = Closed(id, "FAILED")] ELSE row
       /\ NextPhase(w)
       /\ OnlyRows

-----------------------------------------------------------------------------
(* The user.                                                               *)

Act == acts < MaxActs /\ acts' = acts + 1
OnlyItems == UNCHANGED <<now, settings, since, dismissed, shown, worker, crashes, lost>>

(* Fault: an Item's claim in flight is cancelled as well.                   *)
WithoutAnySnooze(i) ==
    [id \in Ids |-> IF id \in SnoozeIds /\ id[2] = i /\ row[id].st \in {"PENDING", "CLAIMED"}
                    THEN Closed(id, "CANCELLED") ELSE row[id]]

(* cancel_snooze_reminders: the PENDING ones of the Item.                   *)
WithoutSnoozes(i) ==
    [id \in Ids |-> IF id \in SnoozeIds /\ id[2] = i /\ row[id].st = "PENDING"
                    THEN [row[id] EXCEPT !.st = "CANCELLED"] ELSE row[id]]

(* add_snooze_reminder: the row of that instant is reopened if it is closed. *)
AddSnooze(r, id) ==
    IF r[id].st \in {"PENDING", "CLAIMED"} THEN r
    ELSE [r EXCEPT ![id] = [@ EXCEPT !.st = "PENDING", !.sent = 0]]

(* The snooze action: the Item, the old rows and the new one in one commit. *)
SnoozeItem(i, t) ==
    /\ item[i].state \in {"ACTIVE", "SNOOZED"} /\ item[i].until # t
    /\ Act
    /\ item' = [item EXCEPT ![i] = [state |-> "SNOOZED", until |-> t]]
    /\ row' = AddSnooze(WithoutSnoozes(i), Snooze(i, t))
    /\ OnlyItems

CancelSnooze(i) ==
    /\ item[i].state = "SNOOZED"
    /\ item' = [item EXCEPT ![i] = [state |-> "ACTIVE", until |-> 0]]
    /\ row' = WithoutSnoozes(i)
    /\ UNCHANGED <<now, settings, since, dismissed, shown, worker, acts, crashes, lost>>

(* done and archive                                                         *)
Resolve(i) ==
    /\ item[i].state \in {"ACTIVE", "SNOOZED"}
    /\ item' = [item EXCEPT ![i] = [state |-> "RESOLVED", until |-> 0]]
    /\ row' = WithoutSnoozes(i)
    /\ UNCHANGED <<now, settings, since, dismissed, shown, worker, acts, crashes, lost>>

(* "Not now" on a delivered proactive reminder.                             *)
Dismiss(i) ==
    /\ \E n \in 1..MaxRows : row[Proactive(i, n)].st = "SENT"
    /\ dismissed[i] # now
    /\ Act
    /\ dismissed' = [dismissed EXCEPT ![i] = now]
    /\ UNCHANGED <<now, settings, since, item, row, shown, worker, crashes, lost>>

(* update_notification_settings_for_user_id                                 *)
ChangeSettings(new) ==
    /\ new # settings
    /\ Act
    /\ settings' = new
    /\ since' = IF new.digest /\ ~settings.digest THEN now ELSE since
    /\ UNCHANGED <<now, item, dismissed, row, shown, worker, crashes, lost>>

-----------------------------------------------------------------------------
Tick == /\ now < MaxTime
        /\ now' = now + 1
        /\ UNCHANGED <<settings, since, item, dismissed, row, shown, worker, acts, crashes, lost>>

(* A process dies and starts again.  Nothing is requeued: a claim it held   *)
(* is left to its lease.  Deaths stop a lease before the clock does.        *)
CrashRestart(w) ==
    /\ crashes < MaxCrashes /\ now + Lease <= MaxTime
    /\ worker[w].pc # "idle"
    /\ crashes' = crashes + 1
    /\ Rest(w)
    /\ UNCHANGED <<now, settings, since, item, dismissed, row, shown, acts, lost>>

(* Bound: an Item whose rows are used up no longer ranks, a motivation      *)
(* whose row is used up no longer has its facts.                            *)
RankedItems == {i \in Items :
    \/ row[Proactive(i, MaxRows)].st = "NONE"
    \/ \E id \in Open({Proactive(i, n) : n \in 1..MaxRows}) : row[id].gen < MaxGeneration}
FactsLeft == IF \A s \in Slots : row[Motivation(Day(now), s)].gen < MaxGeneration
             THEN BOOLEAN ELSE {FALSE}

WorkerStep(w) ==
    \/ StartCycle(w) \/ ProcessDigest(w)
    \/ \E id \in SnoozeIds : ClaimSnooze(w, id)
    \/ LeaveSnoozes(w)
    \/ \E R \in SUBSET RankedItems, facts \in FactsLeft : Select(w, R, facts)
    \/ \E id \in AttentionIds, gen \in 1..MaxGeneration : CancelStale(w, id, gen)
    \/ Onwards(w)
    \/ \E R \in SUBSET RankedItems, facts \in FactsLeft : ClaimMotivation(w, R, facts)
    \/ Precheck(w) \/ CancelDoomed(w)
    \/ \E R \in SUBSET RankedItems : ClaimProactive(w, R)
    \/ \E R \in SUBSET RankedItems, facts \in FactsLeft : Prepare(w, R, facts)
    \/ Accepted(w)
    \/ \E out \in BOOLEAN : AttemptFails(w, out)
    \/ DeadlinePasses(w) \/ Finalize(w) \/ MarkFailed(w)

UserStep ==
    \/ \E i \in Items : CancelSnooze(i) \/ Resolve(i) \/ Dismiss(i)
    \/ \E i \in Items, d \in SnoozeDelays : now + d <= MaxTime /\ SnoozeItem(i, now + d)
    \/ \E new \in Settings : ChangeSettings(new)

Next == \/ \E w \in Workers : WorkerStep(w) \/ CrashRestart(w)
        \/ UserStep
        \/ Tick

Spec == Init /\ [][Next]_vars

(* run_forever is a critical task: while it stands still the process is     *)
(* not running.  The clock does not stop before its bound.                  *)
Fairness == WF_vars(Tick) /\ \A w \in Workers : WF_vars(WorkerStep(w))
FairSpec == Spec /\ Fairness

-----------------------------------------------------------------------------
(* Types.                                                                  *)

RowType == [st : Statuses, gen : 0..MaxGeneration, claimed : Nat, sent : Nat]
PCs == {"idle", "digest", "snoozes", "select", "cancel", "motivation", "proactive", "doomed",
        "claim", "prepare", "sending", "accepted", "failed"}

TypeOK == /\ now \in 1..MaxTime
          /\ settings \in Settings /\ since \in 1..MaxTime
          /\ item \in [Items -> [state : {"ACTIVE", "SNOOZED", "RESOLVED"}, until : 0..MaxTime]]
          /\ dismissed \in [Items -> 0..MaxTime]
          /\ row \in [Ids -> RowType]
          /\ shown \in [Ids -> Nat]
          /\ \A w \in Workers :
                /\ worker[w].pc \in PCs
                /\ worker[w].pc \in {"doomed", "prepare", "sending", "accepted", "failed"}
                     => worker[w].id \in Ids /\ worker[w].gen \in 1..row[worker[w].id].gen
          /\ acts \in 0..MaxActs /\ crashes \in 0..MaxCrashes /\ lost \in 0..MaxLost

-----------------------------------------------------------------------------
(* Safety.                                                                 *)

(* A message that may still go out, or has gone out, belongs to a claim its *)
(* sender still holds: no user action, recovery or cancel takes the row     *)
(* away between the claim and the final commit.  Stated for one process.    *)
SenderOwnsClaim ==
    \A w \in Workers : worker[w].pc \in {"sending", "accepted"} => Owns(w)

(* An Item that sleeps has a wake-up call on record: SNOOZED without a      *)
(* PENDING row of the same instant would never come back.                   *)
SleeperHasAlarm ==
    \A i \in Items : item[i].state = "SNOOZED"
                       => row[Snooze(i, item[i].until)].st = "PENDING"

(* A digest is never replayed (D-007): beyond replies that were lost, it is *)
(* shown once, deaths or not.                                               *)
NoReplay == \A d \in Days : shown[Digest(d)] <= 1 + lost

(* What was out before an attention message (a digest or snooze of the same *)
(* tick may be the later one).                                              *)
Before(a) == {b \in Has(Ids, "SENT") \ {a} :
                 \/ row[b].sent < row[a].sent
                 \/ b \in AttentionIds /\ row[b].sent = row[a].sent}

(* Every attention message keeps the minimum gap to the messages that were  *)
(* out before it, of whatever kind, whatever the user set meanwhile.        *)
LeastGap == CHOOSE g \in {MinGap[l] : l \in Levels} : \A l \in Levels : g <= MinGap[l]
Spacing == \A a \in Has(AttentionIds, "SENT") : \A b \in Before(a) :
              row[b].sent + LeastGap <= row[a].sent

(* No attention message goes out on a day whose budget the messages before  *)
(* it, digest included, have used up.                                       *)
HighestCap == CHOOSE c \in {DailyCap[l] : l \in Levels} : \A l \in Levels : DailyCap[l] <= c
WithinBudget ==
    \A a \in Has(AttentionIds, "SENT") :
       Cardinality(Before(a) \cap SentOn(BudgetIds, Day(row[a].sent))) < HighestCap

(* The scheduler reads what was sent before it claims a row: gap and budget *)
(* hold all the same when messages of other kinds go out in between.        *)
AttentionIsPaced == Spacing /\ WithinBudget

(* At most one open claim of each attention kind: what the partial unique   *)
(* indexes of the table enforce, the transactions keep by themselves.       *)
OneOpenClaim == \A S \in {ProactiveIds, MotivationIds} : Cardinality(Open(S)) <= 1

(* No digest is made for a local date before the one on which it was turned  *)
(* on.                                                                       *)
NoStaleDigest ==
    [][\A d \in Days : row'[Digest(d)].st # "NONE" /\ row[Digest(d)].st = "NONE"
                          => Day(since) <= d]_vars

(* Every sleeping Item wakes up (or is settled by the user).                 *)
SleepersWake == \A i \in Items : item[i].state = "SNOOZED" ~> item[i].state # "SNOOZED"
=============================================================================
