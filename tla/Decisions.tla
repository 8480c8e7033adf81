------------------------------ MODULE Decisions ------------------------------
(***************************************************************************)
(* What the user decides about Items by pressing buttons: on a delivered   *)
(* reminder (services/reminder_feedback.py), on an Item                    *)
(* (services/actions.py) and in its feedback menu (services/feedback.py),  *)
(* as bot/handlers.py hands it on, and over HTTP.                          *)
(*                                                                         *)
(* A press reaches its handler as TelegramUpdates says: twice or never if  *)
(* the process dies at the wrong moment.                                   *)
(*                                                                         *)
(* A snooze date is counted from the moment of its handling, so no two     *)
(* snoozes are to the same date: dates are numbered.  The rows of snoozes  *)
(* are left to Reminders, deliveries of videos to Outbox, retries to       *)
(* ItemPipeline.                                                           *)
(***************************************************************************)
EXTENDS TelegramUpdates, Sequences, FiniteSets

CONSTANTS Items, Reminders,
          Kind,         \* [Reminders -> {"PROACTIVE_ATTENTION", "MOTIVATION_NUDGE", "OTHER"}]
          Focus,        \* [Reminders -> Items \cup {Nil}], reminder_focus_item_id
          Categories, Types, Interests,
          Category,     \* [Items -> Categories], as analysed first
          Elsewhere,    \* categories of the user's other Items
          Buttons,      \* what may be pressed: [on, of, act, to]
          MaxOutside,   \* bound: retries and actions over HTTP
          Nil

AnyButton ==
    [on : {"reminder"}, of : Reminders, to : {Nil},
     act : {"done", "snooze", "dismiss", "dislike", "open", "open_original", "later", "cancel", "ok"}]
    \cup [on : {"item"}, of : Items, act : {"done", "archive", "snooze", "cancel"}, to : {Nil}]
    \cup [on : {"item"}, of : Items, act : {"interest"}, to : Interests]
    \cup [on : {"feedback"}, of : Items, act : {"useful"}, to : {Nil}]
    \cup [on : {"feedback"}, of : Items, act : {"category"}, to : Categories]
    \cup [on : {"feedback"}, of : Items, act : {"type"}, to : Types]

DecisionsAssumption ==
    /\ Updates \subseteq Nat /\ {MaxCrashes, MaxOutside} \subseteq Nat
    /\ Kind \in [Reminders -> {"PROACTIVE_ATTENTION", "MOTIVATION_NUDGE", "OTHER"}]
    /\ Focus \in [Reminders -> Items \cup {Nil}]
    /\ Category \in [Items -> Categories] /\ Elsewhere \subseteq Categories
    /\ Types # {} /\ Interests # {}
    /\ Buttons \subseteq AnyButton

VARIABLES item,       \* [Items -> [state, until, ready, category, type, interest]]
          reminder,   \* [Reminders -> "CLAIMED" or "SENT"]
          history,    \* the events, oldest first: [what, of, reminder, from, to, key]
          receipts,   \* feedback_callback_receipts: keys consumed
          press,      \* [Updates -> a button, or Nil]
          snoozes, outside,
          answered    \* history variable: presses the service has committed an answer to

decisions == <<item, history, receipts, snoozes>>
vars == <<decisions, reminder, press, transport, outside, answered>>

SomeType == CHOOSE t \in Types : TRUE
SomeInterest == CHOOSE l \in Interests : TRUE

Init == /\ item = [i \in Items |-> [state |-> "ACTIVE", until |-> 0, ready |-> TRUE,
                                    category |-> Category[i], type |-> SomeType,
                                    interest |-> SomeInterest]]
        /\ reminder = [r \in Reminders |-> "CLAIMED"]
        /\ history = <<>> /\ receipts = {}
        /\ press = [k \in Updates |-> Nil]
        /\ TransportInit
        /\ snoozes = 0 /\ outside = 0 /\ answered = {}

-----------------------------------------------------------------------------
(* Transport.                                                              *)

Press(k, b) == /\ Arrive(k)
               /\ press' = [press EXCEPT ![k] = b]
               /\ UNCHANGED <<decisions, reminder, outside, answered>>

Transport == /\ Poll \/ CrashRestart
             /\ UNCHANGED <<decisions, reminder, press, outside, answered>>

Handling(k, on) == At(k, "running") /\ press[k].on = on

(* The handler is through with its press, having committed or rolled back.  *)
Leave(k) == Return(k) /\ UNCHANGED <<reminder, press, outside>>
Commit(k) == Leave(k) /\ answered' = answered \cup {k}
Rollback(k) == Leave(k) /\ UNCHANGED <<decisions, answered>>

-----------------------------------------------------------------------------
(* Keys and events.                                                        *)

Event(what, i, r, from, to, k) ==
    [what |-> what, of |-> i, reminder |-> r, from |-> from, to |-> to, key |-> k]

Recorded == {history[n] : n \in DOMAIN history}

(* Fault: only the events are looked at, so that no-ops leave no trace.     *)
ConsumedByEvent(k) == \E e \in Recorded : e.key = k

(* _callback_was_consumed                                                  *)
Consumed(k) == k \in receipts \/ \E e \in Recorded : e.key = k

(* claim_feedback_callback_receipt, and nothing else.                      *)
OnlyReceipt(k) == /\ receipts' = receipts \cup {k}
                  /\ UNCHANGED <<item, history, snoozes>>
                  /\ Commit(k)

AlreadyConsumed(k) == Consumed(k) /\ UNCHANGED decisions /\ Commit(k)

-----------------------------------------------------------------------------
(* The lifecycle of an Item: _apply_item_action_in_session, a conditional   *)
(* UPDATE whose row count decides whether anything else is written.         *)

Alive(i) == item[i].state \in {"ACTIVE", "SNOOZED"}

May(i, act) == CASE act \in {"done", "archive"} -> Alive(i)
                 [] act = "snooze" -> Alive(i) /\ item[i].until # snoozes + 1
                 [] act = "cancel" -> item[i].state = "SNOOZED"

After(i, act) ==
    LET to == CASE act = "done" -> "DONE" [] act = "archive" -> "ARCHIVED"
                [] act = "snooze" -> "SNOOZED" [] OTHER -> "ACTIVE"
    IN [item EXCEPT ![i].state = to, ![i].until = IF act = "snooze" THEN snoozes + 1 ELSE 0]

Counted(act) == IF act = "snooze" THEN snoozes + 1 ELSE snoozes

(* Cancelling a snooze leaves no event.                                     *)
Lifecycle(i, act) ==
    CASE act = "done" -> <<Event("DONE", i, Nil, Nil, Nil, Nil)>>
      [] act = "archive" -> <<Event("ARCHIVED", i, Nil, Nil, Nil, Nil)>>
      [] act = "snooze" -> <<Event("SNOOZED", i, Nil, Nil, Nil, Nil)>>
      [] OTHER -> <<>>

(* Fault: the event is written whether or not the UPDATE found the row.     *)
EventAnyway(i, act) ==
    /\ item' = IF May(i, act) THEN After(i, act) ELSE item
    /\ history' = history \o Lifecycle(i, act)
    /\ snoozes' = IF May(i, act) THEN Counted(act) ELSE snoozes

Transition(i, act) ==
    /\ item' = IF May(i, act) THEN After(i, act) ELSE item
    /\ history' = IF May(i, act) THEN history \o Lifecycle(i, act) ELSE history
    /\ snoozes' = IF May(i, act) THEN Counted(act) ELSE snoozes

(* apply_item_action: no key, whatever comes is applied if it still can be. *)
ItemAction(k) ==
    /\ Handling(k, "item") /\ press[k].act # "interest"
    /\ Transition(press[k].of, press[k].act)
    /\ receipts' = receipts
    /\ Commit(k)

(* apply_item_action_for_user_id: the same transition without a press.      *)
HttpAction(i, act) ==
    /\ outside < MaxOutside /\ May(i, act)
    /\ outside' = outside + 1
    /\ Transition(i, act)
    /\ UNCHANGED <<receipts, reminder, press, transport, answered>>

-----------------------------------------------------------------------------
(* Interest: checked against one read, set in a transaction of its own.     *)

CheckInterest(k) ==
    LET i == press[k].of
    IN /\ Handling(k, "item") /\ press[k].act = "interest"
       /\ \/ /\ item[i].ready /\ Alive(i)
             /\ Goto(k, "checked")
             /\ UNCHANGED <<decisions, reminder, press, outside, answered>>
          \/ ~(item[i].ready /\ Alive(i)) /\ Rollback(k)

SetInterest(k) ==
    LET i == press[k].of
        from == item[i].interest
        to == press[k].to
    IN /\ At(k, "checked")
       /\ item' = [item EXCEPT ![i].interest = to]
       /\ history' = IF from = to THEN history
                     ELSE Append(history, Event("INTEREST_CHANGED", i, Nil, from, to, Nil))
       /\ UNCHANGED <<receipts, snoozes>>
       /\ Commit(k)

-----------------------------------------------------------------------------
(* Feedback and corrections: services/feedback.py.                         *)

(* Not READY: the press is used up all the same.                            *)
NotReady(k) == ~item[press[k].of].ready /\ OnlyReceipt(k)

(* record_item_feedback                                                    *)
RecordFeedback(k) ==
    LET i == press[k].of
    IN /\ Handling(k, "feedback") /\ press[k].act = "useful"
       /\ \/ NotReady(k)
          \/ item[i].ready /\ AlreadyConsumed(k)
          \/ /\ item[i].ready /\ ~Consumed(k)
             /\ history' = Append(history, Event("USEFUL", i, Nil, Nil, Nil, k))
             /\ UNCHANGED <<item, receipts, snoozes>>
             /\ Commit(k)

InUse == Elsewhere \cup {item[i].category : i \in Items}    \* resolve_category_token

(* The new value and the event that says what it replaced.                  *)
Corrected(i, field, to, k) ==
    /\ item' = IF field = "category" THEN [item EXCEPT ![i].category = to]
               ELSE [item EXCEPT ![i].type = to]
    /\ history' = Append(history, Event(field, i, Nil,
                    IF field = "category" THEN item[i].category ELSE item[i].type, to, k))

(* correct_item_category_by_token, correct_item_type: the receipt is taken  *)
(* before the value is looked at, also when nothing changes.                *)
Correct(k) ==
    LET i == press[k].of
        field == press[k].act
        to == press[k].to
        same == to = IF field = "category" THEN item[i].category ELSE item[i].type
        gone == field = "category" /\ to \notin InUse
    IN /\ Handling(k, "feedback") /\ field \in {"category", "type"}
       /\ \/ NotReady(k)
          \/ item[i].ready /\ AlreadyConsumed(k)
          \/ item[i].ready /\ ~Consumed(k) /\ (gone \/ same) /\ OnlyReceipt(k)
          \/ /\ item[i].ready /\ ~Consumed(k) /\ ~gone /\ ~same
             /\ Corrected(i, field, to, k)
             /\ receipts' = receipts \cup {k}
             /\ snoozes' = snoozes
             /\ Commit(k)

-----------------------------------------------------------------------------
(* Reactions to a reminder: ReminderFeedbackService.apply_callback          *)

Reaction(act) == CASE act = "done" -> "REMINDER_DONE"
                   [] act = "snooze" -> "REMINDER_SNOOZED"
                   [] act = "dismiss" -> "REMINDER_DISMISSED"
                   [] act = "dislike" -> "REMINDER_DISLIKED"
                   [] OTHER -> "REMINDER_OPENED"

Attention == {"PROACTIVE_ATTENTION", "MOTIVATION_NUDGE"}

(* The tests before the key is looked at; a press that fails them is rolled *)
(* back and not used up.                                                    *)
Admissible(r, act) ==
    /\ reminder[r] = "SENT"
    /\ CASE act = "ok" -> Kind[r] = "MOTIVATION_NUDGE"
         [] act = "dislike" -> Kind[r] \in Attention
         [] act = "dismiss" -> Kind[r] = "PROACTIVE_ATTENTION" /\ Focus[r] # Nil
         [] OTHER -> Kind[r] \in Attention /\ Focus[r] # Nil

(* _has_event: one reaction of a kind to a reminder is enough.              *)
Reacted(r, act) == \E e \in Recorded : e.reminder = r /\ e.what = Reaction(act)

React(r, act, k) == Event(Reaction(act), Focus[r], r, Nil, Nil, k)

(* What is admitted once changes the Item, if it asks for that and the Item *)
(* is not settled, and is recorded with it.                                 *)
Decide(k, r, act) ==
    LET i == Focus[r]
        lifecycle == act \in {"done", "snooze"}
    IN \/ /\ Reacted(r, act) \/ (lifecycle /\ ~May(i, act))
          /\ OnlyReceipt(k)
       \/ /\ ~Reacted(r, act) /\ (lifecycle => May(i, act))
          /\ item' = IF lifecycle THEN After(i, act) ELSE item
          /\ history' = Append(history \o IF lifecycle THEN Lifecycle(i, act) ELSE <<>>,
                               React(r, act, k))
          /\ receipts' = receipts \cup {k}
          /\ snoozes' = Counted(act)
          /\ Commit(k)

(* Opening a video puts its delivery in the queue each time and is recorded *)
(* the first time; a video that cannot be had undoes even the receipt.      *)
OpenVideo(k, r) ==
    \/ Rollback(k)
    \/ /\ history' = IF Reacted(r, "open") THEN history ELSE Append(history, React(r, "open", k))
       /\ UNCHANGED <<item, snoozes>>
       /\ receipts' = receipts \cup {k}
       /\ Commit(k)

ApplyCallback(k) ==
    LET r == press[k].of
        act == press[k].act
    IN /\ \/ Handling(k, "reminder") /\ act # "open_original"
          \/ At(k, "copied")
       /\ \/ ~Admissible(r, act) /\ Rollback(k)
          \/ Admissible(r, act) /\ AlreadyConsumed(k)
          \/ /\ Admissible(r, act) /\ ~Consumed(k)
             /\ \/ act \in {"later", "cancel", "ok"} /\ OnlyReceipt(k)
                \/ act = "open" /\ OpenVideo(k, r)
                \/ act \notin {"later", "cancel", "ok", "open"} /\ Decide(k, r, act)

(* The original is copied to the chat first (or cannot be), then recorded.  *)
CopyOriginal(k) ==
    /\ Handling(k, "reminder") /\ press[k].act = "open_original"
    /\ \/ /\ Goto(k, "copied")
          /\ UNCHANGED <<decisions, reminder, press, outside, answered>>
       \/ Rollback(k)

-----------------------------------------------------------------------------
(* What else changes these rows.                                           *)

(* The message of a reminder is out before the row is SENT.                 *)
FinalizeReminder(r) ==
    /\ reminder[r] = "CLAIMED"
    /\ reminder' = [reminder EXCEPT ![r] = "SENT"]
    /\ UNCHANGED <<decisions, press, transport, outside, answered>>

(* _claim_snooze                                                           *)
Wake(i) ==
    /\ item[i].state = "SNOOZED" /\ item[i].until <= snoozes
    /\ item' = [item EXCEPT ![i].state = "ACTIVE", ![i].until = 0]
    /\ UNCHANGED <<reminder, history, receipts, press, transport, snoozes, outside, answered>>

(* A retry of a partial Item; a new analysis chooses category and type anew *)
(* (Pipeline.run), whatever the user corrected.                             *)
Requeue(i) ==
    /\ item[i].ready /\ outside < MaxOutside
    /\ item' = [item EXCEPT ![i].ready = FALSE]
    /\ history' = Append(history, Event("RETRIED", i, Nil, Nil, Nil, Nil))
    /\ outside' = outside + 1
    /\ UNCHANGED <<receipts, reminder, press, transport, snoozes, answered>>

Analyse(i, c, t) ==
    /\ ~item[i].ready
    /\ item' = [item EXCEPT ![i].ready = TRUE, ![i].category = c, ![i].type = t]
    /\ UNCHANGED <<reminder, history, receipts, press, transport, snoozes, outside, answered>>

Handle(k) == \/ ItemAction(k) \/ CheckInterest(k) \/ SetInterest(k)
             \/ RecordFeedback(k) \/ Correct(k)
             \/ ApplyCallback(k) \/ CopyOriginal(k)

Next == \/ \E k \in Updates, b \in Buttons : Press(k, b)
        \/ \E k \in Updates : Handle(k)
        \/ Transport
        \/ \E i \in Items, act \in {"done", "archive", "snooze"} : HttpAction(i, act)
        \/ \E r \in Reminders : FinalizeReminder(r)
        \/ \E i \in Items : Wake(i) \/ Requeue(i)
        \/ \E i \in Items, c \in Categories, t \in Types : Analyse(i, c, t)

Spec == Init /\ [][Next]_vars

-----------------------------------------------------------------------------
(* Types.                                                                  *)
TypeOK ==
    /\ item \in [Items -> [state : {"ACTIVE", "SNOOZED", "DONE", "ARCHIVED"}, until : Nat,
                           ready : BOOLEAN, category : Categories, type : Types,
                           interest : Interests]]
    /\ reminder \in [Reminders -> {"CLAIMED", "SENT"}]
    /\ \A e \in Recorded : e.of \in Items \cup {Nil} /\ e.key \in Updates \cup {Nil}
    /\ receipts \subseteq Updates /\ answered \subseteq Updates
    /\ press \in [Updates -> Buttons \cup {Nil}]
    /\ TransportTypeOK /\ task \in [Updates -> {"none", "running", "copied", "checked"}]
    /\ snoozes \in Nat /\ outside \in 0..MaxOutside

-----------------------------------------------------------------------------
(* Safety.                                                                 *)

(* The presses that carry a key: everything but lifecycle and interest.     *)
Keyed == {k \in Updates : press[k] # Nil /\ press[k].on # "item"}

(* A press that comes again after it was answered (even with "nothing to    *)
(* do") changes nothing, whatever was decided in between.                   *)
RepeatsAreInert ==
    [][\A k \in Keyed \cap answered :
          task[k] # "none" /\ task'[k] = "none" => UNCHANGED <<item, history>>]_vars

Events(i, kinds) == {n \in DOMAIN history : history[n].of = i /\ history[n].what \in kinds}

(* The corrections of a value since the last analysis, if one was asked for. *)
SinceRetry(i, kind) ==
    {n \in Events(i, {kind}) : \A m \in Events(i, {"RETRIED"}) : m < n}

(* The changes of a value: each starting where the one before it ended, and *)
(* the last one being the value.                                            *)
Chained(changes, value) ==
    \A n \in changes :
       /\ (\A m \in changes : m <= n) => history[n].to = value
       /\ \A m \in changes : m < n /\ (\A l \in changes : l <= m \/ n <= l)
                                => history[n].from = history[m].to

Settled(i) == Events(i, {"DONE", "ARCHIVED"})

Reactions(r, act) == {n \in DOMAIN history : history[n].reminder = r /\ history[n].what = Reaction(act)}

(* The events tell how the Item came to be what it is: the reports, the     *)
(* ranking and the digest read nothing else.                                *)
HistoryAgrees ==
    /\ \A i \in Items :
          /\ Chained(SinceRetry(i, "category"), item[i].category)
          /\ Chained(SinceRetry(i, "type"), item[i].type)
          /\ Chained(Events(i, {"INTEREST_CHANGED"}), item[i].interest)
          /\ Alive(i) => Settled(i) = {}
          /\ ~Alive(i) => \E n \in Settled(i) : Settled(i) = {n} /\ history[n].what = item[i].state
    /\ \A r \in Reminders, act \in {"done", "snooze", "dismiss", "dislike", "open"} :
          \A m, n \in Reactions(r, act) : m = n
    /\ \A e \in Recorded : e.what = "REMINDER_DONE" => item[e.of].state = "DONE"
=============================================================================
