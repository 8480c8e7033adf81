------------------------------ MODULE Settings ------------------------------
(***************************************************************************)
(* The notification settings of a user (services/notifications.py:         *)
(* settings_for, update_notification_settings), edited from the chat, where*)
(* edits take turns, and by PATCH /v1/settings, which overlaps with        *)
(* everything.                                                             *)
(*                                                                         *)
(* The settings are one JSON column, patched by the database; the moment   *)
(* from which digests count is a column of its own, decided on by a read   *)
(* of the row that the update does not repeat.  A value is the number of   *)
(* the edit that wrote it; only whether the digest is on is kept besides.  *)
(***************************************************************************)
EXTENDS Naturals

CONSTANTS Edits,     \* bound: 1..n
          Chat,      \* those of them made in the chat
          SettingKeys,    \* timezone, clocks, attention settings
          Forms,     \* edits that exist: [kind, fields, to]
          Nil

SettingsAssumption ==
    /\ Edits \subseteq Nat \ {0} /\ Chat \subseteq Edits
    /\ Forms \subseteq [kind : {"toggle", "level", "patch"}, fields : SUBSET SettingKeys,
                        to : {"keep", "on", "off"}]

VARIABLES value,     \* [SettingKeys -> the edit that wrote it, 0 for none]
          enabled,   \* daily_digest_enabled
          since,     \* daily_digest_enabled_at: the edit that set it, 0 from the start, Nil for NULL
          edit       \* [Edits -> [pc, form, to, read]]

vars == <<value, enabled, since, edit>>
row == <<value, enabled, since>>

Row == [value |-> value, enabled |-> enabled]    \* settings_for

Unused == [pc |-> "none", fields |-> {}, to |-> "keep", read |-> Nil]

Init == /\ value = [f \in SettingKeys |-> 0]
        /\ enabled = TRUE /\ since = 0
        /\ edit = [e \in Edits |-> Unused]

Over(e) == edit[e].pc \in {"written", "dropped"}
Step(e, new) == edit' = [edit EXCEPT ![e] = new] /\ UNCHANGED row

Begin(e, form) ==
    /\ edit[e].pc = "none" /\ \A d \in Edits : d < e => edit[d].pc # "none"
    /\ Step(e, [Unused EXCEPT !.pc = form.kind, !.fields = form.fields, !.to = form.to])

(* /settings, a button or an answer to a prompt, when the edit from the     *)
(* chat before it is through; and PATCH /v1/settings, at any time.          *)
ChatEdit(e, form) == e \in Chat /\ (\A d \in Chat : d < e => Over(d)) /\ Begin(e, form)
HttpEdit(e, form) == e \notin Chat /\ form.kind = "patch" /\ Begin(e, form)

(* What is not valid is refused before anything is read.                    *)
Validate(e, valid) ==
    /\ edit[e].pc = "patch"
    /\ Step(e, [edit[e] EXCEPT !.pc = IF valid THEN "reading" ELSE "dropped"])

(* on_settings_callback reads the value to write its opposite.              *)
ReadToggle(e) == /\ edit[e].pc = "toggle"
                 /\ Step(e, [edit[e] EXCEPT !.pc = "reading", !.to = IF enabled THEN "off" ELSE "on"])

(* on_attention_settings_callback does so too, and leaves a level alone     *)
(* that is chosen already.                                                  *)
ReadAttention(e, same) ==
    /\ edit[e].pc = "level"
    /\ Step(e, [edit[e] EXCEPT !.pc = IF same THEN "dropped" ELSE "reading"])

(* update_notification_settings_for_user_id: the user is read ...           *)
ReadUser(e) == /\ edit[e].pc = "reading"
               /\ Step(e, [edit[e] EXCEPT !.pc = "writing", !.read = Row])

(* The moment of activation, as the row that was read asks for it.          *)
Moment(e) == CASE edit[e].to = "on" /\ ~edit[e].read.enabled -> e
               [] edit[e].to = "off" -> Nil
               [] OTHER -> since

(* Fault: the settings that were read are written back whole.               *)
WholeSettings(e) == [f \in SettingKeys |-> IF f \in edit[e].fields THEN e ELSE edit[e].read.value[f]]

(* ... and patched: json_patch changes the fields that are named.           *)
Patched(e) == [f \in SettingKeys |-> IF f \in edit[e].fields THEN e ELSE value[f]]

Write(e) ==
    /\ edit[e].pc = "writing"
    /\ value' = Patched(e)
    /\ enabled' = IF edit[e].to = "keep" THEN enabled ELSE edit[e].to = "on"
    /\ since' = Moment(e)
    /\ edit' = [edit EXCEPT ![e].pc = "written"]

(* The process dies, or a statement fails: the edit is not made.            *)
Drop(e) == /\ edit[e].pc \notin {"none", "written", "dropped"}
           /\ Step(e, [edit[e] EXCEPT !.pc = "dropped"])

Next == \E e \in Edits :
           \/ \E form \in Forms : ChatEdit(e, form) \/ HttpEdit(e, form)
           \/ \E valid \in BOOLEAN : Validate(e, valid)
           \/ ReadToggle(e) \/ ReadUser(e) \/ Write(e) \/ Drop(e)
           \/ \E same \in BOOLEAN : ReadAttention(e, same)

Spec == Init /\ [][Next]_vars

-----------------------------------------------------------------------------
TypeOK == /\ value \in [SettingKeys -> Edits \cup {0}] /\ enabled \in BOOLEAN
          /\ since \in Edits \cup {0, Nil}
          /\ \A e \in Edits : /\ edit[e].fields \subseteq SettingKeys
                              /\ edit[e].to \in {"keep", "on", "off"}

(* What was accepted stays until another edit of the same field: edits of   *)
(* different fields that overlap do not lose each other.                    *)
EditsSurvive ==
    \A e \in Edits : edit[e].pc = "written" =>
        \A f \in edit[e].fields : value[f] # 0 /\ f \in edit[value[f]].fields

(* A digest that is on has a moment from which it counts.  It need not: an  *)
(* edit that read the digest on, before another one turned it off, turns it *)
(* on again without setting the moment.                                     *)
ActivationKnown == enabled => since # Nil
=============================================================================
