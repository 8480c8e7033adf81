---------------------------- MODULE InboundProofs ----------------------------
(***************************************************************************)
(* Theorems about what reaches the inbox from outside: the decisions and   *)
(* the messages of Inbound, each by an inductive invariant of its own, and *)
(* then all of Inbound, with the captures, whose theorems are in           *)
(* CaptureProofs.                                                          *)
(*                                                                         *)
(* D, M and C are the instances of Decisions, Messages and Capture that    *)
(* Inbound declares; a name with their prefix is theirs.                   *)
(***************************************************************************)
EXTENDS Inbound, TLAPS

-----------------------------------------------------------------------------
(* Decisions: the inductive invariant.  It speaks of any history and any    *)
(* rows, so that what an action writes can be told apart from what it finds *)
(* and each kind of event has one lemma.                                    *)

RowType == [state : {"ACTIVE", "SNOOZED", "DONE", "ARCHIVED"}, until : Nat, ready : BOOLEAN,
            category : Categories, type : Types, interest : Interests]
Reacting == {"REMINDER_DONE", "REMINDER_SNOOZED", "REMINDER_DISMISSED", "REMINDER_DISLIKED",
             "REMINDER_OPENED"}
Telling == {"DONE", "ARCHIVED", "RETRIED", "INTEREST_CHANGED", "category", "type"}
EventType == [what : Reacting \cup Telling \cup {"SNOOZED", "USEFUL"}, of : Items \cup {Nil},
              reminder : Reminders \cup {Nil}, from : Categories \cup Types \cup Interests \cup {Nil},
              to : Categories \cup Types \cup Interests \cup {Nil}, key : Presses \cup {Nil}]

DecisionTyped == /\ reminder \in [Reminders -> {"CLAIMED", "SENT"}]
                 /\ receipts \subseteq Presses /\ handled \subseteq Presses
                 /\ press \in [Presses -> Buttons \cup {Nil}]
                 /\ pressUpdate \in [Presses -> {"none", "queued", "fetched", "confirmed"}]
                 /\ pressTask \in [Presses -> {"none", "running", "copied", "checked"}]
                 /\ pressCrashes \in 0..MaxCrashes /\ snoozes \in Nat /\ outside \in 0..MaxOutside

(* What has not arrived is in nobody's hands; what has is a button, and a   *)
(* handler between its two steps is one of those that take two.             *)
PressesFit == \A k \in Presses :
    /\ pressUpdate[k] = "none" => pressTask[k] = "none" /\ k \notin handled
    /\ pressUpdate[k] # "none" => press[k] \in Buttons
    /\ pressTask[k] = "checked" => press[k].on = "item" /\ press[k].act = "interest"
    /\ pressTask[k] = "copied" => press[k].on = "reminder"

(* What was answered has left its key, in a receipt or in an event.         *)
AnswersLeaveKeys == \A k \in D!Keyed \cap handled : D!Consumed(k)

(* The same operators about any history.                                    *)
EventsOf(h, i, kinds) == {n \in DOMAIN h : h[n].of = i /\ h[n].what \in kinds}
SinceOf(h, i, kind) == {n \in EventsOf(h, i, {kind}) : \A m \in EventsOf(h, i, {"RETRIED"}) : m < n}
ChainOf(h, changes, value) ==
    \A n \in changes :
       /\ (\A m \in changes : m <= n) => h[n].to = value
       /\ \A m \in changes : m < n /\ (\A l \in changes : l <= m \/ n <= l)
                                => h[n].from = h[m].to

(* What a history says of an Item, and that an Item whose analysis is asked *)
(* for again has no corrections that count.                                 *)
Living(row) == row.state \in {"ACTIVE", "SNOOZED"}
Settling == {"DONE", "ARCHIVED"}
Agrees(h, i, row) ==
    /\ ChainOf(h, SinceOf(h, i, "category"), row.category)
    /\ ChainOf(h, SinceOf(h, i, "type"), row.type)
    /\ ChainOf(h, EventsOf(h, i, {"INTEREST_CHANGED"}), row.interest)
    /\ Living(row) => EventsOf(h, i, Settling) = {}
    /\ ~Living(row) => \E n \in EventsOf(h, i, Settling) :
                          EventsOf(h, i, Settling) = {n} /\ h[n].what = row.state
    /\ ~row.ready => SinceOf(h, i, "category") = {} /\ SinceOf(h, i, "type") = {}

(* A reminder has one reaction of a kind, and what was marked as done from  *)
(* a reminder is done.                                                      *)
Once(h) == \A m, n \in DOMAIN h :
    h[m].reminder = h[n].reminder /\ h[m].what = h[n].what => m = n \/ h[n].what \notin Reacting
DoneIn(h, rows) == \A n \in DOMAIN h : h[n].what = "REMINDER_DONE"
                      => h[n].of \in Items /\ rows[h[n].of].state = "DONE"

(* A history and the rows it tells of.                                      *)
Tells(h, rows) == /\ h \in Seq(EventType) /\ rows \in [Items -> RowType]
                  /\ \A i \in Items : Agrees(h, i, rows[i])
                  /\ Once(h) /\ DoneIn(h, rows)

DecisionIInv == DecisionTyped /\ PressesFit /\ AnswersLeaveKeys /\ Tells(history, item)

-----------------------------------------------------------------------------
(* Histories that grow.                                                     *)

(* g is h with e written after it.                                          *)
Longer(h, g, e) == /\ h \in Seq(EventType) /\ e \in EventType /\ g \in Seq(EventType)
                   /\ Len(h) \in Nat /\ Len(g) = Len(h) + 1
                   /\ DOMAIN h = 1..Len(h) /\ DOMAIN g = 1..(Len(h) + 1)
                   /\ \A n \in 1..Len(h) : g[n] = h[n]
                   /\ g[Len(h) + 1] = e

LEMMA Written ==
  ASSUME NEW h \in Seq(EventType), NEW e \in EventType
  PROVE  Longer(h, Append(h, e), e) /\ Longer(h, h \o <<e>>, e)
  BY DEF Longer

LEMMA Told ==
  ASSUME NEW h, NEW g, NEW e, Longer(h, g, e), NEW i, NEW kinds, e.of = i, e.what \in kinds
  PROVE  EventsOf(g, i, kinds) = EventsOf(h, i, kinds) \cup {Len(h) + 1}
  BY DEF Longer, EventsOf

LEMMA NotTold ==
  ASSUME NEW h, NEW g, NEW e, Longer(h, g, e), NEW i, NEW kinds, e.of # i \/ e.what \notin kinds
  PROVE  EventsOf(g, i, kinds) = EventsOf(h, i, kinds)
  BY DEF Longer, EventsOf

LEMMA Places ==
  ASSUME NEW h, NEW i
  PROVE  /\ \A kinds : EventsOf(h, i, kinds) \in SUBSET DOMAIN h
         /\ \A kind : SinceOf(h, i, kind) \in SUBSET DOMAIN h
  BY DEF SinceOf, EventsOf

LEMMA ChainKept ==
  ASSUME NEW h, NEW g, NEW e, Longer(h, g, e), NEW c \in SUBSET DOMAIN h, NEW value,
         ChainOf(h, c, value)
  PROVE  ChainOf(g, c, value)
  BY DEF ChainOf, Longer

(* A change that starts at the value and ends at the new one.               *)
LEMMA ChainGrows ==
  ASSUME NEW h, NEW g, NEW e, Longer(h, g, e), NEW c \in SUBSET DOMAIN h,
         ChainOf(h, c, e.from)
  PROVE  ChainOf(g, c \cup {Len(h) + 1}, e.to)
<1> DEFINE q == Len(h) + 1
<1>1. /\ \A n \in c : n \in Nat /\ n < q /\ g[n] = h[n]
      /\ g[q] = e /\ q \in Nat
  BY DEF Longer
<1> HIDE DEF q
<1> SUFFICES ASSUME NEW n \in c \cup {q}
             PROVE  /\ (\A m \in c \cup {q} : m <= n) => g[n].to = e.to
                    /\ \A m \in c \cup {q} : m < n /\ (\A l \in c \cup {q} : l <= m \/ n <= l)
                                               => g[n].from = g[m].to
  BY DEF ChainOf, q
<1>2. CASE n = q
  <2>1. ASSUME NEW m \in c, \A l \in c : l <= m \/ q <= l PROVE g[q].from = g[m].to
    <3>1. \A l \in c : l <= m
      BY <1>1, <2>1
    <3> QED
      BY <1>1, <3>1 DEF ChainOf
  <2> QED
    BY <1>1, <1>2, <2>1
<1>3. CASE n \in c
  BY <1>1, <1>3 DEF ChainOf
<1> QED
  BY <1>2, <1>3

LEMMA SinceKept ==
  ASSUME NEW h, NEW g, NEW e, Longer(h, g, e), NEW i, NEW kind,
         e.of # i \/ e.what \notin {kind, "RETRIED"}
  PROVE  SinceOf(g, i, kind) = SinceOf(h, i, kind)
<1>1. /\ EventsOf(g, i, {kind}) = EventsOf(h, i, {kind})
      /\ EventsOf(g, i, {"RETRIED"}) = EventsOf(h, i, {"RETRIED"})
  BY NotTold
<1> QED
  BY <1>1 DEF SinceOf

LEMMA SinceGrows ==
  ASSUME NEW h, NEW g, NEW e, Longer(h, g, e), e.what # "RETRIED"
  PROVE  SinceOf(g, e.of, e.what) = SinceOf(h, e.of, e.what) \cup {Len(h) + 1}
<1>1. EventsOf(g, e.of, {e.what}) = EventsOf(h, e.of, {e.what}) \cup {Len(h) + 1}
  BY Told
<1>2. EventsOf(g, e.of, {"RETRIED"}) = EventsOf(h, e.of, {"RETRIED"})
  BY NotTold
<1>3. \A m \in EventsOf(h, e.of, {"RETRIED"}) : m < Len(h) + 1
  BY DEF EventsOf, Longer
<1> QED
  BY <1>1, <1>2, <1>3 DEF SinceOf

LEMMA SinceRestarts ==
  ASSUME NEW h, NEW g, NEW e, Longer(h, g, e), e.what = "RETRIED", NEW kind, kind # "RETRIED"
  PROVE  SinceOf(g, e.of, kind) = {}
<1>1. EventsOf(g, e.of, {kind}) = EventsOf(h, e.of, {kind})
  BY NotTold
<1>2. Len(h) + 1 \in EventsOf(g, e.of, {"RETRIED"})
  BY DEF EventsOf, Longer
<1>3. \A n \in EventsOf(h, e.of, {kind}) : ~(Len(h) + 1 < n)
  BY DEF EventsOf, Longer
<1> QED
  BY <1>1, <1>2, <1>3 DEF SinceOf

-----------------------------------------------------------------------------
(* What an Item agrees with, as its history grows.                          *)

(* Events of others, snoozes, reports and reactions change nothing.         *)
LEMMA AgreesKept ==
  ASSUME NEW h, NEW g, NEW e, Longer(h, g, e), NEW i, NEW row,
         e.of # i \/ e.what \notin Telling, Agrees(h, i, row)
  PROVE  Agrees(g, i, row)
<1>1. /\ SinceOf(g, i, "category") = SinceOf(h, i, "category")
      /\ SinceOf(g, i, "type") = SinceOf(h, i, "type")
  BY SinceKept DEF Telling
<1>2. EventsOf(g, i, {"INTEREST_CHANGED"}) = EventsOf(h, i, {"INTEREST_CHANGED"})
  BY NotTold DEF Telling
<1>3. EventsOf(g, i, Settling) = EventsOf(h, i, Settling)
  BY NotTold DEF Telling, Settling
<1>4. /\ ChainOf(g, SinceOf(h, i, "category"), row.category)
      /\ ChainOf(g, SinceOf(h, i, "type"), row.type)
      /\ ChainOf(g, EventsOf(h, i, {"INTEREST_CHANGED"}), row.interest)
  BY Places, ChainKept DEF Agrees
<1>5. \A n \in EventsOf(h, i, Settling) : g[n] = h[n]
  BY DEF EventsOf, Longer
<1> QED
  BY <1>1, <1>2, <1>3, <1>4, <1>5 DEF Agrees

(* A row that differs in nothing its history tells.                         *)
LEMMA AgreesAlike ==
  ASSUME NEW h, NEW i, NEW row, NEW new, Agrees(h, i, row),
         new.category = row.category, new.type = row.type, new.interest = row.interest,
         new.ready = row.ready, new.state = row.state \/ (Living(row) /\ Living(new))
  PROVE  Agrees(h, i, new)
  BY DEF Agrees, Living

(* An Item that is alive is settled by one event that names its state.      *)
LEMMA AgreesSettled ==
  ASSUME NEW h, NEW g, NEW e, Longer(h, g, e), NEW row, NEW new,
         e.what \in Settling, new.state = e.what, Agrees(h, e.of, row), Living(row),
         new.category = row.category, new.type = row.type, new.interest = row.interest,
         new.ready = row.ready
  PROVE  Agrees(g, e.of, new)
<1>2. /\ SinceOf(g, e.of, "category") = SinceOf(h, e.of, "category")
      /\ SinceOf(g, e.of, "type") = SinceOf(h, e.of, "type")
  BY SinceKept DEF Settling
<1>3. EventsOf(g, e.of, {"INTEREST_CHANGED"}) = EventsOf(h, e.of, {"INTEREST_CHANGED"})
  BY NotTold DEF Settling
<1>4. EventsOf(h, e.of, Settling) = {}
  BY DEF Agrees
<1>5. EventsOf(g, e.of, Settling) = {Len(h) + 1}
  <2>1. EventsOf(g, e.of, Settling) = EventsOf(h, e.of, Settling) \cup {Len(h) + 1}
    BY Told
  <2> QED
    BY <1>4, <2>1
<1>6. g[Len(h) + 1] = e
  BY DEF Longer
<1>7. /\ ChainOf(g, SinceOf(h, e.of, "category"), row.category)
      /\ ChainOf(g, SinceOf(h, e.of, "type"), row.type)
      /\ ChainOf(g, EventsOf(h, e.of, {"INTEREST_CHANGED"}), row.interest)
  BY Places, ChainKept DEF Agrees
<1>8. ~Living(new)
  BY DEF Living, Settling
<1> QED
  BY <1>2, <1>3, <1>5, <1>6, <1>7, <1>8 DEF Agrees

(* A correction of one field.                                               *)
LEMMA AgreesCorrected ==
  ASSUME NEW h, NEW g, NEW e, Longer(h, g, e), NEW row, NEW new,
         Agrees(h, e.of, row), new.ready = row.ready, new.state = row.state,
         \/ /\ e.what = "category" /\ e.from = row.category /\ e.to = new.category /\ row.ready
            /\ new.type = row.type /\ new.interest = row.interest
         \/ /\ e.what = "type" /\ e.from = row.type /\ e.to = new.type /\ row.ready
            /\ new.category = row.category /\ new.interest = row.interest
         \/ /\ e.what = "INTEREST_CHANGED" /\ e.from = row.interest /\ e.to = new.interest
            /\ new.category = row.category /\ new.type = row.type
  PROVE  Agrees(g, e.of, new)
<1> DEFINE i == e.of
<1>1. EventsOf(g, i, Settling) = EventsOf(h, i, Settling)
  BY NotTold DEF Settling
<1>2. \A n \in EventsOf(h, i, Settling) : g[n] = h[n]
  BY DEF EventsOf, Longer
<1>3. ASSUME NEW kind \in {"category", "type"}, e.what # kind
      PROVE  SinceOf(g, i, kind) = SinceOf(h, i, kind)
  <2>1. e.what \notin {kind, "RETRIED"}
    BY <1>3
  <2> QED
    BY <2>1, SinceKept
<1>4. ASSUME NEW kind \in {"category", "type"}, NEW old, NEW value,
             ChainOf(h, SinceOf(h, i, kind), old),
             IF e.what = kind THEN e.from = old /\ e.to = value ELSE value = old
      PROVE  ChainOf(g, SinceOf(g, i, kind), value)
  <2>1. CASE e.what = kind
    <3>1. SinceOf(g, i, kind) = SinceOf(h, i, kind) \cup {Len(h) + 1}
      BY <2>1, SinceGrows
    <3>2. ChainOf(g, SinceOf(h, i, kind) \cup {Len(h) + 1}, e.to)
      BY <1>4, <2>1, Places, ChainGrows
    <3> QED
      BY <1>4, <2>1, <3>1, <3>2
  <2>2. CASE e.what # kind
    BY <1>3, <1>4, <2>2, Places, ChainKept
  <2> QED
    BY <2>1, <2>2
<1>5. /\ ChainOf(g, SinceOf(g, i, "category"), new.category)
      /\ ChainOf(g, SinceOf(g, i, "type"), new.type)
  BY <1>4 DEF Agrees
<1>6. ChainOf(g, EventsOf(g, i, {"INTEREST_CHANGED"}), new.interest)
  <2> DEFINE c == EventsOf(h, i, {"INTEREST_CHANGED"})
  <2>1. CASE e.what = "INTEREST_CHANGED"
    <3>1. ChainOf(g, c \cup {Len(h) + 1}, e.to)
      BY <2>1, Places, ChainGrows DEF Agrees
    <3>2. EventsOf(g, i, {"INTEREST_CHANGED"}) = c \cup {Len(h) + 1}
      BY <2>1, Told
    <3> QED
      BY <2>1, <3>1, <3>2
  <2>2. CASE e.what # "INTEREST_CHANGED"
    <3>1. EventsOf(g, i, {"INTEREST_CHANGED"}) = c
      BY <2>2, NotTold
    <3> QED
      BY <2>2, <3>1, Places, ChainKept DEF Agrees
  <2> QED
    BY <2>1, <2>2
<1>7. Living(new) <=> Living(row)
  BY DEF Living
<1>8. ~row.ready => SinceOf(g, i, "category") = {} /\ SinceOf(g, i, "type") = {}
  BY <1>3 DEF Agrees
<1> QED
  BY <1>1, <1>2, <1>5, <1>6, <1>7, <1>8 DEF Agrees

(* A retry: the corrections made before it do not count.                    *)
LEMMA AgreesRetried ==
  ASSUME NEW h, NEW g, NEW e, Longer(h, g, e), NEW row, NEW new,
         e.what = "RETRIED", Agrees(h, e.of, row),
         new.state = row.state, new.interest = row.interest
  PROVE  Agrees(g, e.of, new)
<1> DEFINE i == e.of
<1>1. /\ EventsOf(g, i, Settling) = EventsOf(h, i, Settling)
      /\ EventsOf(g, i, {"INTEREST_CHANGED"}) = EventsOf(h, i, {"INTEREST_CHANGED"})
  BY NotTold DEF Settling
<1>2. \A n \in EventsOf(h, i, Settling) : g[n] = h[n]
  BY DEF EventsOf, Longer
<1>3. SinceOf(g, i, "category") = {} /\ SinceOf(g, i, "type") = {}
  BY SinceRestarts
<1>4. ChainOf(g, EventsOf(h, i, {"INTEREST_CHANGED"}), row.interest)
  BY Places, ChainKept DEF Agrees
<1>5. Living(new) <=> Living(row)
  BY DEF Living
<1>6. \A value : ChainOf(g, {}, value)
  BY DEF ChainOf
<1> QED
  BY <1>1, <1>2, <1>3, <1>4, <1>5, <1>6 DEF Agrees

(* A new analysis, which chooses category and type.                         *)
LEMMA AgreesAnalysed ==
  ASSUME NEW h, NEW i, NEW row, NEW new, Agrees(h, i, row), ~row.ready,
         new.ready, new.state = row.state, new.interest = row.interest
  PROVE  Agrees(h, i, new)
  BY DEF Agrees, ChainOf, Living

-----------------------------------------------------------------------------
(* Histories and rows that grow together.                                   *)

LEMMA DecisionTyping ==
  ASSUME NEW h, NEW rows, Tells(h, rows)
  PROVE  h \in Seq(EventType) /\ rows \in [Items -> RowType]
  BY DEF Tells

LEMMA OnceStill ==
  ASSUME NEW h, NEW g, NEW e, Longer(h, g, e), Once(h), e.what \notin Reacting
  PROVE  Once(g)
  BY DEF Once, Longer

LEMMA DoneStill ==
  ASSUME NEW h, NEW g, NEW e, Longer(h, g, e), e.what # "REMINDER_DONE", NEW rows, NEW next,
         DoneIn(h, rows), \A i \in Items : rows[i].state = "DONE" => next[i].state = "DONE"
  PROVE  DoneIn(g, next)
  BY DEF DoneIn, Longer

(* An event that tells of no row.                                           *)
LEMMA TellsNothing ==
  ASSUME NEW h, NEW g, NEW e, Longer(h, g, e), NEW rows, Tells(h, rows),
         e.what \in {"SNOOZED", "USEFUL"}
  PROVE  Tells(g, rows)
<1>1. \A i \in Items : Agrees(g, i, rows[i])
  BY AgreesKept DEF Tells, Telling
<1>2. Once(g)
  BY OnceStill DEF Tells, Reacting
<1>3. DoneIn(g, rows)
  BY DoneStill DEF Tells
<1> QED
  BY <1>1, <1>2, <1>3 DEF Tells, Longer

LEMMA TellsReaction ==
  ASSUME NEW h, NEW g, NEW e, Longer(h, g, e), NEW rows, Tells(h, rows), e.what \in Reacting,
         \A n \in DOMAIN h : ~(h[n].reminder = e.reminder /\ h[n].what = e.what),
         e.what = "REMINDER_DONE" => e.of \in Items /\ rows[e.of].state = "DONE"
  PROVE  Tells(g, rows)
<1>1. \A i \in Items : Agrees(g, i, rows[i])
  <2>1. e.what \notin Telling
    BY DEF Reacting, Telling
  <2> QED
    BY <2>1, AgreesKept DEF Tells
<1>2. Once(g)
  BY DEF Tells, Once, Longer
<1>3. DoneIn(g, rows)
  BY DEF Tells, DoneIn, Longer
<1> QED
  BY <1>1, <1>2, <1>3 DEF Tells, Longer

(* One row changes.                                                         *)
Changes(rows, next, i) == /\ next \in [Items -> RowType]
                          /\ \A j \in Items \ {i} : next[j] = rows[j]

LEMMA TellsChange ==
  ASSUME NEW h, NEW g, NEW e, Longer(h, g, e), NEW rows, NEW next, Tells(h, rows),
         e.of \in Items, Changes(rows, next, e.of), e.what \in Telling,
         Agrees(g, e.of, next[e.of]), rows[e.of].state = "DONE" => next[e.of].state = "DONE"
  PROVE  Tells(g, next)
<1>1. ASSUME NEW i \in Items PROVE Agrees(g, i, next[i])
  <2>1. CASE i = e.of
    BY <2>1
  <2>2. CASE i # e.of
    BY <2>2, AgreesKept DEF Tells, Changes
  <2> QED
    BY <2>1, <2>2
<1>2. Once(g)
  BY OnceStill DEF Tells, Reacting, Telling
<1>3. DoneIn(g, next)
  <2>1. e.what # "REMINDER_DONE"
    BY DEF Telling
  <2>2. \A i \in Items : rows[i].state = "DONE" => next[i].state = "DONE"
    BY DEF Changes
  <2> QED
    BY <2>1, <2>2, DoneStill DEF Tells
<1> QED
  BY <1>1, <1>2, <1>3 DEF Tells, Longer, Changes

(* A row changes and nothing is written of it.                              *)
LEMMA TellsStill ==
  ASSUME NEW h, NEW rows, NEW next, Tells(h, rows), NEW i \in Items, Changes(rows, next, i),
         Agrees(h, i, next[i]), rows[i].state = "DONE" => next[i].state = "DONE"
  PROVE  Tells(h, next)
  BY DEF Tells, Changes, DoneIn

-----------------------------------------------------------------------------
(* Presses and their keys.                                                 *)

LEMMA DecisionNumbers ==
  /\ Presses \subseteq Nat /\ MaxCrashes \in Nat /\ MaxOutside \in Nat
  /\ Focus \in [Reminders -> Items \cup {Nil}] /\ Category \in [Items -> Categories]
  /\ Types # {} /\ Interests # {}
  BY InboundAssumption DEF D!DecisionsAssumption

LEMMA ButtonFacts ==
  ASSUME NEW b \in Buttons
  PROVE  /\ b.on = "item" => /\ b.of \in Items
                             /\ b.act \in {"done", "archive", "snooze", "cancel", "interest"}
                             /\ b.act = "interest" => b.to \in Interests
         /\ b.on = "feedback" => /\ b.of \in Items /\ b.act \in {"useful", "category", "type"}
                                 /\ b.act = "category" => b.to \in Categories
                                 /\ b.act = "type" => b.to \in Types
         /\ b.on = "reminder" =>
               /\ b.of \in Reminders
               /\ b.act \in {"done", "snooze", "dismiss", "dislike", "open", "open_original",
                             "later", "cancel", "ok"}
  BY InboundAssumption DEF D!DecisionsAssumption, D!AnyButton

(* Histories only grow.                                                     *)
Extends(h, g) == \A n \in DOMAIN h : n \in DOMAIN g /\ g[n] = h[n]

LEMMA LongerExtends ==
  ASSUME NEW h, NEW g, NEW e, Longer(h, g, e)
  PROVE  Extends(h, g) /\ (\E n \in DOMAIN g : g[n] = e) /\ g \in Seq(EventType)
  BY DEF Longer, Extends

LEMMA ExtendsTwice ==
  ASSUME NEW f, NEW g, NEW h, Extends(f, g), Extends(g, h)
  PROVE  Extends(f, h)
  BY DEF Extends

LEMMA KeysStay ==
  ASSUME receipts \subseteq receipts', Extends(history, history'), NEW k, D!Consumed(k)
  PROVE  D!Consumed(k)'
  BY DEF D!Consumed, D!Recorded, Extends

LEMMA PressedIsButton ==
  ASSUME DecisionIInv, NEW k \in Presses, pressTask[k] # "none"
  PROVE  press[k] \in Buttons /\ pressUpdate[k] # "none"
  BY DEF DecisionIInv, PressesFit

LEMMA AnswersLeaveKeysStill ==
  ASSUME DecisionIInv, UNCHANGED <<press, handled>>, receipts \subseteq receipts',
         Extends(history, history')
  PROVE  AnswersLeaveKeys'
<1>1. D!Keyed' = D!Keyed
  BY DEF D!Keyed
<1> QED
  BY <1>1, KeysStay DEF DecisionIInv, AnswersLeaveKeys

LEMMA AnsweredLeavesKey ==
  ASSUME DecisionIInv, NEW k \in Presses, press' = press, handled' = handled \cup {k},
         receipts \subseteq receipts', Extends(history, history'), k \in D!Keyed => D!Consumed(k)'
  PROVE  AnswersLeaveKeys'
<1>1. D!Keyed' = D!Keyed
  BY DEF D!Keyed
<1>2. \A j \in D!Keyed \cap handled : D!Consumed(j)'
  BY KeysStay DEF DecisionIInv, AnswersLeaveKeys
<1> QED
  BY <1>1, <1>2 DEF AnswersLeaveKeys

LEMMA SameHistory == history' = history => Extends(history, history')
  BY DEF Extends

(* A handler that goes on to pc, having changed rows and history or not.    *)
LEMMA Moved ==
  ASSUME DecisionIInv, NEW k \in Presses, NEW pc \in {"none", "copied", "checked"},
         pressTask[k] # "none", D!Goto(k, pc), UNCHANGED <<reminder, press, outside>>,
         pc = "checked" => press[k].on = "item" /\ press[k].act = "interest",
         pc = "copied" => press[k].on = "reminder",
         receipts' \in {receipts, receipts \cup {k}}, handled' \in {handled, handled \cup {k}},
         snoozes' \in Nat
  PROVE  DecisionTyped' /\ PressesFit'
<1>1. pressUpdate[k] # "none" /\ press[k] \in Buttons
  BY PressedIsButton
<1>2. /\ pressTask'[k] = pc /\ \A j \in Presses \ {k} : pressTask'[j] = pressTask[j]
      /\ pressTask' \in [Presses -> {"none", "running", "copied", "checked"}]
  BY DEF DecisionIInv, DecisionTyped, D!Goto
<1>3. DecisionTyped'
  BY <1>2 DEF DecisionIInv, DecisionTyped, D!Goto
<1>4. PressesFit'
  BY <1>1, <1>2 DEF DecisionIInv, PressesFit, D!Goto
<1> QED
  BY <1>3, <1>4

LEMMA DecisionInitHolds ==
  ASSUME D!Init
  PROVE  DecisionIInv
<1>1. item \in [Items -> RowType]
  BY DecisionNumbers DEF D!Init, RowType, D!SomeType, D!SomeInterest
<1>2. /\ \A i, kinds : EventsOf(history, i, kinds) = {}
      /\ \A i, kind : SinceOf(history, i, kind) = {}
      /\ history \in Seq(EventType) /\ DOMAIN history = {}
  BY DEF D!Init, EventsOf, SinceOf
<1>3. \A i \in Items : item[i].state = "ACTIVE" /\ item[i].ready
  BY DEF D!Init
<1>4. \A i \in Items : Agrees(history, i, item[i])
  BY <1>2, <1>3 DEF Agrees, ChainOf, Living
<1>5. Tells(history, item)
  BY <1>1, <1>2, <1>4 DEF Tells, Once, DoneIn
<1>6. DecisionTyped /\ PressesFit /\ AnswersLeaveKeys
  BY DecisionNumbers DEF D!Init, D!TransportInit, DecisionTyped, PressesFit, AnswersLeaveKeys
<1> QED
  BY <1>5, <1>6 DEF DecisionIInv

LEMMA PressHolds ==
  ASSUME DecisionIInv, NEW k \in Presses, NEW b \in Buttons, D!Press(k, b)
  PROVE  DecisionIInv'
<1>1. /\ pressUpdate[k] = "none" /\ pressUpdate' = [pressUpdate EXCEPT ![k] = "queued"]
      /\ press' = [press EXCEPT ![k] = b]
      /\ UNCHANGED <<pressTask, pressCrashes, item, history, receipts, snoozes, reminder, outside,
                     handled>>
  BY DecisionNumbers DEF D!Press, D!Arrive, D!decisions
<1>2. DecisionTyped'
  BY <1>1 DEF DecisionIInv, DecisionTyped
<1>3. PressesFit'
  BY <1>1 DEF DecisionIInv, DecisionTyped, PressesFit
<1>4. k \notin handled
  BY <1>1 DEF DecisionIInv, PressesFit
<1>5. \A j \in D!Keyed' \cap handled' : j \in D!Keyed \cap handled /\ (D!Consumed(j)' <=> D!Consumed(j))
  BY <1>1, <1>4 DEF D!Keyed, DecisionIInv, DecisionTyped, D!Consumed, D!Recorded
<1>6. AnswersLeaveKeys'
  BY <1>5 DEF DecisionIInv, AnswersLeaveKeys
<1> QED
  BY <1>1, <1>2, <1>3, <1>6 DEF DecisionIInv

LEMMA TransportHolds ==
  ASSUME DecisionIInv, D!Transport
  PROVE  DecisionIInv'
<1>1. UNCHANGED <<item, history, receipts, snoozes, reminder, press, outside, handled>>
  BY DEF D!Transport, D!decisions
<1>2. Tells(history, item)' /\ AnswersLeaveKeys'
  BY <1>1, SameHistory, AnswersLeaveKeysStill DEF DecisionIInv
<1>3. /\ pressUpdate' \in [Presses -> {"none", "queued", "fetched", "confirmed"}]
      /\ pressTask' \in [Presses -> {"none", "running", "copied", "checked"}]
      /\ pressCrashes' \in 0..MaxCrashes
      /\ \A j \in Presses : /\ pressUpdate'[j] = "none" <=> pressUpdate[j] = "none"
                            /\ \/ pressTask'[j] \in {"none", pressTask[j]}
                               \/ pressTask'[j] = "running" /\ pressUpdate'[j] # "none"
  <2>1. CASE D!Poll
    <3>1. ASSUME NEW j \in Presses
          PROVE  /\ pressUpdate'[j] \in {"none", "queued", "fetched", "confirmed"}
                 /\ pressUpdate'[j] = "none" <=> pressUpdate[j] = "none"
                 /\ \/ pressTask'[j] = pressTask[j]
                    \/ pressTask'[j] = "running" /\ pressUpdate'[j] # "none"
      <4>1. pressUpdate[j] \in {"none", "queued", "fetched", "confirmed"}
        BY DEF DecisionIInv, DecisionTyped
      <4>2. /\ pressUpdate'[j] = (CASE pressUpdate[j] = "queued" -> "fetched"
                              [] pressUpdate[j] = "fetched" -> "confirmed" [] OTHER -> pressUpdate[j])
            /\ pressTask'[j] = (IF pressUpdate[j] = "queued" THEN "running" ELSE pressTask[j])
        BY <2>1 DEF D!Poll
      <4> QED
        BY <4>1, <4>2
    <3>2. /\ pressCrashes' = pressCrashes
          /\ pressUpdate' \in [Presses -> {"none", "queued", "fetched", "confirmed"}]
      BY <2>1, <3>1 DEF D!Poll
    <3>3. pressTask' \in [Presses -> {"none", "running", "copied", "checked"}]
      BY <2>1, <3>1 DEF D!Poll, DecisionIInv, DecisionTyped
    <3> QED
      BY <3>1, <3>2, <3>3 DEF DecisionIInv, DecisionTyped
  <2>2. CASE D!CrashRestart
    BY <2>2, DecisionNumbers DEF D!CrashRestart, DecisionIInv, DecisionTyped
  <2> QED
    BY <2>1, <2>2 DEF D!Transport
<1>4. DecisionTyped'
  BY <1>1, <1>3 DEF DecisionIInv, DecisionTyped
<1>5. PressesFit'
  BY <1>1, <1>3 DEF DecisionIInv, PressesFit
<1> QED
  BY <1>2, <1>4, <1>5 DEF DecisionIInv

-----------------------------------------------------------------------------
(* The lifecycle of an Item.                                               *)

(* A history with what a transition writes of it.                           *)
Lifting == {"done", "archive", "snooze", "cancel"}

LEMMA ActedRow ==
  ASSUME DecisionIInv, NEW i \in Items, NEW act \in Lifting, D!May(i, act)
  PROVE  /\ Changes(item, D!After(i, act), i) /\ D!Counted(act) \in Nat /\ Living(item[i])
         /\ D!After(i, act)[i].category = item[i].category /\ D!After(i, act)[i].type = item[i].type
         /\ D!After(i, act)[i].interest = item[i].interest /\ D!After(i, act)[i].ready = item[i].ready
         /\ D!After(i, act)[i].state = (CASE act = "done" -> "DONE" [] act = "archive" -> "ARCHIVED"
                                        [] act = "snooze" -> "SNOOZED" [] OTHER -> "ACTIVE")
<1> DEFINE to == CASE act = "done" -> "DONE" [] act = "archive" -> "ARCHIVED"
                   [] act = "snooze" -> "SNOOZED" [] OTHER -> "ACTIVE"
           until == IF act = "snooze" THEN snoozes + 1 ELSE 0
           row == [item[i] EXCEPT !.state = to, !.until = until]
<1>1. snoozes \in Nat /\ item \in [Items -> RowType]
  BY DecisionTyping DEF DecisionIInv, DecisionTyped
<1>2. D!Counted(act) \in Nat /\ Living(item[i]) /\ until \in Nat
  <2>1. D!Counted(act) \in Nat /\ until \in Nat
    BY <1>1 DEF D!Counted
  <2>2. Living(item[i])
    BY DEF D!May, D!Alive, Living, Lifting
  <2> QED
    BY <2>1, <2>2
<1>3. to \in {"ACTIVE", "SNOOZED", "DONE", "ARCHIVED"}
  BY DEF Lifting
<1> HIDE DEF to, until
<1>4. row \in RowType /\ row.state = to /\ row.category = item[i].category
      /\ row.type = item[i].type /\ row.interest = item[i].interest /\ row.ready = item[i].ready
  BY <1>1, <1>2, <1>3 DEF RowType
<1>5. D!After(i, act) = [item EXCEPT ![i] = row]
  BY <1>1 DEF D!After, to, until
<1> HIDE DEF row
<1>6. D!After(i, act)[i] = row /\ Changes(item, D!After(i, act), i)
  BY <1>1, <1>4, <1>5 DEF Changes
<1> QED
  BY <1>2, <1>4, <1>6 DEF to

LEMMA EventTyped ==
  ASSUME NEW what \in Reacting \cup Telling \cup {"SNOOZED", "USEFUL"},
         NEW i \in Items \cup {Nil},
         NEW r \in Reminders \cup {Nil},
         NEW from \in Categories \cup Types \cup Interests \cup {Nil},
         NEW to \in Categories \cup Types \cup Interests \cup {Nil}, NEW k \in Presses \cup {Nil}
  PROVE  /\ D!Event(what, i, r, from, to, k) \in EventType
         /\ D!Event(what, i, r, from, to, k).what = what /\ D!Event(what, i, r, from, to, k).of = i
         /\ D!Event(what, i, r, from, to, k).from = from /\ D!Event(what, i, r, from, to, k).to = to
         /\ D!Event(what, i, r, from, to, k).reminder = r /\ D!Event(what, i, r, from, to, k).key = k
  BY DEF D!Event, EventType

(* What h adds to the history is no reaction.                               *)
NoReaction(h) == \A n \in DOMAIN h : n \in DOMAIN history \/ h[n].what \notin Reacting

LEMMA ActedTells ==
  ASSUME DecisionIInv, NEW i \in Items, NEW act \in Lifting, D!May(i, act)
  PROVE  /\ Tells(history \o D!Lifecycle(i, act), D!After(i, act))
         /\ Extends(history, history \o D!Lifecycle(i, act))
         /\ NoReaction(history \o D!Lifecycle(i, act))
<1> DEFINE next == D!After(i, act)
           g == history \o D!Lifecycle(i, act)
<1>1. /\ Changes(item, next, i) /\ Living(item[i])
      /\ next[i].category = item[i].category /\ next[i].type = item[i].type
      /\ next[i].interest = item[i].interest /\ next[i].ready = item[i].ready
      /\ next[i].state = (CASE act = "done" -> "DONE" [] act = "archive" -> "ARCHIVED"
                            [] act = "snooze" -> "SNOOZED" [] OTHER -> "ACTIVE")
  BY ActedRow
<1>2. Tells(history, item) /\ history \in Seq(EventType) /\ Agrees(history, i, item[i])
  BY DEF DecisionIInv, Tells
<1>3. CASE act \in {"done", "archive"}
  <2> DEFINE what == IF act = "done" THEN "DONE" ELSE "ARCHIVED"
             e == D!Event(what, i, Nil, Nil, Nil, Nil)
  <2>1. g = history \o <<e>>
    BY <1>3 DEF D!Lifecycle
  <2>2. what \in Settling /\ what \in Telling /\ next[i].state = what /\ what \notin Reacting
    BY <1>1, <1>3 DEF Settling, Telling, Reacting
  <2> HIDE DEF what
  <2>3. e \in EventType /\ e.what = what /\ e.of = i
    BY <2>2, EventTyped
  <2> HIDE DEF e, g, next
  <2>4. Longer(history, g, e)
    BY <1>2, <2>1, <2>3, Written
  <2>5. Agrees(g, i, next[i])
    BY <1>1, <1>2, <2>2, <2>3, <2>4, AgreesSettled
  <2>6. item[i].state # "DONE"
    BY <1>1 DEF Living
  <2>7. Tells(g, next)
    BY <1>1, <1>2, <2>2, <2>3, <2>4, <2>5, <2>6, TellsChange
  <2>8. Extends(history, g) /\ NoReaction(g)
    BY <2>2, <2>3, <2>4 DEF Longer, Extends, NoReaction
  <2> QED
    BY <2>7, <2>8 DEF g, next
<1>4. CASE act \in {"snooze", "cancel"}
  <2> HIDE DEF next
  <2>1. Living(next[i]) /\ item[i].state # "DONE"
    BY <1>1, <1>4 DEF Living
  <2>2. Agrees(history, i, next[i])
    BY <1>1, <1>2, <2>1, AgreesAlike
  <2>3. Tells(history, next)
    BY <1>1, <1>2, <2>1, <2>2, TellsStill
  <2>4. CASE act = "cancel"
    <3>1. g = history
      BY <1>2, <2>4 DEF D!Lifecycle
    <3> QED
      BY <2>3, <3>1 DEF next, Extends, NoReaction
  <2>5. CASE act = "snooze"
    <3> DEFINE e == D!Event("SNOOZED", i, Nil, Nil, Nil, Nil)
    <3>1. e \in EventType /\ e.what = "SNOOZED"
      BY DEF D!Event, EventType
    <3>2. g = history \o <<e>>
      BY <2>5 DEF D!Lifecycle
    <3> HIDE DEF e, g
    <3>3. Longer(history, g, e)
      BY <1>2, <3>1, <3>2, Written
    <3>4. Tells(g, next)
      BY <2>3, <3>1, <3>3, TellsNothing
    <3>5. Extends(history, g) /\ NoReaction(g)
      BY <3>1, <3>3 DEF Longer, Extends, Reacting, NoReaction
    <3> QED
      BY <3>4, <3>5 DEF g, next
  <2> QED
    BY <1>4, <2>4, <2>5
<1> QED
  BY <1>3, <1>4 DEF Lifting

LEMMA Transits ==
  ASSUME DecisionIInv, NEW i \in Items, NEW act \in Lifting, D!Transition(i, act)
  PROVE  Tells(history, item)' /\ Extends(history, history') /\ snoozes' \in Nat
<1>1. CASE D!May(i, act)
  <2>1. /\ item' = D!After(i, act)
        /\ history' = history \o D!Lifecycle(i, act)
        /\ snoozes' = D!Counted(act)
    BY <1>1 DEF D!Transition
  <2> QED
    BY <1>1, <2>1, ActedTells, ActedRow
<1>2. CASE ~D!May(i, act)
  BY <1>2, SameHistory DEF D!Transition, DecisionIInv, DecisionTyped
<1> QED
  BY <1>1, <1>2

LEMMA ItemActionHolds ==
  ASSUME DecisionIInv, NEW k \in Presses, D!ItemAction(k)
  PROVE  DecisionIInv'
<1>1. /\ pressTask[k] = "running" /\ press[k].on = "item" /\ press[k].act # "interest"
      /\ D!Transition(press[k].of, press[k].act) /\ receipts' = receipts
      /\ D!Goto(k, "none") /\ UNCHANGED <<reminder, press, outside>> /\ handled' = handled \cup {k}
  BY DEF D!ItemAction, D!Handling, D!At, D!Commit, D!Leave, D!Return
<1>2. press[k].of \in Items /\ press[k].act \in Lifting
  BY <1>1, PressedIsButton, ButtonFacts DEF Lifting
<1>3. Tells(history, item)' /\ Extends(history, history') /\ snoozes' \in Nat
  BY <1>1, <1>2, Transits
<1>4. DecisionTyped' /\ PressesFit'
  BY <1>1, <1>3, Moved
<1>5. AnswersLeaveKeys'
  <2>1. k \notin D!Keyed
    BY <1>1 DEF D!Keyed
  <2> QED
    BY <1>1, <1>3, <2>1, AnsweredLeavesKey
<1> QED
  BY <1>3, <1>4, <1>5 DEF DecisionIInv

LEMMA HttpActionHolds ==
  ASSUME DecisionIInv, NEW i \in Items, NEW act \in {"done", "archive", "snooze"},
         D!HttpAction(i, act)
  PROVE  DecisionIInv'
<1>1. /\ D!Transition(i, act) /\ outside < MaxOutside /\ outside' = outside + 1
      /\ UNCHANGED <<receipts, reminder, press, pressUpdate, pressTask, pressCrashes, handled>>
  BY DEF D!HttpAction, D!transport
<1>2. Tells(history, item)' /\ Extends(history, history') /\ snoozes' \in Nat
  BY <1>1, Transits DEF Lifting
<1>3. DecisionTyped' /\ PressesFit'
  BY <1>1, <1>2, DecisionNumbers DEF DecisionIInv, DecisionTyped, PressesFit
<1>4. AnswersLeaveKeys'
  BY <1>1, <1>2, AnswersLeaveKeysStill
<1> QED
  BY <1>2, <1>3, <1>4 DEF DecisionIInv

-----------------------------------------------------------------------------
(* Interest, feedback and corrections.                                      *)

(* A press that leaves nothing but its receipt, or not even that.           *)
LEMMA InertHolds ==
  ASSUME DecisionIInv, NEW k \in Presses, NEW pc \in {"none", "copied", "checked"},
         pressTask[k] # "none", D!Goto(k, pc),
         UNCHANGED <<reminder, press, outside, item, history, snoozes>>,
         pc = "checked" => press[k].on = "item" /\ press[k].act = "interest",
         pc = "copied" => press[k].on = "reminder",
         \/ receipts' = receipts /\ handled' = handled
         \/ receipts' = receipts /\ handled' = handled \cup {k} /\ D!Consumed(k)
         \/ receipts' = receipts \cup {k} /\ handled' = handled \cup {k}
  PROVE  DecisionIInv'
<1>1. receipts' \in {receipts, receipts \cup {k}} /\ handled' \in {handled, handled \cup {k}}
  OBVIOUS
<1>2. DecisionTyped' /\ PressesFit'
  <2>1. snoozes' \in Nat
    BY DEF DecisionIInv, DecisionTyped
  <2> QED
    BY <1>1, <2>1, Moved
<1>3. Extends(history, history') /\ receipts \subseteq receipts'
  BY SameHistory
<1>4. AnswersLeaveKeys'
  <2>1. CASE handled' = handled
    BY <1>3, <2>1, AnswersLeaveKeysStill
  <2>2. CASE handled' = handled \cup {k} /\ D!Consumed(k)'
    BY <1>3, <2>2, AnsweredLeavesKey
  <2>3. CASE handled' = handled \cup {k} /\ D!Consumed(k)
    BY <1>3, <2>2, <2>3, KeysStay
  <2>4. CASE handled' = handled \cup {k} /\ receipts' = receipts \cup {k}
    BY <2>2, <2>4 DEF D!Consumed
  <2> QED
    BY <2>1, <2>3, <2>4
<1> QED
  BY <1>2, <1>4 DEF DecisionIInv

LEMMA ReceiptHolds ==
  ASSUME DecisionIInv, NEW k \in Presses, pressTask[k] # "none",
         D!OnlyReceipt(k) \/ D!AlreadyConsumed(k) \/ D!Rollback(k)
  PROVE  DecisionIInv'
<1>1. /\ D!Goto(k, "none") /\ UNCHANGED <<reminder, press, outside, item, history, snoozes>>
      /\ \/ receipts' = receipts /\ handled' = handled
         \/ receipts' = receipts /\ handled' = handled \cup {k} /\ D!Consumed(k)
         \/ receipts' = receipts \cup {k} /\ handled' = handled \cup {k}
  BY DEF D!OnlyReceipt, D!AlreadyConsumed, D!Rollback, D!Commit, D!Leave, D!Return, D!decisions
<1> QED
  BY <1>1, InertHolds

LEMMA CheckInterestHolds ==
  ASSUME DecisionIInv, NEW k \in Presses, D!CheckInterest(k)
  PROVE  DecisionIInv'
<1>1. pressTask[k] # "none" /\ press[k].on = "item" /\ press[k].act = "interest"
  BY DEF D!CheckInterest, D!Handling, D!At
<1>2. \/ /\ D!Goto(k, "checked")
         /\ UNCHANGED <<reminder, press, outside, item, history, snoozes, receipts, handled>>
      \/ D!Rollback(k)
  BY DEF D!CheckInterest, D!decisions
<1> QED
  BY <1>1, <1>2, InertHolds, ReceiptHolds

(* A press that is committed with one event written.                        *)
LEMMA WritesHolds ==
  ASSUME DecisionIInv, NEW k \in Presses, pressTask[k] # "none", D!Commit(k), snoozes' \in Nat,
         receipts' \in {receipts, receipts \cup {k}},
         Tells(history, item)', Extends(history, history'),
         k \in D!Keyed => \E n \in DOMAIN history' : history'[n].key = k
  PROVE  DecisionIInv'
<1>1. D!Goto(k, "none") /\ UNCHANGED <<reminder, press, outside>> /\ handled' = handled \cup {k}
  BY DEF D!Commit, D!Leave, D!Return
<1>2. DecisionTyped' /\ PressesFit'
  BY <1>1, Moved
<1>3. k \in D!Keyed => D!Consumed(k)'
  BY DEF D!Consumed, D!Recorded
<1>4. AnswersLeaveKeys'
  BY <1>1, <1>3, AnsweredLeavesKey
<1> QED
  BY <1>2, <1>4 DEF DecisionIInv

LEMMA InterestTells ==
  ASSUME DecisionIInv, NEW i \in Items, NEW from, NEW to \in Interests, from = item[i].interest,
         item' = [item EXCEPT ![i].interest = to],
         history' = IF from = to THEN history
                    ELSE Append(history, D!Event("INTEREST_CHANGED", i, Nil, from, to, Nil))
  PROVE  Tells(history, item)' /\ Extends(history, history')
<1> DEFINE row == [item[i] EXCEPT !.interest = to]
           e == D!Event("INTEREST_CHANGED", i, Nil, from, to, Nil)
<1>3. Tells(history, item) /\ history \in Seq(EventType) /\ item \in [Items -> RowType]
  BY DecisionTyping DEF DecisionIInv
<1>4. /\ row \in RowType /\ row.state = item[i].state /\ row.category = item[i].category
      /\ row.type = item[i].type /\ row.ready = item[i].ready /\ row.interest = to
      /\ from \in Interests
  BY <1>3 DEF RowType
<1>5. item' = [item EXCEPT ![i] = row]
  OBVIOUS
<1> HIDE DEF row
<1>6. Changes(item, item', i) /\ item'[i] = row
  BY <1>3, <1>4, <1>5 DEF Changes
<1>7. Agrees(history, i, item[i])
  BY <1>3 DEF Tells
<1>1. CASE from = to
  <2>1. row.interest = item[i].interest
    BY <1>1, <1>4
  <2>2. Agrees(history, i, item'[i]) /\ (item[i].state = "DONE" => item'[i].state = "DONE")
    <3>1. Agrees(history, i, row)
      BY <1>4, <1>7, <2>1, AgreesAlike
    <3> QED
      BY <1>4, <1>6, <3>1
  <2>3. Tells(history, item')
    BY <1>3, <1>6, <2>2, TellsStill
  <2> QED
    BY <1>1, <2>3, SameHistory
<1>2. CASE from # to
  <2>1. e \in EventType /\ e.what = "INTEREST_CHANGED" /\ e.of = i /\ e.from = from /\ e.to = to
    <3>1. "INTEREST_CHANGED" \in Telling
      BY DEF Telling
    <3> QED
      BY <1>4, <3>1 DEF D!Event, EventType
  <2>2. history' = Append(history, e)
    BY <1>2
  <2> HIDE DEF e
  <2>3. Longer(history, history', e)
    BY <1>3, <2>1, <2>2, Written
  <2>4. Agrees(history, e.of, item[i])
    BY <1>7, <2>1
  <2>5. Agrees(history', e.of, row)
    BY <1>4, <2>1, <2>3, <2>4, AgreesCorrected
  <2>6. /\ e.of \in Items /\ Changes(item, item', e.of) /\ e.what \in Telling
        /\ Agrees(history', e.of, item'[e.of])
        /\ item[e.of].state = "DONE" => item'[e.of].state = "DONE"
    BY <1>4, <1>6, <2>1, <2>5 DEF Telling
  <2>7. Tells(history', item')
    BY <1>3, <2>3, <2>6, TellsChange
  <2> QED
    BY <2>3, <2>7, LongerExtends
<1> QED
  BY <1>1, <1>2

LEMMA SetInterestHolds ==
  ASSUME DecisionIInv, NEW k \in Presses, D!SetInterest(k)
  PROVE  DecisionIInv'
<1>1. pressTask[k] = "checked" /\ receipts' = receipts /\ snoozes' = snoozes /\ D!Commit(k)
  BY DEF D!SetInterest, D!At
<1>2. press[k].of \in Items /\ press[k].to \in Interests /\ k \notin D!Keyed
  BY <1>1, PressedIsButton, ButtonFacts DEF DecisionIInv, PressesFit, D!Keyed
<1>3. Tells(history, item)' /\ Extends(history, history')
  BY <1>2, InterestTells DEF D!SetInterest
<1>4. snoozes' \in Nat
  BY <1>1 DEF DecisionIInv, DecisionTyped
<1> QED
  BY <1>1, <1>2, <1>3, <1>4, WritesHolds

LEMMA RecordFeedbackHolds ==
  ASSUME DecisionIInv, NEW k \in Presses, D!RecordFeedback(k)
  PROVE  DecisionIInv'
<1> DEFINE i == press[k].of
           e == D!Event("USEFUL", i, Nil, Nil, Nil, k)
<1>1. pressTask[k] # "none" /\ press[k].on = "feedback"
  BY DEF D!RecordFeedback, D!Handling, D!At
<1>2. CASE D!NotReady(k) \/ D!AlreadyConsumed(k)
  BY <1>1, <1>2, ReceiptHolds DEF D!NotReady
<1>3. CASE history' = Append(history, e) /\ UNCHANGED <<item, receipts, snoozes>> /\ D!Commit(k)
  <2>1. e \in EventType /\ e.what = "USEFUL" /\ e.key = k
    BY <1>1, PressedIsButton, ButtonFacts DEF D!Event, EventType
  <2>2. Tells(history, item) /\ history \in Seq(EventType) /\ snoozes' \in Nat
    BY <1>3, DecisionTyping DEF DecisionIInv, DecisionTyped
  <2> HIDE DEF e
  <2>3. Longer(history, history', e)
    BY <1>3, <2>1, <2>2, Written
  <2>4. Tells(history', item')
    BY <1>3, <2>1, <2>2, <2>3, TellsNothing
  <2>5. Extends(history, history') /\ \E n \in DOMAIN history' : history'[n].key = k
    BY <2>1, <2>3, LongerExtends
  <2> QED
    BY <1>1, <1>3, <2>2, <2>4, <2>5, WritesHolds
<1> QED
  BY <1>2, <1>3 DEF D!RecordFeedback

LEMMA CorrectionTells ==
  ASSUME DecisionIInv, NEW i \in Items, NEW field \in {"category", "type"}, NEW to,
         NEW k \in Presses,
         field = "category" => to \in Categories, field = "type" => to \in Types,
         item[i].ready, D!Corrected(i, field, to, k)
  PROVE  /\ Tells(history, item)' /\ Extends(history, history')
         /\ \E n \in DOMAIN history' : history'[n].key = k
<1>1. Tells(history, item) /\ history \in Seq(EventType) /\ item \in [Items -> RowType]
  BY DecisionTyping DEF DecisionIInv
<1>2. PICK from, row, e :
        /\ row \in RowType /\ row.state = item[i].state /\ row.ready = item[i].ready
        /\ row.interest = item[i].interest
        /\ \/ field = "category" /\ row.category = to /\ row.type = item[i].type
              /\ from = item[i].category
           \/ field = "type" /\ row.type = to /\ row.category = item[i].category
              /\ from = item[i].type
        /\ e = D!Event(field, i, Nil, from, to, k)
        /\ item' = [item EXCEPT ![i] = row] /\ history' = Append(history, e)
  <2>1. CASE field = "category"
    <3> DEFINE row == [item[i] EXCEPT !.category = to]
    <3>1. /\ row \in RowType /\ row.state = item[i].state /\ row.ready = item[i].ready
          /\ row.interest = item[i].interest /\ row.category = to /\ row.type = item[i].type
      BY <1>1, <2>1 DEF RowType
    <3>2. item' = [item EXCEPT ![i] = row]
      BY <2>1 DEF D!Corrected
    <3>3. history' = Append(history, D!Event(field, i, Nil, item[i].category, to, k))
      BY <2>1 DEF D!Corrected
    <3> QED
      BY <2>1, <3>1, <3>2, <3>3
  <2>2. CASE field = "type"
    <3> DEFINE row == [item[i] EXCEPT !.type = to]
    <3>1. /\ row \in RowType /\ row.state = item[i].state /\ row.ready = item[i].ready
          /\ row.interest = item[i].interest /\ row.type = to /\ row.category = item[i].category
      BY <1>1, <2>2 DEF RowType
    <3>2. item' = [item EXCEPT ![i] = row]
      BY <2>2 DEF D!Corrected
    <3>3. history' = Append(history, D!Event(field, i, Nil, item[i].type, to, k))
      BY <2>2 DEF D!Corrected
    <3> QED
      BY <2>2, <3>1, <3>2, <3>3
  <2> QED
    BY <2>1, <2>2
<1>3. Changes(item, item', i) /\ item'[i] = row
  BY <1>1, <1>2 DEF Changes
<1>4. from \in Categories \cup Types /\ to \in Categories \cup Types
  BY <1>1, <1>2 DEF RowType
<1>5. e \in EventType /\ e.what = field /\ e.of = i /\ e.from = from /\ e.to = to /\ e.key = k
  <2>1. field \in Telling
    BY DEF Telling
  <2> QED
    BY <1>2, <1>4, <2>1 DEF D!Event, EventType
<1>6. Longer(history, history', e)
  BY <1>1, <1>2, <1>5, Written
<1>7. Agrees(history', e.of, row)
  <2>1. Agrees(history, e.of, item[i])
    BY <1>1, <1>5 DEF Tells
  <2>2. \/ /\ e.what = "category" /\ e.from = item[i].category /\ e.to = row.category /\ item[i].ready
           /\ row.type = item[i].type /\ row.interest = item[i].interest
        \/ /\ e.what = "type" /\ e.from = item[i].type /\ e.to = row.type /\ item[i].ready
           /\ row.category = item[i].category /\ row.interest = item[i].interest
    BY <1>2, <1>5
  <2> QED
    BY <1>2, <1>6, <2>1, <2>2, AgreesCorrected
<1>8. Tells(history', item')
  <2>1. e.of \in Items /\ Changes(item, item', e.of) /\ e.what \in Telling
        /\ Agrees(history', e.of, item'[e.of])
    BY <1>3, <1>5, <1>7 DEF Telling
  <2>2. item[e.of].state = "DONE" => item'[e.of].state = "DONE"
    BY <1>2, <1>3, <1>5
  <2> QED
    BY <1>1, <1>6, <2>1, <2>2, TellsChange
<1> QED
  BY <1>5, <1>6, <1>8, LongerExtends

LEMMA CorrectHolds ==
  ASSUME DecisionIInv, NEW k \in Presses, D!Correct(k)
  PROVE  DecisionIInv'
<1>1. pressTask[k] # "none" /\ press[k].on = "feedback" /\ press[k].act \in {"category", "type"}
  BY DEF D!Correct, D!Handling, D!At
<1>2. CASE D!NotReady(k) \/ D!AlreadyConsumed(k) \/ D!OnlyReceipt(k)
  BY <1>1, <1>2, ReceiptHolds DEF D!NotReady
<1>3. CASE /\ item[press[k].of].ready /\ D!Corrected(press[k].of, press[k].act, press[k].to, k)
           /\ receipts' = receipts \cup {k} /\ snoozes' = snoozes /\ D!Commit(k)
  <2>1. /\ press[k].of \in Items
        /\ press[k].act = "category" => press[k].to \in Categories
        /\ press[k].act = "type" => press[k].to \in Types
    BY <1>1, PressedIsButton, ButtonFacts
  <2>2. /\ Tells(history, item)' /\ Extends(history, history')
        /\ \E n \in DOMAIN history' : history'[n].key = k
    BY <1>1, <1>3, <2>1, CorrectionTells
  <2>3. snoozes' \in Nat
    BY <1>3 DEF DecisionIInv, DecisionTyped
  <2> QED
    BY <1>1, <1>3, <2>2, <2>3, WritesHolds
<1> QED
  BY <1>2, <1>3 DEF D!Correct

-----------------------------------------------------------------------------
(* Reactions to a reminder.                                                *)

LEMMA ReactionEvent ==
  ASSUME NEW r \in Reminders, NEW act \in {"done", "snooze", "dismiss", "dislike", "open",
         "open_original"},
         NEW k \in Presses
  PROVE  /\ D!React(r, act, k) \in EventType /\ D!React(r, act, k).key = k
         /\ D!React(r, act, k).reminder = r /\ D!React(r, act, k).what = D!Reaction(act)
         /\ D!React(r, act, k).of = Focus[r] /\ D!Reaction(act) \in Reacting
         /\ D!Reaction(act) = "REMINDER_DONE" <=> act = "done"
<1>1. D!Reaction(act) \in Reacting /\ (D!Reaction(act) = "REMINDER_DONE" <=> act = "done")
  BY DEF D!Reaction, Reacting
<1>2. Focus[r] \in Items \cup {Nil}
  BY DecisionNumbers
<1> QED
  BY <1>1, <1>2 DEF D!React, D!Event, EventType

(* A first reaction of its kind, written after what it did to the Item.     *)
LEMMA ReactionTells ==
  ASSUME DecisionIInv, NEW r \in Reminders, NEW k \in Presses,
         NEW act \in {"done", "snooze", "dismiss", "dislike", "open", "open_original"},
         ~D!Reacted(r, act),
         NEW h, NEW rows, Tells(h, rows), Extends(history, h),
         NoReaction(h),
         act = "done" => Focus[r] \in Items /\ rows[Focus[r]].state = "DONE"
  PROVE  LET g == Append(h, D!React(r, act, k))
         IN Tells(g, rows) /\ Extends(history, g) /\ \E n \in DOMAIN g : g[n].key = k
<1> DEFINE e == D!React(r, act, k)
           g == Append(h, e)
<1>1. /\ e \in EventType /\ e.key = k /\ e.reminder = r /\ e.what = D!Reaction(act)
      /\ e.of = Focus[r] /\ e.what \in Reacting /\ (e.what = "REMINDER_DONE" <=> act = "done")
  BY ReactionEvent
<1> HIDE DEF e
<1>2. Longer(h, g, e)
  BY <1>1, Written, DecisionTyping
<1> HIDE DEF g
<1>3. \A n \in DOMAIN h : ~(h[n].reminder = e.reminder /\ h[n].what = e.what)
  BY <1>1 DEF D!Reacted, D!Recorded, Extends, NoReaction
<1>4. Tells(g, rows)
  BY <1>1, <1>2, <1>3, TellsReaction
<1>5. Extends(history, g) /\ \E n \in DOMAIN g : g[n].key = k
  BY <1>1, <1>2, LongerExtends, ExtendsTwice
<1> QED
  BY <1>4, <1>5 DEF g, e

LEMMA DecideHolds ==
  ASSUME DecisionIInv, NEW k \in Presses, NEW r \in Reminders,
         NEW act \in {"done", "snooze", "dismiss", "dislike", "open_original"},
         act \in {"done", "snooze"} => Focus[r] \in Items,
         pressTask[k] # "none", D!Decide(k, r, act)
  PROVE  DecisionIInv'
<1> DEFINE i == Focus[r]
           lifecycle == act \in {"done", "snooze"}
           h == history \o IF lifecycle THEN D!Lifecycle(i, act) ELSE <<>>
           rows == IF lifecycle THEN D!After(i, act) ELSE item
<1>1. CASE D!OnlyReceipt(k)
  BY <1>1, ReceiptHolds
<1>2. CASE /\ ~D!Reacted(r, act) /\ (lifecycle => D!May(i, act))
           /\ item' = rows /\ history' = Append(h, D!React(r, act, k))
           /\ receipts' = receipts \cup {k} /\ snoozes' = D!Counted(act) /\ D!Commit(k)
  <2>1. /\ Tells(h, rows) /\ Extends(history, h)
        /\ NoReaction(h)
        /\ act = "done" => rows[i].state = "DONE"
    <3>1. CASE lifecycle
      <4>1. act \in Lifting /\ i \in Items /\ D!May(i, act)
        BY <1>2, <3>1 DEF Lifting
      <4> QED
        BY <3>1, <4>1, ActedTells, ActedRow
    <3>2. CASE ~lifecycle
      <4>1. Tells(history, item) /\ history \in Seq(EventType)
        BY DecisionTyping DEF DecisionIInv
      <4>2. h = history /\ rows = item
        BY <3>2, <4>1
      <4> QED
        BY <3>2, <4>1, <4>2 DEF Extends, NoReaction
    <3> QED
      BY <3>1, <3>2
  <2>2. snoozes' \in Nat
    BY <1>2 DEF D!Counted, DecisionIInv, DecisionTyped
  <2>5. /\ act \in {"done", "snooze", "dismiss", "dislike", "open", "open_original"}
        /\ act = "done" => Focus[r] \in Items /\ rows[Focus[r]].state = "DONE"
    BY <2>1
  <2> HIDE DEF h, rows
  <2>6. LET g == Append(h, D!React(r, act, k))
        IN Tells(g, rows) /\ Extends(history, g) /\ \E n \in DOMAIN g : g[n].key = k
    BY <1>2, <2>1, <2>5, ReactionTells
  <2>3. /\ Tells(history', rows) /\ Extends(history, history')
        /\ \E n \in DOMAIN history' : history'[n].key = k
    BY <1>2, <2>6
  <2>4. Tells(history, item)'
    BY <1>2, <2>3
  <2> QED
    BY <1>2, <2>2, <2>3, <2>4, WritesHolds
<1> QED
  BY <1>1, <1>2 DEF D!Decide

LEMMA OpenVideoHolds ==
  ASSUME DecisionIInv, NEW k \in Presses, NEW r \in Reminders, pressTask[k] # "none",
         D!OpenVideo(k, r)
  PROVE  DecisionIInv'
<1>1. CASE D!Rollback(k)
  BY <1>1, ReceiptHolds
<1>2. CASE /\ UNCHANGED <<item, history, snoozes>> /\ receipts' = receipts \cup {k} /\ D!Commit(k)
  BY <1>2, InertHolds DEF D!Commit, D!Leave, D!Return
<1>3. CASE /\ ~D!Reacted(r, "open") /\ history' = Append(history, D!React(r, "open", k))
           /\ UNCHANGED <<item, snoozes>> /\ receipts' = receipts \cup {k} /\ D!Commit(k)
  <2>1. Tells(history, item) /\ Extends(history, history) /\ snoozes' \in Nat
    BY <1>3 DEF DecisionIInv, DecisionTyped, Extends
  <2>2. NoReaction(history)
    BY DEF NoReaction
  <2>3. /\ Tells(history', item) /\ Extends(history, history')
        /\ \E n \in DOMAIN history' : history'[n].key = k
    BY <1>3, <2>1, <2>2, ReactionTells
  <2>4. Tells(history, item)'
    BY <1>3, <2>3
  <2> QED
    BY <1>3, <2>1, <2>3, <2>4, WritesHolds
<1> QED
  BY <1>1, <1>2, <1>3 DEF D!OpenVideo

LEMMA ApplyCallbackHolds ==
  ASSUME DecisionIInv, NEW k \in Presses, D!ApplyCallback(k)
  PROVE  DecisionIInv'
<1> DEFINE r == press[k].of
           act == press[k].act
<1>1. pressTask[k] # "none" /\ press[k].on = "reminder"
  BY DEF D!ApplyCallback, D!Handling, D!At, DecisionIInv, PressesFit
<1>2. /\ r \in Reminders
      /\ act \in {"done", "snooze", "dismiss", "dislike", "open", "open_original",
                  "later", "cancel", "ok"}
  BY <1>1, PressedIsButton, ButtonFacts
<1>3. Focus[r] \in Items \cup {Nil}
  BY <1>2, DecisionNumbers
<1>4. CASE D!Rollback(k) \/ D!AlreadyConsumed(k) \/ D!OnlyReceipt(k)
  BY <1>1, <1>4, ReceiptHolds
<1>5. CASE D!OpenVideo(k, r)
  BY <1>1, <1>2, <1>5, OpenVideoHolds
<1>6. CASE D!Admissible(r, act) /\ act \notin {"later", "cancel", "ok", "open"} /\ D!Decide(k, r, act)
  <2>1. act \in {"done", "snooze"} => Focus[r] \in Items
    BY <1>3, <1>6 DEF D!Admissible
  <2>2. act \in {"done", "snooze", "dismiss", "dislike", "open_original"}
    BY <1>2, <1>6
  <2> QED
    BY <1>1, <1>2, <1>6, <2>1, <2>2, DecideHolds
<1> QED
  BY <1>4, <1>5, <1>6 DEF D!ApplyCallback

LEMMA CopyOriginalHolds ==
  ASSUME DecisionIInv, NEW k \in Presses, D!CopyOriginal(k)
  PROVE  DecisionIInv'
<1>1. pressTask[k] # "none" /\ press[k].on = "reminder"
  BY DEF D!CopyOriginal, D!Handling, D!At
<1>2. \/ /\ D!Goto(k, "copied")
         /\ UNCHANGED <<reminder, press, outside, item, history, snoozes, receipts, handled>>
      \/ D!Rollback(k)
  BY DEF D!CopyOriginal, D!decisions
<1> QED
  BY <1>1, <1>2, InertHolds, ReceiptHolds

-----------------------------------------------------------------------------
(* What else changes these rows.                                           *)

LEMMA FinalizeReminderHolds ==
  ASSUME DecisionIInv, NEW r \in Reminders, D!FinalizeReminder(r)
  PROVE  DecisionIInv'
<1>1. /\ reminder' = [reminder EXCEPT ![r] = "SENT"]
      /\ UNCHANGED <<item, history, receipts, snoozes, press, pressUpdate, pressTask, pressCrashes,
                     outside, handled>>
  BY DEF D!FinalizeReminder, D!decisions, D!transport
<1>2. DecisionTyped' /\ PressesFit' /\ AnswersLeaveKeys'
  BY <1>1, SameHistory, AnswersLeaveKeysStill DEF DecisionIInv, DecisionTyped, PressesFit
<1> QED
  BY <1>1, <1>2 DEF DecisionIInv

(* A row changes outside every press.                                       *)
LEMMA ElsewhereHolds ==
  ASSUME DecisionIInv, UNCHANGED <<receipts, reminder, press, pressUpdate, pressTask,
         pressCrashes, snoozes, handled>>,
         outside' \in 0..MaxOutside, Tells(history, item)', Extends(history, history')
  PROVE  DecisionIInv'
<1>1. DecisionTyped' /\ PressesFit'
  BY DEF DecisionIInv, DecisionTyped, PressesFit
<1>2. AnswersLeaveKeys'
  BY AnswersLeaveKeysStill
<1> QED
  BY <1>1, <1>2 DEF DecisionIInv

LEMMA WakeHolds ==
  ASSUME DecisionIInv, NEW i \in Items, D!Wake(i)
  PROVE  DecisionIInv'
<1> DEFINE row == [item[i] EXCEPT !.state = "ACTIVE", !.until = 0]
<1>1. /\ item' = [item EXCEPT ![i] = row] /\ history' = history /\ outside' = outside
      /\ UNCHANGED <<receipts, reminder, press, pressUpdate, pressTask, pressCrashes, snoozes,
                     handled>>
      /\ item[i].state = "SNOOZED"
  BY DEF D!Wake, D!transport
<1>2. Tells(history, item) /\ item \in [Items -> RowType] /\ Agrees(history, i, item[i])
  BY DEF DecisionIInv, Tells
<1>3. /\ row \in RowType /\ row.state = "ACTIVE" /\ row.category = item[i].category
      /\ row.type = item[i].type /\ row.ready = item[i].ready /\ row.interest = item[i].interest
  BY <1>2 DEF RowType
<1> HIDE DEF row
<1>4. Changes(item, item', i) /\ item'[i] = row
  BY <1>1, <1>2, <1>3 DEF Changes
<1>5. Agrees(history, i, item'[i])
  BY <1>1, <1>2, <1>3, <1>4, AgreesAlike DEF Living
<1>6. Tells(history, item)' /\ Extends(history, history')
  BY <1>1, <1>2, <1>4, <1>5, TellsStill, SameHistory
<1> QED
  BY <1>1, <1>6, ElsewhereHolds DEF DecisionIInv, DecisionTyped

LEMMA RequeueHolds ==
  ASSUME DecisionIInv, NEW i \in Items, D!Requeue(i)
  PROVE  DecisionIInv'
<1> DEFINE row == [item[i] EXCEPT !.ready = FALSE]
<1>1. PICK e : /\ item' = [item EXCEPT ![i] = row] /\ history' = Append(history, e)
               /\ e = D!Event("RETRIED", i, Nil, Nil, Nil, Nil)
               /\ outside < MaxOutside /\ outside' = outside + 1
               /\ UNCHANGED <<receipts, reminder, press, pressUpdate, pressTask, pressCrashes, snoozes,
                              handled>>
  BY DEF D!Requeue, D!transport
<1>2. Tells(history, item) /\ item \in [Items -> RowType] /\ Agrees(history, i, item[i])
      /\ history \in Seq(EventType)
  BY DEF DecisionIInv, Tells
<1>3. row \in RowType /\ row.state = item[i].state /\ row.interest = item[i].interest
  BY <1>2 DEF RowType
<1> HIDE DEF row
<1>4. Changes(item, item', i) /\ item'[i] = row
  BY <1>1, <1>2, <1>3 DEF Changes
<1>5. e \in EventType /\ e.what = "RETRIED" /\ e.of = i
  BY <1>1 DEF D!Event, EventType, Telling
<1>6. Longer(history, history', e)
  BY <1>1, <1>2, <1>5, Written
<1>7. Agrees(history', e.of, row)
  <2>1. Agrees(history, e.of, item[i])
    BY <1>2, <1>5
  <2> QED
    BY <1>3, <1>5, <1>6, <2>1, AgreesRetried
<1>8. Tells(history, item)' /\ Extends(history, history')
  <2>1. /\ e.of \in Items /\ Changes(item, item', e.of) /\ e.what \in Telling
        /\ Agrees(history', e.of, item'[e.of])
        /\ item[e.of].state = "DONE" => item'[e.of].state = "DONE"
    BY <1>3, <1>4, <1>5, <1>7 DEF Telling
  <2> QED
    BY <1>2, <1>6, <2>1, TellsChange, LongerExtends
<1>9. outside' \in 0..MaxOutside
  BY <1>1, DecisionNumbers DEF DecisionIInv, DecisionTyped
<1> QED
  BY <1>1, <1>8, <1>9, ElsewhereHolds

LEMMA AnalyseHolds ==
  ASSUME DecisionIInv, NEW i \in Items, NEW c \in Categories, NEW t \in Types, D!Analyse(i, c, t)
  PROVE  DecisionIInv'
<1> DEFINE row == [item[i] EXCEPT !.ready = TRUE, !.category = c, !.type = t]
<1>1. /\ item' = [item EXCEPT ![i] = row] /\ history' = history /\ outside' = outside
      /\ UNCHANGED <<receipts, reminder, press, pressUpdate, pressTask, pressCrashes, snoozes,
                     handled>>
      /\ ~item[i].ready
  BY DEF D!Analyse, D!transport
<1>2. Tells(history, item) /\ item \in [Items -> RowType] /\ Agrees(history, i, item[i])
  BY DEF DecisionIInv, Tells
<1>3. /\ row \in RowType /\ row.state = item[i].state /\ row.ready
      /\ row.interest = item[i].interest
  BY <1>2 DEF RowType
<1> HIDE DEF row
<1>4. Changes(item, item', i) /\ item'[i] = row
  BY <1>1, <1>2, <1>3 DEF Changes
<1>5. Agrees(history, i, item'[i]) /\ (item[i].state = "DONE" => item'[i].state = "DONE")
  BY <1>1, <1>2, <1>3, <1>4, AgreesAnalysed
<1>6. Tells(history, item)' /\ Extends(history, history')
  BY <1>1, <1>2, <1>4, <1>5, TellsStill, SameHistory
<1> QED
  BY <1>1, <1>6, ElsewhereHolds DEF DecisionIInv, DecisionTyped

-----------------------------------------------------------------------------
(* Every step keeps the invariant, and what follows from it.               *)

LEMMA DecisionStep ==
  ASSUME DecisionIInv, [D!Next]_(D!vars)
  PROVE  DecisionIInv'
<1>1. CASE UNCHANGED D!vars
  <2>1. UNCHANGED <<item, history, receipts, snoozes, reminder, press, pressUpdate, pressTask,
                    pressCrashes, outside, handled>>
    BY <1>1 DEF D!vars, D!decisions, D!transport
  <2> QED
    BY <2>1, SameHistory, ElsewhereHolds DEF DecisionIInv, DecisionTyped
<1>2. ASSUME NEW k \in Presses, NEW b \in Buttons, D!Press(k, b) PROVE DecisionIInv'
  BY <1>2, PressHolds
<1>3. ASSUME NEW k \in Presses, D!Handle(k) PROVE DecisionIInv'
  BY <1>3, ItemActionHolds, CheckInterestHolds, SetInterestHolds, RecordFeedbackHolds,
     CorrectHolds, ApplyCallbackHolds, CopyOriginalHolds DEF D!Handle
<1>4. CASE D!Transport
  BY <1>4, TransportHolds
<1>5. ASSUME NEW i \in Items, NEW act \in {"done", "archive", "snooze"}, D!HttpAction(i, act)
      PROVE  DecisionIInv'
  BY <1>5, HttpActionHolds
<1>6. ASSUME NEW r \in Reminders, D!FinalizeReminder(r) PROVE DecisionIInv'
  BY <1>6, FinalizeReminderHolds
<1>7. ASSUME NEW i \in Items, D!Wake(i) \/ D!Requeue(i) PROVE DecisionIInv'
  BY <1>7, WakeHolds, RequeueHolds
<1>8. ASSUME NEW i \in Items, NEW c \in Categories, NEW t \in Types, D!Analyse(i, c, t)
      PROVE  DecisionIInv'
  BY <1>8, AnalyseHolds
<1> QED
  BY <1>1, <1>2, <1>3, <1>4, <1>5, <1>6, <1>7, <1>8 DEF D!Next

LEMMA TypesFollow ==
  ASSUME DecisionIInv
  PROVE  D!TypeOK
<1>1. ASSUME NEW e \in D!Recorded PROVE e.of \in Items \cup {Nil} /\ e.key \in Presses \cup {Nil}
  <2>1. PICK n \in DOMAIN history : e = history[n]
    BY DEF D!Recorded
  <2>2. e \in EventType
    BY <2>1, DecisionTyping DEF DecisionIInv
  <2> QED
    BY <2>2 DEF EventType
<1>2. item \in [Items -> RowType]
  BY DecisionTyping DEF DecisionIInv
<1> QED
  BY <1>1, <1>2 DEF DecisionIInv, DecisionTyped, D!TypeOK, RowType, D!TransportTypeOK

LEMMA HistoryFollows ==
  ASSUME DecisionIInv
  PROVE  D!HistoryAgrees
<1> USE DEF DecisionIInv, Tells
<1>1. ASSUME NEW i \in Items
      PROVE  /\ D!Chained(D!SinceRetry(i, "category"), item[i].category)
             /\ D!Chained(D!SinceRetry(i, "type"), item[i].type)
             /\ D!Chained(D!Events(i, {"INTEREST_CHANGED"}), item[i].interest)
             /\ D!Alive(i) => D!Settled(i) = {}
             /\ ~D!Alive(i) => \E n \in D!Settled(i) : D!Settled(i) = {n} /\ history[n].what = item[i].state
  <2>1. Agrees(history, i, item[i])
    OBVIOUS
  <2>2. /\ \A kinds : D!Events(i, kinds) = EventsOf(history, i, kinds)
        /\ \A kind : D!SinceRetry(i, kind) = SinceOf(history, i, kind)
        /\ \A c, value : D!Chained(c, value) <=> ChainOf(history, c, value)
        /\ D!Alive(i) <=> Living(item[i])
    BY DEF D!Events, EventsOf, D!SinceRetry, SinceOf, D!Chained, ChainOf, D!Alive, Living
  <2> QED
    BY <2>1, <2>2 DEF Agrees, D!Settled, Settling
<1>2. ASSUME NEW r \in Reminders, NEW act \in {"done", "snooze", "dismiss", "dislike", "open"},
             NEW m \in D!Reactions(r, act), NEW n \in D!Reactions(r, act)
      PROVE  m = n
  <2>1. D!Reaction(act) \in Reacting
    BY DEF D!Reaction, Reacting
  <2> QED
    BY <2>1 DEF D!Reactions, Once
<1>3. ASSUME NEW e \in D!Recorded, e.what = "REMINDER_DONE" PROVE item[e.of].state = "DONE"
  <2>1. PICK n \in DOMAIN history : e = history[n]
    BY DEF D!Recorded
  <2> QED
    BY <1>3, <2>1 DEF DoneIn
<1> QED
  BY <1>1, <1>2, <1>3 DEF D!HistoryAgrees

(* The action of RepeatsAreInert.                                           *)
Inert == \A k \in D!Keyed \cap handled :
            pressTask[k] # "none" /\ pressTask'[k] = "none" => UNCHANGED <<item, history>>

LEMMA InertStep ==
  ASSUME DecisionIInv, [D!Next]_(D!vars)
  PROVE  Inert
<1> SUFFICES ASSUME NEW k \in D!Keyed, k \in handled, pressTask[k] # "none", pressTask'[k] = "none"
             PROVE  UNCHANGED <<item, history>>
  BY DEF Inert
<1>0. D!Consumed(k) /\ k \in Presses /\ press[k].on # "item"
  BY DEF DecisionIInv, AnswersLeaveKeys, D!Keyed
<1>1. ASSUME NEW j \in Presses, D!Handle(j), j # k PROVE FALSE
  <2>1. PICK pc : D!Goto(j, pc)
    BY <1>1 DEF D!Handle, D!ItemAction, D!CheckInterest, D!SetInterest, D!RecordFeedback,
                D!Correct, D!ApplyCallback, D!CopyOriginal, D!NotReady, D!OnlyReceipt,
                D!AlreadyConsumed, D!OpenVideo, D!Decide, D!Commit, D!Rollback, D!Leave, D!Return
  <2> QED
    BY <1>0, <1>1, <2>1 DEF D!Goto, DecisionIInv, DecisionTyped
<1>2. CASE D!Handle(k)
  <2>1. CASE D!RecordFeedback(k)
    BY <1>0, <2>1 DEF D!RecordFeedback, D!NotReady, D!OnlyReceipt, D!AlreadyConsumed, D!decisions
  <2>2. CASE D!Correct(k)
    BY <1>0, <2>2 DEF D!Correct, D!NotReady, D!OnlyReceipt, D!AlreadyConsumed, D!decisions
  <2>3. CASE D!ApplyCallback(k)
    BY <1>0, <2>3 DEF D!ApplyCallback, D!Rollback, D!AlreadyConsumed, D!decisions
  <2>4. CASE D!CopyOriginal(k)
    BY <2>4 DEF D!CopyOriginal, D!Rollback, D!decisions
  <2>5. CASE D!CheckInterest(k)
    BY <2>5 DEF D!CheckInterest, D!Rollback, D!decisions
  <2>6. ~D!ItemAction(k)
    BY <1>0 DEF D!ItemAction, D!Handling
  <2>7. ~D!SetInterest(k)
    BY <1>0 DEF D!SetInterest, D!At, DecisionIInv, PressesFit
  <2> QED
    BY <1>2, <2>1, <2>2, <2>3, <2>4, <2>5, <2>6, <2>7 DEF D!Handle
<1>3. CASE UNCHANGED D!vars
  BY <1>3 DEF D!vars, D!decisions
<1>4. ASSUME NEW j \in Presses, NEW b \in Buttons, D!Press(j, b) PROVE FALSE
  BY <1>4 DEF D!Press, D!Arrive
<1>5. CASE D!Transport
  BY <1>5 DEF D!Transport, D!decisions
<1>6. ASSUME NEW i \in Items, NEW act \in {"done", "archive", "snooze"}, D!HttpAction(i, act)
      PROVE  FALSE
  BY <1>6 DEF D!HttpAction, D!transport
<1>7. ASSUME NEW r \in Reminders, D!FinalizeReminder(r) PROVE FALSE
  BY <1>7 DEF D!FinalizeReminder, D!transport
<1>8. ASSUME NEW i \in Items, D!Wake(i) \/ D!Requeue(i) PROVE FALSE
  BY <1>8 DEF D!Wake, D!Requeue, D!transport
<1>9. ASSUME NEW i \in Items, NEW c \in Categories, NEW t \in Types, D!Analyse(i, c, t)
      PROVE  FALSE
  BY <1>9 DEF D!Analyse, D!transport
<1> QED
  BY <1>1, <1>2, <1>3, <1>4, <1>5, <1>6, <1>7, <1>8, <1>9 DEF D!Next

(* What the history, the receipts, the rows and the handlers under way have *)
(* to do with each other, after any presses and deaths.                     *)
THEOREM DecisionInvariance == D!Spec => []DecisionIInv
<1>1. D!Init => DecisionIInv
  BY DecisionInitHolds
<1>2. DecisionIInv /\ [D!Next]_(D!vars) => DecisionIInv'
  BY DecisionStep
<1> QED
  BY <1>1, <1>2, PTL DEF D!Spec

(* The promise of the history, which the reports, the ranking and the       *)
(* digest read (services/actions.py, feedback.py, reminder_feedback.py).    *)
THEOREM HistoryCorrect == D!Spec => [](D!TypeOK /\ D!HistoryAgrees)
  BY DecisionInvariance, TypesFollow, HistoryFollows, PTL

(* A press that was answered and is delivered again leaves the Items and    *)
(* the history alone.                                                       *)
THEOREM PressesInert == D!Spec => D!RepeatsAreInert
<1>1. DecisionIInv /\ [D!Next]_(D!vars) => [Inert]_(D!vars)
  BY InertStep
<1> QED
  BY <1>1, DecisionInvariance, PTL DEF D!RepeatsAreInert, Inert, D!Spec

-----------------------------------------------------------------------------
(* Messages: the inductive invariant.  The order of the updates of a chat,  *)
(* and one handler at a time, are what makes the prompt that a handler      *)
(* reads the one the user answered.                                         *)

Pcs == {"none", "running", "ingest", "prompt", "arming", "command", "other", "clearing"} \cup M!Guided
Here(k) == textUpdate[k] \in {"fetched", "confirmed"}

MessageTyped == /\ textUpdate \in [Texts -> {"none", "queued", "fetched", "confirmed"}]
                /\ textTask \in [Texts -> Pcs]
                /\ textCrashes \in 0..MaxCrashes
                /\ input \in [Texts -> Inputs \cup {Nil}]
                /\ mode \in M!Modes /\ (mode = "none" <=> prompted = 0)
                /\ kept \in [Texts -> {"none", "QUEUED", "FAILED"}]
                /\ questions \subseteq Texts /\ instructions \in [Texts -> Nat]

(* Updates come in the order of their numbers.                              *)
InOrder == \A j, k \in Texts : j < k =>
    /\ textUpdate[k] # "none" => textUpdate[j] # "none"
    /\ Here(k) => Here(j)
    /\ textUpdate[k] = "confirmed" => textUpdate[j] = "confirmed"

Known == \A k \in Texts : /\ ~Here(k) => textTask[k] = "none"
                          /\ textUpdate[k] = "none" => input[k] = Nil
                          /\ textUpdate[k] # "none" => input[k] \in Inputs

(* One handler is under way, those behind it have not looked at anything.   *)
Turns == \A j, k \in Texts : textTask[k] # "none" /\ k < j /\ Here(j) => textTask[j] = "running"

(* Where a handler is says what it read.                                    *)
Routed == \A k \in Texts :
    /\ textTask[k] \in M!Guided => mode = textTask[k]
    /\ textTask[k] \in M!Guided \cup {"ingest", "clearing"} => k \notin M!Controls
    /\ textTask[k] \in {"prompt", "arming", "other", "command"} => prompted = 0
    /\ textTask[k] \in {"prompt", "arming"} => input[k].kind = "prompt"

(* A prompt that waits: its handler is through, and whatever would end its  *)
(* wait has yet to be handled.                                              *)
Waits == prompted # 0 =>
    /\ prompted \in Texts /\ Here(prompted) /\ M!Is(prompted, "prompt")
    /\ \A j \in Texts : j <= prompted => textTask[j] = "none"
    /\ \A j \in M!Controls : prompted < j /\ Here(j) => textTask[j] # "none"

(* An answer, of a prompt that is over once the answer is dealt with.       *)
Answers == \A a \in answered :
    /\ a[1] \in Texts /\ a[2] \in Texts /\ a[3] \in 0..textCrashes
    /\ a = <<a[1], a[2], a[3]>>
    /\ textUpdate[a[1]] # "none" /\ a[2] < a[1] /\ M!Is(a[2], "prompt")
    /\ \A j \in M!Controls : ~(a[2] < j /\ j < a[1])
    /\ a[3] = textCrashes => Here(a[2]) /\ textTask[a[2]] = "none"
    /\ a[3] = textCrashes /\ a[2] = prompted => textTask[a[1]] = "clearing"

OneAnswer == \A a, b \in answered : a[2] = b[2] /\ a[3] = b[3] => a[1] = b[1]

(* What a first life has made of a text it has not forgotten.               *)
FirstLife == textCrashes = 0 =>
    /\ \A k \in Texts : /\ kept[k] # "none" => Here(k) /\ textTask[k] = "none"
                        /\ instructions[k] # 0 => Here(k) /\ textTask[k] \in {"none", "clearing"}
                        /\ instructions[k] \in {0, 1}
    /\ \A a \in answered : /\ Here(a[1]) /\ textTask[a[1]] \in {"none", "clearing"}
                           /\ kept[a[1]] = "none"

MessageIInv == /\ MessageTyped /\ InOrder /\ Known /\ Turns /\ Routed /\ Waits /\ Answers /\ OneAnswer
               /\ FirstLife

-----------------------------------------------------------------------------
(* Transport.                                                              *)

LEMMA MessageNumbers == Texts \subseteq Nat /\ 0 \notin Texts /\ MaxCrashes \in Nat
  BY InboundAssumption DEF M!MessagesAssumption

LEMMA Kinds ==
  \A i \in Inputs : i.kind \in {"text", "bad_text", "other", "media", "prompt", "command"}
  BY InboundAssumption DEF M!MessagesAssumption, M!AnyInput

LEMMA MessageInitHolds ==
  ASSUME M!Init
  PROVE  MessageIInv
<1>1. MessageTyped
  BY MessageNumbers DEF M!Init, M!TransportInit, MessageTyped, Pcs, M!Modes
<1> QED
  BY <1>1 DEF M!Init, M!TransportInit, MessageIInv, InOrder, Known, Turns, Routed, Waits,
              Answers, OneAnswer,
              FirstLife, Here, M!Guided, M!Controls

LEMMA SendHolds ==
  ASSUME MessageIInv, NEW k \in Texts, NEW i \in Inputs, M!Send(k, i)
  PROVE  MessageIInv'
<1> USE DEF MessageIInv, M!Send, M!kept, M!history
<1>1. /\ textUpdate[k] = "none"
      /\ \A j \in Texts : j # k => textUpdate'[j] = textUpdate[j] /\ input'[j] = input[j]
      /\ textUpdate'[k] = "queued" /\ input'[k] = i
      /\ UNCHANGED <<textTask, textCrashes, mode, kept, questions, instructions, answered, prompted>>
  BY MessageNumbers DEF M!Arrive, MessageTyped
<1>2. \A j \in Texts : Here(j)' <=> Here(j)
  BY <1>1 DEF Here
<1>3. \A j \in Texts : textUpdate[j] = "none" <=> j >= k
  BY DEF M!Arrive
<1>4. \A j \in Texts \ {k} : j \in M!Controls' <=> j \in M!Controls
  BY <1>1 DEF M!Controls
<1>5. textTask[k] = "none" /\ ~Here(k)
  BY <1>1 DEF Known, Here
<1>6. MessageTyped'
  BY DEF MessageTyped, M!Arrive
<1>7. InOrder'
  BY <1>1, <1>2, <1>3, MessageNumbers DEF InOrder
<1>8. Known'
  BY <1>1, <1>2 DEF Known
<1>9. Turns'
  BY <1>1, <1>2 DEF Turns
<1>10. Routed'
  BY <1>1, <1>4, <1>5 DEF Routed, M!Guided
<1>11. Waits'
  <2> SUFFICES ASSUME prompted # 0 PROVE Waits'
    BY <1>1 DEF Waits
  <2>1. prompted \in Texts \ {k}
    BY <1>5 DEF Waits
  <2>2. \A j \in M!Controls' : Here(j)' => j \in M!Controls /\ Here(j)
    BY <1>2, <1>4, <1>5 DEF M!Controls
  <2>3. Here(prompted)' /\ M!Is(prompted, "prompt")'
    BY <1>1, <1>2, <2>1 DEF Waits, M!Is
  <2> QED
    BY <1>1, <2>1, <2>2, <2>3 DEF Waits
<1>12. Answers'
  <2> SUFFICES ASSUME NEW a \in answered
               PROVE  /\ a[1] \in Texts /\ a[2] \in Texts /\ a[3] \in 0..textCrashes
                      /\ a = <<a[1], a[2], a[3]>>
                      /\ textUpdate'[a[1]] # "none" /\ a[2] < a[1] /\ M!Is(a[2], "prompt")'
                      /\ \A j \in M!Controls' : ~(a[2] < j /\ j < a[1])
                      /\ a[3] = textCrashes => Here(a[2])' /\ textTask[a[2]] = "none"
                      /\ a[3] = textCrashes /\ a[2] = prompted => textTask[a[1]] = "clearing"
    BY <1>1 DEF Answers
  <2>1. a[1] # k /\ a[1] < k /\ a[2] < k
    BY <1>1, <1>3, MessageNumbers DEF Answers
  <2>2. \A j \in M!Controls' : j < a[1] => j \in M!Controls
    BY <1>4, <2>1, MessageNumbers DEF Answers, M!Controls
  <2> QED
    BY <1>1, <1>2, <2>1, <2>2, MessageNumbers DEF Answers, M!Is
<1>13. OneAnswer' /\ FirstLife'
  BY <1>1, <1>2 DEF OneAnswer, FirstLife, Answers
<1> QED
  BY <1>6, <1>7, <1>8, <1>9, <1>10, <1>11, <1>12, <1>13

LEMMA PollHolds ==
  ASSUME MessageIInv, M!Poll, UNCHANGED <<input, mode, M!kept, M!history>>
  PROVE  MessageIInv'
<1> USE DEF MessageIInv, M!kept, M!history
<1>1. \A j \in Texts :
         /\ textUpdate'[j] = (CASE textUpdate[j] = "queued" -> "fetched"
                            [] textUpdate[j] = "fetched" -> "confirmed" [] OTHER -> textUpdate[j])
         /\ textTask'[j] = (IF textUpdate[j] = "queued" THEN "running" ELSE textTask[j])
  BY DEF M!Poll
<1>2. /\ UNCHANGED <<input, textCrashes, mode, kept, questions, instructions, answered, prompted>>
      /\ M!Controls' = M!Controls
  BY DEF M!Poll, M!Controls
<1>3. ASSUME NEW j \in Texts
      PROVE  /\ Here(j) => Here(j)' /\ textTask'[j] = textTask[j]
             /\ ~Here(j) /\ Here(j)' => textTask[j] = "none" /\ textTask'[j] = "running"
             /\ Here(j)' <=> textUpdate[j] # "none"
             /\ textUpdate'[j] = "none" <=> textUpdate[j] = "none"
             /\ textUpdate'[j] = "confirmed" => Here(j)
             /\ textTask'[j] # textTask[j] => textTask'[j] = "running" /\ Here(j)'
  <2>1. textUpdate[j] \in {"none", "queued", "fetched", "confirmed"}
    BY DEF MessageTyped
  <2>2. ~Here(j) => textTask[j] = "none"
    BY DEF Known
  <2> QED
    BY <1>1, <2>1, <2>2 DEF Here
<1>4. MessageTyped'
  <2>1. textUpdate' \in [Texts -> {"none", "queued", "fetched", "confirmed"}]
    BY DEF M!Poll, MessageTyped
  <2>2. textTask' \in [Texts -> Pcs]
    BY DEF M!Poll, MessageTyped, Pcs
  <2> QED
    BY <1>2, <2>1, <2>2 DEF MessageTyped
<1>5. InOrder'
  <2> SUFFICES ASSUME NEW j \in Texts, NEW k \in Texts, j < k
               PROVE  /\ textUpdate'[k] # "none" => textUpdate'[j] # "none"
                      /\ Here(k)' => Here(j)'
                      /\ textUpdate'[k] = "confirmed" => textUpdate'[j] = "confirmed"
    BY DEF InOrder
  <2>1. (Here(k) => Here(j)) /\ (textUpdate[k] # "none" => textUpdate[j] # "none")
    BY DEF InOrder
  <2>2. Here(j) => textUpdate'[j] = "confirmed"
    BY <1>1 DEF Here
  <2>3. /\ Here(k)' <=> textUpdate[k] # "none"
        /\ textUpdate'[k] = "none" <=> textUpdate[k] = "none"
        /\ textUpdate'[k] = "confirmed" => Here(k)
    BY <1>3
  <2>4. (Here(j)' <=> textUpdate[j] # "none") /\ (textUpdate'[j] = "none" <=> textUpdate[j] = "none")
    BY <1>3
  <2> QED
    BY <2>1, <2>2, <2>3, <2>4
<1>6. Known'
  BY <1>2, <1>3 DEF Known
<1>7. Turns'
  <2> SUFFICES ASSUME NEW j \in Texts, NEW k \in Texts, textTask'[k] # "none", k < j, Here(j)'
               PROVE  textTask'[j] = "running"
    BY DEF Turns
  <2> QED
    BY <1>3 DEF Turns, InOrder
<1>8. Routed'
  BY <1>2, <1>3 DEF Routed, M!Guided
<1>9. Waits'
  <2> SUFFICES ASSUME prompted # 0 PROVE Waits'
    BY <1>2 DEF Waits
  <2>0. prompted \in Texts /\ Here(prompted)
    BY DEF Waits
  <2>1. \A j \in Texts : j <= prompted => Here(j)
    BY <2>0, MessageNumbers DEF InOrder
  <2> QED
    BY <1>2, <1>3, <2>0, <2>1, MessageNumbers DEF Waits, M!Is, M!Controls
<1>10. Answers'
  BY <1>2, <1>3 DEF Answers, M!Is, Here, Known
<1>11. OneAnswer' /\ FirstLife'
  BY <1>2, <1>3 DEF OneAnswer, FirstLife, Answers
<1> QED
  BY <1>4, <1>5, <1>6, <1>7, <1>8, <1>9, <1>10, <1>11

LEMMA RestartHolds ==
  ASSUME MessageIInv, M!Restart
  PROVE  MessageIInv'
<1> USE DEF MessageIInv, M!Restart, M!Forget, M!kept
<1>1. \A j \in Texts : /\ textUpdate'[j] = IF textUpdate[j] = "fetched" THEN "queued" ELSE textUpdate[j]
                       /\ textTask'[j] = "none"
  BY DEF M!CrashRestart
<1>2. /\ UNCHANGED <<input, kept, questions, instructions, answered>>
      /\ M!Controls' = M!Controls /\ prompted' = 0 /\ mode' = "none"
      /\ textCrashes' = textCrashes + 1 /\ textCrashes \in Nat /\ textCrashes' \in 0..MaxCrashes
  BY MessageNumbers DEF M!CrashRestart, M!Controls, MessageTyped
<1>3. \A j \in Texts : /\ Here(j)' <=> textUpdate[j] = "confirmed"
                       /\ textUpdate'[j] = "none" <=> textUpdate[j] = "none"
  BY <1>1 DEF MessageTyped, Here
<1>4. MessageTyped'
  <2>1. textUpdate' \in [Texts -> {"none", "queued", "fetched", "confirmed"}]
    BY DEF M!CrashRestart, MessageTyped
  <2>2. textTask' \in [Texts -> Pcs]
    BY DEF M!CrashRestart, Pcs
  <2> QED
    BY <1>2, <2>1, <2>2 DEF MessageTyped, M!Modes
<1>5. InOrder' /\ Known'
  BY <1>1, <1>2, <1>3 DEF InOrder, Known, Here
<1>6. Turns' /\ Routed' /\ Waits' /\ OneAnswer'
  BY <1>1, <1>2 DEF Turns, Routed, Waits, M!Guided, OneAnswer
<1>7. Answers'
  <2> SUFFICES ASSUME NEW a \in answered
               PROVE  a[3] \in 0..textCrashes' /\ a[3] # textCrashes'
    BY <1>2, <1>3 DEF Answers, M!Is
  <2> QED
    BY <1>2 DEF Answers
<1>8. FirstLife'
  BY <1>2 DEF FirstLife
<1> QED
  BY <1>4, <1>5, <1>6, <1>7, <1>8

-----------------------------------------------------------------------------
(* Handlers.                                                               *)

(* The handler of k, whose turn it is, goes on to pc.                       *)
Moves(k, pc) == /\ k \in Texts /\ pc \in Pcs \ {"running"}
                /\ textTask[k] # "none" /\ M!Turn(k) /\ M!Goto(k, pc) /\ input' = input

LEMMA MovesFacts ==
  ASSUME MessageIInv, NEW k, NEW pc, Moves(k, pc)
  PROVE  /\ k \in Texts /\ Here(k) /\ input[k] \in Inputs
         /\ textUpdate' = textUpdate /\ textCrashes' = textCrashes
         /\ input' = input /\ M!Controls' = M!Controls
         /\ \A j \in Texts : Here(j)' <=> Here(j)
         /\ textTask'[k] = pc /\ \A j \in Texts \ {k} : textTask'[j] = textTask[j]
         /\ \A j \in Texts \ {k} : textTask[j] \in {"none", "running"}
         /\ \A j \in Texts : j < k => textTask[j] = "none" /\ Here(j)
         /\ textTask' \in [Texts -> Pcs]
         /\ prompted # 0 => prompted < k /\ \A j \in M!Controls : ~(prompted < j /\ j < k)
<1> USE DEF MessageIInv, Moves, M!Goto
<1>1. k \in Texts /\ Here(k) /\ input[k] \in Inputs
  BY DEF Known, Here
<1>2. \A j \in Texts : j < k => textTask[j] = "none" /\ Here(j)
  BY <1>1 DEF M!Turn, InOrder
<1>3. \A j \in Texts : j > k => textTask[j] \in {"none", "running"}
  BY <1>1, MessageNumbers DEF Turns, Known
<1>4. prompted # 0 => prompted < k /\ \A j \in M!Controls : ~(prompted < j /\ j < k)
  <2>1. ASSUME prompted # 0 PROVE prompted \in Texts /\ prompted < k
    <3>1. prompted \in Texts /\ ~(k <= prompted)
      BY <1>1, <2>1 DEF Waits
    <3>2. prompted \in Nat /\ k \in Nat
      BY <1>1, <3>1, MessageNumbers
    <3> QED
      BY <3>1, <3>2
  <2>2. ASSUME prompted # 0, NEW j \in M!Controls, prompted < j, j < k PROVE FALSE
    <3>1. j \in Texts
      BY DEF M!Controls
    <3> QED
      BY <1>2, <2>2, <3>1 DEF Waits
  <2> QED
    BY <2>1, <2>2
<1>5. /\ textTask'[k] = pc /\ \A j \in Texts \ {k} : textTask'[j] = textTask[j]
      /\ textTask' \in [Texts -> Pcs]
  BY DEF MessageTyped
<1> QED
  BY <1>1, <1>2, <1>3, <1>4, <1>5, MessageNumbers DEF Here, M!Controls

LEMMA MovesHold ==
  ASSUME MessageIInv, NEW k, NEW pc, Moves(k, pc)
  PROVE  InOrder' /\ Known' /\ Turns'
<1>1. InOrder' /\ Known'
  BY MovesFacts DEF InOrder, Known, MessageIInv, Here
<1>2. Turns'
  <2> SUFFICES ASSUME NEW i \in Texts, NEW j \in Texts, textTask'[i] # "none", i < j, Here(j)'
               PROVE  textTask'[j] = "running"
    BY DEF Turns
  <2>1. j # k
    BY MovesFacts, MessageNumbers
  <2>2. textTask[i] # "none" /\ textTask'[j] = textTask[j] /\ Here(j)
    BY <2>1, MovesFacts DEF Moves
  <2> QED
    BY <2>2 DEF Turns, MessageIInv
<1> QED
  BY <1>1, <1>2

(* What pc says of the message its handler has.                             *)
Fits(k, pc) ==
    /\ pc \in M!Guided => mode' = pc
    /\ pc \in M!Guided \cup {"ingest", "clearing"} => k \notin M!Controls
    /\ pc \in {"prompt", "arming", "other", "command"} => prompted' = 0
    /\ pc \in {"prompt", "arming"} => input[k].kind = "prompt"

LEMMA RoutedHolds ==
  ASSUME MessageIInv, NEW k, NEW pc, Moves(k, pc), Fits(k, pc)
  PROVE  Routed'
<1> SUFFICES ASSUME NEW j \in Texts
             PROVE  /\ textTask'[j] \in M!Guided => mode' = textTask'[j]
                    /\ textTask'[j] \in M!Guided \cup {"ingest", "clearing"} => j \notin M!Controls'
                    /\ textTask'[j] \in {"prompt", "arming", "other", "command"} => prompted' = 0
                    /\ textTask'[j] \in {"prompt", "arming"} => input'[j].kind = "prompt"
  BY DEF Routed
<1>1. CASE j = k
  BY <1>1, MovesFacts DEF Fits
<1>2. CASE j # k
  BY <1>2, MovesFacts DEF M!Guided
<1> QED
  BY <1>1, <1>2

(* The prompt goes on waiting, or there is none.                            *)
LEMMA WaitsOn ==
  ASSUME MessageIInv, NEW k, NEW pc, Moves(k, pc), UNCHANGED <<mode, answered, prompted>>,
         textTask[k] # "clearing", k \notin M!Controls \/ prompted = 0
  PROVE  Waits' /\ Answers' /\ OneAnswer'
<1>1. Waits'
  <2> SUFFICES ASSUME prompted # 0 PROVE Waits'
    BY DEF Waits
  <2>0. prompted \in Texts
    BY DEF Waits, MessageIInv
  <2>1. prompted < k /\ prompted \in Texts /\ prompted # k /\ k \notin M!Controls /\ k \in Texts
    BY <2>0, MovesFacts, MessageNumbers
  <2>2. \A j \in Texts \ {k} : textTask'[j] = textTask[j] /\ (Here(j)' <=> Here(j))
    BY MovesFacts
  <2>3. M!Controls' = M!Controls /\ input' = input
    BY MovesFacts
  <2>4. \A j \in Texts : j <= prompted => j # k
    BY <2>1, MessageNumbers
  <2>5. \A j \in M!Controls : j \in Texts /\ j # k
    BY <2>1 DEF M!Controls
  <2> QED
    BY <2>1, <2>2, <2>3, <2>4, <2>5 DEF Waits, MessageIInv, M!Is
<1>2. Answers'
  BY MovesFacts DEF Answers, MessageIInv, Moves, M!Is
<1> QED
  BY <1>1, <1>2 DEF OneAnswer, MessageIInv

(* The prompt is forgotten.                                                 *)
LEMMA WaitsNoMore ==
  ASSUME MessageIInv, NEW k, NEW pc, Moves(k, pc), M!Forget
  PROVE  Waits' /\ Answers' /\ OneAnswer'
<1>1. Waits' /\ OneAnswer'
  BY DEF Waits, OneAnswer, MessageIInv, M!Forget
<1>2. \A a \in answered : a[2] # 0
  BY MessageNumbers DEF Answers, MessageIInv
<1>3. Answers'
  BY <1>2, MovesFacts DEF Answers, MessageIInv, Moves, M!Is, M!Forget
<1> QED
  BY <1>1, <1>3

(* It is answered.                                                          *)
LEMMA Replied ==
  ASSUME MessageIInv, NEW k, NEW pc, Moves(k, pc), textTask[k] \in M!Guided,
         answered' = answered \cup {<<k, prompted, textCrashes>>},
         \/ pc = "clearing" /\ UNCHANGED <<mode, prompted>>
         \/ pc = "none" /\ mode' = "none" /\ prompted' = 0
  PROVE  Waits' /\ Answers' /\ OneAnswer'
<1>1. /\ prompted # 0 /\ prompted \in Texts /\ prompted < k /\ k \notin M!Controls
      /\ Here(prompted) /\ M!Is(prompted, "prompt")
      /\ textTask[prompted] = "none" /\ \A j \in M!Controls : ~(prompted < j /\ j < k)
  <2>1. prompted # 0
    BY MovesFacts DEF MessageIInv, Routed, MessageTyped, M!Guided
  <2> QED
    BY <2>1, MovesFacts, MessageNumbers DEF MessageIInv, Routed, Waits
<1>2. \A a \in answered : ~(a[2] = prompted /\ a[3] = textCrashes)
  <2> SUFFICES ASSUME NEW a \in answered, a[2] = prompted, a[3] = textCrashes PROVE FALSE
    OBVIOUS
  <2>1. a[1] \in Texts /\ textTask[a[1]] = "clearing"
    BY DEF MessageIInv, Answers
  <2> QED
    BY <2>1, MovesFacts DEF M!Guided
<1>3. Waits'
  <2> SUFFICES ASSUME prompted' # 0 PROVE Waits'
    BY DEF Waits
  <2>1. prompted' = prompted /\ prompted # k /\ k \in Texts
    BY <1>1, MovesFacts, MessageNumbers
  <2>2. \A j \in Texts \ {k} : textTask'[j] = textTask[j] /\ (Here(j)' <=> Here(j))
    BY MovesFacts
  <2>3. M!Controls' = M!Controls /\ input' = input
    BY MovesFacts
  <2>4. \A j \in Texts : j <= prompted => j # k
    BY <1>1, MessageNumbers, MovesFacts
  <2>5. \A j \in M!Controls : j \in Texts /\ j # k
    BY <1>1 DEF M!Controls
  <2> QED
    BY <1>1, <2>1, <2>2, <2>3, <2>4, <2>5 DEF Waits, MessageIInv, M!Is
<1>4. ASSUME NEW a \in answered'
      PROVE  /\ a[1] \in Texts /\ a[2] \in Texts /\ a[3] \in 0..textCrashes'
             /\ a = <<a[1], a[2], a[3]>>
             /\ textUpdate'[a[1]] # "none" /\ a[2] < a[1] /\ M!Is(a[2], "prompt")'
             /\ \A j \in M!Controls' : ~(a[2] < j /\ j < a[1])
             /\ a[3] = textCrashes' => Here(a[2])' /\ textTask'[a[2]] = "none"
             /\ a[3] = textCrashes' /\ a[2] = prompted' => textTask'[a[1]] = "clearing"
  <2>1. CASE a \in answered
    <3>1. /\ a[1] \in Texts /\ a[2] \in Texts /\ a[3] \in 0..textCrashes
          /\ a = <<a[1], a[2], a[3]>>
          /\ textUpdate[a[1]] # "none" /\ a[2] < a[1] /\ M!Is(a[2], "prompt")
          /\ \A j \in M!Controls : ~(a[2] < j /\ j < a[1])
          /\ a[3] = textCrashes => Here(a[2]) /\ textTask[a[2]] = "none"
          /\ ~(a[2] = prompted /\ a[3] = textCrashes) /\ a[2] # 0
      BY <1>2, <2>1, MessageNumbers DEF MessageIInv, Answers
    <3> QED
      BY <3>1, MovesFacts DEF Moves, M!Is
  <2>2. CASE a = <<k, prompted, textCrashes>>
    <3>1. a[1] = k /\ a[2] = prompted /\ a[3] = textCrashes
      BY <2>2
    <3>2. textCrashes \in 0..textCrashes /\ textUpdate[k] # "none"
      BY MovesFacts, MessageNumbers DEF MessageIInv, MessageTyped, Here
    <3>4. a = <<a[1], a[2], a[3]>>
      BY <2>2, <3>1
    <3>6. a[2] \in Texts \ {k} /\ Here(a[2]) /\ textTask[a[2]] = "none"
      BY <1>1, <3>1, MovesFacts, MessageNumbers
    <3>5. textTask'[a[2]] = "none" /\ Here(a[2])'
      BY <3>6, MovesFacts
    <3>3. prompted' # 0 => textTask'[k] = "clearing"
      BY MovesFacts
    <3> QED
      BY <1>1, <3>1, <3>2, <3>3, <3>4, <3>5, MovesFacts DEF M!Is
  <2> QED
    BY <2>1, <2>2
<1>5. Answers'
  BY <1>4 DEF Answers
<1>6. OneAnswer'
  <2> SUFFICES ASSUME NEW a \in answered', NEW b \in answered', a[2] = b[2], a[3] = b[3]
               PROVE  a[1] = b[1]
    BY DEF OneAnswer
  <2> DEFINE t == <<k, prompted, textCrashes>>
  <2>1. t[1] = k /\ t[2] = prompted /\ t[3] = textCrashes
    OBVIOUS
  <2> HIDE DEF t
  <2>2. a \in answered \/ a = t
    BY DEF t
  <2>3. b \in answered \/ b = t
    BY DEF t
  <2> QED
    BY <1>2, <2>1, <2>2, <2>3 DEF OneAnswer, MessageIInv
<1> QED
  BY <1>3, <1>5, <1>6

LEMMA FirstLifeHolds ==
  ASSUME MessageIInv, NEW k, NEW pc, Moves(k, pc), UNCHANGED <<kept, instructions, answered>>,
         textTask[k] = "clearing" => pc = "none"
  PROVE  FirstLife'
<1> SUFFICES ASSUME textCrashes = 0 PROVE FirstLife'
  BY MovesFacts DEF FirstLife
<1>1. \A j \in Texts : textTask[j] \in {"none", "clearing"} => textTask'[j] \in {"none", "clearing"}
  BY MovesFacts DEF Moves
<1>2. \A j \in Texts : textTask[j] = "none" => textTask'[j] = "none"
  BY MovesFacts DEF Moves
<1> QED
  BY <1>1, <1>2, MovesFacts DEF MessageIInv, FirstLife, Answers

-----------------------------------------------------------------------------
(* The handlers, one by one.                                               *)

LEMMA TypedHolds ==
  ASSUME MessageIInv, NEW k, NEW pc, Moves(k, pc),
         \/ UNCHANGED <<mode, prompted>>
         \/ mode' = "none" /\ prompted' = 0
         \/ mode' \in M!Guided /\ prompted' # 0,
         kept' \in [Texts -> {"none", "QUEUED", "FAILED"}],
         questions' \subseteq Texts, instructions' \in [Texts -> Nat]
  PROVE  MessageTyped'
<1>1. mode' \in M!Modes /\ (mode' = "none" <=> prompted' = 0)
  BY DEF MessageIInv, MessageTyped, M!Modes, M!Guided
<1> QED
  BY <1>1, MovesFacts DEF MessageIInv, MessageTyped

LEMMA MessageTyping ==
  ASSUME MessageIInv
  PROVE  /\ kept \in [Texts -> {"none", "QUEUED", "FAILED"}]
         /\ questions \subseteq Texts /\ instructions \in [Texts -> Nat]
         /\ mode \in M!Modes /\ (mode = "none" <=> prompted = 0)
         /\ \A k \in Texts : Here(k) => input[k] \in Inputs
  BY DEF MessageIInv, MessageTyped, Known, Here

(* What becomes of a message that leaves the prompt and what is kept alone. *)
LEMMA QuietHolds ==
  ASSUME MessageIInv, NEW k, NEW pc, Moves(k, pc), Fits(k, pc), UNCHANGED <<mode, M!history>>,
         UNCHANGED <<kept, instructions>>, questions' \subseteq Texts,
         textTask[k] # "clearing", k \notin M!Controls \/ prompted = 0
  PROVE  MessageIInv'
<1>0. UNCHANGED <<mode, answered, prompted>>
  BY DEF M!history
<1>1. MessageTyped'
  BY <1>0, MessageTyping, TypedHolds
<1> QED
  BY <1>0, <1>1, MovesHold, RoutedHolds, WaitsOn, FirstLifeHolds DEF MessageIInv

LEMMA RouteTextHolds ==
  ASSUME MessageIInv, NEW k \in Texts, M!RouteText(k)
  PROVE  MessageIInv'
<1>1. PICK pc : /\ M!Goto(k, pc)
                /\ pc \in {"ingest", "none", mode}
                /\ pc = mode => pc \in {"ingest", "none"} \cup M!Guided
  BY MessageTyping DEF M!RouteText, M!Return, M!Modes
<1>2. Moves(k, pc)
  BY <1>1 DEF M!RouteText, Moves, M!At, Pcs, M!Guided
<1>3. k \notin M!Controls
  BY DEF M!RouteText, M!Controls
<1>4. UNCHANGED <<mode, M!kept, M!history>> /\ textTask[k] = "running"
  BY DEF M!RouteText, M!At
<1>5. Fits(k, pc)
  BY <1>1, <1>3, <1>4 DEF Fits, M!Guided
<1> QED
  BY <1>2, <1>3, <1>4, <1>5, QuietHolds, MessageTyping DEF M!kept

LEMMA RouteControlHolds ==
  ASSUME MessageIInv, NEW k \in Texts, M!RouteControl(k)
  PROVE  MessageIInv'
<1> DEFINE pc == input[k].kind
<1>1. textTask[k] = "running" /\ M!Turn(k) /\ M!Goto(k, pc) /\ M!Forget /\ UNCHANGED <<input, M!kept>>
  BY DEF M!RouteControl, M!At
<1>2. pc \in {"other", "prompt", "command"}
  <2>1. input[k] \in Inputs
    BY <1>1, MessageTyping DEF MessageIInv, Known
  <2> QED
    BY <2>1, Kinds DEF M!RouteControl
<1>3. Moves(k, pc)
  BY <1>1, <1>2 DEF Moves, Pcs
<1>4. Fits(k, pc)
  BY <1>1, <1>2 DEF Fits, M!Forget, M!Guided
<1>5. UNCHANGED <<kept, questions, instructions, answered>> /\ mode' = "none" /\ prompted' = 0
  BY <1>1 DEF M!Forget, M!kept
<1> HIDE DEF pc
<1>6. MessageTyped'
  BY <1>3, <1>5, MessageTyping, TypedHolds
<1>7. FirstLife'
  BY <1>1, <1>3, <1>5, FirstLifeHolds
<1> QED
  BY <1>1, <1>3, <1>4, <1>6, <1>7, MovesHold, RoutedHolds, WaitsNoMore DEF MessageIInv

LEMMA ClearHolds ==
  ASSUME MessageIInv, NEW k \in Texts, M!Clear(k)
  PROVE  MessageIInv'
<1>1. /\ textTask[k] = "clearing" /\ M!Turn(k) /\ M!Goto(k, "none") /\ M!Forget
      /\ UNCHANGED <<input, M!kept>>
  BY DEF M!Clear, M!At, M!Return
<1>3. Moves(k, "none")
  BY <1>1 DEF Moves, Pcs
<1>4. Fits(k, "none")
  BY DEF Fits, M!Guided
<1>5. UNCHANGED <<kept, questions, instructions, answered>> /\ mode' = "none" /\ prompted' = 0
  BY <1>1 DEF M!Forget, M!kept
<1>6. MessageTyped'
  BY <1>3, <1>5, MessageTyping, TypedHolds
<1>7. FirstLife'
  BY <1>1, <1>3, <1>5, FirstLifeHolds
<1> QED
  BY <1>1, <1>3, <1>4, <1>6, <1>7, MovesHold, RoutedHolds, WaitsNoMore DEF MessageIInv

(* Handlers that end without having kept an Item or an instruction.         *)
LEMMA EndsHolds ==
  ASSUME MessageIInv, NEW k \in Texts,
         M!Other(k) \/ M!CommandAsk(k) \/ M!CommandSearch(k) \/ M!Fails(k)
  PROVE  MessageIInv'
<1>1. /\ textTask[k] \in {"other", "command", "ingest", "ask", "profile", "setting"}
      /\ M!Turn(k) /\ M!Goto(k, "none") /\ UNCHANGED <<input, mode, kept, instructions, M!history>>
      /\ questions' \subseteq Texts
  BY MessageTyping DEF M!Other, M!CommandAsk, M!CommandSearch, M!Fails, M!Command, M!At,
                       M!Return, M!kept
<1>2. Moves(k, "none") /\ Fits(k, "none")
  BY <1>1 DEF Moves, Pcs, Fits, M!Guided
<1>3. k \notin M!Controls \/ prompted = 0
  BY <1>1 DEF MessageIInv, Routed, M!Guided
<1> QED
  BY <1>1, <1>2, <1>3, QuietHolds

LEMMA PromptHolds ==
  ASSUME MessageIInv, NEW k \in Texts, NEW out \in BOOLEAN, M!Prompt(k, out)
  PROVE  MessageIInv'
<1>1. PICK pc \in {"arming", "none"} : M!Goto(k, pc)
  BY DEF M!Prompt, M!Return
<1>2. textTask[k] = "prompt" /\ M!Turn(k) /\ UNCHANGED <<input, mode, M!kept, M!history>>
  BY DEF M!Prompt, M!At
<1>3. prompted = 0 /\ input[k].kind = "prompt"
  BY <1>2 DEF MessageIInv, Routed
<1>4. Moves(k, pc)
  BY <1>1, <1>2 DEF Moves, Pcs
<1>5. Fits(k, pc)
  BY <1>2, <1>3 DEF Fits, M!Guided, M!history
<1> QED
  BY <1>2, <1>3, <1>4, <1>5, QuietHolds, MessageTyping DEF M!kept

LEMMA ArmHolds ==
  ASSUME MessageIInv, NEW k \in Texts, M!Arm(k)
  PROVE  MessageIInv'
<1>1. /\ textTask[k] = "arming" /\ M!Turn(k) /\ M!Goto(k, "none") /\ UNCHANGED <<input, M!kept>>
      /\ mode' = input[k].to /\ prompted' = k /\ answered' = answered
  BY DEF M!Arm, M!At, M!Return
<1>2. Moves(k, "none") /\ Fits(k, "none")
  BY <1>1 DEF Moves, Pcs, Fits, M!Guided
<1>3. input[k].kind = "prompt" /\ prompted = 0
  BY <1>1 DEF MessageIInv, Routed
<1>4. input[k] \in Inputs /\ k # 0 /\ k \in Nat
  BY <1>2, MovesFacts, MessageNumbers
<1>5. input[k].to \in M!Guided
  BY <1>3, <1>4, InboundAssumption DEF M!MessagesAssumption, M!AnyInput
<1>6. UNCHANGED <<kept, questions, instructions>>
  BY <1>1 DEF M!kept
<1>7. MessageTyped'
  BY <1>1, <1>2, <1>4, <1>5, <1>6, MessageTyping, TypedHolds
<1>8. FirstLife'
  BY <1>1, <1>2, <1>6, FirstLifeHolds
<1>9. Waits'
  <2>1. k \in Texts /\ Here(k)' /\ M!Is(k, "prompt")'
    BY <1>1, <1>2, <1>3, MovesFacts DEF M!Is
  <2>2. \A j \in Texts : j <= k => textTask'[j] = "none"
    BY <1>2, <1>4, MovesFacts, MessageNumbers
  <2>3. ASSUME NEW j \in M!Controls', k < j, Here(j)' PROVE textTask'[j] # "none"
    <3>1. j \in Texts /\ j # k
      BY <2>1, <2>3, MessageNumbers DEF M!Controls
    <3>2. Here(j)
      BY <1>2, <1>4, <2>3, <3>1, MovesFacts
    <3>3. textTask[j] = "running"
      BY <1>1, <2>3, <3>1, <3>2 DEF MessageIInv, Turns
    <3> QED
      BY <1>2, <3>1, <3>3, MovesFacts
  <2> QED
    BY <1>1, <2>1, <2>2, <2>3 DEF Waits
<1>10. Answers'
  <2>1. \A a \in answered : ~(a[3] = textCrashes /\ a[2] = k)
    BY <1>1 DEF MessageIInv, Answers
  <2> QED
    BY <1>1, <1>2, <2>1, MovesFacts DEF Answers, MessageIInv, Moves, M!Is
<1>11. OneAnswer'
  BY <1>1 DEF OneAnswer, MessageIInv
<1> QED
  BY <1>2, <1>7, <1>8, <1>9, <1>10, <1>11, MovesHold, RoutedHolds DEF MessageIInv

LEMMA SaveHolds ==
  ASSUME MessageIInv, NEW k \in Texts, M!IngestText(k) \/ M!IngestMedia(k)
  PROVE  MessageIInv'
<1>1. PICK status \in {"QUEUED", "FAILED"} : M!At(k, "ingest") /\ M!Save(k, status)
  BY DEF M!IngestText, M!IngestMedia
<1>2. /\ textTask[k] = "ingest" /\ M!Turn(k) /\ M!Goto(k, "none")
      /\ UNCHANGED <<input, mode, questions, instructions, answered, prompted>>
      /\ kept' = IF kept[k] = "none" THEN [kept EXCEPT ![k] = status] ELSE kept
  BY <1>1 DEF M!At, M!Save, M!Return, M!history
<1>3. Moves(k, "none") /\ Fits(k, "none")
  BY <1>2 DEF Moves, Pcs, Fits, M!Guided
<1>4. k \notin M!Controls
  BY <1>2 DEF MessageIInv, Routed
<1>5. kept' \in [Texts -> {"none", "QUEUED", "FAILED"}] /\ \A j \in Texts \ {k} : kept'[j] = kept[j]
  BY <1>1, <1>2, MessageTyping
<1>6. MessageTyped'
  BY <1>2, <1>3, <1>5, MessageTyping, TypedHolds
<1>7. FirstLife'
  <2> SUFFICES ASSUME textCrashes = 0 PROVE FirstLife'
    BY <1>3, MovesFacts DEF FirstLife
  <2>1. /\ textTask'[k] = "none" /\ Here(k)'
        /\ \A j \in Texts \ {k} : textTask'[j] = textTask[j] /\ (Here(j)' <=> Here(j))
    BY <1>3, MovesFacts
  <2>2. \A j \in Texts : /\ kept'[j] # "none" => Here(j)' /\ textTask'[j] = "none"
                         /\ instructions[j] # 0 => Here(j)' /\ textTask'[j] \in {"none", "clearing"}
                         /\ instructions[j] \in {0, 1}
    BY <1>2, <1>5, <2>1 DEF MessageIInv, FirstLife
  <2>3. \A a \in answered : a[1] \in Texts \ {k}
    BY <1>2 DEF MessageIInv, FirstLife, Answers
  <2>4. \A a \in answered : /\ Here(a[1])' /\ textTask'[a[1]] \in {"none", "clearing"}
                            /\ kept'[a[1]] = "none"
    BY <1>5, <2>1, <2>3 DEF MessageIInv, FirstLife
  <2> QED
    BY <1>2, <2>2, <2>4 DEF FirstLife
<1> QED
  BY <1>2, <1>3, <1>4, <1>6, <1>7, MovesHold, RoutedHolds, WaitsOn DEF MessageIInv

(* One more instruction of k, which had none.                               *)
LEMMA Instructed ==
  ASSUME MessageIInv, NEW k, NEW pc, Moves(k, pc), textTask[k] \in {"profile", "command"},
         pc \in {"none", "clearing"}, kept' = kept,
         instructions' = [instructions EXCEPT ![k] = @ + 1]
  PROVE  /\ instructions' \in [Texts -> Nat]
         /\ textCrashes = 0 => \A j \in Texts :
               /\ kept'[j] # "none" => Here(j)' /\ textTask'[j] = "none"
               /\ instructions'[j] # 0 => Here(j)' /\ textTask'[j] \in {"none", "clearing"}
               /\ instructions'[j] \in {0, 1}
<1>1. instructions' \in [Texts -> Nat]
  BY MessageTyping, MovesFacts
<1> SUFFICES ASSUME textCrashes = 0, NEW j \in Texts
             PROVE  /\ kept'[j] # "none" => Here(j)' /\ textTask'[j] = "none"
                    /\ instructions'[j] # 0 => Here(j)' /\ textTask'[j] \in {"none", "clearing"}
                    /\ instructions'[j] \in {0, 1}
  BY <1>1
<1>2. CASE j = k
  <2>1. kept[k] = "none" /\ instructions[k] = 0
    BY <1>2 DEF MessageIInv, FirstLife
  <2>2. instructions'[k] = 1
    BY <1>2, <2>1, MessageTyping
  <2> QED
    BY <1>2, <2>1, <2>2, MovesFacts
<1>3. CASE j # k
  <2>1. instructions'[j] = instructions[j] /\ textTask'[j] = textTask[j] /\ (Here(j)' <=> Here(j))
    BY <1>3, MovesFacts, MessageTyping
  <2> QED
    BY <2>1 DEF MessageIInv, FirstLife
<1> QED
  BY <1>2, <1>3

LEMMA CommandInstructHolds ==
  ASSUME MessageIInv, NEW k \in Texts, M!CommandInstruct(k)
  PROVE  MessageIInv'
<1>1. /\ textTask[k] = "command" /\ M!Turn(k) /\ M!Goto(k, "none")
      /\ UNCHANGED <<input, mode, kept, questions, answered, prompted>>
      /\ instructions' = [instructions EXCEPT ![k] = @ + 1]
  BY DEF M!CommandInstruct, M!Command, M!At, M!Return, M!history
<1>2. Moves(k, "none") /\ Fits(k, "none") /\ prompted = 0
  BY <1>1 DEF Moves, Pcs, Fits, M!Guided, MessageIInv, Routed
<1>3. MessageTyped'
  BY <1>1, <1>2, Instructed, MessageTyping, TypedHolds
<1>4. FirstLife'
  <2> SUFFICES ASSUME textCrashes = 0 PROVE FirstLife'
    BY <1>2, MovesFacts DEF FirstLife
  <2>1. \A a \in answered : a[1] \in Texts \ {k}
    BY <1>1 DEF MessageIInv, FirstLife, Answers
  <2>2. \A a \in answered : /\ Here(a[1])' /\ textTask'[a[1]] \in {"none", "clearing"}
                            /\ kept'[a[1]] = "none"
    BY <1>1, <1>2, <2>1, MovesFacts DEF MessageIInv, FirstLife
  <2>3. \A j \in Texts :
               /\ kept'[j] # "none" => Here(j)' /\ textTask'[j] = "none"
               /\ instructions'[j] # 0 => Here(j)' /\ textTask'[j] \in {"none", "clearing"}
               /\ instructions'[j] \in {0, 1}
    BY <1>1, <1>2, Instructed
  <2> QED
    BY <1>1, <2>2, <2>3 DEF FirstLife
<1> QED
  BY <1>1, <1>2, <1>3, <1>4, MovesHold, RoutedHolds, WaitsOn DEF MessageIInv

LEMMA AnswerHolds ==
  ASSUME MessageIInv, NEW k \in Texts,
         M!Ask(k) \/ M!Instruct(k) \/ M!ChangeSetting(k) \/ M!Search(k)
  PROVE  MessageIInv'
<1>1. PICK pc \in {"none", "clearing"} :
        /\ textTask[k] \in M!Guided /\ M!Turn(k) /\ M!Goto(k, pc)
        /\ answered' = answered \cup {<<k, prompted, textCrashes>>}
        /\ \/ pc = "clearing" /\ UNCHANGED <<mode, prompted>>
           \/ pc = "none" /\ mode' = "none" /\ prompted' = 0
        /\ kept' = kept /\ questions' \in {questions, questions \cup {k}}
        /\ \/ instructions' = instructions
           \/ textTask[k] = "profile" /\ instructions' = [instructions EXCEPT ![k] = @ + 1]
        /\ input' = input
  BY DEF M!Ask, M!Instruct, M!ChangeSetting, M!Search, M!Taken, M!At, M!Return, M!Guided, M!kept
<1>2. Moves(k, pc)
  BY <1>1 DEF Moves, Pcs, M!Guided
<1>3. Fits(k, pc)
  BY <1>1 DEF Fits, M!Guided, MessageIInv, Routed
<1>4. /\ instructions' \in [Texts -> Nat]
      /\ textCrashes = 0 => \A j \in Texts :
               /\ kept'[j] # "none" => Here(j)' /\ textTask'[j] = "none"
               /\ instructions'[j] # 0 => Here(j)' /\ textTask'[j] \in {"none", "clearing"}
               /\ instructions'[j] \in {0, 1}
  <2>1. CASE instructions' = instructions
    <3>1. \A j \in Texts : textTask[j] = "none" => textTask'[j] = "none"
      BY <1>2, MovesFacts DEF Moves
    <3>2. \A j \in Texts : textTask[j] \in {"none", "clearing"} => textTask'[j] \in {"none", "clearing"}
      BY <1>1, <1>2, MovesFacts DEF Moves
    <3> QED
      BY <1>1, <1>2, <2>1, <3>1, <3>2, MovesFacts, MessageTyping DEF MessageIInv, FirstLife
  <2>2. CASE textTask[k] = "profile" /\ instructions' = [instructions EXCEPT ![k] = @ + 1]
    BY <1>1, <1>2, <2>2, Instructed
  <2> QED
    BY <1>1, <2>1, <2>2
<1>5. MessageTyped'
  BY <1>1, <1>2, <1>4, MessageTyping, TypedHolds
<1>6. FirstLife'
  <2> SUFFICES ASSUME textCrashes = 0 PROVE FirstLife'
    BY <1>2, MovesFacts DEF FirstLife
  <2>1. ASSUME NEW a \in answered'
        PROVE  Here(a[1])' /\ textTask'[a[1]] \in {"none", "clearing"} /\ kept'[a[1]] = "none"
    <3>1. CASE a \in answered
      <4>1. a[1] \in Texts \ {k}
        BY <1>1, <3>1 DEF MessageIInv, FirstLife, Answers, M!Guided
      <4> QED
        BY <1>1, <1>2, <3>1, <4>1, MovesFacts DEF MessageIInv, FirstLife
    <3>2. CASE a = <<k, prompted, textCrashes>>
      <4>1. kept[k] = "none"
        BY <1>1 DEF MessageIInv, FirstLife, M!Guided
      <4> QED
        BY <1>1, <1>2, <3>2, <4>1, MovesFacts
    <3> QED
      BY <1>1, <3>1, <3>2
  <2> QED
    BY <1>4, <2>1 DEF FirstLife
<1> QED
  BY <1>1, <1>2, <1>3, <1>5, <1>6, MovesHold, RoutedHolds, Replied DEF MessageIInv

-----------------------------------------------------------------------------
(* Every step keeps the invariant, and what follows from it.               *)

LEMMA MessageStep ==
  ASSUME MessageIInv, [M!Next]_(M!vars)
  PROVE  MessageIInv'
<1>1. CASE UNCHANGED M!vars
  BY <1>1 DEF M!vars, M!transport, M!kept, M!history, MessageIInv, MessageTyped, InOrder, Known,
              Turns, Routed, Waits,
              Answers, OneAnswer, FirstLife, Here, M!Controls, M!Is
<1>2. ASSUME NEW k \in Texts, NEW i \in Inputs, M!Send(k, i) PROVE MessageIInv'
  BY <1>2, SendHolds
<1>3. ASSUME NEW k \in Texts, M!Handle(k) PROVE MessageIInv'
  BY <1>3, RouteTextHolds, RouteControlHolds, EndsHolds, SaveHolds, ArmHolds, AnswerHolds,
     ClearHolds, CommandInstructHolds, PromptHolds DEF M!Handle
<1>4. CASE M!Poll /\ UNCHANGED <<input, mode, M!kept, M!history>>
  BY <1>4, PollHolds
<1>5. CASE M!Restart
  BY <1>5, RestartHolds
<1> QED
  BY <1>1, <1>2, <1>3, <1>4, <1>5 DEF M!Next

LEMMA Follows ==
  ASSUME MessageIInv
  PROVE  M!TypeOK /\ M!RepliesMatchPrompts
<1>1. M!TypeOK
  BY DEF MessageIInv, MessageTyped, M!TypeOK, M!TransportTypeOK
<1>2. M!RepliesMatchPrompts
  BY MessageNumbers DEF MessageIInv, OneAnswer, Answers, FirstLife, M!RepliesMatchPrompts
<1> QED
  BY <1>1, <1>2

(* Where a handler is, what it read and what it has yet to forget, after    *)
(* any messages and deaths.                                                 *)
THEOREM MessageInvariance == M!Spec => []MessageIInv
<1>1. M!Init => MessageIInv
  BY MessageInitHolds
<1>2. MessageIInv /\ [M!Next]_(M!vars) => MessageIInv'
  BY MessageStep
<1> QED
  BY <1>1, <1>2, PTL DEF M!Spec

(* The promise of the prompts (GuidedInput in bot/handlers.py).             *)
THEOREM RepliesCorrect == M!Spec => [](M!TypeOK /\ M!RepliesMatchPrompts)
  BY MessageInvariance, Follows, PTL

-----------------------------------------------------------------------------
(* The three side by side.  The theorems about captures are those of        *)
(* CaptureProofs; the instance repeats the definitions of Capture, which    *)
(* are the same.                                                            *)

X == INSTANCE CaptureProofs WITH items <- saved

LEMMA SameCounting ==
  ASSUME NEW s
  PROVE  C!Cardinality(s) = X!Cardinality(s)
  BY Zenon DEF C!Cardinality, X!Cardinality

LEMMA SameRecordings ==
  /\ C!Init <=> X!Init
  /\ C!vars = X!vars
  /\ C!Queue = X!Queue
  /\ C!RecomputeAlarm <=> X!RecomputeAlarm
  /\ C!CaptureAssumption <=> X!CaptureAssumption
  BY Zenon DEF C!Init, X!Init, C!vars, X!vars, C!Queue, X!Queue, C!Fresh, X!Fresh, C!Idle, X!Idle,
               C!NoTest, X!NoTest, C!RecomputeAlarm, X!RecomputeAlarm, C!Wakes, X!Wakes,
               C!CaptureAssumption, X!CaptureAssumption

LEMMA SameSaving ==
  ASSUME NEW c
  PROVE  /\ C!Save(c) <=> X!Save(c)
         /\ C!Discard(c) <=> X!Discard(c)
  BY SameCounting, SameRecordings, Zenon
  DEF C!Save, X!Save, C!Discard, X!Discard, C!NewCapture, X!NewCapture, C!Kept, X!Kept, C!Fresh,
      X!Fresh, C!AskDrain, X!AskDrain, C!server, X!server, C!bounds, X!bounds, C!Act, X!Act,
      C!Pending, X!Pending, C!Origin, X!Origin, C!Awake, X!Awake

LEMMA SameConfiguring ==
  ASSUME NEW s, NEW t
  PROVE  C!SaveConfig(s, t) <=> X!SaveConfig(s, t)
  BY SameRecordings, Zenon
  DEF C!SaveConfig, X!SaveConfig, C!Bound, X!Bound, C!AskDrain, X!AskDrain, C!server, X!server,
      C!Act, X!Act, C!Origin, X!Origin, C!Awake, X!Awake

LEMMA SameActs ==
  /\ C!Disconnect <=> X!Disconnect
  /\ C!StartTest <=> X!StartTest
  /\ C!Test <=> X!Test
  /\ C!Kill <=> X!Kill
  /\ C!AlarmFires <=> X!AlarmFires
  /\ \A max, refresh : C!OpenPopup(max, refresh) <=> X!OpenPopup(max, refresh)
  /\ \A drains : C!Start(drains) <=> X!Start(drains)
  /\ \A c : C!TimePasses(c) <=> X!TimePasses(c)
  BY SameRecordings, Zenon
  DEF C!Disconnect, X!Disconnect, C!StartTest, X!StartTest, C!Test, X!Test, C!TestAnswers,
      X!TestAnswers, C!StoreTest, X!StoreTest, C!EndTest, X!EndTest, C!Stored, X!Stored, C!Kill,
      X!Kill, C!AlarmFires, X!AlarmFires, C!OpenPopup, X!OpenPopup, C!Start, X!Start,
      C!TimePasses, X!TimePasses, C!Pending, X!Pending, C!AskDrain, X!AskDrain, C!server, X!server,
      C!stored, X!stored, C!bounds, X!bounds, C!Act, X!Act, C!Awake, X!Awake, C!Idle, X!Idle,
      C!NoTest, X!NoTest

LEMMA SameAttempts ==
  /\ C!Begin <=> X!Begin
  /\ C!NoMore <=> X!NoMore
  /\ C!StartAttempt <=> X!StartAttempt
  /\ \A c : C!NextCapture(c) <=> X!NextCapture(c)
  /\ \A lost : C!TransportFails(lost) <=> X!TransportFails(lost)
  BY SameCounting, SameRecordings, Zenon
  DEF C!Begin, X!Begin, C!NoMore, X!NoMore, C!StartAttempt, X!StartAttempt, C!NextCapture,
      X!NextCapture, C!TransportFails, X!TransportFails, C!Back, X!Back, C!Keep, X!Keep, C!Away,
      X!Away, C!Due, X!Due, C!Pending, X!Pending, C!Origin, X!Origin, C!AfterCaptures,
      X!AfterCaptures, C!Spent, X!Spent, C!Idle, X!Idle, C!server, X!server, C!bounds, X!bounds,
      C!Exhausted, X!Exhausted

LEMMA SameAnswers ==
  /\ C!PersistAccepted <=> X!PersistAccepted
  /\ C!RecordHttpFailure <=> X!RecordHttpFailure
  /\ C!CheckConnection <=> X!CheckConnection
  /\ C!StoreConnection <=> X!StoreConnection
  /\ C!RecordTransportFailure <=> X!RecordTransportFailure
  BY SameRecordings, Zenon
  DEF C!PersistAccepted, X!PersistAccepted, C!RecordHttpFailure, X!RecordHttpFailure,
      C!CheckConnection, X!CheckConnection, C!StoreConnection, X!StoreConnection,
      C!RecordTransportFailure, X!RecordTransportFailure, C!Back, X!Back, C!Keep, X!Keep,
      C!Exhausted, X!Exhausted, C!Update, X!Update, C!Later, X!Later, C!Terminal, X!Terminal,
      C!AfterConnection, X!AfterConnection, C!Stored, X!Stored, C!server, X!server, C!bounds,
      X!bounds

LEMMA SameStatuses ==
  /\ C!BeginPoll <=> X!BeginPoll
  /\ C!ApplyStatus <=> X!ApplyStatus
  /\ C!End <=> X!End
  /\ \A e, code : C!Poll(e, code) <=> X!Poll(e, code)
  BY SameRecordings, Zenon
  DEF C!BeginPoll, X!BeginPoll, C!ApplyStatus, X!ApplyStatus, C!End, X!End, C!Poll, X!Poll,
      C!Back, X!Back, C!Keep, X!Keep, C!Away, X!Away, C!Origin, X!Origin, C!Same, X!Same, C!Idle,
      X!Idle, C!server, X!server, C!bounds, X!bounds

LEMMA SameServers ==
  ASSUME NEW r
  PROVE  C!Server(r) <=> X!Server(r)
  BY Zenon
  DEF C!Server, X!Server, C!Unauthorized, X!Unauthorized, C!Invalid, X!Invalid, C!Unavailable,
      X!Unavailable, C!Lookup, X!Lookup, C!Insert, X!Insert, C!Answer, X!Answer, C!Ids, X!Ids,
      C!OnlyServer, X!OnlyServer, C!server, X!server, C!stored, X!stored, C!bounds, X!bounds

LEMMA SameProcessing ==
  ASSUME NEW s, NEW n
  PROVE  C!Process(s, n) <=> X!Process(s, n)
  BY Zenon DEF C!Process, X!Process, C!OnlyServer, X!OnlyServer, C!stored, X!stored, C!bounds,
               X!bounds

LEMMA SameSteps == C!Next <=> X!Next
<1>1. C!User <=> X!User
  BY SameSaving, SameConfiguring, SameActs, Zenon DEF C!User, X!User
<1>2. C!Drain <=> X!Drain
  BY SameAttempts, SameAnswers, SameStatuses, Zenon DEF C!Drain, X!Drain
<1> QED
  BY <1>1, <1>2, SameActs, SameServers, SameProcessing, SameCounting, Zenon DEF C!Next, X!Next

LEMMA SamePromises ==
  /\ C!TypeOK <=> X!TypeOK
  /\ C!ExactlyOneItem <=> X!ExactlyOneItem
  /\ C!StatusIsTrue <=> X!StatusIsTrue
<1>1. C!TypeOK <=> X!TypeOK
  BY Zenon DEF C!TypeOK, X!TypeOK, C!Entries, X!Entries
<1>2. C!ExactlyOneItem <=> X!ExactlyOneItem
  BY SameCounting, Zenon DEF C!ExactlyOneItem, X!ExactlyOneItem, C!Copies, X!Copies, C!Ids, X!Ids
<1>3. C!StatusIsTrue <=> X!StatusIsTrue
  BY Zenon DEF C!StatusIsTrue, X!StatusIsTrue
<1> QED
  BY <1>1, <1>2, <1>3

(* A behaviour of all is a behaviour of each: the others' steps leave its   *)
(* columns alone.                                                           *)
LEMMA StartOfEach == Init => C!Init /\ D!Init /\ M!Init
  BY DEF Init

LEMMA StepOfEach ==
  ASSUME [Next]_allVars
  PROVE  /\ [C!Next]_(C!vars)
         /\ [D!Next]_(D!vars)
         /\ [M!Next]_(M!vars)
  BY DEF Next, allVars, captureVars, decisionVars, messageVars, C!vars, D!vars, D!decisions,
         D!transport, M!vars, M!transport, M!kept, M!history

LEMMA EachRuns == Spec => C!Spec /\ D!Spec /\ M!Spec
  BY StartOfEach, StepOfEach, PTL DEF Spec, C!Spec, D!Spec, M!Spec

LEMMA CapturesRun == C!Spec => X!Spec
<1>1. C!Init => X!Init
  BY SameRecordings
<1>2. [C!Next]_(C!vars) => [X!Next]_(X!vars)
  BY SameSteps DEF C!vars, X!vars
<1> QED
  BY <1>1, <1>2, PTL DEF C!Spec, X!Spec

LEMMA CapturesAssumed == X!CaptureAssumption
  BY InboundAssumption, SameRecordings

(* Types, whatever moves.                                                   *)
THEOREM TypeCorrect == Spec => []TypeOK
<1>1. X!Spec => []X!TypeOK
  BY CapturesAssumed, X!TypeCorrect
<1>2. X!TypeOK /\ D!TypeOK /\ M!TypeOK => TypeOK
  BY SamePromises DEF TypeOK
<1> QED
  BY <1>1, <1>2, HistoryCorrect, RepliesCorrect, EachRuns, CapturesRun, PTL

(* A page that was saved in the browser becomes one Item of one server, or  *)
(* the user gave it up: the queue in storage, the identity of the capture   *)
(* and the unique index of the server, through lost answers, stops of the   *)
(* worker and changes of server.                                            *)
THEOREM SavedOnce == Spec => []ExactlyOneItem
<1>1. X!Spec => []X!ExactlyOneItem
  BY CapturesAssumed, X!SavedOnce
<1>2. X!ExactlyOneItem => ExactlyOneItem
  BY SamePromises DEF ExactlyOneItem
<1> QED
  BY <1>1, <1>2, EachRuns, CapturesRun, PTL

(* A status that the popup shows as final was given by the server the Item  *)
(* is on (applyStatus), whatever other server was configured meanwhile.     *)
THEOREM StatusCorrect == Spec => []StatusIsTrue
<1>1. X!Spec => []X!StatusIsTrue
  BY CapturesAssumed, X!StatusCorrect
<1>2. X!StatusIsTrue => StatusIsTrue
  BY SamePromises DEF StatusIsTrue
<1> QED
  BY <1>1, <1>2, EachRuns, CapturesRun, PTL

(* The history tells of every Item what became of it: the corrections since *)
(* its analysis and the changes of interest each start where the one before *)
(* ended and end at the value of the Item, an Item is done or archived once *)
(* and as the event says, a reminder has one reaction of a kind.            *)
THEOREM History == Spec => []HistoryAgrees
<1>1. D!HistoryAgrees => HistoryAgrees
  BY DEF HistoryAgrees
<1> QED
  BY <1>1, HistoryCorrect, EachRuns, PTL

(* A press that was answered before is not acted upon again                 *)
(* (_callback_was_consumed), after a restart and a second delivery too.     *)
THEOREM Repeats == Spec => RepeatsAreInert
<1>1. D!Spec => D!RepeatsAreInert
  BY PressesInert
<1> QED
  BY <1>1, EachRuns, PTL DEF RepeatsAreInert

(* An answer goes to the prompt before it with no other command between     *)
(* (GuidedInput and its middlewares), in one life of the process a prompt   *)
(* takes one answer, and a text that answered is no Item as well.           *)
THEOREM Replies == Spec => []RepliesMatchPrompts
<1>1. M!RepliesMatchPrompts => RepliesMatchPrompts
  BY DEF RepliesMatchPrompts
<1> QED
  BY <1>1, RepliesCorrect, EachRuns, PTL
=============================================================================
