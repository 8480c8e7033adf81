--------------------------- MODULE TelegramUpdates ---------------------------
(***************************************************************************)
(* How updates of one chat reach the bot's handlers (aiogram, started in   *)
(* app/main.py).  Telegram keeps an update until a later poll confirms it; *)
(* the dispatcher polls on while its handlers run, each in a task of its   *)
(* own, and SimpleEventIsolation lets the tasks of one chat take turns in  *)
(* the order of their updates.  So an update may be handled twice, if the  *)
(* process dies before the next poll, or never, if it dies after.          *)
(***************************************************************************)
EXTENDS Naturals

CONSTANTS Updates,      \* bound: the numbers of the updates, 1..n
          MaxCrashes    \* bound: deaths of the process

VARIABLES update,     \* [Updates -> "none", "queued", "fetched", "confirmed"]
          task,       \* [Updates -> "none", or where its handler is]
          crashes

transport == <<update, task, crashes>>

TransportInit == /\ update = [k \in Updates |-> "none"]
                 /\ task = [k \in Updates |-> "none"]
                 /\ crashes = 0

(* The user does the next thing.                                            *)
Arrive(k) ==
    /\ \A j \in Updates : update[j] = "none" <=> j >= k
    /\ update' = [update EXCEPT ![k] = "queued"]
    /\ UNCHANGED <<task, crashes>>

(* A poll confirms what the one before it brought, handled or not, and      *)
(* starts a handler for each of the updates it brings.                      *)
Poll ==
    /\ \E k \in Updates : update[k] \in {"queued", "fetched"}
    /\ update' = [k \in Updates |-> CASE update[k] = "queued" -> "fetched"
                                      [] update[k] = "fetched" -> "confirmed"
                                      [] OTHER -> update[k]]
    /\ task' = [k \in Updates |-> IF update[k] = "queued" THEN "running" ELSE task[k]]
    /\ crashes' = crashes

(* The handlers end with the process; what no poll confirmed comes again.   *)
CrashRestart ==
    /\ crashes < MaxCrashes /\ \E k \in Updates : update[k] # "none"
    /\ crashes' = crashes + 1
    /\ task' = [k \in Updates |-> "none"]
    /\ update' = [k \in Updates |-> IF update[k] = "fetched" THEN "queued" ELSE update[k]]

(* Fault: no isolation, the handlers of one chat overlap.                   *)
NoTurns(k) == TRUE

Turn(k) == \A j \in Updates : j < k => task[j] = "none"

At(k, pc) == task[k] = pc /\ Turn(k)
Goto(k, pc) == /\ task' = [task EXCEPT ![k] = pc]
               /\ UNCHANGED <<update, crashes>>
Return(k) == Goto(k, "none")

TransportTypeOK == /\ update \in [Updates -> {"none", "queued", "fetched", "confirmed"}]
                   /\ crashes \in 0..MaxCrashes
=============================================================================
