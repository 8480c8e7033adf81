------------------------------ MODULE Messages ------------------------------
(***************************************************************************)
(* What the bot takes a message of the chat for (app/bot/handlers.py): an  *)
(* Item to keep (services/ingestion.py), or the answer to a prompt that a  *)
(* button or a bare command left behind (GuidedInput), which becomes a     *)
(* question, a search, an instruction or a setting.  The prompt waiting    *)
(* for its answer is kept in memory and gone after a restart.              *)
(***************************************************************************)
EXTENDS TelegramUpdates, FiniteSets

CONSTANTS Inputs,   \* what the user may send: [kind, to]
          Nil

Guided == {"ask", "search", "profile", "setting"}
Modes == {"none"} \cup Guided

AnyInput == [kind : {"text", "bad_text", "other"}, to : {"none"}]
            \cup [kind : {"media"}, to : {"readable", "unreadable"}]
            \cup [kind : {"prompt"}, to : Guided]
            \cup [kind : {"command"}, to : {"ask", "search", "profile"}]

MessagesAssumption == /\ Updates \subseteq Nat \ {0} /\ MaxCrashes \in Nat
                      /\ Inputs \subseteq AnyInput

VARIABLES input,        \* [Updates -> Inputs, or Nil]
          mode,         \* the FSM state of the chat
          items,        \* [Updates -> status of the Item saved, or "none"] (uq_items_source)
          questions,    \* updates kept as a question (uq_ask_jobs_user_telegram_message)
          instructions, \* [Updates -> profile jobs made of it]
          answered,     \* history variable: <<text, prompt, life of the process>> taken together
          prompted      \* history variable: the update whose prompt set the mode, 0 for none

kept == <<items, questions, instructions>>
history == <<answered, prompted>>
vars == <<transport, input, mode, kept, history>>

Init == /\ TransportInit
        /\ input = [k \in Updates |-> Nil]
        /\ mode = "none" /\ questions = {}
        /\ items = [k \in Updates |-> "none"]
        /\ instructions = [k \in Updates |-> 0]
        /\ answered = {} /\ prompted = 0

Is(k, kind) == input[k].kind = kind

Send(k, i) == /\ Arrive(k)
              /\ input' = [input EXCEPT ![k] = i]
              /\ UNCHANGED <<mode, kept, history>>

-----------------------------------------------------------------------------
(* The filters of make_router read the mode when the turn comes.            *)

(* Texts that come when nothing is waited for, and whatever is forwarded or *)
(* a file, is kept; a bad answer to a prompt is refused and waited for      *)
(* again.  Searches and instructions are taken as they are.                 *)
RouteText(k) ==
    /\ At(k, "running") /\ input[k].kind \in {"text", "bad_text", "media"}
    /\ IF mode = "none" \/ Is(k, "media") THEN Goto(k, "ingest")
       ELSE IF Is(k, "bad_text") /\ mode \in {"ask", "setting"} THEN Return(k)
       ELSE Goto(k, mode)
    /\ UNCHANGED <<input, mode, kept, history>>

Forget == mode' = "none" /\ prompted' = 0 /\ answered' = answered

(* Commands and buttons first forget the prompt (the two middlewares,       *)
(* on_navigation_callback).                                                 *)
RouteControl(k) ==
    /\ At(k, "running") /\ input[k].kind \notin {"text", "bad_text", "media"}
    /\ Forget
    /\ Goto(k, input[k].kind)
    /\ UNCHANGED <<input, kept>>

(* Anything else a command or button does is modelled elsewhere.            *)
Other(k) == /\ At(k, "other")
            /\ Return(k)
            /\ UNCHANGED <<input, mode, kept, history>>

-----------------------------------------------------------------------------
(* ingest_message: the Item, its sources and its event in one commit, or    *)
(* the Item that is there.                                                  *)
Save(k, status) == /\ items' = IF items[k] = "none" THEN [items EXCEPT ![k] = status] ELSE items
                   /\ Return(k)
                   /\ UNCHANGED <<input, mode, questions, instructions, history>>

IngestText(k) == At(k, "ingest") /\ ~Is(k, "media") /\ Save(k, "QUEUED")

(* ingest_media: a file that will not be read and has no text beside it has *)
(* failed from the start.                                                   *)
IngestMedia(k) == /\ At(k, "ingest") /\ Is(k, "media")
                  /\ Save(k, IF input[k].to = "unreadable" THEN "FAILED" ELSE "QUEUED")

-----------------------------------------------------------------------------
(* _begin_guided_input: the mode is set once the prompt is out.             *)
Prompt(k, out) == /\ At(k, "prompt")
                  /\ IF out THEN Goto(k, "arming") ELSE Return(k)
                  /\ UNCHANGED <<input, mode, kept, history>>

Arm(k) == /\ At(k, "arming")
          /\ mode' = input[k].to /\ prompted' = k /\ answered' = answered
          /\ Return(k)
          /\ UNCHANGED <<input, kept>>

-----------------------------------------------------------------------------
(* The answer is taken, then the mode forgotten.                            *)
Taken(k) == prompted' = prompted /\ answered' = answered \cup {<<k, prompted, crashes>>}

(* on_guided_ask_input, enqueue_ask                                         *)
Ask(k) == /\ At(k, "ask")
          /\ questions' = questions \cup {k}
          /\ Taken(k) /\ Goto(k, "clearing")
          /\ UNCHANGED <<input, mode, items, instructions>>

(* on_guided_profile_input, enqueue_profile_update: no key, a repeated      *)
(* update makes a second job.                                               *)
Instruct(k) == /\ At(k, "profile")
               /\ instructions' = [instructions EXCEPT ![k] = @ + 1]
               /\ Taken(k) /\ Goto(k, "clearing")
               /\ UNCHANGED <<input, mode, items, questions>>

(* on_guided_notification_setting_input                                     *)
ChangeSetting(k) == /\ At(k, "setting")
                    /\ Taken(k) /\ Goto(k, "clearing")
                    /\ UNCHANGED <<input, mode, kept>>

(* on_guided_search_input forgets the prompt first.                         *)
Search(k) == /\ At(k, "search")
             /\ mode' = "none" /\ prompted' = 0
             /\ answered' = answered \cup {<<k, prompted, crashes>>}
             /\ Return(k)
             /\ UNCHANGED <<input, kept>>

Clear(k) == /\ At(k, "clearing")
            /\ Forget
            /\ Return(k)
            /\ UNCHANGED <<input, kept>>

-----------------------------------------------------------------------------
(* The same with the text behind the command: nothing was prompted.         *)
Command(k, what) == At(k, "command") /\ input[k].to = what /\ Return(k)

CommandAsk(k) == /\ Command(k, "ask")
                 /\ questions' = questions \cup {k}
                 /\ UNCHANGED <<input, mode, items, instructions, history>>

CommandInstruct(k) == /\ Command(k, "profile")
                      /\ instructions' = [instructions EXCEPT ![k] = @ + 1]
                      /\ UNCHANGED <<input, mode, items, questions, history>>

CommandSearch(k) == Command(k, "search") /\ UNCHANGED <<input, mode, kept, history>>

(* A statement of the database or the answer to the user fails: the update  *)
(* is dropped, the prompt goes on waiting.                                  *)
Fails(k) == /\ \E pc \in {"ingest", "command", "ask", "profile", "setting"} : At(k, pc)
            /\ Return(k)
            /\ UNCHANGED <<input, mode, kept, history>>

-----------------------------------------------------------------------------
Restart == /\ CrashRestart
           /\ Forget
           /\ UNCHANGED <<input, kept>>

Handle(k) == \/ RouteText(k) \/ RouteControl(k) \/ Other(k)
             \/ IngestText(k) \/ IngestMedia(k) \/ Arm(k)
             \/ Ask(k) \/ Instruct(k) \/ ChangeSetting(k) \/ Search(k) \/ Clear(k)
             \/ CommandAsk(k) \/ CommandInstruct(k) \/ CommandSearch(k) \/ Fails(k)
             \/ \E out \in BOOLEAN : Prompt(k, out)

Next == \/ \E k \in Updates, i \in Inputs : Send(k, i)
        \/ \E k \in Updates : Handle(k)
        \/ Poll /\ UNCHANGED <<input, mode, kept, history>>
        \/ Restart

Spec == Init /\ [][Next]_vars

-----------------------------------------------------------------------------
(* Types.                                                                   *)
TypeOK == /\ TransportTypeOK
          /\ input \in [Updates -> Inputs \cup {Nil}]
          /\ mode \in Modes /\ (mode = "none" <=> prompted = 0)
          /\ items \in [Updates -> {"none", "QUEUED", "FAILED"}]
          /\ questions \subseteq Updates /\ instructions \in [Updates -> Nat]


-----------------------------------------------------------------------------
(* The prompts are one-shot: a prompt takes one answer each time it is      *)
(* shown, of what was sent after it, and a command, a button or another     *)
(* prompt that comes between ends its wait; a file or a forwarded message   *)
(* is saved and the wait goes on.  While no process dies, a text that was   *)
(* an answer is nothing else.                                               *)
Controls == {k \in Updates : input[k] # Nil
                             /\ input[k].kind \in {"prompt", "other", "command"}}
RepliesMatchPrompts ==
    /\ \A a, b \in answered : a[2] = b[2] /\ a[3] = b[3] => a[1] = b[1]
    /\ \A a \in answered : /\ Is(a[2], "prompt") /\ a[2] < a[1]
                           /\ \A j \in Controls : ~(a[2] < j /\ j < a[1])
    /\ crashes = 0 => /\ \A a \in answered : items[a[1]] = "none"
                      /\ \A k \in Updates : instructions[k] <= 1
=============================================================================
