------------------------------- MODULE Inbound -------------------------------
(***************************************************************************)
(* What reaches the inbox from outside, side by side: captures of the      *)
(* browser extension, buttons pressed in the chat, messages sent to it.    *)
(* No step of one touches what the properties of another speak of, so      *)
(* their steps commute and a behaviour of the program is one behaviour of  *)
(* each; `focus` says which of them moves.                                 *)
(***************************************************************************)
EXTENDS Naturals, Sequences, FiniteSets

CONSTANTS Captures, Servers, Tokens, Good, MaxPending, MaxAttempts, MaxSends, MaxActs, MaxLate,
          Items, Reminders, Kind, Focus, Categories, Types, Interests, Category, Elsewhere,
          Buttons, Presses, MaxOutside,
          Texts, Inputs, MaxCrashes, Nil

VARIABLES focus,
          record, config, connection, recent, alarm, work, drain, tester, acts, flight,
          saved, ready, discarded,
          item, reminder, history, receipts, press, pressUpdate, pressTask, pressCrashes,
          snoozes, outside, handled,
          input, mode, kept, questions, instructions, answered, prompted,
          textUpdate, textTask, textCrashes

captureVars == <<record, config, connection, recent, alarm, work, drain, tester, acts, flight,
                 saved, ready, discarded>>
decisionVars == <<item, reminder, history, receipts, press, pressUpdate, pressTask,
                  pressCrashes, snoozes, outside, handled>>
messageVars == <<input, mode, kept, questions, instructions, answered, prompted, textUpdate,
                 textTask, textCrashes>>
allVars == <<focus, captureVars, decisionVars, messageVars>>

C == INSTANCE Capture WITH items <- saved
D == INSTANCE Decisions WITH Updates <- Presses, update <- pressUpdate, task <- pressTask,
                             crashes <- pressCrashes, answered <- handled
M == INSTANCE Messages WITH Updates <- Texts, update <- textUpdate, task <- textTask,
                            crashes <- textCrashes, items <- kept

ASSUME InboundAssumption ==
    C!CaptureAssumption /\ D!DecisionsAssumption /\ M!MessagesAssumption

Init == /\ focus \in {"capture", "decision", "message"}
        /\ C!Init /\ D!Init /\ M!Init

Next == /\ focus' = focus
        /\ \/ focus = "capture" /\ C!Next /\ UNCHANGED <<decisionVars, messageVars>>
           \/ focus = "decision" /\ D!Next /\ UNCHANGED <<captureVars, messageVars>>
           \/ focus = "message" /\ M!Next /\ UNCHANGED <<captureVars, decisionVars>>

(* A part out of focus stays in its initial state, where nothing is due.    *)
Spec == Init /\ [][Next]_allVars
FairSpec == Spec /\ C!Fairness

-----------------------------------------------------------------------------
(* The types of all three.                                                  *)
TypeOK == C!TypeOK /\ D!TypeOK /\ M!TypeOK

(* A captured page becomes one Item, whatever was lost on the way.          *)
ExactlyOneItem == C!ExactlyOneItem

(* The popup repeats what the server of an Item said of it.                 *)
StatusIsTrue == C!StatusIsTrue

(* A capture does not wait for ever before a server that would take it.     *)
CaptureSettles == C!CaptureSettles

(* A button that Telegram delivers again does nothing.                      *)
RepeatsAreInert == D!RepeatsAreInert

(* What was decided and what is recorded of it agree.                       *)
HistoryAgrees == D!HistoryAgrees

(* An answer belongs to the prompt before it, and to that one only.         *)
RepliesMatchPrompts == M!RepliesMatchPrompts
=============================================================================
