------------------------------ MODULE Requests ------------------------------
(***************************************************************************)
(* What the user asks of the program, side by side: profile updates,       *)
(* questions and exports, which are durable requests, and changes of the   *)
(* settings.  They share no column, so their steps commute and a behaviour *)
(* of the program is one behaviour of each; `focus` says which of them     *)
(* moves.                                                                  *)
(***************************************************************************)
EXTENDS Integers, Sequences, FiniteSets

CONSTANTS Jobs, Exports, Workers, Readers, Scalars, Rules, SeedRules, Edits, SeedFile,
          Keys, Channel, Texts, Asked, Clients, Hits, Contents, Replies,
          ProviderAttempts, MaxSends, MaxKeys,
          Processes, First, DeliveryAttempts, MaxFiles, MaxRestarts,
          SettingEdits, Chat, SettingKeys, Forms, Nil

VARIABLES focus,
          profileJob, profile, notice, worker, reader, crashes,
          askRow, order, askNotice, client, asker, askRestarts,
          exportJob, delivery, file, aged, exporter, sender, exportRestarts,
          value, enabled, since, edit

profileVars == <<profileJob, profile, notice, worker, reader, crashes>>
askVars == <<askRow, order, askNotice, client, asker, askRestarts>>
exportVars == <<exportJob, delivery, file, aged, exporter, sender, exportRestarts>>
settingVars == <<value, enabled, since, edit>>
allVars == <<focus, profileVars, askVars, exportVars, settingVars>>

P == INSTANCE ProfileJobs WITH job <- profileJob, MaxCrashes <- MaxRestarts
A == INSTANCE AskJobs WITH row <- askRow, notice <- askNotice, process <- asker,
                           restarts <- askRestarts, MaxAttempts <- ProviderAttempts
E == INSTANCE ExportJobs WITH Jobs <- Exports, job <- exportJob, worker <- exporter,
                              restarts <- exportRestarts, MaxAttempts <- DeliveryAttempts
S == INSTANCE Settings WITH Edits <- SettingEdits

ASSUME RequestsAssumption ==
    P!ProfileAssumption /\ A!AskAssumption /\ E!ExportAssumption /\ S!SettingsAssumption

Init == /\ focus \in {"profile", "ask", "export", "settings"}
        /\ P!Init /\ A!Init /\ E!Init /\ S!Init

Next == /\ focus' = focus
        /\ \/ focus = "profile" /\ P!Next /\ UNCHANGED <<askVars, exportVars, settingVars>>
           \/ focus = "ask" /\ A!Next /\ UNCHANGED <<profileVars, exportVars, settingVars>>
           \/ focus = "export" /\ E!Next /\ UNCHANGED <<profileVars, askVars, settingVars>>
           \/ focus = "settings" /\ S!Next /\ UNCHANGED <<profileVars, askVars, exportVars>>

(* A part out of focus stays in its initial state, where nothing is due.    *)
Spec == Init /\ [][Next]_allVars
FairSpec == Spec /\ P!Fairness /\ A!Fairness /\ E!Fairness

-----------------------------------------------------------------------------
(* The types of all of them.                                                *)
TypeOK == P!TypeOK /\ A!TypeOK /\ E!TypeOK /\ S!TypeOK

(* Updates of different fields of the profile do not wipe each other.       *)
DisjointEditsSurvive == P!DisjointEditsSurvive

(* What was accepted is what is stored: the question under its key, and of  *)
(* overlapping edits of the settings each one that no other edit of the     *)
(* same field followed.                                                     *)
AcceptedIsStored == A!AcceptedIsStored /\ S!EditsSurvive

(* While one process runs, through its deaths and restarts, the archive of  *)
(* a delivery still to be sent is on disk.                                  *)
ActiveDeliveryHasArtifact == E!ActiveDeliveryHasArtifact

(* No export is refused for a row saved while it was reading.               *)
ConsistentSnapshot == E!ConsistentSnapshot

(* While one process runs, through its deaths and restarts, every request   *)
(* of whatever kind is answered or refused once and for all, its            *)
(* announcement recorded in the same step, and what a poll of a question    *)
(* said is not taken back.  Processes that overlapped may replace one       *)
(* outcome by the other, announced as well; no request is open again, and   *)
(* none stays open.                                                         *)
OneOutcomeEach == P!Promise!Spec /\ A!Promise!Spec /\ E!Promise!Spec /\ A!PublishedStays

(* What is kept for a while only goes in the end: HTTP answers and archives. *)
LeftoversVanish == A!ExpiredVanish /\ E!ArchivesVanish
=============================================================================
