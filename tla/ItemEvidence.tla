---------------------------- MODULE ItemEvidence ----------------------------
(***************************************************************************)
(* The pipeline, and below the grain of its sources what is asked of       *)
(* others for them piece by piece: transcripts, the elements of a post,    *)
(* and the summaries of a long text.  A source of ItemPipeline is          *)
(* OneSource; Transcripts and Posts show how one gets there.  `focus` says *)
(* which of them is looked at: the pieces have columns of their own.       *)
(***************************************************************************)
EXTENDS ItemPipeline, Sequences

CONSTANTS Segments, Downloads, Silent, Providers, Segmented, Concurrency,
          ElementKeys, ElementKind, Listings, MaxElements, MaxBytes, Caption,
          Versions, Chunks,
          MaxHearings,     \* bound: extractions of one recording
          MaxReadings,     \* bound: readings of one post
          MaxAnalyses      \* bound: analyses of one text

VARIABLES focus,
          medium, chunk, transcript, notes, mediaSource, provider, mediaRun, mediaRuns,
          segmentBill, unheard,
          vision, progress, evidence, postSource, postRun, postRuns, paid,
          version, summary, at, used, given, analyses, summaryBill

mediaVars == <<medium, chunk, transcript, notes, mediaSource, provider, mediaRun, mediaRuns,
               segmentBill, unheard>>
postVars == <<vision, progress, evidence, postSource, postRun, postRuns, paid>>
summaryVars == <<version, summary, at, used, given, analyses, summaryBill>>
evidenceVars == <<focus, vars, mediaVars, postVars, summaryVars>>

T == INSTANCE Transcripts WITH kind <- medium, source <- mediaSource, run <- mediaRun,
                               runs <- mediaRuns, bill <- segmentBill, MaxRuns <- MaxHearings
P == INSTANCE Posts WITH Keys <- ElementKeys, Kind <- ElementKind, source <- postSource,
                         run <- postRun, runs <- postRuns, MaxRuns <- MaxReadings
S == INSTANCE Summaries WITH row <- summary, runs <- analyses, bill <- summaryBill,
                             MaxRuns <- MaxAnalyses

ASSUME EvidenceAssumption == T!TranscriptAssumption /\ P!PostAssumption /\ S!SummaryAssumption

EvidenceInit == /\ focus \in {"items", "transcript", "post", "summary"}
                /\ Init
                /\ T!Init /\ (focus # "transcript" => medium = "audio")
                /\ P!Init
                /\ S!Init

EvidenceNext ==
    /\ focus' = focus
    /\ \/ focus = "items" /\ Next /\ UNCHANGED <<mediaVars, postVars, summaryVars>>
       \/ focus = "transcript" /\ T!Next /\ UNCHANGED <<vars, postVars, summaryVars>>
       \/ focus = "post" /\ P!Next /\ UNCHANGED <<vars, mediaVars, summaryVars>>
       \/ focus = "summary" /\ S!Next /\ UNCHANGED <<vars, mediaVars, postVars>>

EvidenceSpec == EvidenceInit /\ [][EvidenceNext]_evidenceVars

-----------------------------------------------------------------------------
PiecesTyped == T!TypeOK /\ P!TypeOK /\ S!TypeOK

(* What was put together of pieces is one whole: a transcript of one        *)
(* download by one provider, a post complete or called partial, summaries   *)
(* of one text - whatever was left over from runs that were cut short,      *)
(* failed, or saw something else.  (Out of focus the pieces are as Init.)   *)
PiecesFit ==
    focus # "items" =>
       /\ PiecesTyped
       /\ T!OneDownload /\ T!VisualOnlyIsSilent /\ P!PartialIsHonest /\ S!SummariesOfOneText

(* No piece that is kept is bought again, by any mix of deadline, restart,  *)
(* failed neighbour, Retry and change of what is fetched.                   *)
NothingBoughtTwice ==
    focus # "items" => T!SegmentsBoughtOnce /\ P!ElementsBoughtOnce /\ S!ChunksBoughtOnce

(* The sources of Items, recordings and posts all keep the promise that the *)
(* pipeline rests on: READY behind durable content, fetched once, reopened  *)
(* only by a Retry with something to gain.                                  *)
SourcesKeepPromise == Source!Spec /\ T!Source!Spec /\ P!Source!Spec
=============================================================================
