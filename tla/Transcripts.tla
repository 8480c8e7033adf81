---------------------------- MODULE Transcripts ----------------------------
(***************************************************************************)
(* The transcript of one recording (app/llm/transcription.py and the       *)
(* transcript parts of app/services/processing.py).  Long audio is bought  *)
(* segment by segment, several at a time, and every segment is saved when  *)
(* it arrives, so that a deadline, a failed neighbour or a death does not  *)
(* cost what was paid for.  What a download of the source contains and     *)
(* which provider is configured may differ from one run to the next.       *)
(***************************************************************************)
EXTENDS Naturals, Sequences, FiniteSets

CONSTANTS Segments,     \* the segments of the audio
          Downloads,    \* what a download may bring: versions of the audio
          Silent,       \* those without speech
          Providers,    \* transcription providers and models
          Segmented,    \* those that split audio; the others take it whole
          Concurrency,  \* _MAX_SEGMENT_CONCURRENCY
          MaxRuns,      \* bound: runs of the extraction
          Nil

(* A segment's text is known by what it was made from and by whom.          *)
Transcription == [segment : Segments, of : Downloads, by : Providers]

TranscriptAssumption == /\ Segments # {} /\ Providers # {}
                        /\ Silent \subseteq Downloads /\ Segmented \subseteq Providers
                        /\ Concurrency \in Nat \ {0} /\ MaxRuns \in Nat
                        /\ Nil \notin Transcription \cup [Segments -> Transcription]

VARIABLES kind,        \* "audio" (voice, audio) or "video", which may also be looked at
          chunk,       \* rows TRANSCRIPT_CHUNK, oldest first
          transcript,  \* the row TRANSCRIPT: a text per segment, or Nil
          notes,       \* whether there is a row VISUAL_NOTES
          source,      \* item_sources.extraction_status
          provider,    \* the configured one
          run,         \* the extraction under way
          runs,
          bill,        \* [Segments -> what was bought, in order; Nil: paid and lost]
          unheard      \* history: downloads in which no speech was found

vars == <<kind, chunk, transcript, notes, source, provider, run, runs, bill, unheard>>

Speech(texts) == \E i \in Segments : texts[i].of \notin Silent

Empty == [i \in Segments |-> Nil]
Idle == [pc |-> "idle", of |-> Nil, cached |-> Empty, text |-> Empty,
         at |-> [i \in Segments |-> "waiting"]]

Init == /\ kind \in {"audio", "video"}
        /\ chunk = <<>> /\ transcript = Nil /\ notes = FALSE /\ source = "PENDING"
        /\ provider = CHOOSE p \in Providers : TRUE   \* Interrupt may change it at once
        /\ run = Idle /\ runs = 0
        /\ bill = [i \in Segments |-> <<>>]
        /\ unheard = {}

Durable == <<chunk, transcript, notes, source>>
Same == UNCHANGED <<kind, provider, runs, unheard>>

(* A text that reached no row is lost with the run.                         *)
Lose == bill' = [i \in Segments |->
                    IF run.at[i] \in {"answered", "told"} /\ bill[i] # <<>>
                    THEN [bill[i] EXCEPT ![Len(bill[i])] = Nil] ELSE bill[i]]

Fail == source' = "FAILED" /\ run' = Idle /\ Lose

-----------------------------------------------------------------------------
(* _restored_source_content                                                 *)
Restorable == transcript # Nil \/ (kind = "video" /\ notes)
Due == run.pc = "idle" /\ source = "PENDING"

Restore == /\ Due /\ Restorable
           /\ source' = "READY"
           /\ UNCHANGED <<chunk, transcript, notes, run, bill>> /\ Same

RowsOf(i) == {n \in DOMAIN chunk : chunk[n].segment = i}
LastOf(rows) == CHOOSE n \in rows : \A m \in rows : m <= n

(* Fault: of several rows the first one.                                    *)
Oldest(i) == IF RowsOf(i) = {} THEN Nil
             ELSE chunk[CHOOSE n \in RowsOf(i) : \A m \in RowsOf(i) : n <= m]

(* _transcript_checkpoints: of several rows of a segment the last one.      *)
Newest(i) == IF RowsOf(i) = {} THEN Nil ELSE chunk[LastOf(RowsOf(i))]

Download(d) == /\ Due /\ ~Restorable /\ runs < MaxRuns
               /\ runs' = runs + 1
               /\ run' = [Idle EXCEPT !.pc = "transcribing", !.of = d,
                                      !.cached = [i \in Segments |-> Newest(i)]]
               /\ UNCHANGED <<Durable, kind, provider, bill, unheard>>

DownloadFails == /\ Due /\ ~Restorable /\ runs < MaxRuns
                 /\ runs' = runs + 1
                 /\ Fail
                 /\ UNCHANGED <<kind, chunk, transcript, notes, provider, unheard>>

-----------------------------------------------------------------------------
(* OpenRouterTranscriptionProvider.transcribe                               *)
Wanted(i) == [segment |-> i, of |-> run.of, by |-> provider]
Bought(i) == Append(bill[i], Wanted(i))
Splits == run.pc = "transcribing" /\ provider \in Segmented
To(i, at) == run' = [run EXCEPT !.at[i] = at]

(* Fault: a checkpoint is known by its position alone.                      *)
MatchesIndex(i) == run.cached[i] # Nil

(* TranscriptionSegmentCheckpoint.matches_input                             *)
Matches(i) == run.cached[i] = Wanted(i)

Reuse(i) == /\ Splits /\ run.at[i] = "waiting" /\ Matches(i)
            /\ run' = [run EXCEPT !.at[i] = "saved", !.text[i] = run.cached[i]]
            /\ UNCHANGED <<Durable, bill>> /\ Same

Call(i) == /\ Splits /\ run.at[i] = "waiting" /\ ~Matches(i)
           /\ Cardinality({j \in Segments : run.at[j] = "calling"}) < Concurrency
           /\ To(i, "calling")
           /\ UNCHANGED <<Durable, bill>> /\ Same

(* The text is in memory; its place among the calls is free.                *)
Answer(i) == /\ Splits /\ run.at[i] = "calling"
             /\ run' = [run EXCEPT !.at[i] = "answered", !.text[i] = Wanted(i)]
             /\ bill' = [bill EXCEPT ![i] = Bought(i)]
             /\ UNCHANGED Durable /\ Same

Refused(i) == /\ Splits /\ run.at[i] = "calling"
              /\ To(i, "failed")
              /\ UNCHANGED <<Durable, bill>> /\ Same

(* persist, one at a time under checkpoint_lock                             *)
Persist(i) == /\ Splits /\ run.at[i] = "answered"
              /\ chunk' = Append(chunk, run.text[i])
              /\ To(i, "saved")
              /\ UNCHANGED <<transcript, notes, source, bill>> /\ Same

(* OpenAiTranscriptionProvider.transcribe, also for short audio: one        *)
(* request, no checkpoints.                                                 *)
AskWhole == /\ run.pc = "transcribing" /\ provider \notin Segmented
            /\ \A i \in Segments : run.at[i] = "waiting"
            /\ \/ /\ run' = [run EXCEPT !.at = [i \in Segments |-> "told"],
                                        !.text = [i \in Segments |-> Wanted(i)]]
                  /\ bill' = [i \in Segments |-> Bought(i)]
               \/ run' = [run EXCEPT !.at = [i \in Segments |-> "failed"]] /\ bill' = bill
            /\ UNCHANGED Durable /\ Same

-----------------------------------------------------------------------------
(* gather waits for all of them; then one failure fails the source.         *)
Gathered == /\ run.pc = "transcribing"
            /\ \A i \in Segments : run.at[i] \in {"saved", "told", "failed"}
SomeFailed == \E i \in Segments : run.at[i] = "failed"

SegmentFailed == /\ Gathered /\ SomeFailed
                 /\ Fail
                 /\ UNCHANGED <<chunk, transcript, notes>> /\ Same

(* Fault: the segments are left for a later clean-up.                       *)
SaveTranscriptOnly ==
    /\ Gathered /\ ~SomeFailed /\ Speech(run.text)
    /\ transcript' = run.text
    /\ source' = source /\ run' = [Idle EXCEPT !.pc = "looking"]
    /\ UNCHANGED <<chunk, notes, bill>> /\ Same

(* The text and the removal of its segments are one commit; for a recording *)
(* without pictures so is READY.                                            *)
SaveTranscript ==
    /\ Gathered /\ ~SomeFailed /\ Speech(run.text)
    /\ transcript' = run.text
    /\ chunk' = <<>>
    /\ IF kind = "audio" THEN source' = "READY" /\ run' = Idle
       ELSE source' = source /\ run' = [Idle EXCEPT !.pc = "looking"]
    /\ UNCHANGED <<notes, bill>> /\ Same

(* Nobody speaks: an error for audio, _visual_only_fallback for a video.    *)
NoSpeech ==
    /\ Gathered /\ ~SomeFailed /\ ~Speech(run.text)
    /\ IF kind = "audio" THEN Fail
       ELSE source' = source /\ run' = [Idle EXCEPT !.pc = "looking"] /\ Lose
    /\ unheard' = unheard \cup {run.of}
    /\ UNCHANGED <<kind, chunk, transcript, notes, provider, runs>>

(* A video without a sound track is sent to nobody.                         *)
NoTrack == /\ run.pc = "transcribing" /\ kind = "video" /\ run.of \in Silent
           /\ \A i \in Segments : run.at[i] = "waiting"
           /\ run' = [Idle EXCEPT !.pc = "looking"]
           /\ unheard' = unheard \cup {run.of}
           /\ UNCHANGED <<Durable, kind, provider, runs, bill>>

(* _enrich_source_visual: its failure is the source's only if there is      *)
(* nothing else.                                                            *)
Describe == /\ run.pc = "looking"
            /\ notes' = TRUE
            /\ run' = [Idle EXCEPT !.pc = "extracted"]
            /\ UNCHANGED <<chunk, transcript, source, bill>> /\ Same

NotDescribed == /\ run.pc = "looking"
                /\ IF transcript = Nil THEN Fail
                   ELSE source' = source /\ run' = [Idle EXCEPT !.pc = "extracted"] /\ bill' = bill
                /\ UNCHANGED <<chunk, transcript, notes>> /\ Same

MarkReady == /\ run.pc = "extracted"
             /\ source' = "READY" /\ run' = Idle
             /\ UNCHANGED <<chunk, transcript, notes, bill>> /\ Same

(* The deadline of the run, or the death of the process; a restart may come *)
(* with another provider.                                                   *)
Interrupt(p) == /\ run.pc # "idle" \/ p # provider
                /\ provider' = p
                /\ run' = Idle /\ Lose
                /\ UNCHANGED <<Durable, kind, runs, unheard>>

(* The Retry of the user, as far as this source is concerned.               *)
Retry == /\ source = "FAILED" /\ runs < MaxRuns
         /\ source' = "PENDING"
         /\ UNCHANGED <<chunk, transcript, notes, run, bill>> /\ Same

Next == \/ Restore \/ DownloadFails \/ AskWhole \/ SegmentFailed \/ SaveTranscript
        \/ NoSpeech \/ NoTrack \/ Describe \/ NotDescribed \/ MarkReady \/ Retry
        \/ \E d \in Downloads : Download(d)
        \/ \E p \in Providers : Interrupt(p)
        \/ \E i \in Segments : Reuse(i) \/ Call(i) \/ Answer(i) \/ Refused(i) \/ Persist(i)

-----------------------------------------------------------------------------
TypeOK == /\ kind \in {"audio", "video"} /\ notes \in BOOLEAN
          /\ chunk \in Seq(Transcription)
          /\ transcript \in [Segments -> Transcription] \cup {Nil}
          /\ source \in {"PENDING", "READY", "FAILED"} /\ provider \in Providers
          /\ run.pc \in {"idle", "transcribing", "looking", "extracted"}
          /\ run.at \in [Segments -> {"waiting", "calling", "answered", "told", "saved", "failed"}]
          /\ runs \in 0..MaxRuns /\ unheard \subseteq Silent

(* A transcript is the whole of one download by one provider, in order,     *)
(* whatever was left over from other downloads and providers; beside it no  *)
(* segments are kept.                                                       *)
OneDownload ==
    transcript # Nil =>
        /\ \E d \in Downloads, p \in Providers :
              transcript = [i \in Segments |-> [segment |-> i, of |-> d, by |-> p]]
        /\ chunk = <<>>

(* A source is READY with something to read, and without a transcript only  *)
(* if a recording of it was heard and had no speech.                        *)
VisualOnlyIsSilent ==
    /\ source = "READY" => Restorable
    /\ notes /\ transcript = Nil => unheard # {}

(* No segment is bought again while the newest thing bought for it, by any  *)
(* run, is the same and was not lost.                                       *)
SegmentsBoughtOnce ==
    \A i \in Segments : \A k \in 1..(Len(bill[i]) - 1) :
        bill[i][k] = Nil \/ bill[i][k] # bill[i][k + 1]

(* For the pipeline it is one source, with content as soon as there is      *)
(* something to restore.                                                    *)
Source == INSTANCE OneSource WITH
    Sources <- {"recording"},
    row <- [k \in {"recording"} |-> [state |-> source, saved |-> Restorable, holes |-> "whole"]]
=============================================================================
