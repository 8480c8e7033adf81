------------------------------- MODULE Posts -------------------------------
(***************************************************************************)
(* A multi-part Instagram post, one element at a time                      *)
(* (app/services/instagram_posts.py).  What is learnt of an element -      *)
(* what is said in it, what is seen in it - is a row of its own, what      *)
(* remains to do is a JSON record in the source, and the two are           *)
(* committed apart.  The post may be edited between two runs, may become   *)
(* unreadable, and downloads have a budget.                                *)
(***************************************************************************)
EXTENDS Naturals, Sequences, FiniteSets

CONSTANTS Keys,         \* "position:id:kind" of elements
          Kind,         \* [Keys -> "photo" | "video" | "unknown"]
          Listings,     \* what the post may consist of: sequences of Keys
          MaxElements,  \* MAX_POST_ELEMENTS, the rest of a listing is only counted
          MaxBytes,     \* POST_DOWNLOAD_BYTES, in units
          Caption,      \* whether the caption alone is worth analysing
          MaxRuns,      \* bound: runs of the extraction
          Nil

Channels == {"audio", "visual"}
(* The errors of a channel, by what follows from them: "vision" is          *)
(* VISION_UNAVAILABLE, "budget" POST_BUDGET_EXHAUSTED, which may both be    *)
(* tried again.  That of an unknown medium is kept with "visual".           *)
Errors == {"none", "transient", "permanent", "vision", "budget"}
Part == [key : Keys, done : BOOLEAN, silent : BOOLEAN, audio : Errors, visual : Errors]
NewPart(k) == [key |-> k, done |-> FALSE, silent |-> FALSE, audio |-> "none", visual |-> "none"]
Progress == [parts : Seq(Part), total : Nat, processed : Nat, complete : BOOLEAN,
             exhausted : BOOLEAN, refresh : {"none", "transient", "permanent"}, bytes : Nat]

(* The key of an element holds its position, so no listing has it twice.    *)
PostAssumption == /\ Listings \subseteq Seq(Keys) /\ {MaxElements, MaxBytes, MaxRuns} \subseteq Nat
                  /\ \A l \in Listings : \A m, n \in DOMAIN l : l[m] = l[n] => m = n
                  /\ Caption \in BOOLEAN /\ Nil \notin Progress

VARIABLES vision,    \* whether the configured provider can look at pictures
          progress,  \* the record `instagram_post` of the source, or Nil
          evidence,  \* rows TRANSCRIPT and VISUAL_NOTES: pairs of key and channel
          source,    \* extraction_status; a permanent failure is DEAD
          run, runs,
          paid       \* history: [Keys \X Channels -> answers that still stand]

vars == <<vision, progress, evidence, source, run, runs, paid>>

Idle == [pc |-> "idle", at |-> 0, part |-> Nil, ask |-> {}, used |-> 0]

Init == /\ vision = FALSE   \* Interrupt may change it at once
        /\ progress = Nil /\ evidence = {} /\ source = "PENDING"
        /\ run = Idle /\ runs = 0
        /\ paid = [c \in Keys \X Channels |-> 0]

KeysOf(p) == {p.parts[n].key : n \in DOMAIN p.parts}
Seen(p) == \E k \in KeysOf(p), c \in Channels : <<k, c>> \in evidence
(* _project_post: something to analyse, and whether it is the whole.        *)
HasContent(p) == Seen(p) \/ Caption
Partial(p) == p.processed < p.total

(* Fault: an element counts when it was visited.                            *)
Visited(parts) == Len(parts)

Done(parts) == Cardinality({n \in DOMAIN parts : parts[n].done})
ErrorsOf(p) == {p.parts[n][c] : n \in DOMAIN p.parts, c \in Channels} \ {"none"}

-----------------------------------------------------------------------------
Due == run.pc = "idle" /\ source = "PENDING" /\ runs < MaxRuns

(* restore_post: complete and worth analysing.                              *)
Restorable == progress # Nil /\ progress.complete /\ HasContent(progress)

Restore == /\ run.pc = "idle" /\ source = "PENDING" /\ Restorable
           /\ source' = "READY"
           /\ UNCHANGED <<vision, progress, evidence, run, runs, paid>>

(* get_post fails: what an earlier run found is the content, if there is    *)
(* any, and the failure is noted.                                           *)
ReadingFails(error) ==
    /\ Due /\ ~Restorable
    /\ runs' = runs + 1
    /\ IF progress # Nil /\ HasContent(progress)
       THEN /\ progress' = [progress EXCEPT !.complete = TRUE, !.refresh = error]
            /\ run' = [Idle EXCEPT !.pc = "extracted"] /\ source' = source
       ELSE /\ source' = IF error = "permanent" THEN "DEAD" ELSE "FAILED"
            /\ UNCHANGED <<progress, run>>
    /\ UNCHANGED <<vision, evidence, paid>>

(* The record of an element the post still has is kept, with its errors.    *)
Kept(k) == LET old == IF progress = Nil THEN {} ELSE
                      {p \in {progress.parts[n] : n \in DOMAIN progress.parts} : p.key = k}
           IN  IF old = {} THEN NewPart(k) ELSE CHOOSE p \in old : TRUE

(* get_post answers: the new record and the removal of rows of elements     *)
(* that are gone are one commit.                                            *)
Read(l) ==
    /\ Due /\ ~Restorable
    /\ runs' = runs + 1
    /\ LET shown == 1..(IF Len(l) < MaxElements THEN Len(l) ELSE MaxElements)
           parts == [n \in shown |-> Kept(l[n])]
           valid == {l[n] : n \in shown}
       IN  /\ progress' = [parts |-> parts, total |-> Len(l), processed |-> 0, complete |-> FALSE,
                           exhausted |-> FALSE, refresh |-> "none",
                           bytes |-> IF progress = Nil THEN 0 ELSE progress.bytes]
           /\ evidence' = {e \in evidence : e[1] \in valid}
           /\ paid' = [c \in DOMAIN paid |-> IF c[1] \in valid THEN paid[c] ELSE 0]
    /\ run' = [Idle EXCEPT !.pc = "elements", !.at = 1]
    /\ UNCHANGED <<vision, source>>

-----------------------------------------------------------------------------
(* The loop of extract_post and _extract_element                            *)

Remaining == MaxBytes - progress.bytes
Here == progress.parts[run.at]
InLoop == run.pc = "elements" /\ run.at <= Len(progress.parts) /\ ~progress.exhausted
Has(k, c) == <<k, c>> \in evidence

SkipDone == /\ InLoop /\ Here.done
            /\ run' = [run EXCEPT !.at = @ + 1]
            /\ UNCHANGED <<vision, progress, evidence, source, runs, paid>>

OutOfBudget == InLoop /\ ~Here.done /\ Remaining = 0

(* Fault: that nobody speaks in it is forgotten.                            *)
MissingAny(p) == {c \in Channels :
                     /\ ~Has(p.key, c) /\ p[c] # "permanent"
                     /\ IF c = "audio" THEN Kind[p.key] = "video" ELSE vision}

(* What an element is still asked for.                                      *)
Missing(p) == {c \in Channels :
                  /\ ~Has(p.key, c) /\ p[c] # "permanent"
                  /\ IF c = "audio" THEN Kind[p.key] = "video" /\ ~p.silent ELSE vision}

(* prepare_post_element: nothing, or a failure of each channel that was     *)
(* asked for; "silent" is a video without a sound track.  A download that   *)
(* was killed counts as the whole of what remained.                         *)
Outcomes(ask) == [ask -> {"fine", "transient", "permanent", "budget"}]
After(p, ask, o, mute, c) == CASE c \in ask /\ o[c] # "fine" -> o[c]
                               [] c \in ask /\ mute -> "none"
                               [] OTHER -> p[c]
Prepare ==
    /\ InLoop /\ ~Here.done /\ Remaining > 0
    /\ LET clean == [Here EXCEPT !.audio = IF Has(Here.key, "audio") THEN "none" ELSE @,
                                 !.visual = IF Has(Here.key, "visual") THEN "none" ELSE @]
           ask == Missing(clean)
       IN  IF Kind[Here.key] = "unknown"
           THEN run' = [run EXCEPT !.pc = "close", !.part = [clean EXCEPT !.visual = "permanent"]]
           ELSE \E used \in IF ask = {} THEN {0} ELSE 0..Remaining, o \in Outcomes(ask),
                   mute \in BOOLEAN :
                   /\ mute => "audio" \in ask /\ o["audio"] = "fine"
                   /\ run' = [run EXCEPT
                        !.pc = "close", !.used = used,
                        !.ask = {c \in ask : o[c] = "fine"} \ (IF mute THEN {"audio"} ELSE {}),
                        !.part = [clean EXCEPT !.silent = @ \/ mute,
                                               !.audio = After(clean, ask, o, mute, "audio"),
                                               !.visual = After(clean, ask, o, mute, "visual")]]
    /\ UNCHANGED <<vision, progress, evidence, source, runs, paid>>

Asking(c) == run.pc = "close" /\ c \in run.ask /\ (c = "visual" => "audio" \notin run.ask)
Answered(c, part) == run' = [run EXCEPT !.ask = @ \ {c}, !.part = part]

(* The provider answers and the row is committed.                           *)
Learn(c) == /\ Asking(c)
            /\ evidence' = evidence \cup {<<run.part.key, c>>}
            /\ paid' = [paid EXCEPT ![<<run.part.key, c>>] = @ + 1]
            /\ Answered(c, [run.part EXCEPT ![c] = "none"])
            /\ UNCHANGED <<vision, progress, source, runs>>

(* EMPTY_TRANSCRIPT: remembered with the element, not in a row.             *)
NoSpeech == /\ Asking("audio")
            /\ paid' = [paid EXCEPT ![<<run.part.key, "audio">>] = @ + 1]
            /\ Answered("audio", [run.part EXCEPT !.silent = TRUE, !.audio = "none"])
            /\ UNCHANGED <<vision, progress, evidence, source, runs>>

ProviderFails(c) == /\ Asking(c)
                    /\ \E e \in {"transient", "permanent"} : Answered(c, [run.part EXCEPT ![c] = e])
                    /\ UNCHANGED <<vision, progress, evidence, source, runs, paid>>

(* The end of _extract_element and the commit of what it found.             *)
Blind(p) == /\ ~vision /\ Kind[p.key] # "unknown"
            /\ \A c \in Channels : ~Has(p.key, c)
            /\ Kind[p.key] = "photo" \/ p.silent \/ p.audio = "permanent"
Verdict(p) == [p EXCEPT !.visual = CASE Has(p.key, "audio") /\ @ = "vision" -> "none"
                                     [] Blind(p) /\ @ = "none" -> "vision"
                                     [] OTHER -> @]
Finished(p) == /\ \E c \in Channels : Has(p.key, c)
               /\ \A c \in Channels : p[c] = "none"

SaveElement ==
    /\ run.pc = "close" /\ run.ask = {}
    /\ LET p == Verdict(run.part)
           parts == [progress.parts EXCEPT ![run.at] = [p EXCEPT !.done = Finished(p)]]
       IN  progress' = [progress EXCEPT !.parts = parts, !.processed = Done(parts),
                                        !.bytes = @ + run.used,
                                        !.exhausted = "budget" \in {p.audio, p.visual}]
    /\ run' = [Idle EXCEPT !.pc = "elements", !.at = run.at + 1]
    /\ UNCHANGED <<vision, evidence, source, runs, paid>>

(* All elements seen, or the budget spent.  Without content the source      *)
(* fails, for good if nothing that failed may be tried again.               *)
Complete ==
    /\ run.pc = "elements" /\ (~InLoop \/ OutOfBudget)
    /\ progress' = [progress EXCEPT !.processed = Done(progress.parts), !.complete = TRUE,
                                    !.exhausted = @ \/ OutOfBudget]
    /\ IF HasContent(progress) THEN source' = source /\ run' = [Idle EXCEPT !.pc = "extracted"]
       ELSE /\ source' = IF ErrorsOf(progress) \ {"permanent"} # {} THEN "FAILED" ELSE "DEAD"
            /\ run' = Idle
    /\ UNCHANGED <<vision, evidence, runs, paid>>

-----------------------------------------------------------------------------
MarkReady == /\ run.pc = "extracted"
             /\ source' = "READY" /\ run' = Idle
             /\ UNCHANGED <<vision, progress, evidence, runs, paid>>

(* The deadline or a death; a restart may come with another provider.  That *)
(* nobody speaks is lost if the element was not saved.                      *)
Interrupt(v) == /\ run.pc # "idle" \/ v # vision
                /\ vision' = v
                /\ run' = Idle
                /\ paid' = IF run.pc = "close" /\ run.part.silent /\ ~Here.silent
                           THEN [paid EXCEPT ![<<run.part.key, "audio">>] = 0] ELSE paid
                /\ UNCHANGED <<progress, evidence, source, runs>>

(* has_retryable_post_elements                                              *)
Retryable == \/ progress.exhausted \/ progress.refresh = "transient"
             \/ ErrorsOf(progress) \ {"permanent"} # {}

(* Fault: a reopened post still counts as complete.                         *)
RetryAsComplete == /\ source = "FAILED" \/ (source = "READY" /\ Retryable)
                   /\ runs < MaxRuns
                   /\ source' = "PENDING"
                   /\ UNCHANGED <<vision, progress, evidence, run, runs, paid>>

(* Retry of a failed source, or of a post from which more may be had; when  *)
(* the Item allows it is ItemPipeline's.                                    *)
Retry == /\ source = "FAILED" \/ (source = "READY" /\ Retryable)
         /\ runs < MaxRuns
         /\ source' = "PENDING"
         /\ progress' = IF progress = Nil THEN Nil
                        ELSE [progress EXCEPT !.complete = FALSE, !.bytes = 0, !.exhausted = FALSE]
         /\ UNCHANGED <<vision, evidence, run, runs, paid>>

Next == \/ Restore \/ SkipDone \/ Prepare \/ NoSpeech \/ SaveElement
        \/ Complete \/ MarkReady \/ Retry
        \/ \E e \in {"transient", "permanent"} : ReadingFails(e)
        \/ \E l \in Listings : Read(l)
        \/ \E c \in Channels : Learn(c) \/ ProviderFails(c)
        \/ \E v \in BOOLEAN : Interrupt(v)

-----------------------------------------------------------------------------
TypeOK == /\ vision \in BOOLEAN /\ evidence \subseteq Keys \X Channels
          /\ source \in {"PENDING", "READY", "FAILED", "DEAD"}
          /\ progress # Nil => /\ progress.parts \in Seq(Part)
                               /\ progress.bytes \in 0..MaxBytes
                               /\ progress.processed <= progress.total
          /\ run.pc \in {"idle", "elements", "close", "extracted"}
          /\ run.part \in Part \cup {Nil} /\ run.ask \subseteq Channels
          /\ runs \in 0..MaxRuns

(* A post is READY with something to analyse; unless it is called partial,  *)
(* of every element of the post there is evidence - rows that are there,    *)
(* whatever was edited, removed, interrupted or retried in between.         *)
PartialIsHonest ==
    source = "READY" =>
        /\ HasContent(progress)
        /\ Partial(progress) \/ /\ Len(progress.parts) = progress.total
                                /\ \A k \in KeysOf(progress) :
                                      \E c \in Channels : <<k, c>> \in evidence

(* What is known of an element is asked of no provider again.               *)
ElementsBoughtOnce == \A c \in DOMAIN paid : paid[c] <= 1

(* For the pipeline it is one source, with content once it can be restored. *)
HolesNow == CASE Partial(progress) /\ Retryable -> "retryable"
              [] Partial(progress) /\ ~Retryable -> "lost"
              [] ~Partial(progress) /\ Retryable -> "recheck"
              [] OTHER -> "whole"
Source == INSTANCE OneSource WITH
    Sources <- {"post"},
    row <- [k \in {"post"} |-> [state |-> source, saved |-> Restorable,
                                holes |-> IF Restorable THEN HolesNow ELSE "whole"]]
=============================================================================
