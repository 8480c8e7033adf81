------------------------- MODULE ItemPipelineProofs -------------------------
(***************************************************************************)
(* Proofs about the pipeline, for any Items, sources, workers and bounds,  *)
(* and, in the last section, about the pipeline and the outbox together.   *)
(*                                                                         *)
(* What a result covers is decided long before it is published: the        *)
(* invariant follows the content from the sources through the worker that  *)
(* holds it to the stage that stands for it in the database.               *)
(***************************************************************************)
EXTENDS ItemOutbox, FiniteSetTheorems, TLAPS

PastAnalysis == {"TOPIC_CLASSIFYING", "PRIORITIZING", "READY"}

WorkerRows == [pc : WorkerPcs, item : Items \cup {Nil}, at : 0..MaxSources,
               got : SUBSET (0..MaxSources), kept : BOOLEAN]

(* A worker that stands past the analysis, or keeps one, has one.           *)
Backed(w) ==
    wk[w].pc \in {"classify", "publish"} \/ (wk[w].pc # "idle" /\ wk[w].kept)
       => history[wk[w].item].analyses > 0

AnalysisBehind == \A w \in Workers : Backed(w)

(* Before it is ingested, nothing of an Item exists and nobody holds it.    *)
Untouched ==
    \A i \in Items : item[i].status = "NONE" =>
       /\ item[i].stage = "INGESTED"
       /\ \A s \in Of(i) : source[<<i, s>>].state = "PENDING"
       /\ \A w \in Workers : wk[w].pc # "idle" => wk[w].item # i
       /\ tap.item # i

(* What the Retry handler read of the sources is still so when it writes.   *)
TapIsCurrent ==
    tap # NoTap => /\ tap.sources \subseteq InState(tap.item, {"FAILED"})
                   /\ tap.posts \subseteq InState(tap.item, {"READY"})
                   /\ \A s \in tap.posts : <<tap.item, s>> \in Posts

(* Content that an analysis may be made from: all there is to have.         *)
Complete(i, got) ==
    /\ InState(i, {"PENDING"}) = {}
    /\ got = InState(i, {"READY"})
    /\ got # {} \/ HasFallback(i)

(* Where a busy worker stands, what it holds, and the stage in the row.     *)
Agrees(w, i) ==
    /\ wk[w].pc = "claimed" => wk[w].at = 0 /\ wk[w].got = {} /\ ~wk[w].kept
    /\ wk[w].kept => history[i].stale
    /\ wk[w].pc = "extract" => /\ item[i].stage = "EXTRACTING"
                               /\ wk[w].got = {s \in InState(i, {"READY"}) : s < wk[w].at}
                               /\ \A s \in InState(i, {"PENDING"}) : wk[w].at <= s
    /\ wk[w].pc = "analyze" =>
          item[i].stage = "ANALYZING" /\ ~wk[w].kept /\ Complete(i, wk[w].got)
    /\ wk[w].pc = "classify" => item[i].stage = "TOPIC_CLASSIFYING"
    /\ wk[w].pc = "publish" => item[i].stage = "PRIORITIZING"

WorkerAgrees ==
    \A w \in Workers, i \in Items : Busy(w, i) /\ ~history[i].late => Agrees(w, i)

(* The stages past the analysis stand for content that covers the sources.  *)
Covers(i) ==
    /\ Complete(i, item[i].covered)
    /\ item[i].partial = IsPartial(i, item[i].covered)

Covered(i) ==
    item[i].stage \in PastAnalysis /\ ~history[i].late /\ ~history[i].stale => Covers(i)

StageCovers == \A i \in Items : Covered(i)

ReadyAgrees ==
    \A i \in Items : ~history[i].late => (item[i].status = "READY" <=> item[i].stage = "READY")

IInv == /\ TypeOK
        /\ SoleOwner
        /\ CheckpointsAreHonest
        /\ AnalysisBehind
        /\ Untouched
        /\ TapIsCurrent
        /\ WorkerAgrees
        /\ StageCovers
        /\ ReadyAgrees

-----------------------------------------------------------------------------
(* Initially                                                               *)

(* The invariant holds of an empty database.                                *)
LEMMA InitInv == Init => IInv
<1> SUFFICES ASSUME Init PROVE IInv
  OBVIOUS
<1>1. TypeOK
  BY PipelineAssumption
     DEF Init, TypeOK, ItemRows, SourceRows, Statuses, Stages, WorkerPcs, IdleWorker, NoTap
<1>2. SoleOwner /\ AnalysisBehind /\ WorkerAgrees
  BY DEF Init, SoleOwner, AnalysisBehind, Backed, WorkerAgrees, Busy, IdleWorker
<1>3. CheckpointsAreHonest /\ TapIsCurrent /\ StageCovers /\ ReadyAgrees
  BY DEF Init, CheckpointsAreHonest, TapIsCurrent, StageCovers, Covered, ReadyAgrees,
         PastAnalysis
<1>4. Untouched
  BY PipelineAssumption DEF Init, Untouched, IdleWorker, NoTap, Of
<1> QED
  BY <1>1, <1>2, <1>3, <1>4 DEF IInv

-----------------------------------------------------------------------------
(* Sources that do not change                                              *)

SameSources(i) == \A s \in Of(i) : source'[<<i, s>>] = source[<<i, s>>]

(* What is said of an Item's sources changes with them only.                *)
LEMMA SameStates ==
  ASSUME NEW i \in Items, SameSources(i)
  PROVE  /\ \A states : InState(i, states)' = InState(i, states)
         /\ Failures(i)' = Failures(i)
         /\ \A got \in SUBSET Of(i) : IsPartial(i, got)' = IsPartial(i, got)
<1>1. \A states : InState(i, states)' = InState(i, states)
  BY DEF SameSources, InState, Of
<1>2. Failures(i)' = Failures(i)
  BY <1>1 DEF Failures
<1>3. ASSUME NEW got \in SUBSET Of(i) PROVE IsPartial(i, got)' = IsPartial(i, got)
  BY <1>2 DEF SameSources, IsPartial
<1> QED
  BY <1>1, <1>2, <1>3

(* An analysis covers the sources until one of the two changes.             *)
LEMMA CoversIsSame ==
  ASSUME NEW i \in Items, SameSources(i),
         item'[i].covered = item[i].covered, item'[i].partial = item[i].partial
  PROVE  Covers(i)' <=> Covers(i)
<1>1. InState(i, {"READY"}) \in SUBSET Of(i)
  BY DEF InState
<1>2. Complete(i, item[i].covered)' <=> Complete(i, item[i].covered)
  BY SameStates DEF Complete, HasFallback
<1>3. Complete(i, item[i].covered) =>
         (IsPartial(i, item[i].covered)' = IsPartial(i, item[i].covered))
  BY <1>1, SameStates DEF Complete
<1> QED
  BY <1>2, <1>3 DEF Covers

(* The same for the stage that stands for it.                               *)
LEMMA CoveredIsSame ==
  ASSUME NEW i \in Items, SameSources(i), item'[i] = item[i], history'[i] = history[i]
  PROVE  Covered(i)' <=> Covered(i)
BY CoversIsSame DEF Covered

(* A worker agrees with its Item until one of the two changes.              *)
LEMMA AgreesIsSame ==
  ASSUME NEW w \in Workers, NEW i \in Items, SameSources(i), wk'[w] = wk[w],
         item'[i] = item[i], history'[i] = history[i]
  PROVE  Agrees(w, i)' <=> Agrees(w, i)
<1>1. \A states : InState(i, states)' = InState(i, states)
  BY SameStates
<1>2. Complete(i, wk[w].got)' <=> Complete(i, wk[w].got)
  BY <1>1 DEF Complete, HasFallback
<1> QED
  BY <1>1, <1>2 DEF Agrees

-----------------------------------------------------------------------------
(* A step of a worker on the Item it is busy with                          *)

(* Nothing but the worker, its Item and the Item's sources is touched.      *)
OnlyTouches(w, i) ==
    /\ \A v \in Workers \ {w} : wk'[v] = wk[v]
    /\ wk'[w].item = i \/ wk'[w] = IdleWorker
    /\ \A j \in Items \ {i} : item'[j] = item[j] /\ history'[j] = history[j] /\ SameSources(j)
    /\ tap' = tap

(* What the Item itself does not lose.                                      *)
OnlyGains(i) ==
    /\ item'[i].status # "NONE"
    /\ history[i].late => history'[i].late
    /\ history'[i].analyses >= history[i].analyses
    /\ \A s \in Of(i) : source[<<i, s>>].state \in {"READY", "FAILED"} =>
                           source'[<<i, s>>].state = source[<<i, s>>].state

(* The invariant, as far as it concerns one Item and the worker on it.      *)
Honest(i) ==
    /\ \A s \in Of(i) : source[<<i, s>>].state = "READY" => source[<<i, s>>].saved
    /\ item[i].stage \in PastAnalysis => history[i].analyses > 0

InStep(w, i) ==
    ~history[i].late =>
       /\ item[i].status = "PROCESSING" <=> Busy(w, i)
       /\ item[i].status = "READY" <=> item[i].stage = "READY"
       /\ Busy(w, i) => Agrees(w, i)

(* Slots are the sources of Items.                                          *)
LEMMA SlotsAreSources ==
  /\ \A x \in Slots : x[1] \in Items /\ x[2] \in Of(x[1]) /\ x = <<x[1], x[2]>>
  /\ \A i \in Items : \A s \in Of(i) : <<i, s>> \in Slots
BY DEF Slots, Of

(* Such a step keeps the invariant if it keeps that part of it.             *)
LEMMA LocalStep ==
  ASSUME IInv, TypeOK', NEW w \in Workers, NEW i \in Items,
         \/ wk[w].pc = "idle" /\ item[i].status # "PROCESSING"
         \/ wk[w].item = i /\ (Busy(w, i) \/ history'[i].late),
         OnlyTouches(w, i), OnlyGains(i),
         Honest(i)', Backed(w)', Covered(i)', InStep(w, i)'
  PROVE  IInv'
<1>1. Nil \notin Items
  BY PipelineAssumption
<1>0. /\ \A j \in Items \ {i} : ~Busy(w, j)
      /\ history'[i].late \/ \A v \in Workers \ {w} : ~Busy(v, i)
  BY <1>1 DEF Busy, IInv, SoleOwner, OnlyGains
<1>2. SoleOwner'
  <2> SUFFICES ASSUME NEW j \in Items, ~history'[j].late
               PROVE  /\ item'[j].status = "PROCESSING" => \E v \in Workers : Busy(v, j)'
                      /\ \A v \in Workers : Busy(v, j)' => item'[j].status = "PROCESSING"
                      /\ \A u, v \in Workers : Busy(u, j)' /\ Busy(v, j)' => u = v
    BY DEF SoleOwner
  <2>1. \A v \in Workers \ {w} : Busy(v, j)' <=> Busy(v, j)
    BY DEF OnlyTouches, Busy
  <2>2. CASE j = i
    <3>1. \A v \in Workers \ {w} : ~Busy(v, i)
      BY <1>0, <2>2
    <3> QED
      BY <2>1, <2>2, <3>1 DEF InStep
  <2>3. CASE j # i
    <3>1. ~Busy(w, j) /\ ~Busy(w, j)'
      BY <1>0, <1>1, <2>3 DEF OnlyTouches, Busy, IdleWorker
    <3>2. item'[j] = item[j] /\ history'[j] = history[j]
      BY <2>3 DEF OnlyTouches
    <3> QED
      BY <2>1, <3>1, <3>2 DEF IInv, SoleOwner
  <2> QED
    BY <2>2, <2>3
<1>3. CheckpointsAreHonest'
  <2>1. \A j \in Items : Honest(j)'
    <3> SUFFICES ASSUME NEW j \in Items, j # i PROVE Honest(j)'
      OBVIOUS
    <3>1. Honest(j)
      BY SlotsAreSources DEF IInv, CheckpointsAreHonest, Honest, PastAnalysis
    <3> QED
      BY <3>1 DEF Honest, OnlyTouches, SameSources, Of
  <2>2. ASSUME NEW x \in Slots PROVE source'[x].state = "READY" => source'[x].saved
    <3>1. PICK j \in Items, s \in 0..MaxSources : x = <<j, s>>
      BY DEF Slots
    <3> QED
      BY <2>1, <3>1 DEF Honest, Of
  <2> QED
    BY <2>1, <2>2 DEF CheckpointsAreHonest, Honest, PastAnalysis
<1>4. AnalysisBehind'
  <2> SUFFICES ASSUME NEW v \in Workers, v # w PROVE Backed(v)'
    BY DEF AnalysisBehind
  <2>1. Backed(v) /\ wk'[v] = wk[v]
    BY DEF IInv, AnalysisBehind, OnlyTouches
  <2>2. wk[v].pc = "idle" \/ wk[v].item \in Items
    BY DEF IInv, TypeOK
  <2>3. \A j \in Items : history[j].analyses > 0 => history'[j].analyses > 0
    BY DEF OnlyTouches, OnlyGains, IInv, TypeOK
  <2> QED
    BY <2>1, <2>2, <2>3 DEF Backed
<1>5. Untouched'
  <2> SUFFICES ASSUME NEW j \in Items, item'[j].status = "NONE"
               PROVE  /\ item'[j].stage = "INGESTED"
                      /\ \A s \in Of(j) : source'[<<j, s>>].state = "PENDING"
                      /\ \A v \in Workers : wk'[v].pc # "idle" => wk'[v].item # j
                      /\ tap'.item # j
    BY DEF Untouched, Of
  <2>1. j # i /\ item'[j] = item[j] /\ SameSources(j) /\ tap' = tap
    BY DEF OnlyTouches, OnlyGains
  <2>2. \A v \in Workers \ {w} : wk'[v].pc # "idle" => wk'[v].item # j
    BY <2>1 DEF OnlyTouches, IInv, Untouched
  <2>3. wk'[w].pc # "idle" => wk'[w].item # j
    BY <2>1 DEF OnlyTouches, IdleWorker
  <2> QED
    BY <2>1, <2>2, <2>3 DEF IInv, Untouched, SameSources
<1>6. TapIsCurrent'
  <2> SUFFICES ASSUME tap # NoTap
               PROVE  /\ tap.sources \subseteq InState(tap.item, {"FAILED"})'
                      /\ tap.posts \subseteq InState(tap.item, {"READY"})'
                      /\ \A s \in tap.posts : <<tap.item, s>> \in Posts
    BY DEF TapIsCurrent, OnlyTouches, InState, Of
  <2>1. tap.item \in Items
    BY DEF IInv, TypeOK
  <2>2. \A s \in Of(tap.item) : source[<<tap.item, s>>].state \in {"READY", "FAILED"} =>
                                  source'[<<tap.item, s>>].state = source[<<tap.item, s>>].state
    BY <2>1 DEF OnlyGains, OnlyTouches, SameSources
  <2>3. /\ tap.sources \subseteq InState(tap.item, {"FAILED"})
        /\ tap.posts \subseteq InState(tap.item, {"READY"})
        /\ \A s \in tap.posts : <<tap.item, s>> \in Posts
    BY DEF IInv, TapIsCurrent
  <2>4. tap.sources \subseteq InState(tap.item, {"FAILED"})'
    BY <2>2, <2>3 DEF InState, Of, OnlyTouches
  <2>5. tap.posts \subseteq InState(tap.item, {"READY"})'
    BY <2>2, <2>3 DEF InState, Of, OnlyTouches
  <2> QED
    BY <2>3, <2>4, <2>5
<1>7. WorkerAgrees'
  <2> SUFFICES ASSUME NEW v \in Workers, NEW j \in Items, Busy(v, j)', ~history'[j].late
               PROVE  Agrees(v, j)'
    BY DEF WorkerAgrees
  <2>1. CASE v = w
    <3>1. j = i
      BY <1>1, <2>1 DEF OnlyTouches, Busy, IdleWorker
    <3> QED
      BY <2>1, <3>1 DEF InStep
  <2>2. CASE v # w
    <3>1. Busy(v, j) /\ wk'[v] = wk[v]
      BY <2>2 DEF OnlyTouches, Busy
    <3>2. j # i
      BY <1>0, <2>2, <3>1
    <3>3. item'[j] = item[j] /\ history'[j] = history[j] /\ SameSources(j)
      BY <3>2 DEF OnlyTouches
    <3> QED
      BY <3>1, <3>3, AgreesIsSame DEF IInv, WorkerAgrees
  <2> QED
    BY <2>1, <2>2
<1>8. StageCovers'
  <2> SUFFICES ASSUME NEW j \in Items, j # i PROVE Covered(j)'
    BY DEF StageCovers
  <2> QED
    BY CoveredIsSame DEF OnlyTouches, IInv, StageCovers
<1>9. ReadyAgrees'
  BY DEF OnlyTouches, InStep, IInv, ReadyAgrees
<1> QED
  BY <1>2, <1>3, <1>4, <1>5, <1>6, <1>7, <1>8, <1>9 DEF IInv

(* What the invariant says of a worker and its Item before the step.        *)
LEMMA BeforeStep ==
  ASSUME IInv, NEW w \in Workers, wk[w].pc # "idle"
  PROVE  \E i \in Items : /\ wk[w].item = i
                          /\ wk[w] \in WorkerRows
                          /\ item[i] \in ItemRows
                          /\ item[i].status # "NONE"
                          /\ wk[w].pc # "published" => Busy(w, i) /\ InStep(w, i)
                          /\ Honest(i) /\ Covered(i) /\ Backed(w)
<1> DEFINE i == wk[w].item
<1>1. i \in Items /\ wk[w] \in WorkerRows /\ item[i] \in ItemRows
  BY DEF IInv, TypeOK, WorkerRows
<1>2. item[i].status # "NONE"
  BY <1>1 DEF IInv, Untouched
<1>3. Honest(i) /\ Covered(i) /\ Backed(w)
  BY <1>1, SlotsAreSources
     DEF IInv, CheckpointsAreHonest, Honest, PastAnalysis, StageCovers, AnalysisBehind
<1>4. ASSUME wk[w].pc # "published" PROVE Busy(w, i) /\ InStep(w, i)
  <2>1. Busy(w, i)
    BY <1>4 DEF Busy
  <2> QED
    BY <1>1, <2>1 DEF InStep, IInv, SoleOwner, ReadyAgrees, WorkerAgrees
<1> QED
  BY <1>1, <1>2, <1>3, <1>4

(* A step that changes only the worker and the Item's row.                  *)
LEMMA RowStep ==
  ASSUME IInv, NEW w \in Workers, NEW i \in Items, Busy(w, i),
         wk' = [wk EXCEPT ![w] = wk'[w]], item' = [item EXCEPT ![i] = item'[i]],
         UNCHANGED <<source, tap, history, crashes>>,
         wk'[w] \in WorkerRows, item'[i] \in ItemRows,
         (wk'[w].item = i /\ wk'[w].pc # "idle") \/ wk'[w] = IdleWorker,
         item'[i].status # "NONE",
         Honest(i)', Backed(w)', Covered(i)', InStep(w, i)'
  PROVE  IInv'
<1>1. wk \in [Workers -> WorkerRows] /\ item \in [Items -> ItemRows]
  BY DEF IInv, TypeOK, WorkerRows
<1>2. wk' \in [Workers -> WorkerRows] /\ item' \in [Items -> ItemRows]
  BY <1>1
<1>3. \A v \in Workers \ {w} : wk'[v] = wk[v]
  BY <1>1
<1>4. \A j \in Items \ {i} : item'[j] = item[j]
  BY <1>1
<1>5. TypeOK'
  <2>1. \A v \in Workers : wk'[v].pc # "idle" => wk'[v].item \in Items
    BY <1>3 DEF IInv, TypeOK, IdleWorker
  <2> QED
    BY <1>2, <2>1 DEF IInv, TypeOK, WorkerRows
<1>6. OnlyTouches(w, i)
  BY <1>3, <1>4 DEF OnlyTouches, SameSources
<1>7. OnlyGains(i)
  BY DEF OnlyGains, IInv, TypeOK
<1> QED
  BY <1>5, <1>6, <1>7, LocalStep DEF Busy

-----------------------------------------------------------------------------
(* The steps of ProcessingWorker.process_one and ProcessingPipeline.run     *)

(* The run resumes behind everything but the publication.                   *)
LEMMA AtPublishInv == ASSUME IInv, NEW w \in Workers, ResumeAtPublish(w) PROVE IInv'
<1>1. PICK i \in Items : /\ wk[w].item = i
                         /\ wk[w] \in WorkerRows
                         /\ item[i] \in ItemRows
                         /\ item[i].status # "NONE"
                         /\ wk[w].pc # "published" => Busy(w, i) /\ InStep(w, i)
                         /\ Honest(i) /\ Covered(i) /\ Backed(w)
  BY BeforeStep DEF ResumeAtPublish, At, Goto
<1>2. wk[w].pc = "claimed" /\ item[i].stage = "PRIORITIZING"
  BY <1>1 DEF ResumeAtPublish, At, Goto
<1>3. wk' = [wk EXCEPT ![w] = wk'[w]] /\ wk'[w] = [wk[w] EXCEPT !.pc = "publish"]
  BY <1>1, <1>2 DEF ResumeAtPublish, At, Goto, IInv, TypeOK
<1>4. item' = [item EXCEPT ![i] = item'[i]] /\ item'[i] = item[i]
  BY <1>1, <1>2 DEF ResumeAtPublish, At, Goto, IInv, TypeOK
<1>5. UNCHANGED <<source, tap, history, crashes>>
  BY DEF ResumeAtPublish, At, Goto
<1>6. wk'[w] \in WorkerRows /\ item'[i] \in ItemRows
  BY <1>1, <1>2, <1>3, <1>4
     DEF WorkerRows, WorkerPcs, Running, ItemRows, Stages, Statuses, IdleWorker
<1>7. Honest(i)'
  BY <1>1, <1>2, <1>4, <1>5 DEF Honest, Of, ItemRows, PastAnalysis, Backed
<1>8. Covered(i)'
  BY <1>1, <1>4, <1>5, CoveredIsSame DEF SameSources
<1>9. Backed(w)'
  BY <1>1, <1>2, <1>3, <1>5 DEF Backed, Honest, PastAnalysis, WorkerRows, IdleWorker
<1>10. InStep(w, i)'
  BY <1>1, <1>2, <1>3, <1>4, <1>5
     DEF InStep, Busy, Agrees, WorkerRows, ItemRows, IdleWorker
<1>11. /\ item'[i].status # "NONE"
       /\ (wk'[w].item = i /\ wk'[w].pc # "idle") \/ wk'[w] = IdleWorker
  BY <1>1, <1>2, <1>3, <1>4 DEF WorkerRows, ItemRows
<1> QED
  BY <1>1, <1>2, <1>3, <1>4, <1>5, <1>6, <1>7, <1>8, <1>9, <1>10, <1>11, RowStep

(* The run extracts.  Only a stale Item keeps an analysis.                  *)
LEMMA StartInv == ASSUME IInv, NEW w \in Workers, StartExtraction(w) PROVE IInv'
<1>1. PICK i \in Items : /\ wk[w].item = i
                         /\ wk[w] \in WorkerRows
                         /\ item[i] \in ItemRows
                         /\ item[i].status # "NONE"
                         /\ wk[w].pc # "published" => Busy(w, i) /\ InStep(w, i)
                         /\ Honest(i) /\ Covered(i) /\ Backed(w)
  BY BeforeStep DEF StartExtraction, At, SetStage
<1>2. wk[w].pc = "claimed" /\ (item[i].stage = "TOPIC_CLASSIFYING" => ~Restorable(i))
  BY <1>1 DEF StartExtraction, At, SetStage
<1>3. /\ wk' = [wk EXCEPT ![w] = wk'[w]]
      /\ wk'[w] = [wk[w] EXCEPT !.pc = "extract", !.kept = (item[i].stage = "TOPIC_CLASSIFYING")]
  BY <1>1, <1>2 DEF StartExtraction, At, SetStage, IInv, TypeOK
<1>4. /\ item' = [item EXCEPT ![i] = item'[i]]
      /\ item'[i] = [item[i] EXCEPT !.stage = "EXTRACTING"]
  BY <1>1, <1>2 DEF StartExtraction, At, SetStage, IInv, TypeOK
<1>5. UNCHANGED <<source, tap, history, crashes>>
  BY DEF StartExtraction, At, SetStage
<1>6. wk'[w] \in WorkerRows /\ item'[i] \in ItemRows
  BY <1>1, <1>2, <1>3, <1>4
     DEF WorkerRows, WorkerPcs, Running, ItemRows, Stages, Statuses, IdleWorker
<1>7. Honest(i)'
  BY <1>1, <1>2, <1>4, <1>5 DEF Honest, Of, ItemRows, PastAnalysis, Backed
<1>8. Covered(i)'
  BY <1>1, <1>4 DEF Covered, PastAnalysis, ItemRows
<1>9. Backed(w)'
  BY <1>1, <1>2, <1>3, <1>5 DEF Backed, Honest, PastAnalysis, WorkerRows, IdleWorker
<1>k. ~history[i].late /\ item[i].stage = "TOPIC_CLASSIFYING" => history[i].stale
  <2>1. Covers(i) => Restorable(i)
    BY <1>1, SlotsAreSources DEF Covers, Complete, Restorable, Honest, InState
  <2> QED
    BY <1>1, <1>2, <2>1 DEF Covered, PastAnalysis
<1>s. \A states : InState(i, states)' = InState(i, states)
  BY <1>5, SameStates DEF SameSources
<1>10. InStep(w, i)'
  BY <1>1, <1>2, <1>3, <1>4, <1>5, <1>k, <1>s, PipelineAssumption
     DEF InStep, Busy, Agrees, WorkerRows, ItemRows, IdleWorker, InState, Of
<1>11. /\ item'[i].status # "NONE"
       /\ (wk'[w].item = i /\ wk'[w].pc # "idle") \/ wk'[w] = IdleWorker
  BY <1>1, <1>2, <1>3, <1>4 DEF WorkerRows, ItemRows
<1> QED
  BY <1>1, <1>2, <1>3, <1>4, <1>5, <1>6, <1>7, <1>8, <1>9, <1>10, <1>11, RowStep

(* The classification.                                                      *)
LEMMA ClassifyInv == ASSUME IInv, NEW w \in Workers, Classify(w) PROVE IInv'
<1>1. PICK i \in Items : /\ wk[w].item = i
                         /\ wk[w] \in WorkerRows
                         /\ item[i] \in ItemRows
                         /\ item[i].status # "NONE"
                         /\ wk[w].pc # "published" => Busy(w, i) /\ InStep(w, i)
                         /\ Honest(i) /\ Covered(i) /\ Backed(w)
  BY BeforeStep DEF Classify, At, Goto, SetStage
<1>2. wk[w].pc = "classify"
  BY <1>1 DEF Classify, At, Goto, SetStage
<1>3. wk' = [wk EXCEPT ![w] = wk'[w]] /\ wk'[w] = [wk[w] EXCEPT !.pc = "publish"]
  BY <1>1, <1>2 DEF Classify, At, Goto, SetStage, IInv, TypeOK
<1>4. /\ item' = [item EXCEPT ![i] = item'[i]]
      /\ item'[i] = [item[i] EXCEPT !.stage = "PRIORITIZING"]
  BY <1>1, <1>2 DEF Classify, At, Goto, SetStage, IInv, TypeOK
<1>5. UNCHANGED <<source, tap, history, crashes>>
  BY DEF Classify, At, Goto, SetStage
<1>6. wk'[w] \in WorkerRows /\ item'[i] \in ItemRows
  BY <1>1, <1>2, <1>3, <1>4
     DEF WorkerRows, WorkerPcs, Running, ItemRows, Stages, Statuses, IdleWorker
<1>7. Honest(i)'
  BY <1>1, <1>2, <1>4, <1>5 DEF Honest, Of, ItemRows, PastAnalysis, Backed
<1>c. Covers(i)' <=> Covers(i)
  BY <1>1, <1>4, <1>5, CoversIsSame DEF SameSources, ItemRows
<1>8. Covered(i)'
  BY <1>1, <1>2, <1>4, <1>5, <1>c DEF Covered, PastAnalysis, ItemRows, InStep, Agrees
<1>9. Backed(w)'
  BY <1>1, <1>2, <1>3, <1>5 DEF Backed, Honest, PastAnalysis, WorkerRows, IdleWorker
<1>10. InStep(w, i)'
  BY <1>1, <1>2, <1>3, <1>4, <1>5
     DEF InStep, Busy, Agrees, WorkerRows, ItemRows, IdleWorker
<1>11. /\ item'[i].status # "NONE"
       /\ (wk'[w].item = i /\ wk'[w].pc # "idle") \/ wk'[w] = IdleWorker
  BY <1>1, <1>2, <1>3, <1>4 DEF WorkerRows, ItemRows
<1> QED
  BY <1>1, <1>2, <1>3, <1>4, <1>5, <1>6, <1>7, <1>8, <1>9, <1>10, <1>11, RowStep

(* The publication.                                                         *)
LEMMA PublishInv == ASSUME IInv, NEW w \in Workers, Publish(w) PROVE IInv'
<1>1. PICK i \in Items : /\ wk[w].item = i
                         /\ wk[w] \in WorkerRows
                         /\ item[i] \in ItemRows
                         /\ item[i].status # "NONE"
                         /\ wk[w].pc # "published" => Busy(w, i) /\ InStep(w, i)
                         /\ Honest(i) /\ Covered(i) /\ Backed(w)
  BY BeforeStep DEF Publish, At, Goto
<1>2. wk[w].pc = "publish"
  BY <1>1 DEF Publish, At, Goto
<1>3. wk' = [wk EXCEPT ![w] = wk'[w]] /\ wk'[w] = [wk[w] EXCEPT !.pc = "published"]
  BY <1>1, <1>2 DEF Publish, At, Goto, IInv, TypeOK
<1>4. /\ item' = [item EXCEPT ![i] = item'[i]]
      /\ item'[i] = [item[i] EXCEPT !.status = "READY", !.stage = "READY"]
  BY <1>1, <1>2 DEF Publish, At, Goto, IInv, TypeOK
<1>5. UNCHANGED <<source, tap, history, crashes>>
  BY DEF Publish, At, Goto
<1>6. wk'[w] \in WorkerRows /\ item'[i] \in ItemRows
  BY <1>1, <1>2, <1>3, <1>4
     DEF WorkerRows, WorkerPcs, Running, ItemRows, Stages, Statuses, IdleWorker
<1>7. Honest(i)'
  BY <1>1, <1>2, <1>4, <1>5 DEF Honest, Of, ItemRows, PastAnalysis, Backed
<1>c. Covers(i)' <=> Covers(i)
  BY <1>1, <1>4, <1>5, CoversIsSame DEF SameSources, ItemRows
<1>8. Covered(i)'
  BY <1>1, <1>2, <1>4, <1>5, <1>c DEF Covered, PastAnalysis, ItemRows, InStep, Agrees
<1>9. Backed(w)'
  BY <1>1, <1>2, <1>3, <1>5 DEF Backed, Honest, PastAnalysis, WorkerRows, IdleWorker
<1>10. InStep(w, i)'
  BY <1>1, <1>2, <1>3, <1>4, <1>5
     DEF InStep, Busy, Agrees, WorkerRows, ItemRows, IdleWorker
<1>11. /\ item'[i].status # "NONE"
       /\ (wk'[w].item = i /\ wk'[w].pc # "idle") \/ wk'[w] = IdleWorker
  BY <1>1, <1>2, <1>3, <1>4 DEF WorkerRows, ItemRows
<1> QED
  BY <1>1, <1>2, <1>3, <1>4, <1>5, <1>6, <1>7, <1>8, <1>9, <1>10, <1>11, RowStep

(* The Item is marked FAILED.                                               *)
LEMMA MarkFailedInv == ASSUME IInv, NEW w \in Workers, MarkFailed(w) PROVE IInv'
<1>1. PICK i \in Items : /\ wk[w].item = i
                         /\ wk[w] \in WorkerRows
                         /\ item[i] \in ItemRows
                         /\ item[i].status # "NONE"
                         /\ wk[w].pc # "published" => Busy(w, i) /\ InStep(w, i)
                         /\ Honest(i) /\ Covered(i) /\ Backed(w)
  BY BeforeStep DEF MarkFailed, At
<1>2. wk[w].pc = "failing"
  BY <1>1 DEF MarkFailed, At
<1>3. wk' = [wk EXCEPT ![w] = wk'[w]] /\ wk'[w] = IdleWorker
  BY <1>1, <1>2 DEF MarkFailed, At, IInv, TypeOK
<1>4. /\ item' = [item EXCEPT ![i] = item'[i]]
      /\ item'[i] = [item[i] EXCEPT !.status = "FAILED"]
  BY <1>1, <1>2 DEF MarkFailed, At, IInv, TypeOK
<1>5. UNCHANGED <<source, tap, history, crashes>>
  BY DEF MarkFailed, At
<1>6. wk'[w] \in WorkerRows /\ item'[i] \in ItemRows
  BY <1>1, <1>2, <1>3, <1>4, PipelineAssumption
     DEF WorkerRows, WorkerPcs, Running, ItemRows, Stages, Statuses, IdleWorker
<1>7. Honest(i)'
  BY <1>1, <1>2, <1>4, <1>5 DEF Honest, Of, ItemRows, PastAnalysis, Backed
<1>c. Covers(i)' <=> Covers(i)
  BY <1>1, <1>4, <1>5, CoversIsSame DEF SameSources, ItemRows
<1>8. Covered(i)'
  BY <1>1, <1>2, <1>4, <1>5, <1>c DEF Covered, PastAnalysis, ItemRows
<1>9. Backed(w)'
  BY <1>1, <1>2, <1>3, <1>5 DEF Backed, Honest, PastAnalysis, WorkerRows, IdleWorker
<1>10. InStep(w, i)'
  BY <1>1, <1>2, <1>3, <1>4, <1>5
     DEF InStep, Busy, Agrees, WorkerRows, ItemRows, IdleWorker
<1>11. /\ item'[i].status # "NONE"
       /\ (wk'[w].item = i /\ wk'[w].pc # "idle") \/ wk'[w] = IdleWorker
  BY <1>1, <1>2, <1>3, <1>4 DEF WorkerRows, ItemRows
<1> QED
  BY <1>1, <1>2, <1>3, <1>4, <1>5, <1>6, <1>7, <1>8, <1>9, <1>10, <1>11, RowStep

(* A failed source is passed over.                                          *)
LEMMA SkipInv == ASSUME IInv, NEW w \in Workers, SkipFailedSource(w) PROVE IInv'
<1>1. PICK i \in Items : /\ wk[w].item = i
                         /\ wk[w] \in WorkerRows
                         /\ item[i] \in ItemRows
                         /\ item[i].status # "NONE"
                         /\ wk[w].pc # "published" => Busy(w, i) /\ InStep(w, i)
                         /\ Honest(i) /\ Covered(i) /\ Backed(w)
  BY BeforeStep DEF SkipFailedSource, Extracting, Slot, NextSource, At
<1>2. /\ wk[w].pc = "extract"
      /\ wk[w].at \in Of(i) /\ source[<<i, wk[w].at>>].state \in {"FAILED", "DEAD"}
  BY <1>1 DEF SkipFailedSource, Extracting, Slot, NextSource, At, Of, WorkerRows
<1>3. /\ wk' = [wk EXCEPT ![w] = wk'[w]]
      /\ wk'[w] = [wk[w] EXCEPT !.at = @ + 1, !.got = @ \cup {}]
  BY <1>1, <1>2 DEF SkipFailedSource, Extracting, Slot, NextSource, At, IInv, TypeOK
<1>4. item' = [item EXCEPT ![i] = item'[i]] /\ item'[i] = item[i]
  BY <1>1, <1>2 DEF SkipFailedSource, Extracting, Slot, NextSource, At, IInv, TypeOK
<1>5. UNCHANGED <<source, tap, history, crashes>>
  BY DEF SkipFailedSource, Extracting, Slot, NextSource, At
<1>t. wk[w].at \in 0..MaxSources /\ wk[w].at + 1 \in 0..MaxSources
  BY <1>1, <1>2, PipelineAssumption DEF Of, Slots
<1>6. wk'[w] \in WorkerRows /\ item'[i] \in ItemRows
  BY <1>1, <1>2, <1>3, <1>4, <1>t
     DEF WorkerRows, WorkerPcs, Running, ItemRows, Stages, Statuses, IdleWorker
<1>7. Honest(i)'
  BY <1>1, <1>2, <1>4, <1>5 DEF Honest, Of, ItemRows, PastAnalysis, Backed
<1>8. Covered(i)'
  BY <1>1, <1>4, <1>5, CoveredIsSame DEF SameSources
<1>9. Backed(w)'
  BY <1>1, <1>2, <1>3, <1>5 DEF Backed, Honest, PastAnalysis, WorkerRows, IdleWorker
<1>s. \A states : InState(i, states)' = InState(i, states)
  BY <1>5, SameStates DEF SameSources
<1>g. wk[w].at \notin InState(i, {"READY", "PENDING"})
  BY <1>2 DEF InState
<1>10. InStep(w, i)'
  BY <1>1, <1>2, <1>3, <1>4, <1>5, <1>s, <1>g, <1>t, PipelineAssumption
     DEF InStep, Busy, Agrees, WorkerRows, ItemRows, IdleWorker, InState, Of
<1>11. /\ item'[i].status # "NONE"
       /\ (wk'[w].item = i /\ wk'[w].pc # "idle") \/ wk'[w] = IdleWorker
  BY <1>1, <1>2, <1>3, <1>4 DEF WorkerRows, ItemRows
<1> QED
  BY <1>1, <1>2, <1>3, <1>4, <1>5, <1>6, <1>7, <1>8, <1>9, <1>10, <1>11, RowStep

(* The run resumes with restored content.                                   *)
LEMMA WithContentInv == ASSUME IInv, NEW w \in Workers, ResumeWithContent(w) PROVE IInv'
<1>1. PICK i \in Items : /\ wk[w].item = i
                         /\ wk[w] \in WorkerRows
                         /\ item[i] \in ItemRows
                         /\ item[i].status # "NONE"
                         /\ wk[w].pc # "published" => Busy(w, i) /\ InStep(w, i)
                         /\ Honest(i) /\ Covered(i) /\ Backed(w)
  BY BeforeStep DEF ResumeWithContent, At, SetStage
<1>2. /\ wk[w].pc = "claimed"
      /\ item[i].stage \in {"ANALYZING", "TOPIC_CLASSIFYING"} /\ Restorable(i)
  BY <1>1 DEF ResumeWithContent, At, SetStage
<1> DEFINE evidence == TopicEvidence(i, InState(i, {"READY"}))
           pc == IF item[i].stage = "ANALYZING" THEN "analyze"
                 ELSE IF evidence THEN "classify" ELSE "publish"
           stage == IF item[i].stage = "TOPIC_CLASSIFYING" /\ ~evidence THEN "PRIORITIZING"
                    ELSE item[i].stage
<1>3. /\ wk' = [wk EXCEPT ![w] = wk'[w]]
      /\ wk'[w] = [wk[w] EXCEPT !.got = InState(i, {"READY"}), !.pc = pc]
  BY <1>1, <1>2 DEF ResumeWithContent, At, SetStage, IInv, TypeOK
<1>4. item' = [item EXCEPT ![i] = item'[i]] /\ item'[i] = [item[i] EXCEPT !.stage = stage]
  BY <1>1, <1>2 DEF ResumeWithContent, At, SetStage, IInv, TypeOK
<1>5. UNCHANGED <<source, tap, history, crashes>>
  BY DEF ResumeWithContent, At, SetStage
<1>p. /\ pc \in {"analyze", "classify", "publish"} /\ stage \in Stages
      /\ InState(i, {"READY"}) \in SUBSET (0..MaxSources)
  BY <1>1, <1>2 DEF InState, Of, ItemRows, Stages
<1>6. wk'[w] \in WorkerRows /\ item'[i] \in ItemRows
  BY <1>1, <1>2, <1>3, <1>4, <1>p
     DEF WorkerRows, WorkerPcs, Running, ItemRows, Stages, Statuses, IdleWorker
<1>7. Honest(i)'
  BY <1>1, <1>2, <1>4, <1>5 DEF Honest, Of, ItemRows, PastAnalysis, Backed
<1>c. Covers(i)' <=> Covers(i)
  BY <1>1, <1>4, <1>5, CoversIsSame DEF SameSources, ItemRows
<1>8. Covered(i)'
  BY <1>1, <1>2, <1>4, <1>5, <1>c DEF Covered, PastAnalysis, ItemRows
<1>9. Backed(w)'
  BY <1>1, <1>2, <1>3, <1>5 DEF Backed, Honest, PastAnalysis, WorkerRows, IdleWorker
<1>s. Complete(i, InState(i, {"READY"}))' /\ InState(i, {"READY"})' = InState(i, {"READY"})
  BY <1>2, <1>5, SameStates DEF SameSources, Complete, Restorable, HasFallback
<1>10. InStep(w, i)'
  BY <1>1, <1>2, <1>3, <1>4, <1>5, <1>s, <1>p
     DEF InStep, Busy, Agrees, WorkerRows, ItemRows, IdleWorker
<1>11. /\ item'[i].status # "NONE"
       /\ (wk'[w].item = i /\ wk'[w].pc # "idle") \/ wk'[w] = IdleWorker
  BY <1>1, <1>2, <1>3, <1>4 DEF WorkerRows, ItemRows
<1> QED
  BY <1>1, <1>2, <1>3, <1>4, <1>5, <1>6, <1>7, <1>8, <1>9, <1>10, <1>11, RowStep

(* The content is composed, or there is none.                               *)
LEMMA ComposeInv == ASSUME IInv, NEW w \in Workers, Compose(w) PROVE IInv'
<1>1. PICK i \in Items : /\ wk[w].item = i
                         /\ wk[w] \in WorkerRows
                         /\ item[i] \in ItemRows
                         /\ item[i].status # "NONE"
                         /\ wk[w].pc # "published" => Busy(w, i) /\ InStep(w, i)
                         /\ Honest(i) /\ Covered(i) /\ Backed(w)
  BY BeforeStep DEF Compose, At, Goto, SetStage
<1> DEFINE kept == wk[w].kept
           got == wk[w].got
           next == IF ~kept THEN "ANALYZING"
                   ELSE IF TopicEvidence(i, got) THEN "TOPIC_CLASSIFYING" ELSE "PRIORITIZING"
           fails == got = {} /\ ~HasFallback(i)
           stage == IF fails THEN item[i].stage ELSE next
           pc == IF fails THEN "failing"
                 ELSE IF ~kept THEN "analyze"
                 ELSE IF TopicEvidence(i, got) THEN "classify" ELSE "publish"
<1>2. /\ wk[w].pc = "extract" /\ wk[w].at = SourceCount[i]
      /\ (pc # "failing" => wk[w].got # {} \/ HasFallback(i))
  BY <1>1 DEF Compose, At, Goto, SetStage
<1>3. wk' = [wk EXCEPT ![w] = wk'[w]] /\ wk'[w] = [wk[w] EXCEPT !.pc = pc]
  BY <1>1, <1>2 DEF Compose, At, Goto, SetStage, IInv, TypeOK
<1>4. item' = [item EXCEPT ![i] = item'[i]] /\ item'[i] = [item[i] EXCEPT !.stage = stage]
  BY <1>1, <1>2 DEF Compose, At, Goto, SetStage, IInv, TypeOK, ItemRows
<1>5. UNCHANGED <<source, tap, history, crashes>>
  BY DEF Compose, At, Goto, SetStage
<1>p. /\ pc \in {"failing", "analyze", "classify", "publish"} /\ stage \in Stages
      /\ wk[w].kept \/ pc \notin {"classify", "publish"}
      /\ wk[w].kept \/ stage \notin PastAnalysis \/ stage = item[i].stage
      /\ pc = "analyze" => ~wk[w].kept
  BY <1>1, <1>2 DEF ItemRows, Stages, PastAnalysis
<1>6. wk'[w] \in WorkerRows /\ item'[i] \in ItemRows
  BY <1>1, <1>2, <1>3, <1>4, <1>p
     DEF WorkerRows, WorkerPcs, Running, ItemRows, Stages, Statuses, IdleWorker
<1>7. Honest(i)'
  BY <1>1, <1>2, <1>4, <1>5 DEF Honest, Of, ItemRows, PastAnalysis, Backed
<1>c. Covers(i)' <=> Covers(i)
  BY <1>1, <1>4, <1>5, CoversIsSame DEF SameSources, ItemRows
<1>8. Covered(i)'
  BY <1>1, <1>2, <1>4, <1>5, <1>c, <1>p
     DEF Covered, PastAnalysis, ItemRows, InStep, Agrees
<1>9. Backed(w)'
  BY <1>1, <1>2, <1>3, <1>5 DEF Backed, Honest, PastAnalysis, WorkerRows, IdleWorker
<1>a. ~history[i].late /\ pc = "analyze" => Complete(i, wk[w].got)
  BY <1>1, <1>2, PipelineAssumption DEF InStep, Agrees, Complete, InState, Of, Slots
<1>s. \A states : InState(i, states)' = InState(i, states)
  BY <1>5, SameStates DEF SameSources
<1>10. InStep(w, i)'
  BY <1>1, <1>2, <1>3, <1>4, <1>5, <1>s, <1>a, <1>p
     DEF InStep, Busy, Agrees, WorkerRows, ItemRows, IdleWorker, Complete, HasFallback
<1>11. /\ item'[i].status # "NONE"
       /\ (wk'[w].item = i /\ wk'[w].pc # "idle") \/ wk'[w] = IdleWorker
  BY <1>1, <1>2, <1>3, <1>4 DEF WorkerRows, ItemRows
<1> QED
  BY <1>1, <1>2, <1>3, <1>4, <1>5, <1>6, <1>7, <1>8, <1>9, <1>10, <1>11, RowStep

(* A step that changes only the worker and the source it stands at.         *)
LEMMA SourceStep ==
  ASSUME IInv, NEW w \in Workers, NEW i \in Items, NEW s \in Of(i),
         Busy(w, i), wk[w].pc = "extract",
         wk' = [wk EXCEPT ![w] = wk'[w]],
         source' = [source EXCEPT ![<<i, s>>] = source'[<<i, s>>]],
         UNCHANGED <<item, tap, history, crashes>>,
         wk'[w] \in WorkerRows, source'[<<i, s>>] \in SourceRows,
         wk'[w].item = i, wk'[w].pc = "extract", wk'[w].kept = wk[w].kept,
         source'[<<i, s>>].state = "READY" => source'[<<i, s>>].saved,
         source[<<i, s>>].state \in {"READY", "FAILED"} =>
            source'[<<i, s>>].state = source[<<i, s>>].state,
         ~history[i].late => Agrees(w, i)'
  PROVE  IInv'
<1>1. <<i, s>> \in Slots
  BY SlotsAreSources
<1>2. /\ wk[w].item = i
      /\ item[i] \in ItemRows /\ item[i].status # "NONE"
      /\ InStep(w, i) /\ Honest(i) /\ Backed(w)
  BY BeforeStep DEF Busy
<1>3. wk \in [Workers -> WorkerRows] /\ source \in [Slots -> SourceRows]
  BY DEF IInv, TypeOK, WorkerRows
<1>4. wk' \in [Workers -> WorkerRows] /\ source' \in [Slots -> SourceRows]
  BY <1>1, <1>3
<1>5. /\ \A v \in Workers \ {w} : wk'[v] = wk[v]
      /\ \A x \in Slots \ {<<i, s>>} : source'[x] = source[x]
  BY <1>3
<1>6. TypeOK'
  <2>1. \A v \in Workers : wk'[v].pc # "idle" => wk'[v].item \in Items
    BY <1>5 DEF IInv, TypeOK
  <2> QED
    BY <1>4, <2>1 DEF IInv, TypeOK, WorkerRows
<1>7. OnlyTouches(w, i)
  <2>1. \A j \in Items \ {i} : SameSources(j)
    BY <1>5, SlotsAreSources DEF SameSources
  <2> QED
    BY <1>5, <2>1 DEF OnlyTouches
<1>8. \A t \in Of(i) : t = s \/ source'[<<i, t>>] = source[<<i, t>>]
  BY <1>5, SlotsAreSources
<1>9. OnlyGains(i)
  <2>1. \A t \in Of(i) : source[<<i, t>>].state \in {"READY", "FAILED"} =>
                           source'[<<i, t>>].state = source[<<i, t>>].state
    BY <1>8
  <2>2. history[i].analyses \in Nat
    BY DEF IInv, TypeOK
  <2> QED
    BY <1>2, <2>1, <2>2 DEF OnlyGains
<1>10. Honest(i)'
  BY <1>2, <1>8 DEF Honest, Of, PastAnalysis
<1>11. Backed(w)'
  BY <1>2 DEF Backed
<1>12. Covered(i)'
  BY <1>2 DEF Covered, PastAnalysis, InStep, Agrees
<1>13. InStep(w, i)'
  BY <1>2 DEF InStep, Busy
<1> QED
  BY <1>2, <1>6, <1>7, <1>9, <1>10, <1>11, <1>12, <1>13, LocalStep

(* What an extracting worker stands at.                                     *)
LEMMA AtSource ==
  ASSUME IInv, NEW w \in Workers, Extracting(w)
  PROVE  \E i \in Items, s \in 0..MaxSources :
            /\ Slot(w) = <<i, s>> /\ s \in Of(i) /\ s + 1 \in 0..MaxSources
            /\ wk[w] \in WorkerRows /\ wk[w].item = i /\ wk[w].at = s
            /\ wk[w].pc = "extract" /\ Busy(w, i)
            /\ source[<<i, s>>] \in SourceRows
            /\ Honest(i)
            /\ ~history[i].late => Agrees(w, i)
<1>1. wk[w].pc = "extract" /\ Slot(w) \in Slots
  BY DEF Extracting, At
<1>2. PICK i \in Items : /\ wk[w].item = i /\ wk[w] \in WorkerRows
                         /\ Busy(w, i) /\ InStep(w, i) /\ Honest(i)
  BY <1>1, BeforeStep
<1>3. wk[w].at \in Of(i)
  BY <1>1, <1>2 DEF Slot, Of, WorkerRows
<1>4. wk[w].at \in 0..MaxSources /\ wk[w].at + 1 \in 0..MaxSources
  BY <1>2, <1>3, PipelineAssumption DEF Of, Slots
<1>5. source[<<i, wk[w].at>>] \in SourceRows
  BY <1>3, SlotsAreSources DEF IInv, TypeOK
<1> QED
  BY <1>1, <1>2, <1>3, <1>4, <1>5 DEF Slot, InStep

(* The content of a source becomes durable.                                 *)
LEMMA SaveInv ==
  ASSUME IInv, NEW w \in Workers, NEW holes \in {"whole", "recheck", "retryable", "lost"},
         SaveSourceContent(w, holes)
  PROVE  IInv'
<1>1. PICK i \in Items, s \in 0..MaxSources :
         /\ Slot(w) = <<i, s>> /\ s \in Of(i) /\ s + 1 \in 0..MaxSources
         /\ wk[w] \in WorkerRows /\ wk[w].item = i /\ wk[w].at = s
         /\ wk[w].pc = "extract" /\ Busy(w, i)
         /\ source[<<i, s>>] \in SourceRows
         /\ Honest(i)
         /\ ~history[i].late => Agrees(w, i)
  BY AtSource DEF SaveSourceContent
<1>2. <<i, s>> \in Slots
  BY <1>1, SlotsAreSources
<1>3. source[<<i, s>>].state \in {"PENDING", "READY"}
  BY <1>1 DEF SaveSourceContent
<1>4. /\ source' = [source EXCEPT ![<<i, s>>] = source'[<<i, s>>]]
      /\ source'[<<i, s>>] = [source[<<i, s>>] EXCEPT !.saved = TRUE, !.holes = holes]
  BY <1>1, <1>2 DEF SaveSourceContent, IInv, TypeOK, SourceRows
<1>5. /\ wk' = [wk EXCEPT ![w] = wk'[w]]
      /\ wk'[w] = wk[w]
  BY <1>1 DEF SaveSourceContent, NextSource, IInv, TypeOK
<1>6. UNCHANGED <<item, tap, history, crashes>>
  BY DEF SaveSourceContent
<1>7. wk'[w] \in WorkerRows /\ source'[<<i, s>>] \in SourceRows
  <2>1. wk[w].got \cup {s} \in SUBSET (0..MaxSources)
    BY <1>1 DEF WorkerRows
  <2>2. wk'[w] \in WorkerRows
    BY <1>1, <1>5, <2>1 DEF WorkerRows
  <2>3. source'[<<i, s>>] \in SourceRows
    BY <1>1, <1>3, <1>4 DEF SourceRows
  <2> QED
    BY <2>2, <2>3
<1>8. wk'[w].item = i /\ wk'[w].pc = "extract" /\ wk'[w].kept = wk[w].kept
  BY <1>1, <1>5 DEF WorkerRows
<1>9. \A t \in Of(i) : t = s \/ source'[<<i, t>>] = source[<<i, t>>]
  BY <1>4, SlotsAreSources DEF IInv, TypeOK
<1>10. /\ source'[<<i, s>>].state = "READY" => source'[<<i, s>>].saved
       /\ source[<<i, s>>].state \in {"READY", "FAILED"} =>
             source'[<<i, s>>].state = source[<<i, s>>].state
  BY <1>1, <1>3, <1>4 DEF Honest, SourceRows
<1>11. ~history[i].late => Agrees(w, i)'
  <2>1. source'[<<i, s>>].state = source[<<i, s>>].state
    BY <1>1, <1>4 DEF SourceRows
  <2>2. \A t \in Of(i) : source'[<<i, t>>].state = source[<<i, t>>].state
    BY <1>9, <2>1
  <2>3. \A states : InState(i, states)' = InState(i, states)
    BY <2>2 DEF InState, Of
  <2> QED
    BY <1>1, <1>5, <1>6, <2>3 DEF Agrees
<1> QED
  BY <1>1, <1>4, <1>5, <1>6, <1>7, <1>8, <1>10, <1>11, SourceStep

(* A source becomes READY.                                                  *)
LEMMA MarkInv ==
  ASSUME IInv, NEW w \in Workers, MarkSourceReady(w)
  PROVE  IInv'
<1>1. PICK i \in Items, s \in 0..MaxSources :
         /\ Slot(w) = <<i, s>> /\ s \in Of(i) /\ s + 1 \in 0..MaxSources
         /\ wk[w] \in WorkerRows /\ wk[w].item = i /\ wk[w].at = s
         /\ wk[w].pc = "extract" /\ Busy(w, i)
         /\ source[<<i, s>>] \in SourceRows
         /\ Honest(i)
         /\ ~history[i].late => Agrees(w, i)
  BY AtSource DEF MarkSourceReady
<1>2. <<i, s>> \in Slots
  BY <1>1, SlotsAreSources
<1>3. source[<<i, s>>].state \in {"PENDING", "READY"} /\ source[<<i, s>>].saved
  BY <1>1 DEF MarkSourceReady
<1>4. /\ source' = [source EXCEPT ![<<i, s>>] = source'[<<i, s>>]]
      /\ source'[<<i, s>>] = [source[<<i, s>>] EXCEPT !.state = "READY"]
  BY <1>1, <1>2 DEF MarkSourceReady, IInv, TypeOK, SourceRows
<1>5. /\ wk' = [wk EXCEPT ![w] = wk'[w]]
      /\ wk'[w] = [wk[w] EXCEPT !.at = s + 1, !.got = @ \cup {s}]
  BY <1>1 DEF MarkSourceReady, NextSource, IInv, TypeOK
<1>6. UNCHANGED <<item, tap, history, crashes>>
  BY DEF MarkSourceReady
<1>7. wk'[w] \in WorkerRows /\ source'[<<i, s>>] \in SourceRows
  <2>1. wk[w].got \cup {s} \in SUBSET (0..MaxSources)
    BY <1>1 DEF WorkerRows
  <2>2. wk'[w] \in WorkerRows
    BY <1>1, <1>5, <2>1 DEF WorkerRows
  <2>3. source'[<<i, s>>] \in SourceRows
    BY <1>1, <1>3, <1>4 DEF SourceRows
  <2> QED
    BY <2>2, <2>3
<1>8. wk'[w].item = i /\ wk'[w].pc = "extract" /\ wk'[w].kept = wk[w].kept
  BY <1>1, <1>5 DEF WorkerRows
<1>9. \A t \in Of(i) : t = s \/ source'[<<i, t>>] = source[<<i, t>>]
  BY <1>4, SlotsAreSources DEF IInv, TypeOK
<1>10. /\ source'[<<i, s>>].state = "READY" => source'[<<i, s>>].saved
       /\ source[<<i, s>>].state \in {"READY", "FAILED"} =>
             source'[<<i, s>>].state = source[<<i, s>>].state
  BY <1>1, <1>3, <1>4 DEF Honest, SourceRows
<1>11. ~history[i].late => Agrees(w, i)'
  <2>1. /\ InState(i, {"READY"})' = InState(i, {"READY"}) \cup {s}
        /\ InState(i, {"PENDING"})' = InState(i, {"PENDING"}) \ {s}
    BY <1>1, <1>3, <1>4, <1>9 DEF InState, Of, SourceRows, Honest
  <2>2. s \in Nat /\ \A t \in Of(i) : t \in Nat
    BY <1>1, PipelineAssumption DEF Of
  <2>3. wk'[w].at = s + 1 /\ wk'[w].got = wk[w].got \cup {s}
    BY <1>1, <1>5 DEF WorkerRows
  <2>4. ASSUME ~history[i].late
        PROVE  /\ item[i].stage = "EXTRACTING" /\ (wk[w].kept => history[i].stale)
               /\ wk[w].got = {t \in InState(i, {"READY"}) : t < s}
               /\ \A t \in InState(i, {"PENDING"}) : s <= t
    BY <1>1, <2>4 DEF Agrees
  <2>5. ASSUME ~history[i].late
        PROVE  /\ wk'[w].got = {t \in InState(i, {"READY"})' : t < wk'[w].at}
               /\ \A t \in InState(i, {"PENDING"})' : wk'[w].at <= t
    <3>1. wk[w].got = {t \in InState(i, {"READY"}) : t < s}
      BY <2>4, <2>5
    <3>2. InState(i, {"READY"}) \subseteq Nat /\ InState(i, {"PENDING"}) \subseteq Nat
      BY <2>2 DEF InState
    <3>3. wk'[w].got = {t \in InState(i, {"READY"})' : t < s + 1}
      BY <1>1, <2>1, <2>2, <2>3, <3>1, <3>2
    <3>4. \A t \in InState(i, {"PENDING"})' : s + 1 <= t
      BY <2>1, <2>2, <2>4, <2>5, <3>2
    <3> QED
      BY <2>3, <3>3, <3>4
  <2> QED
    BY <1>6, <1>8, <2>4, <2>5 DEF Agrees
<1> QED
  BY <1>1, <1>4, <1>5, <1>6, <1>7, <1>8, <1>10, <1>11, SourceStep

(* The extraction of a source fails.                                        *)
LEMMA FailsInv ==
  ASSUME IInv, NEW w \in Workers, NEW permanent \in BOOLEAN, SourceFails(w, permanent)
  PROVE  IInv'
<1>1. PICK i \in Items, s \in 0..MaxSources :
         /\ Slot(w) = <<i, s>> /\ s \in Of(i) /\ s + 1 \in 0..MaxSources
         /\ wk[w] \in WorkerRows /\ wk[w].item = i /\ wk[w].at = s
         /\ wk[w].pc = "extract" /\ Busy(w, i)
         /\ source[<<i, s>>] \in SourceRows
         /\ Honest(i)
         /\ ~history[i].late => Agrees(w, i)
  BY AtSource DEF SourceFails
<1>2. <<i, s>> \in Slots
  BY <1>1, SlotsAreSources
<1>3. source[<<i, s>>].state = "PENDING"
  BY <1>1 DEF SourceFails, Honest
<1>4. /\ source' = [source EXCEPT ![<<i, s>>] = source'[<<i, s>>]]
      /\ source'[<<i, s>>] =
            [source[<<i, s>>] EXCEPT !.state = IF permanent THEN "DEAD" ELSE "FAILED"]
  BY <1>1, <1>2 DEF SourceFails, IInv, TypeOK, SourceRows
<1>5. /\ wk' = [wk EXCEPT ![w] = wk'[w]]
      /\ wk'[w] = [wk[w] EXCEPT !.at = s + 1, !.got = @ \cup {}]
  BY <1>1 DEF SourceFails, NextSource, IInv, TypeOK
<1>6. UNCHANGED <<item, tap, history, crashes>>
  BY DEF SourceFails
<1>7. wk'[w] \in WorkerRows /\ source'[<<i, s>>] \in SourceRows
  <2>1. wk[w].got \cup {s} \in SUBSET (0..MaxSources)
    BY <1>1 DEF WorkerRows
  <2>2. wk'[w] \in WorkerRows
    BY <1>1, <1>5, <2>1 DEF WorkerRows
  <2>3. source'[<<i, s>>] \in SourceRows
    BY <1>1, <1>3, <1>4 DEF SourceRows
  <2> QED
    BY <2>2, <2>3
<1>8. wk'[w].item = i /\ wk'[w].pc = "extract" /\ wk'[w].kept = wk[w].kept
  BY <1>1, <1>5 DEF WorkerRows
<1>9. \A t \in Of(i) : t = s \/ source'[<<i, t>>] = source[<<i, t>>]
  BY <1>4, SlotsAreSources DEF IInv, TypeOK
<1>10. /\ source'[<<i, s>>].state = "READY" => source'[<<i, s>>].saved
       /\ source[<<i, s>>].state \in {"READY", "FAILED"} =>
             source'[<<i, s>>].state = source[<<i, s>>].state
  BY <1>1, <1>3, <1>4 DEF Honest, SourceRows
<1>11. ~history[i].late => Agrees(w, i)'
  <2>1. /\ InState(i, {"READY"})' = InState(i, {"READY"}) \ {s}
        /\ InState(i, {"PENDING"})' = InState(i, {"PENDING"}) \ {s}
    BY <1>1, <1>3, <1>4, <1>9 DEF InState, Of, SourceRows, Honest
  <2>2. s \in Nat /\ \A t \in Of(i) : t \in Nat
    BY <1>1, PipelineAssumption DEF Of
  <2>3. wk'[w].at = s + 1 /\ wk'[w].got = wk[w].got \cup {}
    BY <1>1, <1>5 DEF WorkerRows
  <2>4. ASSUME ~history[i].late
        PROVE  /\ item[i].stage = "EXTRACTING" /\ (wk[w].kept => history[i].stale)
               /\ wk[w].got = {t \in InState(i, {"READY"}) : t < s}
               /\ \A t \in InState(i, {"PENDING"}) : s <= t
    BY <1>1, <2>4 DEF Agrees
  <2>5. ASSUME ~history[i].late
        PROVE  /\ wk'[w].got = {t \in InState(i, {"READY"})' : t < wk'[w].at}
               /\ \A t \in InState(i, {"PENDING"})' : wk'[w].at <= t
    <3>1. wk[w].got = {t \in InState(i, {"READY"}) : t < s}
      BY <2>4, <2>5
    <3>2. InState(i, {"READY"}) \subseteq Nat /\ InState(i, {"PENDING"}) \subseteq Nat
      BY <2>2 DEF InState
    <3>3. wk'[w].got = {t \in InState(i, {"READY"})' : t < s + 1}
      BY <1>1, <2>1, <2>2, <2>3, <3>1, <3>2, <1>3 DEF InState
    <3>4. \A t \in InState(i, {"PENDING"})' : s + 1 <= t
      BY <2>1, <2>2, <2>4, <2>5, <3>2
    <3> QED
      BY <2>3, <3>3, <3>4
  <2> QED
    BY <1>6, <1>8, <2>4, <2>5 DEF Agrees
<1> QED
  BY <1>1, <1>4, <1>5, <1>6, <1>7, <1>8, <1>10, <1>11, SourceStep

(* The analysis.                                                            *)
LEMMA AnalyzeInv == ASSUME IInv, NEW w \in Workers, Analyze(w) PROVE IInv'
<1>1. PICK i \in Items : /\ wk[w].item = i
                         /\ wk[w] \in WorkerRows
                         /\ item[i] \in ItemRows
                         /\ item[i].status # "NONE"
                         /\ wk[w].pc # "published" => Busy(w, i) /\ InStep(w, i)
                         /\ Honest(i) /\ Covered(i) /\ Backed(w)
  BY BeforeStep DEF Analyze, At
<1> DEFINE got == wk[w].got
           stage == IF TopicEvidence(i, got) THEN "TOPIC_CLASSIFYING" ELSE "PRIORITIZING"
           pc == IF TopicEvidence(i, got) THEN "classify" ELSE "publish"
<1>2. wk[w].pc = "analyze" /\ Busy(w, i) /\ InStep(w, i)
  BY <1>1 DEF Analyze, At
<1>3. wk' = [wk EXCEPT ![w].pc = pc]
  BY <1>1 DEF Analyze, Goto
<1>4. item' = [item EXCEPT ![i] = [item[i] EXCEPT !.stage = stage, !.covered = got,
                                                  !.partial = IsPartial(i, got)]]
  BY <1>1 DEF Analyze, IInv, TypeOK, ItemRows
<1>5. history' = [history EXCEPT ![i].analyses = @ + 1, ![i].stale = FALSE]
  BY <1>1 DEF Analyze
<1>6. UNCHANGED <<source, tap, crashes>>
  BY DEF Analyze
<1>7. wk' \in [Workers -> WorkerRows] /\ wk'[w] = [wk[w] EXCEPT !.pc = pc]
  BY <1>1, <1>3 DEF IInv, TypeOK, WorkerRows, WorkerPcs, Running
<1>8. item' \in [Items -> ItemRows] /\ item'[i] = [item[i] EXCEPT !.stage = stage,
          !.covered = got, !.partial = IsPartial(i, got)]
  <2>1. got \in SUBSET (0..MaxSources) /\ IsPartial(i, got) \in BOOLEAN /\ stage \in Stages
    BY <1>1 DEF WorkerRows, IsPartial, Stages
  <2>2. [item[i] EXCEPT !.stage = stage, !.covered = got,
                       !.partial = IsPartial(i, got)] \in ItemRows
    BY <1>1, <2>1 DEF ItemRows
  <2> QED
    BY <1>4, <2>2 DEF IInv, TypeOK
<1>9. /\ history' \in [Items -> [analyses : Nat, retries : Nat, late : BOOLEAN, stale : BOOLEAN]]
      /\ history'[i].analyses = history[i].analyses + 1 /\ history'[i].late = history[i].late
      /\ history'[i].analyses > 0 /\ history'[i].analyses >= history[i].analyses
  <2>1. history[i] \in [analyses : Nat, retries : Nat, late : BOOLEAN, stale : BOOLEAN]
    BY DEF IInv, TypeOK
  <2> DEFINE r == [history[i] EXCEPT !.analyses = history[i].analyses + 1]
             h == [r EXCEPT !.stale = FALSE]
  <2>2. /\ h \in [analyses : Nat, retries : Nat, late : BOOLEAN, stale : BOOLEAN]
        /\ h.analyses = history[i].analyses + 1 /\ h.late = history[i].late
    <3>1. /\ r \in [analyses : Nat, retries : Nat, late : BOOLEAN, stale : BOOLEAN]
          /\ r.analyses = history[i].analyses + 1 /\ r.late = history[i].late
      BY <2>1
    <3> HIDE DEF r
    <3> QED
      BY <3>1
  <2>3. history[i].analyses \in Nat
    BY <2>1
  <2>4. history' = [history EXCEPT ![i] = h]
    BY <1>5
  <2> HIDE DEF h
  <2>5. history' \in [Items -> [analyses : Nat, retries : Nat, late : BOOLEAN, stale : BOOLEAN]]
    BY <2>2, <2>4 DEF IInv, TypeOK
  <2>6. history'[i] = h
    BY <2>4 DEF IInv, TypeOK
  <2> QED
    BY <2>2, <2>3, <2>5, <2>6
<1>10. TypeOK'
  <2>1. \A v \in Workers : wk'[v].pc # "idle" => wk'[v].item \in Items
    BY <1>1, <1>3 DEF IInv, TypeOK
  <2> QED
    BY <1>6, <1>7, <1>8, <1>9, <2>1 DEF IInv, TypeOK, WorkerRows
<1>11. \A states : InState(i, states)' = InState(i, states)
  BY <1>6, SameStates DEF SameSources
<1>12. IsPartial(i, got)' = IsPartial(i, got)
  BY <1>1, <1>3, <1>6, <1>7 DEF IsPartial, Failures, InState, Of, WorkerRows
<1>13. OnlyTouches(w, i)
  BY <1>1, <1>3, <1>4, <1>5, <1>6, <1>7
     DEF OnlyTouches, SameSources, IInv, TypeOK, WorkerRows
<1>14. OnlyGains(i)
  BY <1>1, <1>6, <1>8, <1>9 DEF OnlyGains, ItemRows
<1>15. Honest(i)'
  BY <1>1, <1>6, <1>9 DEF Honest, Of
<1>16. Backed(w)'
  BY <1>1, <1>7, <1>9 DEF Backed, WorkerRows
<1>17. Covered(i)'
  <2> SUFFICES ASSUME ~history[i].late PROVE Covers(i)'
    BY <1>9 DEF Covered
  <2>1. Complete(i, got)
    BY <1>2 DEF InStep, Agrees
  <2>2. item'[i].covered = got /\ item'[i].partial = IsPartial(i, got)
    BY <1>1, <1>8 DEF ItemRows
  <2>3. IsPartial(i, item[i].covered)' = IsPartial(i, got)
    BY <2>2, <1>6 DEF IsPartial, Failures, InState, Of
  <2> QED
    BY <1>11, <2>1, <2>2, <2>3 DEF Covers, Complete, HasFallback
<1>18. InStep(w, i)'
  BY <1>1, <1>2, <1>7, <1>8, <1>9 DEF InStep, Busy, Agrees, WorkerRows, ItemRows
<1> QED
  BY <1>1, <1>2, <1>10, <1>13, <1>14, <1>15, <1>16, <1>17, <1>18, LocalStep

(* The run is interrupted, perhaps behind its own publication.              *)
LEMMA InterruptInv == ASSUME IInv, NEW w \in Workers, Interrupt(w) PROVE IInv'
<1>1. PICK i \in Items : /\ wk[w].item = i
                         /\ wk[w] \in WorkerRows
                         /\ item[i] \in ItemRows
                         /\ item[i].status # "NONE"
                         /\ wk[w].pc # "published" => Busy(w, i) /\ InStep(w, i)
                         /\ Honest(i) /\ Covered(i) /\ Backed(w)
  BY BeforeStep DEF Interrupt, Running
<1>2. wk[w].pc \in Running
  BY DEF Interrupt
<1>3. wk' = [wk EXCEPT ![w].pc = "failing"] /\ UNCHANGED <<item, source, tap, crashes>>
  BY DEF Interrupt, Goto
<1>4. history' = [history EXCEPT ![i].late = @ \/ wk[w].pc = "published"]
  BY <1>1 DEF Interrupt, At
<1>5. wk' \in [Workers -> WorkerRows] /\ wk'[w] = [wk[w] EXCEPT !.pc = "failing"]
  BY <1>1, <1>3 DEF IInv, TypeOK, WorkerRows, WorkerPcs
<1>6. /\ history' \in [Items -> [analyses : Nat, retries : Nat, late : BOOLEAN, stale : BOOLEAN]]
      /\ history'[i].analyses = history[i].analyses /\ history'[i].stale = history[i].stale
      /\ history'[i].late = (history[i].late \/ wk[w].pc = "published")
      /\ history[i].analyses \in Nat
  BY <1>4 DEF IInv, TypeOK
<1>7. TypeOK'
  <2>1. \A v \in Workers : wk'[v].pc # "idle" => wk'[v].item \in Items
    BY <1>1, <1>3 DEF IInv, TypeOK
  <2> QED
    BY <1>3, <1>5, <1>6, <2>1 DEF IInv, TypeOK, WorkerRows
<1>8. OnlyTouches(w, i)
  BY <1>1, <1>3, <1>4, <1>5 DEF OnlyTouches, SameSources, IInv, TypeOK, WorkerRows
<1>9. OnlyGains(i)
  BY <1>1, <1>3, <1>6 DEF OnlyGains
<1>10. Honest(i)'
  BY <1>1, <1>3, <1>6 DEF Honest, Of
<1>11. Backed(w)'
  BY <1>1, <1>2, <1>5, <1>6 DEF Backed, WorkerRows, Running
<1>12. Covered(i)'
  <2>1. Covers(i)' <=> Covers(i)
    BY <1>3, CoversIsSame DEF SameSources
  <2> QED
    BY <1>1, <1>3, <1>6, <2>1 DEF Covered
<1>13. InStep(w, i)'
  BY <1>1, <1>3, <1>5, <1>6 DEF InStep, Busy, Agrees, WorkerRows
<1>14. Busy(w, i) \/ history'[i].late
  BY <1>1, <1>6
<1> QED
  BY <1>1, <1>7, <1>8, <1>9, <1>10, <1>11, <1>12, <1>13, <1>14, LocalStep

(* A worker claims the oldest Item of the queue.                            *)
LEMMA ClaimInv == ASSUME IInv, NEW w \in Workers, NEW i \in Items, Claim(w, i) PROVE IInv'
<1> DEFINE record == [item[i] EXCEPT !.status = "PROCESSING"]
           base == [IdleWorker EXCEPT !.pc = "claimed"]
           worker == [base EXCEPT !.item = i]
<1>1. wk[w].pc = "idle" /\ item[i].status = "QUEUED"
  BY DEF Claim, At
<1>2. item' = [item EXCEPT ![i] = record] /\ wk' = [wk EXCEPT ![w] = worker]
  BY DEF Claim
<1>3. UNCHANGED <<source, tap, history, crashes>>
  BY DEF Claim
<1>4. /\ worker \in WorkerRows
      /\ worker.pc = "claimed" /\ worker.item = i /\ worker.at = 0 /\ worker.got = {}
      /\ worker.kept = FALSE
  <2>1. /\ base \in WorkerRows /\ base.pc = "claimed" /\ base.at = 0 /\ base.got = {}
        /\ base.kept = FALSE
    <3>1. /\ IdleWorker \in WorkerRows
          /\ IdleWorker.at = 0 /\ IdleWorker.got = {} /\ IdleWorker.kept = FALSE
      BY PipelineAssumption DEF IdleWorker, WorkerRows, WorkerPcs
    <3> QED
      BY <3>1 DEF WorkerRows, WorkerPcs, Running
  <2> HIDE DEF base
  <2> QED
    BY <2>1 DEF WorkerRows
<1>5. /\ record \in ItemRows /\ record.status = "PROCESSING"
      /\ record.stage = item[i].stage /\ record.covered = item[i].covered
      /\ record.partial = item[i].partial
  <2>1. item[i] \in ItemRows
    BY DEF IInv, TypeOK
  <2> QED
    BY <2>1 DEF ItemRows, Statuses
<1> HIDE DEF record, base, worker
<1>6. item' \in [Items -> ItemRows] /\ item'[i] = record
  BY <1>2, <1>5 DEF IInv, TypeOK
<1>7. wk' \in [Workers -> WorkerRows] /\ wk'[w] = worker
  BY <1>2, <1>4 DEF IInv, TypeOK, WorkerRows
<1>8. TypeOK'
  <2>1. \A v \in Workers : wk'[v].pc # "idle" => wk'[v].item \in Items
    BY <1>2, <1>4 DEF IInv, TypeOK
  <2> QED
    BY <1>3, <1>6, <1>7, <2>1 DEF IInv, TypeOK, WorkerRows
<1>9. OnlyTouches(w, i)
  BY <1>2, <1>3, <1>4, <1>7 DEF OnlyTouches, SameSources, IInv, TypeOK
<1>10. OnlyGains(i)
  BY <1>3, <1>5, <1>6 DEF OnlyGains, IInv, TypeOK
<1>11. Honest(i)'
  BY <1>3, <1>5, <1>6, SlotsAreSources
     DEF Honest, Of, IInv, CheckpointsAreHonest, PastAnalysis
<1>12. Covered(i)'
  <2>1. Covers(i)' <=> Covers(i)
    BY <1>3, <1>5, <1>6, CoversIsSame DEF SameSources
  <2> QED
    BY <1>3, <1>5, <1>6, <2>1 DEF Covered, IInv, StageCovers
<1>13. Backed(w)'
  BY <1>4, <1>7 DEF Backed
<1>14. InStep(w, i)'
  BY <1>1, <1>3, <1>4, <1>5, <1>6, <1>7 DEF InStep, Busy, Agrees, IInv, ReadyAgrees
<1> QED
  BY <1>1, <1>8, <1>9, <1>10, <1>11, <1>12, <1>13, <1>14, LocalStep

-----------------------------------------------------------------------------
(* Steps that leave rows and sources alone                                 *)

(* What depends on the rows only.                                           *)
LEMMA SameRows ==
  ASSUME IInv, UNCHANGED <<item, source, history>>
  PROVE  /\ CheckpointsAreHonest' /\ StageCovers' /\ ReadyAgrees'
         /\ \A j \in Items : \A states : InState(j, states)' = InState(j, states)
<1>1. \A j \in Items : SameSources(j)
  BY DEF SameSources
<1>2. StageCovers'
  BY <1>1, CoveredIsSame DEF IInv, StageCovers
<1>3. ASSUME NEW j \in Items PROVE \A states : InState(j, states)' = InState(j, states)
  BY <1>1, SameStates
<1> QED
  BY <1>2, <1>3 DEF IInv, CheckpointsAreHonest, ReadyAgrees

(* What depends on the workers and their rows.                              *)
LEMMA SameWorkers ==
  ASSUME IInv, UNCHANGED <<item, source, history, wk>>
  PROVE  SoleOwner' /\ AnalysisBehind' /\ WorkerAgrees'
<1>1. SoleOwner' /\ AnalysisBehind'
  BY DEF IInv, SoleOwner, AnalysisBehind, Backed, Busy
<1>2. \A w \in Workers, i \in Items : Agrees(w, i)' <=> Agrees(w, i)
  BY AgreesIsSame DEF SameSources
<1> QED
  BY <1>1, <1>2 DEF IInv, WorkerAgrees, Busy

(* The run returns.                                                         *)
LEMMA ReturnInv == ASSUME IInv, NEW w \in Workers, Return(w) PROVE IInv'
<1>1. wk[w].pc = "published" /\ wk' = [wk EXCEPT ![w] = IdleWorker]
  BY DEF Return, At
<1>2. UNCHANGED <<item, source, tap, history, crashes>>
  BY DEF Return
<1>3. wk' \in [Workers -> WorkerRows] /\ wk'[w].pc = "idle"
  BY <1>1, PipelineAssumption DEF IInv, TypeOK, WorkerRows, IdleWorker, WorkerPcs
<1>4. \A v \in Workers : v = w \/ wk'[v] = wk[v]
  BY <1>1 DEF IInv, TypeOK
<1>5. TypeOK'
  BY <1>2, <1>3, <1>4 DEF IInv, TypeOK, WorkerRows
<1>6. \A v \in Workers, i \in Items : Busy(v, i)' <=> Busy(v, i)
  BY <1>1, <1>3, <1>4 DEF Busy
<1>7. SoleOwner' /\ AnalysisBehind' /\ Untouched'
  <2>1. SoleOwner'
    BY <1>2, <1>6 DEF IInv, SoleOwner
  <2>2. ASSUME NEW v \in Workers PROVE Backed(v)'
    BY <1>2, <1>3, <1>4 DEF IInv, AnalysisBehind, Backed
  <2>3. Untouched'
    BY <1>2, <1>3, <1>4 DEF IInv, Untouched, Of
  <2> QED
    BY <2>1, <2>2, <2>3 DEF AnalysisBehind
<1>8. TapIsCurrent'
  BY <1>2 DEF IInv, TapIsCurrent, InState, Of
<1>9. WorkerAgrees'
  <2> SUFFICES ASSUME NEW v \in Workers, NEW i \in Items, Busy(v, i)', ~history[i].late
               PROVE  Agrees(v, i)'
    BY <1>2 DEF WorkerAgrees
  <2>1. v # w
    BY <1>3 DEF Busy
  <2>2. Agrees(v, i)
    BY <1>6 DEF IInv, WorkerAgrees
  <2> QED
    BY <1>2, <1>4, <2>1, <2>2, AgreesIsSame DEF SameSources
<1> QED
  BY <1>2, <1>5, <1>7, <1>8, <1>9, SameRows DEF IInv

(* The Retry handler reads the sources.                                     *)
LEMMA RetryReadInv == ASSUME IInv, NEW i \in Items, RetryRead(i) PROVE IInv'
<1>1. UNCHANGED <<item, source, wk, history, crashes>> /\ item[i].status # "NONE"
  BY DEF RetryRead
<1> DEFINE sources == InState(i, {"FAILED"})
           posts == {s \in InState(i, {"READY"}) :
                        <<i, s>> \in Posts /\ source[<<i, s>>].holes \in {"recheck", "retryable"}}
<1>2. tap' = [item |-> i, failed |-> Failures(i) # {}, sources |-> sources, posts |-> posts]
  BY DEF RetryRead
<1>3. sources \in SUBSET (0..MaxSources) /\ posts \in SUBSET (0..MaxSources)
  BY DEF InState, Of
<1>4. TypeOK'
  BY <1>1, <1>2, <1>3 DEF IInv, TypeOK
<1>5. Untouched'
  BY <1>1, <1>2 DEF IInv, Untouched, Of
<1>6. TapIsCurrent'
  BY <1>1, <1>2 DEF TapIsCurrent, InState, Of
<1> QED
  BY <1>1, <1>4, <1>5, <1>6, SameRows, SameWorkers DEF IInv

(* The Retry handler finds that nothing can be retried any more.            *)
LEMMA RetryLostInv == ASSUME IInv, RetryLost PROVE IInv'
<1>1. UNCHANGED <<item, source, wk, history, crashes>> /\ tap' = NoTap
  BY DEF RetryLost
<1>2. TypeOK'
  BY <1>1 DEF IInv, TypeOK, NoTap
<1>3. Untouched' /\ TapIsCurrent'
  BY <1>1, PipelineAssumption DEF IInv, Untouched, Of, TapIsCurrent, NoTap
<1> QED
  BY <1>1, <1>2, <1>3, SameRows, SameWorkers DEF IInv

(* Nothing happens.                                                         *)
LEMMA StutterInv == ASSUME IInv, UNCHANGED vars PROVE IInv'
<1>1. UNCHANGED <<item, source, wk, tap, history, crashes>>
  BY DEF vars
<1>2. TypeOK' /\ Untouched' /\ TapIsCurrent'
  BY <1>1 DEF IInv, TypeOK, Untouched, TapIsCurrent, InState, Of
<1> QED
  BY <1>1, <1>2, SameRows, SameWorkers DEF IInv

-----------------------------------------------------------------------------
(* Ingestion                                                               *)

(* Nobody holds what does not exist yet.                                    *)
LEMMA Fresh ==
  ASSUME IInv, NEW i \in Items, item[i].status = "NONE"
  PROVE  /\ item[i] \in ItemRows /\ item[i].stage = "INGESTED"
         /\ \A w \in Workers : ~Busy(w, i)
         /\ \A w \in Workers : wk[w].pc # "idle" => wk[w].item # i
         /\ \A s \in Of(i) : source[<<i, s>>].state = "PENDING"
         /\ tap.item # i
BY DEF IInv, TypeOK, Untouched, Busy

(* An Item that nobody holds appears with a status of its own; a source of  *)
(* it may be dead from the start.                                           *)
LEMMA BirthStep ==
  ASSUME IInv, NEW i \in Items, NEW status \in {"QUEUED", "FAILED"},
         item[i].status = "NONE", item' = [item EXCEPT ![i].status = status],
         source' \in [Slots -> SourceRows],
         \A j \in Items \ {i} : SameSources(j),
         \A s \in Of(i) : source'[<<i, s>>].state # "READY",
         UNCHANGED <<wk, tap, history, crashes>>
  PROVE  IInv'
<1>1. /\ item[i] \in ItemRows /\ item[i].stage = "INGESTED"
      /\ \A w \in Workers : ~Busy(w, i)
      /\ tap.item # i
  BY Fresh
<1> DEFINE record == [item[i] EXCEPT !.status = status]
<1>2. record \in ItemRows /\ record.status = status /\ record.stage = "INGESTED"
  BY <1>1 DEF ItemRows, Statuses
<1>3. item' = [item EXCEPT ![i] = record]
  OBVIOUS
<1> HIDE DEF record
<1>4. /\ item' \in [Items -> ItemRows] /\ item'[i] = record
      /\ \A j \in Items : j = i \/ item'[j] = item[j]
  BY <1>2, <1>3 DEF IInv, TypeOK
<1>5. TypeOK'
  BY <1>4 DEF IInv, TypeOK
<1>6. SoleOwner'
  BY <1>1, <1>2, <1>4 DEF IInv, SoleOwner, Busy
<1>7. CheckpointsAreHonest'
  <2>1. ASSUME NEW x \in Slots PROVE source'[x].state = "READY" => source'[x].saved
    <3>1. x[1] \in Items /\ x[2] \in Of(x[1]) /\ x = <<x[1], x[2]>>
      BY SlotsAreSources
    <3>2. CASE x[1] = i
      BY <3>1, <3>2
    <3>3. CASE x[1] # i
      BY <3>1, <3>3 DEF SameSources, IInv, CheckpointsAreHonest
    <3> QED
      BY <3>2, <3>3
  <2> QED
    BY <1>2, <1>4, <2>1 DEF IInv, CheckpointsAreHonest
<1>8. AnalysisBehind'
  BY DEF IInv, AnalysisBehind, Backed
<1>9. Untouched'
  BY <1>2, <1>4 DEF IInv, Untouched, SameSources, Of
<1>10. TapIsCurrent'
  <2> SUFFICES ASSUME tap # NoTap PROVE TapIsCurrent'
    BY DEF TapIsCurrent
  <2>1. tap.item \in Items \ {i}
    BY <1>1 DEF IInv, TypeOK
  <2>2. \A states : InState(tap.item, states)' = InState(tap.item, states)
    BY <2>1, SameStates DEF InState, Of, SameSources
  <2> QED
    BY <2>2 DEF IInv, TapIsCurrent
<1>11. WorkerAgrees'
  <2> SUFFICES ASSUME NEW w \in Workers, NEW j \in Items, Busy(w, j)', ~history[j].late
               PROVE  Agrees(w, j)'
    BY DEF WorkerAgrees
  <2>1. j # i /\ Busy(w, j)
    BY <1>1 DEF Busy
  <2> QED
    BY <1>4, <2>1, AgreesIsSame DEF IInv, WorkerAgrees
<1>12. StageCovers'
  <2> SUFFICES ASSUME NEW j \in Items PROVE Covered(j)'
    BY DEF StageCovers
  <2>1. CASE j = i
    BY <1>2, <1>4, <2>1 DEF Covered, PastAnalysis
  <2>2. CASE j # i
    BY <1>4, <2>2, CoveredIsSame DEF IInv, StageCovers
  <2> QED
    BY <2>1, <2>2
<1>13. ReadyAgrees'
  BY <1>2, <1>4 DEF IInv, ReadyAgrees
<1> QED
  BY <1>5, <1>6, <1>7, <1>8, <1>9, <1>10, <1>11, <1>12, <1>13 DEF IInv

(* An Item is ingested.                                                     *)
LEMMA IngestInv == ASSUME IInv, NEW i \in Items, Ingest(i) PROVE IInv'
<1>1. /\ item[i].status = "NONE" /\ item' = [item EXCEPT ![i].status = "QUEUED"]
      /\ UNCHANGED <<source, wk, tap, history, crashes>>
  BY DEF Ingest
<1>2. \A s \in Of(i) : source'[<<i, s>>].state # "READY"
  BY <1>1, Fresh
<1>3. source' \in [Slots -> SourceRows] /\ \A j \in Items \ {i} : SameSources(j)
  BY <1>1 DEF IInv, TypeOK, SameSources
<1> QED
  BY <1>1, <1>2, <1>3, BirthStep

(* An Item is ingested with a file that is rejected.                        *)
LEMMA RejectedInv == ASSUME IInv, NEW i \in Items, IngestRejectedMedia(i) PROVE IInv'
<1> DEFINE status == IF Text[i] = "none" /\ SourceCount[i] = 1 THEN "FAILED" ELSE "QUEUED"
           record == [source[<<i, 0>>] EXCEPT !.state = "DEAD"]
<1>1. /\ item[i].status = "NONE" /\ item' = [item EXCEPT ![i].status = status]
      /\ <<i, 0>> \in Slots
      /\ UNCHANGED <<wk, tap, history, crashes>>
  BY DEF IngestRejectedMedia
<1>2. source' = [source EXCEPT ![<<i, 0>>] = record]
  BY DEF IngestRejectedMedia
<1>3. source[<<i, 0>>] \in SourceRows
  BY <1>1 DEF IInv, TypeOK
<1>4. record \in SourceRows /\ record.state = "DEAD"
  BY <1>3 DEF SourceRows
<1> HIDE DEF record
<1>5. source' \in [Slots -> SourceRows]
  BY <1>2, <1>4 DEF IInv, TypeOK
<1>6. \A s \in Of(i) : source'[<<i, s>>].state # "READY"
  BY <1>1, <1>2, <1>4, Fresh, SlotsAreSources DEF IInv, TypeOK
<1>7. \A j \in Items \ {i} : SameSources(j)
  BY <1>2, SlotsAreSources DEF SameSources, IInv, TypeOK
<1>8. status \in {"QUEUED", "FAILED"}
  OBVIOUS
<1> QED
  BY <1>1, <1>5, <1>6, <1>7, <1>8, BirthStep

-----------------------------------------------------------------------------
(* The process dies and starts again                                       *)

(* Nobody is busy any more, and nothing is left PROCESSING.                 *)
LEMMA CrashInv == ASSUME IInv, CrashRestart PROVE IInv'
<1>1. /\ UNCHANGED <<source, history>> /\ crashes' = crashes + 1 /\ tap' = NoTap
      /\ wk' = [w \in Workers |-> IdleWorker]
  BY DEF CrashRestart
<1>2. \A w \in Workers : wk'[w].pc = "idle" /\ \A i \in Items : ~Busy(w, i)'
  BY <1>1 DEF IdleWorker, Busy
<1>3. ASSUME NEW i \in Items
      PROVE  /\ item'[i] \in ItemRows
             /\ item'[i].stage = item[i].stage
             /\ item'[i].covered = item[i].covered /\ item'[i].partial = item[i].partial
             /\ item'[i].status = IF item[i].status = "PROCESSING" THEN "QUEUED"
                                  ELSE item[i].status
  <2>1. item[i] \in ItemRows
    BY DEF IInv, TypeOK
  <2>2. item'[i] = IF item[i].status = "PROCESSING" THEN [item[i] EXCEPT !.status = "QUEUED"]
                   ELSE item[i]
    BY DEF CrashRestart, Requeued
  <2> QED
    BY <2>1, <2>2 DEF ItemRows, Statuses
<1>4. TypeOK'
  <2>1. item' = [i \in Items |-> item'[i]]
    BY DEF CrashRestart, Requeued
  <2>2. item' \in [Items -> ItemRows]
    BY <1>3, <2>1
  <2>3. wk' \in [Workers -> WorkerRows]
    BY <1>1, PipelineAssumption DEF WorkerRows, WorkerPcs, IdleWorker
  <2>4. tap' \in [item : Items \cup {Nil}, failed : BOOLEAN,
                  sources : SUBSET (0..MaxSources), posts : SUBSET (0..MaxSources)]
    BY <1>1 DEF NoTap
  <2> QED
    BY <1>1, <1>2, <2>2, <2>3, <2>4 DEF IInv, TypeOK, WorkerRows
<1>5. SoleOwner' /\ WorkerAgrees'
  BY <1>2, <1>3 DEF SoleOwner, WorkerAgrees
<1>6. CheckpointsAreHonest'
  BY <1>1, <1>3 DEF IInv, CheckpointsAreHonest
<1>7. AnalysisBehind'
  BY <1>2 DEF AnalysisBehind, Backed
<1>8. Untouched'
  BY <1>1, <1>2, <1>3, PipelineAssumption DEF IInv, Untouched, Of, NoTap
<1>9. TapIsCurrent'
  BY <1>1 DEF TapIsCurrent
<1>10. StageCovers'
  <2> SUFFICES ASSUME NEW i \in Items PROVE Covered(i)'
    BY DEF StageCovers
  <2>1. Covers(i)' <=> Covers(i)
    BY <1>1, <1>3, CoversIsSame DEF SameSources
  <2> QED
    BY <1>1, <1>3, <2>1 DEF IInv, StageCovers, Covered
<1>11. ReadyAgrees'
  BY <1>1, <1>3 DEF IInv, ReadyAgrees
<1> QED
  BY <1>4, <1>5, <1>6, <1>7, <1>8, <1>9, <1>10, <1>11 DEF IInv

-----------------------------------------------------------------------------
(* Retry                                                                   *)

(* A reopened source is PENDING.                                            *)
LEMMA ReopenedRow ==
  ASSUME IInv, NEW x \in Slots
  PROVE  Reopened(x) \in SourceRows /\ Reopened(x).state = "PENDING"
<1> DEFINE r == [source[x] EXCEPT !.state = "PENDING"]
<1>1. source[x] \in SourceRows
  BY DEF IInv, TypeOK
<1>2. r \in SourceRows /\ r.state = "PENDING" /\ r.saved = source[x].saved
  BY <1>1 DEF SourceRows
<1>3. Reopened(x) = [r EXCEPT !.saved = (source[x].saved /\ x \notin Posts)]
  BY DEF Reopened
<1> HIDE DEF r
<1>4. (source[x].saved /\ x \notin Posts) \in BOOLEAN
  OBVIOUS
<1> QED
  BY <1>2, <1>3, <1>4 DEF SourceRows

(* The Item that a Retry wins is in nobody's hands.                         *)
LEMMA RetriedItem ==
  ASSUME IInv, RetryWon
  PROVE  /\ tap.item \in Items
         /\ item[tap.item] \in ItemRows
         /\ item[tap.item].status \in {"READY", "FAILED"}
         /\ ~history[tap.item].late => \A w \in Workers : ~Busy(w, tap.item)
         /\ ResumeStage \in Stages
         /\ ~history[tap.item].late => ResumeStage # "READY"
         /\ ResumeStage \in {"EXTRACTING", item[tap.item].stage}
<1>1. tap.item \in Items
  BY DEF RetryWon, IInv, TypeOK
<1>2. item[tap.item] \in ItemRows
  BY <1>1 DEF IInv, TypeOK
<1>3. item[tap.item].status \in {"READY", "FAILED"}
  BY DEF RetryWon, RetryWins, RetryablePartial, RetryableFailed
<1>4. ~history[tap.item].late => \A w \in Workers : ~Busy(w, tap.item)
  BY <1>1, <1>3 DEF IInv, SoleOwner
<1>5. ResumeStage \in {"EXTRACTING", item[tap.item].stage}
  BY DEF ResumeStage
<1>6. ResumeStage \in Stages
  BY <1>2, <1>5 DEF ItemRows, Stages
<1>7. ~history[tap.item].late => ResumeStage # "READY"
  BY <1>1 DEF RetryWon, RetryWins, RetryableFailed, ResumeStage, IInv, ReadyAgrees
<1> QED
  BY <1>1, <1>2, <1>3, <1>4, <1>5, <1>6, <1>7

(* Retry wins: no worker is disturbed, no stage stands for lost content.    *)
LEMMA RetryWonInv == ASSUME IInv, RetryWon PROVE IInv'
<1>0. PICK i \in Items : i = tap.item
  BY RetriedItem
<1> DEFINE base == [item[i] EXCEPT !.status = "QUEUED"]
           record == [base EXCEPT !.stage = ResumeStage]
           reopens == RetryReopens
           late == ResumeStage \in {"TOPIC_CLASSIFYING", "PRIORITIZING"} /\ reopens # {}
           counted == [history[i] EXCEPT !.retries = history[i].retries + 1]
           events == [counted EXCEPT !.stale = (history[i].stale \/ late)]
           Events == [analyses : Nat, retries : Nat, late : BOOLEAN, stale : BOOLEAN]
<1>1. /\ i \in Items /\ item[i] \in ItemRows
      /\ ~history[i].late => /\ item[i].status # "PROCESSING"
                             /\ \A w \in Workers : ~Busy(w, i)
                             /\ ResumeStage # "READY"
      /\ ResumeStage \in Stages
      /\ ResumeStage \in {"EXTRACTING", item[i].stage}
  BY <1>0, RetriedItem
<1>2. /\ item' = [item EXCEPT ![i] = record]
      /\ source' = [x \in Slots |-> IF x \in reopens THEN Reopened(x) ELSE source[x]]
      /\ history' = [history EXCEPT ![i] = events]
      /\ tap' = NoTap
      /\ UNCHANGED <<wk, crashes>>
  BY <1>0 DEF RetryWon
<1>3. /\ record \in ItemRows /\ record.status = "QUEUED" /\ record.stage = ResumeStage
      /\ record.covered = item[i].covered /\ record.partial = item[i].partial
  <2>1. /\ base \in ItemRows /\ base.status = "QUEUED"
        /\ base.covered = item[i].covered /\ base.partial = item[i].partial
    BY <1>1 DEF ItemRows, Statuses
  <2> HIDE DEF base
  <2> QED
    BY <1>1, <2>1 DEF ItemRows
<1>4. /\ events \in Events
      /\ events.analyses = history[i].analyses /\ events.late = history[i].late
      /\ events.stale = (history[i].stale \/ late)
  <2>1. history[i] \in Events
    BY <1>1 DEF IInv, TypeOK
  <2>2. /\ counted \in Events
        /\ counted.analyses = history[i].analyses /\ counted.late = history[i].late
    BY <2>1
  <2>3. (history[i].stale \/ late) \in BOOLEAN
    OBVIOUS
  <2> HIDE DEF counted, late
  <2> QED
    BY <2>2, <2>3
<1>5. \A x \in reopens : x[1] = i
  BY <1>0 DEF RetryReopens
<1> HIDE DEF record, reopens, events
<1>6. /\ item' \in [Items -> ItemRows] /\ item'[i] = record
      /\ \A j \in Items : j = i \/ item'[j] = item[j]
  BY <1>1, <1>2, <1>3 DEF IInv, TypeOK
<1>7. /\ history' \in [Items -> Events] /\ history'[i] = events
      /\ \A j \in Items : j = i \/ history'[j] = history[j]
  BY <1>1, <1>2, <1>4 DEF IInv, TypeOK
<1>8. source' \in [Slots -> SourceRows]
  BY <1>2, ReopenedRow DEF IInv, TypeOK
<1>9. \A x \in Slots : source'[x] = source[x] \/ (x \in reopens /\ source'[x].state = "PENDING")
  BY <1>2, ReopenedRow
<1>10. \A j \in Items : j = i \/ SameSources(j)
  BY <1>5, <1>9, SlotsAreSources DEF SameSources
<1>11. TypeOK'
  <2>1. tap' \in [item : Items \cup {Nil}, failed : BOOLEAN,
                  sources : SUBSET (0..MaxSources), posts : SUBSET (0..MaxSources)]
    BY <1>2 DEF NoTap
  <2> QED
    BY <1>2, <1>6, <1>7, <1>8, <2>1 DEF IInv, TypeOK
<1>12. SoleOwner'
  BY <1>1, <1>2, <1>3, <1>4, <1>6, <1>7 DEF IInv, SoleOwner, Busy
<1>13. CheckpointsAreHonest'
  <2>1. \A j \in Items : item'[j].stage \in PastAnalysis => item[j].stage \in PastAnalysis
    BY <1>1, <1>3, <1>6 DEF PastAnalysis
  <2>2. \A j \in Items : history'[j].analyses = history[j].analyses
    BY <1>4, <1>7
  <2> QED
    BY <1>9, <2>1, <2>2 DEF IInv, CheckpointsAreHonest, PastAnalysis
<1>14. AnalysisBehind'
  <2> SUFFICES ASSUME NEW w \in Workers PROVE Backed(w)'
    BY DEF AnalysisBehind
  <2>1. wk[w].pc = "idle" \/ wk[w].item \in Items
    BY DEF IInv, TypeOK
  <2>2. \A j \in Items : history'[j].analyses = history[j].analyses
    BY <1>4, <1>7
  <2> QED
    BY <1>2, <2>1, <2>2 DEF IInv, AnalysisBehind, Backed
<1>15. Untouched'
  <2>1. \A j \in Items : item'[j].status = "NONE" => j # i
    BY <1>3, <1>6
  <2>2. tap'.item \notin Items
    BY <1>2, PipelineAssumption DEF NoTap
  <2> QED
    BY <1>2, <1>6, <1>10, <2>1, <2>2 DEF IInv, Untouched, SameSources, Of
<1>16. TapIsCurrent'
  BY <1>2 DEF TapIsCurrent
<1>17. WorkerAgrees'
  <2> SUFFICES ASSUME NEW w \in Workers, NEW j \in Items, Busy(w, j)', ~history'[j].late
               PROVE  Agrees(w, j)'
    BY DEF WorkerAgrees
  <2>1. Busy(w, j)
    BY <1>2 DEF Busy
  <2>2. j # i
    BY <1>1, <1>4, <1>7, <2>1
  <2> QED
    BY <1>2, <1>6, <1>7, <1>10, <2>1, <2>2, AgreesIsSame DEF IInv, WorkerAgrees
<1>18. StageCovers'
  <2> SUFFICES ASSUME NEW j \in Items PROVE Covered(j)'
    BY DEF StageCovers
  <2>1. CASE j # i
    BY <1>6, <1>7, <1>10, <2>1, CoveredIsSame DEF IInv, StageCovers
  <2>2. CASE j = i
    <3> SUFFICES ASSUME item'[i].stage \in PastAnalysis, ~history'[i].late, ~history'[i].stale
                 PROVE  Covers(i)'
      BY <2>2 DEF Covered
    <3>1. ~history[i].late /\ ~history[i].stale /\ ~late
      BY <1>4, <1>7
    <3>2. ResumeStage \in {"TOPIC_CLASSIFYING", "PRIORITIZING"} /\ item[i].stage \in PastAnalysis
      BY <1>1, <1>3, <1>6, <3>1 DEF PastAnalysis
    <3>3. reopens = {}
      BY <3>1, <3>2
    <3>4. SameSources(i)
      BY <1>9, <3>3, SlotsAreSources DEF SameSources
    <3>5. Covers(i)
      BY <1>1, <3>1, <3>2 DEF IInv, StageCovers, Covered
    <3> QED
      BY <1>1, <1>3, <1>6, <3>4, <3>5, CoversIsSame
  <2> QED
    BY <2>1, <2>2
<1>19. ReadyAgrees'
  BY <1>1, <1>3, <1>4, <1>6, <1>7 DEF IInv, ReadyAgrees
<1> QED
  BY <1>11, <1>12, <1>13, <1>14, <1>15, <1>16, <1>17, <1>18, <1>19 DEF IInv

-----------------------------------------------------------------------------
(* Every step preserves the invariant                                      *)

(* Whoever takes the step.                                                  *)
LEMMA NextInv == ASSUME IInv, [Next]_vars PROVE IInv'
<1>1. CASE User
  <2>1. ASSUME NEW i \in Items, Ingest(i) PROVE IInv'
    BY <2>1, IngestInv
  <2>2. ASSUME NEW i \in Items, IngestRejectedMedia(i) PROVE IInv'
    BY <2>2, RejectedInv
  <2>3. ASSUME NEW i \in Items, RetryRead(i) PROVE IInv'
    BY <2>3, RetryReadInv
  <2> QED
    BY <1>1, <2>1, <2>2, <2>3, RetryWonInv, RetryLostInv DEF User
<1>2. ASSUME NEW w \in Workers, Work(w) PROVE IInv'
  <2>1. ASSUME NEW i \in Items, Claim(w, i) PROVE IInv'
    BY <2>1, ClaimInv
  <2>2. ASSUME Extract(w) PROVE IInv'
    BY <2>2, SkipInv, SaveInv, MarkInv, FailsInv, ComposeInv DEF Extract
  <2>3. ASSUME Advance(w) PROVE IInv'
    BY <2>2, <2>3, AtPublishInv, WithContentInv, StartInv, AnalyzeInv, ClassifyInv
       DEF Advance
  <2> QED
    BY <1>2, <2>1, <2>3, PublishInv, ReturnInv, MarkFailedInv DEF Work
<1>3. ASSUME NEW w \in Workers, Interrupt(w) PROVE IInv'
  BY <1>3, InterruptInv
<1>4. CASE UNCHANGED vars
  BY <1>4, StutterInv
<1> QED
  BY <1>1, <1>2, <1>3, <1>4, CrashInv DEF Next

(* The inductive invariant, of every reachable state.                       *)
THEOREM Invariance == Spec => []IInv
<1>1. Init => IInv
  BY InitInv
<1>2. IInv /\ [Next]_vars => IInv'
  BY NextInv
<1> QED
  BY <1>1, <1>2, PTL DEF Spec

(* Rows, workers and the Retry handler keep their types.                    *)
THEOREM TypeCorrect == Spec => []TypeOK
<1>1. IInv => TypeOK
  BY DEF IInv
<1> QED
  BY <1>1, Invariance, PTL

(* Two workers never have one Item, and none is left PROCESSING without a   *)
(* worker (ProcessingWorker), for any number of workers, Items and deaths.  *)
THEOREM OneOwner == Spec => []SoleOwner
<1>1. IInv => SoleOwner
  BY DEF IInv
<1> QED
  BY <1>1, Invariance, PTL

(* D-001: READY sources have durable content, and the stages past the       *)
(* analysis an analysis, wherever a run was interrupted.                    *)
THEOREM HonestCheckpoints == Spec => []CheckpointsAreHonest
<1>1. IInv => CheckpointsAreHonest
  BY DEF IInv
<1> QED
  BY <1>1, Invariance, PTL

(* D-016: a shown result was made from all the content there is, and is     *)
(* PARTIAL exactly when something is missing.                               *)
THEOREM ShownResultCovers == Spec => []ResultCoversSources
<1>1. ASSUME IInv PROVE ResultCoversSources
  <2> SUFFICES ASSUME NEW i \in Items, item[i].status = "READY",
                      ~history[i].late, ~history[i].stale
               PROVE  /\ InState(i, {"PENDING"}) = {}
                      /\ item[i].covered = InState(i, {"READY"})
                      /\ item[i].partial = IsPartial(i, item[i].covered)
    BY DEF ResultCoversSources
  <2>1. item[i].stage \in PastAnalysis
    BY <1>1 DEF IInv, ReadyAgrees, PastAnalysis
  <2>2. Covers(i)
    BY <1>1, <2>1 DEF IInv, StageCovers, Covered
  <2> QED
    BY <2>2 DEF Covers, Complete
<1> QED
  BY <1>1, Invariance, PTL

-----------------------------------------------------------------------------
(* What the analyses cost: one, and one more per Retry.  Unless a deadline   *)
(* strikes a durable READY, an Item has one run at a time.  After that, it   *)
(* may have several: each of them is then the run of another Retry.         *)

(* The runs that may still analyse the Item; those of them that are past a   *)
(* source; those that hold content; an Item without any.                    *)
Runs(i) == {w \in Workers : wk[w].item = i /\ wk[w].pc \in {"claimed", "extract", "analyze"}}
Past(w, s) == wk[w].pc = "analyze" \/ (wk[w].pc = "extract" /\ wk[w].at > s)
Behind(i, s) == {w \in Runs(i) : Past(w, s)}
Laden(i) == {w \in Runs(i) : wk[w].got # {}}
Barren(i) == InState(i, {"READY"}) = {} /\ ~HasFallback(i)
Queued(i) == IF item[i].status = "QUEUED" THEN 1 ELSE 0

(* An Item in one worker's hands, from the claim to the failure.            *)
Alone(i) ==
    /\ \A v, w \in Workers : wk[v].item = i /\ wk[w].item = i => v = w
    /\ item[i].status = "PROCESSING" => \E w \in Workers : wk[w].item = i
    /\ \A w \in Workers : wk[w].item = i =>
          /\ item[i].status = "PROCESSING" /\ wk[w].pc # "published"
          /\ wk[w].pc = "extract" => item[i].stage = "EXTRACTING"
          /\ wk[w].pc = "analyze" => item[i].stage = "ANALYZING"

EachRunPaid(i) == history[i].analyses + Cardinality(Runs(i)) + Queued(i) <= 1 + history[i].retries

(* Before the stages that keep an analysis, the run that is under way or to  *)
(* come is not paid out of an earlier one's.                                *)
Owed(i) ==
    (/\ item[i].status \in {"NONE", "QUEUED", "PROCESSING"}
     /\ item[i].stage \notin {"TOPIC_CLASSIFYING", "PRIORITIZING"})
       => history[i].analyses <= history[i].retries

(* A PENDING source was reopened by a Retry that only runs past the source   *)
(* may have used up; the same for an Item without any content.              *)
Opened(i) ==
    \A s \in InState(i, {"PENDING"}) :
       history[i].analyses + Cardinality(Behind(i, s)) <= history[i].retries

BarrenPaid(i) == Barren(i) => history[i].analyses + Cardinality(Laden(i)) <= history[i].retries

Paid(i) == /\ IsFiniteSet(Runs(i))
           /\ history[i].analyses <= 1 + history[i].retries
           /\ Alone(i) \/ EachRunPaid(i)
           /\ Owed(i)
           /\ Opened(i)
           /\ BarrenPaid(i)

Hand(w) == /\ wk[w].pc = "idle" => wk[w].item = Nil
           /\ wk[w].pc = "claimed" => wk[w].got = {} /\ wk[w].at = 0
           /\ wk[w].pc = "analyze" => wk[w].got # {} \/ HasFallback(wk[w].item)

Hands == \A w \in Workers : Hand(w)

EachPaid == Hands /\ \A i \in Items : Paid(i)

(* A part of a finite set.                                                  *)
LEMMA PartOf ==
  ASSUME NEW S, NEW T \in SUBSET S, IsFiniteSet(S)
  PROVE  /\ IsFiniteSet(T) /\ Cardinality(T) \in Nat /\ Cardinality(S) \in Nat
         /\ Cardinality(T) <= Cardinality(S)
BY FS_Subset, FS_CardinalityType

(* The parts of the runs, counted.                                          *)
LEMMA Counts ==
  ASSUME IInv, NEW i \in Items, Paid(i)
  PROVE  /\ history[i].analyses \in Nat /\ history[i].retries \in Nat
         /\ Cardinality(Runs(i)) \in Nat
         /\ \A s \in Of(i) : /\ IsFiniteSet(Behind(i, s)) /\ Cardinality(Behind(i, s)) \in Nat
                             /\ Cardinality(Behind(i, s)) <= Cardinality(Runs(i))
         /\ IsFiniteSet(Laden(i)) /\ Cardinality(Laden(i)) \in Nat
         /\ Cardinality(Laden(i)) <= Cardinality(Runs(i))
<1>1. history[i].analyses \in Nat /\ history[i].retries \in Nat
  BY DEF IInv, TypeOK
<1>2. IsFiniteSet(Runs(i))
  BY DEF Paid
<1>3. Laden(i) \in SUBSET Runs(i)
  BY DEF Laden
<1>4. ASSUME NEW s \in Of(i)
      PROVE  /\ IsFiniteSet(Behind(i, s)) /\ Cardinality(Behind(i, s)) \in Nat
             /\ Cardinality(Behind(i, s)) <= Cardinality(Runs(i))
  <2>1. Behind(i, s) \in SUBSET Runs(i)
    BY DEF Behind
  <2> QED
    BY <1>2, <2>1, PartOf
<1> QED
  BY <1>1, <1>2, <1>3, <1>4, PartOf

(* Nothing about an Item changes.                                           *)
Kept(i) == /\ item'[i] = item[i] /\ history'[i] = history[i] /\ SameSources(i)
           /\ \A w \in Workers : wk[w].item = i \/ wk'[w].item = i => wk'[w] = wk[w]

(* ... so nothing is bought for it.                                         *)
LEMMA KeptPaid == ASSUME NEW i \in Items, Paid(i), Kept(i) PROVE Paid(i)'
<1>1. Runs(i)' = Runs(i)
  BY DEF Runs, Kept
<1>2. \A s : Behind(i, s)' = Behind(i, s)
  BY <1>1 DEF Behind, Past, Kept, Runs
<1>3. Laden(i)' = Laden(i)
  BY <1>1 DEF Laden, Kept, Runs
<1>4. \A states : InState(i, states)' = InState(i, states)
  BY SameStates DEF Kept
<1>5. Alone(i)' <=> Alone(i)
  BY DEF Alone, Kept
<1>6. EachRunPaid(i)' <=> EachRunPaid(i)
  BY <1>1 DEF EachRunPaid, Queued, Kept
<1>7. Opened(i)' <=> Opened(i)
  BY <1>2, <1>4 DEF Opened, Kept
<1>8. BarrenPaid(i)' <=> BarrenPaid(i)
  BY <1>3, <1>4 DEF BarrenPaid, Barren, HasFallback, Kept
<1>9. Owed(i)' <=> Owed(i)
  BY DEF Owed, Kept
<1> QED
  BY <1>1, <1>5, <1>6, <1>7, <1>8, <1>9 DEF Paid, Kept

(* No more runs, none of them further than before.                          *)
Lighter(i) ==
    /\ history'[i].analyses = history[i].analyses /\ history'[i].retries = history[i].retries
    /\ \A w \in Workers : w \in Runs(i)' => w \in Runs(i)
    /\ \A s \in Of(i) : s \in InState(i, {"PENDING"})' =>
          /\ s \in InState(i, {"PENDING"})
          /\ \A w \in Workers : w \in Behind(i, s)' => w \in Behind(i, s)
    /\ Barren(i)' => Barren(i) /\ \A w \in Workers : w \in Laden(i)' => w \in Laden(i)

(* Who has less to open or to carry stays within what was paid.             *)
LEMMA LighterPaid ==
  ASSUME IInv, NEW i \in Items, Paid(i), Lighter(i)
  PROVE  /\ IsFiniteSet(Runs(i)') /\ Opened(i)' /\ BarrenPaid(i)'
         /\ history'[i].analyses <= 1 + history'[i].retries
         /\ EachRunPaid(i) /\ (item'[i].status = "QUEUED" => item[i].status = "QUEUED")
               => EachRunPaid(i)'
<1>0. /\ history[i].analyses \in Nat /\ history[i].retries \in Nat
      /\ Cardinality(Runs(i)) \in Nat /\ IsFiniteSet(Runs(i))
  BY Counts DEF Paid
<1>1. Runs(i)' \in SUBSET Runs(i)
  BY DEF Lighter, Runs
<1>2. /\ IsFiniteSet(Runs(i)') /\ Cardinality(Runs(i)') \in Nat
      /\ Cardinality(Runs(i)') <= Cardinality(Runs(i))
  BY <1>0, <1>1, PartOf
<1>3. Opened(i)'
  <2> SUFFICES ASSUME NEW s \in InState(i, {"PENDING"})'
               PROVE  history'[i].analyses + Cardinality(Behind(i, s)') <= history'[i].retries
    BY DEF Opened
  <2>1. s \in Of(i)
    BY DEF InState, Of
  <2>2. s \in InState(i, {"PENDING"}) /\ Behind(i, s)' \in SUBSET Behind(i, s)
    BY <2>1 DEF Lighter, Behind, Runs
  <2>3. IsFiniteSet(Behind(i, s))
    BY <2>1, Counts
  <2>4. /\ Cardinality(Behind(i, s)') <= Cardinality(Behind(i, s))
        /\ Cardinality(Behind(i, s)') \in Nat /\ Cardinality(Behind(i, s)) \in Nat
    BY <2>2, <2>3, PartOf
  <2>5. history[i].analyses + Cardinality(Behind(i, s)) <= history[i].retries
    BY <2>2 DEF Paid, Opened
  <2> QED
    BY <1>0, <2>4, <2>5 DEF Lighter
<1>4. BarrenPaid(i)'
  <2> SUFFICES ASSUME Barren(i)'
               PROVE  history'[i].analyses + Cardinality(Laden(i)') <= history'[i].retries
    BY DEF BarrenPaid
  <2>1. Barren(i) /\ Laden(i)' \in SUBSET Laden(i)
    BY DEF Lighter, Laden, Runs
  <2>2. IsFiniteSet(Laden(i))
    BY Counts
  <2>3. /\ Cardinality(Laden(i)') <= Cardinality(Laden(i))
        /\ Cardinality(Laden(i)') \in Nat /\ Cardinality(Laden(i)) \in Nat
    BY <2>1, <2>2, PartOf
  <2>4. history[i].analyses + Cardinality(Laden(i)) <= history[i].retries
    BY <2>1 DEF Paid, BarrenPaid
  <2> QED
    BY <1>0, <2>3, <2>4 DEF Lighter
<1>5. history'[i].analyses <= 1 + history'[i].retries
  BY DEF Lighter, Paid
<1>6. ASSUME EachRunPaid(i), item'[i].status = "QUEUED" => item[i].status = "QUEUED"
      PROVE  EachRunPaid(i)'
  <2>1. history[i].analyses + Cardinality(Runs(i)) + Queued(i) <= 1 + history[i].retries
    BY <1>6 DEF EachRunPaid
  <2>2. Queued(i)' <= Queued(i) /\ Queued(i) \in Nat /\ Queued(i)' \in Nat
    BY <1>6 DEF Queued
  <2>3. history'[i].analyses + Cardinality(Runs(i)') + Queued(i)' <= 1 + history'[i].retries
    BY <1>0, <1>2, <2>1, <2>2 DEF Lighter
  <2> QED
    BY <2>3 DEF EachRunPaid
<1> QED
  BY <1>2, <1>3, <1>4, <1>5, <1>6

-----------------------------------------------------------------------------
(* A step of a worker                                                       *)

(* It concerns the Item in the worker's hands only.                         *)
LEMMA OwnStep ==
  ASSUME IInv, EachPaid, NEW w \in Workers, NEW i \in Items,
         wk[w].item \in {i, Nil}, OnlyTouches(w, i), Hand(w)', Paid(i)'
  PROVE  EachPaid'
<1>1. ASSUME NEW j \in Items \ {i} PROVE Paid(j)'
  <2>1. \A v \in Workers : wk[v].item = j \/ wk'[v].item = j => wk'[v] = wk[v]
    BY PipelineAssumption DEF OnlyTouches, IdleWorker
  <2>2. Kept(j)
    BY <2>1 DEF Kept, OnlyTouches
  <2> QED
    BY <2>2, KeptPaid DEF EachPaid
<1>2. ASSUME NEW v \in Workers, v # w PROVE Hand(v)'
  BY <1>2 DEF EachPaid, Hands, Hand, OnlyTouches, HasFallback
<1> QED
  BY <1>1, <1>2 DEF EachPaid, Hands

(* The worker that holds an Item alone goes on with it.                     *)
LEMMA AloneStays ==
  ASSUME NEW w \in Workers, NEW i \in Items, Alone(i), OnlyTouches(w, i),
         wk[w].item = i, wk'[w].item = i, item'[i].status = item[i].status,
         wk'[w].pc # "published",
         wk'[w].pc = "extract" => item'[i].stage = "EXTRACTING",
         wk'[w].pc = "analyze" => item'[i].stage = "ANALYZING"
  PROVE  Alone(i)'
BY DEF Alone, OnlyTouches

(* It goes on with it, or drops it.                                         *)
LEMMA AloneEnds ==
  ASSUME NEW w \in Workers, NEW i \in Items, Alone(i), OnlyTouches(w, i),
         wk[w].item = i, wk'[w].item \notin Items, item'[i].status # "PROCESSING"
  PROVE  Alone(i)'
BY DEF Alone, OnlyTouches

(* It goes on, and no further.                                              *)
LEMMA LighterStep ==
  ASSUME IInv, NEW w \in Workers, NEW i \in Items, OnlyTouches(w, i), wk[w].item = i,
         history'[i].analyses = history[i].analyses, history'[i].retries = history[i].retries,
         w \in Runs(i)' => w \in Runs(i),
         \A s \in Of(i) : source'[<<i, s>>].state = "PENDING" =>
            source[<<i, s>>].state = "PENDING" /\ (Past(w, s)' => Past(w, s)),
         Barren(i)' => Barren(i) /\ (w \in Laden(i)' => w \in Laden(i))
  PROVE  Lighter(i)
<1>1. \A v \in Workers \ {w} : wk'[v] = wk[v]
  BY DEF OnlyTouches
<1>2. \A v \in Workers : v \in Runs(i)' => v \in Runs(i)
  BY <1>1 DEF Runs
<1>3. ASSUME NEW s \in Of(i), s \in InState(i, {"PENDING"})'
      PROVE  /\ s \in InState(i, {"PENDING"})
             /\ \A v \in Workers : v \in Behind(i, s)' => v \in Behind(i, s)
  <2>1. s \in InState(i, {"PENDING"}) /\ (Past(w, s)' => Past(w, s))
    BY <1>3 DEF InState, Of
  <2>2. ASSUME NEW v \in Workers, v \in Behind(i, s)' PROVE v \in Behind(i, s)
    <3>1. v \in Runs(i) /\ Past(v, s)'
      BY <1>2, <2>2 DEF Behind
    <3>2. Past(v, s)' => Past(v, s)
      BY <1>1, <2>1 DEF Past
    <3> QED
      BY <3>1, <3>2 DEF Behind
  <2> QED
    BY <2>1, <2>2
<1>4. ASSUME NEW v \in Workers, v \in Laden(i)', Barren(i)' PROVE v \in Laden(i)
  <2>1. v = w \/ wk'[v] = wk[v]
    BY <1>1
  <2> QED
    BY <1>2, <1>4, <2>1 DEF Laden
<1> QED
  BY <1>2, <1>3, <1>4 DEF Lighter

HistoryRows == [analyses : Nat, retries : Nat, late : BOOLEAN, stale : BOOLEAN]

(* The state before the step of a worker with an Item.                      *)
LEMMA Holder ==
  ASSUME IInv, EachPaid, NEW w \in Workers, wk[w].pc # "idle"
  PROVE  \E i \in Items : /\ wk[w].item = i
                          /\ wk[w] \in WorkerRows
                          /\ item[i] \in ItemRows
                          /\ history[i] \in HistoryRows
                          /\ Paid(i) /\ Hand(w)
<1>1. wk[w].item \in Items
  BY DEF IInv, TypeOK
<1> QED
  BY <1>1 DEF IInv, TypeOK, WorkerRows, HistoryRows, EachPaid, Hands

(* A worker counts as one of the runs.                                      *)
LEMMA OneOfTheRuns ==
  ASSUME IInv, NEW i \in Items, Paid(i), NEW w \in Runs(i)
  PROVE  /\ Cardinality(Runs(i)) >= 1
         /\ EachRunPaid(i) => history[i].analyses <= history[i].retries
<1>1. Cardinality(Runs(i)) \in Nat /\ Cardinality(Runs(i)) # 0
  BY Counts, FS_EmptySet DEF Paid
<1>2. history[i].analyses \in Nat /\ history[i].retries \in Nat
  BY Counts
<1> QED
  BY <1>1, <1>2 DEF EachRunPaid, Queued

(* What a lighter step keeps, with what it must show itself.                *)
LEMMA LighterEnough ==
  ASSUME IInv, EachPaid, NEW w \in Workers, NEW i \in Items, wk[w].item = i,
         OnlyTouches(w, i), Hand(w)', Lighter(i), Owed(i)',
         item'[i].status = "QUEUED" => item[i].status = "QUEUED",
         Alone(i) => Alone(i)' \/ EachRunPaid(i)'
  PROVE  EachPaid'
<1>1. Paid(i)
  BY DEF EachPaid
<1>2. Paid(i)'
  BY <1>1, LighterPaid DEF Paid
<1> QED
  BY <1>2, OwnStep

(* What is written to one worker, one Item and its sources.                 *)
LEMMA TouchesOne ==
  ASSUME IInv, NEW w \in Workers, NEW i \in Items,
         wk' = [wk EXCEPT ![w] = wk'[w]], item' = [item EXCEPT ![i] = item'[i]],
         history' = [history EXCEPT ![i] = history'[i]], UNCHANGED tap,
         \A x \in Slots : x[1] = i \/ source'[x] = source[x],
         wk'[w].item = i \/ wk'[w] = IdleWorker
  PROVE  OnlyTouches(w, i)
<1>1. \A v \in Workers \ {w} : wk'[v] = wk[v]
  BY DEF IInv, TypeOK
<1>2. \A j \in Items \ {i} : item'[j] = item[j] /\ history'[j] = history[j]
  BY DEF IInv, TypeOK
<1>3. \A j \in Items \ {i} : SameSources(j)
  BY SlotsAreSources DEF SameSources
<1> QED
  BY <1>1, <1>2, <1>3 DEF OnlyTouches


(* The run resumes behind everything but the publication.                   *)
LEMMA AtPublishPaid ==
  ASSUME IInv, EachPaid, NEW w \in Workers, ResumeAtPublish(w) PROVE EachPaid'
<1>1. PICK i \in Items : /\ wk[w].item = i
                         /\ wk[w] \in WorkerRows
                         /\ item[i] \in ItemRows
                         /\ history[i] \in HistoryRows
                         /\ Paid(i) /\ Hand(w)
  BY Holder DEF ResumeAtPublish, At
<1>2. /\ wk[w].pc = "claimed" /\ item[i].stage = "PRIORITIZING"
      /\ wk' = [wk EXCEPT ![w] = wk'[w]] /\ wk'[w] = [wk[w] EXCEPT !.pc = "publish"]
      /\ UNCHANGED <<item, source, tap, history>>
  BY <1>1 DEF ResumeAtPublish, At, Goto, IInv, TypeOK
<1>3. wk'[w].pc = "publish" /\ wk'[w].item = i
  BY <1>1, <1>2 DEF WorkerRows
<1>4. OnlyTouches(w, i)
  BY <1>1, <1>2, <1>3, TouchesOne DEF IInv, TypeOK
<1>5. Lighter(i)
  <2>1. \A s \in Of(i) : ~Past(w, s)'
    BY <1>3 DEF Past, Of
  <2>2. w \notin Runs(i)' /\ w \notin Laden(i)'
    BY <1>3 DEF Laden, Runs
  <2>3. Barren(i)' <=> Barren(i)
    BY <1>2, SameStates DEF SameSources, Barren, HasFallback
  <2> QED
    BY <1>1, <1>2, <1>3, <1>4, <2>1, <2>2, <2>3, LighterStep
<1>6. Owed(i)'
  BY <1>1, <1>2 DEF Paid, Owed
<1>7. Alone(i) => Alone(i)'
  BY <1>1, <1>2, <1>3, <1>4, AloneStays
<1> QED
  BY <1>1, <1>2, <1>3, <1>4, <1>5, <1>6, <1>7, LighterEnough DEF Hand


(* The run resumes with content: at the analysis, or past it.               *)
LEMMA WithContentPaid ==
  ASSUME IInv, EachPaid, NEW w \in Workers, ResumeWithContent(w) PROVE EachPaid'
<1>1. PICK i \in Items : /\ wk[w].item = i
                         /\ wk[w] \in WorkerRows
                         /\ item[i] \in ItemRows
                         /\ history[i] \in HistoryRows
                         /\ Paid(i) /\ Hand(w)
  BY Holder DEF ResumeWithContent, At
<1>2. /\ wk[w].pc = "claimed" /\ Restorable(i)
      /\ item[i].stage \in {"ANALYZING", "TOPIC_CLASSIFYING"}
      /\ UNCHANGED <<source, tap, history>>
  BY <1>1 DEF ResumeWithContent, At
<1>3. /\ wk' = [wk EXCEPT ![w] = wk'[w]] /\ wk'[w].item = i
      /\ wk'[w].got = InState(i, {"READY"})
      /\ wk'[w].pc \in {"analyze", "classify", "publish"}
      /\ wk'[w].pc = "analyze" => item[i].stage = "ANALYZING"
  BY <1>1, <1>2 DEF ResumeWithContent, IInv, TypeOK, WorkerRows
<1>4. /\ item' = [item EXCEPT ![i] = item'[i]] /\ item'[i].status = item[i].status
      /\ item'[i].stage = item[i].stage \/ item'[i].stage = "PRIORITIZING"
      /\ item[i].stage = "ANALYZING" => item'[i].stage = "ANALYZING"
  BY <1>1, <1>2 DEF ResumeWithContent, SetStage, IInv, TypeOK, ItemRows
<1>5. OnlyTouches(w, i)
  BY <1>1, <1>2, <1>3, <1>4, TouchesOne DEF IInv, TypeOK
<1>6. \A s \in Of(i) : source[<<i, s>>].state # "PENDING"
  BY <1>2 DEF Restorable, InState
<1>7. /\ InState(i, {"READY"})' = InState(i, {"READY"})
      /\ InState(i, {"READY"}) # {} \/ HasFallback(i)
  BY <1>2 DEF Restorable, InState, Of
<1>8. ~Barren(i)'
  BY <1>7 DEF Barren, HasFallback
<1>9. Lighter(i)
  BY <1>1, <1>2, <1>3, <1>5, <1>6, <1>8, LighterStep DEF Runs
<1>10. Owed(i)'
  BY <1>1, <1>2, <1>4 DEF Paid, Owed
<1>11. Alone(i) => Alone(i)'
  BY <1>1, <1>3, <1>4, <1>5, AloneStays
<1>12. Hand(w)'
  BY <1>3, <1>7 DEF Hand, HasFallback
<1> QED
  BY <1>1, <1>4, <1>5, <1>9, <1>10, <1>11, <1>12, LighterEnough


(* Extraction starts over what no run before has used up.                   *)
LEMMA StartPaid ==
  ASSUME IInv, EachPaid, NEW w \in Workers, StartExtraction(w) PROVE EachPaid'
<1>1. PICK i \in Items : /\ wk[w].item = i
                         /\ wk[w] \in WorkerRows
                         /\ item[i] \in ItemRows
                         /\ history[i] \in HistoryRows
                         /\ Paid(i) /\ Hand(w)
  BY Holder DEF StartExtraction, At
<1>2. /\ wk[w].pc = "claimed" /\ item[i].stage # "PRIORITIZING"
      /\ item[i].stage = "TOPIC_CLASSIFYING" => ~Restorable(i)
      /\ wk' = [wk EXCEPT ![w] = wk'[w]] /\ item' = [item EXCEPT ![i] = item'[i]]
      /\ UNCHANGED <<source, tap, history>>
  BY <1>1 DEF StartExtraction, At, SetStage, IInv, TypeOK
<1>r. /\ wk'[w] = [wk[w] EXCEPT !.pc = "extract",
                               !.kept = (item[i].stage = "TOPIC_CLASSIFYING")]
      /\ item'[i] = [item[i] EXCEPT !.stage = "EXTRACTING"]
  BY <1>1 DEF StartExtraction, At, SetStage, IInv, TypeOK
<1>3. /\ wk'[w].pc = "extract" /\ wk'[w].item = i
      /\ wk[w].at = 0 /\ wk'[w].at = 0 /\ wk'[w].got = {}
      /\ item'[i].stage = "EXTRACTING" /\ item'[i].status = item[i].status
  BY <1>1, <1>2, <1>r DEF WorkerRows, ItemRows, Hand
<1>4. OnlyTouches(w, i)
  BY <1>1, <1>2, <1>3, TouchesOne DEF IInv, TypeOK
<1>6. w \in Runs(i)
  BY <1>1, <1>2 DEF Runs
<1>5. Lighter(i)
  <2>1. \A s \in Of(i) : ~Past(w, s)'
    BY <1>3 DEF Past, Of
  <2>2. w \notin Laden(i)'
    BY <1>3 DEF Laden
  <2>3. Barren(i)' <=> Barren(i)
    BY <1>2, SameStates DEF SameSources, Barren, HasFallback
  <2> QED
    BY <1>1, <1>2, <1>3, <1>4, <1>6, <2>1, <2>2, <2>3, LighterStep
<1>7. Owed(i)'
  <2> SUFFICES history[i].analyses <= history[i].retries
    BY <1>1, <1>2 DEF Owed
  <2>1. CASE EachRunPaid(i)
    BY <1>1, <1>6, <2>1, OneOfTheRuns
  <2>2. CASE Alone(i) /\ item[i].stage # "TOPIC_CLASSIFYING"
    BY <1>1, <1>2, <2>2 DEF Alone, Paid, Owed
  <2>3. CASE item[i].stage = "TOPIC_CLASSIFYING"
    <3>1. /\ history[i].analyses \in Nat /\ history[i].retries \in Nat
          /\ Cardinality(Laden(i)) \in Nat
          /\ \A s \in Of(i) : Cardinality(Behind(i, s)) \in Nat
      BY <1>1, Counts
    <3>2. CASE InState(i, {"PENDING"}) # {}
      <4>1. PICK s \in InState(i, {"PENDING"}) : TRUE
        BY <3>2
      <4>2. s \in Of(i)
        BY <4>1 DEF InState
      <4>3. history[i].analyses + Cardinality(Behind(i, s)) <= history[i].retries
        BY <1>1, <4>1 DEF Paid, Opened
      <4> QED
        BY <3>1, <4>2, <4>3
    <3>3. CASE InState(i, {"PENDING"}) = {}
      <4>1. \A s \in InState(i, {"READY"}) : source[<<i, s>>].saved
        BY <1>1, SlotsAreSources DEF IInv, CheckpointsAreHonest, InState
      <4>2. Barren(i)
        BY <1>2, <2>3, <3>3, <4>1 DEF Restorable, Barren
      <4>3. history[i].analyses + Cardinality(Laden(i)) <= history[i].retries
        BY <1>1, <4>2 DEF Paid, BarrenPaid
      <4> QED
        BY <3>1, <4>3
    <3> QED
      BY <3>2, <3>3
  <2> QED
    BY <1>1, <2>1, <2>2, <2>3 DEF Paid
<1>8. Alone(i) => Alone(i)'
  BY <1>1, <1>3, <1>4, AloneStays
<1> QED
  BY <1>1, <1>3, <1>4, <1>5, <1>7, <1>8, LighterEnough DEF Hand

(* A source is visited: the worker goes to the next one.                    *)
LEMMA VisitPaid ==
  ASSUME IInv, EachPaid, NEW w \in Workers, NEW i \in Items, NEW got \in SUBSET {wk[w].at},
         wk[w].item = i, wk[w].pc = "extract", <<i, wk[w].at>> \in Slots,
         NextSource(w, got), UNCHANGED <<item, tap, history>>,
         \A x \in Slots : x = <<i, wk[w].at>> \/ source'[x] = source[x],
         source'[<<i, wk[w].at>>].state # "PENDING",
         IF got = {} THEN source[<<i, wk[w].at>>].state # "READY"
                     ELSE source'[<<i, wk[w].at>>].state = "READY"
  PROVE  EachPaid'
<1>1. wk[w] \in WorkerRows /\ Paid(i) /\ Hand(w)
  BY DEF IInv, TypeOK, WorkerRows, EachPaid, Hands
<1>2. wk' = [wk EXCEPT ![w] = wk'[w]]
  BY DEF NextSource, IInv, TypeOK
<1>3. /\ wk'[w].item = i /\ wk'[w].pc = "extract"
      /\ wk'[w].at = wk[w].at + 1 /\ wk'[w].got = wk[w].got \cup got
  BY <1>1 DEF NextSource, IInv, TypeOK, WorkerRows
<1>4. OnlyTouches(w, i)
  <2>1. \A x \in Slots : x[1] = i \/ source'[x] = source[x]
    OBVIOUS
  <2> QED
    BY <1>2, <1>3, <2>1, TouchesOne DEF IInv, TypeOK
<1>5. \A s \in Of(i) : s = wk[w].at \/ source'[<<i, s>>] = source[<<i, s>>]
  BY SlotsAreSources
<1>6. ASSUME NEW s \in Of(i), source'[<<i, s>>].state = "PENDING"
      PROVE  source[<<i, s>>].state = "PENDING" /\ (Past(w, s)' => Past(w, s))
  <2>1. s # wk[w].at /\ source'[<<i, s>>] = source[<<i, s>>]
    BY <1>5, <1>6
  <2>2. s \in Nat /\ wk[w].at \in Nat
    BY <1>1, PipelineAssumption DEF Of, WorkerRows
  <2> QED
    BY <1>3, <1>6, <2>1, <2>2 DEF Past
<1>7. wk[w].at \in Of(i)
  BY SlotsAreSources
<1>8. Barren(i)' => Barren(i) /\ (w \in Laden(i)' => w \in Laden(i))
  <2> SUFFICES ASSUME Barren(i)' PROVE Barren(i) /\ (w \in Laden(i)' => w \in Laden(i))
    OBVIOUS
  <2>1. ~HasFallback(i) /\ \A s \in Of(i) : source'[<<i, s>>].state # "READY"
    BY DEF Barren, HasFallback, InState, Of
  <2>2. got = {} /\ source[<<i, wk[w].at>>].state # "READY"
    BY <1>7, <2>1
  <2>3. \A s \in Of(i) : source[<<i, s>>].state # "READY"
    BY <1>5, <2>1, <2>2
  <2>4. Barren(i)
    BY <2>1, <2>3 DEF Barren, InState
  <2>5. wk'[w].got = wk[w].got
    BY <1>3, <2>2
  <2> QED
    BY <2>4, <2>5 DEF Laden, Runs
<1>9. Lighter(i)
  BY <1>4, <1>6, <1>8, LighterStep DEF Runs
<1>10. Owed(i)'
  BY <1>1 DEF Paid, Owed
<1>11. Alone(i) => Alone(i)'
  <2>1. Alone(i) => item[i].stage = "EXTRACTING"
    BY DEF Alone
  <2> QED
    BY <1>3, <1>4, <2>1, AloneStays
<1>12. Hand(w)'
  BY <1>3 DEF Hand
<1> QED
  BY <1>4, <1>9, <1>10, <1>11, <1>12, LighterEnough

(* A failed source is passed over.                                          *)
LEMMA SkipPaid ==
  ASSUME IInv, EachPaid, NEW w \in Workers, SkipFailedSource(w) PROVE EachPaid'
<1>1. wk[w].item \in Items /\ wk[w].pc = "extract" /\ Slot(w) \in Slots
  BY DEF SkipFailedSource, Extracting, At, IInv, TypeOK
<1>2. /\ source[Slot(w)].state \in {"FAILED", "DEAD"} /\ NextSource(w, {})
      /\ UNCHANGED <<item, source, tap, history>>
  BY DEF SkipFailedSource
<1> QED
  BY <1>1, <1>2, VisitPaid DEF Slot

(* Content becomes durable.                                                 *)
LEMMA SavePaid ==
  ASSUME IInv, EachPaid, NEW w \in Workers,
         NEW holes \in {"whole", "recheck", "retryable", "lost"}, SaveSourceContent(w, holes)
  PROVE  EachPaid'
<1>1. /\ Slot(w) \in Slots /\ UNCHANGED <<item, wk, tap, history>>
      /\ source' = [source EXCEPT ![Slot(w)].saved = TRUE, ![Slot(w)].holes = holes]
  BY DEF SaveSourceContent, Extracting
<1>2. \A x \in Slots : source'[x].state = source[x].state
  BY <1>1 DEF IInv, TypeOK, SourceRows
<1>3. ASSUME NEW i \in Items PROVE Paid(i)'
  <2>1. \A states : InState(i, states)' = InState(i, states)
    BY <1>2 DEF InState, Of
  <2>2. Lighter(i)
    BY <1>1, <2>1 DEF Lighter, Runs, Behind, Past, Laden, Barren, HasFallback
  <2>3. Paid(i)
    BY DEF EachPaid
  <2>4. Owed(i)' /\ (Alone(i) => Alone(i)')
    BY <1>1, <2>3 DEF Paid, Owed, Alone
  <2> QED
    BY <1>1, <2>2, <2>3, <2>4, LighterPaid DEF Paid
<1> QED
  BY <1>1, <1>3 DEF EachPaid, Hands, Hand, HasFallback

(* A source is READY, or fails.                                             *)
LEMMA MarkPaid ==
  ASSUME IInv, EachPaid, NEW w \in Workers, MarkSourceReady(w) PROVE EachPaid'
<1>1. wk[w].item \in Items /\ wk[w].pc = "extract" /\ Slot(w) \in Slots
  BY DEF MarkSourceReady, Extracting, At, IInv, TypeOK
<1>2. /\ source' = [source EXCEPT ![Slot(w)].state = "READY"] /\ NextSource(w, {wk[w].at})
      /\ UNCHANGED <<item, tap, history>>
  BY DEF MarkSourceReady
<1>3. /\ source'[Slot(w)].state = "READY"
      /\ \A x \in Slots : x = Slot(w) \/ source'[x] = source[x]
  BY <1>1, <1>2 DEF IInv, TypeOK, SourceRows
<1> QED
  BY <1>1, <1>2, <1>3, VisitPaid DEF Slot

(* From a source that fails, for good or not, the worker goes on.           *)
LEMMA FailsPaid ==
  ASSUME IInv, EachPaid, NEW w \in Workers, NEW permanent \in BOOLEAN,
         SourceFails(w, permanent)
  PROVE  EachPaid'
<1>1. wk[w].item \in Items /\ wk[w].pc = "extract" /\ Slot(w) \in Slots
  BY DEF SourceFails, Extracting, At, IInv, TypeOK
<1>2. /\ source' = [source EXCEPT ![Slot(w)].state = IF permanent THEN "DEAD" ELSE "FAILED"]
      /\ NextSource(w, {}) /\ ~source[Slot(w)].saved
      /\ UNCHANGED <<item, tap, history>>
  BY DEF SourceFails
<1>3. /\ source'[Slot(w)].state \in {"DEAD", "FAILED"}
      /\ \A x \in Slots : x = Slot(w) \/ source'[x] = source[x]
  BY <1>1, <1>2 DEF IInv, TypeOK, SourceRows
<1>4. source[Slot(w)].state # "READY"
  BY <1>1, <1>2 DEF IInv, CheckpointsAreHonest
<1> QED
  BY <1>1, <1>2, <1>3, <1>4, VisitPaid DEF Slot


(* What is extracted goes to the analysis that is owed, or past a kept one. *)
LEMMA ComposePaid ==
  ASSUME IInv, EachPaid, NEW w \in Workers, Compose(w) PROVE EachPaid'
<1>1. PICK i \in Items : /\ wk[w].item = i
                         /\ wk[w] \in WorkerRows
                         /\ item[i] \in ItemRows
                         /\ history[i] \in HistoryRows
                         /\ Paid(i) /\ Hand(w)
  BY Holder DEF Compose, At
<1>2. /\ wk[w].pc = "extract" /\ wk[w].at = SourceCount[i]
      /\ UNCHANGED <<source, tap, history>>
  BY <1>1 DEF Compose, At
<1>3. /\ wk' = [wk EXCEPT ![w] = wk'[w]] /\ wk'[w].item = i /\ wk'[w].got = wk[w].got
      /\ wk'[w].pc \in {"failing", "analyze", "classify", "publish"}
      /\ wk'[w].pc = "analyze" => wk[w].got # {} \/ HasFallback(i)
  BY <1>1 DEF Compose, Goto, IInv, TypeOK, WorkerRows
<1>4. /\ item' = [item EXCEPT ![i] = item'[i]] /\ item'[i].status = item[i].status
      /\ \/ item'[i].stage = item[i].stage /\ wk'[w].pc # "analyze"
         \/ item'[i].stage = "ANALYZING"
         \/ item'[i].stage \in {"TOPIC_CLASSIFYING", "PRIORITIZING"} /\ wk'[w].pc # "analyze"
  BY <1>1 DEF Compose, Goto, SetStage, IInv, TypeOK, WorkerRows, ItemRows
<1>5. OnlyTouches(w, i)
  BY <1>1, <1>2, <1>3, <1>4, TouchesOne DEF IInv, TypeOK
<1>6. \A s \in Of(i) : Past(w, s)
  BY <1>1, <1>2, PipelineAssumption DEF Past, Of, Slots
<1>7. Barren(i)' <=> Barren(i)
  BY <1>2, SameStates DEF SameSources, Barren, HasFallback
<1>8. w \in Runs(i)
  BY <1>1, <1>2 DEF Runs
<1>9. w \in Laden(i)' => w \in Laden(i)
  BY <1>3, <1>8 DEF Laden
<1>10. Lighter(i)
  BY <1>1, <1>2, <1>5, <1>6, <1>7, <1>8, <1>9, LighterStep
<1>11. Owed(i)'
  <2>1. EachRunPaid(i) => history[i].analyses <= history[i].retries
    BY <1>1, <1>8, OneOfTheRuns
  <2>2. Alone(i) => item[i].stage = "EXTRACTING"
    BY <1>1, <1>2 DEF Alone
  <2> QED
    BY <1>1, <1>2, <1>4, <2>1, <2>2 DEF Paid, Owed
<1>12. Alone(i) => Alone(i)'
  BY <1>1, <1>3, <1>4, <1>5, AloneStays
<1>13. Hand(w)'
  BY <1>3 DEF Hand, HasFallback
<1> QED
  BY <1>1, <1>4, <1>5, <1>10, <1>11, <1>12, <1>13, LighterEnough

(* The analysis pays what its run owed.                                     *)
LEMMA AnalyzePaid ==
  ASSUME IInv, EachPaid, NEW w \in Workers, Analyze(w) PROVE EachPaid'
<1>1. PICK i \in Items : /\ wk[w].item = i
                         /\ wk[w] \in WorkerRows
                         /\ item[i] \in ItemRows
                         /\ history[i] \in HistoryRows
                         /\ Paid(i) /\ Hand(w)
  BY Holder DEF Analyze, At
<1>2. /\ wk[w].pc = "analyze" /\ UNCHANGED <<source, tap>>
  BY <1>1 DEF Analyze, At
<1>3. /\ wk' = [wk EXCEPT ![w] = wk'[w]] /\ wk'[w].item = i
      /\ wk'[w].pc \in {"classify", "publish"}
  BY <1>1 DEF Analyze, Goto, IInv, TypeOK, WorkerRows
<1>4. /\ item' = [item EXCEPT ![i] = item'[i]] /\ item'[i].status = item[i].status
      /\ item'[i].stage \in {"TOPIC_CLASSIFYING", "PRIORITIZING"}
  BY <1>1 DEF Analyze, IInv, TypeOK, ItemRows
<1>5. /\ history' = [history EXCEPT ![i] = history'[i]]
      /\ history'[i].analyses = history[i].analyses + 1
      /\ history'[i].retries = history[i].retries
  BY <1>1 DEF Analyze, IInv, TypeOK, HistoryRows
<1>6. OnlyTouches(w, i)
  BY <1>1, <1>2, <1>3, <1>4, <1>5, TouchesOne
<1>7. \A v \in Workers \ {w} : wk'[v] = wk[v]
  BY <1>6 DEF OnlyTouches
<1>8. w \in Runs(i) /\ Runs(i)' = Runs(i) \ {w}
  BY <1>1, <1>2, <1>3, <1>7 DEF Runs
<1>9. /\ history[i].analyses \in Nat /\ history[i].retries \in Nat
      /\ Cardinality(Runs(i)) \in Nat /\ IsFiniteSet(Runs(i))
  BY <1>1, Counts DEF Paid
<1>10. IsFiniteSet(Runs(i)') /\ Cardinality(Runs(i)') = Cardinality(Runs(i)) - 1
  BY <1>8, <1>9, FS_RemoveElement
<1>11. history[i].analyses <= history[i].retries
  <2>1. EachRunPaid(i) => history[i].analyses <= history[i].retries
    BY <1>1, <1>8, OneOfTheRuns
  <2>2. Alone(i) => item[i].stage = "ANALYZING" /\ item[i].status = "PROCESSING"
    BY <1>1, <1>2 DEF Alone
  <2> QED
    BY <1>1, <2>1, <2>2 DEF Paid, Owed
<1>12. EachRunPaid(i) => EachRunPaid(i)'
  <2>1. Queued(i)' = Queued(i) /\ Queued(i) \in Nat
    BY <1>4 DEF Queued
  <2> QED
    BY <1>5, <1>9, <1>10, <2>1 DEF EachRunPaid
<1>13. Alone(i) => Alone(i)'
  BY <1>1, <1>3, <1>4, <1>6, AloneStays
<1>14. \A states : InState(i, states)' = InState(i, states)
  BY <1>2, SameStates DEF SameSources
<1>15. Opened(i)'
  <2> SUFFICES ASSUME NEW s \in InState(i, {"PENDING"})'
               PROVE  history'[i].analyses + Cardinality(Behind(i, s)') <= history'[i].retries
    BY DEF Opened
  <2>1. s \in InState(i, {"PENDING"}) /\ s \in Of(i)
    BY <1>14 DEF InState
  <2>2. w \in Behind(i, s)
    BY <1>2, <1>8 DEF Behind, Past
  <2>3. Behind(i, s)' = Behind(i, s) \ {w}
    BY <1>7, <1>8 DEF Behind, Past, Runs
  <2>4. IsFiniteSet(Behind(i, s)) /\ Cardinality(Behind(i, s)) \in Nat
    BY <1>1, <2>1, Counts
  <2>5. Cardinality(Behind(i, s)') = Cardinality(Behind(i, s)) - 1
    BY <2>2, <2>3, <2>4, FS_RemoveElement
  <2>6. history[i].analyses + Cardinality(Behind(i, s)) <= history[i].retries
    BY <1>1, <2>1 DEF Paid, Opened
  <2> QED
    BY <1>5, <1>9, <2>4, <2>5, <2>6
<1>16. BarrenPaid(i)'
  <2> SUFFICES ASSUME Barren(i)'
               PROVE  history'[i].analyses + Cardinality(Laden(i)') <= history'[i].retries
    BY DEF BarrenPaid
  <2>1. Barren(i)
    BY <1>14 DEF Barren, HasFallback
  <2>2. w \in Laden(i)
    BY <1>1, <1>2, <1>8, <2>1 DEF Hand, Barren, Laden
  <2>3. Laden(i)' = Laden(i) \ {w}
    BY <1>7, <1>8 DEF Laden, Runs
  <2>4. IsFiniteSet(Laden(i)) /\ Cardinality(Laden(i)) \in Nat
    BY <1>1, Counts
  <2>5. Cardinality(Laden(i)') = Cardinality(Laden(i)) - 1
    BY <2>2, <2>3, <2>4, FS_RemoveElement
  <2>6. history[i].analyses + Cardinality(Laden(i)) <= history[i].retries
    BY <1>1, <2>1 DEF Paid, BarrenPaid
  <2> QED
    BY <1>5, <1>9, <2>4, <2>5, <2>6
<1>17. Owed(i)' /\ history'[i].analyses <= 1 + history'[i].retries
  BY <1>4, <1>5, <1>9, <1>11 DEF Owed
<1>18. Paid(i)'
  BY <1>1, <1>10, <1>12, <1>13, <1>15, <1>16, <1>17 DEF Paid
<1>19. Hand(w)'
  BY <1>3 DEF Hand
<1> QED
  BY <1>1, <1>6, <1>18, <1>19, OwnStep


(* The classification.                                                      *)
LEMMA ClassifyPaid ==
  ASSUME IInv, EachPaid, NEW w \in Workers, Classify(w) PROVE EachPaid'
<1>1. PICK i \in Items : /\ wk[w].item = i
                         /\ wk[w] \in WorkerRows
                         /\ item[i] \in ItemRows
                         /\ history[i] \in HistoryRows
                         /\ Paid(i) /\ Hand(w)
  BY Holder DEF Classify, At
<1>2. wk[w].pc = "classify" /\ UNCHANGED <<source, tap>>
  BY <1>1 DEF Classify, At
<1>3. /\ wk' = [wk EXCEPT ![w] = wk'[w]] /\ wk'[w].item = i /\ wk'[w].pc = "publish"
      /\ item' = [item EXCEPT ![i] = item'[i]] /\ item'[i].status = item[i].status
      /\ item'[i].stage = "PRIORITIZING"
      /\ history' = [history EXCEPT ![i] = history'[i]] /\ history'[i] = history[i]
  BY <1>1 DEF Classify, Goto, SetStage, IInv, TypeOK, WorkerRows, ItemRows
<1>4. OnlyTouches(w, i)
  BY <1>1, <1>2, <1>3, TouchesOne
<1>5. w \notin Runs(i)' /\ w \notin Laden(i)'
  BY <1>3, PipelineAssumption DEF Runs, Laden
<1>6. \A s \in Of(i) : ~Past(w, s)'
  BY <1>3 DEF Past
<1>7. Barren(i)' <=> Barren(i)
  BY <1>2, SameStates DEF SameSources, Barren, HasFallback
<1>8. Lighter(i)
  BY <1>1, <1>2, <1>3, <1>4, <1>5, <1>6, <1>7, LighterStep
<1>9. Owed(i)' /\ (Alone(i) => Alone(i)')
  BY <1>1, <1>3, <1>4, AloneStays DEF Owed
<1> QED
  BY <1>1, <1>3, <1>4, <1>8, <1>9, LighterEnough DEF Hand


(* After the publication, no run of the Item is left, or each is paid.      *)
LEMMA PublishPaid ==
  ASSUME IInv, EachPaid, NEW w \in Workers, Publish(w) PROVE EachPaid'
<1>1. PICK i \in Items : /\ wk[w].item = i
                         /\ wk[w] \in WorkerRows
                         /\ item[i] \in ItemRows
                         /\ history[i] \in HistoryRows
                         /\ Paid(i) /\ Hand(w)
  BY Holder DEF Publish, At
<1>2. wk[w].pc = "publish" /\ UNCHANGED <<source, tap>>
  BY <1>1 DEF Publish, At
<1>3. /\ wk' = [wk EXCEPT ![w] = wk'[w]] /\ wk'[w].item = i /\ wk'[w].pc = "published"
      /\ item' = [item EXCEPT ![i] = item'[i]] /\ item'[i].status = "READY"
      /\ item'[i].stage = "READY"
      /\ history' = [history EXCEPT ![i] = history'[i]] /\ history'[i] = history[i]
  BY <1>1 DEF Publish, Goto, IInv, TypeOK, WorkerRows, ItemRows
<1>4. OnlyTouches(w, i)
  BY <1>1, <1>2, <1>3, TouchesOne
<1>5. w \notin Runs(i)' /\ w \notin Laden(i)'
  BY <1>3, PipelineAssumption DEF Runs, Laden
<1>6. \A s \in Of(i) : ~Past(w, s)'
  BY <1>3 DEF Past
<1>7. Barren(i)' <=> Barren(i)
  BY <1>2, SameStates DEF SameSources, Barren, HasFallback
<1>8. Lighter(i)
  BY <1>1, <1>2, <1>3, <1>4, <1>5, <1>6, <1>7, LighterStep
<1>9. Owed(i)'
  BY <1>3 DEF Owed
<1>10. Alone(i) => EachRunPaid(i)'
  <2> SUFFICES ASSUME Alone(i) PROVE EachRunPaid(i)'
    OBVIOUS
  <2>1. Runs(i)' = {}
    BY <1>1, <1>3, <1>4 DEF Runs, Alone, OnlyTouches
  <2>2. Queued(i)' = 0 /\ Cardinality(Runs(i)') = 0
    BY <1>3, <2>1, FS_EmptySet DEF Queued
  <2>3. history[i].analyses <= 1 + history[i].retries
    BY <1>1 DEF Paid
  <2> QED
    BY <1>1, <1>3, <2>2, <2>3 DEF EachRunPaid, HistoryRows
<1> QED
  BY <1>1, <1>3, <1>4, <1>8, <1>9, <1>10, LighterEnough DEF Hand


(* The worker returns from a publication: it did not hold the Item alone.   *)
LEMMA ReturnPaid ==
  ASSUME IInv, EachPaid, NEW w \in Workers, Return(w) PROVE EachPaid'
<1>1. PICK i \in Items : /\ wk[w].item = i
                         /\ wk[w] \in WorkerRows
                         /\ item[i] \in ItemRows
                         /\ history[i] \in HistoryRows
                         /\ Paid(i) /\ Hand(w)
  BY Holder DEF Return, At
<1>2. wk[w].pc = "published" /\ UNCHANGED <<source, tap>>
  BY <1>1 DEF Return, At
<1>3. /\ wk' = [wk EXCEPT ![w] = wk'[w]] /\ wk'[w] = IdleWorker
      /\ wk'[w].pc = "idle" /\ wk'[w].item = Nil
      /\ item' = [item EXCEPT ![i] = item'[i]] /\ item'[i] = item[i]
      /\ history' = [history EXCEPT ![i] = history'[i]] /\ history'[i] = history[i]
  BY <1>1 DEF Return, IInv, TypeOK, IdleWorker
<1>4. OnlyTouches(w, i)
  BY <1>1, <1>2, <1>3, TouchesOne
<1>5. w \notin Runs(i)' /\ w \notin Laden(i)'
  BY <1>3, PipelineAssumption DEF Runs, Laden
<1>6. \A s \in Of(i) : ~Past(w, s)'
  BY <1>3 DEF Past
<1>7. Barren(i)' <=> Barren(i)
  BY <1>2, SameStates DEF SameSources, Barren, HasFallback
<1>8. Lighter(i)
  BY <1>1, <1>2, <1>3, <1>4, <1>5, <1>6, <1>7, LighterStep
<1>9. Owed(i)' /\ ~Alone(i)
  BY <1>1, <1>2, <1>3 DEF Owed, Paid, Alone
<1> QED
  BY <1>1, <1>3, <1>4, <1>8, <1>9, LighterEnough DEF Hand


(* A run that is interrupted analyses no more.                              *)
LEMMA InterruptPaid ==
  ASSUME IInv, EachPaid, NEW w \in Workers, Interrupt(w) PROVE EachPaid'
<1>1. PICK i \in Items : /\ wk[w].item = i
                         /\ wk[w] \in WorkerRows
                         /\ item[i] \in ItemRows
                         /\ history[i] \in HistoryRows
                         /\ Paid(i) /\ Hand(w)
  BY Holder DEF Interrupt, Running
<1>2. UNCHANGED <<source, tap>>
  BY <1>1 DEF Interrupt
<1>3. /\ wk' = [wk EXCEPT ![w] = wk'[w]] /\ wk'[w].item = i /\ wk'[w].pc = "failing"
      /\ item' = [item EXCEPT ![i] = item'[i]] /\ item'[i] = item[i]
      /\ history' = [history EXCEPT ![i] = history'[i]]
      /\ history'[i].analyses = history[i].analyses
      /\ history'[i].retries = history[i].retries
  BY <1>1 DEF Interrupt, Goto, IInv, TypeOK, WorkerRows, HistoryRows
<1>4. OnlyTouches(w, i)
  BY <1>1, <1>2, <1>3, TouchesOne
<1>5. w \notin Runs(i)' /\ w \notin Laden(i)'
  BY <1>3, PipelineAssumption DEF Runs, Laden
<1>6. \A s \in Of(i) : ~Past(w, s)'
  BY <1>3 DEF Past
<1>7. Barren(i)' <=> Barren(i)
  BY <1>2, SameStates DEF SameSources, Barren, HasFallback
<1>8. Lighter(i)
  BY <1>1, <1>2, <1>3, <1>4, <1>5, <1>6, <1>7, LighterStep
<1>9. Owed(i)' /\ (Alone(i) => Alone(i)')
  BY <1>1, <1>3, <1>4, AloneStays DEF Owed, Paid
<1> QED
  BY <1>1, <1>3, <1>4, <1>8, <1>9, LighterEnough DEF Hand


(* The failure ends the run.                                                *)
LEMMA MarkFailedPaid ==
  ASSUME IInv, EachPaid, NEW w \in Workers, MarkFailed(w) PROVE EachPaid'
<1>1. PICK i \in Items : /\ wk[w].item = i
                         /\ wk[w] \in WorkerRows
                         /\ item[i] \in ItemRows
                         /\ history[i] \in HistoryRows
                         /\ Paid(i) /\ Hand(w)
  BY Holder DEF MarkFailed, At
<1>2. UNCHANGED <<source, tap>>
  BY <1>1 DEF MarkFailed, At
<1>3. /\ wk' = [wk EXCEPT ![w] = wk'[w]] /\ wk'[w] = IdleWorker
      /\ wk'[w].pc = "idle" /\ wk'[w].item = Nil
      /\ item' = [item EXCEPT ![i] = item'[i]] /\ item'[i].status = "FAILED"
      /\ history' = [history EXCEPT ![i] = history'[i]] /\ history'[i] = history[i]
  BY <1>1 DEF MarkFailed, IInv, TypeOK, IdleWorker, ItemRows
<1>4. OnlyTouches(w, i)
  BY <1>1, <1>2, <1>3, TouchesOne
<1>5. w \notin Runs(i)' /\ w \notin Laden(i)'
  BY <1>3, PipelineAssumption DEF Runs, Laden
<1>6. \A s \in Of(i) : ~Past(w, s)'
  BY <1>3 DEF Past
<1>7. Barren(i)' <=> Barren(i)
  BY <1>2, SameStates DEF SameSources, Barren, HasFallback
<1>8. Lighter(i)
  BY <1>1, <1>2, <1>3, <1>4, <1>5, <1>6, <1>7, LighterStep
<1>9. Owed(i)' /\ (Alone(i) => Alone(i)')
  BY <1>1, <1>3, <1>4, AloneEnds, PipelineAssumption DEF Owed
<1> QED
  BY <1>1, <1>3, <1>4, <1>8, <1>9, LighterEnough DEF Hand

(* A claim is the run of a queued Item, in one more worker's hands.         *)
LEMMA ClaimPaid ==
  ASSUME IInv, EachPaid, NEW w \in Workers, NEW i \in Items, Claim(w, i) PROVE EachPaid'
<1>1. /\ wk[w].pc = "idle" /\ wk[w].item = Nil /\ item[i].status = "QUEUED"
      /\ item[i] \in ItemRows /\ Paid(i)
      /\ UNCHANGED <<source, tap, history>>
  BY DEF Claim, At, EachPaid, Hands, Hand, IInv, TypeOK
<1>2. /\ \A v \in Workers \ {w} : wk'[v] = wk[v]
      /\ wk'[w] = [IdleWorker EXCEPT !.pc = "claimed", !.item = i]
  BY DEF Claim, IInv, TypeOK
<1>3. wk'[w].pc = "claimed" /\ wk'[w].item = i /\ wk'[w].at = 0 /\ wk'[w].got = {}
  BY <1>2 DEF IdleWorker
<1>4. /\ \A j \in Items \ {i} : item'[j] = item[j]
      /\ item'[i].status = "PROCESSING" /\ item'[i].stage = item[i].stage
  BY <1>1 DEF Claim, IInv, TypeOK, ItemRows
<1>5. OnlyTouches(w, i)
  BY <1>1, <1>2, <1>3, <1>4 DEF OnlyTouches, SameSources
<1>6. Runs(i)' = Runs(i) \cup {w} /\ w \notin Runs(i)
  BY <1>1, <1>2, <1>3 DEF Runs
<1>7. /\ history[i].analyses \in Nat /\ history[i].retries \in Nat
      /\ Cardinality(Runs(i)) \in Nat /\ IsFiniteSet(Runs(i))
  BY <1>1, Counts DEF Paid
<1>8. IsFiniteSet(Runs(i)') /\ Cardinality(Runs(i)') = Cardinality(Runs(i)) + 1
  BY <1>6, <1>7, FS_AddElement
<1>9. EachRunPaid(i) => EachRunPaid(i)'
  <2>1. Queued(i) = 1 /\ Queued(i)' = 0
    BY <1>1, <1>4 DEF Queued
  <2> QED
    BY <1>1, <1>7, <1>8, <2>1 DEF EachRunPaid
<1>10. Alone(i) => Alone(i)'
  <2> SUFFICES ASSUME Alone(i) PROVE Alone(i)'
    OBVIOUS
  <2>1. \A v \in Workers : wk[v].item # i
    BY <1>1 DEF Alone
  <2>2. \A v \in Workers : wk'[v].item = i <=> v = w
    BY <1>2, <1>3, <2>1
  <2> QED
    BY <1>3, <1>4, <2>2 DEF Alone
<1>11. \A states : InState(i, states)' = InState(i, states)
  BY <1>1, SameStates DEF SameSources
<1>12. Opened(i)'
  <2>1. ASSUME NEW s \in Of(i) PROVE Behind(i, s)' = Behind(i, s)
    <3>1. ~Past(w, s)'
      BY <1>3 DEF Past
    <3> QED
      BY <1>2, <1>6, <3>1 DEF Behind, Past, Runs
  <2>2. InState(i, {"PENDING"})' = InState(i, {"PENDING"})
    BY <1>11
  <2>3. InState(i, {"PENDING"}) \subseteq Of(i)
    BY DEF InState
  <2> QED
    BY <1>1, <2>1, <2>2, <2>3 DEF Opened, Paid
<1>13. BarrenPaid(i)'
  <2>1. Laden(i)' = Laden(i)
    <3>1. wk'[w].got = {}
      BY <1>3
    <3>2. \A v \in Runs(i) : v \in Workers \ {w}
      BY <1>6 DEF Runs
    <3>3. \A v \in Runs(i) : wk'[v].got = wk[v].got
      BY <1>2, <3>2
    <3>4. Laden(i)' \subseteq Laden(i)
      BY <1>6, <3>1, <3>3 DEF Laden
    <3>5. Laden(i) \subseteq Laden(i)'
      BY <1>6, <3>3 DEF Laden
    <3> QED
      BY <3>4, <3>5
  <2> QED
    BY <1>1, <1>11, <2>1 DEF BarrenPaid, Barren, HasFallback, Paid
<1>14. Owed(i)' /\ history'[i].analyses <= 1 + history'[i].retries
  BY <1>1, <1>4 DEF Owed, Paid
<1>15. Paid(i)'
  BY <1>1, <1>8, <1>9, <1>10, <1>12, <1>13, <1>14 DEF Paid
<1> QED
  BY <1>1, <1>3, <1>5, <1>15, OwnStep DEF Hand

-----------------------------------------------------------------------------
(* The steps of the user, and a restart                                     *)

(* An Item is born in nobody's hands; a file may be refused.                *)
LEMMA BirthPaid ==
  ASSUME IInv, EachPaid, NEW i \in Items, item[i].status = "NONE",
         item' = [item EXCEPT ![i] = item'[i]],
         item'[i].stage = item[i].stage, item'[i].status \in {"QUEUED", "FAILED"},
         \A x \in Slots : \/ source'[x] = source[x]
                          \/ x[1] = i /\ source'[x].state \notin {"PENDING", "READY"},
         UNCHANGED <<wk, tap, history>>
  PROVE  EachPaid'
<1>1. /\ item[i] \in ItemRows /\ Paid(i)
      /\ \A s \in Of(i) : source[<<i, s>>].state = "PENDING"
  BY DEF IInv, TypeOK, EachPaid, Untouched
<1>2. \A v \in Workers : wk[v].item # i
  <2> SUFFICES ASSUME NEW v \in Workers PROVE wk[v].item # i
    OBVIOUS
  <2>1. wk[v].pc = "idle" => wk[v].item = Nil
    BY DEF EachPaid, Hands, Hand
  <2>2. wk[v].pc # "idle" => wk[v].item # i
    BY DEF IInv, Untouched
  <2> QED
    BY <2>1, <2>2, PipelineAssumption
<1>3. ASSUME NEW j \in Items \ {i} PROVE Paid(j)'
  <2>1. SameSources(j)
    BY SlotsAreSources DEF SameSources
  <2>2. Kept(j)
    BY <2>1 DEF Kept, IInv, TypeOK
  <2> QED
    BY <2>2, KeptPaid DEF EachPaid
<1>4. ASSUME NEW s \in Of(i), source'[<<i, s>>].state \in {"PENDING", "READY"}
      PROVE  source'[<<i, s>>] = source[<<i, s>>]
  BY <1>4, SlotsAreSources
<1>5. Lighter(i)
  <2>1. \A s \in Of(i) : s \in InState(i, {"PENDING"})' => s \in InState(i, {"PENDING"})
    BY <1>1, <1>4 DEF InState, Of
  <2>2. Barren(i)' => Barren(i)
    BY <1>1 DEF Barren, HasFallback, InState, Of
  <2> QED
    BY <2>1, <2>2 DEF Lighter, Runs, Behind, Past, Laden
<1>6. Owed(i)'
  BY <1>1 DEF Paid, Owed
<1>7. Alone(i)'
  BY <1>2 DEF Alone
<1>8. Paid(i)'
  BY <1>1, <1>5, <1>6, <1>7, LighterPaid DEF Paid
<1> QED
  BY <1>3, <1>8 DEF EachPaid, Hands, Hand, HasFallback

(* A new Item has bought nothing.                                           *)
LEMMA IngestPaid ==
  ASSUME IInv, EachPaid, NEW i \in Items, Ingest(i) \/ IngestRejectedMedia(i)
  PROVE  EachPaid'
<1>1. item[i].status = "NONE" /\ item[i] \in ItemRows /\ UNCHANGED <<wk, tap, history>>
  BY DEF Ingest, IngestRejectedMedia, IInv, TypeOK
<1>2. /\ item' = [item EXCEPT ![i] = item'[i]]
      /\ item'[i].stage = item[i].stage /\ item'[i].status \in {"QUEUED", "FAILED"}
  BY <1>1 DEF Ingest, IngestRejectedMedia, IInv, TypeOK, ItemRows
<1>3. \A x \in Slots : \/ source'[x] = source[x]
                       \/ x[1] = i /\ source'[x].state \notin {"PENDING", "READY"}
  <2>1. ASSUME IngestRejectedMedia(i), NEW x \in Slots
        PROVE  source'[x] = source[x] \/ (x[1] = i /\ source'[x].state = "DEAD")
    <3>1. source' = [source EXCEPT ![<<i, 0>>] = [source[<<i, 0>>] EXCEPT !.state = "DEAD"]]
      BY <2>1 DEF IngestRejectedMedia
    <3>2. /\ <<i, 0>> \in Slots /\ source[<<i, 0>>] \in SourceRows
          /\ source \in [Slots -> SourceRows]
      BY <2>1 DEF IngestRejectedMedia, IInv, TypeOK
    <3>3. x = <<i, 0>> => x[1] = i /\ source'[x].state = "DEAD"
      BY <3>1, <3>2 DEF SourceRows
    <3> QED
      BY <3>1, <3>2, <3>3
  <2>2. Ingest(i) => UNCHANGED source
    BY DEF Ingest
  <2> QED
    BY <2>1, <2>2
<1> QED
  BY <1>1, <1>2, <1>3, BirthPaid

(* A Retry allows for one more analysis: no run was under way, or each paid.*)
LEMMA RetryPaid == ASSUME IInv, EachPaid, RetryWon PROVE EachPaid'
<1>1. PICK i \in Items : i = tap.item /\ item[i].status \in {"READY", "FAILED"}
  BY RetriedItem
<1>2. item[i] \in ItemRows /\ history[i] \in HistoryRows /\ Paid(i) /\ UNCHANGED wk
  BY DEF RetryWon, IInv, TypeOK, EachPaid, HistoryRows
<1>3. /\ \A j \in Items \ {i} : item'[j] = item[j] /\ history'[j] = history[j]
      /\ item'[i].status = "QUEUED"
  BY <1>1, <1>2 DEF RetryWon, IInv, TypeOK, ItemRows
<1>4. /\ history'[i].analyses = history[i].analyses
      /\ history'[i].retries = history[i].retries + 1
  BY <1>1, <1>2 DEF RetryWon, IInv, TypeOK, HistoryRows
<1>5. ASSUME NEW j \in Items \ {i} PROVE Paid(j)'
  <2>1. \A s \in Of(j) : <<j, s>> \notin RetryReopens
    BY <1>1 DEF RetryReopens
  <2>2. SameSources(j)
    BY <2>1, SlotsAreSources DEF SameSources, RetryWon
  <2>3. Kept(j)
    BY <1>2, <1>3, <2>2 DEF Kept
  <2> QED
    BY <2>3, KeptPaid DEF EachPaid
<1>6. /\ history[i].analyses \in Nat /\ history[i].retries \in Nat
      /\ Cardinality(Runs(i)) \in Nat /\ IsFiniteSet(Runs(i)) /\ Runs(i)' = Runs(i)
  BY <1>2, Counts DEF Paid, Runs
<1>7. history[i].analyses + Cardinality(Runs(i)) <= 1 + history[i].retries
  <2>1. CASE EachRunPaid(i)
    BY <1>6, <2>1 DEF EachRunPaid, Queued
  <2>2. CASE Alone(i)
    <3>1. Runs(i) = {}
      BY <1>1, <2>2 DEF Alone, Runs
    <3>2. Cardinality(Runs(i)) = 0
      BY <3>1, FS_EmptySet
    <3> QED
      BY <1>2, <1>6, <3>2 DEF Paid
  <2> QED
    BY <1>2, <2>1, <2>2 DEF Paid
<1>8. Alone(i)' \/ EachRunPaid(i)'
  <2>1. CASE EachRunPaid(i)
    <3>1. Queued(i) = 0 /\ Queued(i)' = 1
      BY <1>1, <1>3 DEF Queued
    <3> QED
      BY <1>4, <1>6, <1>7, <3>1 DEF EachRunPaid
  <2>2. CASE Alone(i)
    BY <1>1, <1>2, <1>3, <2>2 DEF Alone
  <2> QED
    BY <1>2, <2>1, <2>2 DEF Paid
<1>9. Opened(i)'
  <2> SUFFICES ASSUME NEW s \in Of(i)
               PROVE  history'[i].analyses + Cardinality(Behind(i, s)') <= history'[i].retries
    BY DEF Opened, InState, Of
  <2>1. Behind(i, s)' = Behind(i, s)
    BY <1>2 DEF Behind, Past, Runs
  <2>2. Cardinality(Behind(i, s)) \in Nat /\ Cardinality(Behind(i, s)) <= Cardinality(Runs(i))
    BY <1>2, Counts
  <2> QED
    BY <1>4, <1>6, <1>7, <2>1, <2>2
<1>10. BarrenPaid(i)'
  <2>1. Laden(i)' = Laden(i)
    BY <1>2 DEF Laden, Runs
  <2>2. Cardinality(Laden(i)) \in Nat /\ Cardinality(Laden(i)) <= Cardinality(Runs(i))
    BY <1>2, Counts
  <2> QED
    BY <1>4, <1>6, <1>7, <2>1, <2>2 DEF BarrenPaid
<1>11. Owed(i)' /\ history'[i].analyses <= 1 + history'[i].retries
  BY <1>2, <1>4, <1>6 DEF Owed, Paid
<1>12. Paid(i)'
  BY <1>6, <1>8, <1>9, <1>10, <1>11 DEF Paid
<1> QED
  BY <1>2, <1>5, <1>12 DEF EachPaid, Hands, Hand, HasFallback

(* No run outlives the process.                                             *)
LEMMA CrashPaid == ASSUME IInv, EachPaid, CrashRestart PROVE EachPaid'
<1>1. UNCHANGED <<source, history>> /\ \A w \in Workers : wk'[w] = IdleWorker
  BY DEF CrashRestart
<1>2. ASSUME NEW i \in Items PROVE Paid(i)'
  <2>1. /\ item'[i].status # "PROCESSING" /\ item'[i].stage = item[i].stage
        /\ item'[i].status \in {item[i].status, "QUEUED"}
        /\ item'[i].status = item[i].status \/ item[i].status = "PROCESSING"
    BY DEF CrashRestart, Requeued, IInv, TypeOK, ItemRows
  <2>2. Paid(i)
    BY DEF EachPaid
  <2>3. \A w \in Workers : wk'[w].item # i
    BY <1>1, PipelineAssumption DEF IdleWorker
  <2>4. Alone(i)'
    BY <2>1, <2>3 DEF Alone
  <2>5. Owed(i)'
    BY <1>1, <2>1, <2>2 DEF Owed, Paid
  <2>6. Lighter(i)
    <3>1. \A states : InState(i, states)' = InState(i, states)
      BY <1>1, SameStates DEF SameSources
    <3> QED
      BY <1>1, <2>3, <3>1 DEF Lighter, Runs, Behind, Laden, Barren, HasFallback
  <2> QED
    BY <2>2, <2>4, <2>5, <2>6, LighterPaid DEF Paid
<1> QED
  BY <1>1, <1>2 DEF EachPaid, Hands, Hand, IdleWorker

(* Reading, losing and stuttering touch nothing of it.                      *)
LEMMA RestPaid ==
  ASSUME EachPaid, UNCHANGED <<item, source, wk, history>> PROVE EachPaid'
<1>1. \A i \in Items : Kept(i)
  BY DEF Kept, SameSources
<1> QED
  BY <1>1, KeptPaid DEF EachPaid, Hands, Hand, HasFallback

(* Whoever takes the step.                                                  *)
LEMMA NextPaid == ASSUME IInv, EachPaid, [Next]_vars PROVE EachPaid'
<1>1. CASE User
  <2>1. ASSUME NEW i \in Items, RetryRead(i) PROVE EachPaid'
    BY <2>1, RestPaid DEF RetryRead
  <2>2. ASSUME RetryLost PROVE EachPaid'
    BY <2>2, RestPaid DEF RetryLost
  <2> QED
    BY <1>1, <2>1, <2>2, IngestPaid, RetryPaid DEF User
<1>2. ASSUME NEW w \in Workers, Work(w) PROVE EachPaid'
  <2>1. ASSUME NEW i \in Items, Claim(w, i) PROVE EachPaid'
    BY <2>1, ClaimPaid
  <2>2. ASSUME Extract(w) PROVE EachPaid'
    BY <2>2, SkipPaid, SavePaid, MarkPaid, FailsPaid, ComposePaid DEF Extract
  <2>3. ASSUME Advance(w) PROVE EachPaid'
    BY <2>2, <2>3, AtPublishPaid, WithContentPaid, StartPaid, AnalyzePaid, ClassifyPaid
       DEF Advance
  <2> QED
    BY <1>2, <2>1, <2>3, PublishPaid, ReturnPaid, MarkFailedPaid DEF Work
<1>3. ASSUME NEW w \in Workers, Interrupt(w) PROVE EachPaid'
  BY <1>3, InterruptPaid
<1>4. CASE UNCHANGED vars
  BY <1>4, RestPaid DEF vars
<1> QED
  BY <1>1, <1>2, <1>3, <1>4, CrashPaid DEF Next

(* No Item has a run at first.                                              *)
LEMMA InitPaid == Init => EachPaid
<1> SUFFICES ASSUME Init PROVE EachPaid
  OBVIOUS
<1>1. \A w \in Workers : wk[w].pc = "idle" /\ wk[w].item = Nil
  BY DEF Init, IdleWorker
<1>2. ASSUME NEW i \in Items PROVE Paid(i)
  <2>1. \A w \in Workers : wk[w].item # i
    BY <1>1, PipelineAssumption
  <2>2. /\ Runs(i) = {} /\ Laden(i) = {}
        /\ \A s : Behind(i, s) = {}
    BY <2>1 DEF Runs, Laden, Behind
  <2>3. /\ item[i].status = "NONE"
        /\ history[i].analyses = 0 /\ history[i].retries = 0
    BY DEF Init
  <2>4. Alone(i)
    BY <2>1, <2>3 DEF Alone
  <2>5. Cardinality({}) = 0 /\ IsFiniteSet({})
    BY FS_EmptySet
  <2>6. Owed(i) /\ Opened(i) /\ BarrenPaid(i)
    BY <2>2, <2>3, <2>5 DEF Owed, Opened, BarrenPaid
  <2> QED
    BY <2>2, <2>3, <2>4, <2>5, <2>6 DEF Paid
<1> QED
  BY <1>1, <1>2 DEF EachPaid, Hands, Hand

(* The primary analysis is paid for once, and once more per Retry, whatever *)
(* fails, hangs or dies - also where a deadline struck a durable READY.     *)
THEOREM PaidOnce == Spec => []AnalysisPaidOnce
<1>1. Init => EachPaid
  BY InitPaid
<1>2. IInv /\ EachPaid /\ [Next]_vars => EachPaid'
  BY NextPaid
<1>3. EachPaid => AnalysisPaidOnce
  BY DEF EachPaid, Paid, AnalysisPaidOnce
<1> QED
  BY <1>1, <1>2, <1>3, Invariance, PTL DEF Spec

-----------------------------------------------------------------------------
(* What a step may do to the outcome of an extraction                      *)

Durable(x) ==
    /\ source[x].state = "DEAD" => source'[x].state = "DEAD"
    /\ source[x].state = "READY" /\ x \notin Posts => source'[x] = source[x]

(* Marking what is marked changes nothing.                                  *)
LEMMA MarkedAgain ==
  ASSUME NEW r \in SourceRows, r.state = "READY"
  PROVE  [r EXCEPT !.state = "READY"] = r
BY DEF SourceRows

(* The steps of the user.                                                   *)
LEMMA UserDurable == ASSUME IInv, User, NEW x \in Slots PROVE Durable(x)
<1>1. CASE UNCHANGED source
  BY <1>1 DEF Durable
<1>2. ASSUME NEW i \in Items, IngestRejectedMedia(i) PROVE Durable(x)
  <2>1. /\ item[i].status = "NONE" /\ <<i, 0>> \in Slots
        /\ source' = [source EXCEPT ![<<i, 0>>].state = "DEAD"]
    BY <1>2 DEF IngestRejectedMedia
  <2>2. source[<<i, 0>>].state = "PENDING"
    BY <2>1, Fresh, SlotsAreSources
  <2> QED
    BY <2>1, <2>2 DEF Durable, IInv, TypeOK
<1>3. ASSUME RetryWon PROVE Durable(x)
  <2>1. tap.item \in Items /\ tap # NoTap
    BY <1>3, RetriedItem DEF RetryWon
  <2>2. source'[x] = IF x \in RetryReopens THEN Reopened(x) ELSE source[x]
    BY <1>3 DEF RetryWon
  <2>3. ASSUME x \in RetryReopens
        PROVE  source[x].state = "FAILED" \/ (source[x].state = "READY" /\ x \in Posts)
    <3>1. PICK s \in tap.sources \cup tap.posts : x = <<tap.item, s>>
      BY <2>3 DEF RetryReopens
    <3> QED
      BY <2>1, <3>1 DEF IInv, TapIsCurrent, InState
  <2> QED
    BY <2>2, <2>3 DEF Durable
<1>4. ASSUME NEW i \in Items, Ingest(i) \/ RetryRead(i) PROVE UNCHANGED source
  BY <1>4 DEF Ingest, RetryRead
<1>5. ASSUME RetryLost PROVE UNCHANGED source
  BY <1>5 DEF RetryLost
<1> QED
  BY <1>1, <1>2, <1>3, <1>4, <1>5 DEF User

(* The steps of an extraction.                                              *)
LEMMA ExtractDurable ==
  ASSUME IInv, NEW w \in Workers, Extract(w), NEW x \in Slots
  PROVE  Durable(x)
<1>1. CASE UNCHANGED source
  BY <1>1 DEF Durable
<1>2. ASSUME Slot(w) \in Slots, ~source[Slot(w)].saved,
             source[Slot(w)].state \in {"PENDING", "READY"},
             \A y \in Slots : y = Slot(w) \/ source'[y] = source[y]
      PROVE  Durable(x)
  <2>1. source[Slot(w)].state = "PENDING"
    BY <1>2 DEF IInv, CheckpointsAreHonest
  <2> QED
    BY <1>2, <2>1 DEF Durable
<1>3. ASSUME NEW holes \in {"whole", "recheck", "retryable", "lost"},
         SaveSourceContent(w, holes)
      PROVE  Durable(x)
  BY <1>2, <1>3 DEF SaveSourceContent, Extracting, IInv, TypeOK
<1>4. ASSUME NEW permanent \in BOOLEAN, SourceFails(w, permanent) PROVE Durable(x)
  BY <1>2, <1>4 DEF SourceFails, Extracting, IInv, TypeOK
<1>5. ASSUME MarkSourceReady(w) PROVE Durable(x)
  <2>1. /\ Slot(w) \in Slots /\ source[Slot(w)].state \in {"PENDING", "READY"}
        /\ source' = [source EXCEPT ![Slot(w)] = [source[Slot(w)] EXCEPT !.state = "READY"]]
    BY <1>5 DEF MarkSourceReady, Extracting
  <2>2. source[Slot(w)] \in SourceRows
    BY <2>1 DEF IInv, TypeOK
  <2>3. source[Slot(w)].state = "READY" =>
           [source[Slot(w)] EXCEPT !.state = "READY"] = source[Slot(w)]
    BY <2>2, MarkedAgain
  <2> QED
    BY <2>1, <2>3 DEF Durable, IInv, TypeOK
<1>6. ASSUME SkipFailedSource(w) \/ Compose(w) PROVE UNCHANGED source
  BY <1>6 DEF SkipFailedSource, Compose
<1> QED
  BY <1>1, <1>3, <1>4, <1>5, <1>6 DEF Extract

(* A permanent failure is never tried again, and the content of a READY     *)
(* source that is no post is never fetched again.                           *)
THEOREM DurableOutcomes == Spec => OutcomesAreDurable
<1>1. ASSUME IInv, [Next]_vars, NEW x \in Slots PROVE Durable(x)
  <2>1. CASE UNCHANGED source
    BY <2>1 DEF Durable
  <2>2. ASSUME NEW w \in Workers, Work(w) \/ Interrupt(w)
        PROVE  UNCHANGED source \/ Extract(w)
    <3>1. ASSUME NEW i \in Items, Claim(w, i) PROVE UNCHANGED source
      BY <3>1 DEF Claim
    <3>2. ASSUME Advance(w) PROVE UNCHANGED source \/ Extract(w)
      BY <3>2
         DEF Advance, ResumeAtPublish, ResumeWithContent, StartExtraction, Analyze,
             Classify
    <3> QED
      BY <2>2, <3>1, <3>2 DEF Work, Publish, Return, MarkFailed, Interrupt
  <2>3. ASSUME CrashRestart \/ UNCHANGED vars PROVE UNCHANGED source
    BY <2>3 DEF CrashRestart, vars
  <2> QED
    BY <1>1, <2>1, <2>2, <2>3, UserDurable, ExtractDurable DEF Next
<1>2. ASSUME IInv, [Next]_vars
      PROVE  [\A x \in Slots :
                /\ source[x].state = "DEAD" => source'[x].state = "DEAD"
                /\ source[x].state = "READY" /\ x \notin Posts => source'[x] = source[x]]_vars
  BY <1>1, <1>2 DEF Durable
<1> QED
  BY <1>2, Invariance, PTL DEF Spec, OutcomesAreDurable

-----------------------------------------------------------------------------
(* The sources, one by one: what a step does to a row, in the terms of      *)
(* OneSource.  A source that failed has no content, nor has one of an Item  *)
(* that is not there yet, and a post that the Retry handler means to reopen *)
(* has something left to fetch.                                             *)
Unfilled(x) == source[x].state \in {"FAILED", "DEAD"} \/ item[x[1]].status = "NONE"
                => ~source[x].saved

MoreToHave ==
    tap # NoTap => \A s \in tap.posts : source[<<tap.item, s>>].holes \in {"recheck", "retryable"}

SourcesInv == IInv /\ (\A x \in Slots : Unfilled(x)) /\ MoreToHave

Stays(x) == source'[x] = source[x]
Saved(x) == /\ source[x].state = "PENDING" /\ ~source[x].saved /\ item[x[1]].status # "NONE"
            /\ source'[x].state = "PENDING" /\ source'[x].saved
Marked(x) == /\ source[x].state = "PENDING" /\ source[x].saved
             /\ source'[x] = [source[x] EXCEPT !.state = "READY"]
Failed(x) == /\ source[x].state = "PENDING" /\ ~source[x].saved
             /\ source'[x].state \in {"FAILED", "DEAD"} /\ ~source'[x].saved
OpenedAgain(x) == /\ \/ source[x].state = "FAILED"
                     \/ /\ source[x].state = "READY" /\ source[x].saved
                        /\ source[x].holes \in {"recheck", "retryable"}
                  /\ source'[x].state = "PENDING" /\ ~source'[x].saved
                  /\ tap' = NoTap

Move(x) == Stays(x) \/ Saved(x) \/ Marked(x) \/ Failed(x) \/ OpenedAgain(x)

(* An Item that is there is not lost again.                                 *)
LEMMA StaysThere ==
  ASSUME IInv, [Next]_vars, NEW i \in Items, item[i].status # "NONE"
  PROVE  item'[i].status # "NONE"
<1>1. item \in [Items -> ItemRows]
  BY DEF IInv, TypeOK
<1>2. ASSUME NEW j \in Items, Ingest(j) \/ IngestRejectedMedia(j) PROVE item'[i].status # "NONE"
  BY <1>1, <1>2 DEF Ingest, IngestRejectedMedia, ItemRows
<1>3. ASSUME RetryWon PROVE item'[i].status # "NONE"
  BY <1>1, <1>3 DEF RetryWon, ItemRows
<1>4. ASSUME RetryLost \/ \E j \in Items : RetryRead(j) PROVE item' = item
  BY <1>4 DEF RetryLost, RetryRead
<1>5. ASSUME CrashRestart PROVE item'[i].status # "NONE"
  BY <1>1, <1>5 DEF CrashRestart, Requeued, ItemRows
<1>6. ASSUME NEW w \in Workers, NEW j \in Items, Claim(w, j) PROVE item'[i].status # "NONE"
  BY <1>1, <1>6 DEF Claim, ItemRows
<1>7. ASSUME NEW w \in Workers, Extract(w) PROVE item'[i].status = item[i].status
  BY <1>1, <1>7 DEF Extract, SkipFailedSource, SaveSourceContent, MarkSourceReady, SourceFails,
                    Compose, SetStage, ItemRows
<1>8. ASSUME NEW w \in Workers,
             ResumeAtPublish(w) \/ ResumeWithContent(w) \/ StartExtraction(w) \/ Analyze(w)
                \/ Classify(w)
      PROVE  item'[i].status = item[i].status
  BY <1>1, <1>8 DEF ResumeAtPublish, ResumeWithContent, StartExtraction, Analyze, Classify,
                    SetStage, ItemRows
<1>9. ASSUME NEW w \in Workers, Publish(w) \/ MarkFailed(w) PROVE item'[i].status # "NONE"
  BY <1>1, <1>9 DEF Publish, MarkFailed, ItemRows
<1>10. ASSUME NEW w \in Workers, Return(w) \/ Interrupt(w) PROVE item' = item
  BY <1>10 DEF Return, Interrupt
<1>11. ASSUME UNCHANGED vars PROVE item' = item
  BY <1>11 DEF vars
<1> QED
  BY <1>2, <1>3, <1>4, <1>5, <1>6, <1>7, <1>8, <1>9, <1>10, <1>11 DEF Next, User, Work, Advance

LEMMA SourceMoves ==
  ASSUME SourcesInv, [Next]_vars, NEW x \in Slots
  PROVE  Move(x)
<1>0. IInv /\ source \in [Slots -> SourceRows] /\ Unfilled(x)
      /\ (source[x].state = "READY" => source[x].saved)
  BY DEF SourcesInv, IInv, TypeOK, CheckpointsAreHonest
<1>1. CASE UNCHANGED source
  BY <1>1 DEF Move, Stays
<1>2. ASSUME NEW i \in Items, IngestRejectedMedia(i) PROVE Move(x)
  <2>1. /\ item[i].status = "NONE" /\ <<i, 0>> \in Slots
        /\ source' = [source EXCEPT ![<<i, 0>>].state = "DEAD"]
    BY <1>2 DEF IngestRejectedMedia
  <2>2. source[<<i, 0>>].state = "PENDING"
    BY <1>0, <2>1, Fresh, SlotsAreSources
  <2>3. ~source[<<i, 0>>].saved
    BY <2>1 DEF SourcesInv, Unfilled
  <2> QED
    BY <1>0, <2>1, <2>2, <2>3 DEF Move, Stays, Failed, SourceRows
<1>3. ASSUME RetryWon PROVE Move(x)
  <2>1. tap.item \in Items /\ tap # NoTap /\ tap' = NoTap
    BY <1>0, <1>3, RetriedItem DEF RetryWon
  <2>2. source'[x] = IF x \in RetryReopens THEN Reopened(x) ELSE source[x]
    BY <1>3 DEF RetryWon
  <2>3. ASSUME x \in RetryReopens PROVE OpenedAgain(x)
    <3>1. PICK s \in tap.sources \cup tap.posts : x = <<tap.item, s>>
      BY <2>3 DEF RetryReopens
    <3>2. source[x] \in SourceRows /\ source'[x] = Reopened(x)
      BY <1>0, <2>2, <2>3
    <3>3. CASE s \in tap.sources
      <4>1. source[x].state = "FAILED" /\ ~source[x].saved
        BY <1>0, <2>1, <3>1, <3>3 DEF IInv, TapIsCurrent, InState, Unfilled
      <4> QED
        BY <2>1, <3>2, <4>1 DEF OpenedAgain, Reopened, SourceRows
    <3>4. CASE s \in tap.posts
      <4>1. source[x].state = "READY" /\ x \in Posts
        BY <1>0, <2>1, <3>1, <3>4 DEF IInv, TapIsCurrent, InState
      <4>2. source[x].holes \in {"recheck", "retryable"}
        BY <2>1, <3>1, <3>4 DEF SourcesInv, MoreToHave
      <4> QED
        BY <1>0, <2>1, <3>2, <4>1, <4>2 DEF OpenedAgain, Reopened, SourceRows
    <3> QED
      BY <3>3, <3>4
  <2> QED
    BY <2>2, <2>3 DEF Move, Stays
<1>4. ASSUME NEW w \in Workers, Extract(w) PROVE Move(x)
  <2>1. ASSUME NEW holes \in {"whole", "recheck", "retryable", "lost"},
               SaveSourceContent(w, holes)
        PROVE  Move(x)
    <3>1. /\ Slot(w) \in Slots /\ source[Slot(w)].state \in {"PENDING", "READY"}
          /\ ~source[Slot(w)].saved /\ At(w, "extract")
          /\ source' = [source EXCEPT ![Slot(w)].saved = TRUE, ![Slot(w)].holes = holes]
      BY <2>1 DEF SaveSourceContent, Extracting
    <3>2. source[Slot(w)].state = "PENDING" /\ source[Slot(w)] \in SourceRows
      BY <1>0, <3>1 DEF IInv, CheckpointsAreHonest
    <3>3. wk[w].item \in Items /\ item[wk[w].item].status # "NONE" /\ Slot(w)[1] = wk[w].item
      BY <1>0, <3>1 DEF IInv, TypeOK, Untouched, At, Slot
    <3>4. Stays(x) \/ Saved(x)
      <4>1. CASE x = Slot(w)
        <5>1. source'[x].state = "PENDING" /\ source'[x].saved
          BY <1>0, <3>1, <3>2, <4>1 DEF SourceRows
        <5> QED
          BY <3>1, <3>2, <3>3, <4>1, <5>1 DEF Saved
      <4>2. CASE x # Slot(w)
        BY <1>0, <3>1, <4>2 DEF Stays
      <4> QED
        BY <4>1, <4>2
    <3> QED
      BY <3>4 DEF Move
  <2>2. ASSUME NEW permanent \in BOOLEAN, SourceFails(w, permanent) PROVE Move(x)
    <3>1. /\ Slot(w) \in Slots /\ source[Slot(w)].state \in {"PENDING", "READY"}
          /\ ~source[Slot(w)].saved
          /\ source' = [source EXCEPT ![Slot(w)].state = IF permanent THEN "DEAD" ELSE "FAILED"]
      BY <2>2 DEF SourceFails, Extracting
    <3>2. source[Slot(w)].state = "PENDING" /\ source[Slot(w)] \in SourceRows
      BY <1>0, <3>1 DEF IInv, CheckpointsAreHonest
    <3> QED
      BY <1>0, <3>1, <3>2 DEF Move, Stays, Failed, SourceRows
  <2>3. ASSUME MarkSourceReady(w) PROVE Move(x)
    <3>1. /\ Slot(w) \in Slots /\ source[Slot(w)].state \in {"PENDING", "READY"}
          /\ source[Slot(w)].saved
          /\ source' = [source EXCEPT ![Slot(w)] = [source[Slot(w)] EXCEPT !.state = "READY"]]
      BY <2>3 DEF MarkSourceReady, Extracting
    <3>2. source[Slot(w)] \in SourceRows
      BY <1>0, <3>1
    <3>3. source[Slot(w)].state = "READY" =>
             [source[Slot(w)] EXCEPT !.state = "READY"] = source[Slot(w)]
      BY <3>2, MarkedAgain
    <3> QED
      BY <1>0, <3>1, <3>3 DEF Move, Stays, Marked
  <2>4. ASSUME SkipFailedSource(w) \/ Compose(w) PROVE UNCHANGED source
    BY <2>4 DEF SkipFailedSource, Compose
  <2> QED
    BY <1>1, <1>4, <2>1, <2>2, <2>3, <2>4 DEF Extract
<1>5. ASSUME NEW w \in Workers, Work(w) \/ Interrupt(w) PROVE UNCHANGED source \/ Extract(w)
  <2>1. ASSUME NEW i \in Items, Claim(w, i) PROVE UNCHANGED source
    BY <2>1 DEF Claim
  <2>2. ASSUME Advance(w) PROVE UNCHANGED source \/ Extract(w)
    BY <2>2
       DEF Advance, ResumeAtPublish, ResumeWithContent, StartExtraction, Analyze, Classify
  <2> QED
    BY <1>5, <2>1, <2>2 DEF Work, Publish, Return, MarkFailed, Interrupt
<1>6. ASSUME \/ CrashRestart \/ UNCHANGED vars \/ RetryLost
             \/ \E i \in Items : Ingest(i) \/ RetryRead(i)
      PROVE  UNCHANGED source
  BY <1>6 DEF CrashRestart, vars, RetryLost, Ingest, RetryRead
<1> QED
  BY <1>1, <1>2, <1>3, <1>4, <1>5, <1>6 DEF Next, User

LEMMA SameRow ==
  ASSUME NEW r \in SourceRows, NEW q \in SourceRows,
         r.state = q.state, r.saved = q.saved, r.holes = q.holes
  PROVE  r = q
  BY DEF SourceRows

(* A row as OneSource sees it.                                              *)
LEMMA SeenRow ==
  ASSUME NEW r \in SourceRows
  PROVE  LET seen == [r EXCEPT !.holes = IF r.saved THEN @ ELSE "whole"]
         IN  /\ seen \in SourceRows /\ seen.state = r.state /\ seen.saved = r.saved
             /\ seen.holes = IF r.saved THEN r.holes ELSE "whole"
  BY DEF SourceRows

LEMMA FreshRow ==
  /\ Source!Fresh \in SourceRows /\ Source!Fresh.state = "PENDING"
  /\ Source!Fresh.saved = FALSE /\ Source!Fresh.holes = "whole"
  BY DEF SourceRows, Source!Fresh

LEMMA SavedRow ==
  ASSUME NEW h \in Source!Holes
  PROVE  LET r == [Source!Fresh EXCEPT !.saved = TRUE, !.holes = h]
         IN  r \in SourceRows /\ r.state = "PENDING" /\ r.saved = TRUE /\ r.holes = h
  BY FreshRow DEF SourceRows, Source!Holes

LEMMA FailedRow ==
  ASSUME NEW s \in {"FAILED", "DEAD"}
  PROVE  LET r == [Source!Fresh EXCEPT !.state = s]
         IN  r \in SourceRows /\ r.state = s /\ r.saved = FALSE /\ r.holes = "whole"
  BY FreshRow DEF SourceRows

(* A move of a row is a step of OneSource.                                  *)
LEMMA MoveAllowed ==
  ASSUME SourcesInv, TypeOK', NEW x \in Slots, Move(x)
  PROVE  \/ Source!Stay(x)
         \/ Source!Save(x) \/ Source!MarkReady(x) \/ Source!SaveReady(x) \/ Source!Fail(x)
         \/ Source!Reopen(x)
<1>1. source[x] \in SourceRows /\ source'[x] \in SourceRows
  BY DEF SourcesInv, IInv, TypeOK
<1> DEFINE old == [source[x] EXCEPT !.holes = IF source[x].saved THEN @ ELSE "whole"]
           new == [source'[x] EXCEPT !.holes = IF source'[x].saved THEN @ ELSE "whole"]
<1>2. /\ old \in SourceRows /\ old.state = source[x].state /\ old.saved = source[x].saved
      /\ old.holes = IF source[x].saved THEN source[x].holes ELSE "whole"
      /\ new \in SourceRows /\ new.state = source'[x].state /\ new.saved = source'[x].saved
      /\ new.holes = IF source'[x].saved THEN source'[x].holes ELSE "whole"
  BY <1>1, SeenRow
<1>3. CASE Stays(x)
  BY <1>3 DEF Stays, Source!Stay
<1>4. CASE Saved(x)
  <2>1. PICK h \in Source!Holes : h = source'[x].holes
    BY <1>1 DEF SourceRows, Source!Holes
  <2> DEFINE saved == [Source!Fresh EXCEPT !.saved = TRUE, !.holes = h]
  <2>2. saved \in SourceRows /\ saved.state = "PENDING" /\ saved.saved = TRUE /\ saved.holes = h
    BY SavedRow
  <2>3. source'[x].saved = TRUE /\ source[x].saved = FALSE
    BY <1>1, <1>4 DEF Saved, SourceRows
  <2> HIDE DEF old, new, saved
  <2>4. old = Source!Fresh /\ new = saved
    BY <1>2, <1>4, <2>1, <2>2, <2>3, FreshRow, SameRow DEF Saved
  <2> QED
    BY <2>4 DEF Source!Save, old, new, saved
<1>5. CASE Marked(x)
  BY <1>1, <1>5 DEF Marked, Source!MarkReady, SourceRows
<1>6. CASE Failed(x)
  <2>1. PICK s \in {"FAILED", "DEAD"} : source'[x].state = s
    BY <1>6 DEF Failed
  <2> DEFINE failed == [Source!Fresh EXCEPT !.state = s]
  <2>2. /\ failed \in SourceRows /\ failed.state = s
        /\ failed.saved = FALSE /\ failed.holes = "whole"
    BY FailedRow
  <2>3. source'[x].saved = FALSE /\ source[x].saved = FALSE
    BY <1>1, <1>6 DEF Failed, SourceRows
  <2> HIDE DEF old, new, failed
  <2>4. old = Source!Fresh /\ new = failed
    BY <1>2, <1>6, <2>1, <2>2, <2>3, FreshRow, SameRow DEF Failed
  <2> QED
    BY <2>4 DEF Source!Fail, old, new, failed
<1>7. CASE OpenedAgain(x)
  BY <1>1, <1>7 DEF OpenedAgain, Source!Reopen, Source!Fresh, SourceRows
<1> QED
  BY <1>3, <1>4, <1>5, <1>6, <1>7 DEF Move

LEMMA SourcesInvHolds == ASSUME SourcesInv, [Next]_vars PROVE SourcesInv'
<1>1. IInv'
  BY NextInv DEF SourcesInv
<1>2. source \in [Slots -> SourceRows] /\ source' \in [Slots -> SourceRows]
  BY <1>1 DEF SourcesInv, IInv, TypeOK
<1>3. ASSUME NEW x \in Slots PROVE Unfilled(x)'
  <2>1. Move(x) /\ Unfilled(x) /\ x[1] \in Items
    BY SourceMoves, SlotsAreSources DEF SourcesInv
  <2>2. item[x[1]].status # "NONE" => item'[x[1]].status # "NONE"
    BY <2>1, StaysThere DEF SourcesInv
  <2>3. source[x] \in SourceRows
    BY <1>2
  <2>4. CASE Stays(x) \/ Saved(x) \/ Failed(x) \/ OpenedAgain(x)
    BY <2>1, <2>2, <2>4 DEF Unfilled, Stays, Saved, Failed, OpenedAgain
  <2>5. CASE Marked(x)
    BY <2>1, <2>2, <2>3, <2>5 DEF Unfilled, Marked, SourceRows
  <2> QED
    BY <2>1, <2>4, <2>5 DEF Move
<1>4. MoreToHave'
  <2>1. CASE tap' = NoTap
    BY <2>1 DEF MoreToHave
  <2>2. CASE tap' = tap /\ tap # NoTap
    <3>1. ASSUME NEW s \in tap.posts
          PROVE  source'[<<tap.item, s>>].holes \in {"recheck", "retryable"}
      <4>1. tap.item \in Items /\ <<tap.item, s>> \in Slots
            /\ source[<<tap.item, s>>].state = "READY"
        BY <2>2, SlotsAreSources DEF SourcesInv, IInv, TypeOK, TapIsCurrent, InState
      <4>2. Stays(<<tap.item, s>>)
        BY <2>2, <4>1, SourceMoves DEF Move, Saved, Marked, Failed, OpenedAgain
      <4> QED
        BY <2>2, <4>2 DEF SourcesInv, MoreToHave, Stays
    <3> QED
      BY <2>2, <3>1 DEF MoreToHave
  <2>3. ASSUME NEW i \in Items, RetryRead(i) PROVE MoreToHave'
    BY <2>3 DEF RetryRead, MoreToHave
  <2>4. tap' = NoTap \/ tap' = tap \/ \E i \in Items : RetryRead(i)
    <3>1. ASSUME NEW w \in Workers, Work(w) \/ Interrupt(w) PROVE tap' = tap
      <4>1. ASSUME Extract(w) PROVE tap' = tap
        BY <4>1 DEF Extract, SkipFailedSource, SaveSourceContent, MarkSourceReady, SourceFails,
                    Compose
      <4>2. ASSUME NEW i \in Items, Claim(w, i) PROVE tap' = tap
        BY <4>2 DEF Claim
      <4>3. ASSUME Advance(w) PROVE tap' = tap
        BY <4>1, <4>3
           DEF Advance, ResumeAtPublish, ResumeWithContent, StartExtraction, Analyze, Classify
      <4> QED
        BY <3>1, <4>2, <4>3 DEF Work, Publish, Return, MarkFailed, Interrupt
    <3>2. ASSUME User PROVE tap' = NoTap \/ tap' = tap \/ \E i \in Items : RetryRead(i)
      BY <3>2 DEF User, Ingest, IngestRejectedMedia, RetryWon, RetryLost
    <3> QED
      BY <3>1, <3>2 DEF Next, CrashRestart, vars
  <2> QED
    BY <2>1, <2>2, <2>3, <2>4
<1> QED
  BY <1>1, <1>3, <1>4 DEF SourcesInv

(* Each source of an Item keeps what OneSource promises of any: content     *)
(* before READY, nothing fetched again that is there, a failure for good    *)
(* for good, and only a Retry that has something to gain opens it again.    *)
THEOREM SourcesKept == Spec => Source!Spec
<1>1. Init => SourcesInv /\ Source!Init
  <2> SUFFICES ASSUME Init PROVE SourcesInv /\ Source!Init
    OBVIOUS
  <2>1. /\ \A x \in Slots : source[x] = [state |-> "PENDING", saved |-> FALSE, holes |-> "whole"]
        /\ tap = NoTap
    BY DEF Init
  <2>2. Source!Init
    BY <2>1 DEF Source!Init, Source!Fresh
  <2> QED
    BY <2>1, <2>2, InitInv DEF SourcesInv, Unfilled, MoreToHave
<1>2. SourcesInv /\ [Next]_vars => SourcesInv'
  BY SourcesInvHolds
<1>3. ASSUME SourcesInv, [Next]_vars PROVE Source!Next
  <2>1. TypeOK'
    BY <1>3, SourcesInvHolds DEF SourcesInv, IInv
  <2>2. ASSUME NEW x \in Slots
        PROVE  \/ Source!Stay(x)
               \/ Source!Save(x) \/ Source!MarkReady(x) \/ Source!SaveReady(x) \/ Source!Fail(x)
               \/ Source!Reopen(x)
    BY <1>3, <2>1, SourceMoves, MoveAllowed
  <2> QED
    BY <2>2 DEF Source!Next
<1> QED
  BY <1>1, <1>2, <1>3, PTL DEF Spec, Source!Spec

-----------------------------------------------------------------------------
(* The pipeline and the outbox together                                     *)

(* What the outbox keeps of a notice has its type.                          *)
NoticeTypes ==
    /\ row \in [ItemKeys -> O!Statuses]
    /\ attempts \in [ItemKeys -> Nat]
    /\ wanted \in [ItemKeys -> Nat]
    /\ shown \in [ItemKeys -> Nat]
    /\ dw \in O!WorkerStates
    /\ dw.pc # "idle" => dw.key \in ItemKeys

Notice(i) == Key(i, "FAILURE")
Has(i) == dw.pc # "idle" /\ dw.key = Notice(i)

(* The user has left the failure behind; the attempt that began before it   *)
(* is counted, unless a second failure reopened the row.                    *)
Left(i) == item[i].status # "FAILED" /\ ~history[i].late
Spent(i) == attempts[Notice(i)] > 0 \/ history[i].retries > 1

(* Only a Retry takes a row from the worker that sends it, so that one       *)
(* Retry finds its attempt counted, and the verdict too.                    *)
Withdrawn(i) ==
    /\ Row(i, "FAILURE") \in Due /\ Left(i) => Spent(i)
    /\ Has(i) /\ dw.pc = "settling" /\ dw.verdict = "PENDING" /\ Left(i) => Spent(i)
    /\ Has(i) => attempts[Notice(i)] > 0 \/ history[i].retries > 0
    /\ Has(i) => Row(i, "FAILURE") = "SENDING" \/ history[i].retries > 0

(* Until the first Retry an Item has one run, also with a deadline that     *)
(* strikes a durable READY; when it fails, it is over.                      *)
OneRun(i) ==
    history[i].retries = 0 =>
       /\ \A v, w \in Workers : wk[v].item = i /\ wk[w].item = i => v = w
       /\ item[i].status \notin {"PROCESSING", "READY"} => \A w \in Workers : wk[w].item # i

(* So there is one notice, of an Item that is still FAILED when it is read. *)
FirstNotice(i) ==
    history[i].retries = 0 =>
       /\ wanted[Notice(i)] = 0 => Row(i, "FAILURE") = "NONE"
       /\ wanted[Notice(i)] > 0 => item[i].status = "FAILED" /\ wanted[Notice(i)] = 1
       /\ Has(i) => wanted[Notice(i)] = 1
       /\ Has(i) /\ dw.pc = "sending" => dw.result >= wanted[Notice(i)]
       /\ Has(i) /\ dw.pc = "sent" => shown[Notice(i)] >= wanted[Notice(i)]
       /\ Has(i) /\ dw.pc = "settling" /\ dw.verdict = "SENT"
             => shown[Notice(i)] >= wanted[Notice(i)]
       /\ Row(i, "FAILURE") = "SENT" => shown[Notice(i)] >= wanted[Notice(i)]

Joint(i) == Withdrawn(i) /\ OneRun(i) /\ FirstNotice(i)

JInv == IInv /\ EachPaid /\ NoticeTypes /\ \A i \in Items : Joint(i)

(* The notice of a failure is a row of the outbox, of that Item.            *)
LEMMA NoticeIsKey ==
    \A i \in Items : Notice(i) \in ItemKeys /\ Notice(i)[1] = i /\ Notice(i)[2] = "FAILURE"
BY DEF Notice, Key, ItemKeys

(* The two agree at first, and the pipeline behaves as if it were alone.    *)
LEMMA InitJoint == InitBoth => JInv
<1> SUFFICES ASSUME InitBoth PROVE JInv
  OBVIOUS
<1>1. Init /\ O!Init
  BY DEF InitBoth
<1>2. NoticeTypes
  BY <1>1
     DEF O!Init, O!IdleWorker, NoticeTypes, O!Statuses, O!Terminal, O!WorkerStates, O!WorkerPcs
<1>3. ASSUME NEW i \in Items PROVE Joint(i)
  <2>1. /\ history[i].retries = 0 /\ item[i].status = "NONE"
        /\ \A w \in Workers : wk[w].item = Nil
    BY <1>1 DEF Init, IdleWorker
  <2>2. /\ row[Notice(i)] = "NONE" /\ wanted[Notice(i)] = 0 /\ dw.pc = "idle"
    BY <1>1, NoticeIsKey DEF O!Init, O!IdleWorker
  <2>3. OneRun(i)
    BY <2>1, PipelineAssumption DEF OneRun
  <2> QED
    BY <2>1, <2>2, <2>3 DEF Joint, Withdrawn, FirstNotice, Has, Row, Due, Notice
<1> QED
  BY <1>1, <1>2, <1>3, InitInv, InitPaid DEF JInv

(* A step of the two together is a step of the pipeline, or none of it.     *)
LEMMA PipelineStep == ASSUME [NextBoth]_allVars PROVE [Next]_vars
<1>1. ASSUME NEW w \in Workers, ProcessOne(w) PROVE Next
  BY <1>1 DEF ProcessOne, PublishResult, AnnounceFailure, Next, Work
<1>2. ASSUME UserActs PROVE Next
  BY <1>2 DEF UserActs, RetryAndCancel, Next, User
<1>3. ASSUME Deliver PROVE UNCHANGED vars
  BY <1>3 DEF Deliver, ReadItem
<1> QED
  BY <1>1, <1>2, <1>3 DEF NextBoth, Restart, Next, allVars

-----------------------------------------------------------------------------
(* Steps that leave the notice of an Item alone                             *)

(* The Item changed, but its notice is what it was.                         *)
LEMMA QuietStep ==
  ASSUME NEW i \in Items, Joint(i), dw' = dw,
         row'[Notice(i)] = row[Notice(i)], attempts'[Notice(i)] = attempts[Notice(i)],
         wanted'[Notice(i)] = wanted[Notice(i)], shown'[Notice(i)] = shown[Notice(i)],
         history'[i].retries = history[i].retries, Left(i)' => Left(i),
         history[i].retries = 0 /\ item[i].status = "FAILED" => item'[i].status = "FAILED",
         OneRun(i)'
  PROVE  Joint(i)'
<1>1. Row(i, "FAILURE")' = Row(i, "FAILURE") /\ (Has(i)' <=> Has(i)) /\ (Spent(i)' <=> Spent(i))
  BY DEF Row, Notice, Has, Spent, Key
<1>2. Withdrawn(i)'
  BY <1>1 DEF Joint, Withdrawn, Notice, Key
<1>3. FirstNotice(i)'
  BY <1>1 DEF Joint, FirstNotice, Notice, Key
<1> QED
  BY <1>2, <1>3 DEF Joint

(* A step on another Item.                                                  *)
LEMMA OtherItem ==
  ASSUME NEW i \in Items, Joint(i), dw' = dw,
         row'[Notice(i)] = row[Notice(i)], attempts'[Notice(i)] = attempts[Notice(i)],
         wanted'[Notice(i)] = wanted[Notice(i)], shown'[Notice(i)] = shown[Notice(i)],
         item'[i].status = item[i].status, history'[i].retries = history[i].retries,
         history[i].late => history'[i].late,
         \A w \in Workers : wk'[w].item = i => wk[w].item = i
  PROVE  Joint(i)'
<1>1. OneRun(i)'
  BY DEF Joint, OneRun
<1> QED
  BY <1>1, QuietStep DEF Left

(* The outbox records something about another key, or nothing.              *)
LEMMA OtherKey ==
  ASSUME NoticeTypes, NEW k \in ItemKeys, O!EnqueueItemDelivery(k)
  PROVE  /\ dw' = dw
         /\ \A other \in ItemKeys \ {k} :
               /\ row'[other] = row[other] /\ attempts'[other] = attempts[other]
               /\ wanted'[other] = wanted[other] /\ shown'[other] = shown[other]
BY DEF NoticeTypes, O!EnqueueItemDelivery, O!Insert, O!Reopen

-----------------------------------------------------------------------------
(* The steps of the pipeline                                                *)

(* Who holds an Item, and what it has become, where nothing is announced.   *)
LEMMA SilentStep ==
  ASSUME JInv, UNCHANGED outbox,
         \/ \E w \in Workers : \/ \E i \in Items : Claim(w, i)
                               \/ Advance(w)
                               \/ Return(w)
                               \/ Interrupt(w)
         \/ \E i \in Items : Ingest(i) \/ IngestRejectedMedia(i) \/ RetryRead(i)
         \/ RetryLost
         \/ UNCHANGED vars,
         NEW i \in Items
  PROVE  Joint(i)'
<1>0. /\ Joint(i) /\ IInv /\ item[i] \in ItemRows
      /\ \A w \in Workers : wk[w].pc = "idle" => wk[w].item = Nil
  BY DEF JInv, IInv, TypeOK, EachPaid, Hands, Hand
<1>1. /\ dw' = dw /\ row'[Notice(i)] = row[Notice(i)]
      /\ attempts'[Notice(i)] = attempts[Notice(i)]
      /\ wanted'[Notice(i)] = wanted[Notice(i)] /\ shown'[Notice(i)] = shown[Notice(i)]
  BY DEF outbox
<1>2. ASSUME NEW w \in Workers, Advance(w)
      PROVE  /\ item'[i].status = item[i].status /\ history'[i].retries = history[i].retries
             /\ history[i].late => history'[i].late
             /\ \A v \in Workers : wk'[v].item = wk[v].item
  <2>1. ASSUME Extract(w)
        PROVE  /\ item'[i].status = item[i].status /\ UNCHANGED history
               /\ \A v \in Workers : wk'[v].item = wk[v].item
    <3>1. wk \in [Workers -> WorkerRows] /\ item \in [Items -> ItemRows]
      BY <1>0 DEF IInv, TypeOK, WorkerRows
    <3>2. ASSUME NEW got, NextSource(w, got)
          PROVE  \A v \in Workers : wk'[v].item = wk[v].item
      BY <3>1, <3>2 DEF NextSource, WorkerRows
    <3>3. ASSUME NEW pc, Goto(w, pc)
          PROVE  \A v \in Workers : wk'[v].item = wk[v].item
      BY <3>1, <3>3 DEF Goto, WorkerRows
    <3>4. ASSUME NEW j \in Items, NEW stage, SetStage(j, stage)
          PROVE  item'[i].status = item[i].status
      BY <3>1, <3>4 DEF SetStage, ItemRows
    <3>5. CASE Compose(w)
      <4>1. wk[w].item \in Items
        BY <1>0, <3>5 DEF Compose, At, IInv, TypeOK
      <4> QED
        BY <3>3, <3>4, <3>5, <4>1 DEF Compose
    <3> QED
      BY <2>1, <3>2, <3>5
         DEF Extract, SkipFailedSource, SaveSourceContent, MarkSourceReady, SourceFails
  <2>2. ASSUME ResumeAtPublish(w) \/ ResumeWithContent(w) \/ StartExtraction(w) \/ Classify(w)
        PROVE  /\ item'[i].status = item[i].status /\ UNCHANGED history
               /\ \A v \in Workers : wk'[v].item = wk[v].item
    <3>1. /\ wk \in [Workers -> WorkerRows] /\ item \in [Items -> ItemRows]
          /\ wk[w].item \in Items
      BY <1>0, <2>2
         DEF ResumeAtPublish, ResumeWithContent, StartExtraction, Classify, At, IInv, TypeOK,
             WorkerRows
    <3>2. ASSUME NEW stage, SetStage(wk[w].item, stage)
          PROVE  item'[i].status = item[i].status
      BY <3>1, <3>2 DEF SetStage, ItemRows
    <3>3. /\ item'[i].status = item[i].status
          /\ UNCHANGED history
      BY <2>2, <3>2
         DEF ResumeAtPublish, ResumeWithContent, StartExtraction, Classify
    <3>4. \A v \in Workers : wk'[v].item = wk[v].item
      <4>1. ASSUME StartExtraction(w) \/ ResumeWithContent(w)
            PROVE  \A v \in Workers : wk'[v].item = wk[v].item
        BY <3>1, <4>1 DEF StartExtraction, ResumeWithContent, WorkerRows
      <4> QED
        BY <2>2, <3>1, <4>1 DEF ResumeAtPublish, Classify, Goto, WorkerRows
    <3> QED
      BY <3>3, <3>4
  <2>3. ASSUME Analyze(w)
        PROVE  /\ item'[i].status = item[i].status /\ history'[i].retries = history[i].retries
               /\ history'[i].late = history[i].late
               /\ \A v \in Workers : wk'[v].item = wk[v].item
    BY <1>0, <2>3 DEF Analyze, Goto, IInv, TypeOK, ItemRows
  <2> QED
    BY <1>2, <2>1, <2>2, <2>3 DEF Advance
<1>3. ASSUME NEW w \in Workers, Interrupt(w)
      PROVE  /\ item'[i].status = item[i].status /\ history'[i].retries = history[i].retries
             /\ history[i].late => history'[i].late
             /\ \A v \in Workers : wk'[v].item = wk[v].item
  BY <1>0, <1>3 DEF Interrupt, Goto, IInv, TypeOK
<1>4. ASSUME NEW w \in Workers, Return(w)
      PROVE  /\ item'[i].status = item[i].status /\ UNCHANGED history
             /\ \A v \in Workers : wk'[v].item = i => wk[v].item = i
  BY <1>0, <1>4, PipelineAssumption DEF Return, IdleWorker, IInv, TypeOK
<1>5. ASSUME RetryLost \/ (\E j \in Items : RetryRead(j)) \/ UNCHANGED vars
      PROVE  UNCHANGED <<item, history, wk>>
  BY <1>5 DEF RetryLost, RetryRead, vars
<1>6. ASSUME NEW j \in Items, Ingest(j) \/ IngestRejectedMedia(j) PROVE Joint(i)'
  <2>1. CASE j # i
    <3>1. item'[i] = item[i] /\ UNCHANGED <<wk, history>>
      BY <1>0, <1>6, <2>1 DEF Ingest, IngestRejectedMedia, IInv, TypeOK
    <3> QED
      BY <1>0, <1>1, <3>1, OtherItem
  <2>2. CASE j = i
    <3>1. /\ item[i].status = "NONE" /\ UNCHANGED <<wk, history>>
          /\ item'[i].status \in {"QUEUED", "FAILED"}
      BY <1>0, <1>6, <2>2 DEF Ingest, IngestRejectedMedia, IInv, TypeOK, ItemRows
    <3>2. OneRun(i)' /\ (Left(i)' => Left(i))
      BY <1>0, <3>1 DEF Joint, OneRun, Left
    <3> QED
      BY <1>0, <1>1, <3>1, <3>2, QuietStep
  <2> QED
    BY <2>1, <2>2
<1>7. ASSUME NEW w \in Workers, NEW j \in Items, Claim(w, j) PROVE Joint(i)'
  <2>1. /\ item[j].status = "QUEUED" /\ UNCHANGED history /\ wk[w].item = Nil
        /\ \A v \in Workers \ {w} : wk'[v] = wk[v]
        /\ wk'[w].item = j
    BY <1>0, <1>7 DEF Claim, At, IInv, TypeOK, IdleWorker
  <2>2. /\ item'[j].status = "PROCESSING"
        /\ i # j => item'[i] = item[i]
    BY <1>0, <1>7 DEF Claim, IInv, TypeOK, ItemRows
  <2>3. CASE j # i
    BY <1>0, <1>1, <2>1, <2>2, <2>3, OtherItem
  <2>4. CASE j = i
    <3>1. OneRun(i)' /\ (Left(i)' => Left(i))
      BY <1>0, <2>1, <2>2, <2>4 DEF Joint, OneRun, Left
    <3> QED
      BY <1>0, <1>1, <2>1, <2>2, <2>4, <3>1, QuietStep
  <2> QED
    BY <2>3, <2>4
<1> QED
  BY <1>0, <1>1, <1>2, <1>3, <1>4, <1>5, <1>6, <1>7, OtherItem

(* A result is announced under its own key.                                 *)
LEMMA PublishJoint ==
  ASSUME JInv, NEW w \in Workers, PublishResult(w), NEW i \in Items PROVE Joint(i)'
<1>1. /\ wk[w].pc = "publish" /\ wk[w].item \in Items /\ UNCHANGED history
      /\ IInv /\ Joint(i) /\ NoticeTypes
  BY DEF PublishResult, Publish, At, JInv, IInv, TypeOK
<1>2. \A v \in Workers : wk'[v].item = wk[v].item
  BY <1>1 DEF PublishResult, Publish, Goto, IInv, TypeOK
<1>3. /\ item'[wk[w].item].status = "READY"
      /\ \A j \in Items : j = wk[w].item \/ item'[j] = item[j]
  BY <1>1 DEF PublishResult, Publish, IInv, TypeOK, ItemRows
<1>4. /\ dw' = dw /\ row'[Notice(i)] = row[Notice(i)]
      /\ attempts'[Notice(i)] = attempts[Notice(i)]
      /\ wanted'[Notice(i)] = wanted[Notice(i)] /\ shown'[Notice(i)] = shown[Notice(i)]
  <2>1. Key(wk[w].item, "READY") \in ItemKeys /\ Key(wk[w].item, "READY") # Notice(i)
    BY <1>1 DEF Key, ItemKeys, Notice
  <2>2. CASE UNCHANGED outbox
    BY <2>2 DEF outbox
  <2>3. CASE O!EnqueueItemDelivery(Key(wk[w].item, "READY"))
    BY <1>1, <2>1, <2>3, OtherKey, NoticeIsKey
  <2> QED
    BY <2>2, <2>3 DEF PublishResult, Announce
<1>5. CASE wk[w].item # i
  BY <1>1, <1>2, <1>3, <1>4, <1>5, OtherItem
<1>6. CASE wk[w].item = i
  <2>1. OneRun(i)'
    BY <1>1, <1>2, <1>3, <1>6 DEF Joint, OneRun
  <2>2. history[i].retries = 0 => item[i].status # "FAILED"
    BY <1>1, <1>6 DEF Joint, OneRun
  <2>3. ~history[i].late => item[i].status = "PROCESSING"
    BY <1>1, <1>6 DEF IInv, SoleOwner, Busy
  <2> QED
    BY <1>1, <1>4, <2>1, <2>2, <2>3, QuietStep DEF Left
<1> QED
  BY <1>5, <1>6

(* The first failure is announced by the only run there was.                *)
LEMMA FailureJoint ==
  ASSUME JInv, NEW w \in Workers, AnnounceFailure(w), NEW i \in Items PROVE Joint(i)'
<1> DEFINE k == Notice(i)
<1>1. /\ wk[w].pc = "failing" /\ wk[w].item \in Items /\ UNCHANGED history
      /\ IInv /\ Joint(i) /\ NoticeTypes /\ history[i].retries \in Nat
  BY DEF AnnounceFailure, MarkFailed, At, JInv, IInv, TypeOK
<1>2. wk'[w].item = Nil /\ \A v \in Workers : v = w \/ wk'[v] = wk[v]
  BY <1>1 DEF AnnounceFailure, MarkFailed, IdleWorker, IInv, TypeOK
<1>3. /\ item'[wk[w].item].status = "FAILED"
      /\ \A j \in Items : j = wk[w].item \/ item'[j] = item[j]
  BY <1>1 DEF AnnounceFailure, MarkFailed, IInv, TypeOK, ItemRows
<1>4. CASE wk[w].item # i
  <2>1. Notice(wk[w].item) \in ItemKeys /\ Notice(wk[w].item) # Notice(i)
    BY <1>1, <1>4, NoticeIsKey
  <2>2. /\ dw' = dw /\ row'[Notice(i)] = row[Notice(i)]
        /\ attempts'[Notice(i)] = attempts[Notice(i)]
        /\ wanted'[Notice(i)] = wanted[Notice(i)] /\ shown'[Notice(i)] = shown[Notice(i)]
    <3>1. CASE UNCHANGED outbox
      BY <3>1 DEF outbox
    <3>2. CASE O!EnqueueItemDelivery(Notice(wk[w].item))
      BY <1>1, <2>1, <3>2, OtherKey, NoticeIsKey
    <3> QED
      BY <3>1, <3>2 DEF AnnounceFailure, Announce, Notice
  <2> QED
    BY <1>1, <1>2, <1>3, <1>4, <2>2, OtherItem, PipelineAssumption
<1>5. CASE wk[w].item = i
  <2>1. OneRun(i)'
    BY <1>1, <1>2, <1>3, <1>5, PipelineAssumption DEF Joint, OneRun
  <2>2. history[i].retries = 0 => item[i].status # "FAILED"
    BY <1>1, <1>5 DEF Joint, OneRun
  <2>3. ~Left(i)'
    BY <1>3, <1>5 DEF Left
  <2>4. CASE UNCHANGED outbox
    BY <1>1, <1>3, <1>5, <2>1, <2>3, <2>4, QuietStep DEF outbox
  <2>5. CASE O!EnqueueItemDelivery(Notice(i))
    <3>1. k \in ItemKeys /\ dw' = dw /\ shown' = shown
      BY <2>5, NoticeIsKey DEF O!EnqueueItemDelivery
    <3>2. /\ wanted'[k] = wanted[k] + 1
          /\ \/ row[k] = "NONE" /\ row'[k] = "PENDING" /\ attempts'[k] = attempts[k]
             \/ row[k] \in O!Terminal /\ row'[k] = "PENDING"
             \/ row[k] \in {"PENDING", "SENDING"} /\ row'[k] = row[k]
                /\ attempts'[k] = attempts[k]
      BY <1>1, <2>5, <3>1
         DEF O!EnqueueItemDelivery, O!Insert, O!Reopen, NoticeTypes
    <3>3. Row(i, "FAILURE") = row[k] /\ Row(i, "FAILURE")' = row'[k]
      BY DEF Row, Notice
    <3>4. /\ Has(i)' <=> Has(i)
          /\ Has(i) => attempts[k] > 0 \/ history[i].retries > 0
          /\ Has(i) => row[k] = "SENDING" \/ history[i].retries > 0
      BY <1>1, <3>1, <3>3 DEF Has, Joint, Withdrawn, Notice, Key
    <3>5. Withdrawn(i)'
      <4>1. Has(i)' => attempts'[k] > 0 \/ history'[i].retries > 0
        BY <1>1, <3>2, <3>4 DEF O!Terminal
      <4>2. Has(i)' => row'[k] = "SENDING" \/ history'[i].retries > 0
        BY <1>1, <3>2, <3>4 DEF O!Terminal
      <4> QED
        BY <2>3, <3>3, <4>1, <4>2 DEF Withdrawn
    <3>6. FirstNotice(i)'
      <4> SUFFICES ASSUME history[i].retries = 0 PROVE FirstNotice(i)'
        BY <1>1 DEF FirstNotice
      <4>1. wanted[k] = 0 /\ row[k] = "NONE" /\ ~Has(i)
        BY <1>1, <2>2, <3>1, <3>3 DEF Joint, FirstNotice, NoticeTypes
      <4>2. wanted'[k] = 1 /\ row'[k] = "PENDING" /\ ~Has(i)'
        BY <3>2, <3>4, <4>1 DEF O!Terminal
      <4> QED
        BY <1>3, <1>5, <3>3, <4>2 DEF FirstNotice
    <3> QED
      BY <2>1, <3>5, <3>6 DEF Joint
  <2> QED
    BY <1>5, <2>4, <2>5 DEF AnnounceFailure, Announce, Notice
<1> QED
  BY <1>4, <1>5

(* Retry withdraws the notice, and finds the attempt in progress counted.   *)
LEMMA RetryJoint == ASSUME JInv, RetryAndCancel, NEW i \in Items PROVE Joint(i)'
<1>1. /\ IInv /\ Joint(i) /\ NoticeTypes /\ history[i].retries \in Nat
      /\ tap.item \in Items /\ UNCHANGED wk
  BY DEF RetryAndCancel, RetryWon, JInv, IInv, TypeOK
<1>2. /\ UNCHANGED <<attempts, wanted, shown, dw>>
      /\ Notice(tap.item) \in ItemKeys
      /\ row' = [row EXCEPT ![Notice(tap.item)] =
                    IF @ \in {"PENDING", "SENDING"} THEN "CANCELLED" ELSE @]
  BY <1>1, NoticeIsKey DEF RetryAndCancel, O!CancelFailure, Notice
<1>3. CASE tap.item # i
  <2>1. item'[i] = item[i] /\ history'[i] = history[i]
    BY <1>1, <1>3 DEF RetryAndCancel, RetryWon, IInv, TypeOK
  <2>2. row'[Notice(i)] = row[Notice(i)]
    BY <1>1, <1>2, <1>3, NoticeIsKey DEF NoticeTypes
  <2> QED
    BY <1>1, <1>2, <2>1, <2>2, OtherItem
<1>4. CASE tap.item = i
  <2>1. history'[i].retries = history[i].retries + 1
    BY <1>1, <1>4 DEF RetryAndCancel, RetryWon, IInv, TypeOK
  <2>2. row'[Notice(i)] \notin Due
    BY <1>1, <1>2, <1>4 DEF NoticeTypes, Due
  <2>3. Has(i)' <=> Has(i)
    BY <1>2 DEF Has
  <2>4. Has(i) => attempts[Notice(i)] > 0 \/ history[i].retries > 0
    BY <1>1 DEF Joint, Withdrawn
  <2>5. attempts[Notice(i)] \in Nat /\ Row(i, "FAILURE")' = row'[Notice(i)]
    BY <1>1, NoticeIsKey DEF NoticeTypes, Row, Notice
  <2>6. Has(i) => Spent(i)'
    BY <1>1, <1>2, <2>1, <2>4, <2>5 DEF Spent
  <2>7. Withdrawn(i)'
    BY <1>1, <2>1, <2>2, <2>3, <2>5, <2>6 DEF Withdrawn
  <2>8. OneRun(i)' /\ FirstNotice(i)'
    BY <1>1, <2>1 DEF OneRun, FirstNotice
  <2> QED
    BY <2>7, <2>8 DEF Joint
<1> QED
  BY <1>3, <1>4

-----------------------------------------------------------------------------
(* The steps of the DeliveryWorker, and a restart                           *)

(* The pipeline stands still.                                               *)
LEMMA StillRuns ==
  ASSUME NEW i \in Items, Joint(i), UNCHANGED vars
  PROVE  OneRun(i)' /\ (Left(i)' <=> Left(i)) /\ history'[i] = history[i] /\ item'[i] = item[i]
BY DEF Joint, OneRun, Left, vars

(* The attempt is counted when it begins.                                   *)
LEMMA ClaimJoint ==
  ASSUME JInv, NEW k \in ItemKeys, O!Claim(k), UNCHANGED vars, NEW i \in Items
  PROVE  Joint(i)'
<1>1. /\ Joint(i) /\ NoticeTypes /\ Notice(i) \in ItemKeys
      /\ OneRun(i)' /\ (Left(i)' <=> Left(i)) /\ history'[i] = history[i] /\ item'[i] = item[i]
  BY StillRuns, NoticeIsKey DEF JInv
<1>2. /\ dw.pc = "idle" /\ row[k] = "PENDING" /\ UNCHANGED <<wanted, shown>>
      /\ row' = [row EXCEPT ![k] = "SENDING"] /\ attempts' = [attempts EXCEPT ![k] = @ + 1]
      /\ dw' = [dw EXCEPT !.pc = "claimed", !.key = k]
  BY DEF O!Claim
<1>3. dw'.pc = "claimed" /\ dw'.key = k
  BY <1>1, <1>2 DEF NoticeTypes, O!WorkerStates
<1>4. Row(i, "FAILURE") = row[Notice(i)] /\ Row(i, "FAILURE")' = row'[Notice(i)]
  BY DEF Row, Notice
<1>5. CASE k = Notice(i)
  <2>1. row'[k] = "SENDING" /\ attempts'[k] > 0
    BY <1>1, <1>2 DEF NoticeTypes
  <2>2. history[i].retries = 0 => wanted[k] = 1 /\ item[i].status = "FAILED"
    BY <1>1, <1>2, <1>4, <1>5 DEF Joint, FirstNotice, NoticeTypes
  <2>3. Withdrawn(i)'
    BY <1>3, <1>4, <1>5, <2>1 DEF Withdrawn, Spent
  <2>4. FirstNotice(i)'
    BY <1>1, <1>2, <1>3, <1>4, <1>5, <2>1, <2>2 DEF FirstNotice
  <2> QED
    BY <1>1, <2>3, <2>4 DEF Joint
<1>6. CASE k # Notice(i)
  <2>1. ~Has(i)' /\ row'[Notice(i)] = row[Notice(i)] /\ attempts'[Notice(i)] = attempts[Notice(i)]
    BY <1>1, <1>2, <1>3, <1>6 DEF Has, NoticeTypes
  <2>2. Withdrawn(i)'
    BY <1>1, <1>4, <2>1 DEF Joint, Withdrawn, Spent
  <2>3. FirstNotice(i)'
    BY <1>1, <1>2, <1>4, <2>1 DEF Joint, FirstNotice
  <2> QED
    BY <1>1, <2>2, <2>3 DEF Joint
<1> QED
  BY <1>5, <1>6

(* The Item of the first notice is still FAILED when it is read.            *)
LEMMA ReadJoint == ASSUME JInv, ReadItem, NEW i \in Items PROVE Joint(i)'
<1>1. /\ Joint(i) /\ NoticeTypes /\ Notice(i) \in ItemKeys
      /\ OneRun(i)' /\ (Left(i)' <=> Left(i)) /\ history'[i] = history[i] /\ item'[i] = item[i]
  BY StillRuns, NoticeIsKey DEF JInv, ReadItem
<1>2. dw.pc = "claimed" /\ UNCHANGED <<row, attempts, wanted, shown>>
  BY DEF ReadItem, O!ReadSnapshot, O!rows
<1>3. Row(i, "FAILURE") = row[Notice(i)] /\ Row(i, "FAILURE")' = row'[Notice(i)]
  BY DEF Row, Notice
<1>4. dw'.key = dw.key /\ dw'.pc \in {"sent", "sending"}
  BY <1>1 DEF ReadItem, O!ReadSnapshot, NoticeTypes, O!WorkerStates
<1>5. Has(i)' <=> Has(i)
  BY <1>2, <1>4 DEF Has
<1>6. ASSUME Has(i), item[i].status = "FAILED"
      PROVE  dw'.pc = "sending" /\ dw'.result = wanted[Notice(i)]
  <2>1. dw.key = Notice(i) /\ dw.key[1] = i /\ dw.key[2] = "FAILURE" /\ dw.key \in ItemKeys
    BY <1>1, <1>6, NoticeIsKey DEF Has
  <2>2. O!ReadSnapshot(FALSE, wanted[Notice(i)] + 0)
    BY <1>6, <2>1 DEF ReadItem
  <2>3. wanted[Notice(i)] + 0 = wanted[Notice(i)]
    BY <1>1 DEF NoticeTypes
  <2> QED
    BY <1>1, <2>2, <2>3 DEF O!ReadSnapshot, NoticeTypes, O!WorkerStates
<1>7. Withdrawn(i)'
  BY <1>1, <1>2, <1>3, <1>4, <1>5 DEF Joint, Withdrawn, Spent
<1>8. FirstNotice(i)'
  <2> SUFFICES ASSUME history[i].retries = 0 PROVE FirstNotice(i)'
    BY <1>1 DEF FirstNotice
  <2>1. Has(i) => item[i].status = "FAILED" /\ wanted[Notice(i)] = 1
    BY <1>1 DEF Joint, FirstNotice
  <2> QED
    BY <1>1, <1>2, <1>3, <1>4, <1>5, <1>6, <2>1 DEF Joint, FirstNotice
<1> QED
  BY <1>1, <1>7, <1>8 DEF Joint

(* What Telegram accepts is what the worker has read.                       *)
LEMMA TelegramJoint == ASSUME JInv, O!Telegram, UNCHANGED vars, NEW i \in Items PROVE Joint(i)'
<1>1. /\ Joint(i) /\ NoticeTypes /\ Notice(i) \in ItemKeys
      /\ OneRun(i)' /\ (Left(i)' <=> Left(i)) /\ history'[i] = history[i] /\ item'[i] = item[i]
  BY StillRuns, NoticeIsKey DEF JInv
<1>2. PICK accepted \in BOOLEAN, outcome \in {"ok", "transient", "permanent"} :
         O!Transmit(accepted, outcome)
  BY DEF O!Telegram
<1>3. dw.pc = "sending" /\ UNCHANGED <<row, attempts, wanted>>
  BY <1>2 DEF O!Transmit, O!rows
<1>4. Row(i, "FAILURE") = row[Notice(i)] /\ Row(i, "FAILURE")' = row'[Notice(i)]
  BY DEF Row, Notice
<1>5. /\ dw'.key = dw.key /\ dw'.pc \in {"sent", "raised"}
      /\ dw'.pc = "sent" => outcome = "ok"
  BY <1>1, <1>2 DEF O!Transmit, NoticeTypes, O!WorkerStates
<1>6. Has(i)' <=> Has(i)
  BY <1>3, <1>5 DEF Has
<1>7. /\ shown'[Notice(i)] >= shown[Notice(i)]
      /\ Has(i) /\ dw'.pc = "sent" => shown'[Notice(i)] >= dw.result
  <2>1. /\ shown \in [ItemKeys -> Nat] /\ dw.key \in ItemKeys /\ dw.result \in Nat
        /\ shown[Notice(i)] \in Nat
    BY <1>1, <1>3 DEF NoticeTypes, O!WorkerStates
  <2>2. CASE accepted
    <3>1. shown' = [shown EXCEPT ![dw.key] = O!Newer(shown[dw.key], dw.result)]
      BY <1>2, <2>2 DEF O!Transmit
    <3>2. CASE dw.key = Notice(i)
      BY <2>1, <3>1, <3>2 DEF O!Newer
    <3>3. CASE dw.key # Notice(i)
      BY <1>1, <2>1, <3>1, <3>3 DEF Has
    <3> QED
      BY <3>2, <3>3
  <2>3. CASE ~accepted
    BY <1>2, <1>5, <2>1, <2>3 DEF O!Transmit
  <2> QED
    BY <2>2, <2>3
<1>8. Withdrawn(i)'
  BY <1>1, <1>3, <1>4, <1>5, <1>6 DEF Joint, Withdrawn, Spent
<1>9. FirstNotice(i)'
  <2> SUFFICES ASSUME history[i].retries = 0 PROVE FirstNotice(i)'
    BY <1>1 DEF FirstNotice
  <2>1. /\ wanted[Notice(i)] \in Nat /\ shown[Notice(i)] \in Nat /\ shown'[Notice(i)] \in Int
        /\ dw.result \in Nat
    <3>1. shown' \in [ItemKeys -> Nat]
      BY <1>1, <1>2, <1>3 DEF O!Transmit, O!Newer, NoticeTypes, O!WorkerStates
    <3> QED
      BY <1>1, <3>1 DEF NoticeTypes, O!WorkerStates
  <2>2. Has(i) => dw.result >= wanted[Notice(i)]
    BY <1>1, <1>3 DEF Joint, FirstNotice
  <2>3. Has(i)' /\ dw'.pc = "sent" => shown'[Notice(i)] >= wanted'[Notice(i)]
    BY <1>3, <1>6, <1>7, <2>1, <2>2
  <2>4. Row(i, "FAILURE")' = "SENT" => shown'[Notice(i)] >= wanted'[Notice(i)]
    <3>1. row[Notice(i)] = "SENT" => shown[Notice(i)] >= wanted[Notice(i)]
      BY <1>1, <1>4 DEF Joint, FirstNotice
    <3> QED
      BY <1>3, <1>4, <1>7, <2>1, <3>1
  <2> QED
    BY <1>1, <1>3, <1>4, <1>5, <1>6, <2>3, <2>4 DEF Joint, FirstNotice
<1> QED
  BY <1>1, <1>8, <1>9 DEF Joint

(* The verdict.                                                             *)
LEMMA RereadJoint ==
  ASSUME JInv, O!RereadRow, UNCHANGED vars, NEW i \in Items PROVE Joint(i)'
<1>1. /\ Joint(i) /\ NoticeTypes /\ Notice(i) \in ItemKeys
      /\ OneRun(i)' /\ (Left(i)' <=> Left(i)) /\ history'[i] = history[i] /\ item'[i] = item[i]
  BY StillRuns, NoticeIsKey DEF JInv
<1>2. dw.pc \in {"sent", "raised"} /\ UNCHANGED <<row, attempts, wanted, shown>>
  BY DEF O!RereadRow, O!rows
<1>3. Row(i, "FAILURE") = row[Notice(i)] /\ Row(i, "FAILURE")' = row'[Notice(i)]
  BY DEF Row, Notice
<1>4. \/ dw'.pc = "idle"
      \/ /\ row[dw.key] = "SENDING" /\ dw'.key = dw.key /\ dw'.pc = "settling"
         /\ dw'.verdict = "SENT" => dw.pc = "sent"
  BY <1>1 DEF O!RereadRow, O!IdleWorker, O!Settled, NoticeTypes, O!WorkerStates
<1>5. Has(i)' => Has(i) /\ dw'.pc = "settling" /\ row[Notice(i)] = "SENDING"
  BY <1>2, <1>4 DEF Has
<1>6. Withdrawn(i)'
  <2>1. row[Notice(i)] = "SENDING" /\ Left(i) => Spent(i)
    BY <1>1, <1>3 DEF Joint, Withdrawn, Due
  <2> QED
    BY <1>1, <1>2, <1>3, <1>5, <2>1 DEF Joint, Withdrawn, Spent
<1>7. FirstNotice(i)'
  BY <1>1, <1>2, <1>3, <1>4, <1>5 DEF Joint, FirstNotice
<1> QED
  BY <1>1, <1>6, <1>7 DEF Joint

(* ... is written whatever the row has become.                              *)
LEMMA SettleJoint == ASSUME JInv, O!Settle, UNCHANGED vars, NEW i \in Items PROVE Joint(i)'
<1>1. /\ Joint(i) /\ NoticeTypes /\ Notice(i) \in ItemKeys
      /\ OneRun(i)' /\ (Left(i)' <=> Left(i)) /\ history'[i] = history[i] /\ item'[i] = item[i]
  BY StillRuns, NoticeIsKey DEF JInv
<1>2. /\ dw.pc = "settling" /\ UNCHANGED <<attempts, wanted, shown>>
      /\ row' = [row EXCEPT ![dw.key] = dw.verdict] /\ dw'.pc = "idle"
      /\ dw.verdict \in {"NONE", "SENT", "PENDING", "FAILED"}
  BY <1>1 DEF O!Settle, O!IdleWorker, NoticeTypes, O!WorkerStates
<1>3. Row(i, "FAILURE") = row[Notice(i)] /\ Row(i, "FAILURE")' = row'[Notice(i)]
  BY DEF Row, Notice
<1>4. ~Has(i)'
  BY <1>2 DEF Has
<1>5. CASE Has(i)
  <2>1. row'[Notice(i)] = dw.verdict
    BY <1>1, <1>2, <1>5 DEF Has, NoticeTypes
  <2>2. Withdrawn(i)'
    BY <1>1, <1>2, <1>3, <1>4, <1>5, <2>1 DEF Joint, Withdrawn, Spent, Due
  <2>3. FirstNotice(i)'
    BY <1>1, <1>2, <1>3, <1>4, <1>5, <2>1 DEF Joint, FirstNotice
  <2> QED
    BY <1>1, <2>2, <2>3 DEF Joint
<1>6. CASE ~Has(i)
  <2>1. row'[Notice(i)] = row[Notice(i)]
    BY <1>1, <1>2, <1>6 DEF Has, NoticeTypes
  <2>2. Withdrawn(i)'
    BY <1>1, <1>2, <1>3, <1>4, <2>1 DEF Joint, Withdrawn, Spent
  <2>3. FirstNotice(i)'
    BY <1>1, <1>2, <1>3, <1>4, <2>1 DEF Joint, FirstNotice
  <2> QED
    BY <1>1, <2>2, <2>3 DEF Joint
<1> QED
  BY <1>5, <1>6

(* The process dies: nobody holds an Item, nobody sends.                    *)
LEMMA RestartJoint == ASSUME JInv, Restart, NEW i \in Items PROVE Joint(i)'
<1>1. /\ Joint(i) /\ NoticeTypes /\ Notice(i) \in ItemKeys /\ IInv
      /\ UNCHANGED <<history, attempts, wanted, shown>>
      /\ \A w \in Workers : wk'[w].item = Nil
      /\ dw'.pc = "idle"
  BY NoticeIsKey DEF JInv, Restart, CrashRestart, O!CrashRestart, IdleWorker, O!IdleWorker
<1>2. row'[Notice(i)] = IF row[Notice(i)] = "SENDING" THEN "PENDING" ELSE row[Notice(i)]
  BY <1>1 DEF Restart, O!CrashRestart, O!RequeueSending
<1>3. Row(i, "FAILURE") = row[Notice(i)] /\ Row(i, "FAILURE")' = row'[Notice(i)]
  BY DEF Row, Notice
<1>4. item'[i].status = "FAILED" <=> item[i].status = "FAILED"
  BY <1>1 DEF Restart, CrashRestart, Requeued, IInv, TypeOK, ItemRows
<1>5. ~Has(i)' /\ (Left(i)' <=> Left(i)) /\ (Spent(i)' <=> Spent(i))
  BY <1>1, <1>4 DEF Has, Left, Spent
<1>6. OneRun(i)'
  BY <1>1, PipelineAssumption DEF OneRun
<1>7. Withdrawn(i)'
  BY <1>1, <1>2, <1>3, <1>5 DEF Joint, Withdrawn, Due
<1>8. FirstNotice(i)'
  BY <1>1, <1>2, <1>3, <1>4, <1>5 DEF Joint, FirstNotice
<1> QED
  BY <1>6, <1>7, <1>8 DEF Joint

-----------------------------------------------------------------------------
(* Every step                                                               *)

(* Whatever the outbox does, its rows keep their types.                     *)
LEMMA NoticeTyped == ASSUME JInv, [NextBoth]_allVars PROVE NoticeTypes'
<1>0. NoticeTypes /\ IInv
  BY DEF JInv
<1>1. ASSUME NEW k \in ItemKeys, O!EnqueueItemDelivery(k) PROVE NoticeTypes'
  BY <1>0, <1>1
     DEF NoticeTypes, O!EnqueueItemDelivery, O!Insert, O!Reopen, O!Statuses, O!Terminal
<1>2. ASSUME NEW k \in ItemKeys, O!CancelFailure(k) PROVE NoticeTypes'
  BY <1>0, <1>2 DEF NoticeTypes, O!CancelFailure, O!Statuses, O!Terminal
<1>3. ASSUME NEW k \in ItemKeys, O!Claim(k) PROVE NoticeTypes'
  <2>1. dw' \in O!WorkerStates /\ dw'.key = k
    BY <1>0, <1>3 DEF NoticeTypes, O!Claim, O!WorkerStates, O!WorkerPcs
  <2>2. row' \in [ItemKeys -> O!Statuses]
    BY <1>0, <1>3 DEF NoticeTypes, O!Claim, O!Statuses, O!Terminal
  <2>3. attempts' \in [ItemKeys -> Nat] /\ UNCHANGED <<wanted, shown>>
    BY <1>0, <1>3 DEF NoticeTypes, O!Claim
  <2> QED
    BY <1>0, <2>1, <2>2, <2>3 DEF NoticeTypes
<1>4. ASSUME ReadItem PROVE NoticeTypes'
  <2>1. PICK obsolete \in BOOLEAN, n \in Nat : O!ReadSnapshot(obsolete, n)
    <3> DEFINE ahead == IF dw.key[2] = "READY" THEN NextResult(dw.key[1]) ELSE 0
               obsolete == item[dw.key[1]].status # "FAILED"
    <3>1. O!ReadSnapshot(obsolete, wanted[dw.key] + ahead) /\ obsolete \in BOOLEAN
      BY <1>4 DEF ReadItem
    <3>2. ahead \in Nat
      BY DEF NextResult
    <3>3. wanted[dw.key] \in Nat
      BY <1>0, <3>1 DEF NoticeTypes, O!ReadSnapshot
    <3> HIDE DEF ahead, obsolete
    <3>4. wanted[dw.key] + ahead \in Nat
      BY <3>2, <3>3
    <3> QED
      BY <3>1, <3>4
  <2> QED
    BY <1>0, <2>1 DEF O!ReadSnapshot, O!rows, NoticeTypes, O!WorkerStates, O!WorkerPcs
<1>5. ASSUME O!Telegram PROVE NoticeTypes'
  <2>1. PICK accepted \in BOOLEAN, outcome \in {"ok", "transient", "permanent"} :
           O!Transmit(accepted, outcome)
    BY <1>5 DEF O!Telegram
  <2>2. dw' \in O!WorkerStates /\ dw'.key = dw.key
    BY <1>0, <2>1 DEF O!Transmit, NoticeTypes, O!WorkerStates, O!WorkerPcs
  <2>3. shown' \in [ItemKeys -> Nat]
    BY <1>0, <2>1 DEF O!Transmit, O!Newer, NoticeTypes, O!WorkerStates
  <2> QED
    BY <1>0, <2>1, <2>2, <2>3 DEF O!Transmit, O!rows, NoticeTypes
<1>6. ASSUME O!RereadRow PROVE NoticeTypes'
  <2>1. O!IdleWorker \in O!WorkerStates /\ O!IdleWorker.pc = "idle"
    BY DEF O!IdleWorker, O!WorkerStates, O!WorkerPcs
  <2>2. O!Settled(dw.key) \in {"SENT", "PENDING", "FAILED"}
    BY DEF O!Settled
  <2>3. dw' \in O!WorkerStates /\ (dw'.pc # "idle" => dw'.key = dw.key /\ dw.pc # "idle")
    BY <1>0, <1>6, <2>1, <2>2 DEF O!RereadRow, NoticeTypes, O!WorkerStates, O!WorkerPcs
  <2> QED
    BY <1>0, <1>6, <2>3 DEF O!RereadRow, O!rows, NoticeTypes
<1>7. ASSUME O!Settle PROVE NoticeTypes'
  <2>1. O!IdleWorker \in O!WorkerStates /\ O!IdleWorker.pc = "idle"
    BY DEF O!IdleWorker, O!WorkerStates, O!WorkerPcs
  <2> QED
    BY <1>0, <1>7, <2>1 DEF O!Settle, NoticeTypes, O!WorkerStates, O!Statuses, O!Terminal
<1>8. ASSUME O!CrashRestart PROVE NoticeTypes'
  <2>1. O!IdleWorker \in O!WorkerStates /\ O!IdleWorker.pc = "idle"
    BY DEF O!IdleWorker, O!WorkerStates, O!WorkerPcs
  <2> QED
    BY <1>0, <1>8, <2>1 DEF O!CrashRestart, O!RequeueSending, NoticeTypes, O!Statuses
<1>9. ASSUME UNCHANGED outbox PROVE NoticeTypes'
  BY <1>0, <1>9 DEF outbox, NoticeTypes
<1>10. ASSUME NEW w \in Workers, ProcessOne(w) PROVE NoticeTypes'
  <2>1. PublishResult(w) \/ AnnounceFailure(w) => wk[w].item \in Items
    BY <1>0 DEF PublishResult, AnnounceFailure, Publish, MarkFailed, At, IInv, TypeOK
  <2> QED
    BY <1>1, <1>9, <1>10, <2>1
       DEF ProcessOne, PublishResult, AnnounceFailure, Announce, Key, ItemKeys
<1>11. ASSUME UserActs PROVE NoticeTypes'
  <2>1. RetryAndCancel => tap.item \in Items
    BY <1>0 DEF RetryAndCancel, RetryWon, IInv, TypeOK
  <2> QED
    BY <1>2, <1>9, <1>11, <2>1 DEF UserActs, RetryAndCancel, Key, ItemKeys
<1>12. ASSUME Deliver PROVE NoticeTypes'
  BY <1>3, <1>4, <1>5, <1>6, <1>7, <1>12 DEF Deliver
<1> QED
  BY <1>8, <1>9, <1>10, <1>11, <1>12 DEF NextBoth, Restart, allVars

(* Every step keeps the two in agreement.                                   *)
LEMMA NextJoint == ASSUME JInv, [NextBoth]_allVars PROVE JInv'
<1>1. IInv' /\ EachPaid'
  <2>1. [Next]_vars /\ IInv /\ EachPaid
    BY PipelineStep DEF JInv
  <2> QED
    BY <2>1, NextInv, NextPaid
<1>2. ASSUME NEW i \in Items PROVE Joint(i)'
  <2>1. ASSUME NEW w \in Workers, ProcessOne(w) PROVE Joint(i)'
    BY <2>1, SilentStep, PublishJoint, FailureJoint DEF ProcessOne
  <2>2. ASSUME UserActs PROVE Joint(i)'
    BY <2>2, SilentStep, RetryJoint DEF UserActs
  <2>3. ASSUME Deliver PROVE Joint(i)'
    BY <2>3, ClaimJoint, ReadJoint, TelegramJoint, RereadJoint, SettleJoint DEF Deliver
  <2>4. ASSUME UNCHANGED allVars PROVE Joint(i)'
    BY <2>4, SilentStep DEF allVars
  <2> QED
    BY <2>1, <2>2, <2>3, <2>4, RestartJoint DEF NextBoth
<1> QED
  BY <1>1, <1>2, NoticeTyped DEF JInv

(* The invariant of pipeline and outbox together.                           *)
THEOREM JointInvariance == SpecBoth => []JInv
<1>1. InitBoth => JInv
  BY InitJoint
<1>2. JInv /\ [NextBoth]_allVars => JInv'
  BY NextJoint
<1> QED
  BY <1>1, <1>2, PTL DEF SpecBoth

(* D-011: Retry withdraws the notice of the failure it leaves behind, but   *)
(* for one whose sending had begun before.                                  *)
THEOREM NoticeWithdrawn == SpecBoth => []RetryWithdrawsNotice
<1>1. JInv => RetryWithdrawsNotice
  BY DEF JInv, Joint, Withdrawn, Left, Spent, Notice, RetryWithdrawsNotice
<1> QED
  BY <1>1, JointInvariance, PTL

(* No failure is settled in silence before the user did retry.              *)
THEOREM NoticeKept == SpecBoth => []NoticeNotSwallowed
<1>1. ASSUME JInv PROVE NoticeNotSwallowed
  <2> SUFFICES ASSUME NEW i \in Items, Row(i, "FAILURE") = "SENT",
                      shown[Key(i, "FAILURE")] < wanted[Key(i, "FAILURE")]
               PROVE  history[i].retries > 0
    BY DEF NoticeNotSwallowed
  <2>1. history[i].retries \in Nat
    BY <1>1 DEF JInv, IInv, TypeOK
  <2>2. shown[Notice(i)] \in Nat /\ wanted[Notice(i)] \in Nat
    BY <1>1, NoticeIsKey DEF JInv, NoticeTypes
  <2>3. history[i].retries = 0 => shown[Notice(i)] >= wanted[Notice(i)]
    BY <1>1 DEF JInv, Joint, FirstNotice
  <2> QED
    BY <2>1, <2>2, <2>3 DEF Notice
<1> QED
  BY <1>1, JointInvariance, PTL

(* Beside the outbox, too, the pipeline keeps to its own specification.     *)
THEOREM PipelineKept == SpecBoth => Spec
<1>1. InitBoth => Init
  BY DEF InitBoth
<1>2. [NextBoth]_allVars => [Next]_vars
  BY PipelineStep
<1> QED
  BY <1>1, <1>2, PTL DEF SpecBoth, Spec

=============================================================================
