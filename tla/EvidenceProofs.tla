---------------------------- MODULE EvidenceProofs ----------------------------
(***************************************************************************)
(* Theorems about what is below the sources of the pipeline: transcripts,  *)
(* posts and summaries, each by an inductive invariant of its own, and     *)
(* then ItemEvidence, where they are side by side, and what they are to    *)
(* the pipeline: sources that keep the promise of OneSource.               *)
(*                                                                         *)
(* T, P and S are the instances of Transcripts, Posts and Summaries that   *)
(* ItemEvidence declares; a name with their prefix is theirs.              *)
(***************************************************************************)
EXTENDS ItemEvidence, ItemPipelineProofs, SequenceTheorems

-----------------------------------------------------------------------------
(* Histories of purchases, of a segment or of a chunk: nothing is bought    *)
(* again while it is the newest thing bought and not lost.                  *)
Thrifty(bought) ==
    \A k \in 1..(Len(bought) - 1) : bought[k] = Nil \/ bought[k] # bought[k + 1]

Last(bought) == bought[Len(bought)]

(* One more purchase, of what is not what the newest one was.               *)
LEMMA BuyAnother ==
  ASSUME NEW A, NEW b \in Seq(A), NEW x \in A, Thrifty(b),
         b # <<>> => Last(b) = Nil \/ Last(b) # x
  PROVE  /\ Thrifty(Append(b, x)) /\ Append(b, x) \in Seq(A)
         /\ Append(b, x) # <<>> /\ Last(Append(b, x)) = x
<1>1. /\ Len(b) \in Nat /\ Append(b, x) \in Seq(A) /\ Len(Append(b, x)) = Len(b) + 1
      /\ \A k \in 1..Len(b) : Append(b, x)[k] = b[k]
      /\ Append(b, x)[Len(b) + 1] = x
  BY AppendProperties, LenProperties
<1>2. ASSUME NEW k \in 1..Len(b)
      PROVE Append(b, x)[k] = Nil \/ Append(b, x)[k] # Append(b, x)[k + 1]
  <2>1. CASE k = Len(b)
    BY <1>1, <2>1, EmptySeq DEF Last
  <2>2. CASE k # Len(b)
    <3>1. k \in 1..(Len(b) - 1) /\ k + 1 \in 1..Len(b)
      BY <1>1, <2>2
    <3> QED
      BY <1>1, <3>1 DEF Thrifty
  <2> QED
    BY <2>1, <2>2
<1>3. Thrifty(Append(b, x))
  <2>1. Len(Append(b, x)) - 1 = Len(b)
    BY <1>1
  <2> QED
    BY <1>2, <2>1 DEF Thrifty
<1> QED
  BY <1>1, <1>3, AppendProperties DEF Last

(* A place and the one after it.                                            *)
LEMMA NextPlace ==
  ASSUME NEW n \in Nat, NEW k \in 1..(n - 1) PROVE k \in 1..n /\ k + 1 \in 1..n /\ k # n
  OBVIOUS

LEMMA LastPlace == ASSUME NEW n \in Nat, n > 0 PROVE n \in 1..n
  OBVIOUS

(* What was bought last is lost.                                            *)
LEMMA LoseLast ==
  ASSUME NEW A, Nil \in A, NEW b \in Seq(A), Thrifty(b), b # <<>>
  PROVE  LET c == [b EXCEPT ![Len(b)] = Nil]
         IN  c \in Seq(A) /\ c # <<>> /\ Thrifty(c) /\ Last(c) = Nil
<1> DEFINE c == [b EXCEPT ![Len(b)] = Nil]
<1>1. Len(b) \in Nat /\ Len(b) > 0 /\ DOMAIN b = 1..Len(b)
  <2>1. Len(b) \in Nat /\ Len(b) # 0
    BY EmptySeq, LenProperties
  <2> QED
    BY <2>1, LenProperties
<1>2. /\ c \in Seq(A) /\ Len(c) = Len(b)
      /\ \A k \in 1..Len(b) : c[k] = IF k = Len(b) THEN Nil ELSE b[k]
  BY <1>1, ExceptSeq
<1> HIDE DEF c
<1>3. Thrifty(c)
  <2> SUFFICES ASSUME NEW k \in 1..(Len(b) - 1) PROVE c[k] = Nil \/ c[k] # c[k + 1]
    BY <1>2 DEF Thrifty
  <2>1. k \in 1..Len(b) /\ k + 1 \in 1..Len(b) /\ k # Len(b)
    BY <1>1, NextPlace
  <2>2. b[k] = Nil \/ b[k] # b[k + 1]
    BY DEF Thrifty
  <2> QED
    BY <1>2, <2>1, <2>2
<1>4. c # <<>> /\ Last(c) = Nil
  <2>1. Len(b) \in 1..Len(b)
    BY <1>1, LastPlace
  <2>2. c[Len(b)] = Nil
    BY <1>2, <2>1
  <2>3. c # <<>>
    BY <1>1, <1>2, EmptySeq
  <2> QED
    BY <1>2, <2>2, <2>3 DEF Last
<1> QED
  BY <1>2, <1>3, <1>4 DEF c

-----------------------------------------------------------------------------
(* Summaries: the rows before the place of a run are those of its text, and *)
(* a row is what was bought last in its place.                              *)

LEMMA ChunkFacts ==
  ASSUME NEW v \in Versions
  PROVE  /\ Chunks[v] \in Seq(S!Texts) /\ Len(Chunks[v]) \in Nat \ {0}
         /\ DOMAIN Chunks[v] = 1..Len(Chunks[v])
         /\ \A n \in 1..Len(Chunks[v]) : n \in S!Indices /\ Chunks[v][n] \in S!Texts
<1>1. Chunks[v] \in Seq(S!Texts) /\ Chunks[v] # <<>>
  BY EvidenceAssumption DEF S!SummaryAssumption
<1>2. /\ Len(Chunks[v]) \in Nat \ {0} /\ DOMAIN Chunks[v] = 1..Len(Chunks[v])
      /\ \A n \in 1..Len(Chunks[v]) : Chunks[v][n] \in S!Texts
  BY <1>1, EmptySeq, LenProperties, ElementOfSeq
<1> QED
  BY <1>1, <1>2 DEF S!Indices

LEMMA IndicesAreNumbers == S!Indices \subseteq Nat
  BY ChunkFacts DEF S!Indices

SummaryTyped == /\ version \in Versions
                /\ summary \in [S!Indices -> S!Texts \cup {Nil}]
                /\ summaryBill \in [S!Indices -> Seq(S!Texts \cup {Nil})]
                /\ analyses \in 0..MaxAnalyses

(* What a run has put together so far is the text up to its place, and so   *)
(* are the rows.                                                            *)
RunFollowsText ==
    /\ at \in Nat
    /\ IF at = 0 THEN used = <<>>
       ELSE /\ S!IsCut(version) /\ given = Nil
            /\ at <= Len(Chunks[version]) + 1
            /\ used \in Seq(S!Texts) /\ Len(used) = at - 1
            /\ \A k \in 1..(at - 1) : used[k] = Chunks[version][k]
                                      /\ summary[k] = Chunks[version][k]

BillTellsRow ==
    \A i \in S!Indices :
       /\ Thrifty(summaryBill[i])
       /\ IF summaryBill[i] = <<>> THEN summary[i] = Nil ELSE Last(summaryBill[i]) = summary[i]

(* The version that an analysis was made of exists.                         *)
GivenText == given # Nil => given.version \in Versions

SummaryIInv == SummaryTyped /\ RunFollowsText /\ BillTellsRow /\ GivenText /\ S!SummariesOfOneText

LEMMA SummaryInitHolds == ASSUME S!Init PROVE SummaryIInv
<1>1. version \in Versions
  BY EvidenceAssumption DEF S!Init, S!SummaryAssumption
<1>2. analyses \in 0..MaxAnalyses
  BY EvidenceAssumption DEF S!Init, S!SummaryAssumption
<1>3. SummaryTyped
  BY <1>1, <1>2 DEF S!Init, SummaryTyped
<1>4. BillTellsRow
  BY DEF S!Init, BillTellsRow, Thrifty
<1> QED
  BY <1>3, <1>4 DEF S!Init, SummaryIInv, RunFollowsText, GivenText, S!SummariesOfOneText

LEMMA SummaryStep == ASSUME SummaryIInv, [S!Next]_(S!vars) PROVE SummaryIInv'
<1> USE DEF SummaryIInv
<1>0. /\ Chunks[version] \in Seq(S!Texts) /\ Len(Chunks[version]) \in Nat \ {0}
      /\ \A n \in 1..Len(Chunks[version]) : n \in S!Indices /\ Chunks[version][n] \in S!Texts
      /\ MaxAnalyses \in Nat
  BY ChunkFacts, EvidenceAssumption DEF SummaryTyped, S!SummaryAssumption
<1>1. ASSUME S!AnalyzeWhole PROVE SummaryIInv'
  <2>1. SummaryTyped' /\ RunFollowsText' /\ BillTellsRow'
    BY <1>0, <1>1 DEF S!AnalyzeWhole, S!Running, SummaryTyped, RunFollowsText, BillTellsRow
  <2>2. GivenText' /\ S!SummariesOfOneText'
    BY <1>1 DEF S!AnalyzeWhole, SummaryTyped, GivenText, S!SummariesOfOneText, S!IsCut
  <2> QED
    BY <2>1, <2>2
<1>2. ASSUME S!Begin PROVE SummaryIInv'
  <2>1. SummaryTyped' /\ BillTellsRow'
    BY <1>0, <1>2 DEF S!Begin, SummaryTyped, BillTellsRow
  <2>2. RunFollowsText'
    BY <1>0, <1>2, EmptySeq DEF S!Begin, RunFollowsText, SummaryTyped, S!IsCut
  <2> QED
    BY <1>2, <2>1, <2>2 DEF S!Begin, GivenText, S!SummariesOfOneText
<1>3. ASSUME S!Reuse PROVE SummaryIInv'
  <2>1. /\ at \in 1..Len(Chunks[version]) /\ summary[at] = Chunks[version][at]
        /\ used' = Append(used, Chunks[version][at]) /\ at' = at + 1
    BY <1>0, <1>3 DEF S!Reuse, S!InText, S!Running, S!Fits, S!Here, RunFollowsText
  <2>2. /\ used' \in Seq(S!Texts) /\ Len(used') = at
        /\ \A k \in 1..at : used'[k] = Chunks[version][k]
    <3>1. used \in Seq(S!Texts) /\ Len(used) = at - 1 /\ Chunks[version][at] \in S!Texts
      BY <1>0, <2>1 DEF RunFollowsText
    <3>2. /\ used' \in Seq(S!Texts) /\ Len(used') = Len(used) + 1
          /\ \A k \in 1..Len(used) : used'[k] = used[k]
          /\ used'[Len(used) + 1] = Chunks[version][at]
      BY <2>1, <3>1, AppendProperties
    <3>3. \A k \in 1..(at - 1) : used[k] = Chunks[version][k]
      BY <2>1 DEF RunFollowsText
    <3> QED
      BY <2>1, <3>1, <3>2, <3>3
  <2>3. RunFollowsText'
    BY <1>0, <1>3, <2>1, <2>2 DEF S!Reuse, RunFollowsText, S!IsCut
  <2> QED
    BY <1>3, <2>1, <2>3
       DEF S!Reuse, SummaryTyped, RunFollowsText, BillTellsRow, GivenText, S!SummariesOfOneText
<1>4. ASSUME S!Summarize PROVE SummaryIInv'
  <2>1. /\ at \in 1..Len(Chunks[version]) /\ summary[at] # Chunks[version][at]
        /\ at \in S!Indices /\ Chunks[version][at] \in S!Texts
        /\ used' = Append(used, Chunks[version][at]) /\ at' = at + 1
        /\ summary' = [summary EXCEPT ![at] = Chunks[version][at]]
        /\ summaryBill' = [summaryBill EXCEPT ![at] = Append(@, Chunks[version][at])]
        /\ UNCHANGED <<version, given, analyses>> /\ given = Nil
    BY <1>0, <1>4 DEF S!Summarize, S!InText, S!Running, S!Fits, S!Here, RunFollowsText
  <2>2. /\ used' \in Seq(S!Texts) /\ Len(used') = at
        /\ \A k \in 1..at : used'[k] = Chunks[version][k]
    <3>1. used \in Seq(S!Texts) /\ Len(used) = at - 1
      BY <2>1 DEF RunFollowsText
    <3>2. /\ used' \in Seq(S!Texts) /\ Len(used') = Len(used) + 1
          /\ \A k \in 1..Len(used) : used'[k] = used[k]
          /\ used'[Len(used) + 1] = Chunks[version][at]
      BY <2>1, <3>1, AppendProperties
    <3>3. \A k \in 1..(at - 1) : used[k] = Chunks[version][k]
      BY <2>1 DEF RunFollowsText
    <3> QED
      BY <2>1, <3>1, <3>2, <3>3
  <2>3. /\ summary'[at] = Chunks[version][at]
        /\ \A i \in S!Indices \ {at} : summary'[i] = summary[i]
    BY <2>1 DEF SummaryTyped
  <2>4. RunFollowsText'
    <3>1. \A k \in 1..(at - 1) : k \in S!Indices /\ k # at
      BY <1>0, <2>1
    <3>2. \A k \in 1..at : summary'[k] = Chunks[version][k]
      BY <2>1, <2>3, <3>1 DEF RunFollowsText
    <3> QED
      BY <1>0, <2>1, <2>2, <3>2 DEF RunFollowsText, S!IsCut
  <2>5. /\ Thrifty(summaryBill'[at]) /\ summaryBill'[at] \in Seq(S!Texts \cup {Nil})
        /\ summaryBill'[at] # <<>> /\ Last(summaryBill'[at]) = Chunks[version][at]
    <3>1. summaryBill[at] \in Seq(S!Texts \cup {Nil}) /\ Thrifty(summaryBill[at])
      BY <2>1 DEF SummaryTyped, BillTellsRow
    <3>2. summaryBill[at] # <<>> => Last(summaryBill[at]) # Chunks[version][at]
      BY <2>1 DEF BillTellsRow
    <3>3. summaryBill'[at] = Append(summaryBill[at], Chunks[version][at])
      BY <2>1 DEF SummaryTyped
    <3> QED
      BY <2>1, <3>1, <3>2, <3>3, BuyAnother
  <2>6. SummaryTyped'
    BY <2>1, <2>5 DEF SummaryTyped
  <2>7. BillTellsRow'
    BY <2>1, <2>3, <2>5 DEF BillTellsRow, SummaryTyped
  <2> QED
    BY <2>1, <2>4, <2>6, <2>7 DEF GivenText, S!SummariesOfOneText
<1>5. ASSUME S!Stop PROVE SummaryIInv'
  BY <1>5 DEF S!Stop, SummaryTyped, RunFollowsText, BillTellsRow, GivenText, S!SummariesOfOneText
<1>6. ASSUME S!Finish PROVE SummaryIInv'
  <2>1. /\ at = Len(Chunks[version]) + 1 /\ S!IsCut(version)
        /\ summary' = [i \in S!Indices |-> IF i < at THEN summary[i] ELSE Nil]
        /\ summaryBill' = [i \in S!Indices |-> IF i < at \/ summary[i] = Nil THEN summaryBill[i]
                                               ELSE Append(summaryBill[i], Nil)]
        /\ given' = [version |-> version, text |-> used]
        /\ at' = 0 /\ used' = <<>> /\ UNCHANGED <<version, analyses>>
    BY <1>0, <1>6 DEF S!Finish, S!Running, S!InText, RunFollowsText
  <2>2. used = Chunks[version]
    BY <1>0, <2>1, SeqEqual DEF RunFollowsText
  <2>3. S!SummariesOfOneText'
    <3>1. \A i \in S!Indices : summary'[i] = IF i <= Len(Chunks[version]) THEN Chunks[version][i]
                                              ELSE Nil
      <4>1. ASSUME NEW i \in S!Indices PROVE i \in Nat \ {0}
        <5>1. PICK v \in Versions : i \in DOMAIN Chunks[v]
          BY <4>1 DEF S!Indices
        <5> QED
          BY <5>1, ChunkFacts
      <4> QED
        BY <1>0, <2>1, <4>1 DEF RunFollowsText
    <3>2. given'.version = version /\ given'.text = Chunks[version]
      BY <2>1, <2>2
    <3> QED
      BY <2>1, <3>1, <3>2 DEF S!SummariesOfOneText
  <2>4. ASSUME NEW i \in S!Indices
        PROVE  /\ summary'[i] \in S!Texts \cup {Nil}
               /\ summaryBill'[i] \in Seq(S!Texts \cup {Nil}) /\ Thrifty(summaryBill'[i])
               /\ IF summaryBill'[i] = <<>> THEN summary'[i] = Nil
                  ELSE Last(summaryBill'[i]) = summary'[i]
    <3>1. /\ summaryBill[i] \in Seq(S!Texts \cup {Nil}) /\ Thrifty(summaryBill[i])
          /\ summary[i] \in S!Texts \cup {Nil}
          /\ IF summaryBill[i] = <<>> THEN summary[i] = Nil ELSE Last(summaryBill[i]) = summary[i]
      BY <2>4 DEF SummaryTyped, BillTellsRow
    <3>2. CASE i < at \/ summary[i] = Nil
      BY <2>1, <3>1, <3>2
    <3>3. CASE ~(i < at) /\ summary[i] # Nil
      <4>1. summaryBill'[i] = Append(summaryBill[i], Nil) /\ summary'[i] = Nil
        BY <2>1, <3>3
      <4>2. summaryBill[i] # <<>> => Last(summaryBill[i]) # Nil
        BY <3>1, <3>3
      <4> QED
        BY <3>1, <4>1, <4>2, BuyAnother
    <3> QED
      BY <3>2, <3>3
  <2>5. SummaryTyped' /\ BillTellsRow'
    BY <2>1, <2>4 DEF SummaryTyped, BillTellsRow
  <2>6. RunFollowsText' /\ GivenText'
    BY <2>1 DEF RunFollowsText, GivenText, SummaryTyped
  <2> QED
    BY <2>3, <2>5, <2>6
<1>7. ASSUME NEW v \in Versions, S!Change(v) PROVE SummaryIInv'
  BY <1>7 DEF S!Change, S!Running, SummaryTyped, RunFollowsText, BillTellsRow, GivenText,
              S!SummariesOfOneText, S!IsCut
<1>8. ASSUME UNCHANGED S!vars PROVE SummaryIInv'
  BY <1>8 DEF S!vars, SummaryTyped, RunFollowsText, BillTellsRow, GivenText, S!SummariesOfOneText,
              S!IsCut
<1> QED
  BY <1>1, <1>2, <1>3, <1>4, <1>5, <1>6, <1>7, <1>8 DEF S!Next

SummarySpec == S!Init /\ [][S!Next]_(S!vars)

(* The analyser gets the summaries of one text, all of them and in order,   *)
(* none of them bought again while its row was there                        *)
(* (_durable_chunk_summaries).                                              *)
THEOREM SummariesFit ==
  SummarySpec => [](S!TypeOK /\ S!SummariesOfOneText /\ S!ChunksBoughtOnce)
<1>1. S!Init => SummaryIInv
  BY SummaryInitHolds
<1>2. SummaryIInv /\ [S!Next]_(S!vars) => SummaryIInv'
  BY SummaryStep
<1>3. SummaryIInv => S!TypeOK /\ S!SummariesOfOneText /\ S!ChunksBoughtOnce
  <2> SUFFICES ASSUME SummaryIInv PROVE S!TypeOK /\ S!ChunksBoughtOnce
    BY DEF SummaryIInv
  <2>1. Len(Chunks[version]) \in Nat
    BY ChunkFacts DEF SummaryIInv, SummaryTyped
  <2>2. S!TypeOK
    BY <2>1, EmptySeq DEF SummaryIInv, SummaryTyped, RunFollowsText, S!TypeOK, S!Running
  <2> QED
    BY <2>2 DEF SummaryIInv, BillTellsRow, Thrifty, S!ChunksBoughtOnce
<1> QED
  BY <1>1, <1>2, <1>3, PTL DEF SummarySpec

-----------------------------------------------------------------------------
(* Transcripts: the texts in the hands of a run are of its download and its *)
(* provider, what it found of a segment is the newest row, and that is what *)
(* was bought last unless it was lost.                                      *)

SegmentStates == {"waiting", "calling", "answered", "told", "saved", "failed"}
SegmentRow == [segment : Segments, of : Downloads, by : Segmented]
MediaRun == [pc : {"idle", "transcribing", "looking", "extracted"}, of : Downloads \cup {Nil},
             cached : [Segments -> T!Transcription \cup {Nil}],
             text : [Segments -> T!Transcription \cup {Nil}], at : [Segments -> SegmentStates]]

MediaTyped == /\ medium \in {"audio", "video"} /\ notes \in BOOLEAN
              /\ chunk \in Seq(SegmentRow)
              /\ transcript \in [Segments -> T!Transcription] \cup {Nil}
              /\ mediaSource \in {"PENDING", "READY", "FAILED"} /\ provider \in Providers
              /\ mediaRun \in MediaRun /\ mediaRuns \in 0..MaxHearings
              /\ segmentBill \in [Segments -> Seq(T!Transcription \cup {Nil})]
              /\ unheard \subseteq Silent

(* The rows of a segment have a last one.                                   *)
HasLast(rows) == rows = {} \/ \E n \in rows : \A m \in rows : m <= n
RowsHaveLast == \A i \in Segments : HasLast(T!RowsOf(i))

(* What a run knows of a segment.                                           *)
Heard(i) ==
    /\ mediaRun.pc # "transcribing" => mediaRun.at[i] = "waiting"
    /\ mediaRun.pc = "transcribing" =>
          /\ mediaRun.at[i] \in {"answered", "told", "saved"} => mediaRun.text[i] = T!Wanted(i)
          /\ mediaRun.at[i] \in {"waiting", "calling"} => mediaRun.cached[i] = T!Newest(i)
          /\ mediaRun.at[i] = "calling" => ~T!Matches(i)

RunFits ==
    /\ IF mediaRun.pc = "idle" THEN mediaRun = T!Idle ELSE mediaSource = "PENDING"
    /\ mediaRun.pc = "transcribing" => mediaRun.of \in Downloads /\ ~T!Restorable
    /\ mediaRun.pc = "looking" => medium = "video" /\ (transcript = Nil => unheard # {})
    /\ mediaRun.pc = "extracted" => T!Restorable

(* What was bought last of a segment is in a row or in memory, or lost.     *)
Billed(i) ==
    /\ Thrifty(segmentBill[i])
    /\ transcript = Nil /\ segmentBill[i] # <<>> /\ Last(segmentBill[i]) # Nil
          => Last(segmentBill[i]) = IF mediaRun.at[i] \in {"answered", "told"} THEN T!Wanted(i)
                                    ELSE T!Newest(i)
    /\ mediaRun.at[i] \in {"answered", "told"} => segmentBill[i] # <<>>

MediaIInv == /\ MediaTyped /\ RowsHaveLast /\ RunFits
             /\ \A i \in Segments : Heard(i) /\ Billed(i)
             /\ T!OneDownload /\ T!VisualOnlyIsSilent

LEMMA MediaAssumed ==
  /\ Segments # {} /\ Providers # {}
  /\ Silent \subseteq Downloads /\ Segmented \subseteq Providers
  /\ MaxHearings \in Nat /\ Nil \notin T!Transcription /\ Nil \notin [Segments -> T!Transcription]
  BY EvidenceAssumption DEF T!TranscriptAssumption

LEMMA IdleRun == /\ T!Idle \in MediaRun /\ T!Idle.pc = "idle"
                 /\ \A i \in Segments : T!Idle.at[i] = "waiting"
  BY DEF T!Idle, T!Empty, MediaRun, SegmentStates

LEMMA MediaInitHolds == ASSUME T!Init PROVE MediaIInv
<1>1. provider \in Providers
  BY MediaAssumed DEF T!Init
<1>2. MediaTyped
  <2>1. mediaRuns \in 0..MaxHearings /\ mediaRun \in MediaRun
    BY IdleRun, MediaAssumed DEF T!Init
  <2>2. segmentBill \in [Segments -> Seq(T!Transcription \cup {Nil})] /\ chunk \in Seq(SegmentRow)
    BY EmptySeq DEF T!Init
  <2> QED
    BY <1>1, <2>1, <2>2 DEF T!Init, MediaTyped
<1>3. RowsHaveLast
  BY DEF T!Init, RowsHaveLast, HasLast, T!RowsOf
<1>4. ASSUME NEW i \in Segments PROVE Heard(i) /\ Billed(i)
  BY <1>4, IdleRun DEF T!Init, Heard, Billed, Thrifty
<1> QED
  BY <1>2, <1>3, <1>4, IdleRun
     DEF T!Init, MediaIInv, RunFits, T!OneDownload, T!VisualOnlyIsSilent

(* The greatest of some numbers.                                            *)
LEMMA LastIs ==
  ASSUME NEW rows, \E n \in rows : \A m \in rows : m <= n
  PROVE  T!LastOf(rows) \in rows /\ \A m \in rows : m <= T!LastOf(rows)
  BY Zenon DEF T!LastOf

(* A row of a segment is saved behind those that are there.                 *)
LEMMA RowSaved ==
  ASSUME MediaTyped, RowsHaveLast, NEW x \in SegmentRow, chunk' = Append(chunk, x)
  PROVE  /\ chunk' \in Seq(SegmentRow) /\ RowsHaveLast'
         /\ T!Newest(x.segment)' = x
         /\ \A i \in Segments \ {x.segment} : T!Newest(i)' = T!Newest(i)
<1>1. chunk \in Seq(SegmentRow) /\ Len(chunk) \in Nat /\ DOMAIN chunk = 1..Len(chunk)
  BY LenProperties DEF MediaTyped
<1>2. /\ chunk' \in Seq(SegmentRow) /\ Len(chunk') = Len(chunk) + 1
      /\ \A k \in 1..Len(chunk) : chunk'[k] = chunk[k]
      /\ chunk'[Len(chunk) + 1] = x
  BY <1>1, AppendProperties
<1>3. DOMAIN chunk' = 1..(Len(chunk) + 1)
  BY <1>1, <1>2, LenProperties
<1>4. x.segment \in Segments
  BY DEF SegmentRow
<1>5. T!RowsOf(x.segment)' = T!RowsOf(x.segment) \cup {Len(chunk) + 1}
  BY <1>1, <1>2, <1>3 DEF T!RowsOf
<1>6. \A i \in Segments \ {x.segment} : T!RowsOf(i)' = T!RowsOf(i)
  BY <1>1, <1>2, <1>3 DEF T!RowsOf
<1>7. \A i \in Segments : T!RowsOf(i) \subseteq 1..Len(chunk)
  BY <1>1 DEF T!RowsOf
<1>8. HasLast(T!RowsOf(x.segment)')
  BY <1>1, <1>4, <1>5, <1>7 DEF HasLast
<1>9. T!LastOf(T!RowsOf(x.segment)') = Len(chunk) + 1
  <2> DEFINE R == T!RowsOf(x.segment)'
  <2>1. Len(chunk) + 1 \in R /\ \A m \in R : m \in Nat /\ m <= Len(chunk) + 1
    BY <1>1, <1>4, <1>5, <1>7
  <2> HIDE DEF R
  <2>2. T!LastOf(R) \in R /\ \A m \in R : m <= T!LastOf(R)
    BY <2>1, LastIs
  <2>3. T!LastOf(R) = Len(chunk) + 1
    BY <1>1, <2>1, <2>2
  <2> QED
    BY <2>3 DEF R
<1>10. T!Newest(x.segment)' = x
  BY <1>2, <1>5, <1>9 DEF T!Newest
<1>11. ASSUME NEW i \in Segments \ {x.segment} PROVE T!Newest(i)' = T!Newest(i)
  <2>1. T!RowsOf(i)' = T!RowsOf(i)
    BY <1>6
  <2>2. CASE T!RowsOf(i) = {}
    BY <2>1, <2>2 DEF T!Newest
  <2>3. CASE T!RowsOf(i) # {}
    <3>1. T!LastOf(T!RowsOf(i)) \in T!RowsOf(i)
      <4> DEFINE R == T!RowsOf(i)
      <4>1. \E n \in R : \A m \in R : m <= n
        BY <2>3 DEF RowsHaveLast, HasLast
      <4> HIDE DEF R
      <4>2. T!LastOf(R) \in R
        BY <4>1, LastIs
      <4> QED
        BY <4>2 DEF R
    <3>2. T!LastOf(T!RowsOf(i)) \in 1..Len(chunk)
      BY <1>7, <3>1
    <3> QED
      BY <1>2, <2>1, <2>3, <3>2 DEF T!Newest
  <2> QED
    BY <2>2, <2>3
<1>12. RowsHaveLast'
  BY <1>6, <1>8 DEF RowsHaveLast
<1> QED
  BY <1>2, <1>10, <1>11, <1>12

(* What is in memory is lost with the run.                                  *)
LEMMA LostBill ==
  ASSUME MediaIInv, T!Lose
  PROVE  /\ segmentBill' \in [Segments -> Seq(T!Transcription \cup {Nil})]
         /\ \A i \in Segments :
               /\ Thrifty(segmentBill'[i])
               /\ transcript = Nil /\ segmentBill'[i] # <<>> /\ Last(segmentBill'[i]) # Nil
                     => Last(segmentBill'[i]) = T!Newest(i)
<1>1. ASSUME NEW i \in Segments
      PROVE  /\ segmentBill'[i] \in Seq(T!Transcription \cup {Nil}) /\ Thrifty(segmentBill'[i])
             /\ transcript = Nil /\ segmentBill'[i] # <<>> /\ Last(segmentBill'[i]) # Nil
                   => Last(segmentBill'[i]) = T!Newest(i)
  <2>1. segmentBill[i] \in Seq(T!Transcription \cup {Nil}) /\ Billed(i)
    BY DEF MediaIInv, MediaTyped
  <2>2. CASE mediaRun.at[i] \in {"answered", "told"} /\ segmentBill[i] # <<>>
    <3>1. segmentBill'[i] = [segmentBill[i] EXCEPT ![Len(segmentBill[i])] = Nil]
      BY <2>2 DEF T!Lose
    <3>2. Nil \in T!Transcription \cup {Nil} /\ Thrifty(segmentBill[i])
      BY <2>1 DEF Billed
    <3> QED
      BY <2>1, <2>2, <3>1, <3>2, LoseLast
  <2>3. CASE ~(mediaRun.at[i] \in {"answered", "told"} /\ segmentBill[i] # <<>>)
    <3>1. segmentBill'[i] = segmentBill[i]
      BY <2>3 DEF T!Lose
    <3> QED
      BY <2>1, <2>3, <3>1 DEF Billed
  <2> QED
    BY <2>2, <2>3
<1>2. DOMAIN segmentBill' = Segments
  BY DEF T!Lose
<1>3. segmentBill' = [i \in Segments |-> segmentBill'[i]]
  BY DEF T!Lose
<1> QED
  BY <1>1, <1>3

(* Nobody is under way: the rest follows from the rows.                     *)
LEMMA NoRun ==
  ASSUME MediaTyped', RowsHaveLast', mediaRun'.pc \in {"idle", "looking", "extracted"},
         RunFits', T!OneDownload', T!VisualOnlyIsSilent',
         \A i \in Segments : /\ mediaRun'.at[i] = "waiting"
                             /\ Thrifty(segmentBill'[i])
                             /\ transcript' = Nil /\ segmentBill'[i] # <<>>
                                  /\ Last(segmentBill'[i]) # Nil
                                     => Last(segmentBill'[i]) = T!Newest(i)'
  PROVE  MediaIInv'
  BY DEF MediaIInv, Heard, Billed

(* The rows of the segments are what they were.                             *)
LEMMA SameMedia ==
  ASSUME UNCHANGED chunk
  PROVE  /\ \A i \in Segments : T!Newest(i)' = T!Newest(i)
         /\ RowsHaveLast' <=> RowsHaveLast
  BY DEF T!Newest, T!RowsOf, RowsHaveLast

(* A segment of a run moves on, and nothing is bought.                      *)
LEMMA SegmentMoves ==
  ASSUME MediaIInv, NEW i \in Segments,
         UNCHANGED <<medium, chunk, transcript, notes, mediaSource>>,
         UNCHANGED <<provider, mediaRuns, segmentBill, unheard>>,
         mediaRun.pc = "transcribing", mediaRun.at[i] \in {"waiting", "calling"},
         mediaRun' \in MediaRun, mediaRun'.pc = mediaRun.pc, mediaRun'.of = mediaRun.of,
         mediaRun'.cached = mediaRun.cached,
         \A j \in Segments \ {i} : mediaRun'.at[j] = mediaRun.at[j]
                                    /\ mediaRun'.text[j] = mediaRun.text[j],
         mediaRun'.at[i] \in {"calling", "saved", "failed"},
         mediaRun'.at[i] = "saved" => mediaRun'.text[i] = T!Wanted(i),
         mediaRun'.at[i] = "calling" => ~T!Matches(i)
  PROVE  MediaIInv'
<1>1. MediaTyped' /\ RowsHaveLast' /\ (T!Restorable' <=> T!Restorable)
  BY SameMedia DEF MediaIInv, MediaTyped, T!Restorable
<1>2. RunFits' /\ T!OneDownload' /\ T!VisualOnlyIsSilent'
  BY <1>1 DEF MediaIInv, RunFits, T!OneDownload, T!VisualOnlyIsSilent
<1>3. ASSUME NEW j \in Segments PROVE Heard(j)' /\ Billed(j)'
  <2>1. /\ T!Newest(j)' = T!Newest(j) /\ T!Wanted(j)' = T!Wanted(j)
        /\ T!Matches(j)' <=> T!Matches(j)
    BY SameMedia DEF T!Wanted, T!Matches
  <2>2. CASE j = i
    BY <2>1, <2>2 DEF MediaIInv, Heard, Billed
  <2>3. CASE j # i
    BY <2>1, <2>3 DEF MediaIInv, Heard, Billed
  <2> QED
    BY <2>2, <2>3
<1> QED
  BY <1>1, <1>2, <1>3 DEF MediaIInv

(* A run begins with what is in the rows.                                   *)
LEMMA DownloadHolds == ASSUME MediaIInv, NEW d \in Downloads, T!Download(d) PROVE MediaIInv'
<1>1. /\ mediaRun' \in MediaRun /\ mediaRun'.pc = "transcribing" /\ mediaRun'.of = d
      /\ \A i \in Segments : mediaRun'.at[i] = "waiting" /\ mediaRun'.cached[i] = T!Newest(i)
  <2>1. \A i \in Segments : T!Newest(i) \in T!Transcription \cup {Nil}
    <3> SUFFICES ASSUME NEW i \in Segments, T!RowsOf(i) # {} PROVE T!Newest(i) \in T!Transcription
      BY DEF T!Newest
    <3>1. T!LastOf(T!RowsOf(i)) \in T!RowsOf(i)
      BY LastIs DEF MediaIInv, RowsHaveLast, HasLast
    <3>2. T!LastOf(T!RowsOf(i)) \in DOMAIN chunk
      BY <3>1 DEF T!RowsOf
    <3>3. chunk[T!LastOf(T!RowsOf(i))] \in SegmentRow
      BY <3>2, LenProperties, ElementOfSeq DEF MediaIInv, MediaTyped
    <3> QED
      BY <3>3, MediaAssumed DEF T!Newest, SegmentRow, T!Transcription
  <2> QED
    BY <2>1, IdleRun DEF T!Download, MediaRun
<1>2. /\ UNCHANGED <<medium, chunk, transcript, notes, mediaSource, provider>>
      /\ UNCHANGED <<segmentBill, unheard>>
      /\ mediaSource = "PENDING" /\ mediaRun.pc = "idle" /\ ~T!Restorable
      /\ mediaRuns' \in 0..MaxHearings
  BY MediaAssumed DEF T!Download, T!Due, T!Durable, MediaIInv, MediaTyped
<1>3. MediaTyped' /\ RowsHaveLast' /\ (T!Restorable' <=> T!Restorable)
  BY <1>1, <1>2, SameMedia DEF MediaIInv, MediaTyped, T!Restorable
<1>4. RunFits' /\ T!OneDownload' /\ T!VisualOnlyIsSilent'
  BY <1>1, <1>2, <1>3 DEF MediaIInv, RunFits, T!OneDownload, T!VisualOnlyIsSilent
<1>5. ASSUME NEW i \in Segments PROVE Heard(i)' /\ Billed(i)'
  <2>1. T!Newest(i)' = T!Newest(i) /\ mediaRun.at[i] = "waiting"
    BY <1>2, SameMedia DEF MediaIInv, Heard
  <2> QED
    BY <1>1, <1>2, <2>1 DEF MediaIInv, Heard, Billed
<1> QED
  BY <1>3, <1>4, <1>5 DEF MediaIInv

(* The segments of a run, one by one.                                       *)
LEMMA ReuseHolds == ASSUME MediaIInv, NEW i \in Segments, T!Reuse(i) PROVE MediaIInv'
<1>1. /\ mediaRun \in MediaRun /\ mediaRun.pc = "transcribing" /\ mediaRun.at[i] = "waiting"
      /\ mediaRun.cached[i] = T!Wanted(i)
      /\ mediaRun' = [mediaRun EXCEPT !.at[i] = "saved", !.text[i] = mediaRun.cached[i]]
  BY DEF T!Reuse, T!Splits, T!Matches, MediaIInv, MediaTyped
<1>2. /\ mediaRun' \in MediaRun /\ mediaRun'.pc = mediaRun.pc /\ mediaRun'.of = mediaRun.of
      /\ mediaRun'.cached = mediaRun.cached
      /\ mediaRun'.at = [mediaRun.at EXCEPT ![i] = "saved"]
      /\ mediaRun'.text = [mediaRun.text EXCEPT ![i] = mediaRun.cached[i]]
  BY <1>1 DEF MediaRun, SegmentStates
<1> QED
  BY <1>1, <1>2, SegmentMoves DEF T!Reuse, T!Durable, T!Same, MediaRun

LEMMA CallHolds ==
  ASSUME MediaIInv, NEW i \in Segments, T!Call(i) \/ T!Refused(i) PROVE MediaIInv'
<1>1. PICK state \in {"calling", "failed"} : mediaRun' = [mediaRun EXCEPT !.at[i] = state]
  BY DEF T!Call, T!Refused, T!To
<1>2. /\ mediaRun \in MediaRun /\ mediaRun.pc = "transcribing"
      /\ mediaRun.at[i] \in {"waiting", "calling"}
  BY DEF T!Call, T!Refused, T!Splits, MediaIInv, MediaTyped
<1>3. /\ mediaRun' \in MediaRun /\ mediaRun'.pc = mediaRun.pc /\ mediaRun'.of = mediaRun.of
      /\ mediaRun'.cached = mediaRun.cached /\ mediaRun'.text = mediaRun.text
      /\ mediaRun'.at = [mediaRun.at EXCEPT ![i] = state]
  BY <1>1, <1>2 DEF MediaRun, SegmentStates
<1>4. state = "calling" => ~T!Matches(i)
  BY <1>1, <1>2 DEF T!Call, T!Refused, T!To, MediaRun, SegmentStates
<1> QED
  BY <1>1, <1>2, <1>3, <1>4, SegmentMoves DEF T!Call, T!Refused, T!Durable, T!Same, MediaRun

(* A row is saved from memory.                                              *)
LEMMA PersistHolds == ASSUME MediaIInv, NEW i \in Segments, T!Persist(i) PROVE MediaIInv'
<1>1. /\ mediaRun \in MediaRun /\ mediaRun.pc = "transcribing" /\ mediaRun.at[i] = "answered"
      /\ provider \in Segmented /\ mediaRun.text[i] = T!Wanted(i) /\ mediaRun.of \in Downloads
      /\ chunk' = Append(chunk, T!Wanted(i)) /\ ~T!Restorable
      /\ mediaRun' = [mediaRun EXCEPT !.at[i] = "saved"]
      /\ UNCHANGED <<medium, transcript, notes, mediaSource, provider, mediaRuns>>
      /\ UNCHANGED <<segmentBill, unheard>>
  BY DEF T!Persist, T!Splits, T!To, T!Same, MediaIInv, MediaTyped, Heard, RunFits
<1>2. T!Wanted(i) \in SegmentRow /\ T!Wanted(i).segment = i
  BY <1>1 DEF T!Wanted, SegmentRow
<1>3. /\ chunk' \in Seq(SegmentRow) /\ RowsHaveLast' /\ T!Newest(i)' = T!Wanted(i)
      /\ \A j \in Segments \ {i} : T!Newest(j)' = T!Newest(j)
  BY <1>1, <1>2, RowSaved DEF MediaIInv
<1>4. /\ mediaRun' \in MediaRun /\ mediaRun'.pc = mediaRun.pc /\ mediaRun'.of = mediaRun.of
      /\ mediaRun'.cached = mediaRun.cached /\ mediaRun'.text = mediaRun.text
      /\ mediaRun'.at = [mediaRun.at EXCEPT ![i] = "saved"]
  BY <1>1 DEF MediaRun, SegmentStates
<1>5. MediaTyped' /\ (T!Restorable' <=> T!Restorable) /\ transcript = Nil
  BY <1>1, <1>3, <1>4 DEF MediaIInv, MediaTyped, T!Restorable
<1>6. RunFits' /\ T!OneDownload' /\ T!VisualOnlyIsSilent'
  BY <1>1, <1>4, <1>5 DEF MediaIInv, RunFits, T!OneDownload, T!VisualOnlyIsSilent
<1>7. ASSUME NEW j \in Segments PROVE Heard(j)' /\ Billed(j)'
  <2>1. T!Wanted(j)' = T!Wanted(j) /\ (T!Matches(j)' <=> T!Matches(j))
    BY <1>1, <1>4 DEF T!Wanted, T!Matches
  <2>2. CASE j = i
    BY <1>1, <1>3, <1>4, <2>1, <2>2 DEF MediaIInv, Heard, Billed, MediaRun
  <2>3. CASE j # i
    BY <1>1, <1>3, <1>4, <2>1, <2>3 DEF MediaIInv, Heard, Billed, MediaRun
  <2> QED
    BY <2>2, <2>3
<1> QED
  BY <1>3, <1>5, <1>6, <1>7 DEF MediaIInv

(* A segment that waits was not bought in this run, so the newest purchase  *)
(* is the row that did not fit.                                             *)
LEMMA OneMore ==
  ASSUME MediaIInv, NEW i \in Segments, mediaRun.pc = "transcribing",
         mediaRun.at[i] \in {"waiting", "calling"}, T!Newest(i) # T!Wanted(i)
  PROVE  /\ T!Wanted(i) \in T!Transcription
         /\ Thrifty(T!Bought(i)) /\ T!Bought(i) \in Seq(T!Transcription \cup {Nil})
         /\ T!Bought(i) # <<>> /\ Last(T!Bought(i)) = T!Wanted(i)
<1>1. /\ segmentBill[i] \in Seq(T!Transcription \cup {Nil}) /\ Thrifty(segmentBill[i])
      /\ T!Wanted(i) \in T!Transcription /\ transcript = Nil
  BY DEF MediaIInv, MediaTyped, Billed, RunFits, T!Wanted, T!Transcription, T!Restorable
<1>2. segmentBill[i] # <<>> => Last(segmentBill[i]) = Nil \/ Last(segmentBill[i]) # T!Wanted(i)
  BY <1>1 DEF MediaIInv, Billed
<1>3. T!Wanted(i) \in T!Transcription \cup {Nil}
  BY <1>1
<1> QED
  BY <1>1, <1>2, <1>3, BuyAnother DEF T!Bought

(* A segment is bought.                                                     *)
LEMMA AnswerHolds == ASSUME MediaIInv, NEW i \in Segments, T!Answer(i) PROVE MediaIInv'
<1>1. /\ mediaRun \in MediaRun /\ mediaRun.pc = "transcribing" /\ mediaRun.at[i] = "calling"
      /\ mediaRun' = [mediaRun EXCEPT !.at[i] = "answered", !.text[i] = T!Wanted(i)]
      /\ segmentBill' = [segmentBill EXCEPT ![i] = T!Bought(i)]
      /\ UNCHANGED <<medium, chunk, transcript, notes, mediaSource, provider, mediaRuns, unheard>>
  BY DEF T!Answer, T!Splits, T!Durable, T!Same, MediaIInv, MediaTyped
<1>2. T!Newest(i) # T!Wanted(i)
  BY <1>1 DEF MediaIInv, Heard, T!Matches
<1>3. /\ T!Wanted(i) \in T!Transcription
      /\ Thrifty(T!Bought(i)) /\ T!Bought(i) \in Seq(T!Transcription \cup {Nil})
      /\ T!Bought(i) # <<>> /\ Last(T!Bought(i)) = T!Wanted(i)
  BY <1>1, <1>2, OneMore
<1>4. /\ mediaRun' \in MediaRun /\ mediaRun'.pc = mediaRun.pc /\ mediaRun'.of = mediaRun.of
      /\ mediaRun'.cached = mediaRun.cached
      /\ mediaRun'.at = [mediaRun.at EXCEPT ![i] = "answered"]
      /\ mediaRun'.text = [mediaRun.text EXCEPT ![i] = T!Wanted(i)]
  BY <1>1, <1>3 DEF MediaRun, SegmentStates
<1>5. /\ segmentBill' \in [Segments -> Seq(T!Transcription \cup {Nil})]
      /\ segmentBill'[i] = T!Bought(i)
      /\ \A j \in Segments \ {i} : segmentBill'[j] = segmentBill[j]
  BY <1>1, <1>3 DEF MediaIInv, MediaTyped
<1>6. MediaTyped' /\ RowsHaveLast' /\ (T!Restorable' <=> T!Restorable)
  BY <1>1, <1>4, <1>5, SameMedia DEF MediaIInv, MediaTyped, T!Restorable
<1>7. RunFits' /\ T!OneDownload' /\ T!VisualOnlyIsSilent'
  BY <1>1, <1>4, <1>6 DEF MediaIInv, RunFits, T!OneDownload, T!VisualOnlyIsSilent
<1>8. ASSUME NEW j \in Segments PROVE Heard(j)' /\ Billed(j)'
  <2>1. /\ T!Newest(j)' = T!Newest(j) /\ T!Wanted(j)' = T!Wanted(j)
        /\ T!Matches(j)' <=> T!Matches(j)
    BY <1>1, <1>4, SameMedia DEF T!Wanted, T!Matches
  <2>2. CASE j = i
    BY <1>1, <1>3, <1>4, <1>5, <2>1, <2>2 DEF MediaIInv, Heard, Billed, MediaRun
  <2>3. CASE j # i
    BY <1>1, <1>4, <1>5, <2>1, <2>3 DEF MediaIInv, Heard, Billed, MediaRun
  <2> QED
    BY <2>2, <2>3
<1> QED
  BY <1>6, <1>7, <1>8 DEF MediaIInv

(* The whole recording is bought, by a provider of which no row is.         *)
LEMMA AskWholeHolds == ASSUME MediaIInv, T!AskWhole PROVE MediaIInv'
<1>1. /\ mediaRun \in MediaRun /\ mediaRun.pc = "transcribing" /\ provider \notin Segmented
      /\ \A i \in Segments : mediaRun.at[i] = "waiting"
      /\ UNCHANGED <<medium, chunk, transcript, notes, mediaSource, provider, mediaRuns, unheard>>
  BY DEF T!AskWhole, T!Durable, T!Same, MediaIInv, MediaTyped
<1>2. ASSUME NEW i \in Segments PROVE T!Newest(i) # T!Wanted(i)
  <2>1. CASE T!RowsOf(i) = {}
    BY <1>1, <2>1, MediaAssumed
       DEF T!Newest, T!Wanted, T!Transcription, MediaIInv, MediaTyped, RunFits
  <2>2. CASE T!RowsOf(i) # {}
    <3>1. T!LastOf(T!RowsOf(i)) \in T!RowsOf(i)
      BY <2>2, LastIs DEF MediaIInv, RowsHaveLast, HasLast
    <3>2. T!LastOf(T!RowsOf(i)) \in DOMAIN chunk
      BY <3>1 DEF T!RowsOf
    <3>3. chunk[T!LastOf(T!RowsOf(i))] \in SegmentRow
      BY <3>2, LenProperties, ElementOfSeq DEF MediaIInv, MediaTyped
    <3>4. T!Newest(i).by \in Segmented /\ T!Wanted(i).by = provider
      BY <2>2, <3>3 DEF T!Newest, T!Wanted, SegmentRow
    <3> QED
      BY <1>1, <3>4
  <2> QED
    BY <2>1, <2>2
<1>3. ASSUME NEW i \in Segments
      PROVE  /\ T!Wanted(i) \in T!Transcription
             /\ Thrifty(T!Bought(i)) /\ T!Bought(i) \in Seq(T!Transcription \cup {Nil})
             /\ T!Bought(i) # <<>> /\ Last(T!Bought(i)) = T!Wanted(i)
  BY <1>1, <1>2, OneMore
<1>4. CASE /\ mediaRun' = [mediaRun EXCEPT !.at = [i \in Segments |-> "told"],
                                          !.text = [i \in Segments |-> T!Wanted(i)]]
           /\ segmentBill' = [i \in Segments |-> T!Bought(i)]
  <2>1. /\ mediaRun' \in MediaRun /\ mediaRun'.pc = mediaRun.pc /\ mediaRun'.of = mediaRun.of
        /\ \A i \in Segments : mediaRun'.at[i] = "told" /\ mediaRun'.text[i] = T!Wanted(i)
    BY <1>1, <1>3, <1>4 DEF MediaRun, SegmentStates
  <2>2. MediaTyped' /\ RowsHaveLast' /\ (T!Restorable' <=> T!Restorable)
    BY <1>1, <1>3, <1>4, <2>1, SameMedia DEF MediaIInv, MediaTyped, T!Restorable
  <2>3. RunFits' /\ T!OneDownload' /\ T!VisualOnlyIsSilent'
    BY <1>1, <2>1, <2>2 DEF MediaIInv, RunFits, T!OneDownload, T!VisualOnlyIsSilent
  <2>4. ASSUME NEW i \in Segments PROVE Heard(i)' /\ Billed(i)'
    <3>1. T!Wanted(i)' = T!Wanted(i) /\ segmentBill'[i] = T!Bought(i)
      BY <1>1, <1>4, <2>1 DEF T!Wanted
    <3> QED
      BY <1>1, <1>3, <2>1, <3>1 DEF Heard, Billed
  <2> QED
    BY <2>2, <2>3, <2>4 DEF MediaIInv
<1>5. CASE /\ mediaRun' = [mediaRun EXCEPT !.at = [i \in Segments |-> "failed"]]
           /\ segmentBill' = segmentBill
  <2>1. /\ mediaRun' \in MediaRun /\ mediaRun'.pc = mediaRun.pc /\ mediaRun'.of = mediaRun.of
        /\ \A i \in Segments : mediaRun'.at[i] = "failed"
    BY <1>1, <1>5 DEF MediaRun, SegmentStates
  <2>2. MediaTyped' /\ RowsHaveLast' /\ (T!Restorable' <=> T!Restorable)
    BY <1>1, <1>5, <2>1, SameMedia DEF MediaIInv, MediaTyped, T!Restorable
  <2>3. RunFits' /\ T!OneDownload' /\ T!VisualOnlyIsSilent'
    BY <1>1, <2>1, <2>2 DEF MediaIInv, RunFits, T!OneDownload, T!VisualOnlyIsSilent
  <2>4. ASSUME NEW i \in Segments PROVE Heard(i)' /\ Billed(i)'
    <3>1. T!Newest(i)' = T!Newest(i)
      BY <1>1, SameMedia
    <3> QED
      BY <1>1, <1>5, <2>1, <3>1 DEF MediaIInv, Heard, Billed
  <2> QED
    BY <2>2, <2>3, <2>4 DEF MediaIInv
<1> QED
  BY <1>4, <1>5 DEF T!AskWhole

(* The run is over, or nobody listens any more: what it had in memory is    *)
(* lost.                                                                    *)
LEMMA RunLost ==
  ASSUME MediaIInv, T!Lose, UNCHANGED <<medium, chunk, transcript, notes>>,
         provider' \in Providers, mediaRuns' \in 0..MaxHearings, unheard' \subseteq Silent,
         unheard \subseteq unheard',
         \/ mediaRun' = T!Idle /\ mediaSource' \in {"PENDING", "FAILED", mediaSource}
         \/ mediaRun' = [T!Idle EXCEPT !.pc = "looking"] /\ mediaSource' = "PENDING"
               /\ medium = "video" /\ unheard' # {}
  PROVE  MediaIInv'
<1>1. /\ mediaRun' \in MediaRun /\ mediaRun'.pc \in {"idle", "looking"}
      /\ \A i \in Segments : mediaRun'.at[i] = "waiting"
  BY IdleRun DEF MediaRun
<1>2. /\ segmentBill' \in [Segments -> Seq(T!Transcription \cup {Nil})]
      /\ \A i \in Segments :
            /\ Thrifty(segmentBill'[i])
            /\ transcript' = Nil /\ segmentBill'[i] # <<>> /\ Last(segmentBill'[i]) # Nil
                  => Last(segmentBill'[i]) = T!Newest(i)'
  BY LostBill, SameMedia
<1>3. MediaTyped' /\ RowsHaveLast' /\ (T!Restorable' <=> T!Restorable)
  BY <1>1, <1>2, SameMedia DEF MediaIInv, MediaTyped, T!Restorable
<1>4. RunFits' /\ T!OneDownload' /\ T!VisualOnlyIsSilent'
  BY <1>3, IdleRun DEF MediaIInv, RunFits, T!OneDownload, T!VisualOnlyIsSilent, MediaRun
<1> QED
  BY <1>1, <1>2, <1>3, <1>4, NoRun

(* A run without a text in memory goes on, or ends, with what there is.     *)
LEMMA RunPasses ==
  ASSUME MediaIInv, UNCHANGED <<medium, chunk, transcript, segmentBill, provider, mediaRuns>>,
         \A i \in Segments : mediaRun.at[i] = "waiting",
         unheard' \subseteq Silent, unheard \subseteq unheard',
         notes' \in BOOLEAN, notes => notes',
         notes' /\ transcript = Nil => unheard' # {},
         mediaSource' \in {"PENDING", "READY", "FAILED"}, mediaSource' = "READY" => T!Restorable,
         \/ mediaRun' = T!Idle
         \/ /\ mediaRun' = [T!Idle EXCEPT !.pc = "looking"] /\ mediaSource' = "PENDING"
            /\ medium = "video" /\ (transcript = Nil => unheard' # {})
         \/ /\ mediaRun' = [T!Idle EXCEPT !.pc = "extracted"] /\ mediaSource' = "PENDING"
            /\ T!Restorable'
  PROVE  MediaIInv'
<1>1. /\ mediaRun' \in MediaRun /\ mediaRun'.pc \in {"idle", "looking", "extracted"}
      /\ \A i \in Segments : mediaRun'.at[i] = "waiting"
  BY IdleRun DEF MediaRun
<1>2. ASSUME NEW i \in Segments
      PROVE  /\ Thrifty(segmentBill'[i])
             /\ transcript' = Nil /\ segmentBill'[i] # <<>> /\ Last(segmentBill'[i]) # Nil
                   => Last(segmentBill'[i]) = T!Newest(i)'
  BY SameMedia DEF MediaIInv, Billed
<1>3. MediaTyped' /\ RowsHaveLast' /\ (T!Restorable => T!Restorable')
  BY <1>1, SameMedia DEF MediaIInv, MediaTyped, T!Restorable
<1>4. RunFits' /\ T!OneDownload' /\ T!VisualOnlyIsSilent'
  BY <1>3, IdleRun DEF MediaIInv, RunFits, T!OneDownload, T!VisualOnlyIsSilent, MediaRun
<1> QED
  BY <1>1, <1>2, <1>3, <1>4, NoRun

(* All segments are there, from one download and one provider: the          *)
(* transcript takes their place.                                            *)
LEMMA SaveTranscriptHolds == ASSUME MediaIInv, T!SaveTranscript PROVE MediaIInv'
<1>1. /\ mediaRun \in MediaRun /\ mediaRun.pc = "transcribing" /\ mediaRun.of \in Downloads
      /\ transcript' = mediaRun.text /\ chunk' = <<>> /\ mediaSource = "PENDING"
      /\ IF medium = "audio" THEN mediaSource' = "READY" /\ mediaRun' = T!Idle
         ELSE mediaSource' = mediaSource /\ mediaRun' = [T!Idle EXCEPT !.pc = "looking"]
      /\ UNCHANGED <<medium, notes, provider, mediaRuns, segmentBill, unheard>>
  BY DEF T!SaveTranscript, T!Gathered, T!Same, MediaIInv, MediaTyped, RunFits
<1>2. ASSUME NEW i \in Segments PROVE mediaRun.text[i] = T!Wanted(i)
  BY DEF T!SaveTranscript, T!Gathered, T!SomeFailed, MediaIInv, Heard
<1>3. mediaRun.text = [i \in Segments |-> [segment |-> i, of |-> mediaRun.of, by |-> provider]]
  BY <1>1, <1>2 DEF MediaRun, T!Wanted
<1>4. provider \in Providers
  BY DEF MediaIInv, MediaTyped
<1>5. transcript' \in [Segments -> T!Transcription] /\ transcript' # Nil
  BY <1>1, <1>3, <1>4, MediaAssumed DEF T!Transcription
<1>6. mediaRun' \in MediaRun /\ (\A i \in Segments : mediaRun'.at[i] = "waiting")
  BY <1>1, IdleRun DEF MediaRun
<1>7. chunk' \in Seq(SegmentRow) /\ RowsHaveLast'
  BY <1>1, EmptySeq DEF RowsHaveLast, HasLast, T!RowsOf
<1>8. MediaTyped' /\ T!Restorable'
  BY <1>1, <1>5, <1>6, <1>7 DEF MediaIInv, MediaTyped, T!Restorable
<1>9. T!OneDownload'
  BY <1>1, <1>3, <1>4 DEF T!OneDownload
<1>10. RunFits' /\ T!VisualOnlyIsSilent' /\ mediaRun'.pc \in {"idle", "looking"}
  BY <1>1, <1>5, <1>8, IdleRun DEF MediaIInv, MediaTyped, RunFits, T!VisualOnlyIsSilent, MediaRun
<1>11. ASSUME NEW i \in Segments PROVE Thrifty(segmentBill'[i])
  BY <1>1 DEF MediaIInv, Billed
<1> QED
  BY <1>5, <1>6, <1>7, <1>8, <1>9, <1>10, <1>11, NoRun

(* Nobody speaks in what was downloaded.                                    *)
LEMMA NoSpeechHolds == ASSUME MediaIInv, T!NoSpeech PROVE MediaIInv'
<1>1. /\ mediaRun.pc = "transcribing" /\ mediaRun.of \in Downloads /\ mediaSource = "PENDING"
      /\ unheard' = unheard \cup {mediaRun.of} /\ unheard \subseteq Silent
      /\ UNCHANGED <<medium, chunk, transcript, notes, provider, mediaRuns>>
      /\ provider \in Providers /\ mediaRuns \in 0..MaxHearings /\ medium \in {"audio", "video"}
  BY DEF T!NoSpeech, T!Gathered, MediaIInv, MediaTyped, RunFits
<1>2. mediaRun.of \in Silent
  <2>1. PICK i \in Segments : TRUE
    BY MediaAssumed
  <2>2. mediaRun.text[i] = T!Wanted(i)
    BY DEF T!NoSpeech, T!Gathered, T!SomeFailed, MediaIInv, Heard
  <2> QED
    BY <2>2 DEF T!NoSpeech, T!Speech, T!Wanted
<1>3. T!Lose
  BY DEF T!NoSpeech, T!Fail
<1>4. \/ mediaRun' = T!Idle /\ mediaSource' \in {"PENDING", "FAILED", mediaSource}
      \/ mediaRun' = [T!Idle EXCEPT !.pc = "looking"] /\ mediaSource' = "PENDING"
            /\ medium = "video" /\ unheard' # {}
  BY <1>1 DEF T!NoSpeech, T!Fail
<1>5. unheard' \subseteq Silent /\ unheard \subseteq unheard'
  BY <1>1, <1>2
<1> QED
  BY <1>1, <1>3, <1>4, <1>5, RunLost

(* A failure, a deadline, a death or a Retry, and the steps at the ends of  *)
(* a run.                                                                   *)
LEMMA FailureHolds ==
  ASSUME MediaIInv, T!DownloadFails \/ T!SegmentFailed \/ (\E p \in Providers : T!Interrupt(p))
  PROVE  MediaIInv'
<1>1. /\ mediaRuns \in 0..MaxHearings /\ MaxHearings \in Nat /\ provider \in Providers
      /\ unheard \subseteq Silent
  BY MediaAssumed DEF MediaIInv, MediaTyped
<1>2. T!Lose /\ UNCHANGED <<medium, chunk, transcript, notes>>
  BY DEF T!DownloadFails, T!SegmentFailed, T!Interrupt, T!Fail, T!Same, T!Durable
<1>3. provider' \in Providers /\ mediaRuns' \in 0..MaxHearings /\ unheard' = unheard
  BY <1>1 DEF T!DownloadFails, T!SegmentFailed, T!Interrupt, T!Same
<1>4. mediaRun' = T!Idle /\ mediaSource' \in {"PENDING", "FAILED", mediaSource}
  BY DEF T!DownloadFails, T!SegmentFailed, T!Interrupt, T!Fail, T!Durable
<1>5. unheard' \subseteq Silent /\ unheard \subseteq unheard'
  BY <1>1, <1>3
<1> QED
  BY <1>2, <1>3, <1>4, <1>5, RunLost

LEMMA NotDescribedHolds == ASSUME MediaIInv, T!NotDescribed PROVE MediaIInv'
<1>1. /\ mediaRun.pc = "looking" /\ mediaSource = "PENDING"
      /\ \A i \in Segments : mediaRun.at[i] = "waiting"
      /\ UNCHANGED <<medium, chunk, transcript, notes, provider, mediaRuns, unheard>>
      /\ unheard \subseteq Silent /\ notes \in BOOLEAN
      /\ provider \in Providers /\ mediaRuns \in 0..MaxHearings
      /\ notes /\ transcript = Nil => unheard # {}
  BY DEF T!NotDescribed, T!Same, MediaIInv, MediaTyped, Heard, RunFits, T!VisualOnlyIsSilent
<1>2. CASE transcript = Nil
  BY <1>1, <1>2, RunLost DEF T!NotDescribed, T!Fail
<1>3. CASE transcript # Nil
  <2>1. /\ mediaSource' = "PENDING" /\ mediaRun' = [T!Idle EXCEPT !.pc = "extracted"]
        /\ segmentBill' = segmentBill /\ T!Restorable'
    BY <1>1, <1>3 DEF T!NotDescribed, T!Restorable
  <2> QED
    BY <1>1, <2>1, RunPasses
<1> QED
  BY <1>2, <1>3

LEMMA PassingHolds ==
  ASSUME MediaIInv, T!Restore \/ T!NoTrack \/ T!Describe \/ T!MarkReady \/ T!Retry
  PROVE  MediaIInv'
<1>1. UNCHANGED <<medium, chunk, transcript, segmentBill, provider, mediaRuns>>
  BY DEF T!Restore, T!NoTrack, T!Describe, T!MarkReady, T!Retry, T!Same, T!Durable
<1>2. \A i \in Segments : mediaRun.at[i] = "waiting"
  BY DEF T!Restore, T!NoTrack, T!Describe, T!MarkReady, T!Retry, T!Due, MediaIInv, Heard, RunFits
<1>3. unheard' \subseteq Silent /\ unheard \subseteq unheard' /\ (T!NoTrack => unheard' # {})
  BY DEF T!Restore, T!NoTrack, T!Describe, T!MarkReady, T!Retry, T!Same, T!Durable, MediaIInv,
         MediaTyped
<1>4. /\ notes' \in BOOLEAN /\ (notes => notes')
      /\ notes' /\ transcript = Nil => unheard' # {}
  <2>1. /\ notes \in BOOLEAN /\ (notes /\ transcript = Nil => unheard # {})
        /\ mediaRun.pc = "looking" /\ transcript = Nil => unheard # {}
    BY DEF MediaIInv, MediaTyped, RunFits, T!VisualOnlyIsSilent
  <2>2. CASE T!Describe
    BY <2>1, <2>2 DEF T!Describe, T!Same
  <2>3. CASE ~T!Describe
    <3>1. notes' = notes
      BY <2>3 DEF T!Restore, T!NoTrack, T!MarkReady, T!Retry, T!Durable
    <3> QED
      BY <1>3, <2>1, <3>1
  <2> QED
    BY <2>2, <2>3
<1>5. /\ mediaSource' \in {"PENDING", "READY", "FAILED"}
      /\ mediaSource' = "READY" => T!Restorable
  BY DEF T!Restore, T!NoTrack, T!Describe, T!MarkReady, T!Retry, T!Due, T!Durable, MediaIInv,
         MediaTyped, RunFits
<1>6. \/ mediaRun' = T!Idle
      \/ /\ mediaRun' = [T!Idle EXCEPT !.pc = "looking"] /\ mediaSource' = "PENDING"
         /\ medium = "video" /\ (transcript = Nil => unheard' # {})
      \/ /\ mediaRun' = [T!Idle EXCEPT !.pc = "extracted"] /\ mediaSource' = "PENDING"
         /\ T!Restorable'
  BY <1>1, <1>3
     DEF T!Restore, T!NoTrack, T!Describe, T!MarkReady, T!Retry, T!Due, T!Durable, MediaIInv,
         RunFits, T!Restorable
<1> QED
  BY <1>1, <1>2, <1>3, <1>4, <1>5, <1>6, RunPasses

LEMMA MediaStays == ASSUME MediaIInv, UNCHANGED T!vars PROVE MediaIInv'
<1>1. UNCHANGED <<medium, chunk, transcript, notes, mediaSource, provider, mediaRun, mediaRuns,
                  segmentBill, unheard>>
  BY DEF T!vars
<1>2. MediaTyped' /\ RowsHaveLast' /\ (T!Restorable' <=> T!Restorable)
  BY <1>1, SameMedia DEF MediaIInv, MediaTyped, T!Restorable
<1>3. RunFits' /\ T!OneDownload' /\ T!VisualOnlyIsSilent'
  BY <1>1, <1>2 DEF MediaIInv, RunFits, T!OneDownload, T!VisualOnlyIsSilent
<1>4. ASSUME NEW i \in Segments PROVE Heard(i)' /\ Billed(i)'
  <2>1. /\ T!Newest(i)' = T!Newest(i) /\ T!Wanted(i)' = T!Wanted(i)
        /\ T!Matches(i)' <=> T!Matches(i)
    BY <1>1, SameMedia DEF T!Wanted, T!Matches
  <2> QED
    BY <1>1, <2>1 DEF MediaIInv, Heard, Billed
<1> QED
  BY <1>2, <1>3, <1>4 DEF MediaIInv

LEMMA MediaStep == ASSUME MediaIInv, [T!Next]_(T!vars) PROVE MediaIInv'
<1>1. CASE T!Next
  BY <1>1, DownloadHolds, ReuseHolds, CallHolds, PersistHolds, AnswerHolds, AskWholeHolds,
     SaveTranscriptHolds, NoSpeechHolds, FailureHolds, NotDescribedHolds, PassingHolds DEF T!Next
<1> QED
  BY <1>1, MediaStays

MediaSpec == T!Init /\ [][T!Next]_(T!vars)

(* A transcript is of one download and one provider, whatever was left over *)
(* from other runs; READY has something to read behind it; and no segment   *)
(* is bought again while what was bought last for it is kept                *)
(* (OpenRouterTranscriptionProvider.transcribe, _transcript_checkpoints).   *)
THEOREM TranscriptsFit ==
  MediaSpec => [](T!TypeOK /\ T!OneDownload /\ T!VisualOnlyIsSilent /\ T!SegmentsBoughtOnce)
<1>1. T!Init => MediaIInv
  BY MediaInitHolds
<1>2. MediaIInv /\ [T!Next]_(T!vars) => MediaIInv'
  BY MediaStep
<1>3. MediaIInv => T!TypeOK /\ T!OneDownload /\ T!VisualOnlyIsSilent /\ T!SegmentsBoughtOnce
  <2> SUFFICES ASSUME MediaIInv PROVE T!TypeOK /\ T!SegmentsBoughtOnce
    BY DEF MediaIInv
  <2>1. SegmentRow \subseteq T!Transcription
    BY MediaAssumed DEF SegmentRow, T!Transcription
  <2>2. chunk \in Seq(T!Transcription)
    BY <2>1, SeqMonotonic DEF MediaIInv, MediaTyped
  <2>3. T!TypeOK
    BY <2>2 DEF MediaIInv, MediaTyped, MediaRun, SegmentStates, T!TypeOK
  <2> QED
    BY <2>3 DEF MediaIInv, Billed, Thrifty, T!SegmentsBoughtOnce
<1> QED
  BY <1>1, <1>2, <1>3, PTL DEF MediaSpec

-----------------------------------------------------------------------------
(* Posts: what the record of a post calls done has a row behind it, and     *)
(* what was paid for is in a row, or is known as silence: with the record,  *)
(* or in the memory of the run.                                             *)

PostRun == [pc : {"idle", "elements", "close", "extracted"}, at : Nat, part : P!Part \cup {Nil},
            ask : SUBSET P!Channels, used : Nat]

PostTyped == /\ vision \in BOOLEAN /\ evidence \subseteq ElementKeys \X P!Channels
             /\ postSource \in {"PENDING", "READY", "FAILED", "DEAD"}
             /\ progress \in P!Progress \cup {Nil}
             /\ postRun \in PostRun /\ postRuns \in 0..MaxReadings
             /\ paid \in [ElementKeys \X P!Channels -> Nat]

Recorded(p) ==
    /\ Len(p.parts) <= p.total /\ p.processed <= Len(p.parts) /\ p.bytes <= MaxBytes
    /\ \A m, n \in 1..Len(p.parts) : p.parts[m].key = p.parts[n].key => m = n
    /\ p.processed = Len(p.parts) => \A n \in 1..Len(p.parts) : p.parts[n].done
    /\ \A n \in 1..Len(p.parts) :
          p.parts[n].done => \E c \in P!Channels : P!Has(p.parts[n].key, c)

(* The element in hand is asked only for what is missing of it.             *)
InHand == LET part == postRun.part IN
    /\ postRun.at \in 1..Len(progress.parts)
    /\ part \in P!Part /\ part.key = P!Here.key /\ (P!Here.silent => part.silent)
    /\ postRun.used <= P!Remaining
    /\ \A c \in postRun.ask : ~P!Has(part.key, c)
    /\ "audio" \in postRun.ask => ~part.silent

PostRunFits ==
    /\ progress = Nil => postSource # "READY"
    /\ postSource = "READY" => P!HasContent(progress)
    /\ postRun.pc # "idle" => postSource = "PENDING" /\ progress # Nil
    /\ postRun.pc = "elements" => postRun.at \in Nat \ {0} /\ postRun.ask = {} /\ postRun.used = 0
    /\ postRun.pc = "close" => InHand
    /\ postRun.pc = "extracted" => P!HasContent(progress)

(* That nobody speaks in an element is known.                               *)
KnownSilent(k) ==
    \/ /\ progress # Nil
       /\ \E n \in 1..Len(progress.parts) : progress.parts[n].key = k /\ progress.parts[n].silent
    \/ postRun.pc = "close" /\ postRun.part.key = k /\ postRun.part.silent

Settled(k) ==
    /\ \A c \in P!Channels : paid[<<k, c>>] \in {0, 1}
    /\ paid[<<k, "visual">>] = 1 => P!Has(k, "visual")
    /\ paid[<<k, "audio">>] = 1 => P!Has(k, "audio") \/ KnownSilent(k)

PostIInv == /\ PostTyped /\ (progress # Nil => Recorded(progress))
            /\ PostRunFits /\ \A k \in ElementKeys : Settled(k)

LEMMA PostAssumed ==
  /\ MaxElements \in Nat /\ MaxBytes \in Nat /\ MaxReadings \in Nat /\ Caption \in BOOLEAN
  /\ Nil \notin P!Progress /\ Listings \subseteq Seq(ElementKeys)
  /\ \A l \in Listings : \A m, n \in DOMAIN l : l[m] = l[n] => m = n
  BY EvidenceAssumption DEF P!PostAssumption

LEMMA IdlePost == /\ P!Idle \in PostRun /\ P!Idle.pc = "idle" /\ P!Idle.part = Nil
                  /\ P!Idle.ask = {} /\ P!Idle.used = 0
  BY DEF P!Idle, PostRun

LEMMA PostInitHolds == ASSUME P!Init PROVE PostIInv
<1>1. PostTyped
  <2>1. postRuns \in 0..MaxReadings /\ postRun \in PostRun
    BY IdlePost, PostAssumed DEF P!Init
  <2> QED
    BY <2>1 DEF P!Init, PostTyped
<1>2. PostRunFits
  BY IdlePost DEF P!Init, PostRunFits
<1>3. ASSUME NEW k \in ElementKeys PROVE Settled(k)
  BY DEF P!Init, Settled, P!Channels
<1> QED
  BY <1>1, <1>2, <1>3 DEF P!Init, PostIInv

(* How many elements are done, and when they all are.                       *)
LEMMA DoneCount ==
  ASSUME NEW parts \in Seq(P!Part)
  PROVE  /\ P!Done(parts) \in 0..Len(parts)
         /\ P!Done(parts) = Len(parts) => \A n \in 1..Len(parts) : parts[n].done
<1> DEFINE done == {n \in DOMAIN parts : parts[n].done}
<1>1. DOMAIN parts = 1..Len(parts) /\ Len(parts) \in Nat
  BY LenProperties
<1>2. IsFiniteSet(1..Len(parts)) /\ Cardinality(1..Len(parts)) = Len(parts)
  BY <1>1, FS_Interval
<1>3. done \subseteq 1..Len(parts)
  BY <1>1
<1> HIDE DEF done
<1>4. /\ IsFiniteSet(done) /\ Cardinality(done) <= Len(parts)
      /\ Cardinality(done) = Len(parts) => done = 1..Len(parts)
  BY <1>2, <1>3, FS_Subset
<1>5. Cardinality(done) \in Nat
  BY <1>4, FS_CardinalityType
<1>6. P!Done(parts) = Cardinality(done)
  BY DEF P!Done, done, P!Cardinality, Cardinality
<1>7. done = 1..Len(parts) => \A n \in 1..Len(parts) : parts[n].done
  BY DEF done
<1> QED
  BY <1>1, <1>4, <1>5, <1>6, <1>7

(* The record of an element that the post still has.                        *)
LEMMA KeptPart ==
  ASSUME PostTyped, progress # Nil => Recorded(progress), NEW k \in ElementKeys
  PROVE  /\ P!Kept(k) \in P!Part /\ P!Kept(k).key = k
         /\ \/ ~P!Kept(k).done /\ ~P!Kept(k).silent
            \/ /\ progress # Nil
               /\ \E n \in 1..Len(progress.parts) : P!Kept(k) = progress.parts[n]
         /\ progress # Nil => \A n \in 1..Len(progress.parts) :
                                 progress.parts[n].key = k => P!Kept(k) = progress.parts[n]
<1>1. /\ P!NewPart(k) \in P!Part /\ P!NewPart(k).key = k
      /\ ~P!NewPart(k).done /\ ~P!NewPart(k).silent
  BY DEF P!NewPart, P!Part, P!Errors
<1>2. CASE progress = Nil
  <2>1. P!Kept(k) = P!NewPart(k)
    BY <1>2 DEF P!Kept
  <2> QED
    BY <1>1, <1>2, <2>1
<1>3. CASE progress # Nil
  <2> DEFINE old == {p \in {progress.parts[n] : n \in DOMAIN progress.parts} : p.key = k}
  <2>1. /\ progress.parts \in Seq(P!Part) /\ DOMAIN progress.parts = 1..Len(progress.parts)
        /\ \A n \in 1..Len(progress.parts) : progress.parts[n] \in P!Part
    <3>1. progress.parts \in Seq(P!Part)
      BY <1>3 DEF PostTyped, P!Progress
    <3> QED
      BY <3>1, LenProperties, ElementOfSeq
  <2>2. P!Kept(k) = IF old = {} THEN P!NewPart(k) ELSE CHOOSE p \in old : TRUE
    BY <1>3 DEF P!Kept
  <2>3. CASE \E n \in 1..Len(progress.parts) : progress.parts[n].key = k
    <3>1. PICK n \in 1..Len(progress.parts) : progress.parts[n].key = k
      BY <2>3
    <3>2. \A m \in 1..Len(progress.parts) : progress.parts[m].key = k => m = n
      BY <1>3, <3>1 DEF Recorded
    <3>3. old = {progress.parts[n]}
      BY <2>1, <3>1, <3>2
    <3>4. P!Kept(k) = progress.parts[n]
      BY <2>2, <3>3
    <3> QED
      BY <1>3, <2>1, <3>1, <3>2, <3>4
  <2>4. CASE ~\E n \in 1..Len(progress.parts) : progress.parts[n].key = k
    <3>1. old = {}
      BY <2>1, <2>4
    <3> QED
      BY <1>1, <2>2, <2>4, <3>1
  <2> QED
    BY <2>3, <2>4
<1> QED
  BY <1>2, <1>3

(* What the record and the rows say is what they said.                      *)
LEMMA SameRecord ==
  ASSUME UNCHANGED <<progress, evidence>>
  PROVE  /\ Recorded(progress)' <=> Recorded(progress)
         /\ P!HasContent(progress)' <=> P!HasContent(progress)
         /\ \A k, c : P!Has(k, c)' <=> P!Has(k, c)
         /\ P!Remaining' = P!Remaining
  BY DEF Recorded, P!HasContent, P!Seen, P!KeysOf, P!Has, P!Remaining

(* Nothing is learnt or forgotten, and no element is in hand.               *)
LEMMA PostPasses ==
  ASSUME PostIInv, UNCHANGED <<progress, evidence, paid, vision>>, postRuns' \in 0..MaxReadings,
         postSource' \in {"PENDING", "READY", "FAILED", "DEAD"},
         postRun' \in PostRun, postRun.pc # "close", postRun'.pc # "close", PostRunFits'
  PROVE  PostIInv'
<1>1. PostTyped' /\ (progress' # Nil => Recorded(progress)')
  BY SameRecord DEF PostIInv, PostTyped
<1>2. ASSUME NEW k \in ElementKeys PROVE Settled(k)'
  BY SameRecord DEF PostIInv, Settled, KnownSilent
<1> QED
  BY <1>1, <1>2 DEF PostIInv

LEMMA PostEndsHold ==
  ASSUME PostIInv, P!Restore \/ P!SkipDone \/ P!MarkReady
  PROVE  PostIInv'
<1>1. UNCHANGED <<progress, evidence, paid, vision>> /\ postRuns' \in 0..MaxReadings
  BY DEF P!Restore, P!SkipDone, P!MarkReady, PostIInv, PostTyped
<1>2. postRun \in PostRun /\ postRun.pc # "close"
  BY DEF P!Restore, P!SkipDone, P!MarkReady, P!InLoop, PostIInv, PostTyped
<1>3. CASE P!Restore
  <2>1. postRun' = postRun /\ postRun.pc = "idle" /\ postSource' = "READY" /\ progress # Nil
        /\ P!HasContent(progress)
    BY <1>3 DEF P!Restore, P!Restorable
  <2>2. PostRunFits'
    BY <1>1, <2>1, SameRecord DEF PostRunFits
  <2> QED
    BY <1>1, <1>2, <2>1, <2>2, PostPasses
<1>4. CASE P!MarkReady
  <2>1. postRun' = P!Idle /\ postSource' = "READY" /\ progress # Nil /\ P!HasContent(progress)
    BY <1>4 DEF P!MarkReady, PostIInv, PostRunFits
  <2>2. PostRunFits'
    BY <1>1, <2>1, SameRecord, IdlePost DEF PostRunFits
  <2> QED
    BY <1>1, <1>2, <2>1, <2>2, IdlePost, PostPasses
<1>5. CASE P!SkipDone
  <2>1. /\ postRun.pc = "elements" /\ postSource = "PENDING" /\ progress # Nil
        /\ postRun.at \in Nat \ {0} /\ postRun.ask = {} /\ postRun.used = 0
        /\ postSource' = postSource
    BY <1>5 DEF P!SkipDone, P!InLoop, PostIInv, PostRunFits
  <2>2. /\ postRun' \in PostRun /\ postRun'.pc = "elements" /\ postRun'.at = postRun.at + 1
        /\ postRun'.ask = {} /\ postRun'.used = 0
    BY <1>2, <1>5, <2>1 DEF P!SkipDone, PostRun
  <2>3. PostRunFits'
    BY <1>1, <2>1, <2>2, SameRecord DEF PostRunFits
  <2> QED
    BY <1>1, <1>2, <2>1, <2>2, <2>3, PostPasses
<1> QED
  BY <1>3, <1>4, <1>5

(* The element in hand, with its record and its rows, in a few facts.       *)
LEMMA ElementInHand ==
  ASSUME PostIInv, postRun.pc = "close"
  PROVE  /\ postRun \in PostRun /\ postRun.at \in 1..Len(progress.parts)
         /\ progress \in P!Progress /\ progress.parts \in Seq(P!Part) /\ postSource = "PENDING"
         /\ postRun.part \in P!Part /\ postRun.part.key \in ElementKeys
         /\ postRun.part.key = progress.parts[postRun.at].key
         /\ \A n \in 1..Len(progress.parts) :
               progress.parts[n].key = postRun.part.key => n = postRun.at
         /\ Recorded(progress)
<1>1. /\ progress \in P!Progress /\ postRun \in PostRun /\ InHand /\ Recorded(progress)
      /\ postSource = "PENDING" /\ progress # Nil
  BY DEF PostIInv, PostTyped, PostRunFits
<1> QED
  BY <1>1 DEF InHand, P!Here, P!Part, P!Progress, Recorded

(* What is asked of a provider was paid for by no one.                      *)
LEMMA NotYetPaid ==
  ASSUME PostIInv, NEW c \in P!Channels, P!Asking(c)
  PROVE  paid[<<postRun.part.key, c>>] = 0
<1>1. postRun.pc = "close" /\ c \in postRun.ask
  BY DEF P!Asking
<1>2. postRun.part.key \in ElementKeys /\ InHand /\ postRun.part \in P!Part
  BY <1>1, ElementInHand DEF PostIInv, PostRunFits
<1>3. ~P!Has(postRun.part.key, c) /\ Settled(postRun.part.key)
  BY <1>1, <1>2 DEF InHand, PostIInv
<1>4. CASE c = "visual"
  BY <1>3, <1>4 DEF Settled, P!Channels
<1>5. CASE c = "audio"
  <2>1. ~postRun.part.silent
    BY <1>1, <1>2, <1>5 DEF InHand
  <2>2. ~KnownSilent(postRun.part.key)
    <3>1. \A n \in 1..Len(progress.parts) :
             progress.parts[n].key = postRun.part.key => n = postRun.at
      BY <1>1, ElementInHand
    <3>2. ~progress.parts[postRun.at].silent
      BY <1>2, <2>1 DEF InHand, P!Here
    <3> QED
      BY <2>1, <3>1, <3>2 DEF KnownSilent
  <2> QED
    BY <1>3, <1>5, <2>2 DEF Settled, P!Channels
<1> QED
  BY <1>4, <1>5 DEF P!Channels

(* A channel with another error, or with none.                              *)
LEMMA PartWith ==
  ASSUME NEW p \in P!Part, NEW c \in P!Channels, NEW e \in P!Errors
  PROVE  LET q == [p EXCEPT ![c] = e]
         IN  q \in P!Part /\ q.key = p.key /\ q.silent = p.silent
<1>1. CASE c = "audio"
  BY <1>1 DEF P!Part
<1>2. CASE c = "visual"
  BY <1>2 DEF P!Part
<1> QED
  BY <1>1, <1>2 DEF P!Channels

(* A provider has answered: the element is in hand as before, asked for one *)
(* thing less.                                                              *)
LEMMA AnswerInHand ==
  ASSUME PostIInv, NEW c \in P!Channels, P!Asking(c), NEW part \in P!Part, P!Answered(c, part),
         part.key = postRun.part.key, postRun.part.silent => part.silent,
         part.silent => postRun.part.silent \/ c = "audio",
         UNCHANGED <<vision, progress, postSource, postRuns>>,
         evidence \subseteq evidence', evidence' \subseteq evidence \cup {<<part.key, c>>},
         paid' \in [ElementKeys \X P!Channels -> Nat],
         \A k \in ElementKeys : Settled(k)'
  PROVE  PostIInv'
<1>1. /\ postRun.pc = "close" /\ c \in postRun.ask /\ (c = "visual" => "audio" \notin postRun.ask)
      /\ InHand /\ Recorded(progress) /\ progress \in P!Progress
      /\ postRun \in PostRun /\ postSource = "PENDING" /\ progress # Nil
      /\ postRun.part.key \in ElementKeys
  BY ElementInHand DEF P!Asking, PostIInv, PostRunFits
<1>2. /\ postRun' \in PostRun /\ postRun'.pc = "close" /\ postRun'.at = postRun.at
      /\ postRun'.part = part /\ postRun'.ask = postRun.ask \ {c} /\ postRun'.used = postRun.used
  BY <1>1 DEF P!Answered, PostRun
<1>3. PostTyped'
  <2>1. evidence' \subseteq ElementKeys \X P!Channels
    BY <1>1 DEF PostIInv, PostTyped
  <2> QED
    BY <1>2, <2>1 DEF PostIInv, PostTyped
<1>4. Recorded(progress)'
  BY <1>1 DEF Recorded, P!Has
<1>5. InHand'
  <2>1. "audio" \notin postRun'.ask
    BY <1>1, <1>2 DEF P!Channels, PostRun
  <2>2. \A d \in postRun'.ask : ~P!Has(part.key, d)'
    BY <1>1, <1>2 DEF InHand, P!Has
  <2>3. P!Here' = P!Here /\ P!Remaining' = P!Remaining
    BY <1>2 DEF P!Here, P!Remaining
  <2> QED
    BY <1>1, <1>2, <2>1, <2>2, <2>3 DEF InHand
<1>6. PostRunFits'
  BY <1>1, <1>2, <1>5 DEF PostRunFits
<1> QED
  BY <1>3, <1>4, <1>6 DEF PostIInv

(* While an element is in hand, what is known as silence stays known if its *)
(* part does.                                                               *)
LEMMA SilenceKept ==
  ASSUME UNCHANGED progress, postRun.pc = "close", postRun'.pc = "close",
         postRun'.part.key = postRun.part.key, postRun.part.silent => postRun'.part.silent,
         NEW k, KnownSilent(k)
  PROVE  KnownSilent(k)'
  BY DEF KnownSilent

LEMMA LearnHolds == ASSUME PostIInv, NEW c \in P!Channels, P!Learn(c) PROVE PostIInv'
<1>0. PICK key \in ElementKeys : key = postRun.part.key
  BY ElementInHand DEF P!Learn, P!Asking
<1> DEFINE part == [postRun.part EXCEPT ![c] = "none"]
<1>1. /\ P!Asking(c) /\ P!Answered(c, part) /\ evidence' = evidence \cup {<<key, c>>}
      /\ paid' = [paid EXCEPT ![<<key, c>>] = @ + 1]
      /\ UNCHANGED <<vision, progress, postSource, postRuns>>
  BY <1>0 DEF P!Learn
<1>2. /\ postRun.pc = "close" /\ postRun.part \in P!Part
      /\ key \in ElementKeys /\ postRun \in PostRun
  BY <1>0, <1>1, ElementInHand DEF P!Asking
<1>3. part \in P!Part /\ part.key = key /\ part.silent = postRun.part.silent
  <2>1. "none" \in P!Errors
    BY DEF P!Errors
  <2> QED
    BY <1>0, <1>2, <2>1, PartWith
<1>4. paid[<<key, c>>] = 0 /\ paid \in [ElementKeys \X P!Channels -> Nat]
  BY <1>0, <1>1, NotYetPaid DEF PostIInv, PostTyped
<1>5. /\ paid' \in [ElementKeys \X P!Channels -> Nat] /\ paid'[<<key, c>>] = 1
      /\ \A k \in ElementKeys, d \in P!Channels : <<k, d>> # <<key, c>> =>
            paid'[<<k, d>>] = paid[<<k, d>>]
  BY <1>1, <1>2, <1>4
<1>6. postRun'.pc = "close" /\ postRun'.part = part
  BY <1>1, <1>2 DEF P!Answered, PostRun
<1> HIDE DEF part
<1>7. ASSUME NEW k \in ElementKeys PROVE Settled(k)'
  <2>1. Settled(k) /\ (KnownSilent(k) => KnownSilent(k)')
    BY <1>0, <1>1, <1>2, <1>3, <1>6, SilenceKept DEF PostIInv
  <2>2. \A d \in P!Channels : P!Has(k, d) => P!Has(k, d)'
    BY <1>1 DEF P!Has
  <2>3. P!Has(key, c)'
    BY <1>1 DEF P!Has
  <2> QED
    BY <1>5, <2>1, <2>2, <2>3 DEF Settled, P!Channels
<1> QED
  BY <1>0, <1>1, <1>3, <1>5, <1>7, AnswerInHand

LEMMA NobodySpeaksHolds == ASSUME PostIInv, P!NoSpeech PROVE PostIInv'
<1>0. PICK key \in ElementKeys : key = postRun.part.key
  BY ElementInHand DEF P!NoSpeech, P!Asking
<1> DEFINE part == [postRun.part EXCEPT !.silent = TRUE, !.audio = "none"]
           c == "audio"
<1>1. /\ P!Asking(c) /\ P!Answered(c, part) /\ evidence' = evidence
      /\ paid' = [paid EXCEPT ![<<key, c>>] = @ + 1]
      /\ UNCHANGED <<vision, progress, postSource, postRuns>>
  BY <1>0 DEF P!NoSpeech
<1>2. /\ postRun.pc = "close" /\ postRun.part \in P!Part /\ key \in ElementKeys
      /\ postRun \in PostRun /\ c \in P!Channels
  BY <1>1, ElementInHand DEF P!Asking, P!Channels
<1>3. part \in P!Part /\ part.key = key /\ part.silent
  BY <1>0, <1>2 DEF P!Part, P!Errors
<1>4. paid[<<key, c>>] = 0 /\ paid \in [ElementKeys \X P!Channels -> Nat]
  BY <1>0, <1>1, <1>2, NotYetPaid DEF PostIInv, PostTyped
<1>5. /\ paid' \in [ElementKeys \X P!Channels -> Nat] /\ paid'[<<key, c>>] = 1
      /\ \A k \in ElementKeys, d \in P!Channels : <<k, d>> # <<key, c>> =>
            paid'[<<k, d>>] = paid[<<k, d>>]
  BY <1>1, <1>2, <1>4
<1>6. postRun'.pc = "close" /\ postRun'.part = part
  BY <1>1, <1>2 DEF P!Answered, PostRun
<1> HIDE DEF part
<1>7. ASSUME NEW k \in ElementKeys PROVE Settled(k)'
  <2>1. Settled(k) /\ (KnownSilent(k) => KnownSilent(k)')
    BY <1>0, <1>1, <1>2, <1>3, <1>6, SilenceKept DEF PostIInv
  <2>2. \A d \in P!Channels : P!Has(k, d) => P!Has(k, d)'
    BY <1>1 DEF P!Has
  <2>3. KnownSilent(key)'
    BY <1>3, <1>6 DEF KnownSilent
  <2> QED
    BY <1>5, <2>1, <2>2, <2>3 DEF Settled, P!Channels
<1> QED
  BY <1>0, <1>1, <1>2, <1>3, <1>5, <1>7, AnswerInHand

LEMMA ProviderFailsHolds ==
  ASSUME PostIInv, NEW c \in P!Channels, P!ProviderFails(c) PROVE PostIInv'
<1>1. /\ P!Asking(c)
      /\ UNCHANGED <<vision, progress, evidence, postSource, postRuns, paid>>
  BY DEF P!ProviderFails
<1>2. /\ postRun.pc = "close" /\ postRun.part \in P!Part /\ postRun \in PostRun
      /\ postRun.part.key \in ElementKeys
  BY <1>1, ElementInHand DEF P!Asking
<1>3. PICK e \in {"transient", "permanent"} : P!Answered(c, [postRun.part EXCEPT ![c] = e])
  BY DEF P!ProviderFails
<1> DEFINE part == [postRun.part EXCEPT ![c] = e]
<1>4. part \in P!Part /\ part.key = postRun.part.key /\ part.silent = postRun.part.silent
  <2>1. e \in P!Errors
    BY DEF P!Errors
  <2> QED
    BY <1>2, <2>1, PartWith
<1>5. P!Answered(c, part)
  BY <1>3
<1> HIDE DEF part
<1>6. postRun'.pc = "close" /\ postRun'.part = part
  BY <1>2, <1>5 DEF P!Answered, PostRun
<1>7. ASSUME NEW k \in ElementKeys PROVE Settled(k)'
  <2>1. Settled(k) /\ (KnownSilent(k) => KnownSilent(k)')
    BY <1>1, <1>2, <1>4, <1>6, SilenceKept DEF PostIInv
  <2> QED
    BY <1>1, <2>1, SameRecord DEF Settled
<1> QED
  BY <1>1, <1>4, <1>5, <1>7, AnswerInHand DEF PostIInv, PostTyped

(* An element is taken in hand.                                             *)
LEMMA PrepareHolds == ASSUME PostIInv, P!Prepare PROVE PostIInv'
<1>1. /\ postRun \in PostRun /\ postRun.pc = "elements" /\ postRun.ask = {} /\ postRun.used = 0
      /\ progress # Nil /\ postSource = "PENDING" /\ progress \in P!Progress /\ Recorded(progress)
      /\ postRun.at \in 1..Len(progress.parts)
      /\ UNCHANGED <<vision, progress, evidence, postSource, postRuns, paid>>
  <2>1. /\ postRun \in PostRun /\ postRun.pc = "elements" /\ postRun.ask = {} /\ postRun.used = 0
        /\ progress # Nil /\ postSource = "PENDING" /\ progress \in P!Progress
        /\ Recorded(progress) /\ postRun.at \in Nat \ {0} /\ postRun.at <= Len(progress.parts)
    BY DEF P!Prepare, P!InLoop, PostIInv, PostRunFits, PostTyped
  <2>2. progress.parts \in Seq(P!Part) /\ Len(progress.parts) \in Nat
    BY <2>1 DEF P!Progress
  <2>3. UNCHANGED <<vision, progress, evidence, postSource, postRuns, paid>>
    BY DEF P!Prepare
  <2> QED
    BY <2>1, <2>2, <2>3
<1>2. P!Here \in P!Part
  BY <1>1 DEF P!Here, P!Progress
<1>3. P!Remaining \in Nat
  BY <1>1, PostAssumed DEF P!Remaining, Recorded, P!Progress
<1> DEFINE clean == [P!Here EXCEPT !.audio = IF P!Has(P!Here.key, "audio") THEN "none" ELSE @,
                                   !.visual = IF P!Has(P!Here.key, "visual") THEN "none" ELSE @]
           ask == P!Missing(clean)
<1>4. clean \in P!Part /\ clean.key = P!Here.key /\ clean.silent = P!Here.silent
  BY <1>2 DEF P!Part, P!Errors
<1>5. /\ ask \subseteq P!Channels /\ \A c \in ask : ~P!Has(clean.key, c)
      /\ "audio" \in ask => ~clean.silent
  BY DEF P!Missing
<1>6. /\ postRun' \in PostRun /\ postRun'.pc = "close" /\ postRun'.at = postRun.at
      /\ postRun'.part \in P!Part /\ postRun'.part.key = clean.key
      /\ clean.silent => postRun'.part.silent
      /\ postRun'.used <= P!Remaining /\ postRun'.ask \subseteq ask
      /\ "audio" \in postRun'.ask => ~postRun'.part.silent
  <2>1. CASE ElementKind[P!Here.key] = "unknown"
    <3>1. postRun' = [postRun EXCEPT !.pc = "close",
                                     !.part = [clean EXCEPT !.visual = "permanent"]]
      BY <2>1 DEF P!Prepare
    <3> DEFINE part == [clean EXCEPT !.visual = "permanent"]
    <3>2. part \in P!Part /\ part.key = clean.key /\ part.silent = clean.silent
      BY <1>4 DEF P!Part, P!Errors
    <3> HIDE DEF part, clean
    <3>3. /\ postRun' \in PostRun /\ postRun'.pc = "close" /\ postRun'.at = postRun.at
          /\ postRun'.part = part /\ postRun'.used = 0 /\ postRun'.ask = {}
      BY <1>1, <3>1, <3>2 DEF PostRun, part
    <3> QED
      BY <1>3, <3>2, <3>3
  <2>2. CASE ElementKind[P!Here.key] # "unknown"
    <3>1. PICK spent \in IF ask = {} THEN {0} ELSE 0..P!Remaining, o \in P!Outcomes(ask),
               mute \in BOOLEAN :
             /\ mute => "audio" \in ask /\ o["audio"] = "fine"
             /\ postRun' = [postRun EXCEPT
                  !.pc = "close", !.used = spent,
                  !.ask = {c \in ask : o[c] = "fine"} \ (IF mute THEN {"audio"} ELSE {}),
                  !.part = [clean EXCEPT !.silent = @ \/ mute,
                                         !.audio = P!After(clean, ask, o, mute, "audio"),
                                         !.visual = P!After(clean, ask, o, mute, "visual")]]
      BY <2>2 DEF P!Prepare
    <3> HIDE DEF ask, clean
    <3>2. \A c \in P!Channels : P!After(clean, ask, o, mute, c) \in P!Errors
      <4>1. \A c \in P!Channels : clean[c] \in P!Errors
        BY <1>4 DEF P!Part, P!Channels
      <4>2. \A c \in ask : o[c] \in P!Errors \cup {"fine"}
        BY DEF P!Outcomes, P!Errors
      <4> QED
        BY <4>1, <4>2 DEF P!After, P!Errors
    <3> DEFINE part == [clean EXCEPT !.silent = @ \/ mute,
                                     !.audio = P!After(clean, ask, o, mute, "audio"),
                                     !.visual = P!After(clean, ask, o, mute, "visual")]
    <3>3. part \in P!Part /\ part.key = clean.key /\ (part.silent <=> clean.silent \/ mute)
      BY <1>4, <3>2 DEF P!Part, P!Channels
    <3>4. spent \in 0..P!Remaining
      BY <1>3
    <3> DEFINE asked == {c \in ask : o[c] = "fine"} \ (IF mute THEN {"audio"} ELSE {})
    <3>5. asked \subseteq ask /\ (mute => "audio" \notin asked)
      OBVIOUS
    <3>6. postRun' = [postRun EXCEPT !.pc = "close", !.used = spent, !.ask = asked, !.part = part]
      BY <3>1
    <3> HIDE DEF part, asked
    <3>7. /\ postRun' \in PostRun /\ postRun'.pc = "close" /\ postRun'.at = postRun.at
          /\ postRun'.part = part /\ postRun'.used = spent /\ postRun'.ask = asked
      <4>1. spent \in Nat /\ asked \in SUBSET P!Channels
        BY <1>3, <1>5, <3>4, <3>5
      <4> QED
        BY <1>1, <3>3, <3>6, <4>1 DEF PostRun
    <3>8. "audio" \in asked => ~part.silent
      BY <1>5, <3>3, <3>5
    <3> QED
      BY <1>3, <3>3, <3>4, <3>5, <3>7, <3>8
  <2> QED
    BY <2>1, <2>2
<1> HIDE DEF ask, clean
<1>7. P!Here' = P!Here
  BY <1>1, <1>6 DEF P!Here
<1>8. InHand'
  <2>1. \A c \in postRun'.ask : ~P!Has(postRun.part.key, c)'
    BY <1>1, <1>5, <1>6 DEF P!Has
  <2> QED
    BY <1>1, <1>4, <1>6, <1>7, <2>1, SameRecord DEF InHand
<1>9. PostTyped' /\ Recorded(progress)'
  BY <1>1, <1>6, SameRecord DEF PostIInv, PostTyped
<1>10. PostRunFits'
  BY <1>1, <1>6, <1>8 DEF PostRunFits
<1>11. ASSUME NEW k \in ElementKeys PROVE Settled(k)'
  <2>1. Settled(k) /\ (KnownSilent(k) => KnownSilent(k)')
    BY <1>1 DEF PostIInv, KnownSilent
  <2> QED
    BY <1>1, <2>1, SameRecord DEF Settled
<1> QED
  BY <1>9, <1>10, <1>11 DEF PostIInv

(* The element in hand goes into the record, done only with a row of it.    *)
LEMMA SaveElementHolds == ASSUME PostIInv, P!SaveElement PROVE PostIInv'
<1>1. /\ postRun \in PostRun /\ postRun.pc = "close" /\ postRun.at \in 1..Len(progress.parts)
      /\ progress \in P!Progress /\ progress.parts \in Seq(P!Part) /\ postSource = "PENDING"
      /\ postRun.part \in P!Part /\ postRun.part.key = progress.parts[postRun.at].key
      /\ Recorded(progress) /\ InHand
      /\ UNCHANGED <<vision, evidence, postSource, postRuns, paid>>
  BY ElementInHand DEF P!SaveElement, PostIInv, PostRunFits
<1> DEFINE verdict == P!Verdict(postRun.part)
           saved == [verdict EXCEPT !.done = P!Finished(verdict)]
           parts == [progress.parts EXCEPT ![postRun.at] = saved]
           spent == "budget" \in {verdict.audio, verdict.visual}
<1>2. verdict \in P!Part /\ verdict.key = postRun.part.key /\ verdict.silent = postRun.part.silent
  BY <1>1 DEF P!Verdict, P!Part, P!Errors
<1>3. /\ saved \in P!Part /\ saved.key = postRun.part.key /\ saved.silent = postRun.part.silent
      /\ saved.done => \E c \in P!Channels : P!Has(saved.key, c)
  <2> HIDE DEF verdict
  <2>1. P!Finished(verdict) \in BOOLEAN
    BY DEF P!Finished
  <2>2. saved \in P!Part /\ saved.key = verdict.key /\ saved.silent = verdict.silent
        /\ saved.done = P!Finished(verdict)
    BY <1>2, <2>1 DEF P!Part
  <2>3. P!Finished(verdict) => \E c \in P!Channels : P!Has(verdict.key, c)
    BY DEF P!Finished
  <2> QED
    BY <1>2, <2>2, <2>3
<1>4. /\ progress' = [progress EXCEPT !.parts = parts, !.processed = P!Done(parts),
                                      !.bytes = @ + postRun.used,
                                      !.exhausted = spent]
      /\ postRun' = [P!Idle EXCEPT !.pc = "elements", !.at = postRun.at + 1]
  BY DEF P!SaveElement
<1>5. /\ parts \in Seq(P!Part) /\ Len(parts) = Len(progress.parts) /\ Len(parts) \in Nat
      /\ \A n \in 1..Len(parts) : parts[n] = IF n = postRun.at THEN saved ELSE progress.parts[n]
  <2> HIDE DEF saved
  <2>1. \A n \in 1..Len(progress.parts) : progress.parts[n] \in P!Part
    BY <1>1
  <2> QED
    BY <1>1, <1>3, ExceptSeq, LenProperties
<1> HIDE DEF verdict, saved, parts, spent
<1>6. P!Done(parts) \in 0..Len(parts)
      /\ (P!Done(parts) = Len(parts) => \A n \in 1..Len(parts) : parts[n].done)
  BY <1>5, DoneCount
<1>7. /\ progress' \in P!Progress /\ progress'.parts = parts /\ progress'.total = progress.total
      /\ progress'.processed = P!Done(parts) /\ progress'.bytes = progress.bytes + postRun.used
  <2>1. spent \in BOOLEAN
    BY DEF spent
  <2>2. P!Done(parts) \in Nat /\ progress.bytes + postRun.used \in Nat
    BY <1>1, <1>5, <1>6 DEF P!Progress, PostRun
  <2> QED
    BY <1>1, <1>4, <1>5, <2>1, <2>2 DEF P!Progress
<1>8. Recorded(progress)'
  <2>1. \A m, n \in 1..Len(parts) : parts[m].key = parts[n].key => m = n
    BY <1>1, <1>3, <1>5 DEF Recorded
  <2>2. ASSUME NEW n \in 1..Len(parts), parts[n].done
        PROVE  \E c \in P!Channels : P!Has(parts[n].key, c)
    BY <1>1, <1>3, <1>5, <2>2 DEF Recorded
  <2>3. progress.bytes + postRun.used <= MaxBytes
    BY <1>1, PostAssumed DEF InHand, P!Remaining, P!Progress, PostRun
  <2>4. \A k, c : P!Has(k, c)' <=> P!Has(k, c)
    BY <1>1 DEF P!Has
  <2> QED
    BY <1>1, <1>5, <1>6, <1>7, <2>1, <2>2, <2>3, <2>4 DEF Recorded
<1>9. /\ postRun' \in PostRun /\ postRun'.pc = "elements" /\ postRun'.at = postRun.at + 1
      /\ postRun'.ask = {} /\ postRun'.used = 0
  <2>1. postRun.at + 1 \in Nat
    BY <1>1
  <2> QED
    BY <1>4, <2>1, IdlePost DEF PostRun
<1>10. PostTyped' /\ PostRunFits'
  BY <1>1, <1>7, <1>9, PostAssumed DEF PostIInv, PostTyped, PostRunFits
<1>11. ASSUME NEW k \in ElementKeys PROVE Settled(k)'
  <2>1. KnownSilent(k) => KnownSilent(k)'
    <3>1. CASE postRun.part.key = k /\ postRun.part.silent
      <4>1. parts[postRun.at].key = k /\ parts[postRun.at].silent /\ postRun.at \in 1..Len(parts)
        BY <1>1, <1>3, <1>5, <3>1
      <4> QED
        BY <1>7, <4>1, PostAssumed DEF KnownSilent
    <3>2. CASE \E n \in 1..Len(progress.parts) :
                  progress.parts[n].key = k /\ progress.parts[n].silent
      <4>1. PICK n \in 1..Len(progress.parts) :
                  progress.parts[n].key = k /\ progress.parts[n].silent
        BY <3>2
      <4>2. parts[n].key = k /\ parts[n].silent /\ n \in 1..Len(parts)
        BY <1>1, <1>3, <1>5, <4>1 DEF InHand, P!Here
      <4> QED
        BY <1>7, <4>2, PostAssumed DEF KnownSilent
    <3> QED
      BY <3>1, <3>2 DEF KnownSilent
  <2>2. Settled(k) /\ \A c : P!Has(k, c)' <=> P!Has(k, c)
    BY <1>1 DEF P!Has, PostIInv
  <2> QED
    BY <1>1, <2>1, <2>2 DEF Settled
<1> QED
  BY <1>8, <1>10, <1>11 DEF PostIInv

(* The record changes beside its elements.                                  *)
LEMMA SameElements ==
  ASSUME PostIInv, progress # Nil, progress' \in P!Progress, progress'.parts = progress.parts,
         progress'.total = progress.total,
         progress'.processed \in {progress.processed, P!Done(progress.parts)},
         progress'.bytes \in {0, progress.bytes},
         UNCHANGED <<vision, evidence, paid>>, postRuns' \in 0..MaxReadings,
         postSource' \in {"PENDING", "FAILED", "DEAD"},
         postRun.pc # "close",
         \/ postRun' = P!Idle
         \/ postRun' = postRun /\ postRun.pc = "idle"
         \/ /\ postRun' = [P!Idle EXCEPT !.pc = "extracted"] /\ postSource' = "PENDING"
            /\ P!HasContent(progress)
  PROVE  PostIInv'
<1>1. /\ progress \in P!Progress /\ progress.parts \in Seq(P!Part) /\ Recorded(progress)
      /\ progress' # Nil
  BY PostAssumed DEF PostIInv, PostTyped, P!Progress
<1>2. /\ P!Done(progress.parts) \in 0..Len(progress.parts)
      /\ P!Done(progress.parts) = Len(progress.parts)
            => \A n \in 1..Len(progress.parts) : progress.parts[n].done
  BY <1>1, DoneCount
<1>3. \A k, c : P!Has(k, c)' <=> P!Has(k, c)
  BY DEF P!Has
<1>4. Recorded(progress)'
  BY <1>1, <1>2, <1>3, PostAssumed DEF Recorded, P!Progress
<1>5. P!HasContent(progress)' <=> P!HasContent(progress)
  BY DEF P!HasContent, P!Seen, P!KeysOf
<1>6. /\ postRun' \in PostRun /\ postRun'.pc \in {"idle", "extracted"}
      /\ postRun'.pc = "extracted" => P!HasContent(progress)' /\ postSource' = "PENDING"
  BY <1>5, IdlePost DEF PostRun, PostIInv, PostTyped
<1>7. PostTyped' /\ PostRunFits'
  BY <1>1, <1>6 DEF PostIInv, PostTyped, PostRunFits
<1>8. ASSUME NEW k \in ElementKeys PROVE Settled(k)'
  <2>1. Settled(k) /\ (KnownSilent(k) => KnownSilent(k)')
    BY <1>1 DEF PostIInv, KnownSilent
  <2> QED
    BY <1>3, <2>1 DEF Settled
<1> QED
  BY <1>1, <1>4, <1>7, <1>8 DEF PostIInv

(* All elements were seen: the record is complete, and otherwise the same.  *)
LEMMA CompletedRecord ==
  ASSUME PostIInv, P!Complete
  PROVE  /\ progress # Nil /\ progress' \in P!Progress /\ progress'.complete
         /\ progress'.parts = progress.parts /\ progress'.total = progress.total
         /\ progress'.processed = P!Done(progress.parts) /\ progress'.bytes = progress.bytes
<1>1. progress # Nil /\ progress \in P!Progress
  BY DEF P!Complete, PostIInv, PostTyped, PostRunFits
<1> DEFINE spent == progress.exhausted \/ P!OutOfBudget
<1>2. progress' = [progress EXCEPT !.processed = P!Done(progress.parts), !.complete = TRUE,
                                   !.exhausted = spent]
  BY DEF P!Complete
<1>3. spent \in BOOLEAN
  OBVIOUS
<1> HIDE DEF spent
<1>4. P!Done(progress.parts) \in Nat
  <2>1. progress.parts \in Seq(P!Part) /\ Len(progress.parts) \in Nat
    BY <1>1 DEF P!Progress
  <2> QED
    BY <2>1, DoneCount
<1> QED
  BY <1>1, <1>2, <1>3, <1>4 DEF P!Progress

LEMMA CompleteHolds == ASSUME PostIInv, P!Complete PROVE PostIInv'
<1>1. /\ postRun.pc = "elements" /\ postSource = "PENDING" /\ postRuns \in 0..MaxReadings
      /\ UNCHANGED <<vision, evidence, paid, postRuns>>
  BY DEF P!Complete, PostIInv, PostTyped, PostRunFits
<1>2. /\ postSource' \in {"PENDING", "FAILED", "DEAD"}
      /\ \/ postRun' = P!Idle
         \/ /\ postRun' = [P!Idle EXCEPT !.pc = "extracted"] /\ postSource' = "PENDING"
            /\ P!HasContent(progress)
  BY <1>1 DEF P!Complete
<1> QED
  BY <1>1, <1>2, CompletedRecord, SameElements

LEMMA ReadingFailsHolds ==
  ASSUME PostIInv, NEW error \in {"transient", "permanent"}, P!ReadingFails(error)
  PROVE  PostIInv'
<1>1. /\ postRun \in PostRun /\ postRun.pc = "idle" /\ postSource = "PENDING"
      /\ postRuns' \in 0..MaxReadings /\ UNCHANGED <<vision, evidence, paid>>
  BY PostAssumed DEF P!ReadingFails, P!Due, PostIInv, PostTyped
<1>2. CASE progress # Nil /\ P!HasContent(progress)
  <2>1. /\ progress' = [progress EXCEPT !.complete = TRUE, !.refresh = error]
        /\ postRun' = [P!Idle EXCEPT !.pc = "extracted"] /\ postSource' = postSource
    BY <1>2 DEF P!ReadingFails
  <2>2. progress \in P!Progress
    BY <1>2 DEF PostIInv, PostTyped
  <2>3. /\ progress' \in P!Progress /\ progress'.parts = progress.parts
        /\ progress'.total = progress.total /\ progress'.processed = progress.processed
        /\ progress'.bytes = progress.bytes
    BY <2>1, <2>2 DEF P!Progress
  <2> QED
    BY <1>1, <1>2, <2>1, <2>3, SameElements
<1>3. CASE ~(progress # Nil /\ P!HasContent(progress))
  <2>1. postSource' \in {"FAILED", "DEAD"} /\ UNCHANGED <<progress, postRun>>
    BY <1>3 DEF P!ReadingFails
  <2>2. PostRunFits'
    BY <1>1, <2>1 DEF PostRunFits
  <2> QED
    BY <1>1, <2>1, <2>2, PostPasses
<1> QED
  BY <1>2, <1>3

LEMMA RetryPostHolds == ASSUME PostIInv, P!Retry PROVE PostIInv'
<1>1. /\ postRun \in PostRun /\ postRun.pc = "idle" /\ postSource' = "PENDING"
      /\ postRuns' \in 0..MaxReadings /\ UNCHANGED <<vision, evidence, paid, postRun>>
  BY DEF P!Retry, PostIInv, PostTyped, PostRunFits
<1>2. CASE progress = Nil
  <2>1. progress' = progress
    BY <1>2 DEF P!Retry
  <2>2. PostRunFits'
    BY <1>1, <2>1 DEF PostRunFits
  <2> QED
    BY <1>1, <2>1, <2>2, PostPasses
<1>3. CASE progress # Nil
  <2>1. progress' = [progress EXCEPT !.complete = FALSE, !.bytes = 0, !.exhausted = FALSE]
    BY <1>3 DEF P!Retry
  <2>2. progress \in P!Progress
    BY <1>3 DEF PostIInv, PostTyped
  <2>3. /\ progress' \in P!Progress /\ progress'.parts = progress.parts
        /\ progress'.total = progress.total /\ progress'.processed = progress.processed
        /\ progress'.bytes = 0
    BY <2>1, <2>2 DEF P!Progress
  <2> QED
    BY <1>1, <1>3, <2>3, SameElements
<1> QED
  BY <1>2, <1>3

(* The run is over before its end; what nobody else knows is bought again.  *)
LEMMA InterruptHolds == ASSUME PostIInv, NEW v \in BOOLEAN, P!Interrupt(v) PROVE PostIInv'
<1>1. /\ vision' = v /\ postRun' = P!Idle
      /\ UNCHANGED <<progress, evidence, postSource, postRuns>>
  BY DEF P!Interrupt
<1>2. PostRunFits'
  BY <1>1, IdlePost, SameRecord DEF PostIInv, PostRunFits
<1>3. paid \in [ElementKeys \X P!Channels -> Nat]
  BY DEF PostIInv, PostTyped
<1>4. CASE postRun.pc = "close" /\ postRun.part.silent /\ ~P!Here.silent
  <2>1. PICK key \in ElementKeys : key = postRun.part.key
    BY <1>4, ElementInHand
  <2>2. paid' = [paid EXCEPT ![<<key, "audio">>] = 0]
    BY <1>4, <2>1 DEF P!Interrupt
  <2>3. /\ paid' \in [ElementKeys \X P!Channels -> Nat] /\ paid'[<<key, "audio">>] = 0
        /\ \A k \in ElementKeys, d \in P!Channels : <<k, d>> # <<key, "audio">> =>
              paid'[<<k, d>>] = paid[<<k, d>>]
    BY <1>3, <2>1, <2>2 DEF P!Channels
  <2>4. PostTyped' /\ (progress' # Nil => Recorded(progress)')
    BY <1>1, <2>3, IdlePost, SameRecord DEF PostIInv, PostTyped
  <2>5. ASSUME NEW k \in ElementKeys PROVE Settled(k)'
    <3>1. Settled(k) /\ (KnownSilent(k) => KnownSilent(k)' \/ k = key)
      BY <1>1, <2>1 DEF PostIInv, KnownSilent
    <3> QED
      BY <1>1, <2>3, <3>1, SameRecord DEF Settled, P!Channels
  <2> QED
    BY <1>2, <2>4, <2>5 DEF PostIInv
<1>5. CASE ~(postRun.pc = "close" /\ postRun.part.silent /\ ~P!Here.silent)
  <2>1. paid' = paid
    BY <1>5 DEF P!Interrupt
  <2>2. PostTyped' /\ (progress' # Nil => Recorded(progress)')
    BY <1>1, <2>1, IdlePost, SameRecord DEF PostIInv, PostTyped
  <2>3. ASSUME NEW k \in ElementKeys PROVE Settled(k)'
    <3>1. Settled(k)
      BY DEF PostIInv
    <3>2. KnownSilent(k) => KnownSilent(k)'
      <4>1. CASE postRun.pc = "close" /\ postRun.part.key = k /\ postRun.part.silent
        <5>1. /\ P!Here.silent /\ P!Here.key = k /\ progress # Nil
              /\ postRun.at \in 1..Len(progress.parts)
          BY <1>5, <4>1 DEF PostIInv, PostRunFits, InHand
        <5> QED
          BY <1>1, <5>1 DEF KnownSilent, P!Here
      <4>2. CASE ~(postRun.pc = "close" /\ postRun.part.key = k /\ postRun.part.silent)
        BY <1>1, <4>2 DEF KnownSilent
      <4> QED
        BY <4>1, <4>2
    <3> QED
      BY <1>1, <2>1, <3>1, <3>2, SameRecord DEF Settled
  <2> QED
    BY <1>2, <2>2, <2>3 DEF PostIInv
<1> QED
  BY <1>4, <1>5

(* The post is read: what is known of its elements goes with their keys     *)
(* into the new record.                                                     *)
LEMMA ReadHolds == ASSUME PostIInv, NEW l \in Listings, P!Read(l) PROVE PostIInv'
<1> DEFINE count == IF Len(l) < MaxElements THEN Len(l) ELSE MaxElements
           parts == [n \in 1..count |-> P!Kept(l[n])]
           valid == {l[n] : n \in 1..count}
<1>1. /\ postRun.pc = "idle" /\ postSource = "PENDING" /\ postRuns' \in 0..MaxReadings
      /\ UNCHANGED <<vision, postSource>>
      /\ postRun' = [P!Idle EXCEPT !.pc = "elements", !.at = 1]
  BY PostAssumed DEF P!Read, P!Due, PostIInv, PostTyped
<1>2. /\ l \in Seq(ElementKeys) /\ Len(l) \in Nat /\ DOMAIN l = 1..Len(l)
      /\ \A m, n \in 1..Len(l) : l[m] = l[n] => m = n
      /\ \A n \in 1..Len(l) : l[n] \in ElementKeys
  <2>1. l \in Seq(ElementKeys) /\ \A m, n \in DOMAIN l : l[m] = l[n] => m = n
    BY PostAssumed
  <2> QED
    BY <2>1, LenProperties, ElementOfSeq
<1>3. count \in 0..Len(l)
  BY <1>2, PostAssumed
<1>4. progress' = [parts |-> parts, total |-> Len(l), processed |-> 0, complete |-> FALSE,
                   exhausted |-> FALSE, refresh |-> "none",
                   bytes |-> IF progress = Nil THEN 0 ELSE progress.bytes]
  BY DEF P!Read
<1>5. /\ evidence' = {e \in evidence : e[1] \in valid}
      /\ paid' = [c \in DOMAIN paid |-> IF c[1] \in valid THEN paid[c] ELSE 0]
  BY DEF P!Read
<1>6. ASSUME NEW n \in 1..count
      PROVE  /\ l[n] \in ElementKeys /\ l[n] \in valid /\ parts[n] = P!Kept(l[n])
             /\ parts[n] \in P!Part /\ parts[n].key = l[n]
  <2>1. l[n] \in ElementKeys
    BY <1>2, <1>3
  <2>2. P!Kept(l[n]) \in P!Part /\ P!Kept(l[n]).key = l[n]
    BY <2>1, KeptPart DEF PostIInv
  <2> QED
    BY <2>1, <2>2
<1>7. parts \in Seq(P!Part) /\ Len(parts) = count
  <2>1. count \in Nat
    BY <1>2, <1>3
  <2> HIDE DEF count
  <2>2. parts \in [1..count -> P!Part]
    BY <1>6
  <2>3. parts \in Seq(P!Part)
    BY <2>1, <2>2, SeqDef
  <2> QED
    BY <2>1, <2>2, <2>3, LenProperties
<1> HIDE DEF parts
<1>8. ASSUME NEW k \in valid PROVE k \in ElementKeys /\ \E n \in 1..count : k = l[n]
  BY <1>2, <1>3
<1> HIDE DEF count, valid
<1>9. ASSUME NEW k \in ElementKeys, NEW c \in P!Channels
      PROVE  /\ P!Has(k, c)' <=> P!Has(k, c) /\ k \in valid
             /\ paid'[<<k, c>>] = IF k \in valid THEN paid[<<k, c>>] ELSE 0
  BY <1>5 DEF P!Has, PostIInv, PostTyped
<1>10. /\ progress' \in P!Progress /\ progress'.parts = parts /\ progress'.total = Len(l)
       /\ progress'.processed = 0 /\ progress'.bytes <= MaxBytes
  <2> DEFINE bytes == IF progress = Nil THEN 0 ELSE progress.bytes
  <2>1. bytes \in Nat /\ bytes <= MaxBytes
    BY PostAssumed DEF PostIInv, PostTyped, Recorded, P!Progress
  <2> HIDE DEF bytes
  <2>2. progress' = [parts |-> parts, total |-> Len(l), processed |-> 0, complete |-> FALSE,
                     exhausted |-> FALSE, refresh |-> "none", bytes |-> bytes]
    BY <1>4 DEF bytes
  <2> QED
    BY <1>2, <1>7, <2>1, <2>2 DEF P!Progress
<1>11. Recorded(progress)'
  <2>1. ASSUME NEW m \in 1..count, NEW n \in 1..count, parts[m].key = parts[n].key PROVE m = n
    <3>1. l[m] = l[n]
      BY <1>6, <2>1
    <3>2. m \in 1..Len(l) /\ n \in 1..Len(l)
      BY <1>2, <1>3
    <3> QED
      BY <1>2, <3>1, <3>2
  <2>2. ASSUME NEW n \in 1..count, parts[n].done
        PROVE  \E c \in P!Channels : P!Has(l[n], c)'
    <3>1. l[n] \in ElementKeys /\ l[n] \in valid /\ parts[n] = P!Kept(l[n]) /\ parts[n].key = l[n]
      BY <1>6
    <3>2. /\ progress # Nil
          /\ \E m \in 1..Len(progress.parts) : parts[n] = progress.parts[m]
      BY <2>2, <3>1, KeptPart DEF PostIInv
    <3>3. \E c \in P!Channels : P!Has(l[n], c)
      BY <2>2, <3>1, <3>2 DEF PostIInv, Recorded
    <3> QED
      BY <1>9, <3>1, <3>3
  <2>3. count = 0 => \A n \in 1..count : parts[n].done
    OBVIOUS
  <2> QED
    <3>1. Len(progress'.parts) = count /\ count <= Len(l)
      BY <1>2, <1>3, <1>7, <1>10
    <3>2. \A n \in 1..count : progress'.parts[n] = parts[n] /\ parts[n].key = l[n]
      BY <1>6, <1>10
    <3> QED
      BY <1>10, <2>1, <2>2, <2>3, <3>1, <3>2 DEF Recorded
<1>12. /\ postRun' \in PostRun /\ postRun'.pc = "elements" /\ postRun'.at = 1
       /\ postRun'.ask = {} /\ postRun'.used = 0
  BY <1>1, IdlePost DEF PostRun
<1>13. PostTyped'
  <2>1. evidence' \subseteq ElementKeys \X P!Channels
    BY <1>5 DEF PostIInv, PostTyped
  <2>2. paid' \in [ElementKeys \X P!Channels -> Nat]
    BY <1>5 DEF PostIInv, PostTyped
  <2> QED
    BY <1>1, <1>10, <1>12, <2>1, <2>2 DEF PostIInv, PostTyped
<1>14. PostRunFits' /\ progress' # Nil
  BY <1>1, <1>10, <1>12, PostAssumed DEF PostRunFits
<1>15. ASSUME NEW k \in ElementKeys PROVE Settled(k)'
  <2>1. Settled(k)
    BY DEF PostIInv
  <2>2. CASE k \notin valid
    BY <1>9, <2>2 DEF Settled, P!Channels
  <2>3. CASE k \in valid
    <3>1. KnownSilent(k) => KnownSilent(k)'
      <4> SUFFICES ASSUME KnownSilent(k) PROVE KnownSilent(k)'
        OBVIOUS
      <4>1. PICK m \in 1..Len(progress.parts) :
               progress # Nil /\ progress.parts[m].key = k /\ progress.parts[m].silent
        BY <1>1 DEF KnownSilent
      <4>2. P!Kept(k) = progress.parts[m]
        BY <4>1, KeptPart DEF PostIInv
      <4>3. PICK n \in 1..count : k = l[n]
        BY <1>8, <2>3
      <4>4. parts[n].key = k /\ parts[n].silent
        BY <1>6, <4>1, <4>2, <4>3
      <4> QED
        BY <1>7, <1>10, <1>14, <4>4 DEF KnownSilent
    <3> QED
      BY <1>9, <2>1, <2>3, <3>1 DEF Settled, P!Channels
  <2> QED
    BY <2>2, <2>3
<1> QED
  BY <1>11, <1>13, <1>14, <1>15 DEF PostIInv

LEMMA PostStays == ASSUME PostIInv, UNCHANGED P!vars PROVE PostIInv'
<1>1. UNCHANGED <<vision, progress, evidence, postSource, postRun, postRuns, paid>>
  BY DEF P!vars
<1>2. PostTyped' /\ (progress' # Nil => Recorded(progress)')
  BY <1>1, SameRecord DEF PostIInv, PostTyped
<1>3. InHand' <=> InHand
  BY <1>1, SameRecord DEF InHand, P!Here
<1>4. PostRunFits'
  BY <1>1, <1>3, SameRecord DEF PostIInv, PostRunFits
<1>5. ASSUME NEW k \in ElementKeys PROVE Settled(k)'
  <2>1. Settled(k) /\ (KnownSilent(k)' <=> KnownSilent(k))
    BY <1>1 DEF PostIInv, KnownSilent
  <2> QED
    BY <1>1, <2>1, SameRecord DEF Settled
<1> QED
  BY <1>2, <1>4, <1>5 DEF PostIInv

LEMMA PostStep == ASSUME PostIInv, [P!Next]_(P!vars) PROVE PostIInv'
<1>1. CASE P!Next
  BY <1>1, PostEndsHold, PrepareHolds, NobodySpeaksHolds, SaveElementHolds, CompleteHolds,
     RetryPostHolds, ReadingFailsHolds, ReadHolds, LearnHolds, ProviderFailsHolds, InterruptHolds
     DEF P!Next
<1> QED
  BY <1>1, PostStays

PostSpec == P!Init /\ [][P!Next]_(P!vars)

(* A post that is READY has something to analyse and is the whole post, or  *)
(* is called partial; and what is known of an element - a row, or that      *)
(* nobody speaks in it - is asked of no provider again, whatever was edited *)
(* or interrupted in between (extract_post, _extract_element).              *)
THEOREM PostsFit == PostSpec => [](P!TypeOK /\ P!PartialIsHonest /\ P!ElementsBoughtOnce)
<1>1. P!Init => PostIInv
  BY PostInitHolds
<1>2. PostIInv /\ [P!Next]_(P!vars) => PostIInv'
  BY PostStep
<1>3. PostIInv => P!TypeOK /\ P!PartialIsHonest /\ P!ElementsBoughtOnce
  <2> SUFFICES ASSUME PostIInv PROVE P!TypeOK /\ P!PartialIsHonest /\ P!ElementsBoughtOnce
    OBVIOUS
  <2>1. ASSUME progress # Nil
        PROVE  /\ progress \in P!Progress /\ Recorded(progress) /\ progress.parts \in Seq(P!Part)
               /\ Len(progress.parts) \in Nat
               /\ DOMAIN progress.parts = 1..Len(progress.parts)
    <3>1. progress \in P!Progress /\ Recorded(progress)
      BY <2>1 DEF PostIInv, PostTyped
    <3>2. progress.parts \in Seq(P!Part)
      BY <3>1 DEF P!Progress
    <3> QED
      BY <3>1, <3>2, LenProperties
  <2>2. P!TypeOK
    <3>1. progress # Nil => /\ progress.parts \in Seq(P!Part)
                            /\ progress.bytes \in 0..MaxBytes
                            /\ progress.processed <= progress.total
      BY <2>1, PostAssumed DEF Recorded, P!Progress
    <3> QED
      BY <3>1 DEF PostIInv, PostTyped, PostRun, P!TypeOK
  <2>3. P!PartialIsHonest
    <3> SUFFICES ASSUME postSource = "READY", ~P!Partial(progress)
                 PROVE  /\ P!HasContent(progress)
                        /\ Len(progress.parts) = progress.total
                        /\ \A k \in P!KeysOf(progress) :
                              \E c \in P!Channels : <<k, c>> \in evidence
      BY DEF P!PartialIsHonest, PostIInv, PostRunFits
    <3>1. progress # Nil /\ P!HasContent(progress)
      BY DEF PostIInv, PostRunFits
    <3>2. /\ progress.processed \in Nat /\ progress.total \in Nat /\ Len(progress.parts) \in Nat
          /\ progress.total <= progress.processed
      BY <2>1, <3>1 DEF P!Partial, P!Progress
    <3>3. /\ progress.processed = Len(progress.parts) /\ Len(progress.parts) = progress.total
      BY <2>1, <3>1, <3>2 DEF Recorded
    <3>4. \A n \in 1..Len(progress.parts) :
             \E c \in P!Channels : <<progress.parts[n].key, c>> \in evidence
      BY <2>1, <3>1, <3>3 DEF Recorded, P!Has
    <3> QED
      BY <2>1, <3>1, <3>3, <3>4 DEF P!KeysOf
  <2>4. P!ElementsBoughtOnce
    <3>1. DOMAIN paid = ElementKeys \X P!Channels
      BY DEF PostIInv, PostTyped
    <3>2. \A k \in ElementKeys, c \in P!Channels : paid[<<k, c>>] <= 1
      <4> SUFFICES ASSUME NEW k \in ElementKeys, NEW c \in P!Channels PROVE paid[<<k, c>>] <= 1
        OBVIOUS
      <4>1. paid[<<k, c>>] \in {0, 1}
        BY DEF PostIInv, Settled
      <4> QED
        BY <4>1
    <3> QED
      BY <3>1, <3>2 DEF P!ElementsBoughtOnce
  <2> QED
    BY <2>2, <2>3, <2>4
<1> QED
  BY <1>1, <1>2, <1>3, PTL DEF PostSpec

-----------------------------------------------------------------------------
(* ItemEvidence: every step is one of the pipeline or of one of the three,  *)
(* and leaves the others alone.                                             *)
LEMMA StartOfEach == EvidenceInit => T!Init /\ P!Init /\ S!Init
  BY DEF EvidenceInit

LEMMA StepOfEach ==
  ASSUME [EvidenceNext]_evidenceVars
  PROVE  [T!Next]_(T!vars) /\ [P!Next]_(P!vars) /\ [S!Next]_(S!vars)
  BY DEF EvidenceNext, evidenceVars, mediaVars, postVars, summaryVars, T!vars, P!vars, S!vars

LEMMA EachRuns == EvidenceSpec => MediaSpec /\ PostSpec /\ SummarySpec
  BY StartOfEach, StepOfEach, PTL DEF EvidenceSpec, MediaSpec, PostSpec, SummarySpec

(* What was put together of pieces is one whole, of one download, one       *)
(* listing, one text, whatever was left over from other runs.               *)
THEOREM WholeOfPieces == EvidenceSpec => []PiecesFit
<1>1. /\ T!TypeOK /\ P!TypeOK /\ S!TypeOK /\ T!OneDownload /\ T!VisualOnlyIsSilent
      /\ P!PartialIsHonest /\ S!SummariesOfOneText
      => PiecesFit
  BY DEF PiecesFit, PiecesTyped
<1> QED
  BY <1>1, EachRuns, TranscriptsFit, PostsFit, SummariesFit, PTL

(* No piece that is kept is bought again, by any mix of deadline, restart,  *)
(* failed neighbour, Retry and change of what is fetched.                   *)
THEOREM PiecesBoughtOnce == EvidenceSpec => []NothingBoughtTwice
<1>1. T!SegmentsBoughtOnce /\ P!ElementsBoughtOnce /\ S!ChunksBoughtOnce => NothingBoughtTwice
  BY DEF NothingBoughtTwice
<1> QED
  BY <1>1, EachRuns, TranscriptsFit, PostsFit, SummariesFit, PTL

-----------------------------------------------------------------------------
(* Recordings and posts as sources of the pipeline: what a step does to     *)
(* them in the terms of OneSource.  A recording is looked at once; a failed *)
(* source has nothing to restore; and a post under way is not complete.     *)
MediaSourceInv == /\ MediaIInv
                  /\ mediaRun.pc = "looking" => ~notes
                  /\ mediaSource = "FAILED" => ~T!Restorable

MediaMove ==
    \/ mediaSource' = mediaSource /\ (T!Restorable' <=> T!Restorable)
    \/ mediaSource = "PENDING" /\ mediaSource' \in {"PENDING", "READY"}
          /\ ~T!Restorable /\ T!Restorable'
    \/ mediaSource = "PENDING" /\ mediaSource' = "READY" /\ T!Restorable /\ T!Restorable'
    \/ mediaSource = "PENDING" /\ mediaSource' = "FAILED" /\ ~T!Restorable /\ ~T!Restorable'
    \/ mediaSource = "FAILED" /\ mediaSource' = "PENDING" /\ ~T!Restorable /\ ~T!Restorable'

LEMMA MediaMoves ==
  ASSUME MediaSourceInv, [T!Next]_(T!vars)
  PROVE  MediaMove /\ (mediaRun'.pc = "looking" => ~notes')
<1>1. /\ MediaIInv /\ (mediaRun.pc = "looking" => ~notes)
      /\ mediaSource = "FAILED" => ~T!Restorable
      /\ mediaRun.pc # "idle" => mediaSource = "PENDING"
      /\ mediaRun.pc = "transcribing" => ~T!Restorable
      /\ mediaRun.pc = "looking" => medium = "video"
      /\ mediaRun.pc = "extracted" => T!Restorable
      /\ medium \in {"audio", "video"}
  BY DEF MediaSourceInv, MediaIInv, MediaTyped, RunFits
<1>2. T!Idle.pc = "idle" /\ T!Idle \in MediaRun /\ mediaRun \in MediaRun
  BY <1>1, IdleRun DEF MediaIInv, MediaTyped
<1>3. ASSUME T!SaveTranscript PROVE MediaMove /\ (mediaRun'.pc = "looking" => ~notes')
  <2>1. MediaIInv'
    BY <1>1, <1>3, SaveTranscriptHolds
  <2>2. /\ mediaRun.pc = "transcribing" /\ notes' = notes /\ medium' = medium
        /\ mediaSource' \in {"PENDING", "READY"} /\ mediaSource = "PENDING"
        /\ mediaRun'.pc = "looking" => medium = "video"
    BY <1>1, <1>2, <1>3 DEF T!SaveTranscript, T!Gathered, T!Same
  <2>3. T!Restorable'
    <3>1. /\ mediaRun.of \in Downloads /\ transcript' = mediaRun.text /\ provider \in Providers
          /\ mediaRun \in MediaRun
      BY <1>1, <1>3, <2>2 DEF T!SaveTranscript, MediaIInv, MediaTyped, RunFits
    <3>2. ASSUME NEW i \in Segments PROVE mediaRun.text[i] \in T!Transcription
      <4>1. mediaRun.text[i] = T!Wanted(i)
        BY <1>1, <1>3, <2>2 DEF T!SaveTranscript, T!Gathered, T!SomeFailed, MediaIInv, Heard
      <4> QED
        BY <3>1, <4>1 DEF T!Wanted, T!Transcription
    <3>3. mediaRun.text \in [Segments -> T!Transcription]
      BY <3>1, <3>2 DEF MediaRun
    <3> QED
      BY <3>1, <3>3, MediaAssumed DEF T!Restorable
  <2> QED
    BY <1>1, <2>2, <2>3 DEF MediaMove, T!Restorable
<1>4. ASSUME T!DownloadFails \/ T!SegmentFailed \/ T!NoSpeech \/ T!NotDescribed
      PROVE  MediaMove /\ (mediaRun'.pc = "looking" => ~notes')
  <2>1. UNCHANGED <<medium, transcript, notes>>
    BY <1>4 DEF T!DownloadFails, T!SegmentFailed, T!NoSpeech, T!NotDescribed, T!Same
  <2>2. T!Restorable' <=> T!Restorable
    BY <2>1 DEF T!Restorable
  <2>3. \/ mediaSource = "PENDING" /\ mediaSource' = "FAILED" /\ ~T!Restorable
        \/ mediaSource' = mediaSource
    BY <1>1, <1>4
       DEF T!DownloadFails, T!SegmentFailed, T!NoSpeech, T!NotDescribed, T!Fail, T!Due,
           T!Gathered, T!Restorable
  <2>4. mediaRun'.pc = "looking" => medium = "video" /\ mediaRun.pc = "transcribing"
    BY <1>1, <1>2, <1>4
       DEF T!DownloadFails, T!SegmentFailed, T!NoSpeech, T!NotDescribed, T!Fail,
           T!Gathered, MediaRun
  <2> QED
    BY <1>1, <2>1, <2>2, <2>3, <2>4 DEF MediaMove, T!Restorable
<1>5. ASSUME T!Restore \/ T!MarkReady \/ T!Retry
      PROVE  MediaMove /\ (mediaRun'.pc = "looking" => ~notes')
  <2>1. UNCHANGED <<medium, transcript, notes>>
    BY <1>5 DEF T!Restore, T!MarkReady, T!Retry, T!Same
  <2>2. T!Restorable' <=> T!Restorable
    BY <2>1 DEF T!Restorable
  <2> QED
    BY <1>1, <1>2, <1>5, <2>1, <2>2 DEF T!Restore, T!MarkReady, T!Retry, T!Due, MediaMove
<1>6. ASSUME T!Describe PROVE MediaMove /\ (mediaRun'.pc = "looking" => ~notes')
  BY <1>1, <1>2, <1>6 DEF T!Describe, T!Same, MediaMove, T!Restorable, MediaRun
<1>7. ASSUME UNCHANGED <<medium, transcript, notes, mediaSource>>,
             mediaRun'.pc = "looking" =>
                mediaRun.pc = "looking" \/ (mediaRun.pc = "transcribing" /\ medium = "video")
      PROVE  MediaMove /\ (mediaRun'.pc = "looking" => ~notes')
  BY <1>1, <1>7 DEF MediaMove, T!Restorable
<1>8. ASSUME T!AskWhole \/ T!NoTrack \/ UNCHANGED T!vars
      PROVE  MediaMove /\ (mediaRun'.pc = "looking" => ~notes')
  <2>1. UNCHANGED <<medium, transcript, notes, mediaSource>>
    BY <1>8 DEF T!AskWhole, T!NoTrack, T!vars, T!Durable, T!Same
  <2>2. CASE T!AskWhole
    <3>1. mediaRun'.pc = mediaRun.pc
      BY <1>2, <2>2 DEF T!AskWhole, MediaRun
    <3> QED
      BY <1>7, <2>1, <3>1
  <2>3. CASE T!NoTrack
    <3>1. mediaRun.pc = "transcribing" /\ medium = "video"
      BY <2>3 DEF T!NoTrack
    <3> QED
      BY <1>7, <2>1, <3>1
  <2>4. CASE UNCHANGED T!vars
    <3>1. mediaRun'.pc = mediaRun.pc
      BY <2>4 DEF T!vars
    <3> QED
      BY <1>7, <2>1, <3>1
  <2> QED
    BY <1>8, <2>2, <2>3, <2>4
<1>9. ASSUME NEW d \in Downloads, T!Download(d)
      PROVE  MediaMove /\ (mediaRun'.pc = "looking" => ~notes')
  BY <1>2, <1>7, <1>9 DEF T!Download, T!Durable, MediaRun
<1>10. ASSUME NEW p \in Providers, T!Interrupt(p)
       PROVE  MediaMove /\ (mediaRun'.pc = "looking" => ~notes')
  BY <1>2, <1>7, <1>10 DEF T!Interrupt, T!Durable
<1>11. ASSUME NEW i \in Segments,
              T!Reuse(i) \/ T!Call(i) \/ T!Answer(i) \/ T!Refused(i) \/ T!Persist(i)
       PROVE  MediaMove /\ (mediaRun'.pc = "looking" => ~notes')
  BY <1>2, <1>7, <1>11
     DEF T!Reuse, T!Call, T!Answer, T!Refused, T!Persist, T!Splits, T!To, T!Durable,
         T!Same, MediaRun
<1> QED
  BY <1>3, <1>4, <1>5, <1>6, <1>8, <1>9, <1>10, <1>11 DEF T!Next

LEMMA MediaSourceStep == ASSUME MediaSourceInv, [T!Next]_(T!vars) PROVE MediaSourceInv'
<1>1. MediaIInv'
  BY MediaStep DEF MediaSourceInv
<1>2. MediaMove /\ (mediaRun'.pc = "looking" => ~notes')
  BY MediaMoves
<1> QED
  BY <1>1, <1>2 DEF MediaSourceInv, MediaMove

(* The rows of OneSource, written out.                                      *)
AsRow(st, saved, holes) == [state |-> st, saved |-> saved, holes |-> holes]
AsNew == AsRow("PENDING", FALSE, "whole")

LEMMA RowIs ==
  ASSUME NEW st \in {"PENDING", "READY", "FAILED", "DEAD"}, NEW b \in BOOLEAN,
         NEW h \in Source!Holes
  PROVE  AsRow(st, b, h) \in SourceRows /\ AsRow(st, b, h).state = st
         /\ AsRow(st, b, h).saved = b /\ AsRow(st, b, h).holes = h
  BY DEF AsRow, SourceRows, Source!Holes

LEMMA RowsWritten ==
  ASSUME NEW h \in Source!Holes, NEW f \in {"FAILED", "DEAD"}
  PROVE  /\ [AsNew EXCEPT !.saved = TRUE, !.holes = h] = AsRow("PENDING", TRUE, h)
         /\ [AsNew EXCEPT !.state = "READY", !.saved = TRUE] = AsRow("READY", TRUE, "whole")
         /\ [AsNew EXCEPT !.state = f] = AsRow(f, FALSE, "whole")
         /\ [AsRow("PENDING", TRUE, h) EXCEPT !.state = "READY"] = AsRow("READY", TRUE, h)
<1>1. "whole" \in Source!Holes /\ TRUE \in BOOLEAN /\ FALSE \in BOOLEAN
  BY DEF Source!Holes
<1>2. /\ AsNew \in SourceRows /\ AsNew.state = "PENDING"
      /\ AsNew.saved = FALSE /\ AsNew.holes = "whole"
  BY DEF AsNew, AsRow, SourceRows
<1> DEFINE a == [AsNew EXCEPT !.saved = TRUE, !.holes = h]
           b == [AsNew EXCEPT !.state = "READY", !.saved = TRUE]
           c == [AsNew EXCEPT !.state = f]
           old == AsRow("PENDING", TRUE, h)
           d == [old EXCEPT !.state = "READY"]
<1>3. a \in SourceRows /\ a.state = "PENDING" /\ a.saved = TRUE /\ a.holes = h
  BY <1>2 DEF SourceRows, Source!Holes
<1>4. b \in SourceRows /\ b.state = "READY" /\ b.saved = TRUE /\ b.holes = "whole"
  BY <1>2 DEF SourceRows
<1>5. c \in SourceRows /\ c.state = f /\ c.saved = FALSE /\ c.holes = "whole"
  BY <1>2 DEF SourceRows
<1>6. old \in SourceRows /\ old.state = "PENDING" /\ old.saved = TRUE /\ old.holes = h
  BY DEF AsRow, SourceRows, Source!Holes
<1> HIDE DEF old
<1>7. d \in SourceRows /\ d.state = "READY" /\ d.saved = TRUE /\ d.holes = h
  BY <1>6 DEF SourceRows
<1> HIDE DEF a, b, c, d
<1>8. /\ a = AsRow("PENDING", TRUE, h) /\ b = AsRow("READY", TRUE, "whole")
      /\ c = AsRow(f, FALSE, "whole") /\ d = AsRow("READY", TRUE, h)
  <2>1. /\ AsRow("PENDING", TRUE, h) \in SourceRows
        /\ AsRow("PENDING", TRUE, h).state = "PENDING" /\ AsRow("PENDING", TRUE, h).saved = TRUE
        /\ AsRow("PENDING", TRUE, h).holes = h
    BY DEF AsRow, SourceRows, Source!Holes
  <2>2. /\ AsRow("READY", TRUE, "whole") \in SourceRows
        /\ AsRow("READY", TRUE, "whole").state = "READY"
        /\ AsRow("READY", TRUE, "whole").saved = TRUE
        /\ AsRow("READY", TRUE, "whole").holes = "whole"
    BY DEF AsRow, SourceRows, Source!Holes
  <2>3. /\ AsRow(f, FALSE, "whole") \in SourceRows
        /\ AsRow(f, FALSE, "whole").state = f /\ AsRow(f, FALSE, "whole").saved = FALSE
        /\ AsRow(f, FALSE, "whole").holes = "whole"
    BY DEF AsRow, SourceRows, Source!Holes
  <2>4. /\ AsRow("READY", TRUE, h) \in SourceRows
        /\ AsRow("READY", TRUE, h).state = "READY" /\ AsRow("READY", TRUE, h).saved = TRUE
        /\ AsRow("READY", TRUE, h).holes = h
    BY DEF AsRow, SourceRows, Source!Holes
  <2> QED
    BY <1>3, <1>4, <1>5, <1>7, <2>1, <2>2, <2>3, <2>4, SameRow
<1> QED
  BY <1>8 DEF a, b, c, d, old

(* A move of a recording is a step of OneSource.                            *)
LEMMA MediaMoveAllowed == ASSUME MediaMove PROVE T!Source!Next
<1> DEFINE r == AsRow(mediaSource, T!Restorable, "whole")
           s == AsRow(mediaSource', T!Restorable', "whole")
<1>1. /\ T!Restorable = TRUE \/ T!Restorable = FALSE
      /\ T!Restorable' = TRUE \/ T!Restorable' = FALSE
  BY DEF T!Restorable
<1>2. SUFFICES \/ s = r
               \/ r = AsNew
                     /\ \E h \in Source!Holes : s = [AsNew EXCEPT !.saved = TRUE, !.holes = h]
               \/ r.state = "PENDING" /\ r.saved /\ s = [r EXCEPT !.state = "READY"]
               \/ r = AsNew /\ s = [AsNew EXCEPT !.state = "READY", !.saved = TRUE]
               \/ r = AsNew /\ \E f \in {"FAILED", "DEAD"} : s = [AsNew EXCEPT !.state = f]
               \/ r.state = "FAILED" /\ s = AsNew
  BY DEF T!Source!Next, T!Source!Stay, T!Source!Save, T!Source!MarkReady, T!Source!SaveReady,
         T!Source!Fail, T!Source!Reopen, T!Source!Fresh, T!Source!Holes, Source!Holes,
         AsNew, AsRow
<1>3. "whole" \in Source!Holes
  BY DEF Source!Holes
<1>4. CASE mediaSource' = mediaSource /\ (T!Restorable' <=> T!Restorable)
  <2>1. T!Restorable' = T!Restorable
    BY <1>1, <1>4
  <2>2. s = r
    BY <1>4, <2>1 DEF AsRow
  <2> QED
    BY <2>2
<1>5. CASE mediaSource = "PENDING" /\ mediaSource' \in {"PENDING", "READY"}
             /\ ~T!Restorable /\ T!Restorable'
  <2>1. T!Restorable = FALSE /\ T!Restorable' = TRUE
    BY <1>1, <1>5
  <2>2. r = AsNew
    BY <1>5, <2>1 DEF AsNew
  <2>3. s = AsRow("PENDING", TRUE, "whole") \/ s = AsRow("READY", TRUE, "whole")
    BY <1>5, <2>1
  <2> HIDE DEF r, s
  <2> QED
    BY <1>3, <2>2, <2>3, RowsWritten
<1>6. CASE mediaSource = "PENDING" /\ mediaSource' = "READY" /\ T!Restorable /\ T!Restorable'
  <2>1. T!Restorable = TRUE /\ T!Restorable' = TRUE
    BY <1>1, <1>6
  <2>2. r = AsRow("PENDING", TRUE, "whole") /\ s = AsRow("READY", TRUE, "whole")
    BY <1>6, <2>1
  <2>3. r.state = "PENDING" /\ r.saved
    BY <2>2 DEF AsRow
  <2> HIDE DEF r, s
  <2> QED
    BY <1>3, <2>2, <2>3, RowsWritten
<1>7. CASE mediaSource = "PENDING" /\ mediaSource' = "FAILED" /\ ~T!Restorable /\ ~T!Restorable'
  <2>1. T!Restorable = FALSE /\ T!Restorable' = FALSE
    BY <1>1, <1>7
  <2>2. r = AsNew /\ s = AsRow("FAILED", FALSE, "whole")
    BY <1>7, <2>1 DEF AsNew
  <2> HIDE DEF r, s
  <2> QED
    BY <1>3, <2>2, RowsWritten
<1>8. CASE mediaSource = "FAILED" /\ mediaSource' = "PENDING" /\ ~T!Restorable /\ ~T!Restorable'
  <2>1. T!Restorable = FALSE /\ T!Restorable' = FALSE
    BY <1>1, <1>8
  <2>2. r.state = "FAILED" /\ s = AsNew
    BY <1>8, <2>1 DEF AsNew, AsRow
  <2> QED
    BY <2>2
<1> QED
  BY <1>4, <1>5, <1>6, <1>7, <1>8 DEF MediaMove

(* ... and for a post.                                                      *)
PostSourceInv == /\ PostIInv
                 /\ postRun.pc \in {"elements", "close"} => ~progress.complete
                 /\ postRun.pc = "extracted" \/ postSource = "READY" => P!Restorable
                 /\ postSource \in {"FAILED", "DEAD"} => ~P!Restorable

PostMove ==
    \/ /\ postSource' = postSource /\ (P!Restorable' <=> P!Restorable)
       /\ P!Restorable => progress' = progress
    \/ postSource = "PENDING" /\ postSource' = "PENDING" /\ ~P!Restorable /\ P!Restorable'
    \/ /\ postSource = "PENDING" /\ postSource' = "READY" /\ P!Restorable /\ P!Restorable'
       /\ progress' = progress
    \/ /\ postSource = "PENDING" /\ postSource' \in {"FAILED", "DEAD"}
       /\ ~P!Restorable /\ ~P!Restorable'
    \/ /\ postSource = "FAILED" \/ (postSource = "READY" /\ P!Retryable)
       /\ postSource' = "PENDING" /\ ~P!Restorable'

LEMMA SameContent ==
  ASSUME UNCHANGED <<progress, evidence>>
  PROVE  P!Restorable' <=> P!Restorable
  BY DEF P!Restorable, P!HasContent, P!Seen, P!KeysOf

LEMMA PostMoves ==
  ASSUME PostSourceInv, [P!Next]_(P!vars)
  PROVE  /\ PostMove
         /\ postRun'.pc \in {"elements", "close"} => ~progress'.complete
         /\ postRun'.pc = "extracted" => P!Restorable'
<1> DEFINE Fits == /\ postRun'.pc \in {"elements", "close"} => ~progress'.complete
                   /\ postRun'.pc = "extracted" => P!Restorable'
<1>1. /\ PostIInv /\ postRun \in PostRun
      /\ postRun.pc \in {"elements", "close"} => ~progress.complete
      /\ postRun.pc = "extracted" \/ postSource = "READY" => P!Restorable
      /\ postSource \in {"FAILED", "DEAD"} => ~P!Restorable
      /\ postRun.pc # "idle" => postSource = "PENDING" /\ progress # Nil
      /\ progress # Nil => progress \in P!Progress
  BY DEF PostSourceInv, PostIInv, PostTyped, PostRunFits
<1>2. P!Idle.pc = "idle" /\ P!Idle \in PostRun
  BY IdlePost
<1>3. ASSUME UNCHANGED <<progress, evidence, postSource>>,
             \/ postRun'.pc = postRun.pc \/ postRun'.pc = "idle"
             \/ postRun'.pc \in {"elements", "close"} /\ postRun.pc \in {"elements", "close"}
      PROVE  PostMove /\ Fits
  BY <1>1, <1>3, SameContent DEF PostMove
<1>4. ASSUME P!SkipDone PROVE PostMove /\ Fits
  <2>1. UNCHANGED <<progress, evidence, postSource>> /\ postRun'.pc = postRun.pc
    BY <1>1, <1>4 DEF P!SkipDone, PostRun
  <2> QED
    BY <1>3, <2>1
<1>5. ASSUME P!Prepare PROVE PostMove /\ Fits
  <2>1. /\ UNCHANGED <<progress, evidence, postSource>>
        /\ postRun'.pc = "close" /\ postRun.pc = "elements"
    BY <1>1, <1>5 DEF P!Prepare, P!InLoop, PostRun
  <2> QED
    BY <1>3, <2>1
<1>6. ASSUME P!NoSpeech \/ \E c \in P!Channels : P!ProviderFails(c) PROVE PostMove /\ Fits
  <2>1. UNCHANGED <<progress, evidence, postSource>> /\ postRun'.pc = postRun.pc
    BY <1>1, <1>6 DEF P!NoSpeech, P!ProviderFails, P!Answered, PostRun
  <2> QED
    BY <1>3, <2>1
<1>7. ASSUME NEW v \in BOOLEAN, P!Interrupt(v) PROVE PostMove /\ Fits
  <2>1. UNCHANGED <<progress, evidence, postSource>> /\ postRun'.pc = "idle"
    BY <1>2, <1>7 DEF P!Interrupt
  <2> QED
    BY <1>3, <2>1
<1>8. ASSUME UNCHANGED P!vars PROVE PostMove /\ Fits
  <2>1. UNCHANGED <<progress, evidence, postSource>> /\ postRun'.pc = postRun.pc
    BY <1>8 DEF P!vars
  <2> QED
    BY <1>3, <2>1
<1>9. ASSUME P!Restore \/ P!MarkReady PROVE PostMove /\ Fits
  <2>1. /\ UNCHANGED <<progress, evidence>> /\ postSource' = "READY" /\ postSource = "PENDING"
        /\ P!Restorable /\ postRun'.pc = "idle"
    BY <1>1, <1>2, <1>9 DEF P!Restore, P!MarkReady
  <2> QED
    BY <2>1, SameContent DEF PostMove
<1>10. ASSUME NEW c \in P!Channels, P!Learn(c) PROVE PostMove /\ Fits
  <2>1. /\ progress' = progress /\ postSource' = postSource /\ ~progress.complete
        /\ postRun'.pc = "close" /\ postRun.pc = "close"
    BY <1>1, <1>10 DEF P!Learn, P!Asking, P!Answered, PostRun
  <2> QED
    BY <2>1 DEF PostMove, P!Restorable
<1>11. ASSUME P!SaveElement PROVE PostMove /\ Fits
  <2>1. /\ progress \in P!Progress /\ postSource' = postSource /\ ~progress.complete
        /\ postRun'.pc = "elements"
    BY <1>1, <1>2, <1>11 DEF P!SaveElement, PostRun
  <2>2. ~progress'.complete
    BY <1>11, <2>1 DEF P!SaveElement, P!Progress
  <2> QED
    BY <2>1, <2>2 DEF PostMove, P!Restorable
<1>12. ASSUME NEW l \in Listings, P!Read(l) PROVE PostMove /\ Fits
  <2>1. /\ postSource' = postSource /\ ~P!Restorable /\ ~progress'.complete
        /\ postRun'.pc = "elements"
    BY <1>2, <1>12 DEF P!Read, PostRun
  <2> QED
    BY <2>1 DEF PostMove, P!Restorable
<1>13. ASSUME P!Complete PROVE PostMove /\ Fits
  <2>1. /\ progress \in P!Progress /\ progress # Nil /\ postSource = "PENDING"
        /\ ~progress.complete /\ evidence' = evidence
    BY <1>1, <1>13 DEF P!Complete
  <2>2. progress'.complete /\ progress'.parts = progress.parts /\ progress' # Nil
    BY <1>1, <1>13, CompletedRecord, PostAssumed
  <2>3. P!HasContent(progress)' <=> P!HasContent(progress)
    BY <2>1, <2>2 DEF P!HasContent, P!Seen, P!KeysOf
  <2>4. P!Restorable' <=> P!HasContent(progress)
    BY <2>2, <2>3 DEF P!Restorable
  <2>5. ~P!Restorable
    BY <2>1 DEF P!Restorable
  <2>6. CASE P!HasContent(progress)
    <3>1. postSource' = postSource /\ postRun'.pc = "extracted"
      BY <1>2, <1>13, <2>6 DEF P!Complete, PostRun
    <3> QED
      BY <2>1, <2>4, <2>5, <2>6, <3>1 DEF PostMove
  <2>7. CASE ~P!HasContent(progress)
    <3>1. postSource' \in {"FAILED", "DEAD"} /\ postRun'.pc = "idle"
      BY <1>2, <1>13, <2>7 DEF P!Complete
    <3> QED
      BY <2>1, <2>4, <2>5, <2>7, <3>1 DEF PostMove
  <2> QED
    BY <2>6, <2>7
<1>14. ASSUME NEW e \in {"transient", "permanent"}, P!ReadingFails(e) PROVE PostMove /\ Fits
  <2>1. /\ postSource = "PENDING" /\ postRun.pc = "idle" /\ ~P!Restorable /\ evidence' = evidence
    BY <1>14 DEF P!ReadingFails, P!Due
  <2>2. CASE progress # Nil /\ P!HasContent(progress)
    <3>1. /\ progress' = [progress EXCEPT !.complete = TRUE, !.refresh = e]
          /\ postRun'.pc = "extracted" /\ postSource' = postSource
      BY <1>2, <1>14, <2>2 DEF P!ReadingFails, PostRun
    <3>2. /\ progress' \in P!Progress /\ progress'.complete /\ progress'.parts = progress.parts
      BY <1>1, <2>2, <3>1 DEF P!Progress
    <3>3. P!HasContent(progress)'
      BY <2>1, <2>2, <3>2 DEF P!HasContent, P!Seen, P!KeysOf
    <3>4. P!Restorable'
      BY <3>2, <3>3, PostAssumed DEF P!Restorable
    <3> QED
      BY <2>1, <3>1, <3>4 DEF PostMove
  <2>3. CASE ~(progress # Nil /\ P!HasContent(progress))
    <3>1. /\ postSource' \in {"FAILED", "DEAD"} /\ UNCHANGED <<progress, evidence>>
          /\ postRun'.pc = "idle"
      BY <1>14, <2>1, <2>3 DEF P!ReadingFails
    <3> QED
      BY <2>1, <3>1, SameContent DEF PostMove
  <2> QED
    BY <2>2, <2>3
<1>15. ASSUME P!Retry PROVE PostMove /\ Fits
  <2>1. /\ postSource = "FAILED" \/ (postSource = "READY" /\ P!Retryable)
        /\ postSource' = "PENDING" /\ postRun.pc = "idle" /\ postRun' = postRun
    BY <1>1, <1>15 DEF P!Retry
  <2>2. progress' = Nil \/ ~progress'.complete
    BY <1>1, <1>15 DEF P!Retry, P!Progress
  <2> QED
    BY <2>1, <2>2 DEF PostMove, P!Restorable
<1> QED
  BY <1>4, <1>5, <1>6, <1>7, <1>8, <1>9, <1>10, <1>11, <1>12, <1>13, <1>14, <1>15 DEF P!Next

LEMMA PostSourceStep == ASSUME PostSourceInv, [P!Next]_(P!vars) PROVE PostSourceInv'
<1>1. PostIInv'
  BY PostStep DEF PostSourceInv
<1>2. /\ PostMove
      /\ postRun'.pc \in {"elements", "close"} => ~progress'.complete
      /\ postRun'.pc = "extracted" => P!Restorable'
  BY PostMoves
<1> QED
  BY <1>1, <1>2 DEF PostSourceInv, PostMove

LEMMA PostMoveAllowed == ASSUME PostSourceInv, PostMove PROVE P!Source!Next
<1> DEFINE h == IF P!Restorable THEN P!HolesNow ELSE "whole"
           k == IF P!Restorable' THEN P!HolesNow' ELSE "whole"
           r == AsRow(postSource, P!Restorable, h)
           s == AsRow(postSource', P!Restorable', k)
<1>1. /\ P!Restorable = TRUE \/ P!Restorable = FALSE
      /\ P!Restorable' = TRUE \/ P!Restorable' = FALSE
  BY DEF P!Restorable
<1>2. SUFFICES \/ s = r
               \/ r = AsNew
                     /\ \E g \in Source!Holes : s = [AsNew EXCEPT !.saved = TRUE, !.holes = g]
               \/ r.state = "PENDING" /\ r.saved /\ s = [r EXCEPT !.state = "READY"]
               \/ r = AsNew /\ \E f \in {"FAILED", "DEAD"} : s = [AsNew EXCEPT !.state = f]
               \/ /\ \/ r.state = "FAILED"
                     \/ r.state = "READY" /\ r.holes \in {"recheck", "retryable"}
                  /\ s = AsNew
  BY DEF P!Source!Next, P!Source!Stay, P!Source!Save, P!Source!MarkReady, P!Source!SaveReady,
         P!Source!Fail, P!Source!Reopen, P!Source!Fresh, P!Source!Holes, Source!Holes,
         AsNew, AsRow
<1>3. h \in Source!Holes /\ k \in Source!Holes
  BY DEF Source!Holes, P!HolesNow
<1>4. progress' = progress => P!HolesNow' = P!HolesNow
  BY DEF P!HolesNow, P!Partial, P!Retryable, P!ErrorsOf
<1>5. /\ P!Restorable = FALSE => h = "whole"
      /\ P!Restorable' = FALSE => k = "whole"
      /\ P!Restorable /\ P!Restorable' /\ progress' = progress => h = k
      /\ P!Restorable /\ P!Retryable => h \in {"recheck", "retryable"}
  BY <1>4 DEF P!HolesNow
<1> HIDE DEF h, k
<1>6. CASE /\ postSource' = postSource /\ (P!Restorable' <=> P!Restorable)
           /\ P!Restorable => progress' = progress
  <2>1. P!Restorable' = P!Restorable /\ h = k
    BY <1>1, <1>5, <1>6
  <2>2. s = r
    BY <1>6, <2>1 DEF AsRow
  <2> QED
    BY <2>2
<1>7. CASE postSource = "PENDING" /\ postSource' = "PENDING" /\ ~P!Restorable /\ P!Restorable'
  <2>1. P!Restorable = FALSE /\ P!Restorable' = TRUE
    BY <1>1, <1>7
  <2>2. r = AsNew
    BY <1>5, <1>7, <2>1 DEF AsNew
  <2>3. s = AsRow("PENDING", TRUE, k)
    BY <1>7, <2>1
  <2> HIDE DEF r, s
  <2> QED
    BY <1>3, <2>2, <2>3, RowsWritten
<1>8. CASE /\ postSource = "PENDING" /\ postSource' = "READY" /\ P!Restorable /\ P!Restorable'
           /\ progress' = progress
  <2>1. P!Restorable = TRUE /\ P!Restorable' = TRUE /\ h = k
    BY <1>1, <1>5, <1>8
  <2>2. r = AsRow("PENDING", TRUE, h) /\ s = AsRow("READY", TRUE, h)
    BY <1>8, <2>1
  <2>3. r.state = "PENDING" /\ r.saved
    BY <2>2 DEF AsRow
  <2> HIDE DEF r, s
  <2> QED
    BY <1>3, <2>2, <2>3, RowsWritten
<1>9. CASE /\ postSource = "PENDING" /\ postSource' \in {"FAILED", "DEAD"}
           /\ ~P!Restorable /\ ~P!Restorable'
  <2>1. P!Restorable = FALSE /\ P!Restorable' = FALSE /\ h = "whole" /\ k = "whole"
    BY <1>1, <1>5, <1>9
  <2>2. r = AsNew /\ s = AsRow(postSource', FALSE, "whole")
    BY <1>9, <2>1 DEF AsNew
  <2> HIDE DEF r, s
  <2> QED
    BY <1>3, <1>9, <2>2, RowsWritten
<1>10. CASE /\ postSource = "FAILED" \/ (postSource = "READY" /\ P!Retryable)
            /\ postSource' = "PENDING" /\ ~P!Restorable'
  <2>1. P!Restorable' = FALSE /\ k = "whole"
    BY <1>1, <1>5, <1>10
  <2>2. s = AsNew
    BY <1>10, <2>1 DEF AsNew
  <2>3. r.state = postSource /\ r.holes = h
    BY DEF AsRow
  <2>4. postSource = "READY" => P!Restorable
    BY DEF PostSourceInv
  <2> HIDE DEF r, s
  <2> QED
    BY <1>5, <1>10, <2>2, <2>3, <2>4
<1> QED
  BY <1>6, <1>7, <1>8, <1>9, <1>10 DEF PostMove

LEMMA MediaKept == MediaSpec => T!Source!Spec
<1>1. T!Init => MediaSourceInv /\ T!Source!Init
  <2> SUFFICES ASSUME T!Init PROVE MediaSourceInv /\ T!Source!Init
    OBVIOUS
  <2>1. ~T!Restorable /\ mediaSource = "PENDING" /\ mediaRun.pc = "idle"
    BY IdleRun DEF T!Init, T!Restorable
  <2>2. T!Restorable = FALSE
    BY <2>1
  <2> QED
    BY <2>1, <2>2, MediaInitHolds DEF MediaSourceInv, T!Source!Init, T!Source!Fresh
<1>2. MediaSourceInv /\ [T!Next]_(T!vars) => MediaSourceInv'
  BY MediaSourceStep
<1>3. MediaSourceInv /\ [T!Next]_(T!vars) => T!Source!Next
  BY MediaMoves, MediaMoveAllowed
<1> QED
  BY <1>1, <1>2, <1>3, PTL DEF MediaSpec, T!Source!Spec

LEMMA PostKept == PostSpec => P!Source!Spec
<1>1. P!Init => PostSourceInv /\ P!Source!Init
  <2> SUFFICES ASSUME P!Init PROVE PostSourceInv /\ P!Source!Init
    OBVIOUS
  <2>1. ~P!Restorable /\ postSource = "PENDING" /\ postRun.pc = "idle"
    BY IdlePost DEF P!Init, P!Restorable
  <2>2. P!Restorable = FALSE
    BY <2>1
  <2> QED
    BY <2>1, <2>2, PostInitHolds DEF PostSourceInv, P!Source!Init, P!Source!Fresh
<1>2. PostSourceInv /\ [P!Next]_(P!vars) => PostSourceInv'
  BY PostSourceStep
<1>3. PostSourceInv /\ [P!Next]_(P!vars) => P!Source!Next
  BY PostMoves, PostMoveAllowed
<1> QED
  BY <1>1, <1>2, <1>3, PTL DEF PostSpec, P!Source!Spec

(* The sources of Items, recordings and posts all keep the promise that the *)
(* pipeline rests on (app/services/processing.py): READY behind durable     *)
(* content, fetched once, reopened only by a Retry with something to gain.  *)
THEOREM SourcesImplementOne == EvidenceSpec => SourcesKeepPromise
<1>1. EvidenceInit => Init
  BY DEF EvidenceInit
<1>2. [EvidenceNext]_evidenceVars => [Next]_vars
  BY DEF EvidenceNext, evidenceVars
<1> QED
  BY <1>1, <1>2, EachRuns, MediaKept, PostKept, SourcesKept, PTL
     DEF EvidenceSpec, Spec, SourcesKeepPromise
=============================================================================
