----------------------------- MODULE Summaries -----------------------------
(***************************************************************************)
(* Summaries of the chunks of a long text (_durable_chunk_summaries in     *)
(* app/services/analysis.py), bought one after the other and kept as rows  *)
(* CHUNK_SUMMARY, which search and questions read too.  The text changes   *)
(* when a Retry adds a source, the size of a chunk with the configuration, *)
(* and a run may be cut short after any of them.                           *)
(***************************************************************************)
EXTENDS Naturals, Sequences

CONSTANTS Versions,  \* texts with the configuration that cuts them
          Chunks,    \* [Versions -> their chunks]: equal chunks are equal in text,
                     \* size, overlap and generator; one chunk is a text left whole
          MaxRuns,   \* bound: analyses
          Nil

Texts == UNION {{Chunks[v][n] : n \in DOMAIN Chunks[v]} : v \in Versions}

SummaryAssumption == /\ Versions # {} /\ Nil \notin Texts
                     /\ \A v \in Versions : Chunks[v] \in Seq(Texts) \ {<<>>}
                     /\ MaxRuns \in Nat

VARIABLES version,  \* what the Item's text is now
          row,      \* [index -> the chunk its row summarises, or Nil]
          at,       \* the index the run is at, 0 without a run
          used,     \* what the run has put together
          given,    \* what the last analysis got, and of which version
          runs,
          bill      \* history: [index -> chunks bought for it, in order; Nil: the row deleted]

vars == <<version, row, at, used, given, runs, bill>>

Indices == UNION {DOMAIN Chunks[v] : v \in Versions}
Here == Chunks[version][at]
Running == at # 0
InText == Running /\ at <= Len(Chunks[version])

Init == /\ version = CHOOSE v \in Versions : TRUE   \* Change may come first
        /\ row = [i \in Indices |-> Nil] /\ bill = [i \in Indices |-> <<>>]
        /\ at = 0 /\ used = <<>> /\ given = Nil /\ runs = 0

IsCut(v) == Len(Chunks[v]) > 1

(* prepare_content: a text that fits is analysed as it is; no row is looked *)
(* at.                                                                      *)
AnalyzeWhole == /\ ~Running /\ ~IsCut(version) /\ runs < MaxRuns
                /\ runs' = runs + 1
                /\ given' = [version |-> version, text |-> Chunks[version]]
                /\ UNCHANGED <<version, row, at, used, bill>>

Begin == /\ ~Running /\ IsCut(version) /\ runs < MaxRuns
         /\ runs' = runs + 1 /\ at' = 1 /\ used' = <<>> /\ given' = Nil
         /\ UNCHANGED <<version, row, bill>>

(* Faults: a row is used for any chunk in its place, or never.              *)
FitsPlace == row[at] # Nil
NeverFits == FALSE

(* A row is used only for the very chunk it was made from.                  *)
Fits == row[at] = Here

Reuse == /\ InText /\ Fits
         /\ used' = Append(used, row[at]) /\ at' = at + 1
         /\ UNCHANGED <<version, row, given, runs, bill>>

(* Bought, and written over the row of another version, in one commit.      *)
Summarize == /\ InText /\ ~Fits
             /\ row' = [row EXCEPT ![at] = Here]
             /\ used' = Append(used, Here) /\ at' = at + 1
             /\ bill' = [bill EXCEPT ![at] = Append(@, Here)]
             /\ UNCHANGED <<version, given, runs>>

(* An error or an empty summary, a deadline or a death, paid or not.        *)
Stop == /\ Running
        /\ at' = 0 /\ used' = <<>>
        /\ UNCHANGED <<version, row, given, runs, bill>>

(* Rows no chunk used are deleted, then the analyser gets the summaries.    *)
Finish == /\ Running /\ ~InText
          /\ row' = [i \in Indices |-> IF i < at THEN row[i] ELSE Nil]
          /\ bill' = [i \in Indices |-> IF i < at \/ row[i] = Nil THEN bill[i] ELSE Append(bill[i], Nil)]
          /\ given' = [version |-> version, text |-> used]
          /\ at' = 0 /\ used' = <<>>
          /\ UNCHANGED <<version, runs>>

(* Retry with another source, or a restart with another configuration.      *)
Change(v) == /\ v # version /\ ~Running
             /\ version' = v
             /\ UNCHANGED <<row, at, used, given, runs, bill>>

Next == AnalyzeWhole \/ Begin \/ Reuse \/ Summarize \/ Stop \/ Finish \/ \E v \in Versions : Change(v)

-----------------------------------------------------------------------------
TypeOK == /\ version \in Versions /\ at \in 0..(Len(Chunks[version]) + 1)
          /\ DOMAIN row = Indices /\ runs \in 0..MaxRuns
          /\ Len(used) = IF Running THEN at - 1 ELSE 0

(* The analyser gets the summaries of one text, all of them and in order,   *)
(* and a text that was cut leaves no row, for search and questions, that    *)
(* tells of another.                                                        *)
SummariesOfOneText ==
    given # Nil => LET chunks == Chunks[given.version]
                   IN  /\ given.text = chunks
                       /\ IsCut(given.version) =>
                          \A i \in Indices : row[i] = IF i <= Len(chunks) THEN chunks[i] ELSE Nil

(* No chunk is bought again while its row is there.                         *)
ChunksBoughtOnce ==
    \A i \in Indices : \A k \in 1..(Len(bill[i]) - 1) :
        bill[i][k] = Nil \/ bill[i][k] # bill[i][k + 1]
=============================================================================
