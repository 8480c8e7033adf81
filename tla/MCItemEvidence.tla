--------------------------- MODULE MCItemEvidence ---------------------------
(* The Items of MCItemPipeline; a recording of two segments, downloaded with *)
(* and without speech; a post that is edited, with more elements than are   *)
(* looked at; a text that grows and is cut anew.                            *)
EXTENDS MCItemPipeline, ItemEvidence

MCElementKind == [k \in {"1v", "2p", "2x", "3p"} |-> CASE k = "1v" -> "video" [] k = "2x" -> "unknown"
                                                      [] OTHER -> "photo"]
MCListings == {<<"1v", "2p">>, <<"1v", "2x", "3p">>}
MCChunks == [v \in 1..3 |-> CASE v = 1 -> <<"a", "b">> [] v = 2 -> <<"a", "c", "d">> [] v = 3 -> <<"abcd">>]
=============================================================================
