--------------------------- MODULE MCItemPipeline ---------------------------
(* Two workers, two Items: a link and an Instagram post without a word from *)
(* the user, and a message with nothing but text.                           *)
EXTENDS ItemPipeline, TLC

CONSTANTS w1, w2

MCSourceCount == <<2, 0>>
MCPosts == {<<1, 1>>}
MCText == <<"none", "note">>
MCMaxRetries == <<2, 0>>

(* Liveness is checked on fewer Retries, see Progress.cfg.                  *)
OneRetry == <<1, 0>>
ShortSourceCount == <<1, 1>>
ShortPosts == {<<1, 0>>}
ShortText == <<"none", "note">>

(* Workers are interchangeable, and this run checks no liveness.            *)
Symmetry == Permutations({w1, w2})
=============================================================================
