---------------------------- MODULE MCItemOutbox ----------------------------
(* One Item made from an Instagram post, with the whole way from the queue  *)
(* to the chat and one Retry.                                              *)
EXTENDS ItemOutbox

MCSourceCount == <<1>>
MCPosts == {<<1, 0>>}
MCText == <<"none">>
MCMaxRetries == <<1>>
=============================================================================
