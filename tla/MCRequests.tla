----------------------------- MODULE MCRequests -----------------------------
(* Two profile updates of two fields and a rule; one question by HTTP and   *)
(* one by Telegram; one export while an Item is saved; three edits of the   *)
(* settings, two of them in the chat.  Two processes may overlap.           *)
EXTENDS Requests

CONSTANTS w1, w2, r1, k1, k2, t1, t2, c1, c2, h1, h2, s1, p1, p2

MCEdits == [j \in 1..2 |-> IF j = 1 THEN {"profession", "weekday"} ELSE {"free_text", "weekend"}]
MCChannel == [k \in {k1, k2} |-> IF k = k1 THEN "HTTP" ELSE "TELEGRAM"]
MCAsked == [c \in {c1, c2} |-> IF c = c1 THEN {<<k1, t1>>} ELSE {<<k1, t2>>, <<k2, t1>>}]
MCReplies == {{<<h1, Nil>>}, {<<h1, s1>>}}
Text(i, s, o, sum) == [item |-> i, source |-> s, owner |-> o, summary |-> sum]
MCContents == {Text(h1, s1, h1, FALSE), Text(h1, Nil, h1, TRUE)}

Form(kind, fields, to) == [kind |-> kind, fields |-> fields, to |-> to]
MCForms == {Form("toggle", {}, "keep"), Form("level", {"attention"}, "keep"),
            Form("patch", {"timezone"}, "keep"), Form("patch", {"attention"}, "on"),
            Form("patch", {}, "off")}
=============================================================================
