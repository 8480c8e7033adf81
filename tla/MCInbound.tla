------------------------------ MODULE MCInbound ------------------------------
(* Two captures and two servers; two presses on a proactive reminder of an  *)
(* Item or on the Item itself; three messages.                              *)
EXTENDS Inbound

CONSTANTS s1, s2, good, bad, i1, r1

MCKind == [r \in {r1} |-> "PROACTIVE_ATTENTION"]
MCFocus == [r \in {r1} |-> i1]
MCCategory == [i \in {i1} |-> 1]

Button(on, of, act, to) == [on |-> on, of |-> of, act |-> act, to |-> to]
MCButtons ==
    {Button("reminder", r1, act, Nil) :
        act \in {"done", "snooze", "dismiss", "dislike", "open", "open_original", "later", "ok"}}
    \cup {Button("item", i1, act, Nil) : act \in {"done", "snooze", "cancel"}}
    \cup {Button("item", i1, "interest", 2), Button("feedback", i1, "useful", Nil)}
    \cup {Button("feedback", i1, "category", to) : to \in {1, 2}}
    \cup {Button("feedback", i1, "type", 2)}

Input(kind, to) == [kind |-> kind, to |-> to]
MCInputs ==
    {Input(kind, "none") : kind \in {"text", "bad_text", "other"}}
    \cup {Input("media", to) : to \in {"readable", "unreadable"}}
    \cup {Input("prompt", to) : to \in {"ask", "search", "profile", "setting"}}
    \cup {Input("command", to) : to \in {"ask", "search", "profile"}}
=============================================================================
