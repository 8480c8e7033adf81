------------------------------ MODULE AskJobs ------------------------------
(***************************************************************************)
(* Questions to the inbox (app/services/ask_inbox.py, app/workers/ask.py): *)
(* idempotent admission from Telegram and from the HTTP API, the worker    *)
(* that collects evidence, asks the LLM and checks its citations, the one  *)
(* commit that answers, and the retention of HTTP answers.                 *)
(*                                                                         *)
(* A client knows its question by a key (a Telegram message or an          *)
(* Idempotency-Key) and may send it again.  Two processes may overlap: a   *)
(* process reads the status again before its final commit, but the commit  *)
(* itself is an UPDATE by id, which no condition on the status guards.     *)
(***************************************************************************)
EXTENDS Naturals, FiniteSets, Sequences

CONSTANTS Keys,        \* client keys, one row each
          Channel,     \* [Keys -> {"TELEGRAM", "HTTP"}]
          Texts,       \* questions
          Asked,       \* [Clients -> subset of Keys \X Texts]: what each may send
          Clients,
          Processes,   \* processes of the program; two may overlap
          First,       \* the one that runs at first
          Hits,        \* Items the search finds
          Contents,    \* persisted texts: [item, source, owner, summary]
          Replies,     \* sets of <<item, source>> the provider may cite
          MaxAttempts, \* _ASK_PROVIDER_MAX_ATTEMPTS
          MaxSends,    \* bound: requests of a client
          MaxKeys,     \* bound: questions asked in all
          MaxRestarts, \* bound: process starts after the first
          Nil

AskAssumption == /\ IsFiniteSet(Keys)
                 /\ Asked \in [Clients -> SUBSET (Keys \X Texts)]
                 /\ Channel \in [Keys -> {"TELEGRAM", "HTTP"}]
                 /\ {MaxSends, MaxKeys, MaxRestarts} \subseteq Nat
                 /\ MaxAttempts \in Nat \ {0}

VARIABLES row,      \* [Keys -> [st, text, answer, expired]]
          order,    \* keys in the order their rows were created
          notice,   \* [Keys -> deliveries recorded]
          client,   \* [Clients -> where it is, what it sent, what it heard]
          process,  \* [Processes -> the worker of each]
          restarts

vars == <<row, order, notice, client, process, restarts>>
rowVars == <<row, order, notice>>

NoRow == [st |-> "NONE", text |-> Nil, answer |-> Nil, expired |-> FALSE]
Idle == [pc |-> "idle", key |-> Nil, context |-> {}, attempt |-> 0, round |-> 0, answer |-> Nil]
Off == [Idle EXCEPT !.pc = "off"]    \* not started
Quiet == [pc |-> "idle", key |-> Nil, text |-> Nil, sends |-> 0]

Init == /\ row = [k \in Keys |-> NoRow]
        /\ order = <<>>
        /\ notice = [k \in Keys |-> {}]
        /\ client = [c \in Clients |-> Quiet]
        /\ process = [p \in Processes |-> IF p = First THEN Idle ELSE Off]
        /\ restarts = 0

-----------------------------------------------------------------------------
(* Admission.                                                              *)

Controlled(code) == [code |-> code, cites |-> {}]   \* _controlled_answer
Cited(cites) == [code |-> "CITED", cites |-> cites]

Created(k) == row[k].st # "NONE"
Insert(k, t) == /\ row' = [row EXCEPT ![k] = [st |-> "PENDING", text |-> t, answer |-> Nil,
                                               expired |-> FALSE]]
                /\ order' = Append(order, k)

(* A client sends its question, for the first time or again.                *)
Send(c, k, t) ==
    /\ client[c].pc \in {"idle", "accepted", "conflict"} /\ client[c].sends < MaxSends
    /\ Cardinality({k} \cup ({client[d].key : d \in Clients} \ {Nil})) <= MaxKeys
    /\ client' = [client EXCEPT ![c] = [pc |-> "sent", key |-> k, text |-> t,
                                        sends |-> client[c].sends + 1]]
    /\ UNCHANGED <<rowVars, process, restarts>>

Reply(c, pc) == client' = [client EXCEPT ![c].pc = pc]
OnlyAdmission == UNCHANGED <<notice, process, restarts>>

(* enqueue_ask: one statement inserts unless the message has a row.         *)
EnqueueTelegram(c) ==
    LET k == client[c].key
    IN /\ client[c].pc = "sent" /\ Channel[k] = "TELEGRAM"
       /\ IF Created(k) THEN UNCHANGED <<row, order>> ELSE Insert(k, client[c].text)
       /\ Reply(c, "accepted")
       /\ OnlyAdmission

(* _check_ask_request_hash                                                  *)
Verdict(k, t) == IF row[k].text = t THEN "accepted" ELSE "conflict"

(* enqueue_http_ask reads first, then inserts; the unique index decides     *)
(* between two that both found nothing, and the loser compares again.       *)
ReadHttp(c) ==
    LET k == client[c].key
    IN /\ client[c].pc = "sent" /\ Channel[k] = "HTTP"
       /\ Reply(c, IF Created(k) THEN Verdict(k, client[c].text) ELSE "inserting")
       /\ UNCHANGED <<row, order>>
       /\ OnlyAdmission

(* Fault: the row that won is accepted without comparing the question.      *)
InsertUnchecked(c) ==
    LET k == client[c].key
    IN /\ client[c].pc = "inserting"
       /\ IF Created(k) THEN UNCHANGED <<row, order>> ELSE Insert(k, client[c].text)
       /\ Reply(c, "accepted")
       /\ OnlyAdmission

InsertHttp(c) ==
    LET k == client[c].key
    IN /\ client[c].pc = "inserting"
       /\ \/ Created(k) /\ Reply(c, Verdict(k, client[c].text)) /\ UNCHANGED <<row, order>>
          \/ ~Created(k) /\ Reply(c, "accepted") /\ Insert(k, client[c].text)
       /\ OnlyAdmission

-----------------------------------------------------------------------------
(* build_ask_context                                                       *)

(* Texts whose source belongs to another Item are skipped; chunk summaries  *)
(* stand in, as evidence of the Item alone, where nothing else is left.     *)
Valid(i) == {c \in Contents : c.item = i /\ (c.source = Nil \/ c.owner = i)}
Primary(i) == {c \in Valid(i) : ~c.summary}
Groups(i) == IF Primary(i) # {} THEN {c.source : c \in Primary(i)}
             ELSE {Nil : c \in Valid(i)}

(* The window around the matches, the item header and the serialized block  *)
(* of an excerpt decide what fits a budget of characters: any set may.      *)
AllGroups == UNION {Groups(i) : i \in Hits}
Fitting == SUBSET AllGroups

(* Each round gives every group of an Item one excerpt of an equal share of *)
(* its budget; the Items follow in the order of their rank while the total  *)
(* lasts.                                                                   *)
ItemReferences(i, included) ==
    {<<i, Nil>>} \cup {<<i, s>> : s \in (included \cap Groups(i)) \ {Nil}}

Contexts == {UNION {ItemReferences(i, included) : i \in items} :
                items \in SUBSET Hits, included \in Fitting}

-----------------------------------------------------------------------------
(* The worker: AskInboxService.process                                     *)

Set(p, new) == process' = [process EXCEPT ![p] = new]
Ends(p, pc, answer) == Set(p, [Idle EXCEPT !.pc = pc, !.key = process[p].key, !.answer = answer])
OnlyProcess == UNCHANGED <<client, restarts>>

(* claim_oldest_ask_job                                                     *)
Claim(p, n) ==
    LET k == order[n]
    IN /\ process[p].pc = "idle"
       /\ n \in DOMAIN order /\ row[k].st = "PENDING"
       /\ \A m \in 1..(n - 1) : row[order[m]].st # "PENDING"
       /\ row' = [row EXCEPT ![k].st = "RUNNING"]
       /\ Set(p, [Idle EXCEPT !.pc = "claimed", !.key = k])
       /\ UNCHANGED <<order, notice>> /\ OnlyProcess

(* One session reads the job, the evidence and the profile, and is closed.  *)
Collect(p, context) ==
    LET pr == process[p]
    IN /\ pr.pc = "claimed"
       /\ \/ row[pr.key].st # "RUNNING" /\ Set(p, Idle)
          \/ /\ row[pr.key].st = "RUNNING" /\ context = {}
             /\ Ends(p, "complete", Controlled("NO_RESULTS"))
          \/ /\ row[pr.key].st = "RUNNING" /\ context # {}
             /\ Set(p, [pr EXCEPT !.pc = "asking", !.context = context, !.round = 1])
       /\ UNCHANGED rowVars /\ OnlyProcess

(* _answer_with_transient_retry: a temporary failure is tried again.        *)
ProviderFails(p, transient) ==
    LET pr == process[p]
    IN /\ pr.pc = "asking"
       /\ IF transient /\ pr.attempt + 1 < MaxAttempts
          THEN Set(p, [pr EXCEPT !.attempt = @ + 1]) ELSE Ends(p, "failed", Nil)
       /\ UNCHANGED rowVars /\ OnlyProcess

(* _validated_answer                                                        *)
Grounded(cites, context) == cites # {} /\ cites \subseteq context

(* The provider answers with citations, or says the context does not        *)
(* suffice.  A bad answer is asked for once more, with the same context.    *)
ProviderAnswers(p, sufficient, cites) ==
    LET pr == process[p]
    IN /\ pr.pc = "asking"
       /\ \/ /\ sufficient /\ Grounded(cites, pr.context)
             /\ Ends(p, "complete", Cited(cites))
          \/ /\ sufficient /\ ~Grounded(cites, pr.context) /\ pr.round = 1
             /\ Set(p, [pr EXCEPT !.round = 2, !.attempt = 0])
          \/ /\ ~sufficient \/ (~Grounded(cites, pr.context) /\ pr.round = 2)
             /\ Ends(p, "complete", Controlled("INSUFFICIENT_CONTEXT"))
       /\ UNCHANGED rowVars /\ OnlyProcess

Notify(k, type) == notice' = IF Channel[k] = "HTTP" THEN notice
                             ELSE [notice EXCEPT ![k] = @ \cup {type}]

(* _complete, fail: session.get, whose SELECT begins no transaction.  Who   *)
(* finds the job no longer RUNNING drops it.                                *)
Reread(p) ==
    LET pr == process[p]
    IN /\ pr.pc \in {"complete", "failed"}
       /\ Set(p, IF row[pr.key].st # "RUNNING" THEN Idle
                 ELSE [pr EXCEPT !.pc = IF @ = "complete" THEN "completing" ELSE "failing"])
       /\ UNCHANGED rowVars /\ OnlyProcess

(* The write of _complete, by id: HTTP keeps the answer in the row, with    *)
(* its expiry; Telegram gets a delivery, unless there is one of that type.  *)
Complete(p) ==
    LET k == process[p].key
    IN /\ process[p].pc = "completing"
       /\ row' = [row EXCEPT ![k] = IF Channel[k] = "HTTP"
                                    THEN [@ EXCEPT !.st = "DONE", !.answer = process[p].answer,
                                                   !.expired = FALSE]
                                    ELSE [@ EXCEPT !.st = "DONE"]]
       /\ Notify(k, "ASK_RESULT")
       /\ Set(p, Idle)
       /\ UNCHANGED order /\ OnlyProcess

(* Fault: the notice is committed before the status.                        *)
FailInTwoCommits(p) ==
    LET k == process[p].key
    IN /\ process[p].pc = "failing"
       /\ \/ /\ Channel[k] = "TELEGRAM" /\ "ASK_FAILED" \notin notice[k]
             /\ Notify(k, "ASK_FAILED") /\ UNCHANGED <<row, process>>
          \/ /\ Channel[k] = "HTTP" \/ "ASK_FAILED" \in notice[k]
             /\ row' = [row EXCEPT ![k].st = "FAILED"] /\ UNCHANGED notice
             /\ Set(p, Idle)
       /\ UNCHANGED order /\ OnlyProcess

(* The write of fail, by id.  It sets result_json to the NULL that was      *)
(* read, which is no change: an UPDATE leaves the column out.               *)
Fail(p) ==
    LET k == process[p].key
    IN /\ process[p].pc = "failing"
       /\ row' = [row EXCEPT ![k].st = "FAILED"]
       /\ Notify(k, "ASK_FAILED")
       /\ Set(p, Idle)
       /\ UNCHANGED order /\ OnlyProcess

-----------------------------------------------------------------------------
(* The lifetime of an answer passes.                                        *)
Expire(k) == /\ row[k].answer # Nil /\ ~row[k].expired
             /\ row' = [row EXCEPT ![k].expired = TRUE]
             /\ UNCHANGED <<order, notice, client, process, restarts>>

(* clear_expired_http_ask_results, between two jobs.                        *)
ClearExpired(p) ==
    LET Expired == {k \in Keys : row[k].answer # Nil /\ row[k].expired}
    IN /\ process[p].pc = "idle" /\ Expired # {}
       /\ row' = [k \in Keys |-> IF k \in Expired THEN [row[k] EXCEPT !.answer = Nil] ELSE row[k]]
       /\ UNCHANGED <<order, notice, client, process, restarts>>

(* A process dies (a kill, a database error, an unknown exception) and      *)
(* starts again: what is RUNNING is requeued, whoever runs it.              *)
Restart(p) ==
    /\ restarts < MaxRestarts /\ restarts' = restarts + 1
    /\ row' = [k \in Keys |-> IF row[k].st = "RUNNING" THEN [row[k] EXCEPT !.st = "PENDING"]
                              ELSE row[k]]
    /\ Set(p, Idle)
    /\ UNCHANGED <<order, notice, client>>

ProcessStep(p) == \/ \E n \in 1..Cardinality(Keys) : Claim(p, n)
                  \/ \E context \in Contexts : Collect(p, context)
                  \/ \E transient \in BOOLEAN : ProviderFails(p, transient)
                  \/ \E sufficient \in BOOLEAN, cites \in Replies :
                        ProviderAnswers(p, sufficient, cites)
                  \/ Reread(p) \/ Complete(p) \/ Fail(p)

Next == \/ \E c \in Clients : \E a \in Asked[c] : Send(c, a[1], a[2])
        \/ \E c \in Clients : EnqueueTelegram(c) \/ ReadHttp(c) \/ InsertHttp(c)
        \/ \E p \in Processes : ProcessStep(p) \/ ClearExpired(p) \/ Restart(p)
        \/ \E k \in Keys : Expire(k)

Spec == Init /\ [][Next]_vars

(* The worker loop runs or the process is replaced; answers grow old.       *)
Fairness == /\ \A p \in Processes : WF_vars(ProcessStep(p)) /\ WF_vars(ClearExpired(p))
            /\ \A k \in Keys : WF_vars(Expire(k))
FairSpec == Spec /\ Fairness

-----------------------------------------------------------------------------
Answers == {Controlled(code) : code \in {"NO_RESULTS", "INSUFFICIENT_CONTEXT"}}
           \cup {Cited(cites) : cites \in SUBSET UNION Contexts}

TypeOK == /\ row \in [Keys -> [st : {"NONE", "PENDING", "RUNNING", "DONE", "FAILED"},
                               text : Texts \cup {Nil}, answer : Answers \cup {Nil},
                               expired : BOOLEAN]]
          /\ {order[n] : n \in DOMAIN order} = {k \in Keys : Created(k)}
          /\ Len(order) = Cardinality({k \in Keys : Created(k)})
          /\ \A k \in Keys : row[k].answer # Nil
                              => row[k].st \in {"DONE", "FAILED"} /\ Channel[k] = "HTTP"
          /\ \A p \in Processes : process[p].pc \notin {"idle", "off"} => Created(process[p].key)

(* No second process has been started beside the first: deaths and restarts *)
(* of one process are all there was, as the deployment has it.              *)
Alone == \A p \in Processes \ {First} : process[p].pc = "off"

(* One outcome for every question, and with it the one announcement that a  *)
(* Telegram question owes.                                                  *)
Outcome == [k \in Keys |-> CASE row[k].st = "NONE" -> "none" [] row[k].st = "DONE" -> "answered"
                             [] row[k].st = "FAILED" -> "refused" [] OTHER -> "open"]
Owed(type) == [k \in Keys |-> IF Channel[k] = "HTTP" THEN {} ELSE {type}]

Promise == INSTANCE OneOutcome WITH
    Requests <- Keys, outcome <- Outcome, notices <- notice, alone <- Alone,
    AnswerNotices <- Owed("ASK_RESULT"), RefusalNotices <- Owed("ASK_FAILED")

(* What GET /v1/asks/{id} says.                                             *)
Published(k) == CASE row[k].st \in {"NONE", "PENDING", "RUNNING"} -> Controlled("pending")
                  [] row[k].st = "FAILED" -> Controlled("failed")
                  [] row[k].st = "DONE" /\ (row[k].answer = Nil \/ row[k].expired) -> Controlled("gone")
                  [] OTHER -> row[k].answer

(* A poll never takes back what an earlier poll said: an answer stays as it *)
(* is until it is gone, and what is gone or failed stays so.  A process     *)
(* that overlaps may commit another answer, or a failure, on top.           *)
PublishedStays ==
    [][\A k \in Keys : Alone /\ Published(k).code # "pending" =>
          \/ Published(k)' = Published(k)
          \/ Published(k).code # "failed" /\ (Published(k).code)' = "gone"]_vars

(* Who is told that an HTTP question is accepted has its own question       *)
(* answered, not another one that came first under the same key.            *)
AcceptedIsStored ==
    \A c \in Clients : client[c].pc = "accepted" /\ Channel[client[c].key] = "HTTP"
                          => row[client[c].key].text = client[c].text

(* No answer outlives its retention for good.                               *)
Overdue(k) == row[k].expired /\ row[k].answer # Nil
ExpiredVanish == \A k \in Keys : []<>~Overdue(k)
=============================================================================
