------------------------------- MODULE Capture -------------------------------
(***************************************************************************)
(* The browser extension and the servers it captures to                    *)
(* (clients/browser-extension/src/service-worker.js, storage.js, retry.js; *)
(* api/app.py create_item, services/ingestion.py ingest_external_text).    *)
(*                                                                         *)
(* Storage is changed by one mutation at a time (queueMutationChain), work *)
(* on the network by one drain at a time (workChain); the handlers of      *)
(* messages, alarms and menus interleave at every await, and Chrome may    *)
(* stop the worker at any of them.  Storage and the alarm outlive it.      *)
(*                                                                         *)
(* The host permission of an origin is held exactly while it is            *)
(* configured, so its checks coincide with those of the configuration.     *)
(* recomputeAlarm is taken as one step.                                    *)
(***************************************************************************)
EXTENDS Naturals, Sequences, FiniteSets

CONSTANTS Captures,        \* what the user saves, in the order of saving
          Servers, Tokens, Good,  \* origins, tokens, the token servers accept
          MaxPending,      \* MAX_PENDING_CAPTURES
          MaxAttempts,     \* MAX_AUTOMATIC_ATTEMPTS
          MaxSends,        \* MAX_SENDS_PER_WAKE
          MaxActs,         \* bound: acts of the user on the configuration and the
                           \* queue, and stops of the worker in the middle of its work
          MaxLate,         \* bound: requests on their way that nobody waits for
          Nil

CaptureAssumption == /\ Captures \subseteq Nat /\ Good \in Tokens
                     /\ Nil \notin Captures \cup Servers
                     /\ {MaxPending, MaxAttempts, MaxSends} \subseteq Nat \ {0}
                     /\ {MaxActs, MaxLate} \subseteq Nat

VARIABLES record,     \* [Captures -> [st, origin, attempts, waits]]
          config,     \* Nil or [origin, token]
          connection, \* "AUTH_REQUIRED", or "OPEN" for all the others
          recent,     \* accepted Items: [item, origin, ready]
          alarm,      \* whether queueAlarmName is set
          work,       \* drains asked for and not begun
          drain,      \* the drain in progress
          tester,     \* the connection test in progress
          acts,
          flight,     \* requests on their way: [cap, try, origin, token, looked]
          items,      \* [Servers -> sequence of the captures saved; the index is the id]
          ready,      \* [Servers -> ids of Items processed]
          discarded   \* history: captures the user gave up

vars == <<record, config, connection, recent, alarm, work, drain, tester, acts,
          flight, items, ready, discarded>>
stored == <<record, config, connection, recent, alarm>>
server == <<items, ready>>
bounds == <<acts, discarded>>

Fresh == [st |-> "none", origin |-> Nil, attempts |-> 0, waits |-> FALSE]
Idle == [pc |-> "idle", cfg |-> Nil, todo |-> {}, left |-> 0, refresh |-> FALSE,
         watch |-> {}, cap |-> Nil, try |-> 0, item |-> 0, code |-> Nil]
NoTest == [pc |-> "idle", cfg |-> Nil, code |-> Nil]

Init == /\ record = [c \in Captures |-> Fresh]
        /\ config = Nil /\ connection = "OPEN" /\ recent = {} /\ alarm = FALSE
        /\ work = <<>> /\ drain = Idle /\ tester = NoTest
        /\ acts = 0 /\ discarded = {}
        /\ flight = {} /\ items = [s \in Servers |-> <<>>] /\ ready = [s \in Servers |-> {}]

-----------------------------------------------------------------------------
Pending(c) == record[c].st = "PENDING"
Queue == {c \in Captures : record[c].st \in {"PENDING", "TERMINAL_ERROR"}}
Origin == IF config = Nil THEN Nil ELSE config.origin

(* Fault: only captures that are due at once set the alarm.                 *)
WakesAtOnce(rec, cfg, conn, rcnt) ==
    /\ cfg # Nil /\ conn # "AUTH_REQUIRED"
    /\ \E c \in Captures : rec[c].st = "PENDING" /\ ~rec[c].waits /\ rec[c].origin = cfg.origin

(* Is there something to wake up for: a capture for this server, or an Item *)
(* whose processing is still watched.                                       *)
Wakes(rec, cfg, conn, rcnt) ==
    /\ cfg # Nil /\ conn # "AUTH_REQUIRED"
    /\ \/ \E c \in Captures : rec[c].st = "PENDING" /\ rec[c].origin = cfg.origin
       \/ \E e \in rcnt : e.origin = cfg.origin /\ ~e.ready

(* recomputeAlarm, as the last step of what a handler does.                 *)
RecomputeAlarm == alarm' = Wakes(record', config', connection', recent')

Awake == drain.pc # "off"
Act == Awake /\ acts < MaxActs /\ acts' = acts + 1
AskDrain(only, max, refresh) ==
    work' = Append(work, [only |-> only, max |-> max, refresh |-> refresh])

-----------------------------------------------------------------------------
(* What the user does.                                                     *)

NewCapture(c) == /\ Awake /\ record[c].st = "none"
                 /\ \A d \in Captures : d < c => record[d].st # "none"
Kept(c) == [Fresh EXCEPT !.st = "PENDING", !.origin = Origin]

(* CAPTURE_PAGE, CAPTURE_SELECTION, the context menu: stored before any     *)
(* request, with the server configured at that moment.                      *)
Save(c) ==
    /\ NewCapture(c) /\ Cardinality(Queue) < MaxPending
    /\ record' = [record EXCEPT ![c] = Kept(c)]
    /\ AskDrain(c, 1, FALSE)
    /\ UNCHANGED <<config, connection, recent, alarm, drain, tester, flight, server, bounds>>

(* bindUnconfiguredCaptures                                                 *)
Bound(s) == [c \in Captures |-> IF c \in Queue /\ record[c].origin = Nil
                                THEN [record[c] EXCEPT !.origin = s] ELSE record[c]]

(* saveConfiguration: a new token for the same server does not lift         *)
(* AUTH_REQUIRED, a test of the connection does.                            *)
SaveConfig(s, t) ==
    LET changed == config # [origin |-> s, token |-> t]
    IN /\ Act
       /\ config' = [origin |-> s, token |-> t]
       /\ record' = Bound(s)
       /\ connection' = IF Origin = s THEN connection ELSE "OPEN"
       /\ IF changed THEN AskDrain(Nil, 1, FALSE) ELSE UNCHANGED work
       /\ recent' = recent /\ RecomputeAlarm
       /\ UNCHANGED <<drain, tester, flight, server, discarded>>

Disconnect ==
    /\ Act /\ config # Nil
    /\ config' = Nil /\ connection' = "OPEN"
    /\ UNCHANGED <<record, recent>> /\ RecomputeAlarm
    /\ UNCHANGED <<work, drain, tester, flight, server, discarded>>

(* discardLocalCapture: only what failed for good or waits for another      *)
(* server.                                                                  *)
Discard(c) ==
    /\ Act /\ c \in Queue
    /\ ~Pending(c) \/ (record[c].origin # Nil /\ record[c].origin # Origin)
    /\ record' = [record EXCEPT ![c].st = "gone"]
    /\ discarded' = discarded \cup {c}
    /\ UNCHANGED <<config, connection, recent>> /\ RecomputeAlarm
    /\ UNCHANGED <<work, drain, tester, flight, server>>

(* runConnectionTest: asked with one configuration, judged with it, checked *)
(* against the present one and then stored.                                 *)
StartTest == /\ Act /\ config # Nil /\ tester.pc = "idle"
             /\ tester' = [pc |-> "testing", cfg |-> config, code |-> Nil]
             /\ UNCHANGED <<stored, work, drain, flight, server, discarded>>

TestAnswers(up) ==
    /\ tester.pc = "testing"
    /\ LET code == CASE ~up -> "down" [] up /\ tester.cfg.token = Good -> "CONNECTED"
                     [] OTHER -> "AUTH_REQUIRED"
       IN tester' = [tester EXCEPT !.code = code,
                                   !.pc = IF config = tester.cfg THEN "storing" ELSE "done"]
    /\ UNCHANGED <<stored, work, drain, flight, server, bounds>>

Stored(code) == IF code = "AUTH_REQUIRED" THEN "AUTH_REQUIRED" ELSE "OPEN"

StoreTest == /\ tester.pc = "storing"
             /\ connection' = Stored(tester.code)
             /\ tester' = [tester EXCEPT !.pc = "done"]
             /\ UNCHANGED <<record, config, recent, alarm, work, drain, flight, server, bounds>>

EndTest == /\ tester.pc = "done"
           /\ IF tester.code = "CONNECTED" THEN AskDrain(Nil, 1, FALSE) ELSE UNCHANGED work
           /\ tester' = NoTest
           /\ UNCHANGED <<record, config, connection, recent>> /\ RecomputeAlarm
           /\ UNCHANGED <<drain, flight, server, bounds>>

-----------------------------------------------------------------------------
(* The drain: processDueWork, processDueCaptures, attemptCapture.          *)

Back(pc) == [drain EXCEPT !.pc = pc, !.cap = Nil, !.try = 0, !.item = 0, !.code = Nil]

Keep == UNCHANGED <<config, recent, tester, server, bounds>>
Away == config = Nil \/ connection = "AUTH_REQUIRED"
Due(only) == {c \in Captures : /\ Pending(c) /\ ~record[c].waits
                               /\ record[c].origin \in {Nil, Origin}
                               /\ only = Nil \/ only = c}

Begin ==
    /\ drain.pc = "idle" /\ work # <<>>
    /\ drain' = IF Away THEN [Idle EXCEPT !.pc = "end"]
                ELSE [Idle EXCEPT !.pc = "next", !.cfg = config, !.todo = Due(Head(work).only),
                                  !.left = Head(work).max, !.refresh = Head(work).refresh]
    /\ work' = Tail(work)
    /\ UNCHANGED <<record, connection, alarm, flight>> /\ Keep

AfterCaptures == IF drain.refresh THEN "poll" ELSE "end"

(* Fault: one attempt too many after a stop of the worker.                  *)
SpentLate(c) == record[c].attempts > MaxAttempts

Spent(c) == record[c].attempts >= MaxAttempts

(* The next capture of the list, as long as nothing changed meanwhile.      *)
NextCapture(c) ==
    /\ drain.pc = "next" /\ drain.left > 0
    /\ c \in drain.todo /\ \A d \in drain.todo : c <= d
    /\ \/ /\ Spent(c)
          /\ record' = [record EXCEPT ![c].st = IF Pending(c) THEN "TERMINAL_ERROR" ELSE @]
          /\ drain' = [drain EXCEPT !.todo = @ \ {c}]
       \/ /\ ~Spent(c)
          /\ record' = record
          /\ drain' = IF connection = "AUTH_REQUIRED" \/ config # drain.cfg
                      THEN [drain EXCEPT !.pc = AfterCaptures, !.todo = {}, !.left = 0]
                      ELSE [drain EXCEPT !.pc = "start", !.todo = @ \ {c}, !.cap = c]
    /\ UNCHANGED <<connection, alarm, work, flight>> /\ Keep

NoMore == /\ drain.pc = "next" /\ (drain.todo = {} \/ drain.left = 0)
          /\ drain' = [drain EXCEPT !.pc = AfterCaptures, !.todo = {}, !.left = 0]
          /\ UNCHANGED <<record, connection, alarm, work, flight>> /\ Keep

(* markAttemptStarted: counted before the request leaves.                   *)
StartAttempt ==
    LET c == drain.cap
        n == record[c].attempts + 1
    IN /\ drain.pc = "start"
       /\ \/ /\ ~Pending(c) \/ Spent(c)
             /\ drain' = Back("next")
             /\ UNCHANGED <<record, flight>>
          \/ /\ Pending(c) /\ ~Spent(c)
             /\ record' = [record EXCEPT ![c].attempts = n, ![c].waits = FALSE]
             /\ flight' = flight \cup {[cap |-> c, try |-> n, origin |-> drain.cfg.origin,
                                        token |-> drain.cfg.token, looked |-> FALSE]}
             /\ drain' = [drain EXCEPT !.pc = "waiting", !.try = n, !.left = @ - 1]
       /\ UNCHANGED <<connection, alarm, work>> /\ Keep

(* The worker gives up waiting; the request may still arrive.               *)
TransportFails(lost) ==
    /\ drain.pc = "waiting" /\ (lost \/ Cardinality(flight) <= MaxLate)
    /\ drain' = [drain EXCEPT !.pc = "checking", !.code = "down"]
    /\ flight' = IF lost THEN {r \in flight : r.cap # drain.cap \/ r.try # drain.try} ELSE flight
    /\ UNCHANGED <<record, connection, alarm, work>> /\ Keep

(* persistAccepted: the capture becomes a status, in one write.             *)
PersistAccepted ==
    LET c == drain.cap
        entry == [item |-> drain.item, origin |-> record[c].origin, ready |-> FALSE]
    IN /\ drain.pc = "answered" /\ drain.code = "202"
       /\ record' = [record EXCEPT ![c].st = "gone"]
       /\ recent' = IF c \in Queue THEN recent \cup {entry} ELSE recent
       /\ connection' = IF config = drain.cfg THEN "OPEN" ELSE connection
       /\ drain' = Back("next")
       /\ UNCHANGED <<config, alarm, work, tester, flight, server, bounds>>

Exhausted == drain.try >= MaxAttempts
Update(new) == record' = IF drain.cap \in Queue THEN [record EXCEPT ![drain.cap] = new] ELSE record
Later(r) == [r EXCEPT !.waits = TRUE]
Terminal(r) == [r EXCEPT !.st = "TERMINAL_ERROR"]

(* recordHttpFailure: 401 gives the attempt back, 408, 429 and 5xx are      *)
(* tried again while attempts are left, the rest is final.                  *)
RecordHttpFailure ==
    LET r == record[drain.cap]
    IN /\ drain.pc = "answered" /\ drain.code # "202"
       /\ Update(CASE drain.code = "401" -> [r EXCEPT !.attempts = @ - 1]
                   [] drain.code = "5xx" /\ ~Exhausted -> Later(r)
                   [] OTHER -> Terminal(r))
       /\ drain' = IF drain.code = "401" \/ (drain.code = "5xx" /\ ~Exhausted)
                   THEN [drain EXCEPT !.pc = "checking"] ELSE Back("next")
       /\ UNCHANGED <<connection, alarm, work, flight>> /\ Keep

(* The state of the connection is checked against the configuration, and    *)
(* stored in a later mutation.                                              *)
AfterConnection == CASE drain.cap = Nil -> Back("polling") [] drain.code # "down" -> Back("next")
                     [] OTHER -> [drain EXCEPT !.pc = "recording"]
CheckConnection ==
    /\ drain.pc = "checking"
    /\ drain' = IF config = drain.cfg THEN [drain EXCEPT !.pc = "storing"] ELSE AfterConnection
    /\ UNCHANGED <<record, connection, alarm, work, flight>> /\ Keep

StoreConnection ==
    /\ drain.pc = "storing"
    /\ connection' = Stored(IF drain.code = "401" THEN "AUTH_REQUIRED" ELSE "down")
    /\ drain' = AfterConnection
    /\ UNCHANGED <<record, alarm, work, flight>> /\ Keep

(* recordTransportFailure                                                   *)
RecordTransportFailure ==
    /\ drain.pc = "recording"
    /\ Update(IF Exhausted THEN Terminal(record[drain.cap]) ELSE Later(record[drain.cap]))
    /\ drain' = Back("next")
    /\ UNCHANGED <<connection, alarm, work, flight>> /\ Keep

(* pollStatuses: the Items of the present server that are not done.         *)
BeginPoll ==
    /\ drain.pc = "poll"
    /\ drain' = IF Away THEN [drain EXCEPT !.pc = "end"]
                ELSE [drain EXCEPT !.pc = "polling", !.cfg = config, !.refresh = FALSE,
                                   !.watch = {e \in recent : e.origin = Origin /\ ~e.ready}]
    /\ UNCHANGED <<record, connection, alarm, work, flight>> /\ Keep

(* pollOneItem: the answer of the server, or none.                          *)
Poll(e, code) ==
    /\ drain.pc = "polling" /\ e \in drain.watch
    /\ code = "401" <=> drain.cfg.token # Good
    /\ code = "READY" => e.item \in ready[e.origin]
    /\ LET rest == [drain EXCEPT !.watch = @ \ {e}]
       IN drain' = CASE code = "401" -> [rest EXCEPT !.pc = "checking", !.code = code]
                     [] code = "READY" -> [rest EXCEPT !.pc = "applying", !.item = e.item]
                     [] OTHER -> rest
    /\ UNCHANGED <<record, connection, alarm, work, flight>> /\ Keep

(* Fault: Items are matched by their id alone.                              *)
AnyOf(e) == e.item = drain.item

Same(e) == e.item = drain.item /\ e.origin = drain.cfg.origin

(* ... which counts only while its server is still the configured one.      *)
ApplyStatus ==
    /\ drain.pc = "applying"
    /\ recent' = IF config # drain.cfg THEN recent
                 ELSE {IF Same(e) THEN [e EXCEPT !.ready = TRUE] ELSE e : e \in recent}
    /\ drain' = Back("polling")
    /\ UNCHANGED <<record, config, connection, alarm, work, tester, flight, server, bounds>>

End == /\ drain.pc = "end" \/ (drain.pc = "polling" /\ drain.watch = {})
       /\ drain' = Idle
       /\ UNCHANGED <<record, config, connection, recent>> /\ RecomputeAlarm
       /\ UNCHANGED <<work, tester, flight, server, bounds>>

-----------------------------------------------------------------------------
(* What wakes the worker.                                                  *)

TimePasses(c) == /\ Pending(c) /\ record[c].waits
                 /\ record' = [record EXCEPT ![c].waits = FALSE]
                 /\ UNCHANGED <<config, connection, recent, alarm, work, drain, tester, flight,
                                server, bounds>>

(* The alarm is set for the earliest of what is due.                        *)
AlarmFires == /\ alarm /\ drain.pc = "idle" /\ work = <<>>
              /\ (\E e \in recent : ~e.ready) \/ (\E c \in Captures : Pending(c) /\ ~record[c].waits)
              /\ alarm' = FALSE
              /\ AskDrain(Nil, MaxSends, TRUE)
              /\ UNCHANGED <<record, config, connection, recent, drain, tester, flight, server, bounds>>

(* GET_STATE, REFRESH_STATUS                                                *)
OpenPopup(max, refresh) ==
    /\ Act /\ work = <<>>
    /\ AskDrain(Nil, max, refresh)
    /\ UNCHANGED <<stored, drain, tester, flight, server, discarded>>

(* Chrome stops the worker, or the browser ends.                            *)
Kill == /\ Awake /\ acts < MaxActs /\ acts' = acts + 1
        /\ drain.pc # "idle" \/ work # <<>> \/ tester.pc # "idle"
        /\ drain' = [Idle EXCEPT !.pc = "off"] /\ work' = <<>> /\ tester' = NoTest
        /\ UNCHANGED <<stored, flight, server, discarded>>

(* Every start of the module sets the alarm; that of the browser drains.    *)
Start(drains) ==
    /\ ~Awake
    /\ drain' = Idle
    /\ work' = IF drains THEN <<[only |-> Nil, max |-> MaxSends, refresh |-> FALSE]>> ELSE <<>>
    /\ UNCHANGED <<record, config, connection, recent>> /\ RecomputeAlarm
    /\ UNCHANGED <<tester, flight, server, bounds>>

-----------------------------------------------------------------------------
(* The servers: create_item, ingest_external_text.                         *)

Ids(s, c) == {n \in DOMAIN items[s] : items[s][n] = c}

(* The answer reaches the worker if it still waits for it.                  *)
Answer(r, code, id) ==
    /\ flight' = flight \ {r}
    /\ drain' = IF drain.pc = "waiting" /\ drain.cap = r.cap /\ drain.try = r.try
                THEN [drain EXCEPT !.pc = "answered", !.code = code, !.item = id] ELSE drain
OnlyServer == UNCHANGED <<stored, work, tester, bounds>>

(* current_user_id; a body that is not valid; a failure.                    *)
Unauthorized(r) == r.token # Good /\ Answer(r, "401", 0) /\ UNCHANGED server /\ OnlyServer
Invalid(r) == /\ r.token = Good /\ ~r.looked /\ Ids(r.origin, r.cap) = {}
              /\ Answer(r, "4xx", 0) /\ UNCHANGED server /\ OnlyServer
Unavailable(r) == Answer(r, "5xx", 0) /\ UNCHANGED server /\ OnlyServer

(* The key is looked up ...                                                 *)
Lookup(r) ==
    /\ r.token = Good /\ ~r.looked
    /\ IF Ids(r.origin, r.cap) # {}
       THEN \E id \in Ids(r.origin, r.cap) : Answer(r, "202", id)
       ELSE flight' = (flight \ {r}) \cup {[r EXCEPT !.looked = TRUE]} /\ drain' = drain
    /\ UNCHANGED server /\ OnlyServer

(* Fault: no unique index.                                                  *)
InsertTwice(r) ==
    /\ r.looked
    /\ items' = [items EXCEPT ![r.origin] = Append(@, r.cap)]
    /\ Answer(r, "202", Len(items[r.origin]) + 1)
    /\ ready' = ready /\ OnlyServer

(* ... and inserted; the unique index decides between two that found none.  *)
Insert(r) ==
    LET s == r.origin
    IN /\ r.looked
       /\ \/ /\ Ids(s, r.cap) = {}
             /\ items' = [items EXCEPT ![s] = Append(@, r.cap)]
             /\ Answer(r, "202", Len(items[s]) + 1)
          \/ \E id \in Ids(s, r.cap) : Answer(r, "202", id) /\ items' = items
       /\ ready' = ready /\ OnlyServer

(* The pipeline settles an Item.                                            *)
Process(s, n) == /\ n \in DOMAIN items[s] /\ n \notin ready[s]
                 /\ ready' = [ready EXCEPT ![s] = @ \cup {n}]
                 /\ items' = items /\ UNCHANGED <<drain, flight>> /\ OnlyServer

-----------------------------------------------------------------------------
User == \/ \E c \in Captures : Save(c) \/ Discard(c)
        \/ \E s \in Servers, t \in Tokens : SaveConfig(s, t)
        \/ Disconnect \/ StartTest
        \/ OpenPopup(1, FALSE) \/ OpenPopup(0, TRUE)
Test == (\E up \in BOOLEAN : TestAnswers(up)) \/ StoreTest \/ EndTest
Drain == \/ Begin \/ NoMore \/ StartAttempt
         \/ \E c \in Captures : NextCapture(c)
         \/ \E lost \in BOOLEAN : TransportFails(lost)
         \/ PersistAccepted \/ RecordHttpFailure \/ CheckConnection \/ StoreConnection
         \/ RecordTransportFailure \/ BeginPoll \/ ApplyStatus \/ End
         \/ \E e \in drain.watch, code \in {"401", "READY", "down"} : Poll(e, code)
Server(r) == Unauthorized(r) \/ Invalid(r) \/ Unavailable(r) \/ Lookup(r) \/ Insert(r)

Next == \/ User \/ Test \/ Drain
        \/ \E c \in Captures : TimePasses(c)
        \/ AlarmFires \/ Kill
        \/ \E drains \in BOOLEAN : Start(drains)
        \/ \E r \in flight : Server(r)
        \/ \E s \in Servers, n \in 1..Cardinality(Captures) : Process(s, n)

Spec == Init /\ [][Next]_vars

(* A worker that is awake goes on, fetch has a timeout, alarms fire, and a  *)
(* worker that was stopped is started again by some event.                  *)
Fairness == /\ WF_vars(Drain) /\ WF_vars(Test)
            /\ \A c \in Captures : WF_vars(TimePasses(c))
            /\ WF_vars(AlarmFires) /\ WF_vars(\E drains \in BOOLEAN : Start(drains))
FairSpec == Spec /\ Fairness

-----------------------------------------------------------------------------
Entries == [item : Nat, origin : Servers, ready : BOOLEAN]
TypeOK == /\ record \in [Captures -> [st : {"none", "PENDING", "TERMINAL_ERROR", "gone"},
                                     origin : Servers \cup {Nil}, attempts : 0..MaxAttempts,
                                     waits : BOOLEAN]]
          /\ config \in {Nil} \cup [origin : Servers, token : Tokens]
          /\ connection \in {"OPEN", "AUTH_REQUIRED"}
          /\ recent \subseteq Entries /\ alarm \in BOOLEAN
          /\ drain.pc \in {"idle", "off", "next", "start", "waiting", "answered", "checking",
                           "storing", "recording", "poll", "polling", "applying", "end"}
          /\ drain.todo \subseteq Captures /\ drain.cap \in Captures \cup {Nil}
          /\ drain.pc \in {"start", "waiting", "answered", "recording"} => drain.cap # Nil
          /\ \A r \in flight : r.cap \in Captures /\ r.try \in 1..MaxAttempts
          /\ acts \in 0..MaxActs

(* What the user saved becomes one Item, on one server: no answer, restart  *)
(* of the worker or change of server loses it, unless the user gave it up,  *)
(* and no retry of a request whose answer was lost saves it again.          *)
Copies(c) == UNION {{<<s, n>> : n \in Ids(s, c)} : s \in Servers}
ExactlyOneItem ==
    \A c \in Captures :
        /\ Cardinality(Copies(c)) <= 1
        /\ record[c].st = "gone" => c \in discarded \/ Copies(c) # {}

(* What the popup says of an Item was said by the server of that Item.      *)
StatusIsTrue == \A e \in recent : e.ready => e.item \in ready[e.origin]

(* A capture whose server stays configured and does not refuse the token is *)
(* accepted or given up in the end.                                         *)
Sendable(c) == config # Nil /\ Pending(c) /\ record[c].origin = Origin /\ connection # "AUTH_REQUIRED"
CaptureSettles == \A c \in Captures : []<>~Sendable(c)
=============================================================================
