---------------------------- MODULE CaptureProofs ----------------------------
(***************************************************************************)
(* Theorems about Capture: for any captures, servers and tokens, and       *)
(* however often the worker is stopped or an answer is lost, a capture     *)
(* becomes one Item of one server, and the popup repeats what the server   *)
(* of an Item said.                                                        *)
(***************************************************************************)
EXTENDS Capture, FiniteSetTheorems, TLAPS

-----------------------------------------------------------------------------
(* The inductive invariant.                                                *)

RecordType == [st : {"none", "PENDING", "TERMINAL_ERROR", "gone"}, origin : Servers \cup {Nil},
               attempts : 0..MaxAttempts, waits : BOOLEAN]
ConfigType == {Nil} \cup [origin : Servers, token : Tokens]
Codes == {Nil, "202", "401", "4xx", "5xx", "down", "READY"}
DrainType == [pc : {"idle", "off", "next", "start", "waiting", "answered", "checking", "storing",
                    "recording", "poll", "polling", "applying", "end"},
              cfg : ConfigType, todo : SUBSET Captures, left : Nat, refresh : BOOLEAN,
              watch : SUBSET Entries, cap : Captures \cup {Nil}, try : 0..MaxAttempts,
              item : Nat, code : Codes]
WorkType == [only : Captures \cup {Nil}, max : Nat, refresh : BOOLEAN]
FlightType == [cap : Captures, try : 1..MaxAttempts, origin : Servers, token : Tokens,
               looked : BOOLEAN]

Types == /\ record \in [Captures -> RecordType]
         /\ config \in ConfigType
         /\ connection \in {"OPEN", "AUTH_REQUIRED"}
         /\ recent \subseteq Entries
         /\ alarm \in BOOLEAN
         /\ work \in Seq(WorkType)
         /\ drain \in DrainType
         /\ acts \in 0..MaxActs
         /\ flight \subseteq FlightType
         /\ items \in [Servers -> Seq(Captures)]
         /\ ready \in [Servers -> SUBSET Nat]

(* A capture has no server only while none is configured.                   *)
Bindings == \A c \in Captures : /\ record[c].st = "none" => record[c].origin = Nil
                                /\ c \in Queue /\ record[c].origin = Nil => config = Nil

(* The drain works for the server of its configuration, and knows the       *)
(* attempt it counted.                                                      *)
For(c) == drain.cfg # Nil /\ record[c].origin = drain.cfg.origin
DrainAgrees ==
    /\ \A c \in drain.todo : For(c)
    /\ drain.cap # Nil => For(drain.cap)
    /\ drain.pc \in {"start", "waiting", "answered", "recording"} => drain.cap # Nil
    /\ drain.pc \in {"idle", "off", "next", "poll", "polling", "applying", "end"} => drain.cap = Nil
    /\ drain.pc \in {"poll", "polling", "applying", "end"} => drain.todo = {}
    /\ drain.cap = Nil /\ drain.pc \in {"checking", "storing"} => drain.todo = {}
    /\ drain.pc = "start" => drain.left > 0
    /\ drain.pc \in {"waiting", "answered"} => drain.try >= 1 /\ record[drain.cap].attempts = drain.try
    /\ drain.pc = "answered" /\ drain.code = "202" => Ids(drain.cfg.origin, drain.cap) # {}
    /\ \A e \in drain.watch : drain.cfg # Nil /\ e.origin = drain.cfg.origin
    /\ drain.pc = "applying" => drain.cfg # Nil /\ drain.item \in ready[drain.cfg.origin]

(* A request goes to the server of its capture, and no other has a copy.    *)
FlightsAgree == \A r \in flight : record[r.cap].origin = r.origin
CopiesAgree == \A s \in Servers :
    /\ \A n \in DOMAIN items[s] : record[items[s][n]].origin = s
    /\ \A m, n \in DOMAIN items[s] : items[s][m] = items[s][n] => m = n

GoneSaved == \A c \in Captures :
    record[c].st = "gone" => c \in discarded \/ \E s \in Servers : Ids(s, c) # {}

IInv == /\ Types /\ Bindings /\ DrainAgrees /\ FlightsAgree /\ CopiesAgree /\ GoneSaved
        /\ StatusIsTrue

-----------------------------------------------------------------------------
LEMMA InitInvariant == ASSUME CaptureAssumption, Init PROVE IInv
<1>0. MaxAttempts \in Nat /\ MaxActs \in Nat
  BY DEF CaptureAssumption
<1>1. Types
  <2>1. Fresh \in RecordType
    BY <1>0 DEF Fresh, RecordType
  <2>2. Idle \in DrainType
    BY <1>0 DEF Idle, DrainType, ConfigType, Codes
  <2>3. items \in [Servers -> Seq(Captures)] /\ ready \in [Servers -> SUBSET Nat]
    BY DEF Init
  <2>4. record \in [Captures -> RecordType] /\ drain \in DrainType /\ config \in ConfigType
    BY <2>1, <2>2 DEF Init, ConfigType
  <2>5. work \in Seq(WorkType) /\ recent \subseteq Entries /\ flight \subseteq FlightType
    BY DEF Init
  <2>6. connection \in {"OPEN", "AUTH_REQUIRED"} /\ alarm \in BOOLEAN
    BY DEF Init
  <2>7. acts \in 0..MaxActs
    BY <1>0 DEF Init
  <2> QED
    BY <2>3, <2>4, <2>5, <2>6, <2>7 DEF Types
<1>2. Bindings /\ DrainAgrees /\ FlightsAgree
  BY <1>1 DEF Init, Bindings, DrainAgrees, FlightsAgree, Queue, Fresh, Idle
<1>3. CopiesAgree /\ GoneSaved /\ StatusIsTrue
  BY DEF Init, CopiesAgree, GoneSaved, StatusIsTrue, Fresh
<1> QED
  BY <1>1, <1>2, <1>3 DEF IInv

(* What no step does to the record of a capture: it leaves its server, does *)
(* not forget it, and lets it go only saved or given up by the user.        *)
RecordsKeep ==
    /\ record' \in [Captures -> RecordType]
    /\ \A c \in Captures :
         /\ record[c].origin # Nil => record'[c].origin = record[c].origin
         /\ record'[c].st = "gone" => \/ record[c].st = "gone" \/ c \in discarded'
                                      \/ \E s \in Servers : Ids(s, c) # {}
    /\ Bindings'

LEMMA RecordsKept ==
  ASSUME CaptureAssumption, IInv, RecordsKeep, discarded \subseteq discarded',
         flight' \subseteq flight, items' = items
  PROVE  FlightsAgree' /\ CopiesAgree' /\ GoneSaved'
<1>1. FlightsAgree'
  <2>1. \A r \in flight : r.cap \in Captures /\ r.origin # Nil
    BY DEF CaptureAssumption, IInv, Types, FlightType
  <2> QED
    BY <2>1 DEF IInv, RecordsKeep, FlightsAgree
<1>2. CopiesAgree'
  <2>1. \A s \in Servers : \A n \in DOMAIN items[s] : items[s][n] \in Captures
    BY DEF IInv, Types
  <2> QED
    BY <2>1 DEF CaptureAssumption, IInv, RecordsKeep, CopiesAgree
<1>3. GoneSaved'
  BY DEF IInv, RecordsKeep, GoneSaved, Ids
<1> QED
  BY <1>1, <1>2, <1>3

(* The drain does not notice what others do.                                *)
AttemptsKeep == \A c \in Captures :
    record[c].origin # Nil => record'[c].attempts = record[c].attempts

LEMMA DrainKept ==
  ASSUME CaptureAssumption, IInv, RecordsKeep, AttemptsKeep, drain' = drain,
         \A s \in Servers, c \in Captures : Ids(s, c) \subseteq Ids(s, c)',
         \A s \in Servers : ready[s] \subseteq ready'[s]
  PROVE  DrainAgrees'
<1>1. \A c \in Captures : For(c) => For(c)' /\ record'[c].attempts = record[c].attempts
  BY DEF CaptureAssumption, IInv, Types, ConfigType, DrainType, RecordsKeep, AttemptsKeep, For
<1>2. drain.todo \subseteq Captures /\ drain.cap \in Captures \cup {Nil}
      /\ (drain.cfg # Nil => drain.cfg.origin \in Servers)
  BY DEF IInv, Types, DrainType, ConfigType
<1> QED
  BY <1>1, <1>2 DEF IInv, DrainAgrees, For

LEMMA AsksKeepWork ==
  ASSUME IInv, NEW only \in Captures \cup {Nil}, NEW max \in Nat, NEW refresh \in BOOLEAN,
         AskDrain(only, max, refresh)
  PROVE  work' \in Seq(WorkType)
<1>1. [only |-> only, max |-> max, refresh |-> refresh] \in WorkType
  BY DEF WorkType
<1> QED
  BY <1>1 DEF IInv, Types, AskDrain

LEMMA AlarmIsBoolean == ASSUME RecomputeAlarm PROVE alarm' \in BOOLEAN
  BY DEF RecomputeAlarm, Wakes

-----------------------------------------------------------------------------
(* Whatever happens outside the drain and the servers, or ends the drain.   *)
Outside == /\ RecordsKeep /\ AttemptsKeep
           /\ config' \in ConfigType /\ connection' \in {"OPEN", "AUTH_REQUIRED"}
           /\ recent' = recent /\ alarm' \in BOOLEAN /\ work' \in Seq(WorkType)
           /\ drain' \in {drain, Idle, [Idle EXCEPT !.pc = "off"]}
           /\ acts' \in 0..MaxActs
           /\ UNCHANGED <<flight, items, ready>>
           /\ discarded \subseteq discarded'

LEMMA OutsideKeeps == ASSUME CaptureAssumption, IInv, Outside PROVE IInv'
<1>1. DrainAgrees' /\ drain' \in DrainType
  <2>1. CASE drain' = drain
    BY <2>1, DrainKept DEF Outside, Ids, IInv, Types
  <2>2. CASE drain' \in {Idle, [Idle EXCEPT !.pc = "off"]}
    <3>1. MaxAttempts \in Nat
      BY DEF CaptureAssumption
    <3>2. drain' \in DrainType
      <4>1. Idle \in DrainType
        BY <3>1 DEF Idle, DrainType, ConfigType, Codes
      <4>2. [Idle EXCEPT !.pc = "off"] \in DrainType
        BY <4>1 DEF DrainType
      <4> QED
        BY <2>2, <4>1, <4>2
    <3>3. drain'.pc \in {"idle", "off"} /\ drain'.cap = Nil /\ drain'.todo = {} /\ drain'.watch = {}
      BY <2>2 DEF Idle
    <3> QED
      BY <3>2, <3>3 DEF DrainAgrees
  <2> QED
    BY <2>1, <2>2 DEF Outside
<1>2. FlightsAgree' /\ CopiesAgree' /\ GoneSaved'
  BY RecordsKept DEF Outside
<1>3. Types'
  BY <1>1 DEF Outside, RecordsKeep, IInv, Types
<1>4. StatusIsTrue'
  BY DEF Outside, IInv, StatusIsTrue
<1> QED
  BY <1>1, <1>2, <1>3, <1>4 DEF Outside, RecordsKeep, IInv

LEMMA SameRecords ==
  ASSUME IInv, record' = record, config' \in {config, Nil}
  PROVE  RecordsKeep /\ AttemptsKeep
  BY DEF IInv, Types, Bindings, RecordsKeep, AttemptsKeep, Queue

(* The acts of the user on what is stored.                                  *)
LEMMA SaveKeeps ==
  ASSUME CaptureAssumption, IInv, NEW c \in Captures, Save(c)
  PROVE  IInv'
<1>1. record \in [Captures -> RecordType] /\ config \in ConfigType /\ MaxAttempts \in Nat
  BY DEF CaptureAssumption, IInv, Types
<1>2. record' = [record EXCEPT ![c] = Kept(c)] /\ record[c].origin = Nil
  BY DEF Save, NewCapture, IInv, Bindings
<1>3. Kept(c) \in RecordType /\ Kept(c).st = "PENDING"
      /\ Kept(c).origin = Origin /\ (Origin = Nil => config = Nil)
  <2>1. Origin \in Servers \cup {Nil} /\ (Origin = Nil => config = Nil)
    BY <1>1 DEF CaptureAssumption, Origin, ConfigType
  <2>2. Fresh \in RecordType
    BY <1>1 DEF Fresh, RecordType
  <2> QED
    BY <2>1, <2>2 DEF Kept, RecordType
<1>4. record' \in [Captures -> RecordType]
      /\ \A d \in Captures : record'[d] = IF d = c THEN Kept(c) ELSE record[d]
  BY <1>1, <1>2, <1>3
<1>5. Bindings'
  BY <1>3, <1>4 DEF Save, IInv, Bindings, Queue
<1>6. RecordsKeep /\ AttemptsKeep
  BY <1>2, <1>3, <1>4, <1>5 DEF RecordsKeep, AttemptsKeep
<1>7. work' \in Seq(WorkType)
  BY AsksKeepWork DEF Save
<1> QED
  BY <1>6, <1>7, OutsideKeeps DEF Save, Outside, server, bounds, IInv, Types

LEMMA ActCounts == ASSUME CaptureAssumption, IInv, Act PROVE acts' \in 0..MaxActs
  BY DEF CaptureAssumption, IInv, Types, Act

LEMMA SaveConfigKeeps ==
  ASSUME CaptureAssumption, IInv, NEW s \in Servers, NEW t \in Tokens, SaveConfig(s, t)
  PROVE  IInv'
<1>1. record \in [Captures -> RecordType]
  BY DEF IInv, Types
<1>2. record' = Bound(s) /\ config' \in ConfigType
  BY DEF SaveConfig, ConfigType
<1>3. \A c \in Captures : record'[c] = IF c \in Queue /\ record[c].origin = Nil
                                       THEN [record[c] EXCEPT !.origin = s] ELSE record[c]
  BY <1>2 DEF Bound
<1>4. record' \in [Captures -> RecordType]
  BY <1>1, <1>2 DEF Bound, RecordType
<1>5. \A c \in Captures : /\ record'[c].st = record[c].st
                          /\ record'[c].attempts = record[c].attempts
                          /\ record'[c].origin = IF c \in Queue /\ record[c].origin = Nil
                                                 THEN s ELSE record[c].origin
  BY <1>1, <1>3 DEF RecordType
<1>6. Bindings'
  BY <1>5 DEF CaptureAssumption, IInv, Bindings, Queue
<1>7. RecordsKeep /\ AttemptsKeep
  BY <1>4, <1>5, <1>6 DEF RecordsKeep, AttemptsKeep
<1>8. work' \in Seq(WorkType)
  BY AsksKeepWork DEF SaveConfig, IInv, Types
<1>9. acts' \in 0..MaxActs /\ alarm' \in BOOLEAN
  BY ActCounts, AlarmIsBoolean DEF SaveConfig
<1> QED
  BY <1>2, <1>7, <1>8, <1>9, OutsideKeeps DEF SaveConfig, Outside, server, IInv, Types

LEMMA DiscardKeeps ==
  ASSUME CaptureAssumption, IInv, NEW c \in Captures, Discard(c)
  PROVE  IInv'
<1>1. record \in [Captures -> RecordType] /\ record' = [record EXCEPT ![c].st = "gone"]
      /\ record[c].st \in {"PENDING", "TERMINAL_ERROR"}
  BY DEF Discard, Queue, IInv, Types
<1>2. record' \in [Captures -> RecordType]
  BY <1>1 DEF RecordType
<1>3. \A d \in Captures : /\ record'[d].origin = record[d].origin
                          /\ record'[d].attempts = record[d].attempts
                          /\ record'[d].st = IF d = c THEN "gone" ELSE record[d].st
  BY <1>1 DEF RecordType
<1>4. Bindings' /\ c \in discarded'
  BY <1>3 DEF Discard, IInv, Bindings, Queue
<1>5. RecordsKeep /\ AttemptsKeep
  BY <1>2, <1>3, <1>4 DEF RecordsKeep, AttemptsKeep
<1>6. acts' \in 0..MaxActs /\ alarm' \in BOOLEAN
  BY ActCounts, AlarmIsBoolean DEF Discard
<1> QED
  BY <1>5, <1>6, OutsideKeeps DEF Discard, Outside, server, IInv, Types

LEMMA TimeKeeps ==
  ASSUME CaptureAssumption, IInv, NEW c \in Captures, TimePasses(c)
  PROVE  IInv'
<1>1. record \in [Captures -> RecordType] /\ record' = [record EXCEPT ![c].waits = FALSE]
  BY DEF TimePasses, IInv, Types
<1>2. record' \in [Captures -> RecordType]
  BY <1>1 DEF RecordType
<1>3. \A d \in Captures : /\ record'[d].origin = record[d].origin
                          /\ record'[d].attempts = record[d].attempts
                          /\ record'[d].st = record[d].st
  BY <1>1 DEF RecordType
<1>4. Bindings'
  BY <1>3 DEF TimePasses, IInv, Bindings, Queue
<1>5. RecordsKeep /\ AttemptsKeep
  BY <1>2, <1>3, <1>4 DEF RecordsKeep, AttemptsKeep
<1> QED
  BY <1>5, OutsideKeeps DEF TimePasses, Outside, server, bounds, IInv, Types

(* What leaves the records alone.                                           *)
LEMMA UserKeeps ==
  ASSUME CaptureAssumption, IInv, Disconnect \/ StartTest \/ OpenPopup(1, FALSE) \/ OpenPopup(0, TRUE)
  PROVE  IInv'
<1>1. RecordsKeep /\ AttemptsKeep
  BY SameRecords DEF Disconnect, StartTest, OpenPopup, stored
<1>2. acts' \in 0..MaxActs
  BY ActCounts DEF Disconnect, StartTest, OpenPopup
<1>3. alarm' \in BOOLEAN
  BY AlarmIsBoolean DEF Disconnect, StartTest, OpenPopup, stored, IInv, Types
<1>4. work' \in Seq(WorkType)
  BY AsksKeepWork DEF Disconnect, StartTest, OpenPopup, IInv, Types
<1>5. config' \in ConfigType /\ connection' \in {"OPEN", "AUTH_REQUIRED"}
  BY DEF Disconnect, StartTest, OpenPopup, stored, IInv, Types, ConfigType
<1>6. recent' = recent /\ drain' = drain /\ UNCHANGED <<flight, items, ready>>
      /\ discarded' = discarded
  BY DEF Disconnect, StartTest, OpenPopup, stored, server
<1> QED
  BY <1>1, <1>2, <1>3, <1>4, <1>5, <1>6, OutsideKeeps DEF Outside

LEMMA TestKeeps ==
  ASSUME CaptureAssumption, IInv, Test
  PROVE  IInv'
<1>1. RecordsKeep /\ AttemptsKeep
  BY SameRecords DEF Test, TestAnswers, StoreTest, EndTest, stored
<1>2. alarm' \in BOOLEAN
  BY AlarmIsBoolean DEF Test, TestAnswers, StoreTest, EndTest, stored, IInv, Types
<1>3. work' \in Seq(WorkType)
  <2>1. CASE EndTest
    <3>1. Nil \in Captures \cup {Nil} /\ 1 \in Nat /\ FALSE \in BOOLEAN
      OBVIOUS
    <3> QED
      BY <2>1, <3>1, AsksKeepWork DEF EndTest, IInv, Types
  <2> QED
    BY <2>1 DEF Test, TestAnswers, StoreTest, IInv, Types
<1>4. config' \in ConfigType /\ connection' \in {"OPEN", "AUTH_REQUIRED"}
  BY DEF Test, TestAnswers, StoreTest, EndTest, stored, Stored, IInv, Types
<1>5. /\ recent' = recent /\ drain' = drain /\ UNCHANGED <<flight, items, ready>>
      /\ discarded' = discarded /\ acts' = acts
  BY DEF Test, TestAnswers, StoreTest, EndTest, stored, server, bounds
<1> QED
  BY <1>1, <1>2, <1>3, <1>4, <1>5, OutsideKeeps DEF Outside, IInv, Types

LEMMA WakeKeeps ==
  ASSUME CaptureAssumption, IInv, AlarmFires \/ Kill \/ (\E drains \in BOOLEAN : Start(drains))
  PROVE  IInv'
<1>1. RecordsKeep /\ AttemptsKeep
  BY SameRecords DEF AlarmFires, Kill, Start, stored
<1>2. alarm' \in BOOLEAN
  BY AlarmIsBoolean DEF AlarmFires, Kill, Start, stored, IInv, Types
<1>3. work' \in Seq(WorkType)
  <2>1. MaxSends \in Nat
    BY DEF CaptureAssumption
  <2>2. CASE AlarmFires
    BY <2>1, <2>2, AsksKeepWork DEF AlarmFires
  <2>3. CASE Kill
    BY <2>3 DEF Kill
  <2>4. CASE \E drains \in BOOLEAN : Start(drains)
    <3>1. [only |-> Nil, max |-> MaxSends, refresh |-> FALSE] \in WorkType
      BY <2>1 DEF WorkType
    <3> QED
      BY <2>4, <3>1 DEF Start
  <2> QED
    BY <2>2, <2>3, <2>4
<1>4. config' = config /\ connection' = connection
  BY DEF AlarmFires, Kill, Start, stored
<1>5. acts' \in 0..MaxActs
  <2>1. acts \in 0..MaxActs /\ MaxActs \in Nat
    BY DEF CaptureAssumption, IInv, Types
  <2>2. acts' = acts \/ (acts < MaxActs /\ acts' = acts + 1)
    BY DEF AlarmFires, Kill, Start, bounds
  <2> QED
    BY <2>1, <2>2
<1>6. /\ recent' = recent /\ UNCHANGED <<flight, items, ready>> /\ discarded' = discarded
      /\ drain' \in {drain, Idle, [Idle EXCEPT !.pc = "off"]}
  BY DEF AlarmFires, Kill, Start, stored, server, bounds
<1> QED
  BY <1>1, <1>2, <1>3, <1>4, <1>5, <1>6, OutsideKeeps DEF Outside, IInv, Types

-----------------------------------------------------------------------------
(* The steps of the drain.                                                 *)
DrainMoves == /\ RecordsKeep
              /\ drain' \in DrainType /\ DrainAgrees'
              /\ connection' \in {"OPEN", "AUTH_REQUIRED"} /\ alarm' \in BOOLEAN
              /\ work' \in Seq(WorkType)
              /\ recent' \subseteq Entries /\ StatusIsTrue'
              /\ flight' \subseteq flight
              /\ UNCHANGED <<config, acts, items, ready, discarded>>

LEMMA DrainMovesKeep == ASSUME CaptureAssumption, IInv, DrainMoves PROVE IInv'
<1>1. FlightsAgree' /\ CopiesAgree' /\ GoneSaved'
  BY RecordsKept DEF DrainMoves
<1>2. Types'
  BY DEF DrainMoves, RecordsKeep, IInv, Types
<1> QED
  BY <1>1, <1>2 DEF DrainMoves, RecordsKeep, IInv

(* One field of the drain at a time.                                        *)
LEMMA DrainTyped ==
  ASSUME IInv
  PROVE  /\ drain \in DrainType
         /\ drain.cap \in Captures \cup {Nil} /\ drain.todo \subseteq Captures
         /\ drain.cfg \in ConfigType /\ drain.watch \subseteq Entries /\ drain.left \in Nat
  BY DEF IInv, Types, DrainType

(* Steps that change nothing that is stored but, some of them, whether the  *)
(* connection is open and the alarm.                                        *)
DrainOnly == /\ record' = record /\ recent' = recent /\ work' = work /\ flight' \subseteq flight
             /\ connection' \in {"OPEN", "AUTH_REQUIRED"} /\ alarm' \in BOOLEAN
             /\ UNCHANGED <<config, acts, items, ready, discarded>>

LEMMA DrainOnlyKeeps ==
  ASSUME CaptureAssumption, IInv, DrainOnly, drain' \in DrainType, DrainAgrees'
  PROVE  IInv'
<1>1. RecordsKeep
  BY SameRecords DEF DrainOnly
<1>2. StatusIsTrue'
  BY DEF DrainOnly, IInv, StatusIsTrue
<1> QED
  BY <1>1, <1>2, DrainMovesKeep DEF DrainOnly, DrainMoves, IInv, Types

LEMMA BeginKeeps == ASSUME CaptureAssumption, IInv, Begin PROVE IInv'
<1>1. work \in Seq(WorkType) /\ work # <<>> /\ MaxAttempts \in Nat
  BY DEF Begin, IInv, Types, CaptureAssumption
<1>2. Head(work) \in WorkType /\ Tail(work) \in Seq(WorkType)
  BY <1>1
<1>3. config \in ConfigType
  BY DEF IInv, Types
<1>4. Idle \in DrainType
  BY <1>1 DEF Idle, DrainType, ConfigType, Codes
<1> DEFINE only == Head(work).only
<1>5. Due(only) \subseteq Captures
  BY DEF Due
<1>6. Head(work).max \in Nat /\ Head(work).refresh \in BOOLEAN
  BY <1>2 DEF WorkType
<1>7. drain' \in DrainType /\ DrainAgrees'
  <2>1. CASE Away
    <3>1. drain' = [Idle EXCEPT !.pc = "end"]
      BY <2>1 DEF Begin
    <3>2. drain' \in DrainType
      BY <1>4, <3>1 DEF DrainType
    <3>3. drain'.pc = "end" /\ drain'.cap = Nil /\ drain'.todo = {} /\ drain'.watch = {}
      BY <3>1 DEF Idle
    <3> QED
      BY <3>2, <3>3 DEF DrainAgrees
  <2>2. CASE ~Away
    <3>1. drain' = [Idle EXCEPT !.pc = "next", !.cfg = config, !.todo = Due(only),
                                !.left = Head(work).max, !.refresh = Head(work).refresh]
      BY <2>2 DEF Begin
    <3>2. drain' \in DrainType
      BY <1>3, <1>4, <1>5, <1>6, <3>1 DEF DrainType
    <3>3. drain'.pc = "next" /\ drain'.cap = Nil /\ drain'.todo = Due(only) /\ drain'.watch = {}
          /\ drain'.cfg = config
      BY <3>1 DEF Idle
    <3>4. config # Nil /\ \A c \in Due(only) : record[c].origin = config.origin
      BY <2>2 DEF Away, Due, Pending, Origin, IInv, Bindings, Queue
    <3> QED
      BY <3>2, <3>3, <3>4 DEF DrainAgrees, For, Begin, Keep
  <2> QED
    BY <2>1, <2>2
<1>8. RecordsKeep
  BY SameRecords DEF Begin, Keep
<1>9. StatusIsTrue'
  BY DEF Begin, Keep, server, IInv, StatusIsTrue
<1> QED
  BY <1>2, <1>7, <1>8, <1>9, DrainMovesKeep
     DEF DrainMoves, Begin, Keep, server, bounds, IInv, Types

LEMMA BackTyped ==
  ASSUME CaptureAssumption, IInv, NEW pc \in {"next", "polling"}
  PROVE  /\ Back(pc) \in DrainType
         /\ Back(pc).pc = pc /\ Back(pc).cap = Nil /\ Back(pc).todo = drain.todo
         /\ Back(pc).cfg = drain.cfg /\ Back(pc).watch = drain.watch
<1>1. 0 \in 0..MaxAttempts /\ drain \in DrainType
  BY DrainTyped DEF CaptureAssumption
<1>2. Nil \in Codes
  BY DEF Codes
<1>3. Back(pc) \in DrainType
  BY <1>1, <1>2 DEF Back, DrainType
<1> QED
  BY <1>1, <1>3 DEF Back, DrainType

(* The drain may go back to its list, or to its poll when the list is done. *)
LEMMA BackAgrees ==
  ASSUME CaptureAssumption, IInv, RecordsKeep, NEW pc \in {"next", "polling"}, drain' = Back(pc),
         pc = "polling" => drain.todo = {}
  PROVE  drain' \in DrainType /\ DrainAgrees'
<1>1. /\ drain' \in DrainType /\ drain'.pc = pc /\ drain'.cap = Nil /\ drain'.todo = drain.todo
      /\ drain'.cfg = drain.cfg /\ drain'.watch = drain.watch
  BY BackTyped
<1>2. \A c \in Captures : For(c) => For(c)'
  BY <1>1 DEF CaptureAssumption, IInv, Types, ConfigType, DrainType, RecordsKeep, For
<1> QED
  BY <1>1, <1>2, DrainTyped DEF IInv, DrainAgrees

LEMMA NoMoreKeeps == ASSUME CaptureAssumption, IInv, NoMore PROVE IInv'
<1>1. drain \in DrainType /\ AfterCaptures \in {"poll", "end"}
  BY DrainTyped DEF AfterCaptures
<1>2. drain' = [drain EXCEPT !.pc = AfterCaptures, !.todo = {}, !.left = 0]
  BY DEF NoMore
<1>3. drain' \in DrainType
  BY <1>1, <1>2 DEF DrainType
<1>4. drain'.pc \in {"poll", "end"} /\ drain'.todo = {} /\ drain'.cap = drain.cap
      /\ drain'.cfg = drain.cfg /\ drain'.watch = drain.watch
  BY <1>1, <1>2 DEF DrainType
<1>5. DrainAgrees'
  BY <1>4 DEF NoMore, IInv, DrainAgrees
<1> QED
  BY <1>3, <1>5, DrainOnlyKeeps DEF NoMore, DrainOnly, Keep, server, bounds, IInv, Types

(* The next of the list is given up or tried, or the list is left.          *)
LEMMA NextCaptureKeeps ==
  ASSUME CaptureAssumption, IInv, NEW c \in Captures, NextCapture(c)
  PROVE  IInv'
<1>1. drain \in DrainType /\ c \in drain.todo /\ drain.pc = "next" /\ drain.left > 0
      /\ record \in [Captures -> RecordType]
  BY DrainTyped DEF NextCapture, IInv, Types
<1>2. For(c)
  BY <1>1 DEF IInv, DrainAgrees
<1>3. CASE Spent(c)
  <2> DEFINE new == [record[c] EXCEPT !.st = IF Pending(c) THEN "TERMINAL_ERROR" ELSE @]
  <2>1. record' = [record EXCEPT ![c] = new]
    BY <1>3 DEF NextCapture
  <2>2. new \in RecordType /\ new.origin = record[c].origin
        /\ new.st \in {record[c].st, "TERMINAL_ERROR"} /\ (new.st = "none" => record[c].st = "none")
        /\ (new.st # record[c].st => record[c].st = "PENDING")
    BY <1>1 DEF RecordType, Pending
  <2> HIDE DEF new
  <2>3. record' \in [Captures -> RecordType]
        /\ \A d \in Captures : record'[d] = IF d = c THEN new ELSE record[d]
    BY <1>1, <2>1, <2>2
  <2>4. RecordsKeep
    BY <2>2, <2>3 DEF NextCapture, Keep, IInv, Bindings, RecordsKeep, Queue
  <2>5. drain' = [drain EXCEPT !.todo = @ \ {c}]
    BY <1>3 DEF NextCapture
  <2>6. drain' \in DrainType
    BY <1>1, <2>5 DEF DrainType
  <2>7. drain'.pc = "next" /\ drain'.cap = drain.cap /\ drain'.todo \subseteq drain.todo
        /\ drain'.cfg = drain.cfg /\ drain'.watch = drain.watch
    BY <1>1, <2>5 DEF DrainType
  <2>8. \A d \in drain.todo : record'[d].origin = record[d].origin
    BY <2>2, <2>3, DrainTyped
  <2>9. DrainAgrees'
    BY <1>1, <2>7, <2>8 DEF IInv, DrainAgrees, For
  <2>10. StatusIsTrue'
    BY DEF NextCapture, Keep, server, IInv, StatusIsTrue
  <2> QED
    BY <2>4, <2>6, <2>9, <2>10, DrainMovesKeep
       DEF DrainMoves, NextCapture, Keep, server, bounds, IInv, Types
<1>4. CASE ~Spent(c)
  <2>1. CASE drain' = [drain EXCEPT !.pc = AfterCaptures, !.todo = {}, !.left = 0]
    <3>1. AfterCaptures \in {"poll", "end"}
      BY DEF AfterCaptures
    <3>2. drain' \in DrainType
      BY <1>1, <2>1, <3>1 DEF DrainType
    <3>3. drain'.pc \in {"poll", "end"} /\ drain'.todo = {} /\ drain'.cap = drain.cap
          /\ drain'.cfg = drain.cfg /\ drain'.watch = drain.watch
      BY <1>1, <2>1, <3>1 DEF DrainType
    <3>4. DrainAgrees'
      BY <1>1, <3>3 DEF IInv, DrainAgrees
    <3> QED
      BY <1>4, <3>2, <3>4, DrainOnlyKeeps
         DEF NextCapture, DrainOnly, Keep, server, bounds, IInv, Types
  <2>2. CASE drain' = [drain EXCEPT !.pc = "start", !.todo = @ \ {c}, !.cap = c]
    <3>1. drain' \in DrainType
      BY <1>1, <2>2 DEF DrainType
    <3>2. drain'.pc = "start" /\ drain'.todo \subseteq drain.todo /\ drain'.cap = c
          /\ drain'.cfg = drain.cfg /\ drain'.watch = drain.watch /\ drain'.left = drain.left
      BY <1>1, <2>2 DEF DrainType
    <3>3. record' = record /\ c # Nil
      BY <1>4 DEF NextCapture, CaptureAssumption
    <3>4. DrainAgrees'
      BY <1>1, <1>2, <3>2, <3>3 DEF IInv, DrainAgrees, For
    <3> QED
      BY <1>4, <3>1, <3>4, DrainOnlyKeeps
         DEF NextCapture, DrainOnly, Keep, server, bounds, IInv, Types
  <2> QED
    BY <1>4, <2>1, <2>2 DEF NextCapture
<1> QED
  BY <1>3, <1>4

LEMMA TransportFailsKeeps ==
  ASSUME CaptureAssumption, IInv, NEW lost \in BOOLEAN, TransportFails(lost)
  PROVE  IInv'
<1>1. drain \in DrainType /\ drain.pc = "waiting" /\ record' = record
      /\ drain' = [drain EXCEPT !.pc = "checking", !.code = "down"]
  BY DrainTyped DEF TransportFails
<1>2. drain' \in DrainType
  BY <1>1 DEF DrainType, Codes
<1>3. drain'.pc = "checking" /\ drain'.todo = drain.todo /\ drain'.cap = drain.cap
      /\ drain'.cfg = drain.cfg /\ drain'.watch = drain.watch
  BY <1>1 DEF DrainType
<1>4. DrainAgrees'
  BY <1>1, <1>3 DEF IInv, DrainAgrees, For
<1>5. flight' \subseteq flight
  BY DEF TransportFails
<1> QED
  BY <1>2, <1>4, <1>5, DrainOnlyKeeps DEF TransportFails, DrainOnly, Keep, server, bounds, IInv, Types

(* Where a checked connection leads to.                                     *)
LEMMA AfterConnectionAgrees ==
  ASSUME CaptureAssumption, IInv, record' = record, config' = config,
         drain.pc \in {"checking", "storing"},
         drain' = AfterConnection
  PROVE  drain' \in DrainType /\ DrainAgrees'
<1>1. drain \in DrainType /\ RecordsKeep
  BY DrainTyped, SameRecords
<1>2. CASE drain.cap = Nil
  BY <1>1, <1>2, BackAgrees DEF AfterConnection, IInv, DrainAgrees
<1>3. CASE drain.cap # Nil /\ drain.code # "down"
  BY <1>1, <1>3, BackAgrees DEF AfterConnection
<1>4. CASE drain.cap # Nil /\ drain.code = "down"
  <2>1. drain' = [drain EXCEPT !.pc = "recording"]
    BY <1>4 DEF AfterConnection
  <2>2. drain' \in DrainType
    BY <1>1, <2>1 DEF DrainType
  <2>3. drain'.pc = "recording" /\ drain'.todo = drain.todo /\ drain'.cap = drain.cap
        /\ drain'.cfg = drain.cfg /\ drain'.watch = drain.watch
    BY <1>1, <2>1 DEF DrainType
  <2> QED
    BY <1>1, <1>4, <2>2, <2>3 DEF IInv, DrainAgrees, For
<1> QED
  BY <1>2, <1>3, <1>4

LEMMA ConnectionKeeps ==
  ASSUME CaptureAssumption, IInv, CheckConnection \/ StoreConnection
  PROVE  IInv'
<1>1. drain \in DrainType /\ record' = record /\ config' = config
      /\ drain.pc \in {"checking", "storing"}
  BY DrainTyped DEF CheckConnection, StoreConnection, Keep
<1>2. drain' \in DrainType /\ DrainAgrees'
  <2>1. CASE drain' = AfterConnection
    BY <1>1, <2>1, AfterConnectionAgrees
  <2>2. CASE CheckConnection /\ drain' = [drain EXCEPT !.pc = "storing"]
    <3>1. drain' \in DrainType
      BY <1>1, <2>2 DEF DrainType
    <3>2. drain'.pc = "storing" /\ drain'.todo = drain.todo /\ drain'.cap = drain.cap
          /\ drain'.cfg = drain.cfg /\ drain'.watch = drain.watch
      BY <1>1, <2>2 DEF DrainType
    <3> QED
      BY <1>1, <2>2, <3>1, <3>2 DEF CheckConnection, IInv, DrainAgrees, For
  <2> QED
    BY <2>1, <2>2 DEF CheckConnection, StoreConnection
<1>3. connection' \in {"OPEN", "AUTH_REQUIRED"}
  BY DEF CheckConnection, StoreConnection, Stored, IInv, Types
<1>4. DrainOnly
  BY <1>3 DEF CheckConnection, StoreConnection, DrainOnly, Keep, server, bounds, IInv, Types
<1> QED
  BY <1>2, <1>4, DrainOnlyKeeps

LEMMA PollKeeps ==
  ASSUME CaptureAssumption, IInv, NEW e \in drain.watch, NEW code \in {"401", "READY", "down"},
         Poll(e, code)
  PROVE  IInv'
<1>1. drain \in DrainType /\ record' = record /\ drain.pc = "polling" /\ e \in Entries
      /\ ready' = ready /\ e.item \in Nat /\ e.origin = drain.cfg.origin /\ drain.cfg # Nil
  BY DrainTyped DEF Poll, Keep, server, Entries, IInv, DrainAgrees
<1> DEFINE rest == [drain EXCEPT !.watch = @ \ {e}]
<1>2. rest \in DrainType /\ rest.pc = "polling" /\ rest.todo = {} /\ rest.cap = Nil
      /\ rest.cfg = drain.cfg /\ rest.watch \subseteq drain.watch
  BY <1>1 DEF DrainType, IInv, DrainAgrees
<1> HIDE DEF rest
<1>3. CASE drain' = [rest EXCEPT !.pc = "checking", !.code = code]
  <2>1. drain' \in DrainType
    BY <1>2, <1>3 DEF DrainType, Codes
  <2>2. drain'.pc = "checking" /\ drain'.todo = {} /\ drain'.cap = Nil
        /\ drain'.cfg = drain.cfg /\ drain'.watch \subseteq drain.watch
    BY <1>2, <1>3 DEF DrainType
  <2> QED
    BY <2>1, <2>2, DrainOnlyKeeps
       DEF Poll, DrainOnly, Keep, server, bounds, IInv, Types, DrainAgrees
<1>4. CASE code = "READY" /\ drain' = [rest EXCEPT !.pc = "applying", !.item = e.item]
  <2>1. drain' \in DrainType
    BY <1>1, <1>2, <1>4 DEF DrainType
  <2>2. drain'.pc = "applying" /\ drain'.todo = {} /\ drain'.cap = Nil
        /\ drain'.cfg = drain.cfg /\ drain'.watch \subseteq drain.watch /\ drain'.item = e.item
    BY <1>2, <1>4 DEF DrainType
  <2>3. e.item \in ready[drain.cfg.origin]
    BY <1>1, <1>4 DEF Poll
  <2> QED
    BY <1>1, <2>1, <2>2, <2>3, DrainOnlyKeeps
       DEF Poll, DrainOnly, Keep, server, bounds, IInv, Types, DrainAgrees
<1>5. CASE drain' = rest
  BY <1>2, <1>5, DrainOnlyKeeps DEF Poll, DrainOnly, Keep, server, bounds, IInv, Types, DrainAgrees
<1> QED
  BY <1>3, <1>4, <1>5 DEF Poll, rest

LEMMA BeginPollKeeps == ASSUME CaptureAssumption, IInv, BeginPoll PROVE IInv'
<1>1. drain \in DrainType /\ config \in ConfigType /\ drain.todo = {} /\ drain.cap = Nil
      /\ recent \subseteq Entries
  BY DrainTyped DEF BeginPoll, IInv, Types, DrainAgrees
<1>2. CASE drain' = [drain EXCEPT !.pc = "end"]
  <2>1. drain' \in DrainType
    BY <1>1, <1>2 DEF DrainType
  <2>2. drain'.pc = "end" /\ drain'.todo = {} /\ drain'.cap = Nil
        /\ drain'.cfg = drain.cfg /\ drain'.watch = drain.watch
    BY <1>1, <1>2 DEF DrainType
  <2> QED
    BY <2>1, <2>2, DrainOnlyKeeps
       DEF BeginPoll, DrainOnly, Keep, server, bounds, IInv, Types, DrainAgrees
<1> DEFINE watched == {e \in recent : e.origin = Origin /\ ~e.ready}
<1>3. CASE ~Away /\ drain' = [drain EXCEPT !.pc = "polling", !.cfg = config, !.refresh = FALSE,
                                          !.watch = watched]
  <2>1. watched \in SUBSET Entries /\ config # Nil /\ \A e \in watched : e.origin = config.origin
    BY <1>1, <1>3 DEF Away, Origin
  <2> HIDE DEF watched
  <2>2. drain' \in DrainType
    BY <1>1, <1>3, <2>1 DEF DrainType
  <2>3. drain'.pc = "polling" /\ drain'.todo = {} /\ drain'.cap = Nil
        /\ drain'.cfg = config /\ drain'.watch = watched
    BY <1>1, <1>3 DEF DrainType
  <2>4. DrainAgrees'
    BY <2>1, <2>3 DEF DrainAgrees
  <2> QED
    BY <2>2, <2>4, DrainOnlyKeeps DEF BeginPoll, DrainOnly, Keep, server, bounds, IInv, Types
<1> QED
  BY <1>2, <1>3 DEF BeginPoll

(* A status is applied only while its server is the configured one.         *)
LEMMA ApplyStatusKeeps == ASSUME CaptureAssumption, IInv, ApplyStatus PROVE IInv'
<1>1. drain' = Back("polling") /\ drain.todo = {} /\ record' = record /\ config' = config
      /\ drain.cfg # Nil /\ drain.item \in ready[drain.cfg.origin] /\ ready' = ready
  BY DEF ApplyStatus, server, IInv, DrainAgrees
<1>2. RecordsKeep
  BY <1>1, SameRecords
<1>3. drain' \in DrainType /\ DrainAgrees'
  BY <1>1, <1>2, BackAgrees
<1>4. recent' \subseteq Entries /\ StatusIsTrue'
  <2> DEFINE told(e) == IF Same(e) THEN [e EXCEPT !.ready = TRUE] ELSE e
  <2>1. ASSUME NEW e \in recent
        PROVE  told(e) \in Entries /\ (told(e).ready => told(e).item \in ready[told(e).origin])
    <3>1. e \in Entries /\ (e.ready => e.item \in ready[e.origin])
      BY DEF IInv, Types, StatusIsTrue
    <3>2. CASE Same(e)
      <4>1. told(e) = [e EXCEPT !.ready = TRUE]
        BY <3>2
      <4>2. told(e) \in Entries /\ told(e).item = e.item /\ told(e).origin = e.origin
        BY <3>1, <4>1 DEF Entries
      <4> QED
        BY <1>1, <3>2, <4>2 DEF Same
    <3>3. CASE ~Same(e)
      BY <3>1, <3>3
    <3> QED
      BY <3>2, <3>3
  <2>2. recent' = recent \/ recent' = {told(e) : e \in recent}
    BY DEF ApplyStatus
  <2> HIDE DEF told
  <2> QED
    BY <1>1, <2>1, <2>2 DEF IInv, Types, StatusIsTrue
<1> QED
  BY <1>2, <1>3, <1>4, DrainMovesKeep DEF ApplyStatus, DrainMoves, server, bounds, IInv, Types

LEMMA EndKeeps == ASSUME CaptureAssumption, IInv, End PROVE IInv'
<1>1. RecordsKeep /\ AttemptsKeep
  BY SameRecords DEF End
<1>2. alarm' \in BOOLEAN
  BY AlarmIsBoolean DEF End
<1> QED
  BY <1>1, <1>2, OutsideKeeps DEF End, Outside, server, bounds, IInv, Types

(* One record changes, of a capture that waits in the queue.                *)
LEMMA OneRecord ==
  ASSUME CaptureAssumption, IInv, NEW c \in Captures, NEW new \in RecordType,
         record' = [record EXCEPT ![c] = new], config' = config,
         new.origin = record[c].origin, record[c].origin # Nil, new.st # "none",
         new.st # "gone" \/ \E s \in Servers : Ids(s, c) # {}
  PROVE  /\ RecordsKeep
         /\ \A d \in Captures : record'[d] = IF d = c THEN new ELSE record[d]
<1>1. /\ record' \in [Captures -> RecordType]
      /\ \A d \in Captures : record'[d] = IF d = c THEN new ELSE record[d]
  BY DEF IInv, Types
<1> QED
  BY <1>1 DEF IInv, Bindings, RecordsKeep, Queue

LEMMA AtWork ==
  ASSUME CaptureAssumption, IInv, drain.cap # Nil
  PROVE  /\ drain.cap \in Captures /\ drain.cfg # Nil /\ drain.cfg.origin \in Servers
         /\ drain.cfg.token \in Tokens
         /\ record[drain.cap] \in RecordType /\ record[drain.cap].origin = drain.cfg.origin
         /\ record[drain.cap].origin # Nil /\ record[drain.cap].st # "none"
<1>1. drain.cap \in Captures /\ drain.cfg \in ConfigType /\ For(drain.cap)
  BY DrainTyped DEF IInv, DrainAgrees
<1> QED
  BY <1>1 DEF CaptureAssumption, ConfigType, For, IInv, Types, Bindings

LEMMA StartAttemptKeeps == ASSUME CaptureAssumption, IInv, StartAttempt PROVE IInv'
<1> DEFINE c == drain.cap
           n == record[c].attempts + 1
           new == [record[c] EXCEPT !.attempts = n, !.waits = FALSE]
           sent == [cap |-> c, try |-> n, origin |-> drain.cfg.origin,
                    token |-> drain.cfg.token, looked |-> FALSE]
<1>1. drain \in DrainType /\ drain.pc = "start" /\ c # Nil /\ drain.left > 0 /\ drain.left \in Nat
      /\ config' = config
  BY DrainTyped DEF StartAttempt, Keep, IInv, DrainAgrees
<1>2. /\ c \in Captures /\ drain.cfg.origin \in Servers /\ drain.cfg.token \in Tokens
      /\ record[c] \in RecordType /\ record[c].origin = drain.cfg.origin
      /\ record[c].origin # Nil
  BY <1>1, AtWork
<1>3. CASE record' = record /\ flight' = flight /\ drain' = Back("next")
  <2>1. RecordsKeep
    BY <1>1, <1>3, SameRecords
  <2>2. drain' \in DrainType /\ DrainAgrees'
    BY <1>3, <2>1, BackAgrees
  <2> QED
    BY <1>3, <2>2, DrainOnlyKeeps DEF StartAttempt, DrainOnly, Keep, server, bounds, IInv, Types
<1>4. CASE /\ Pending(c) /\ ~Spent(c)
           /\ record' = [record EXCEPT ![c].attempts = n, ![c].waits = FALSE]
           /\ flight' = flight \cup {sent}
           /\ drain' = [drain EXCEPT !.pc = "waiting", !.try = n, !.left = @ - 1]
  <2>1. MaxAttempts \in Nat /\ record[c].attempts \in Nat /\ record[c].attempts < MaxAttempts
    <3>1. MaxAttempts \in Nat
      BY DEF CaptureAssumption
    <3>2. record[c].attempts \in 0..MaxAttempts
      BY <1>2 DEF RecordType
    <3> QED
      BY <1>4, <3>1, <3>2 DEF Spent
  <2>2. n \in 1..MaxAttempts /\ n >= 1 /\ n \in 0..MaxAttempts /\ drain.left - 1 \in Nat
    BY <1>1, <2>1
  <2>3. record' = [record EXCEPT ![c] = new]
    BY <1>4
  <2>4. new \in RecordType /\ new.origin = record[c].origin /\ new.st = "PENDING"
        /\ new.attempts = n
    <3> HIDE DEF n
    <3> QED
      BY <1>2, <1>4, <2>2 DEF RecordType, Pending
  <2>5. sent \in FlightType
    BY <1>2, <2>2 DEF FlightType
  <2>6. sent.cap = c /\ sent.origin = drain.cfg.origin
    OBVIOUS
  <2>7. drain' \in DrainType
    <3> HIDE DEF n
    <3> QED
      BY <1>1, <1>4, <2>2 DEF DrainType
  <2>8. drain'.pc = "waiting" /\ drain'.try = n /\ drain'.cap = c /\ drain'.todo = drain.todo
        /\ drain'.cfg = drain.cfg /\ drain'.watch = drain.watch
    BY <1>1, <1>4 DEF DrainType
  <2>9. flight' = flight \cup {sent}
    BY <1>4
  <2> HIDE DEF new, n, c, sent
  <2>10. RecordsKeep /\ \A d \in Captures : record'[d] = IF d = c THEN new ELSE record[d]
    BY <1>1, <1>2, <2>3, <2>4, OneRecord
  <2>11. \A d \in Captures : For(d) => For(d)'
    BY <1>2, <2>4, <2>8, <2>10 DEF For
  <2>12. record'[c].attempts = n /\ drain.todo \subseteq Captures
    BY <1>2, <2>4, <2>10, DrainTyped
  <2>13. For(c)
    BY <1>1, DrainTyped DEF c, IInv, DrainAgrees
  <2>14. DrainAgrees'
    BY <1>1, <1>2, <2>2, <2>8, <2>11, <2>12, <2>13 DEF IInv, DrainAgrees
  <2>15. CopiesAgree' /\ GoneSaved'
    <3>1. items' = items /\ discarded' = discarded
      BY DEF StartAttempt, Keep, server, bounds
    <3>2. CopiesAgree'
      <4>1. \A s \in Servers : \A m \in DOMAIN items[s] : items[s][m] \in Captures
        BY DEF IInv, Types
      <4>2. \A s \in Servers : s # Nil
        BY DEF CaptureAssumption
      <4>3. \A d \in Captures : record[d].origin # Nil => record'[d].origin = record[d].origin
        BY <2>10 DEF RecordsKeep
      <4> QED
        BY <3>1, <4>1, <4>2, <4>3 DEF IInv, CopiesAgree
    <3> QED
      BY <2>10, <3>1, <3>2 DEF IInv, RecordsKeep, GoneSaved, Ids
  <2>16. FlightsAgree'
    <3>1. \A r \in flight : r.cap \in Captures /\ r.origin # Nil
      BY DEF CaptureAssumption, IInv, Types, FlightType
    <3>2. record'[sent.cap].origin = sent.origin
      BY <1>2, <2>4, <2>6, <2>10
    <3> QED
      BY <2>9, <2>10, <3>1, <3>2 DEF IInv, RecordsKeep, FlightsAgree
  <2>17. Types'
    BY <2>5, <2>7, <2>9, <2>10 DEF StartAttempt, Keep, server, bounds, IInv, Types, RecordsKeep
  <2>18. StatusIsTrue'
    BY DEF StartAttempt, Keep, server, IInv, StatusIsTrue
  <2> QED
    BY <2>10, <2>14, <2>15, <2>16, <2>17, <2>18 DEF RecordsKeep, IInv
<1> QED
  BY <1>3, <1>4 DEF StartAttempt

(* A capture is let go when its server has it.                              *)
LEMMA PersistAcceptedKeeps == ASSUME CaptureAssumption, IInv, PersistAccepted PROVE IInv'
<1> DEFINE c == drain.cap
           new == [record[c] EXCEPT !.st = "gone"]
           entry == [item |-> drain.item, origin |-> record[c].origin, ready |-> FALSE]
<1>1. drain \in DrainType /\ drain.pc = "answered" /\ drain.code = "202" /\ c # Nil
      /\ config' = config /\ drain.item \in Nat
  BY DrainTyped DEF PersistAccepted, IInv, DrainAgrees, DrainType
<1>2. /\ c \in Captures /\ drain.cfg.origin \in Servers
      /\ record[c] \in RecordType /\ record[c].origin = drain.cfg.origin
      /\ record[c].origin # Nil
  BY <1>1, AtWork
<1>3. Ids(drain.cfg.origin, c) # {}
  BY <1>1 DEF IInv, DrainAgrees
<1>4. record' = [record EXCEPT ![c] = new]
  BY <1>2 DEF PersistAccepted, IInv, Types, RecordType
<1>5. new \in RecordType /\ new.origin = record[c].origin /\ new.st = "gone"
  BY <1>2 DEF RecordType
<1>6. entry \in Entries /\ ~entry.ready
  BY <1>1, <1>2 DEF Entries
<1>7. recent' \subseteq recent \cup {entry} /\ ready' = ready
  BY DEF PersistAccepted, server
<1>8. drain' = Back("next")
  BY DEF PersistAccepted
<1> HIDE DEF new, c, entry
<1>9. RecordsKeep
  BY <1>1, <1>2, <1>3, <1>4, <1>5, OneRecord
<1>10. drain' \in DrainType /\ DrainAgrees'
  BY <1>8, <1>9, BackAgrees
<1>11. recent' \subseteq Entries /\ StatusIsTrue'
  BY <1>6, <1>7 DEF IInv, Types, StatusIsTrue
<1> QED
  BY <1>9, <1>10, <1>11, DrainMovesKeep DEF PersistAccepted, DrainMoves, server, bounds, IInv, Types

(* What a failed attempt leaves of the record.                              *)
LEMMA UpdateKeeps ==
  ASSUME CaptureAssumption, IInv, drain.cap # Nil, NEW new \in RecordType, Update(new),
         config' = config, new.origin = record[drain.cap].origin, new.st \notin {"none", "gone"}
  PROVE  RecordsKeep
<1>1. /\ drain.cap \in Captures /\ record[drain.cap].origin # Nil
  BY AtWork
<1>2. CASE record' = record
  BY <1>2, SameRecords
<1>3. CASE record' = [record EXCEPT ![drain.cap] = new]
  BY <1>1, <1>3, OneRecord
<1> QED
  BY <1>2, <1>3 DEF Update

LEMMA FailedRecords ==
  ASSUME NEW r \in RecordType
  PROVE  /\ Later(r) \in RecordType /\ Later(r).origin = r.origin /\ Later(r).st = r.st
         /\ Terminal(r) \in RecordType /\ Terminal(r).origin = r.origin
         /\ Terminal(r).st = "TERMINAL_ERROR"
  BY DEF Later, Terminal, RecordType

LEMMA RecordTransportFailureKeeps ==
  ASSUME CaptureAssumption, IInv, RecordTransportFailure
  PROVE  IInv'
<1>1. drain.cap # Nil /\ config' = config /\ drain' = Back("next")
  BY DEF RecordTransportFailure, Keep, IInv, DrainAgrees
<1> DEFINE r == record[drain.cap]
           new == IF Exhausted THEN Terminal(r) ELSE Later(r)
<1>2. r \in RecordType /\ r.st # "none"
  BY <1>1, AtWork
<1>3. Update(new) /\ new \in RecordType /\ new.origin = r.origin /\ new.st \in {r.st, "TERMINAL_ERROR"}
  BY <1>2, FailedRecords DEF RecordTransportFailure
<1>4. RecordsKeep
  <2>1. CASE drain.cap \notin Queue
    BY <1>1, <1>3, <2>1, SameRecords DEF Update
  <2>2. CASE drain.cap \in Queue
    BY <1>1, <1>2, <1>3, <2>2, UpdateKeeps DEF Queue
  <2> QED
    BY <2>1, <2>2
<1>5. drain' \in DrainType /\ DrainAgrees'
  BY <1>1, <1>4, BackAgrees
<1>6. StatusIsTrue'
  BY DEF RecordTransportFailure, Keep, server, IInv, StatusIsTrue
<1> QED
  BY <1>4, <1>5, <1>6, DrainMovesKeep
     DEF RecordTransportFailure, DrainMoves, Keep, server, bounds, IInv, Types

(* A refused token gives the counted attempt back.                          *)
LEMMA RecordHttpFailureKeeps ==
  ASSUME CaptureAssumption, IInv, RecordHttpFailure
  PROVE  IInv'
<1> DEFINE r == record[drain.cap]
           back == [r EXCEPT !.attempts = @ - 1]
           new == CASE drain.code = "401" -> back
                    [] drain.code = "5xx" /\ ~Exhausted -> Later(r)
                    [] OTHER -> Terminal(r)
<1>1. drain.cap # Nil /\ config' = config /\ drain.pc = "answered" /\ drain \in DrainType
  BY DrainTyped DEF RecordHttpFailure, Keep, IInv, DrainAgrees
<1>2. r \in RecordType /\ r.st # "none"
  BY <1>1, AtWork
<1>3. back \in RecordType /\ back.origin = r.origin /\ back.st = r.st
  <2>1. MaxAttempts \in Nat /\ r.attempts \in 0..MaxAttempts
    BY <1>2 DEF CaptureAssumption, RecordType
  <2>2. r.attempts >= 1
    BY <1>1 DEF IInv, DrainAgrees
  <2>3. r.attempts - 1 \in 0..MaxAttempts
    BY <2>1, <2>2
  <2> QED
    BY <1>2, <2>3 DEF RecordType
<1>4. Update(new)
  BY DEF RecordHttpFailure
<1> HIDE DEF back
<1>5. new \in RecordType /\ new.origin = r.origin /\ new.st \in {r.st, "TERMINAL_ERROR"}
  <2>1. new = back \/ new = Later(r) \/ new = Terminal(r)
    OBVIOUS
  <2> HIDE DEF new
  <2> QED
    BY <1>2, <1>3, <2>1, FailedRecords
<1> HIDE DEF new
<1>6. RecordsKeep
  <2>1. CASE drain.cap \notin Queue
    BY <1>1, <1>4, <2>1, SameRecords DEF Update
  <2>2. CASE drain.cap \in Queue
    BY <1>1, <1>2, <1>4, <1>5, <2>2, UpdateKeeps DEF Queue
  <2> QED
    BY <2>1, <2>2
<1>7. drain' \in DrainType /\ DrainAgrees'
  <2>1. CASE drain' = Back("next")
    BY <1>6, <2>1, BackAgrees
  <2>2. CASE drain' = [drain EXCEPT !.pc = "checking"]
    <3>1. drain' \in DrainType
      BY <1>1, <2>2 DEF DrainType
    <3>2. drain'.pc = "checking" /\ drain'.todo = drain.todo /\ drain'.cap = drain.cap
          /\ drain'.cfg = drain.cfg /\ drain'.watch = drain.watch
      BY <1>1, <2>2 DEF DrainType
    <3>3. \A c \in Captures : For(c) => For(c)'
      <4>1. drain.cfg # Nil => drain.cfg.origin # Nil
        BY DrainTyped DEF CaptureAssumption, ConfigType
      <4>2. \A c \in Captures : record[c].origin # Nil => record'[c].origin = record[c].origin
        BY <1>6 DEF RecordsKeep
      <4> QED
        BY <3>2, <4>1, <4>2 DEF For
    <3> QED
      BY <1>1, <3>1, <3>2, <3>3, DrainTyped DEF IInv, DrainAgrees
  <2> QED
    BY <2>1, <2>2 DEF RecordHttpFailure
<1>8. StatusIsTrue'
  BY DEF RecordHttpFailure, Keep, server, IInv, StatusIsTrue
<1> QED
  BY <1>6, <1>7, <1>8, DrainMovesKeep
     DEF RecordHttpFailure, DrainMoves, Keep, server, bounds, IInv, Types

-----------------------------------------------------------------------------
(* The servers.                                                            *)
LEMMA AnswerKeeps ==
  ASSUME CaptureAssumption, IInv, NEW r \in flight, NEW code \in Codes, NEW id \in Nat,
         Answer(r, code, id), record' = record, config' = config, ready' = ready,
         code = "202" => Ids(r.origin, r.cap)' # {},
         \A s \in Servers, c \in Captures : Ids(s, c) \subseteq Ids(s, c)'
  PROVE  flight' \subseteq flight /\ drain' \in DrainType /\ DrainAgrees'
<1>1. drain \in DrainType
  BY DrainTyped
<1>2. flight' \subseteq flight
  BY DEF Answer
<1>3. CASE drain' = drain
  <2>1. RecordsKeep /\ AttemptsKeep
    BY SameRecords
  <2>2. DrainAgrees'
    BY <1>3, <2>1, DrainKept
  <2> QED
    BY <1>1, <1>2, <1>3, <2>2
<1>4. CASE /\ drain.pc = "waiting" /\ drain.cap = r.cap /\ drain.try = r.try
           /\ drain' = [drain EXCEPT !.pc = "answered", !.code = code, !.item = id]
  <2>1. drain' \in DrainType
    BY <1>1, <1>4 DEF DrainType
  <2>2. drain'.pc = "answered" /\ drain'.code = code /\ drain'.todo = drain.todo
        /\ drain'.cap = drain.cap /\ drain'.try = drain.try
        /\ drain'.cfg = drain.cfg /\ drain'.watch = drain.watch
    BY <1>1, <1>4 DEF DrainType
  <2>3. drain.cap # Nil
    BY <1>4 DEF IInv, DrainAgrees
  <2>4. r.origin = drain.cfg.origin
    BY <1>4, <2>3, AtWork DEF IInv, FlightsAgree
  <2>5. code = "202" => Ids(drain.cfg.origin, drain.cap)' # {}
    BY <1>4, <2>2, <2>4 DEF Ids
  <2>6. \A c : For(c) => For(c)'
    BY <2>2 DEF For
  <2> QED
    BY <1>2, <1>4, <2>1, <2>2, <2>3, <2>5, <2>6 DEF IInv, DrainAgrees
<1> QED
  BY <1>2, <1>3, <1>4 DEF Answer

(* An answer that leaves the Items alone.                                   *)
LEMMA OldAnswerKeeps ==
  ASSUME CaptureAssumption, IInv, NEW r \in flight, NEW code \in Codes, NEW id \in Nat,
         Answer(r, code, id), UNCHANGED server, OnlyServer,
         code = "202" => Ids(r.origin, r.cap) # {}
  PROVE  IInv'
<1>1. flight' \subseteq flight /\ drain' \in DrainType /\ DrainAgrees'
  BY AnswerKeeps DEF OnlyServer, stored, server, Ids
<1> QED
  BY <1>1, DrainOnlyKeeps DEF OnlyServer, stored, bounds, server, DrainOnly, IInv, Types

LEMMA SavedIds ==
  ASSUME IInv, NEW r \in flight
  PROVE  /\ r \in FlightType /\ r.cap \in Captures /\ r.origin \in Servers
         /\ Ids(r.origin, r.cap) \subseteq Nat /\ items[r.origin] \in Seq(Captures)
  BY DEF IInv, Types, FlightType, Ids

LEMMA LookupKeeps ==
  ASSUME CaptureAssumption, IInv, NEW r \in flight, Lookup(r)
  PROVE  IInv'
<1>1. CASE \E id \in Ids(r.origin, r.cap) : Answer(r, "202", id)
  BY <1>1, SavedIds, OldAnswerKeeps DEF Lookup, Codes
<1>2. CASE /\ flight' = (flight \ {r}) \cup {[r EXCEPT !.looked = TRUE]} /\ drain' = drain
           /\ UNCHANGED server /\ OnlyServer
  <2>1. [r EXCEPT !.looked = TRUE] \in FlightType /\ [r EXCEPT !.looked = TRUE].cap = r.cap
        /\ [r EXCEPT !.looked = TRUE].origin = r.origin
    BY SavedIds DEF FlightType
  <2>2. RecordsKeep /\ AttemptsKeep
    BY <1>2, SameRecords DEF OnlyServer, stored
  <2>3. DrainAgrees'
    BY <1>2, <2>2, DrainKept DEF server, Ids
  <2>4. FlightsAgree'
    BY <1>2, <2>1 DEF OnlyServer, stored, IInv, FlightsAgree
  <2>5. CopiesAgree' /\ GoneSaved' /\ StatusIsTrue'
    BY <1>2 DEF OnlyServer, stored, server, bounds, IInv, CopiesAgree, GoneSaved, StatusIsTrue, Ids
  <2>6. Types'
    BY <1>2, <2>1 DEF OnlyServer, stored, server, bounds, IInv, Types
  <2> QED
    BY <2>2, <2>3, <2>4, <2>5, <2>6 DEF RecordsKeep, IInv
<1> QED
  BY <1>1, <1>2 DEF Lookup

(* The unique index: a capture is appended only where it is not.            *)
LEMMA InsertKeeps ==
  ASSUME CaptureAssumption, IInv, NEW r \in flight, Insert(r)
  PROVE  IInv'
<1> DEFINE s == r.origin
           c == r.cap
<1>1. /\ s \in Servers /\ c \in Captures /\ items[s] \in Seq(Captures)
      /\ items \in [Servers -> Seq(Captures)] /\ record[c].origin = s
  BY SavedIds DEF IInv, Types, FlightsAgree
<1>2. CASE \E id \in Ids(s, c) : Answer(r, "202", id) /\ items' = items
  BY <1>2, SavedIds, OldAnswerKeeps DEF Insert, Codes, server
<1>3. CASE /\ Ids(s, c) = {} /\ items' = [items EXCEPT ![s] = Append(@, c)]
           /\ Answer(r, "202", Len(items[s]) + 1)
  <2> HIDE DEF s, c
  <2>1. items' \in [Servers -> Seq(Captures)] /\ items'[s] = Append(items[s], c)
        /\ \A t \in Servers : t # s => items'[t] = items[t]
    BY <1>1, <1>3
  <2>2. /\ DOMAIN items[s] = 1..Len(items[s]) /\ Len(items[s]) \in Nat
        /\ DOMAIN items'[s] = 1..(Len(items[s]) + 1) /\ items'[s][Len(items[s]) + 1] = c
        /\ \A n \in 1..Len(items[s]) : items'[s][n] = items[s][n]
    BY <1>1, <2>1
  <2>3. \A t \in Servers, d \in Captures : Ids(t, d) \subseteq Ids(t, d)'
    BY <2>1, <2>2 DEF Ids
  <2>4. Len(items[s]) + 1 \in {n \in DOMAIN items'[s] : items'[s][n] = c}
    BY <2>2
  <2>5. Ids(r.origin, r.cap)' # {}
    <3>1. Len(items[s]) + 1 \in Ids(s, c)'
      BY <2>4 DEF Ids, s, c
    <3> QED
      BY <3>1 DEF s, c
  <2>6. record' = record /\ config' = config /\ ready' = ready
    BY DEF Insert, OnlyServer, stored
  <2>7. flight' \subseteq flight /\ drain' \in DrainType /\ DrainAgrees'
    <3>1. Answer(r, "202", Len(items[s]) + 1) /\ "202" \in Codes /\ Len(items[s]) + 1 \in Nat
      BY <1>3, <2>2 DEF Codes
    <3> QED
      BY <2>3, <2>5, <2>6, <3>1, AnswerKeeps
  <2>8. CopiesAgree'
    <3>1. \A n \in DOMAIN items[s] : items[s][n] # c
      BY <1>3 DEF Ids
    <3>2. \A n \in DOMAIN items'[s] : record[items'[s][n]].origin = s
      BY <1>1, <2>2 DEF IInv, CopiesAgree
    <3>3. \A m, n \in DOMAIN items'[s] : items'[s][m] = items'[s][n] => m = n
      BY <1>1, <2>2, <3>1 DEF IInv, CopiesAgree
    <3> QED
      BY <2>1, <2>6, <3>2, <3>3 DEF IInv, CopiesAgree
  <2>9. FlightsAgree' /\ StatusIsTrue'
    BY <2>6, <2>7 DEF Insert, OnlyServer, stored, IInv, FlightsAgree, StatusIsTrue
  <2>10. GoneSaved' /\ Bindings'
    <3>1. \A d \in Captures : (\E t \in Servers : Ids(t, d) # {}) => (\E t \in Servers : Ids(t, d)' # {})
      BY <2>3
    <3> QED
      BY <2>6, <3>1 DEF Insert, OnlyServer, bounds, IInv, GoneSaved, Bindings, Queue, Ids
  <2>11. Types'
    BY <2>1, <2>6, <2>7 DEF Insert, OnlyServer, stored, bounds, IInv, Types
  <2> QED
    BY <2>7, <2>8, <2>9, <2>10, <2>11 DEF IInv
<1> QED
  BY <1>2, <1>3 DEF Insert

LEMMA ServerKeeps ==
  ASSUME CaptureAssumption, IInv, NEW r \in flight, Server(r)
  PROVE  IInv'
<1>1. CASE Unauthorized(r) \/ Invalid(r) \/ Unavailable(r)
  BY <1>1, OldAnswerKeeps DEF Unauthorized, Invalid, Unavailable, Codes
<1> QED
  BY <1>1, LookupKeeps, InsertKeeps DEF Server

LEMMA ProcessKeeps ==
  ASSUME CaptureAssumption, IInv, NEW s \in Servers, NEW n \in Nat, Process(s, n)
  PROVE  IInv'
<1>1. ready' \in [Servers -> SUBSET Nat] /\ \A t \in Servers : ready[t] \subseteq ready'[t]
  BY DEF Process, IInv, Types
<1>2. UNCHANGED <<record, config, connection, recent, alarm, work, drain, acts, flight, items,
                  discarded>>
  BY DEF Process, OnlyServer, stored, bounds
<1>3. RecordsKeep /\ AttemptsKeep
  BY <1>2, SameRecords
<1>4. DrainAgrees'
  BY <1>1, <1>2, <1>3, DrainKept DEF Ids
<1>5. FlightsAgree' /\ CopiesAgree' /\ GoneSaved'
  BY <1>2, <1>3, RecordsKept
<1>6. StatusIsTrue'
  BY <1>1, <1>2 DEF IInv, Types, Entries, StatusIsTrue
<1>7. Types'
  BY <1>1, <1>2 DEF IInv, Types
<1> QED
  BY <1>3, <1>4, <1>5, <1>6, <1>7 DEF RecordsKeep, IInv

-----------------------------------------------------------------------------
LEMMA StepInvariant == ASSUME CaptureAssumption, IInv, [Next]_vars PROVE IInv'
<1>1. CASE User
  BY <1>1, SaveKeeps, DiscardKeeps, SaveConfigKeeps, UserKeeps DEF User
<1>2. CASE Drain
  <2>1. CASE Begin \/ NoMore \/ StartAttempt \/ \E c \in Captures : NextCapture(c)
    BY <2>1, BeginKeeps, NoMoreKeeps, StartAttemptKeeps, NextCaptureKeeps
  <2>2. CASE \/ PersistAccepted \/ RecordHttpFailure \/ RecordTransportFailure
             \/ \E lost \in BOOLEAN : TransportFails(lost)
    BY <2>2, PersistAcceptedKeeps, RecordHttpFailureKeeps, RecordTransportFailureKeeps,
       TransportFailsKeeps
  <2>3. CASE \/ CheckConnection \/ StoreConnection \/ BeginPoll \/ ApplyStatus \/ End
             \/ \E e \in drain.watch, code \in {"401", "READY", "down"} : Poll(e, code)
    BY <2>3, ConnectionKeeps, BeginPollKeeps, ApplyStatusKeeps, EndKeeps, PollKeeps
  <2> QED
    BY <1>2, <2>1, <2>2, <2>3 DEF Drain
<1>3. CASE \E s \in Servers, n \in 1..Cardinality(Captures) : Process(s, n)
  <2>1. PICK s \in Servers, n \in 1..Cardinality(Captures) : Process(s, n)
    BY <1>3
  <2>2. n \in Nat
    BY <2>1 DEF Process, IInv, Types
  <2> QED
    BY <2>1, <2>2, ProcessKeeps
<1>4. CASE UNCHANGED vars
  BY <1>4 DEF vars, IInv, Types, Bindings, DrainAgrees, FlightsAgree, CopiesAgree, GoneSaved,
              StatusIsTrue, For, Ids, Queue
<1>5. CASE AlarmFires \/ Kill \/ \E drains \in BOOLEAN : Start(drains)
  BY <1>5, WakeKeeps
<1>6. CASE Test \/ (\E c \in Captures : TimePasses(c)) \/ \E r \in flight : Server(r)
  BY <1>6, TestKeeps, TimeKeeps, ServerKeeps
<1> QED
  BY <1>1, <1>2, <1>3, <1>4, <1>5, <1>6 DEF Next

(* The invariant that the theorems below rest on.                           *)
THEOREM Invariance == ASSUME CaptureAssumption PROVE Spec => []IInv
  BY InitInvariant, StepInvariant, PTL DEF Spec

(* The queue, the configuration, the drain and the requests on their way    *)
(* keep their types; no attempt is counted beyond MAX_AUTOMATIC_ATTEMPTS.   *)
THEOREM TypeCorrect == ASSUME CaptureAssumption PROVE Spec => []TypeOK
<1>1. IInv => TypeOK
  <2>1. IInv => /\ drain.pc \in {"idle", "off", "next", "start", "waiting", "answered", "checking",
                                 "storing", "recording", "poll", "polling", "applying", "end"}
                /\ drain.todo \subseteq Captures /\ drain.cap \in Captures \cup {Nil}
                /\ drain.pc \in {"start", "waiting", "answered", "recording"} => drain.cap # Nil
    BY DEF IInv, Types, DrainType, DrainAgrees
  <2>2. IInv => \A r \in flight : r.cap \in Captures /\ r.try \in 1..MaxAttempts
    BY DEF IInv, Types, FlightType
  <2> QED
    BY <2>1, <2>2 DEF IInv, Types, RecordType, ConfigType, TypeOK
<1> QED
  BY <1>1, Invariance, PTL

(* What the user saved is one Item of one server: never two, and never none *)
(* once the queue let it go (persistAccepted and the unique index behind    *)
(* create_item), whatever was lost, stopped or reconfigured.                *)
THEOREM SavedOnce == ASSUME CaptureAssumption PROVE Spec => []ExactlyOneItem
<1>1. ASSUME IInv, NEW c \in Captures
      PROVE  /\ Cardinality(Copies(c)) <= 1
             /\ record[c].st = "gone" => c \in discarded \/ Copies(c) # {}
  <2>1. \A p, q \in Copies(c) : p = q
    <3>1. SUFFICES ASSUME NEW s \in Servers, NEW t \in Servers,
                          NEW m \in Ids(s, c), NEW n \in Ids(t, c)
                   PROVE  s = t /\ m = n
      BY DEF Copies
    <3>2. s = t
      BY <1>1 DEF IInv, CopiesAgree, Ids
    <3> QED
      BY <1>1, <3>2 DEF IInv, CopiesAgree, Ids
  <2>2. Cardinality(Copies(c)) <= 1
    <3>1. CASE Copies(c) = {}
      BY <3>1, FS_EmptySet
    <3>2. CASE \E p : p \in Copies(c)
      <4>1. PICK p : p \in Copies(c)
        BY <3>2
      <4>2. Copies(c) = {p}
        BY <2>1, <4>1
      <4> QED
        BY <4>2, FS_Singleton
    <3> QED
      BY <3>1, <3>2
  <2>3. \A s \in Servers : Ids(s, c) # {} => Copies(c) # {}
    <3>1. \A s \in Servers : \A n \in Ids(s, c) : <<s, n>> \in Copies(c)
      BY DEF Copies
    <3> QED
      BY <3>1
  <2> QED
    BY <1>1, <2>2, <2>3 DEF IInv, GoneSaved
<1>2. IInv => ExactlyOneItem
  BY <1>1 DEF ExactlyOneItem
<1> QED
  BY <1>2, Invariance, PTL

(* What the popup says of an Item was said by the server of that Item, also *)
(* when another server uses the same id (applyPollingStatus).               *)
THEOREM StatusCorrect == ASSUME CaptureAssumption PROVE Spec => []StatusIsTrue
  BY Invariance, PTL DEF IInv
=============================================================================
