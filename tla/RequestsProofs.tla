--------------------------- MODULE RequestsProofs ---------------------------
(***************************************************************************)
(* Theorems about what the user asks of the program: the profile updates,  *)
(* the settings and the questions of Requests, each by an inductive        *)
(* invariant of its own, and then all of Requests, with the exports, whose *)
(* theorems are in ExportJobsProofs.                                       *)
(*                                                                         *)
(* P, S and A are the instances of ProfileJobs, Settings and AskJobs that  *)
(* Requests declares; a name with their prefix is theirs.                  *)
(***************************************************************************)
EXTENDS Requests, FiniteSetTheorems, TLAPS

-----------------------------------------------------------------------------
(* Profile updates: for any jobs, workers, readers and deaths, a job in     *)
(* progress has one worker, an edit of a scalar field is lost only to a     *)
(* later edit of that field or to the seed, and an update has one outcome,  *)
(* its notice in the same commit.                                           *)

ProfilePcs == {"idle", "claimed", "seeding", "asking", "patch", "error"}
ProfileWorkerType == [pc : ProfilePcs, job : Jobs \cup {Nil}, seen : [P!Fields -> P!Authors]]

ProfileTypes == /\ profileJob \in [Jobs -> P!Statuses]
                /\ profile \in {P!Null} \cup [P!Fields -> P!Authors]
                /\ notice \subseteq Jobs
                /\ worker \in [Workers -> ProfileWorkerType]
                /\ reader \in [Readers -> {"idle", "seeding"}]
                /\ crashes \in 0..MaxRestarts

(* A busy worker has a job in progress that no other worker has.            *)
ProfileBusy(w) == worker[w].pc # "idle"
ProfileOwned ==
    \A w \in Workers : ProfileBusy(w) => worker[w].job \in Jobs /\ profileJob[worker[w].job] = "RUNNING"
ProfileApart ==
    \A v, w \in Workers : ProfileBusy(v) /\ ProfileBusy(w) /\ worker[v].job = worker[w].job => v = w

(* The notice of an update tells that it was applied.                       *)
ProfileNoticesTold == \A j \in Jobs : j \in notice <=> profileJob[j] = "DONE"

ProfileIInv == ProfileTypes /\ ProfileOwned /\ ProfileApart /\ ProfileNoticesTold

-----------------------------------------------------------------------------
LEMMA ProfileProfiles ==
  /\ P!Default \in [P!Fields -> P!Authors] /\ P!Seeded \in [P!Fields -> P!Authors]
  BY DEF P!Default, P!Seeded, P!Authors, P!Absent, P!Seed

LEMMA ProfileIdleTyped == P!Idle \in ProfileWorkerType /\ P!Idle.pc = "idle"
  BY ProfileProfiles DEF P!Idle, ProfileWorkerType, ProfilePcs

LEMMA ProfileInitInvariant == ASSUME P!ProfileAssumption, P!Init PROVE ProfileIInv
<1>1. ProfileTypes
  <2>1. crashes \in 0..MaxRestarts
    BY DEF P!Init, P!ProfileAssumption
  <2>2. profile \in {P!Null} \cup [P!Fields -> P!Authors]
    BY ProfileProfiles DEF P!Init
  <2> QED
    BY <2>1, <2>2, ProfileIdleTyped DEF P!Init, ProfileTypes, P!Statuses
<1>2. ProfileOwned /\ ProfileApart /\ ProfileNoticesTold
  BY ProfileIdleTyped DEF P!Init, ProfileOwned, ProfileApart, ProfileBusy, ProfileNoticesTold
<1> QED
  BY <1>1, <1>2 DEF ProfileIInv

(* What a merge writes are authors.                                         *)
LEMMA ProfileMergedTyped ==
  ASSUME NEW p \in [P!Fields -> P!Authors], NEW j \in Jobs, NEW seen \in [P!Fields -> P!Authors]
  PROVE  P!Merged(p, j, seen) \in [P!Fields -> P!Authors]
  BY DEF P!Merged, P!Authors

(* A worker that goes on with its job, or a profile that is written beside. *)
LEMMA ProfileWorkGoesOn ==
  ASSUME ProfileIInv, NEW w \in Workers, ProfileBusy(w), NEW new \in ProfileWorkerType,
         new.pc # "idle", new.job = worker[w].job,
         worker' = [worker EXCEPT ![w] = new],
         profile' \in {P!Null} \cup [P!Fields -> P!Authors],
         UNCHANGED <<profileJob, notice, reader, crashes>>
  PROVE  ProfileIInv'
<1>1. /\ worker' \in [Workers -> ProfileWorkerType]
      /\ \A v \in Workers : worker'[v] = IF v = w THEN new ELSE worker[v]
  BY DEF ProfileIInv, ProfileTypes
<1>2. ProfileTypes'
  BY <1>1 DEF ProfileIInv, ProfileTypes
<1>3. \A v \in Workers : (ProfileBusy(v)' <=> ProfileBusy(v)) /\ worker'[v].job = worker[v].job
  BY <1>1 DEF ProfileBusy
<1>4. ProfileOwned' /\ ProfileApart'
  BY <1>3 DEF ProfileIInv, ProfileOwned, ProfileApart
<1>5. ProfileNoticesTold'
  BY DEF ProfileIInv, ProfileNoticesTold
<1> QED
  BY <1>2, <1>4, <1>5 DEF ProfileIInv

(* Its job is over, in whichever way.                                       *)
LEMMA ProfileWorkEnds ==
  ASSUME ProfileIInv, NEW w \in Workers, ProfileBusy(w), NEW st \in {"DONE", "FAILED"},
         profileJob' = [profileJob EXCEPT ![worker[w].job] = st],
         notice' = IF st = "DONE" THEN notice \cup {worker[w].job} ELSE notice,
         worker' = [worker EXCEPT ![w] = P!Idle],
         profile' \in {P!Null} \cup [P!Fields -> P!Authors],
         UNCHANGED <<reader, crashes>>
  PROVE  ProfileIInv'
<1> DEFINE j == worker[w].job
<1>1. j \in Jobs /\ profileJob[j] = "RUNNING"
  BY DEF ProfileIInv, ProfileOwned
<1>2. /\ profileJob' \in [Jobs -> P!Statuses]
      /\ \A k \in Jobs : profileJob'[k] = IF k = j THEN st ELSE profileJob[k]
  BY <1>1 DEF ProfileIInv, ProfileTypes, P!Statuses
<1>3. /\ worker' \in [Workers -> ProfileWorkerType]
      /\ \A v \in Workers : worker'[v] = IF v = w THEN P!Idle ELSE worker[v]
  BY ProfileIdleTyped DEF ProfileIInv, ProfileTypes
<1>4. ProfileTypes'
  BY <1>1, <1>2, <1>3 DEF ProfileIInv, ProfileTypes
<1>5. \A v \in Workers : ProfileBusy(v)' => v # w /\ ProfileBusy(v) /\ worker'[v] = worker[v]
  BY <1>3, ProfileIdleTyped DEF ProfileBusy
<1>6. ProfileApart'
  BY <1>5 DEF ProfileIInv, ProfileApart
<1>7. ProfileOwned'
  <2>1. ASSUME NEW v \in Workers, ProfileBusy(v)'
        PROVE  worker[v].job \in Jobs \ {j} /\ profileJob[worker[v].job] = "RUNNING"
    BY <1>5, <2>1 DEF ProfileIInv, ProfileOwned, ProfileApart
  <2> QED
    BY <1>2, <1>5, <2>1 DEF ProfileOwned
<1>8. ProfileNoticesTold'
  BY <1>1, <1>2 DEF ProfileIInv, ProfileNoticesTold
<1> QED
  BY <1>4, <1>6, <1>7, <1>8 DEF ProfileIInv

LEMMA ProfileEnqueueStep ==
  ASSUME ProfileIInv, NEW j \in Jobs, P!Enqueue(j)
  PROVE  ProfileIInv'
<1>1. profileJob[j] = "NONE" /\ UNCHANGED <<profile, notice, worker, reader, crashes>>
  BY DEF P!Enqueue
<1>2. /\ profileJob' \in [Jobs -> P!Statuses]
      /\ \A k \in Jobs : profileJob'[k] = IF k = j THEN "PENDING" ELSE profileJob[k]
  BY DEF P!Enqueue, ProfileIInv, ProfileTypes, P!Statuses
<1>3. ProfileTypes'
  BY <1>1, <1>2 DEF ProfileIInv, ProfileTypes
<1>4. ProfileOwned' /\ ProfileApart'
  BY <1>1, <1>2 DEF ProfileIInv, ProfileOwned, ProfileApart, ProfileBusy
<1>5. ProfileNoticesTold'
  BY <1>1, <1>2 DEF ProfileIInv, ProfileNoticesTold
<1> QED
  BY <1>3, <1>4, <1>5 DEF ProfileIInv

LEMMA ProfileClaimStep ==
  ASSUME ProfileIInv, NEW w \in Workers, NEW j \in Jobs, P!Claim(w, j)
  PROVE  ProfileIInv'
<1> DEFINE new == [P!Idle EXCEPT !.pc = "claimed", !.job = j]
<1>1. /\ worker[w].pc = "idle"
      /\ profileJob[j] = "PENDING"
      /\ worker' = [worker EXCEPT ![w] = new]
      /\ UNCHANGED <<profile, notice, reader, crashes>>
  BY DEF P!Claim
<1>2. new \in ProfileWorkerType /\ new.pc = "claimed" /\ new.job = j
  BY ProfileIdleTyped DEF ProfileWorkerType, ProfilePcs
<1> HIDE DEF new
<1>3. /\ worker' \in [Workers -> ProfileWorkerType]
      /\ \A v \in Workers : worker'[v] = IF v = w THEN new ELSE worker[v]
  BY <1>1, <1>2 DEF ProfileIInv, ProfileTypes
<1>4. /\ profileJob' \in [Jobs -> P!Statuses]
      /\ \A k \in Jobs : profileJob'[k] = IF k = j THEN "RUNNING" ELSE profileJob[k]
  BY DEF P!Claim, ProfileIInv, ProfileTypes, P!Statuses
<1>5. ProfileTypes'
  BY <1>1, <1>3, <1>4 DEF ProfileIInv, ProfileTypes
<1>6. \A v \in Workers : ProfileBusy(v) => worker[v].job # j
  BY <1>1 DEF ProfileIInv, ProfileOwned
<1>7. ProfileOwned' /\ ProfileApart'
  BY <1>2, <1>3, <1>4, <1>6 DEF ProfileIInv, ProfileOwned, ProfileApart, ProfileBusy
<1>8. ProfileNoticesTold'
  BY <1>1, <1>4 DEF ProfileIInv, ProfileNoticesTold
<1> QED
  BY <1>5, <1>7, <1>8 DEF ProfileIInv

LEMMA ProfileReadStep ==
  ASSUME ProfileIInv, NEW w \in Workers, P!ReadProfile(w) \/ P!SeedProfile(w) \/ P!Ask(w,
         "patch") \/ P!Ask(w, "error")
  PROVE  ProfileIInv'
<1>1. worker[w] \in ProfileWorkerType /\ ProfileBusy(w)
  BY DEF P!ReadProfile, P!SeedProfile, P!Ask, ProfileIInv, ProfileTypes, ProfileBusy
<1>2. P!Read \in [P!Fields -> P!Authors]
  BY ProfileProfiles DEF ProfileIInv, ProfileTypes, P!Read
<1>3. ASSUME NEW pc \in ProfilePcs \ {"idle"}, NEW seen \in [P!Fields -> P!Authors],
             worker' = [worker EXCEPT ![w] = [worker[w] EXCEPT !.pc = pc, !.seen = seen]],
             profile' \in {P!Null} \cup [P!Fields -> P!Authors],
             UNCHANGED <<profileJob, notice, reader, crashes>>
      PROVE  ProfileIInv'
  <2> DEFINE new == [worker[w] EXCEPT !.pc = pc, !.seen = seen]
  <2>1. new \in ProfileWorkerType /\ new.pc # "idle" /\ new.job = worker[w].job
    BY <1>1 DEF ProfileWorkerType
  <2>2. worker' = [worker EXCEPT ![w] = new]
    BY <1>3
  <2> HIDE DEF new
  <2> QED
    BY <1>1, <1>3, <2>1, <2>2, ProfileWorkGoesOn
<1>4. ASSUME NEW pc \in ProfilePcs \ {"idle"},
             worker' = [worker EXCEPT ![w] = [worker[w] EXCEPT !.pc = pc]], profile' = profile,
             UNCHANGED <<profileJob, notice, reader, crashes>>
      PROVE  ProfileIInv'
  <2> DEFINE new == [worker[w] EXCEPT !.pc = pc]
  <2>1. new \in ProfileWorkerType /\ new.pc # "idle" /\ new.job = worker[w].job
    BY <1>1 DEF ProfileWorkerType
  <2>2. worker' = [worker EXCEPT ![w] = new]
    BY <1>4
  <2>3. profile' \in {P!Null} \cup [P!Fields -> P!Authors]
    BY <1>4 DEF ProfileIInv, ProfileTypes
  <2> HIDE DEF new
  <2> QED
    BY <1>1, <1>4, <2>1, <2>2, <2>3, ProfileWorkGoesOn
<1>5. CASE P!ReadProfile(w)
  <2>1. CASE P!MaySeed
    BY <1>4, <1>5, <2>1 DEF P!ReadProfile, ProfilePcs
  <2>2. CASE ~P!MaySeed
    <3>1. profile' \in {P!Null} \cup [P!Fields -> P!Authors]
      BY <1>5 DEF P!ReadProfile, ProfileIInv, ProfileTypes
    <3> QED
      BY <1>2, <1>3, <1>5, <2>2, <3>1 DEF P!ReadProfile, ProfilePcs
  <2> QED
    BY <2>1, <2>2
<1>6. CASE P!SeedProfile(w)
  <2>1. P!Seeded \in [P!Fields -> P!Authors] /\ profile' \in {P!Null} \cup [P!Fields -> P!Authors]
    BY <1>6, ProfileProfiles DEF P!SeedProfile
  <2> QED
    BY <1>3, <1>6, <2>1 DEF P!SeedProfile, ProfilePcs
<1>7. ASSUME NEW pc \in {"patch", "error"}, P!Ask(w, pc) PROVE ProfileIInv'
  BY <1>4, <1>7 DEF P!Ask, ProfilePcs
<1> QED
  BY <1>5, <1>6, <1>7

LEMMA ProfileApplyStep ==
  ASSUME ProfileIInv, NEW w \in Workers, P!Apply(w)
  PROVE  ProfileIInv'
<1>1. worker[w].seen \in [P!Fields -> P!Authors] /\ ProfileBusy(w)
  BY DEF P!Apply, ProfileIInv, ProfileTypes, ProfileWorkerType, ProfileBusy
<1>2. worker[w].job \in Jobs
  BY <1>1 DEF ProfileIInv, ProfileOwned
<1>3. P!Read \in [P!Fields -> P!Authors]
  BY ProfileProfiles DEF ProfileIInv, ProfileTypes, P!Read
<1>4. profile' \in [P!Fields -> P!Authors]
  BY <1>1, <1>2, <1>3, ProfileMergedTyped DEF P!Apply
<1>5. /\ profileJob' = [profileJob EXCEPT ![worker[w].job] = "DONE"]
      /\ notice' = notice \cup {worker[w].job}
      /\ worker' = [worker EXCEPT ![w] = P!Idle] /\ UNCHANGED <<reader, crashes>>
  BY DEF P!Apply
<1> QED
  BY <1>1, <1>4, <1>5, ProfileWorkEnds

LEMMA ProfileFailStep ==
  ASSUME ProfileIInv, NEW w \in Workers, P!Fail(w)
  PROVE  ProfileIInv'
<1>1. /\ ProfileBusy(w) /\ profileJob' = [profileJob EXCEPT ![worker[w].job] = "FAILED"]
      /\ worker' = [worker EXCEPT ![w] = P!Idle] /\ UNCHANGED <<profile, notice, reader, crashes>>
  BY DEF P!Fail, ProfileBusy
<1>2. profile' \in {P!Null} \cup [P!Fields -> P!Authors]
  BY <1>1 DEF ProfileIInv, ProfileTypes
<1> QED
  BY <1>1, <1>2, ProfileWorkEnds

(* Readers elsewhere touch the profile and nothing else.                    *)
LEMMA ProfileReaderStep ==
  ASSUME ProfileIInv, NEW r \in Readers, P!ReadElsewhere(r) \/ P!SeedElsewhere(r)
  PROVE  ProfileIInv'
<1>1. ProfileTypes'
  BY ProfileProfiles DEF P!ReadElsewhere, P!SeedElsewhere, ProfileIInv, ProfileTypes
<1>2. UNCHANGED <<profileJob, notice, worker>>
  BY DEF P!ReadElsewhere, P!SeedElsewhere
<1> QED
  BY <1>1, <1>2 DEF ProfileIInv, ProfileOwned, ProfileApart, ProfileBusy, ProfileNoticesTold

LEMMA ProfileRestartStep ==
  ASSUME P!ProfileAssumption, ProfileIInv, P!CrashRestart
  PROVE  ProfileIInv'
<1>1. /\ profileJob' \in [Jobs -> P!Statuses]
      /\ \A j \in Jobs : profileJob'[j] = "DONE" <=> profileJob[j] = "DONE"
  BY DEF P!CrashRestart, ProfileIInv, ProfileTypes, P!Statuses
<1>2. worker' \in [Workers -> ProfileWorkerType] /\ \A w \in Workers : ~ProfileBusy(w)'
  BY ProfileIdleTyped DEF P!CrashRestart, ProfileBusy
<1>3. crashes' \in 0..MaxRestarts
  BY DEF P!CrashRestart, ProfileIInv, ProfileTypes, P!ProfileAssumption
<1>4. profile' \in {P!Null} \cup [P!Fields -> P!Authors]
  BY ProfileProfiles DEF P!CrashRestart, ProfileIInv, ProfileTypes
<1>5. ProfileTypes'
  BY <1>1, <1>2, <1>3, <1>4 DEF P!CrashRestart, ProfileIInv, ProfileTypes
<1>6. ProfileOwned' /\ ProfileApart'
  BY <1>2 DEF ProfileOwned, ProfileApart
<1>7. ProfileNoticesTold'
  BY <1>1 DEF P!CrashRestart, ProfileIInv, ProfileNoticesTold
<1> QED
  BY <1>5, <1>6, <1>7 DEF ProfileIInv

LEMMA ProfileStepInvariant ==
  ASSUME P!ProfileAssumption, ProfileIInv, [P!Next]_(P!vars)
  PROVE  ProfileIInv'
<1>1. CASE UNCHANGED P!vars
  BY <1>1 DEF P!vars, ProfileIInv, ProfileTypes, ProfileOwned, ProfileApart, ProfileBusy,
              ProfileNoticesTold
<1>2. ASSUME NEW w \in Workers, P!WorkerStep(w) PROVE ProfileIInv'
  BY <1>2, ProfileClaimStep, ProfileReadStep, ProfileApplyStep, ProfileFailStep DEF P!WorkerStep
<1> QED
  BY <1>1, <1>2, ProfileEnqueueStep, ProfileReaderStep, ProfileRestartStep DEF P!Next

(* The inductive invariant holds for any constants.                         *)
THEOREM ProfileInvariance == ASSUME P!ProfileAssumption PROVE P!Spec => []ProfileIInv
<1>1. P!Init => ProfileIInv
  BY ProfileInitInvariant
<1>2. ProfileIInv /\ [P!Next]_(P!vars) => ProfileIInv'
  BY ProfileStepInvariant
<1> QED
  BY <1>1, <1>2, PTL DEF P!Spec

(* Every variable keeps its type.                                           *)
THEOREM ProfileTypeCorrect == ASSUME P!ProfileAssumption PROVE P!Spec => []P!TypeOK
<1>1. P!ProfileAssumption /\ ProfileIInv => P!TypeOK
  BY DEF P!ProfileAssumption, ProfileIInv, ProfileTypes, ProfileOwned, ProfileBusy,
         ProfileWorkerType, ProfilePcs, P!TypeOK
<1> QED
  BY <1>1, ProfileInvariance, PTL
-----------------------------------------------------------------------------
(* Edits survive.                                                           *)

LEMMA ProfileApplyKeepsOthers ==
  ASSUME P!ProfileAssumption, ProfileIInv, NEW w \in Workers, P!Apply(w), NEW f \in Scalars
  PROVE  P!Survives(f)
<1> DEFINE j == worker[w].job
<1>1. j \in Jobs /\ profileJob[j] = "RUNNING"
  BY DEF P!Apply, ProfileIInv, ProfileOwned, ProfileBusy
<1>2. P!Finishes(j)
  BY <1>1 DEF P!Apply, ProfileIInv, ProfileTypes, P!Finishes
<1>3. f \in P!Fields /\ f \notin Rules
  BY DEF P!ProfileAssumption, P!Fields
<1>4. profile'[f] = IF f \in Edits[j] THEN j ELSE P!Read[f]
  BY <1>3 DEF P!Apply, P!Merged
<1>5. profile # P!Null => P!Read = profile
  BY DEF P!Read
<1> QED
  BY <1>1, <1>2, <1>4, <1>5 DEF P!Survives

LEMMA ProfileStepKeepsEdits ==
  ASSUME P!ProfileAssumption, ProfileIInv, [P!Next]_(P!vars), NEW f \in Scalars
  PROVE  P!Survives(f)
<1>1. CASE profile' = profile \/ profile' = P!Seeded
  BY <1>1 DEF P!Survives
<1>2. ASSUME NEW w \in Workers, P!WorkerStep(w) PROVE P!Survives(f)
  BY <1>1, <1>2, ProfileApplyKeepsOthers
  DEF P!WorkerStep, P!Claim, P!ReadProfile, P!SeedProfile, P!Ask, P!Fail
<1>3. CASE P!CrashRestart
  BY <1>1, <1>3 DEF P!CrashRestart
<1>4. CASE \E r \in Readers : P!ReadElsewhere(r) \/ P!SeedElsewhere(r)
  BY <1>1, <1>4 DEF P!ReadElsewhere, P!SeedElsewhere
<1>5. CASE \E j \in Jobs : P!Enqueue(j)
  BY <1>1, <1>5 DEF P!Enqueue
<1> QED
  BY <1>1, <1>2, <1>3, <1>4, <1>5 DEF P!Next, P!vars

(* An edit of a scalar field of the profile gives way to a later edit of    *)
(* that field or to the lazy seed only, however many jobs run at once with  *)
(* profiles they read long ago (apply_patch, json_patch).                   *)
THEOREM ProfileEditsOutliveOthers ==
  ASSUME P!ProfileAssumption PROVE P!Spec => P!DisjointEditsSurvive
<1>1. ProfileIInv /\ [P!Next]_(P!vars) => [\A f \in Scalars : P!Survives(f)]_(P!vars)
  BY ProfileStepKeepsEdits
<1>2. P!Spec => [][\A f \in Scalars : P!Survives(f)]_(P!vars)
  BY <1>1, ProfileInvariance, PTL DEF P!Spec
<1> QED
  BY <1>2 DEF P!DisjointEditsSurvive

-----------------------------------------------------------------------------
(* The refinement: one outcome for every update.                            *)

LEMMA ProfileUnseen ==
  ASSUME notice' = notice,
         \A j \in Jobs : \/ profileJob'[j] = profileJob[j]
                         \/ {profileJob[j], profileJob'[j]} \subseteq {"PENDING", "RUNNING"}
  PROVE  [P!Promise!Next]_(P!Promise!vars)
<1>1. \A j \in Jobs : P!Outcome'[j] = P!Outcome[j]
  BY DEF P!Outcome
<1>2. P!Outcome' = P!Outcome /\ P!Notices' = P!Notices
  BY <1>1 DEF P!Outcome, P!Notices
<1> QED
  BY <1>2 DEF P!Promise!vars

LEMMA ProfileOutcomeMoves ==
  ASSUME ProfileIInv, NEW j \in Jobs, NEW st \in P!Statuses,
         profileJob' = [profileJob EXCEPT ![j] = st]
  PROVE  P!Outcome' = [P!Outcome EXCEPT ![j] = CASE st = "NONE" -> "none" [] st = "DONE" -> "answered"
                                             [] st = "FAILED" -> "refused" [] OTHER -> "open"]
<1>1. \A k \in Jobs : profileJob'[k] = IF k = j THEN st ELSE profileJob[k]
  BY DEF ProfileIInv, ProfileTypes
<1> QED
  BY <1>1 DEF P!Outcome

LEMMA ProfileEnqueueAccepts ==
  ASSUME ProfileIInv, NEW j \in Jobs, P!Enqueue(j)
  PROVE  [P!Promise!Next]_(P!Promise!vars)
<1>1. P!Outcome[j] = "none"
  BY DEF P!Enqueue, P!Outcome
<1>2. P!Outcome' = [P!Outcome EXCEPT ![j] = "open"]
  BY ProfileOutcomeMoves DEF P!Enqueue, P!Statuses
<1>3. P!Notices' = P!Notices
  BY DEF P!Enqueue, P!Notices
<1> QED
  BY <1>1, <1>2, <1>3 DEF P!Promise!Next, P!Promise!Accept

LEMMA ProfileCommitDecides ==
  ASSUME ProfileIInv, NEW w \in Workers, P!Apply(w) \/ P!Fail(w)
  PROVE  [P!Promise!Next]_(P!Promise!vars)
<1> DEFINE j == worker[w].job
<1>1. j \in Jobs /\ profileJob[j] = "RUNNING"
  BY DEF P!Apply, P!Fail, ProfileIInv, ProfileOwned, ProfileBusy
<1>2. P!Outcome[j] = "open"
  BY <1>1 DEF P!Outcome
<1>5. P!Notices[j] = {}
  BY <1>1 DEF P!Notices, ProfileIInv, ProfileNoticesTold
<1>3. CASE P!Apply(w)
  <2>1. P!Outcome' = [P!Outcome EXCEPT ![j] = "answered"]
    BY <1>1, <1>3, ProfileOutcomeMoves DEF P!Apply, P!Statuses
  <2>2. \A k \in Jobs : P!Notices'[k] = IF k = j THEN {"PROFILE_UPDATED"} ELSE P!Notices[k]
    BY <1>3 DEF P!Apply, P!Notices
  <2>3. P!Notices' = [P!Notices EXCEPT ![j] = @ \cup {"PROFILE_UPDATED"}]
    BY <1>1, <1>3, <2>2 DEF P!Notices
  <2> QED
    BY <1>1, <1>2, <1>5, <2>1, <2>3 DEF P!Promise!Next, P!Promise!Answer, P!Promise!Decide
<1>4. CASE P!Fail(w)
  <2>1. P!Outcome' = [P!Outcome EXCEPT ![j] = "refused"]
    BY <1>1, <1>4, ProfileOutcomeMoves DEF P!Fail, P!Statuses
  <2>2. P!Notices[j] = {} /\ P!Notices' = P!Notices
    BY <1>1, <1>4 DEF P!Fail, P!Notices, ProfileIInv, ProfileNoticesTold
  <2>3. P!Notices' = [P!Notices EXCEPT ![j] = @ \cup {}]
    BY <2>2 DEF P!Notices
  <2> QED
    BY <1>1, <1>2, <1>5, <2>1, <2>3 DEF P!Promise!Next, P!Promise!Refuse, P!Promise!Decide
<1> QED
  BY <1>3, <1>4

LEMMA ProfileStepKeepsPromise ==
  ASSUME ProfileIInv, [P!Next]_(P!vars)
  PROVE  [P!Promise!Next]_(P!Promise!vars)
<1>1. CASE UNCHANGED <<profileJob, notice>>
  BY <1>1, ProfileUnseen
<1>2. ASSUME NEW w \in Workers, P!WorkerStep(w) PROVE [P!Promise!Next]_(P!Promise!vars)
  <2>1. ASSUME NEW j \in Jobs, P!Claim(w, j) PROVE [P!Promise!Next]_(P!Promise!vars)
    <3>1. \A k \in Jobs : profileJob'[k] = IF k = j THEN "RUNNING" ELSE profileJob[k]
      BY <2>1 DEF P!Claim, ProfileIInv, ProfileTypes
    <3> QED
      BY <2>1, <3>1, ProfileUnseen DEF P!Claim
  <2> QED
    BY <1>1, <1>2, <2>1, ProfileCommitDecides
    DEF P!WorkerStep, P!ReadProfile, P!SeedProfile, P!Ask
<1>3. CASE P!CrashRestart
  BY <1>3, ProfileUnseen DEF P!CrashRestart
<1>4. CASE \E r \in Readers : P!ReadElsewhere(r) \/ P!SeedElsewhere(r)
  BY <1>1, <1>4 DEF P!ReadElsewhere, P!SeedElsewhere
<1> QED
  BY <1>1, <1>2, <1>3, <1>4, ProfileEnqueueAccepts DEF P!Next, P!vars

(* An update is applied or refused at most once, and its notice is recorded *)
(* in the commit that applies it (apply_patch): the safety part of          *)
(* Promise!Spec.                                                            *)
THEOREM ProfileKeepsPromise ==
  ASSUME P!ProfileAssumption PROVE P!Spec => P!Promise!Init /\ [][P!Promise!Next]_(P!Promise!vars)
<1>1. P!Init => P!Promise!Init
  BY DEF P!Init, P!Outcome, P!Notices, P!Promise!Init
<1>2. ProfileIInv /\ [P!Next]_(P!vars) => [P!Promise!Next]_(P!Promise!vars)
  BY ProfileStepKeepsPromise
<1> QED
  BY <1>1, <1>2, ProfileInvariance, PTL DEF P!Spec

-----------------------------------------------------------------------------
(* Settings: whatever edits overlap, from the chat and over HTTP, each of   *)
(* them names only what it was asked to change, and no field goes back to   *)
(* what it was before an edit of it was accepted.                           *)

SettingsRowType == [value : [SettingKeys -> SettingEdits \cup {0}], enabled : BOOLEAN]
SettingsEditType == [pc : {"none", "toggle", "level", "patch",
                           "reading", "writing", "written", "dropped"},
                     fields : SUBSET SettingKeys, to : {"keep", "on", "off"},
                     read : SettingsRowType \cup {Nil}]

SettingsTypes == /\ value \in [SettingKeys -> SettingEdits \cup {0}] /\ enabled \in BOOLEAN
                 /\ since \in SettingEdits \cup {0, Nil}
                 /\ edit \in [SettingEdits -> SettingsEditType]

(* A value names the edit that was accepted for it.                         *)
SettingsSigned == \A f \in SettingKeys : value[f] # 0 =>
                     edit[value[f]].pc = "written" /\ f \in edit[value[f]].fields

(* A field that was edited is not as it was at the start.                   *)
SettingsEdited ==
    \A e \in SettingEdits : edit[e].pc = "written" => \A f \in edit[e].fields : value[f] # 0

SettingsIInv == SettingsTypes /\ SettingsSigned /\ SettingsEdited

LEMMA SettingsFormFields ==
  ASSUME S!SettingsAssumption
  PROVE  /\ SettingEdits \subseteq Nat \ {0}
         /\ \A form \in Forms : /\ form.kind \in {"toggle", "level", "patch"}
                                /\ form.fields \subseteq SettingKeys
                                /\ form.to \in {"keep", "on", "off"}
  BY DEF S!SettingsAssumption

LEMMA SettingsUnusedTyped == S!Unused \in SettingsEditType /\ S!Unused.pc = "none"
  BY DEF S!Unused, SettingsEditType

LEMMA SettingsInitInvariant == ASSUME S!Init PROVE SettingsIInv
<1>1. SettingsTypes
  BY SettingsUnusedTyped DEF S!Init, SettingsTypes
<1>2. SettingsSigned /\ SettingsEdited
  BY SettingsUnusedTyped DEF S!Init, SettingsSigned, SettingsEdited
<1> QED
  BY <1>1, <1>2 DEF SettingsIInv

(* An edit on its way changes no row and no edit that was accepted.         *)
LEMMA SettingsOnTheWay ==
  ASSUME SettingsIInv, NEW e \in SettingEdits, NEW new \in SettingsEditType,
         edit[e].pc # "written", new.pc # "written",
         S!Step(e, new)
  PROVE  SettingsIInv'
<1>1. /\ edit' = [edit EXCEPT ![e] = new]
      /\ value' = value
      /\ enabled' = enabled
      /\ since' = since
      /\ edit \in [SettingEdits -> SettingsEditType]
  BY DEF S!Step, S!row, SettingsIInv, SettingsTypes
<1>2. \A d \in SettingEdits : edit'[d] = IF d = e THEN new ELSE edit[d]
  BY <1>1
<1>3. SettingsTypes'
  BY <1>1 DEF SettingsIInv, SettingsTypes
<1>4. SettingsSigned'
  <2>1. ASSUME NEW f \in SettingKeys, value[f] # 0
        PROVE  /\ value[f] \in SettingEdits /\ value[f] # e
               /\ edit[value[f]].pc = "written" /\ f \in edit[value[f]].fields
    BY <2>1 DEF SettingsIInv, SettingsTypes, SettingsSigned
  <2> QED
    BY <1>1, <1>2, <2>1 DEF SettingsSigned
<1>5. SettingsEdited'
  BY <1>1, <1>2 DEF SettingsIInv, SettingsEdited
<1> QED
  BY <1>3, <1>4, <1>5 DEF SettingsIInv

LEMMA SettingsBeginStep ==
  ASSUME S!SettingsAssumption, SettingsIInv, NEW e \in SettingEdits, NEW form \in Forms,
         S!Begin(e, form)
  PROVE  SettingsIInv'
<1> DEFINE new == [S!Unused EXCEPT !.pc = form.kind, !.fields = form.fields, !.to = form.to]
<1>1. new \in SettingsEditType
  BY SettingsFormFields, SettingsUnusedTyped DEF SettingsEditType
<1>2. new.pc # "written"
  BY SettingsFormFields, SettingsUnusedTyped DEF SettingsEditType
<1>3. edit[e].pc = "none" /\ S!Step(e, new)
  BY DEF S!Begin
<1> HIDE DEF new
<1> QED
  BY <1>1, <1>2, <1>3, SettingsOnTheWay

(* What was read is a row.                                                  *)
LEMMA SettingsAdvanceStep ==
  ASSUME SettingsIInv, NEW e \in SettingEdits,
         NEW pc \in {"reading", "writing", "dropped"}, NEW to \in {"keep", "on", "off"},
         NEW read \in SettingsRowType \cup {Nil}, edit[e].pc # "written",
         S!Step(e, [edit[e] EXCEPT !.pc = pc, !.to = to, !.read = read])
  PROVE  SettingsIInv'
<1> DEFINE new == [edit[e] EXCEPT !.pc = pc, !.to = to, !.read = read]
<1>1. edit[e] \in SettingsEditType
  BY DEF SettingsIInv, SettingsTypes
<1>2. new \in SettingsEditType /\ new.pc # "written"
  BY <1>1 DEF SettingsEditType
<1> HIDE DEF new
<1>3. S!Step(e, new)
  BY DEF new
<1> QED
  BY <1>2, <1>3, SettingsOnTheWay

LEMMA SettingsReadSteps ==
  ASSUME SettingsIInv, NEW e \in SettingEdits,
         \/ \E valid \in BOOLEAN : S!Validate(e, valid)
         \/ \E same \in BOOLEAN : S!ReadAttention(e, same)
         \/ S!ReadToggle(e) \/ S!ReadUser(e) \/ S!Drop(e)
  PROVE  SettingsIInv'
<1>1. edit[e] \in SettingsEditType /\ edit[e].pc # "written"
  BY DEF SettingsIInv, SettingsTypes, S!Validate, S!ReadAttention, S!ReadToggle, S!ReadUser,
         S!Drop
<1>2. edit[e].to \in {"keep", "on", "off"} /\ edit[e].read \in SettingsRowType \cup {Nil}
  BY <1>1 DEF SettingsEditType
<1>3. S!Row \in SettingsRowType
  BY DEF S!Row, SettingsRowType, SettingsIInv, SettingsTypes
<1>4. ASSUME NEW pc \in {"reading", "dropped"}, S!Step(e, [edit[e] EXCEPT !.pc = pc])
      PROVE  SettingsIInv'
  <2>1. [edit[e] EXCEPT !.pc = pc] = [edit[e] EXCEPT !.pc = pc, !.to = edit[e].to, !.read = edit[e].read]
    BY <1>1 DEF SettingsEditType
  <2> QED
    BY <1>1, <1>2, <1>4, <2>1, SettingsAdvanceStep
<1>5. CASE \/ \E valid \in BOOLEAN : S!Validate(e, valid)
           \/ \E same \in BOOLEAN : S!ReadAttention(e, same)
           \/ S!Drop(e)
  BY <1>4, <1>5 DEF S!Validate, S!ReadAttention, S!Drop
<1>6. CASE S!ReadToggle(e)
  <2> DEFINE to == IF enabled THEN "off" ELSE "on"
  <2>1. S!Step(e, [edit[e] EXCEPT !.pc = "reading", !.to = to])
    BY <1>6 DEF S!ReadToggle
  <2>2. to \in {"keep", "on", "off"}
    OBVIOUS
  <2> HIDE DEF to
  <2>3. [edit[e] EXCEPT !.pc = "reading", !.to = to]
          = [edit[e] EXCEPT !.pc = "reading", !.to = to, !.read = edit[e].read]
    BY <1>1 DEF SettingsEditType
  <2> QED
    BY <1>1, <1>2, <2>1, <2>2, <2>3, SettingsAdvanceStep
<1>7. CASE S!ReadUser(e)
  <2>1. S!Step(e, [edit[e] EXCEPT !.pc = "writing", !.read = S!Row])
    BY <1>7 DEF S!ReadUser
  <2>2. [edit[e] EXCEPT !.pc = "writing", !.read = S!Row]
          = [edit[e] EXCEPT !.pc = "writing", !.to = edit[e].to, !.read = S!Row]
    BY <1>1 DEF SettingsEditType
  <2> QED
    BY <1>1, <1>2, <1>3, <2>1, <2>2, SettingsAdvanceStep
<1> QED
  BY <1>5, <1>6, <1>7

(* The patch: the fields it names carry its number, all others stay.        *)
LEMMA SettingsWriteStep ==
  ASSUME S!SettingsAssumption, SettingsIInv, NEW e \in SettingEdits, S!Write(e)
  PROVE  SettingsIInv'
<1> DEFINE new == [edit[e] EXCEPT !.pc = "written"]
<1>1. edit \in [SettingEdits -> SettingsEditType] /\ edit[e] \in SettingsEditType /\ e # 0
  BY SettingsFormFields DEF SettingsIInv, SettingsTypes
<1>2. new \in SettingsEditType /\ new.pc = "written" /\ new.fields = edit[e].fields
  BY <1>1 DEF SettingsEditType
<1>3. edit' = [edit EXCEPT ![e] = new]
  BY DEF S!Write
<1> HIDE DEF new
<1>4. \A d \in SettingEdits : edit'[d] = IF d = e THEN new ELSE edit[d]
  BY <1>1, <1>3
<1>5. /\ value' \in [SettingKeys -> SettingEdits \cup {0}]
      /\ \A f \in SettingKeys : value'[f] = IF f \in edit[e].fields THEN e ELSE value[f]
  BY DEF S!Write, S!Patched, SettingsIInv, SettingsTypes
<1>6. SettingsTypes'
  <2>1. enabled' \in BOOLEAN
    BY Zenon DEF S!Write, SettingsIInv, SettingsTypes
  <2>2. since' \in SettingEdits \cup {0, Nil}
    BY DEF S!Write, S!Moment, SettingsIInv, SettingsTypes
  <2>3. edit' \in [SettingEdits -> SettingsEditType]
    BY <1>1, <1>2, <1>3
  <2> QED
    BY <1>5, <2>1, <2>2, <2>3 DEF SettingsTypes
<1>7. SettingsSigned'
  <2>1. ASSUME NEW f \in SettingKeys, value'[f] # 0
        PROVE  edit'[value'[f]].pc = "written" /\ f \in edit'[value'[f]].fields
    <3>1. CASE f \in edit[e].fields
      BY <1>2, <1>4, <1>5, <3>1
    <3>2. CASE f \notin edit[e].fields
      <4>1. /\ value'[f] = value[f] /\ value[f] \in SettingEdits
            /\ edit[value[f]].pc = "written" /\ f \in edit[value[f]].fields
        BY <1>5, <2>1, <3>2 DEF SettingsIInv, SettingsTypes, SettingsSigned
      <4> QED
        BY <1>2, <1>4, <4>1
    <3> QED
      BY <3>1, <3>2
  <2> QED
    BY <2>1 DEF SettingsSigned
<1>8. SettingsEdited'
  <2>1. ASSUME NEW d \in SettingEdits, edit'[d].pc = "written", NEW f \in edit'[d].fields
        PROVE  value'[f] # 0
    <3>1. edit'[d].fields = edit[d].fields /\ f \in SettingKeys
      BY <1>1, <1>2, <1>4, <2>1 DEF SettingsEditType
    <3>2. d # e => value[f] # 0
      BY <1>4, <2>1, <3>1 DEF SettingsIInv, SettingsEdited
    <3> QED
      BY <1>1, <1>5, <3>1, <3>2
  <2> QED
    BY <2>1 DEF SettingsEdited
<1> QED
  BY <1>6, <1>7, <1>8 DEF SettingsIInv

LEMMA SettingsStepInvariant ==
  ASSUME S!SettingsAssumption, SettingsIInv, [S!Next]_(S!vars)
  PROVE  SettingsIInv'
<1>1. ASSUME NEW e \in SettingEdits, NEW form \in Forms, S!ChatEdit(e, form) \/ S!HttpEdit(e, form)
      PROVE  SettingsIInv'
  BY <1>1, SettingsBeginStep DEF S!ChatEdit, S!HttpEdit
<1>2. ASSUME NEW e \in SettingEdits,
             \/ \E valid \in BOOLEAN : S!Validate(e, valid)
             \/ \E same \in BOOLEAN : S!ReadAttention(e, same)
             \/ S!ReadToggle(e) \/ S!ReadUser(e) \/ S!Drop(e)
      PROVE  SettingsIInv'
  BY <1>2, SettingsReadSteps
<1>3. ASSUME NEW e \in SettingEdits, S!Write(e) PROVE SettingsIInv'
  BY <1>3, SettingsWriteStep
<1>4. CASE UNCHANGED S!vars
  BY <1>4 DEF S!vars, SettingsIInv, SettingsTypes, SettingsSigned, SettingsEdited
<1> QED
  BY <1>1, <1>2, <1>3, <1>4 DEF S!Next

(* The inductive invariant holds for any edits and fields.                  *)
THEOREM SettingsInvariance == ASSUME S!SettingsAssumption PROVE S!Spec => []SettingsIInv
<1>1. S!Init => SettingsIInv
  BY SettingsInitInvariant
<1>2. SettingsIInv /\ [S!Next]_(S!vars) => SettingsIInv'
  BY SettingsStepInvariant
<1> QED
  BY <1>1, <1>2, PTL DEF S!Spec

(* Every variable keeps its type.                                           *)
THEOREM SettingsTypeCorrect == ASSUME S!SettingsAssumption PROVE S!Spec => []S!TypeOK
<1>1. SettingsIInv => S!TypeOK
  BY DEF SettingsIInv, SettingsTypes, SettingsEditType, S!TypeOK
<1> QED
  BY <1>1, SettingsInvariance, PTL

(* An accepted edit is never lost to one of other fields that overlaps with *)
(* it: each of its fields carries the number of an accepted edit that names *)
(* that field, its own or a later one.                                      *)
THEOREM SettingsAcceptedEditsSurvive ==
  ASSUME S!SettingsAssumption PROVE S!Spec => []S!EditsSurvive
<1>1. SettingsIInv => S!EditsSurvive
  <2>1. ASSUME SettingsIInv, NEW e \in SettingEdits, edit[e].pc = "written", NEW f \in edit[e].fields
        PROVE  value[f] # 0 /\ f \in edit[value[f]].fields
    <3>1. f \in SettingKeys
      BY <2>1 DEF SettingsIInv, SettingsTypes, SettingsEditType
    <3> QED
      BY <2>1, <3>1 DEF SettingsIInv, SettingsSigned, SettingsEdited
  <2> QED
    BY <2>1 DEF S!EditsSurvive
<1> QED
  BY <1>1, SettingsInvariance, PTL

-----------------------------------------------------------------------------
(* Questions: for any keys, clients, processes and texts, a client is told  *)
(* "accepted" only of its own question.  While no second process has been   *)
(* started, a poll never takes back what an earlier one said and each       *)
(* question has one outcome; once two overlap, the outcome may be replaced  *)
(* by the other one, announced as well.                                     *)

AskRowType == [st : {"NONE", "PENDING", "RUNNING", "DONE", "FAILED"},
               text : Texts \cup {Nil}, answer : A!Answers \cup {Nil}, expired : BOOLEAN]
AskClientType == [pc : {"idle", "sent", "inserting", "accepted", "conflict"},
                  key : Keys \cup {Nil}, text : Texts \cup {Nil}, sends : Nat]
AskProcessType == [pc : {"idle", "off", "claimed", "asking", "complete", "failed", "completing",
                         "failing"},
                   key : Keys \cup {Nil}, context : SUBSET UNION A!Contexts, attempt : Nat,
                   round : Nat, answer : A!Answers \cup {Nil}]

AskTypes == /\ askRow \in [Keys -> AskRowType]
            /\ order \in Seq(Keys)
            /\ askNotice \in [Keys -> SUBSET {"ASK_RESULT", "ASK_FAILED"}]
            /\ client \in [Clients -> AskClientType]
            /\ asker \in [Processes -> AskProcessType]

(* The order lists every row once.                                          *)
AskOrderLists == /\ {order[n] : n \in DOMAIN order} = {k \in Keys : A!Created(k)}
                 /\ Len(order) = Cardinality({k \in Keys : A!Created(k)})

(* Only a decided HTTP question holds an answer, and only an answer ages.   *)
AskDecided(k) == askRow[k].st \in {"DONE", "FAILED"}
AskAnswersBelong ==
    \A k \in Keys : /\ askRow[k].answer # Nil => AskDecided(k) /\ Channel[k] = "HTTP"
                    /\ askRow[k].expired => AskDecided(k)

(* Nothing is announced before the outcome, and the outcome is.             *)
AskNoticesTold == \A k \in Keys :
    /\ Channel[k] = "HTTP" \/ ~AskDecided(k) => askNotice[k] = {}
    /\ Channel[k] = "TELEGRAM" /\ askRow[k].st = "DONE" => "ASK_RESULT" \in askNotice[k]
    /\ Channel[k] = "TELEGRAM" /\ askRow[k].st = "FAILED" => "ASK_FAILED" \in askNotice[k]

(* A client waits with a key; what it was told accepted is stored.          *)
AskClientsAgree == \A c \in Clients :
    /\ client[c].pc # "idle" => client[c].key \in Keys /\ client[c].text \in Texts
    /\ client[c].pc = "inserting" => Channel[client[c].key] = "HTTP"
    /\ client[c].pc = "accepted" => A!Created(client[c].key)
    /\ client[c].pc = "accepted" /\ Channel[client[c].key] = "HTTP"
         => askRow[client[c].key].text = client[c].text

(* A process at work has a question, and an answer when it is to commit it. *)
AskBusy(pr) == pr.pc \notin {"idle", "off"}
AskWorkersAgree == \A p \in Processes :
    /\ AskBusy(asker[p]) => asker[p].key \in Keys /\ A!Created(asker[p].key)
    /\ asker[p].pc \in {"complete", "completing"} => asker[p].answer \in A!Answers

(* What holds as long as nobody else writes: the question at work stays     *)
(* RUNNING, whatever passes between the read of it and the write by id.     *)
AskHeld == \A p \in Processes : AskBusy(asker[p]) => askRow[asker[p].key].st = "RUNNING"

AskIInv == /\ AskTypes /\ AskOrderLists /\ AskAnswersBelong
           /\ AskNoticesTold /\ AskClientsAgree /\ AskWorkersAgree
           /\ A!Alone => AskHeld

-----------------------------------------------------------------------------
LEMMA AskControlledAnswers ==
  /\ A!Controlled("NO_RESULTS") \in A!Answers
  /\ A!Controlled("INSUFFICIENT_CONTEXT") \in A!Answers
  BY DEF A!Answers

LEMMA AskCitedAnswers ==
  ASSUME NEW cites, NEW context \in SUBSET UNION A!Contexts, A!Grounded(cites, context)
  PROVE  A!Cited(cites) \in A!Answers
  BY DEF A!Grounded, A!Answers

LEMMA AskOrderKept ==
  ASSUME AskOrderLists, order' = order, \A k \in Keys : A!Created(k)' <=> A!Created(k)
  PROVE  AskOrderLists'
<1>1. {k \in Keys : A!Created(k)}' = {k \in Keys : A!Created(k)}
  OBVIOUS
<1> QED
  BY <1>1 DEF AskOrderLists

LEMMA AskOrderGrows ==
  ASSUME A!AskAssumption, AskTypes, AskOrderLists, NEW k \in Keys, NEW t, ~A!Created(k),
         A!Insert(k, t)
  PROVE  order' \in Seq(Keys) /\ AskOrderLists'
<1> DEFINE All == {j \in Keys : A!Created(j)}
<1>1. order' = Append(order, k) /\ order \in Seq(Keys)
  BY DEF A!Insert, AskTypes
<1>2. All' = All \cup {k} /\ k \notin All
  BY DEF A!Insert, AskTypes, AskRowType, A!Created, A!NoRow
<1>3. IsFiniteSet(All)
  BY FS_Subset DEF A!AskAssumption, A!IsFiniteSet, IsFiniteSet
<1>4. Cardinality(All') = Cardinality(All) + 1
  BY <1>2, <1>3, FS_AddElement
<1>5. order' \in Seq(Keys) /\ Len(order') = Len(order) + 1
  BY <1>1
<1>6. {order'[n] : n \in DOMAIN order'} = {order[n] : n \in DOMAIN order} \cup {k}
  <2>1. DOMAIN order' = 1..(Len(order) + 1) /\ DOMAIN order = 1..Len(order) /\ Len(order) \in Nat
    BY <1>1
  <2>2. \A n \in 1..Len(order) : order'[n] = order[n]
    BY <1>1
  <2>3. order'[Len(order) + 1] = k
    BY <1>1
  <2> QED
    BY <2>1, <2>2, <2>3
<1> QED
  BY <1>2, <1>4, <1>5, <1>6 DEF AskOrderLists
-----------------------------------------------------------------------------
LEMMA AskInitInvariant == ASSUME A!AskAssumption, A!Init PROVE AskIInv
<1>1. AskTypes
  BY DEF A!Init, A!AskAssumption, AskTypes, AskRowType, AskClientType, AskProcessType, A!NoRow,
         A!Quiet, A!Idle, A!Off
<1>2. AskOrderLists
  <2>1. {k \in Keys : A!Created(k)} = {}
    BY DEF A!Init, A!Created, A!NoRow
  <2>2. {order[n] : n \in DOMAIN order} = {} /\ Len(order) = 0
    BY DEF A!Init
  <2> QED
    BY <2>1, <2>2, FS_EmptySet DEF AskOrderLists
<1>3. AskAnswersBelong /\ AskNoticesTold
  BY DEF A!Init, A!AskAssumption, AskAnswersBelong, AskNoticesTold, AskDecided, A!NoRow
<1>4. AskClientsAgree /\ AskWorkersAgree /\ AskHeld
  BY DEF A!Init, AskClientsAgree, AskWorkersAgree, AskHeld, AskBusy, A!Quiet, A!Idle, A!Off
<1> QED
  BY <1>1, <1>2, <1>3, <1>4 DEF AskIInv

(* While the processes stay as they are, what is RUNNING is to stay so.     *)
LEMMA AskHeldKept ==
  ASSUME AskIInv, asker' = asker,
         \A k \in Keys : askRow[k].st = "RUNNING" => askRow'[k].st = "RUNNING"
  PROVE  (A!Alone => AskHeld)'
  BY DEF AskIInv, AskWorkersAgree, AskHeld, A!Alone

(* Who works while no second process has been started is the first one,     *)
(* and it goes on: what is alone then was alone before.                     *)
LEMMA AskAloneStays ==
  ASSUME AskTypes, NEW p \in Processes, asker[p].pc # "off", NEW new, new.pc # "off",
         asker' = [asker EXCEPT ![p] = new]
  PROVE  A!Alone' <=> A!Alone
  BY DEF AskTypes, A!Alone

LEMMA AskHeldMoves ==
  ASSUME AskIInv, NEW p \in Processes, NEW new, new.pc # "off",
         asker' = [asker EXCEPT ![p] = new],
         AskBusy(new) => /\ asker[p].pc # "off"
                         /\ A!Alone => askRow'[new.key].st = "RUNNING"
  PROVE  (A!Alone => AskHeld)'
<1> SUFFICES ASSUME A!Alone' PROVE AskHeld'
  OBVIOUS
<1>1. \A q \in Processes : asker'[q] = IF q = p THEN new ELSE asker[q]
  BY DEF AskIInv, AskTypes
<1>2. p = First
  BY <1>1 DEF A!Alone
<1>3. \A q \in Processes \ {p} : ~AskBusy(asker'[q])
  BY <1>2 DEF A!Alone, AskBusy
<1>4. AskBusy(new) => askRow'[new.key].st = "RUNNING"
  BY AskAloneStays DEF AskIInv
<1> QED
  BY <1>1, <1>3, <1>4 DEF AskHeld

(* A client sends its question.                                             *)
LEMMA AskSendKeeps ==
  ASSUME A!AskAssumption, AskIInv, NEW c \in Clients, NEW a \in Asked[c], A!Send(c, a[1], a[2])
  PROVE  AskIInv'
<1>a. a[1] \in Keys /\ a[2] \in Texts
  BY DEF A!AskAssumption
<1>1. /\ client' = [client EXCEPT ![c] = [pc |-> "sent", key |-> a[1], text |-> a[2],
                                        sends |-> client[c].sends + 1]]
      /\ askRow' = askRow /\ order' = order /\ askNotice' = askNotice /\ asker' = asker
  BY DEF A!Send, A!rowVars
<1>2. AskTypes'
  BY <1>a, <1>1 DEF AskIInv, AskTypes, AskClientType
<1>3. AskOrderLists' /\ AskAnswersBelong' /\ AskNoticesTold' /\ AskWorkersAgree'
  BY <1>1 DEF AskIInv, AskOrderLists, AskAnswersBelong, AskNoticesTold, AskDecided,
              AskWorkersAgree, A!Created
<1>4. AskClientsAgree'
  BY <1>a, <1>1 DEF AskIInv, AskTypes, AskClientsAgree, A!Created
<1>5. (A!Alone => AskHeld)'
  BY <1>1, AskHeldKept
<1> QED
  BY <1>2, <1>3, <1>4, <1>5 DEF AskIInv

(* What a reply does to the clients, when the rows stay or grow.            *)
LEMMA AskReplyKeeps ==
  ASSUME AskIInv, NEW c \in Clients, NEW pc \in {"inserting", "accepted", "conflict"},
         client[c].pc \in {"sent", "inserting"}, A!Reply(c, pc),
         pc = "inserting" => Channel[client[c].key] = "HTTP",
         pc = "accepted" => askRow'[client[c].key].st # "NONE",
         pc = "accepted" /\ Channel[client[c].key] = "HTTP"
            => askRow'[client[c].key].text = client[c].text,
         \A k \in Keys : A!Created(k) => askRow'[k] = askRow[k]
  PROVE  client' \in [Clients -> AskClientType] /\ AskClientsAgree'
<1>1. client' = [client EXCEPT ![c].pc = pc] /\ client \in [Clients -> AskClientType]
  BY DEF A!Reply, AskIInv, AskTypes
<1>2. client' \in [Clients -> AskClientType]
  BY <1>1 DEF AskClientType
<1>3. ASSUME NEW d \in Clients
      PROVE  /\ client'[d].key = client[d].key /\ client'[d].text = client[d].text
             /\ client'[d].pc = IF d = c THEN pc ELSE client[d].pc
  BY <1>1 DEF AskClientType
<1>4. client[c].key \in Keys /\ client[c].text \in Texts
  BY DEF AskIInv, AskClientsAgree
<1> QED
  BY <1>2, <1>3, <1>4 DEF AskIInv, AskClientsAgree, A!Created

(* A new row, or the rows as they were.                                     *)
LEMMA AskInsertKeeps ==
  ASSUME A!AskAssumption, AskIInv, NEW k \in Keys, NEW t \in Texts,
         \/ ~A!Created(k) /\ A!Insert(k, t)
         \/ askRow' = askRow /\ order' = order,
         askNotice' = askNotice, asker' = asker
  PROVE  /\ askRow' \in [Keys -> AskRowType] /\ order' \in Seq(Keys)
         /\ AskOrderLists' /\ AskAnswersBelong' /\ AskNoticesTold' /\ AskWorkersAgree'
         /\ \A j \in Keys : A!Created(j) => askRow'[j] = askRow[j]
<1>1. CASE askRow' = askRow /\ order' = order
  BY <1>1 DEF AskIInv, AskTypes, AskOrderLists, AskAnswersBelong, AskNoticesTold, AskDecided,
              AskWorkersAgree, A!Created
<1>2. CASE ~A!Created(k) /\ A!Insert(k, t)
  <2>1. order' \in Seq(Keys) /\ AskOrderLists'
    BY <1>2, AskOrderGrows DEF AskIInv
  <2>2. askRow' = [askRow EXCEPT ![k] = [st |-> "PENDING", text |-> t, answer |-> Nil,
                                         expired |-> FALSE]]
    BY <1>2 DEF A!Insert
  <2>3. askRow' \in [Keys -> AskRowType]
    BY <2>2 DEF AskIInv, AskTypes, AskRowType
  <2>4. \A j \in Keys : A!Created(j) => askRow'[j] = askRow[j]
    BY <1>2, <2>2 DEF AskIInv, AskTypes, A!Created
  <2>5. AskAnswersBelong' /\ AskNoticesTold'
    BY <1>2, <2>2 DEF AskIInv, AskTypes, AskAnswersBelong, AskNoticesTold, AskDecided, A!Created
  <2>6. AskWorkersAgree'
    BY <1>2, <2>4 DEF AskIInv, AskWorkersAgree, A!Created
  <2> QED
    BY <2>1, <2>3, <2>4, <2>5, <2>6
<1> QED
  BY <1>1, <1>2

LEMMA AskAdmissionKeeps ==
  ASSUME A!AskAssumption, AskIInv, NEW c \in Clients,
         A!EnqueueTelegram(c) \/ A!ReadHttp(c) \/ A!InsertHttp(c)
  PROVE  AskIInv'
<1> DEFINE k == client[c].key
           t == client[c].text
<1>1. client[c].pc \in {"sent", "inserting"} /\ k \in Keys /\ t \in Texts
  BY DEF A!EnqueueTelegram, A!ReadHttp, A!InsertHttp, AskIInv, AskClientsAgree
<1>2. /\ \/ ~A!Created(k) /\ A!Insert(k, t)
         \/ askRow' = askRow /\ order' = order
      /\ askNotice' = askNotice /\ asker' = asker
  BY DEF A!EnqueueTelegram, A!ReadHttp, A!InsertHttp, A!OnlyAdmission
<1>3. /\ askRow' \in [Keys -> AskRowType] /\ order' \in Seq(Keys)
      /\ AskOrderLists' /\ AskAnswersBelong' /\ AskNoticesTold' /\ AskWorkersAgree'
      /\ \A j \in Keys : A!Created(j) => askRow'[j] = askRow[j]
  BY <1>1, <1>2, AskInsertKeeps
<1>4. \E pc \in {"inserting", "accepted", "conflict"} :
         /\ A!Reply(c, pc)
         /\ pc = "inserting" => Channel[k] = "HTTP"
         /\ pc = "accepted" => askRow'[k].st # "NONE"
         /\ pc = "accepted" /\ Channel[k] = "HTTP" => askRow'[k].text = t
  <2>0. askRow \in [Keys -> AskRowType]
    BY DEF AskIInv, AskTypes
  <2>1. CASE A!EnqueueTelegram(c)
    BY <1>1, <2>0, <2>1 DEF A!EnqueueTelegram, A!Insert, A!Created
  <2>2. CASE A!ReadHttp(c)
    BY <1>1, <2>0, <2>2 DEF A!ReadHttp, A!Verdict, A!Created
  <2>3. CASE A!InsertHttp(c)
    BY <1>1, <2>0, <2>3 DEF A!InsertHttp, A!Verdict, A!Insert, A!Created
  <2> QED
    BY <2>1, <2>2, <2>3
<1>5. client' \in [Clients -> AskClientType] /\ AskClientsAgree'
  BY <1>1, <1>3, <1>4, AskReplyKeeps
<1>6. (A!Alone => AskHeld)'
  BY <1>2, <1>3, AskHeldKept DEF A!Created
<1> QED
  BY <1>2, <1>3, <1>5, <1>6 DEF AskIInv, AskTypes

(* A step of one process that leaves the rows alone.                        *)
LEMMA AskWorkKeeps ==
  ASSUME AskIInv, NEW p \in Processes, NEW new \in AskProcessType, A!Set(p, new), A!OnlyProcess,
         askRow' = askRow, order' = order, askNotice' = askNotice,
         asker[p].pc # "off", new.pc # "off",
         AskBusy(new) => AskBusy(asker[p]) /\ new.key = asker[p].key,
         new.pc \in {"complete", "completing"} => new.answer \in A!Answers
  PROVE  AskIInv'
<1>1. asker' = [asker EXCEPT ![p] = new] /\ client' = client
  BY DEF A!Set, A!OnlyProcess
<1>2. AskTypes' /\ AskWorkersAgree'
  BY <1>1 DEF AskIInv, AskTypes, AskWorkersAgree, A!Created
<1>3. AskOrderLists' /\ AskAnswersBelong' /\ AskNoticesTold' /\ AskClientsAgree'
  BY <1>1 DEF AskIInv, AskOrderLists, AskAnswersBelong, AskNoticesTold, AskDecided,
              AskClientsAgree, A!Created
<1>4. (A!Alone => AskHeld)'
  BY <1>1, AskHeldMoves DEF AskIInv, AskHeld
<1> QED
  BY <1>2, <1>3, <1>4 DEF AskIInv

(* The process is done with the question, or done but for the commit.       *)
LEMMA AskEndsKeep ==
  ASSUME AskIInv, NEW p \in Processes, AskBusy(asker[p]),
         NEW pc \in {"complete", "failed"}, NEW answer \in A!Answers \cup {Nil},
         pc = "complete" => answer \in A!Answers,
         A!Ends(p, pc, answer), A!OnlyProcess,
         askRow' = askRow, order' = order, askNotice' = askNotice
  PROVE  AskIInv'
<1>1. asker[p].key \in Keys /\ asker[p].pc # "off"
  BY DEF AskIInv, AskWorkersAgree, AskBusy
<1> DEFINE new == [A!Idle EXCEPT !.pc = pc, !.key = asker[p].key, !.answer = answer]
<1>2. new \in AskProcessType /\ new.pc = pc /\ new.key = asker[p].key /\ new.answer = answer
  BY <1>1 DEF A!Idle, AskProcessType
<1>3. A!Set(p, new)
  BY DEF A!Ends
<1> HIDE DEF new
<1>4. AskBusy(new) => AskBusy(asker[p]) /\ new.key = asker[p].key
  BY <1>2
<1>5. new.pc \in {"complete", "completing"} => new.answer \in A!Answers
  BY <1>2
<1> QED
  BY <1>1, <1>2, <1>3, <1>4, <1>5, AskWorkKeeps

LEMMA AskIdleTyped == A!Idle \in AskProcessType /\ A!Idle.pc = "idle" /\ ~AskBusy(A!Idle)
  BY DEF A!Idle, AskProcessType, AskBusy

LEMMA AskCollectKeeps ==
  ASSUME AskIInv, NEW p \in Processes, NEW context \in A!Contexts, A!Collect(p, context)
  PROVE  AskIInv'
<1> DEFINE pr == asker[p]
           new == [pr EXCEPT !.pc = "asking", !.context = context, !.round = 1]
<1>1. pr \in AskProcessType /\ pr.pc = "claimed" /\ AskBusy(pr)
  BY DEF A!Collect, AskIInv, AskTypes, AskBusy
<1>2. context \in SUBSET UNION A!Contexts
  OBVIOUS
<1>3. /\ askRow' = askRow /\ order' = order /\ askNotice' = askNotice /\ A!OnlyProcess
      /\ \/ A!Set(p, A!Idle)
         \/ A!Ends(p, "complete", A!Controlled("NO_RESULTS"))
         \/ A!Set(p, new)
  BY DEF A!Collect, A!rowVars
<1>4. CASE A!Set(p, A!Idle)
  BY <1>1, <1>3, <1>4, AskIdleTyped, AskWorkKeeps
<1>5. CASE A!Ends(p, "complete", A!Controlled("NO_RESULTS"))
  BY <1>1, <1>3, <1>5, AskControlledAnswers, AskEndsKeep
<1>6. CASE A!Set(p, new)
  <2>1. new \in AskProcessType /\ new.pc = "asking" /\ new.key = pr.key
    BY <1>1, <1>2 DEF AskProcessType
  <2> HIDE DEF new
  <2> QED
    BY <1>1, <1>3, <1>6, <2>1, AskWorkKeeps
<1> QED
  BY <1>3, <1>4, <1>5, <1>6

LEMMA AskProviderKeeps ==
  ASSUME A!AskAssumption, AskIInv, NEW p \in Processes,
         \/ \E transient \in BOOLEAN : A!ProviderFails(p, transient)
         \/ \E sufficient \in BOOLEAN, cites \in Replies : A!ProviderAnswers(p, sufficient, cites)
  PROVE  AskIInv'
<1> DEFINE pr == asker[p]
<1>1. pr \in AskProcessType /\ pr.pc = "asking" /\ AskBusy(pr)
  BY DEF A!ProviderFails, A!ProviderAnswers, AskIInv, AskTypes, AskBusy
<1>2. askRow' = askRow /\ order' = order /\ askNotice' = askNotice /\ A!OnlyProcess
  BY DEF A!ProviderFails, A!ProviderAnswers, A!rowVars
<1>3. ASSUME NEW new \in AskProcessType, A!Set(p, new), new.pc = "asking", new.key = pr.key
      PROVE  AskIInv'
  BY <1>1, <1>2, <1>3, AskWorkKeeps
<1>4. ASSUME NEW transient \in BOOLEAN, A!ProviderFails(p, transient) PROVE AskIInv'
  <2>1. CASE transient /\ pr.attempt + 1 < ProviderAttempts
    <3> DEFINE new == [pr EXCEPT !.attempt = @ + 1]
    <3>1. A!Set(p, new)
      BY <1>4, <2>1 DEF A!ProviderFails
    <3>2. new \in AskProcessType /\ new.pc = "asking" /\ new.key = pr.key
      BY <1>1 DEF AskProcessType
    <3> HIDE DEF new
    <3> QED
      BY <1>3, <3>1, <3>2
  <2>2. CASE ~(transient /\ pr.attempt + 1 < ProviderAttempts)
    <3>1. A!Ends(p, "failed", Nil)
      BY <1>4, <2>2 DEF A!ProviderFails
    <3> QED
      BY <1>1, <1>2, <3>1, AskEndsKeep
  <2> QED
    BY <2>1, <2>2
<1>5. ASSUME NEW sufficient \in BOOLEAN, NEW cites \in Replies,
             A!ProviderAnswers(p, sufficient, cites)
      PROVE  AskIInv'
  <2>1. CASE sufficient /\ A!Grounded(cites, pr.context)
    <3>1. A!Ends(p, "complete", A!Cited(cites))
      BY <1>5, <2>1 DEF A!ProviderAnswers
    <3>2. A!Cited(cites) \in A!Answers
      BY <1>1, <2>1, AskCitedAnswers DEF AskProcessType
    <3> QED
      BY <1>1, <1>2, <3>1, <3>2, AskEndsKeep
  <2>2. CASE sufficient /\ ~A!Grounded(cites, pr.context) /\ pr.round = 1
    <3> DEFINE new == [pr EXCEPT !.round = 2, !.attempt = 0]
    <3>0. pr.round # 2
      BY <2>2
    <3>1. A!Set(p, new)
      BY <1>5, <2>2, <3>0, Zenon DEF A!ProviderAnswers
    <3>2. new \in AskProcessType /\ new.pc = "asking" /\ new.key = pr.key
      BY <1>1 DEF AskProcessType
    <3> HIDE DEF new
    <3> QED
      BY <1>3, <3>1, <3>2
  <2>3. CASE ~sufficient \/ (~A!Grounded(cites, pr.context) /\ pr.round # 1)
    <3>1. A!Ends(p, "complete", A!Controlled("INSUFFICIENT_CONTEXT"))
      BY <1>5, <2>3 DEF A!ProviderAnswers
    <3> QED
      BY <1>1, <1>2, <3>1, AskControlledAnswers, AskEndsKeep
  <2> QED
    BY <2>1, <2>2, <2>3
<1> QED
  BY <1>4, <1>5

(* The status is read once more; nothing is written yet.                    *)
LEMMA AskRereadKeeps ==
  ASSUME AskIInv, NEW p \in Processes, A!Reread(p)
  PROVE  AskIInv'
<1> DEFINE pr == asker[p]
<1>1. /\ pr \in AskProcessType /\ pr.pc \in {"complete", "failed"} /\ AskBusy(pr)
      /\ pr.pc = "complete" => pr.answer \in A!Answers
  BY DEF A!Reread, AskIInv, AskTypes, AskWorkersAgree, AskBusy
<1>2. PICK pc \in {"completing", "failing"} :
         pc = IF pr.pc = "complete" THEN "completing" ELSE "failing"
  OBVIOUS
<1> DEFINE new == [pr EXCEPT !.pc = pc]
<1>3. /\ askRow' = askRow /\ order' = order /\ askNotice' = askNotice /\ A!OnlyProcess
      /\ A!Set(p, A!Idle) \/ A!Set(p, new)
  BY <1>2 DEF A!Reread, A!rowVars
<1>4. CASE A!Set(p, A!Idle)
  BY <1>1, <1>3, <1>4, AskIdleTyped, AskWorkKeeps
<1>5. CASE A!Set(p, new)
  <2>1. new \in AskProcessType /\ new.pc = pc /\ new.key = pr.key /\ new.answer = pr.answer
    BY <1>1 DEF AskProcessType
  <2>2. new.pc = "completing" => new.answer \in A!Answers
    BY <1>1, <1>2, <2>1
  <2> HIDE DEF new
  <2> QED
    BY <1>1, <1>3, <1>5, <2>1, <2>2, AskWorkKeeps
<1> QED
  BY <1>3, <1>4, <1>5

(* A step that moves rows between states, each with its announcement, and   *)
(* leaves the clients alone: what it must respect.                          *)
AskRowsMove == /\ askRow' \in [Keys -> AskRowType] /\ order' = order /\ client' = client
               /\ \A k \in Keys : /\ A!Created(k)' <=> A!Created(k)
                                  /\ askRow'[k].text = askRow[k].text
LEMMA AskMoveKeeps ==
  ASSUME AskIInv, AskRowsMove
  PROVE  AskOrderLists' /\ AskClientsAgree'
<1>1. AskOrderLists'
  BY AskOrderKept DEF AskIInv, AskRowsMove
<1>2. AskClientsAgree'
  BY DEF AskIInv, AskClientsAgree, AskRowsMove
<1> QED
  BY <1>1, <1>2

LEMMA AskClaimKeeps ==
  ASSUME AskIInv, NEW p \in Processes, NEW n \in 1..A!Cardinality(Keys), A!Claim(p, n)
  PROVE  AskIInv'
<1> DEFINE k == order[n]
           new == [A!Idle EXCEPT !.pc = "claimed", !.key = k]
<1>1. n \in DOMAIN order /\ k \in Keys /\ askRow[k].st = "PENDING"
  BY DEF A!Claim, AskIInv, AskTypes
<1>2. /\ askRow' = [askRow EXCEPT ![k].st = "RUNNING"] /\ order' = order /\ askNotice' = askNotice
      /\ asker' = [asker EXCEPT ![p] = new] /\ client' = client
  BY DEF A!Claim, A!Set, A!OnlyProcess
<1>3. askRow \in [Keys -> AskRowType] /\ asker \in [Processes -> AskProcessType]
  BY DEF AskIInv, AskTypes
<1>4. askRow' \in [Keys -> AskRowType]
  BY <1>1, <1>2, <1>3 DEF AskRowType
<1>5. \A j \in Keys : /\ askRow'[j].text = askRow[j].text /\ askRow'[j].answer = askRow[j].answer
                      /\ askRow'[j].expired = askRow[j].expired
                      /\ askRow'[j].st = IF j = k THEN "RUNNING" ELSE askRow[j].st
  BY <1>1, <1>2, <1>3 DEF AskRowType
<1>6. AskOrderLists' /\ AskClientsAgree'
  BY <1>1, <1>2, <1>4, <1>5, AskMoveKeeps DEF AskRowsMove, A!Created
<1>7. AskAnswersBelong' /\ AskNoticesTold'
  BY <1>1, <1>2, <1>5 DEF AskIInv, AskAnswersBelong, AskNoticesTold, AskDecided
<1>8. new \in AskProcessType /\ new.pc = "claimed" /\ new.key = k
  BY <1>1 DEF A!Idle, AskProcessType
<1>9. asker' \in [Processes -> AskProcessType] /\ AskWorkersAgree'
  <2> HIDE DEF new, k
  <2>1. asker' \in [Processes -> AskProcessType]
    BY <1>2, <1>3, <1>8
  <2>2. \A q \in Processes : asker'[q] = IF q = p THEN new ELSE asker[q]
    BY <1>2, <1>3
  <2>3. \A j \in Keys : A!Created(j) => A!Created(j)'
    BY <1>5 DEF A!Created
  <2>4. askRow'[k].st # "NONE"
    BY <1>1, <1>5
  <2> QED
    BY <1>1, <1>8, <2>1, <2>2, <2>3, <2>4 DEF AskIInv, AskWorkersAgree, AskBusy, A!Created
<1>10. (A!Alone => AskHeld)'
  <2>1. asker[p].pc # "off" /\ askRow'[new.key].st = "RUNNING"
    BY <1>1, <1>5, <1>8 DEF A!Claim
  <2> HIDE DEF new, k
  <2> QED
    BY <1>2, <1>8, <2>1, AskHeldMoves
<1> QED
  BY <1>2, <1>4, <1>6, <1>7, <1>9, <1>10 DEF AskIInv, AskTypes

(* The final commits, by id: whatever the row has become, it is decided     *)
(* then.                                                                    *)
AskCommits(p, k, st, type) ==
    /\ asker[p].pc = (IF st = "DONE" THEN "completing" ELSE "failing") /\ k = asker[p].key
    /\ askRow' \in [Keys -> AskRowType]
    /\ \A j \in Keys \ {k} : askRow'[j] = askRow[j]
    /\ askRow'[k].st = st /\ askRow'[k].text = askRow[k].text
    /\ askRow'[k].answer # Nil => Channel[k] = "HTTP"
    /\ A!Notify(k, type) /\ A!Set(p, A!Idle) /\ order' = order /\ client' = client

LEMMA AskCommitMakes ==
  ASSUME AskIInv, NEW p \in Processes, A!Complete(p) \/ A!Fail(p)
  PROVE  \E k \in Keys :
            AskCommits(p, k, "DONE", "ASK_RESULT") \/ AskCommits(p, k, "FAILED", "ASK_FAILED")
<1>1. asker[p].key \in Keys /\ (asker[p].pc = "completing" => asker[p].answer \in A!Answers)
  BY DEF A!Complete, A!Fail, AskIInv, AskWorkersAgree, AskBusy
<1>2. PICK k \in Keys : k = asker[p].key
  BY <1>1
<1>3. askRow \in [Keys -> AskRowType] /\ askRow[k] \in AskRowType
  BY DEF AskIInv, AskTypes
<1>4. askRow[k].answer # Nil => Channel[k] = "HTTP"
  BY DEF AskIInv, AskAnswersBelong
<1>5. ASSUME A!Fail(p) PROVE AskCommits(p, k, "FAILED", "ASK_FAILED")
  BY <1>2, <1>3, <1>4, <1>5 DEF A!Fail, A!OnlyProcess, AskCommits, AskRowType
<1>6. ASSUME A!Complete(p) PROVE AskCommits(p, k, "DONE", "ASK_RESULT")
  <2>1. asker[p].answer \in A!Answers
    BY <1>1, <1>6 DEF A!Complete
  <2> DEFINE answered == [askRow[k] EXCEPT !.st = "DONE", !.answer = asker[p].answer,
                                           !.expired = FALSE]
             announced == [askRow[k] EXCEPT !.st = "DONE"]
  <2>2. /\ answered \in AskRowType /\ answered.st = "DONE" /\ answered.text = askRow[k].text
        /\ announced \in AskRowType /\ announced.st = "DONE" /\ announced.text = askRow[k].text
        /\ announced.answer = askRow[k].answer
    BY <1>3, <2>1 DEF AskRowType
  <2>3. askRow' = [askRow EXCEPT ![k] = IF Channel[k] = "HTTP" THEN answered ELSE announced]
    BY <1>2, <1>6 DEF A!Complete
  <2>4. /\ A!Notify(k, "ASK_RESULT") /\ A!Set(p, A!Idle) /\ order' = order /\ client' = client
        /\ asker[p].pc = "completing"
    BY <1>2, <1>6 DEF A!Complete, A!OnlyProcess
  <2> HIDE DEF answered, announced
  <2>5. /\ askRow' \in [Keys -> AskRowType]
        /\ \A j \in Keys \ {k} : askRow'[j] = askRow[j]
        /\ askRow'[k] = IF Channel[k] = "HTTP" THEN answered ELSE announced
    BY <1>3, <2>2, <2>3
  <2> QED
    BY <1>2, <1>4, <2>2, <2>4, <2>5 DEF AskCommits
<1> QED
  BY <1>5, <1>6

LEMMA AskCommitKeeps ==
  ASSUME A!AskAssumption, AskIInv, NEW p \in Processes, A!Complete(p) \/ A!Fail(p)
  PROVE  AskIInv'
<1>1. PICK k \in Keys, st \in {"DONE", "FAILED"}, type \in {"ASK_RESULT", "ASK_FAILED"} :
         AskCommits(p, k, st, type) /\ type = IF st = "DONE" THEN "ASK_RESULT" ELSE "ASK_FAILED"
  BY AskCommitMakes
<1>2. /\ askRow' \in [Keys -> AskRowType] /\ order' = order /\ client' = client
      /\ asker' = [asker EXCEPT ![p] = A!Idle] /\ AskBusy(asker[p]) /\ A!Created(k)
  BY <1>1 DEF AskCommits, A!Set, AskBusy, AskIInv, AskWorkersAgree
<1>3. asker' \in [Processes -> AskProcessType]
  BY <1>2, AskIdleTyped DEF AskIInv, AskTypes
<1>4. /\ askRow'[k].st = st /\ askRow'[k].text = askRow[k].text
      /\ \A j \in Keys \ {k} : askRow'[j] = askRow[j]
  BY <1>1 DEF AskCommits
<1>5. AskOrderLists' /\ AskClientsAgree'
  BY <1>2, <1>4, AskMoveKeeps DEF AskRowsMove, A!Created
<1>6. AskAnswersBelong'
  BY <1>1, <1>4 DEF AskIInv, AskAnswersBelong, AskDecided, AskCommits
<1>7. /\ askNotice' \in [Keys -> SUBSET {"ASK_RESULT", "ASK_FAILED"}]
      /\ \A j \in Keys : askNotice'[j] = IF j = k /\ Channel[k] # "HTTP"
                                        THEN askNotice[k] \cup {type} ELSE askNotice[j]
  BY <1>1 DEF AskIInv, AskTypes, AskCommits, A!Notify
<1>8. AskNoticesTold'
  BY <1>1, <1>4, <1>7 DEF AskIInv, AskNoticesTold, AskDecided
<1>9. AskWorkersAgree'
  BY <1>2, <1>4, AskIdleTyped DEF AskIInv, AskTypes, AskWorkersAgree, A!Created
<1>10. (A!Alone => AskHeld)'
  BY <1>2, AskIdleTyped, AskHeldMoves
<1> QED
  BY <1>2, <1>3, <1>5, <1>6, <1>7, <1>8, <1>9, <1>10 DEF AskIInv, AskTypes

(* Answers grow old and go.                                                 *)
LEMMA AskAgeKeeps ==
  ASSUME AskIInv, (\E k \in Keys : A!Expire(k)) \/ (\E p \in Processes : A!ClearExpired(p))
  PROVE  AskIInv'
<1>1. /\ order' = order /\ client' = client /\ asker' = asker /\ askNotice' = askNotice
      /\ askRow \in [Keys -> AskRowType]
  BY DEF A!Expire, A!ClearExpired, AskIInv, AskTypes
<1>2. /\ askRow' \in [Keys -> AskRowType]
      /\ \A j \in Keys : /\ askRow'[j].st = askRow[j].st /\ askRow'[j].text = askRow[j].text
                         /\ askRow'[j].answer \in {askRow[j].answer, Nil}
                         /\ askRow'[j].expired => askRow[j].expired \/ askRow[j].answer # Nil
  <2>1. CASE \E k \in Keys : A!Expire(k)
    <3>1. PICK k \in Keys : A!Expire(k)
      BY <2>1
    <3>2. askRow' = [askRow EXCEPT ![k].expired = TRUE] /\ askRow[k].answer # Nil
      BY <3>1 DEF A!Expire
    <3>3. askRow' \in [Keys -> AskRowType]
      BY <1>1, <3>2 DEF AskRowType
    <3> QED
      BY <1>1, <3>2, <3>3 DEF AskRowType
  <2>2. CASE \E p \in Processes : A!ClearExpired(p)
    BY <1>1, <2>2 DEF A!ClearExpired, AskRowType
  <2> QED
    BY <2>1, <2>2
<1>3. AskOrderLists' /\ AskClientsAgree'
  BY <1>1, <1>2, AskMoveKeeps DEF AskRowsMove, A!Created
<1>4. AskAnswersBelong' /\ AskNoticesTold' /\ AskWorkersAgree'
  BY <1>1, <1>2 DEF AskIInv, AskAnswersBelong, AskNoticesTold, AskDecided, AskWorkersAgree,
                    A!Created
<1>5. (A!Alone => AskHeld)'
  BY <1>1, <1>2, AskHeldKept
<1> QED
  BY <1>1, <1>2, <1>3, <1>4, <1>5 DEF AskIInv, AskTypes

LEMMA AskRestartKeeps ==
  ASSUME AskIInv, NEW p \in Processes, A!Restart(p)
  PROVE  AskIInv'
<1>1. /\ order' = order /\ client' = client /\ askNotice' = askNotice
      /\ asker' = [asker EXCEPT ![p] = A!Idle]
      /\ askRow \in [Keys -> AskRowType] /\ asker \in [Processes -> AskProcessType]
  BY DEF A!Restart, A!Set, AskIInv, AskTypes
<1>2. /\ askRow' \in [Keys -> AskRowType]
      /\ \A j \in Keys : /\ askRow'[j].text = askRow[j].text /\ askRow'[j].answer = askRow[j].answer
                         /\ askRow'[j].expired = askRow[j].expired
                         /\ askRow'[j].st = IF askRow[j].st = "RUNNING" THEN "PENDING" ELSE askRow[j].st
  BY <1>1 DEF A!Restart, AskRowType
<1>3. AskOrderLists' /\ AskClientsAgree'
  BY <1>1, <1>2, AskMoveKeeps DEF AskRowsMove, A!Created
<1>4. AskAnswersBelong' /\ AskNoticesTold'
  BY <1>1, <1>2 DEF AskIInv, AskAnswersBelong, AskNoticesTold, AskDecided
<1>5. asker' \in [Processes -> AskProcessType] /\ AskWorkersAgree'
  BY <1>1, <1>2, AskIdleTyped DEF AskIInv, AskWorkersAgree, A!Created
<1>6. (A!Alone => AskHeld)'
  BY <1>1, AskIdleTyped, AskHeldMoves
<1> QED
  BY <1>1, <1>2, <1>3, <1>4, <1>5, <1>6 DEF AskIInv, AskTypes

LEMMA AskStepInvariant == ASSUME A!AskAssumption, AskIInv, [A!Next]_(A!vars) PROVE AskIInv'
<1>1. CASE \E c \in Clients : \E a \in Asked[c] : A!Send(c, a[1], a[2])
  BY <1>1, AskSendKeeps
<1>2. CASE \E c \in Clients : A!EnqueueTelegram(c) \/ A!ReadHttp(c) \/ A!InsertHttp(c)
  BY <1>2, AskAdmissionKeeps
<1>3. ASSUME NEW p \in Processes, A!ProcessStep(p) PROVE AskIInv'
  BY <1>3, AskClaimKeeps, AskCollectKeeps, AskProviderKeeps, AskRereadKeeps, AskCommitKeeps
  DEF A!ProcessStep
<1>4. CASE \E p \in Processes : A!Restart(p)
  BY <1>4, AskRestartKeeps
<1>5. CASE (\E k \in Keys : A!Expire(k)) \/ (\E p \in Processes : A!ClearExpired(p))
  BY <1>5, AskAgeKeeps
<1>6. CASE UNCHANGED A!vars
  <2>1. UNCHANGED <<askRow, order, askNotice, client, asker>>
    BY <1>6 DEF A!vars
  <2>2. (A!Alone => AskHeld)'
    BY <2>1, AskHeldKept
  <2> QED
    BY <2>1, <2>2 DEF AskIInv, AskTypes, AskOrderLists, AskAnswersBelong, AskNoticesTold,
                      AskDecided, AskClientsAgree, AskWorkersAgree, A!Created
<1> QED
  <2>1. CASE A!Next
    BY <1>1, <1>2, <1>3, <1>4, <1>5, <2>1, Zenon DEF A!Next
  <2> QED
    BY <1>6, <2>1

(* The inductive invariant holds for any constants: whoever overlaps, no    *)
(* announcement comes before the outcome and no outcome without its         *)
(* announcement; and a single process finds the question it read RUNNING    *)
(* still RUNNING when it writes by id (_complete, fail).                    *)
THEOREM AskInvariance == ASSUME A!AskAssumption PROVE A!Spec => []AskIInv
  BY AskInitInvariant, AskStepInvariant, PTL DEF A!Spec

-----------------------------------------------------------------------------
(* Rows, announcements, clients and processes keep their types, and the     *)
(* order lists every row once.                                              *)
THEOREM AskTypeCorrect == ASSUME A!AskAssumption PROVE A!Spec => []A!TypeOK
<1>1. AskIInv => A!TypeOK
  BY DEF AskIInv, AskTypes, AskRowType, AskOrderLists, AskAnswersBelong, AskDecided,
         AskWorkersAgree, AskBusy, A!TypeOK, A!Cardinality, Cardinality
<1> QED
  BY <1>1, AskInvariance, PTL

(* A client that was told its HTTP question is accepted has that question   *)
(* in the row that is answered (enqueue_http_ask).                          *)
THEOREM AskOwnQuestionAccepted == ASSUME A!AskAssumption PROVE A!Spec => []A!AcceptedIsStored
<1>1. AskIInv => A!AcceptedIsStored
  BY DEF AskIInv, AskClientsAgree, A!AcceptedIsStored
<1> QED
  BY <1>1, AskInvariance, PTL

-----------------------------------------------------------------------------
(* What is decided stays decided, while no second process writes, and an    *)
(* answer can only be cleared.                                              *)
AskKept(k) == /\ askRow'[k].st = askRow[k].st
              /\ askRow'[k].answer \in {askRow[k].answer, Nil}
              /\ askRow[k].expired => askRow'[k].expired

LEMMA AskDecidedKept ==
  ASSUME AskIInv, A!Alone, [A!Next]_(A!vars), NEW k \in Keys, AskDecided(k)
  PROVE  AskKept(k)
<1>1. askRow \in [Keys -> AskRowType]
  BY DEF AskIInv, AskTypes
<1>2. CASE askRow' = askRow
  BY <1>2 DEF AskKept
<1>3. CASE \E c \in Clients : A!EnqueueTelegram(c) \/ A!ReadHttp(c) \/ A!InsertHttp(c)
  BY <1>1, <1>2, <1>3 DEF A!EnqueueTelegram, A!ReadHttp, A!InsertHttp, A!Insert, A!Created,
                          AskDecided, AskKept
<1>4. ASSUME NEW p \in Processes, NEW n \in 1..A!Cardinality(Keys), A!Claim(p, n) PROVE AskKept(k)
  BY <1>1, <1>4 DEF A!Claim, AskDecided, AskKept, AskRowType
<1>5. ASSUME NEW p \in Processes, A!Complete(p) \/ A!Fail(p) PROVE AskKept(k)
  <2>1. PICK j \in Keys, st \in {"DONE", "FAILED"}, type \in {"ASK_RESULT", "ASK_FAILED"} :
           AskCommits(p, j, st, type)
    BY <1>5, AskCommitMakes
  <2>2. askRow[j].st = "RUNNING"
    BY <2>1 DEF AskCommits, AskIInv, AskHeld, AskBusy
  <2> QED
    BY <1>2, <2>1, <2>2 DEF AskCommits, AskDecided, AskKept
<1>6. CASE \/ \E p \in Processes : A!ClearExpired(p) \/ A!Restart(p)
           \/ \E j \in Keys : A!Expire(j)
  BY <1>1, <1>6 DEF A!ClearExpired, A!Restart, A!Expire, AskDecided, AskKept, AskRowType
<1>7. CASE \E c \in Clients : \E a \in Asked[c] : A!Send(c, a[1], a[2])
  BY <1>2, <1>7 DEF A!Send, A!rowVars
<1>8. ASSUME NEW p \in Processes, A!ProcessStep(p) PROVE AskKept(k)
  BY <1>2, <1>4, <1>5, <1>8
     DEF A!ProcessStep, A!Collect, A!ProviderFails, A!ProviderAnswers, A!Reread, A!rowVars
<1> QED
  BY <1>2, <1>3, <1>6, <1>7, <1>8 DEF A!Next, A!vars

LEMMA AskAnswerCodes ==
  ASSUME NEW answer \in A!Answers
  PROVE  answer.code \in {"NO_RESULTS", "INSUFFICIENT_CONTEXT", "CITED"}
  BY DEF A!Answers, A!Controlled, A!Cited

(* As long as no second process has been started, a poll never takes back   *)
(* what an earlier poll of the question said: GET /v1/asks/{id} goes from   *)
(* "pending" to an answer or to "failed" and from an answer only to "gone", *)
(* however often the one process dies between its read and its write.       *)
THEOREM AskPollsAgree == ASSUME A!AskAssumption PROVE A!Spec => A!PublishedStays
<1> DEFINE Stays(k) == A!Alone /\ A!Published(k).code # "pending" =>
                          \/ A!Published(k)' = A!Published(k)
                          \/ A!Published(k).code # "failed" /\ (A!Published(k).code)' = "gone"
<1>1. ASSUME AskIInv, [A!Next]_(A!vars), NEW k \in Keys PROVE Stays(k)
  <2> SUFFICES ASSUME A!Alone PROVE Stays(k)
    OBVIOUS
  <2>1. askRow[k] \in AskRowType
    BY <1>1 DEF AskIInv, AskTypes
  <2>2. CASE ~AskDecided(k)
    BY <2>1, <2>2 DEF AskDecided, A!Published, A!Controlled, AskRowType
  <2>3. CASE AskDecided(k)
    <3>1. AskKept(k)
      BY <1>1, <2>3, AskDecidedKept
    <3>2. CASE askRow[k].st = "FAILED"
      BY <3>1, <3>2 DEF AskKept, A!Published
    <3>3. CASE askRow[k].st = "DONE" /\ (askRow[k].answer = Nil \/ askRow[k].expired)
      BY <3>1, <3>3 DEF AskKept, A!Published
    <3>4. CASE askRow[k].st = "DONE" /\ askRow[k].answer # Nil /\ ~askRow[k].expired
      <4>1. A!Published(k) = askRow[k].answer /\ askRow[k].answer \in A!Answers
        BY <2>1, <3>4 DEF A!Published, AskRowType
      <4>2. A!Published(k).code # "failed"
        BY <4>1, AskAnswerCodes
      <4>3. A!Published(k)' \in {askRow[k].answer, A!Controlled("gone")}
        BY <3>1, <3>4 DEF AskKept, A!Published
      <4> QED
        BY <4>1, <4>2, <4>3 DEF A!Controlled
    <3> QED
      BY <2>3, <3>2, <3>3, <3>4 DEF AskDecided
  <2> QED
    BY <2>2, <2>3
<1>2. AskIInv /\ [A!Next]_(A!vars) => [\A k \in Keys : Stays(k)]_(A!vars)
  BY <1>1
<1>3. A!Spec => [][\A k \in Keys : Stays(k)]_(A!vars)
  BY <1>2, AskInvariance, PTL DEF A!Spec
<1> QED
  BY <1>3 DEF A!PublishedStays

-----------------------------------------------------------------------------
(* The refinement: one outcome for every question.                          *)

AskSameOutcome(k) == A!Outcome'[k] = A!Outcome[k]

LEMMA AskSameOutcomes ==
  ASSUME \A k \in Keys : AskSameOutcome(k), askNotice' = askNotice, A!Alone' <=> A!Alone
  PROVE  [A!Promise!Next]_(A!Promise!vars)
<1>1. A!Outcome' = A!Outcome
  BY DEF AskSameOutcome, A!Outcome
<1>2. A!Alone' = A!Alone
  BY DEF A!Alone
<1> QED
  BY <1>1, <1>2 DEF A!Promise!vars

LEMMA AskOverlaps ==
  ASSUME \A k \in Keys : AskSameOutcome(k), askNotice' = askNotice, ~A!Alone'
  PROVE  [A!Promise!Next]_(A!Promise!vars)
<1>1. A!Outcome' = A!Outcome
  BY DEF AskSameOutcome, A!Outcome
<1>2. A!Alone' = FALSE
  BY DEF A!Alone
<1> QED
  BY <1>1, <1>2 DEF A!Promise!Next, A!Promise!Overlap

LEMMA AskInsertAccepts ==
  ASSUME AskIInv, NEW k \in Keys, NEW t, ~A!Created(k), A!Insert(k, t), askNotice' = askNotice,
         asker' = asker
  PROVE  [A!Promise!Next]_(A!Promise!vars)
<1>1. askRow \in [Keys -> AskRowType]
  BY DEF AskIInv, AskTypes
<1>2. A!Outcome[k] = "none" /\ A!Outcome' = [A!Outcome EXCEPT ![k] = "open"]
  BY <1>1 DEF A!Insert, A!Created, A!Outcome
<1>3. A!Alone' = A!Alone
  BY DEF A!Alone
<1> QED
  BY <1>2, <1>3 DEF A!Promise!Next, A!Promise!Accept

(* The two final commits are the two outcomes of the promise: of an open    *)
(* question they decide, and only a process that overlaps commits once      *)
(* more.                                                                    *)
LEMMA AskCommitDecides ==
  ASSUME A!AskAssumption, AskIInv, NEW p \in Processes, A!Complete(p) \/ A!Fail(p)
  PROVE  [A!Promise!Next]_(A!Promise!vars)
<1>1. PICK k \in Keys, st \in {"DONE", "FAILED"}, type \in {"ASK_RESULT", "ASK_FAILED"} :
         AskCommits(p, k, st, type) /\ type = IF st = "DONE" THEN "ASK_RESULT" ELSE "ASK_FAILED"
  BY AskCommitMakes
<1>2. PICK new \in {"answered", "refused"} : new = IF st = "DONE" THEN "answered" ELSE "refused"
  OBVIOUS
<1>3. PICK owed \in {A!Owed("ASK_RESULT"), A!Owed("ASK_FAILED")} : owed = A!Owed(type)
  OBVIOUS
<1>4. Channel[k] \in {"HTTP", "TELEGRAM"} /\ askRow[k] \in AskRowType
  BY DEF A!AskAssumption, AskIInv, AskTypes
<1>5. owed[k] = IF Channel[k] = "HTTP" THEN {} ELSE {type}
  BY <1>3 DEF A!Owed
<1>6. \A j \in Keys : A!Outcome'[j] = IF j = k THEN new ELSE A!Outcome[j]
  BY <1>1, <1>2 DEF AskCommits, A!Outcome
<1>7. A!Outcome' = [A!Outcome EXCEPT ![k] = new]
  BY <1>6 DEF A!Outcome
<1>8. /\ askNotice \in [Keys -> SUBSET {"ASK_RESULT", "ASK_FAILED"}]
      /\ askNotice' = [askNotice EXCEPT ![k] = @ \cup owed[k]]
  <2>1. askNotice \in [Keys -> SUBSET {"ASK_RESULT", "ASK_FAILED"}]
    BY DEF AskIInv, AskTypes
  <2>2. CASE Channel[k] = "HTTP"
    BY <1>1, <1>5, <2>1, <2>2 DEF AskCommits, A!Notify
  <2>3. CASE Channel[k] # "HTTP"
    BY <1>1, <1>5, <2>1, <2>3 DEF AskCommits, A!Notify
  <2> QED
    BY <2>1, <2>2, <2>3
<1>9. A!Alone' = A!Alone /\ (A!Alone => askRow[k].st = "RUNNING")
  <2>1. asker[p].pc # "off" /\ AskBusy(asker[p]) /\ asker' = [asker EXCEPT ![p] = A!Idle]
    BY <1>1 DEF AskCommits, AskBusy, A!Set
  <2>2. A!Alone' <=> A!Alone
    BY <2>1, AskIdleTyped, AskAloneStays DEF AskIInv
  <2>3. A!Alone => askRow[k].st = "RUNNING"
    BY <1>1, <2>1 DEF AskIInv, AskHeld, AskCommits
  <2> QED
    BY <2>2, <2>3 DEF A!Alone
<1>10. A!Created(k)
  BY <1>1 DEF AskIInv, AskWorkersAgree, AskCommits, AskBusy
<1>11. CASE askRow[k].st \in {"PENDING", "RUNNING"}
  <2>1. A!Outcome[k] = "open" /\ askNotice[k] = {}
    BY <1>11 DEF A!Outcome, AskIInv, AskNoticesTold, AskDecided
  <2>2. CASE st = "DONE"
    BY <1>1, <1>2, <1>3, <1>7, <1>8, <1>9, <2>1, <2>2
    DEF A!Promise!Next, A!Promise!Answer, A!Promise!Decide
  <2>3. CASE st = "FAILED"
    BY <1>1, <1>2, <1>3, <1>7, <1>8, <1>9, <2>1, <2>3
    DEF A!Promise!Next, A!Promise!Refuse, A!Promise!Decide
  <2> QED
    BY <2>2, <2>3
<1>12. CASE askRow[k].st = st
  <2>1. owed[k] \subseteq askNotice[k]
    BY <1>1, <1>4, <1>5, <1>12 DEF AskIInv, AskNoticesTold
  <2>2. askNotice' = askNotice
    BY <1>8, <2>1
  <2>3. A!Outcome[k] = new
    BY <1>2, <1>12 DEF A!Outcome
  <2>4. A!Outcome' = A!Outcome
    BY <1>6, <2>3 DEF A!Outcome
  <2> QED
    BY <1>9, <2>2, <2>4 DEF A!Promise!vars
<1>13. CASE AskDecided(k) /\ askRow[k].st # st
  <2>1. ~A!Alone
    BY <1>9, <1>13 DEF AskDecided
  <2>2. CASE st = "DONE"
    <3>1. A!Outcome[k] = "refused"
      BY <1>13, <2>2 DEF A!Outcome, AskDecided
    <3> QED
      BY <1>1, <1>2, <1>3, <1>7, <1>8, <1>9, <2>1, <2>2, <3>1
      DEF A!Promise!Next, A!Promise!Amend, A!Promise!Decide
  <2>3. CASE st = "FAILED"
    <3>1. A!Outcome[k] = "answered"
      BY <1>13, <2>3 DEF A!Outcome, AskDecided
    <3> QED
      BY <1>1, <1>2, <1>3, <1>7, <1>8, <1>9, <2>1, <2>3, <3>1
      DEF A!Promise!Next, A!Promise!Amend, A!Promise!Decide
  <2> QED
    BY <2>2, <2>3
<1> QED
  BY <1>4, <1>10, <1>11, <1>12, <1>13 DEF AskRowType, AskDecided, A!Created

(* A process that works goes on working.                                    *)
LEMMA AskProcessesRun ==
  ASSUME AskIInv, NEW p \in Processes, A!ProcessStep(p)
  PROVE  A!Alone' <=> A!Alone
<1> DEFINE pr == asker[p]
<1>1. asker[p] \in AskProcessType
  BY DEF AskIInv, AskTypes
<1>2. ASSUME NEW new, pr.pc # "off", new.pc # "off", A!Set(p, new) PROVE A!Alone' <=> A!Alone
  BY <1>2, AskAloneStays DEF AskIInv, A!Set
<1>3. ASSUME NEW pc \in {"claimed", "complete", "failed"}, NEW k, NEW answer, pr.pc # "off",
             A!Set(p, [A!Idle EXCEPT !.pc = pc, !.key = k, !.answer = answer])
      PROVE  A!Alone' <=> A!Alone
  <2>1. [A!Idle EXCEPT !.pc = pc, !.key = k, !.answer = answer].pc # "off"
    BY DEF A!Idle
  <2> QED
    BY <1>2, <1>3, <2>1
<1>4. CASE \E n \in 1..A!Cardinality(Keys) : A!Claim(p, n)
  <2>1. PICK n \in 1..A!Cardinality(Keys) : A!Claim(p, n)
    BY <1>4
  <2>2. [A!Idle EXCEPT !.pc = "claimed", !.key = order[n]].pc # "off"
    BY DEF A!Idle
  <2> QED
    BY <1>2, <2>1, <2>2 DEF A!Claim
<1>5. CASE \E context \in A!Contexts : A!Collect(p, context)
  <2>1. PICK context \in A!Contexts : A!Collect(p, context)
    BY <1>5
  <2>2. [pr EXCEPT !.pc = "asking", !.context = context, !.round = 1].pc # "off"
    BY <1>1 DEF AskProcessType
  <2> QED
    BY <1>2, <1>3, <2>1, <2>2, AskIdleTyped DEF A!Collect, A!Ends
<1>6. CASE \E transient \in BOOLEAN : A!ProviderFails(p, transient)
  <2>1. pr.pc = "asking" /\ [pr EXCEPT !.attempt = @ + 1].pc # "off"
    BY <1>1, <1>6 DEF A!ProviderFails, AskProcessType
  <2> QED
    BY <1>2, <1>3, <1>6, <2>1 DEF A!ProviderFails, A!Ends
<1>7. CASE \E sufficient \in BOOLEAN, cites \in Replies : A!ProviderAnswers(p, sufficient, cites)
  <2>1. pr.pc = "asking" /\ [pr EXCEPT !.round = 2, !.attempt = 0].pc # "off"
    BY <1>1, <1>7 DEF A!ProviderAnswers, AskProcessType
  <2> QED
    BY <1>2, <1>3, <1>7, <2>1 DEF A!ProviderAnswers, A!Ends
<1>8. CASE A!Reread(p)
  <2>1. ASSUME NEW pc \in {"completing", "failing"} PROVE [pr EXCEPT !.pc = pc].pc # "off"
    BY <1>1 DEF AskProcessType
  <2>2. pr.pc # "off" /\ \/ A!Set(p, A!Idle)
                         \/ A!Set(p, [pr EXCEPT !.pc = "completing"])
                         \/ A!Set(p, [pr EXCEPT !.pc = "failing"])
    BY <1>8 DEF A!Reread
  <2> QED
    BY <1>2, <2>1, <2>2, AskIdleTyped
<1>9. CASE A!Complete(p) \/ A!Fail(p)
  BY <1>2, <1>9, AskIdleTyped DEF A!Complete, A!Fail
<1> QED
  BY <1>4, <1>5, <1>6, <1>7, <1>8, <1>9 DEF A!ProcessStep

LEMMA AskStepKeepsPromise ==
  ASSUME A!AskAssumption, AskIInv, [A!Next]_(A!vars)
  PROVE  [A!Promise!Next]_(A!Promise!vars)
<1>1. askRow \in [Keys -> AskRowType]
  BY DEF AskIInv, AskTypes
<1>2. CASE askRow' = askRow /\ askNotice' = askNotice /\ (A!Alone' <=> A!Alone)
  BY <1>2, AskSameOutcomes DEF AskSameOutcome, A!Outcome
<1>3. CASE asker' = asker /\ askRow' = askRow /\ askNotice' = askNotice
  BY <1>2, <1>3 DEF A!Alone
<1>4. ASSUME NEW c \in Clients, A!EnqueueTelegram(c) \/ A!ReadHttp(c) \/ A!InsertHttp(c)
      PROVE  [A!Promise!Next]_(A!Promise!vars)
  <2>1. client[c].key \in Keys /\ askNotice' = askNotice /\ asker' = asker
    BY <1>4 DEF A!EnqueueTelegram, A!ReadHttp, A!InsertHttp, A!OnlyAdmission, AskIInv,
                AskClientsAgree
  <2>2. CASE askRow' = askRow
    BY <1>3, <2>1, <2>2
  <2>3. CASE ~A!Created(client[c].key) /\ A!Insert(client[c].key, client[c].text)
    BY <2>1, <2>3, AskInsertAccepts
  <2> QED
    BY <1>4, <2>2, <2>3 DEF A!EnqueueTelegram, A!ReadHttp, A!InsertHttp
<1>5. ASSUME NEW p \in Processes, A!ProcessStep(p) PROVE [A!Promise!Next]_(A!Promise!vars)
  <2>1. A!Alone' <=> A!Alone
    BY <1>5, AskProcessesRun
  <2>2. ASSUME NEW n \in 1..A!Cardinality(Keys), A!Claim(p, n)
        PROVE  [A!Promise!Next]_(A!Promise!vars)
    <3>1. \A k \in Keys : AskSameOutcome(k)
      BY <1>1, <2>2 DEF A!Claim, AskSameOutcome, A!Outcome, AskRowType
    <3> QED
      BY <2>1, <2>2, <3>1, AskSameOutcomes DEF A!Claim
  <2> QED
    BY <1>2, <1>5, <2>1, <2>2, AskCommitDecides
    DEF A!ProcessStep, A!Collect, A!ProviderFails, A!ProviderAnswers, A!Reread, A!rowVars
<1>6. CASE (\E p \in Processes : A!ClearExpired(p)) \/ (\E j \in Keys : A!Expire(j))
  <2>1. \A k \in Keys : AskSameOutcome(k)
    BY <1>1, <1>6 DEF A!ClearExpired, A!Expire, AskSameOutcome, A!Outcome, AskRowType
  <2>2. askNotice' = askNotice /\ asker' = asker
    BY <1>6 DEF A!ClearExpired, A!Expire
  <2> QED
    BY <2>1, <2>2, AskSameOutcomes DEF A!Alone
<1>7. ASSUME NEW p \in Processes, A!Restart(p) PROVE [A!Promise!Next]_(A!Promise!vars)
  <2>1. (\A k \in Keys : AskSameOutcome(k)) /\ askNotice' = askNotice
    BY <1>1, <1>7 DEF A!Restart, AskSameOutcome, A!Outcome, AskRowType
  <2>2. \A q \in Processes : asker'[q] = IF q = p THEN A!Idle ELSE asker[q]
    BY <1>7 DEF A!Restart, A!Set, AskIInv, AskTypes
  <2>3. CASE p = First
    BY <2>1, <2>2, <2>3, AskSameOutcomes DEF A!Alone
  <2>4. CASE p # First
    BY <2>1, <2>2, <2>4, AskIdleTyped, AskOverlaps DEF A!Alone
  <2> QED
    BY <2>3, <2>4
<1>8. CASE \E c \in Clients : \E a \in Asked[c] : A!Send(c, a[1], a[2])
  BY <1>3, <1>8 DEF A!Send, A!rowVars
<1> QED
  BY <1>3, <1>4, <1>5, <1>6, <1>7, <1>8 DEF A!Next, A!vars

(* While a single process runs, every question of a chat or of the API is   *)
(* answered or refused at most once, and what a Telegram question owes is   *)
(* announced in that commit and never again (_complete, fail).  Once two    *)
(* overlap, a question may go from one outcome to the other but never back  *)
(* to none, every outcome it takes is announced with it, and an             *)
(* announcement stays: the safety part of Promise!Spec.                     *)
THEOREM AskKeepsPromise ==
  ASSUME A!AskAssumption PROVE A!Spec => A!Promise!Init /\ [][A!Promise!Next]_(A!Promise!vars)
<1>1. ASSUME A!Init PROVE A!Promise!Init
  <2>1. A!Outcome = [k \in Keys |-> "none"]
    BY <1>1 DEF A!Init, A!NoRow, A!Outcome
  <2>2. A!Alone = TRUE
    BY <1>1 DEF A!Init, A!Idle, A!Off, A!Alone
  <2> QED
    BY <1>1, <2>1, <2>2 DEF A!Init, A!Promise!Init
<1>2. AskIInv /\ [A!Next]_(A!vars) => [A!Promise!Next]_(A!Promise!vars)
  BY AskStepKeepsPromise
<1> QED
  BY <1>1, <1>2, AskInvariance, PTL DEF A!Spec

-----------------------------------------------------------------------------
(* The three and the exports side by side.  The theorems about exports are  *)
(* those of ExportJobsProofs; the instance repeats the definitions of       *)
(* ExportJobs, which are the same.                                          *)

X == INSTANCE ExportJobsProofs WITH Jobs <- Exports, job <- exportJob, worker <- exporter,
                                    restarts <- exportRestarts, MaxAttempts <- DeliveryAttempts

LEMMA SameGeneration ==
  ASSUME NEW p
  PROVE  E!Generate(p) <=> X!Generate(p)
  BY Zenon DEF E!Generate, X!Generate, E!Claim, X!Claim, E!ReadItems, X!ReadItems,
               E!ReadReferences, X!ReadReferences, E!May, X!May, E!ReadReminders,
               X!ReadReminders, E!ReadEvents, X!ReadEvents, E!ReadContents, X!ReadContents,
               E!Refuse, X!Refuse, E!Project, X!Project, E!WriteTemp, X!WriteTemp, E!Publish,
               X!Publish, E!Validate, X!Validate, E!Abandon, X!Abandon, E!Finish, X!Finish,
               E!Fail, X!Fail, E!Work, X!Work, E!OnlyWorker, X!OnlyWorker, E!Idle, X!Idle,
               E!Reread, X!Reread, E!Commit, X!Commit, E!Notify, X!Notify, E!FileRow, X!FileRow,
               E!Rows, X!Rows, E!Files, X!Files

LEMMA SameCleanup ==
  ASSUME NEW p
  PROVE  E!Cleanup(p) <=> X!Cleanup(p)
  BY Zenon DEF E!Cleanup, X!Cleanup, E!StartCleanup, X!StartCleanup, E!RemoveExpired,
               X!RemoveExpired, E!EndCleanup, X!EndCleanup, E!Work, X!Work, E!OnlyWorker,
               X!OnlyWorker, E!Idle, X!Idle, E!Expired, X!Expired, E!OnDisk, X!OnDisk,
               E!ActiveNames, X!ActiveNames, E!FileRow, X!FileRow, E!Files, X!Files

LEMMA SameSending ==
  ASSUME NEW p
  PROVE  E!Deliver(p) <=> X!Deliver(p)
  BY Zenon DEF E!Deliver, X!Deliver, E!ClaimDelivery, X!ClaimDelivery, E!Load, X!Load, E!Send,
               X!Send, E!RereadRow, X!RereadRow, E!Write, X!Write, E!SenderAt, X!SenderAt,
               E!MarkSent, X!MarkSent, E!RecordFailure, X!RecordFailure, E!RemoveSent, X!RemoveSent, E!OnlySender,
               X!OnlySender, E!Readable, X!Readable, E!Waiting, X!Waiting, E!Rows, X!Rows,
               E!FileRow, X!FileRow

LEMMA SameExports ==
  /\ E!ExportAssumption <=> X!ExportAssumption
  /\ E!Init <=> X!Init
  /\ E!Next <=> X!Next
  /\ E!vars = X!vars
  /\ E!TypeOK <=> X!TypeOK
  /\ E!ActiveDeliveryHasArtifact <=> X!ActiveDeliveryHasArtifact
<1>1. /\ E!ExportAssumption <=> X!ExportAssumption
      /\ E!Init <=> X!Init
      /\ E!vars = X!vars
      /\ E!Files = X!Files
  BY Zenon DEF E!ExportAssumption, X!ExportAssumption, E!Init, X!Init, E!vars, X!vars, E!Files,
               X!Files, E!Rows, X!Rows, E!NoDelivery, X!NoDelivery, E!Idle, X!Idle, E!Off, X!Off,
               E!Waiting, X!Waiting
<1>2. E!TypeOK <=> X!TypeOK
  BY Zenon DEF E!TypeOK, X!TypeOK, E!Files, X!Files, E!Rows, X!Rows
<1>3. E!ActiveDeliveryHasArtifact <=> X!ActiveDeliveryHasArtifact
  BY Zenon DEF E!ActiveDeliveryHasArtifact, X!ActiveDeliveryHasArtifact, E!ActiveNames,
               X!ActiveNames, E!FileRow, X!FileRow, E!Alone, X!Alone
<1>4. E!Next <=> X!Next
  BY <1>1, SameGeneration, SameCleanup, SameSending, Zenon
  DEF E!Next, X!Next, E!Enqueue, X!Enqueue, E!Restart, X!Restart, E!Age, X!Age, E!SaveItem,
      X!SaveItem, E!Reading, X!Reading, E!OnDisk, X!OnDisk, E!Files, X!Files, E!OnlyWorker,
      X!OnlyWorker, E!Idle, X!Idle, E!Waiting, X!Waiting, E!Rows, X!Rows
<1> QED
  BY <1>1, <1>2, <1>3, <1>4

(* A behaviour of all is a behaviour of each: the others' steps leave its   *)
(* columns alone.                                                           *)
LEMMA StartOfEach == Init => P!Init /\ A!Init /\ E!Init /\ S!Init
  BY DEF Init

LEMMA StepOfEach ==
  ASSUME [Next]_allVars
  PROVE  /\ [P!Next]_(P!vars)
         /\ [A!Next]_(A!vars)
         /\ [E!Next]_(E!vars)
         /\ [S!Next]_(S!vars)
  BY DEF Next, allVars, profileVars, askVars, exportVars, settingVars,
         P!vars, A!vars, E!vars, S!vars

LEMMA EachRuns == Spec => P!Spec /\ A!Spec /\ E!Spec /\ S!Spec
  BY StartOfEach, StepOfEach, PTL DEF Spec, P!Spec, A!Spec, E!Spec, S!Spec

LEMMA ExportsRun == E!Spec => X!Spec
<1>1. E!Init => X!Init
  BY SameExports
<1>2. [E!Next]_(E!vars) => [X!Next]_(X!vars)
  BY SameExports DEF E!vars, X!vars
<1> QED
  BY <1>1, <1>2, PTL DEF E!Spec, X!Spec

(* Types, whatever moves.                                                   *)
THEOREM TypeCorrect == Spec => []TypeOK
<1>1. P!ProfileAssumption /\ A!AskAssumption /\ X!ExportAssumption /\ S!SettingsAssumption
  BY RequestsAssumption, SameExports
<1>2. P!Spec => []P!TypeOK
  BY <1>1, ProfileTypeCorrect
<1>3. A!Spec => []A!TypeOK
  BY <1>1, AskTypeCorrect
<1>4. X!Spec => []X!TypeOK
  BY <1>1, X!TypeCorrect
<1>5. S!Spec => []S!TypeOK
  BY <1>1, SettingsTypeCorrect
<1>6. P!TypeOK /\ A!TypeOK /\ X!TypeOK /\ S!TypeOK => TypeOK
  BY SameExports DEF TypeOK
<1> QED
  BY <1>2, <1>3, <1>4, <1>5, <1>6, EachRuns, ExportsRun, PTL

(* What was accepted is what is stored: a question that overlaps with       *)
(* another one of the same key (enqueue_http_ask), an edit of the settings  *)
(* that overlaps with edits of other fields (update_notification_settings). *)
THEOREM Stored == Spec => []AcceptedIsStored
<1>1. A!Spec => []A!AcceptedIsStored
  BY RequestsAssumption, AskOwnQuestionAccepted
<1>2. S!Spec => []S!EditsSurvive
  BY RequestsAssumption, SettingsAcceptedEditsSurvive
<1>3. A!AcceptedIsStored /\ S!EditsSurvive => AcceptedIsStored
  BY DEF AcceptedIsStored
<1> QED
  BY <1>1, <1>2, <1>3, EachRuns, PTL

(* As long as no second process has been started, no retention, death or    *)
(* repeated delivery removes the archive of a delivery that is still to be  *)
(* sent, whatever the other requests do.                                    *)
THEOREM ArtifactKept == Spec => []ActiveDeliveryHasArtifact
<1>1. X!Spec => []X!ActiveDeliveryHasArtifact
  BY RequestsAssumption, SameExports, X!ArtifactKept
<1>2. X!ActiveDeliveryHasArtifact => ActiveDeliveryHasArtifact
  BY SameExports DEF ActiveDeliveryHasArtifact
<1> QED
  BY <1>1, <1>2, EachRuns, ExportsRun, PTL

(* An edit of a scalar field of the profile gives way to a later edit of    *)
(* that field or to the seed (apply_claimed_update, get_profile), and no    *)
(* step of a question, an export or a setting touches it.                   *)
THEOREM EditsSurviveOthers == Spec => DisjointEditsSurvive
<1>1. P!Spec => P!DisjointEditsSurvive
  BY RequestsAssumption, ProfileEditsOutliveOthers
<1> QED
  BY <1>1, EachRuns, PTL DEF DisjointEditsSurvive
=============================================================================
