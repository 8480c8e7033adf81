---------------------------- MODULE ProfileJobs ----------------------------
(***************************************************************************)
(* /profile_update: durable jobs whose worker asks the LLM for a patch and *)
(* merges it into the user's profile (app/services/profile.py,             *)
(* app/workers/profile.py), beside everything else that reads the profile  *)
(* and seeds it lazily.  A profile is, for each field, the job whose edit  *)
(* it shows.  One user, one process; several workers run in it when tests  *)
(* call the service directly, the deployed program has one.                *)
(***************************************************************************)
EXTENDS Integers, FiniteSets

CONSTANTS Jobs,        \* job ids, in the order of creation
          Workers,
          Readers,     \* other callers of get_profile: pipeline, Ask, hooks, bot
          Scalars,     \* fields that a patch replaces
          Rules,       \* keys of `constraints`
          SeedRules,   \* those the seed file sets
          Edits,       \* [Jobs -> set of fields its instruction changes]
          SeedFile,    \* whether a seed file is configured and exists
          MaxCrashes,  \* bound: process deaths
          Nil

Fields == Scalars \cup Rules

ProfileAssumption ==
    /\ Jobs \subseteq Nat \ {0} /\ IsFiniteSet(Jobs) /\ Nil \notin Jobs
    /\ Scalars \cap Rules = {} /\ SeedRules \subseteq Rules
    /\ Edits \in [Jobs -> SUBSET Fields]
    /\ SeedFile \in BOOLEAN /\ MaxCrashes \in Nat

VARIABLES job,      \* [Jobs -> Statuses]; "NONE" is "no such row"
          profile,  \* users.profile_json: Null or [Fields -> Authors]
          notice,   \* jobs with a PROFILE_UPDATED delivery
          worker,   \* [Workers -> where it is, its job, the profile it read]
          reader,   \* [Readers -> "idle" | "seeding"]
          crashes

vars == <<job, profile, notice, worker, reader, crashes>>

Statuses == {"NONE", "PENDING", "RUNNING", "DONE", "FAILED"}
Absent == -1
Seed == 0
Authors == Jobs \cup {Absent, Seed}
Default == [f \in Fields |-> Absent]
Seeded == [f \in Fields |-> IF f \in Scalars \cup SeedRules THEN Seed ELSE Absent]
Null == [f \in {} |-> Absent]
Idle == [pc |-> "idle", job |-> Nil, seen |-> Default]

Init == /\ job = [j \in Jobs |-> "NONE"]
        /\ profile \in {Null, Default}
        /\ notice = {}
        /\ worker = [w \in Workers |-> Idle]
        /\ reader = [r \in Readers |-> "idle"]
        /\ crashes = 0

(* enqueue_profile_update                                                   *)
Enqueue(j) == /\ job[j] = "NONE" /\ \A k \in Jobs : k < j => job[k] # "NONE"
              /\ job' = [job EXCEPT ![j] = "PENDING"]
              /\ UNCHANGED <<profile, notice, worker, reader, crashes>>

(* Fault: the id that the claim returns is not kept.                        *)
ClaimForgotten(w, j) ==
    /\ worker[w].pc = "idle"
    /\ job[j] = "PENDING" /\ \A k \in Jobs : job[k] = "PENDING" => j <= k
    /\ job' = [job EXCEPT ![j] = "RUNNING"]
    /\ worker' = [worker EXCEPT ![w] = [Idle EXCEPT !.pc = "claimed"]]
    /\ UNCHANGED <<profile, notice, reader, crashes>>

(* claim_oldest_profile_update                                              *)
Claim(w, j) == /\ worker[w].pc = "idle"
               /\ job[j] = "PENDING" /\ \A k \in Jobs : job[k] = "PENDING" => j <= k
               /\ job' = [job EXCEPT ![j] = "RUNNING"]
               /\ worker' = [worker EXCEPT ![w] = [Idle EXCEPT !.pc = "claimed", !.job = j]]
               /\ UNCHANGED <<profile, notice, reader, crashes>>

MaySeed == profile = Null /\ SeedFile
Read == IF profile = Null THEN Default ELSE profile

(* get_profile: what is read is what is used; a NULL profile is seeded by a *)
(* write of its own, after the read.                                       *)
ReadProfile(w) ==
    /\ worker[w].pc = "claimed"
    /\ worker' = [worker EXCEPT ![w] = IF MaySeed THEN [@ EXCEPT !.pc = "seeding"]
                                       ELSE [@ EXCEPT !.pc = "asking", !.seen = Read]]
    /\ UNCHANGED <<job, profile, notice, reader, crashes>>

SeedProfile(w) ==
    /\ worker[w].pc = "seeding"
    /\ profile' = Seeded
    /\ worker' = [worker EXCEPT ![w] = [@ EXCEPT !.pc = "asking", !.seen = Seeded]]
    /\ UNCHANGED <<job, notice, reader, crashes>>

(* The LLM answers with a patch, or with an error.                          *)
Ask(w, pc) == /\ worker[w].pc = "asking"
              /\ worker' = [worker EXCEPT ![w].pc = pc]
              /\ UNCHANGED <<job, profile, notice, reader, crashes>>

(* Fault: the profile that was read is written back whole.                  *)
WholeProfile(p, j, seen) == [f \in Fields |-> IF f \in Edits[j] THEN j ELSE seen[f]]

(* json_patch: the fields of the patch, nested objects key by key.  The     *)
(* constraints of a patch are those the job had read, with its own changes. *)
Merged(p, j, seen) ==
    [f \in Fields |->
        CASE f \in Edits[j] -> j
          [] f \notin Edits[j] /\ f \in Rules /\ Edits[j] \cap Rules # {} /\ seen[f] # Absent
               -> seen[f]
          [] OTHER -> p[f]]

(* The profile, the job and its notice in one commit.                       *)
Apply(w) ==
    LET j == worker[w].job
    IN /\ worker[w].pc = "patch"
       /\ profile' = Merged(Read, j, worker[w].seen)
       /\ job' = [job EXCEPT ![j] = "DONE"]
       /\ notice' = notice \cup {j}
       /\ worker' = [worker EXCEPT ![w] = Idle]
       /\ UNCHANGED <<reader, crashes>>

(* finish_with_error: no notice goes with it.                               *)
Fail(w) ==
    /\ worker[w].pc = "error"
    /\ job' = [job EXCEPT ![worker[w].job] = "FAILED"]
    /\ worker' = [worker EXCEPT ![w] = Idle]
    /\ UNCHANGED <<profile, notice, reader, crashes>>

(* get_profile in other parts of the program.                               *)
ReadElsewhere(r) == /\ reader[r] = "idle" /\ MaySeed
                    /\ reader' = [reader EXCEPT ![r] = "seeding"]
                    /\ UNCHANGED <<job, profile, notice, worker, crashes>>

SeedElsewhere(r) == /\ reader[r] = "seeding"
                    /\ profile' = Seeded
                    /\ reader' = [reader EXCEPT ![r] = "idle"]
                    /\ UNCHANGED <<job, notice, worker, crashes>>

(* Fault: the jobs in progress are not requeued.                            *)
RestartWithoutRequeue ==
    /\ crashes < MaxCrashes /\ crashes' = crashes + 1
    /\ worker' = [w \in Workers |-> Idle]
    /\ reader' = [r \in Readers |-> "idle"]
    /\ UNCHANGED <<job, notice, profile>>

(* A database error ends the process like a kill does; startup requeues the *)
(* jobs in progress and seeds the profiles that are NULL.                   *)
CrashRestart ==
    /\ crashes < MaxCrashes /\ crashes' = crashes + 1
    /\ job' = [j \in Jobs |-> IF job[j] = "RUNNING" THEN "PENDING" ELSE job[j]]
    /\ profile' = IF MaySeed THEN Seeded ELSE profile
    /\ worker' = [w \in Workers |-> Idle]
    /\ reader' = [r \in Readers |-> "idle"]
    /\ UNCHANGED notice

WorkerStep(w) == \/ \E j \in Jobs : Claim(w, j)
                 \/ ReadProfile(w) \/ SeedProfile(w)
                 \/ Ask(w, "patch") \/ Ask(w, "error")
                 \/ Apply(w) \/ Fail(w)

Next == \/ \E j \in Jobs : Enqueue(j)
        \/ \E w \in Workers : WorkerStep(w)
        \/ \E r \in Readers : ReadElsewhere(r) \/ SeedElsewhere(r)
        \/ CrashRestart

Spec == Init /\ [][Next]_vars
Fairness == \A w \in Workers : WF_vars(WorkerStep(w))
FairSpec == Spec /\ Fairness

-----------------------------------------------------------------------------
TypeOK == /\ job \in [Jobs -> Statuses]
          /\ profile \in {Null} \cup [Fields -> Authors]
          /\ notice \subseteq Jobs
          /\ worker \in [Workers -> [pc : {"idle", "claimed", "seeding", "asking", "patch", "error"},
                                     job : Jobs \cup {Nil}, seen : [Fields -> Authors]]]
          /\ \A w \in Workers : worker[w].pc # "idle" => worker[w].job # Nil
          /\ reader \in [Readers -> {"idle", "seeding"}]
          /\ crashes \in 0..MaxCrashes

(* Every update is applied or refused once, deaths or not; the notice of an *)
(* update that is applied is recorded with it.                              *)
Outcome == [j \in Jobs |-> CASE job[j] = "NONE" -> "none" [] job[j] = "DONE" -> "answered"
                             [] job[j] = "FAILED" -> "refused" [] OTHER -> "open"]
Notices == [j \in Jobs |-> {n \in {"PROFILE_UPDATED"} : j \in notice}]

Promise == INSTANCE OneOutcome WITH
    Requests <- Jobs, outcome <- Outcome, notices <- Notices, alone <- TRUE,
    AnswerNotices <- [j \in Jobs |-> {"PROFILE_UPDATED"}],
    RefusalNotices <- [j \in Jobs |-> {}]

(* What becomes of an edit of a scalar field in one step.                   *)
Finishes(j) == job[j] = "RUNNING" /\ job'[j] = "DONE"
Survives(f) == profile # Null /\ profile[f] \in Jobs /\ profile'[f] # profile[f]
                  => profile' = Seeded \/ \E j \in Jobs : Finishes(j) /\ f \in Edits[j]

(* "Concurrent updates of different fields do not wipe each other"          *)
(* (app/services/profile.py:4): a scalar edit gives way to a later edit of  *)
(* the same field, or to the seed (see SeedKeepsEdits), to nothing else.    *)
(* Keys of `constraints` are not covered: a job writes back all it read.    *)
DisjointEditsSurvive == [][\A f \in Scalars : Survives(f)]_vars

(* "Existing profiles are not overwritten" by the lazy seed                 *)
(* (app/services/profile.py:44).                                           *)
SeedKeepsEdits ==
    [][\A f \in Fields : profile # Null /\ profile[f] \in Jobs => profile'[f] # Seed]_vars
=============================================================================
