------------------------------ MODULE Scheduler ------------------------------
(***************************************************************************)
(* AsyncSchedulerManager (backend/app/scheduler/manager.py): the jobs of   *)
(* one process, the health of their sources and the adaptive back-off that *)
(* ties the two together.  The process is the worker, or the api with its  *)
(* embedded scheduler, which pauses the jobs of sources nobody watches.  A *)
(* collection is abstract here: it succeeds, fails or breaks.              *)
(***************************************************************************)
EXTENDS Naturals

CONSTANTS
  Sources,
  Intervals,   (* the effective intervals an add may carry, in seconds     *)
  DegradedAt,  (* consecutive failures that make a source degraded: 3      *)
  DownAt,      (* consecutive failures that make it down: 10               *)
  MaxFails     (* bound of the model: consecutive failures                 *)

(* Multipliers are counted in quarters; halving 10.0 down to 1.0 stays     *)
(* exact, since the last halving is cut off at 1.0.                        *)
Quarters == 4
Target(st) == CASE st = "healthy" -> Quarters
                [] st = "degraded" -> 2 * Quarters
                [] st = "down" -> 10 * Quarters

ASSUME SchedulerAssumption ==
  /\ Intervals \subseteq Nat \ {0} /\ Intervals # {}
  /\ DegradedAt \in Nat \ {0} /\ DownAt \in Nat /\ DegradedAt < DownAt
  /\ MaxFails \in Nat

VARIABLES
  embedded,  (* adaptive_pause_enabled: the worker clears it before start  *)
  jobs,      (* sources with a job in the APScheduler store                *)
  paused,    (* jobs without a next run time                               *)
  interval,  (* interval of each job's trigger                             *)
  original,  (* _original_intervals; 0 for a missing key                   *)
  mult,      (* _adaptive_multipliers, in quarters                         *)
  stage,     (* where the one allowed run of each source is                *)
  status,    (* source_health.status, in the database                      *)
  fails,     (* source_health.consecutive_failures                         *)
  watched,   (* sources whose category has an SSE subscriber               *)
  wanted,    (* history: the interval of the latest add                    *)
  touched    (* history: jobs added or added again since their last        *)
             (* adaptive rescheduling                                      *)

jobVars    == <<jobs, paused, interval, original, mult, wanted, touched>>
healthVars == <<status, fails>>
envVars    == <<embedded, watched>>
vars == <<jobVars, healthVars, stage, envVars>>

Init ==
  /\ jobs = {} /\ paused = {} /\ touched = {}
  /\ interval = [s \in Sources |-> 0]
  /\ original = [s \in Sources |-> 0]
  /\ mult = [s \in Sources |-> Quarters]
  /\ wanted = [s \in Sources |-> 0]
  /\ stage = [s \in Sources |-> "idle"]
  /\ status = [s \in Sources |-> "healthy"]
  /\ fails = [s \in Sources |-> 0]
  /\ embedded \in BOOLEAN
  /\ watched \in SUBSET Sources

-----------------------------------------------------------------------------
(* The job table.                                                          *)

(* add_job for a source that has a job: only the trigger changes, and a    *)
(* paused job runs again.                                                  *)
ReAdd(s, i) ==
  /\ s \in jobs
  /\ interval' = [interval EXCEPT ![s] = i]
  /\ paused' = paused \ {s}
  /\ UNCHANGED <<jobs, original, mult>>

FirstAdd(s, i) ==
  /\ s \notin jobs
  /\ jobs' = jobs \cup {s}
  /\ interval' = [interval EXCEPT ![s] = i]
  /\ original' = [original EXCEPT ![s] = i]
  /\ mult' = [mult EXCEPT ![s] = Quarters]
  /\ UNCHANGED paused

(* add_source_job and schedule_all_active_sources; the embedded scheduler  *)
(* hears no lifecycle hints, so it adds each job once and removes none.    *)
AddJob(s, i) ==
  /\ embedded => s \notin jobs
  /\ ReAdd(s, i) \/ FirstAdd(s, i)
  /\ wanted' = [wanted EXCEPT ![s] = i]
  /\ touched' = touched \cup {s}
  /\ UNCHANGED <<healthVars, stage, envVars>>

(* Mutant: the interval of a removed job is remembered.                    *)
RemoveJob_remembers(s) ==
  /\ s \in jobs /\ ~embedded
  /\ jobs' = jobs \ {s} /\ paused' = paused \ {s} /\ touched' = touched \ {s}
  /\ mult' = [mult EXCEPT ![s] = Quarters]
  /\ UNCHANGED <<interval, original, wanted, healthVars, stage, envVars>>

RemoveJob(s) ==
  /\ s \in jobs /\ ~embedded
  /\ jobs' = jobs \ {s} /\ paused' = paused \ {s} /\ touched' = touched \ {s}
  /\ original' = [original EXCEPT ![s] = 0]
  /\ mult' = [mult EXCEPT ![s] = Quarters]
  /\ UNCHANGED <<interval, wanted, healthVars, stage, envVars>>

(* The process ends; jobs, multipliers and runs are memory, health is not. *)
Restart ==
  /\ jobs' = {} /\ paused' = {} /\ touched' = {}
  /\ original' = [s \in Sources |-> 0]
  /\ mult' = [s \in Sources |-> Quarters]
  /\ stage' = [s \in Sources |-> "idle"]
  /\ UNCHANGED <<interval, wanted, healthVars, envVars>>

-----------------------------------------------------------------------------
(* A run: _run_collection, _update_health_after_collection and             *)
(* adaptive_reschedule.                                                    *)

(* The trigger fires; max_instances = 1 allows one run per job id.         *)
RunStart(s) ==
  /\ s \in jobs \ paused /\ stage[s] = "idle"
  /\ stage' = [stage EXCEPT ![s] = "collecting"]
  /\ UNCHANGED <<jobVars, healthVars, envVars>>

(* Mutant: one success makes any source healthy.                           *)
RunSucceeds_atOnce(s) ==
  /\ stage[s] = "collecting"
  /\ fails' = [fails EXCEPT ![s] = 0]
  /\ status' = [status EXCEPT ![s] = "healthy"]
  /\ stage' = [stage EXCEPT ![s] = "adapting"]
  /\ UNCHANGED <<jobVars, envVars>>

(* The collection succeeded: the health row climbs one level.              *)
RunSucceeds(s) ==
  /\ stage[s] = "collecting"
  /\ fails' = [fails EXCEPT ![s] = 0]
  /\ status' = [status EXCEPT ![s] = IF @ = "down" THEN "degraded" ELSE "healthy"]
  /\ stage' = [stage EXCEPT ![s] = "adapting"]
  /\ UNCHANGED <<jobVars, envVars>>

(* Mutant: a source is down one failure early.                             *)
StatusAfter_early(st, n) ==
  IF n + 1 >= DownAt THEN "down" ELSE IF n >= DegradedAt THEN "degraded" ELSE st

StatusAfter(st, n) ==
  IF n >= DownAt THEN "down" ELSE IF n >= DegradedAt THEN "degraded" ELSE st

(* The collector gave up, was refused by the rate limit, or its data could *)
(* not be parsed.  A source has its health row from the transaction that   *)
(* creates it and loses it only with itself; what lines 561-574 insert for *)
(* a source without one then fails on the foreign key, which is RunBreaks. *)
RunFails(s) ==
  /\ stage[s] = "collecting"
  /\ fails[s] < MaxFails
  /\ fails' = [fails EXCEPT ![s] = @ + 1]
  /\ status' = [status EXCEPT ![s] = StatusAfter(@, fails[s] + 1)]
  /\ stage' = [stage EXCEPT ![s] = "adapting"]
  /\ UNCHANGED <<jobVars, envVars>>

(* The pipeline raises, the row is gone or inactive, no collector is       *)
(* registered, or the health transaction fails and its exception is        *)
(* swallowed: neither health nor trigger is touched.                       *)
RunBreaks(s) ==
  /\ stage[s] = "collecting"
  /\ stage' = [stage EXCEPT ![s] = "idle"]
  /\ UNCHANGED <<jobVars, healthVars, envVars>>

(* Mutants: a recovered source stays slow; the halving has no floor.       *)
StepTo_never(current, target) == IF current > target THEN current ELSE target
StepTo_unfloored(current, target) == IF current > target THEN current \div 2 ELSE target

(* Down from a higher multiplier by halves, up at once.                    *)
StepTo(current, target) ==
  IF current > target /\ current \div 2 > target THEN current \div 2 ELSE target

(* Mutant: the multiplier is applied to the interval in force.             *)
Adapted_compound(s) ==
  LET m == StepTo(mult[s], Target(status[s])) IN
  /\ mult' = [mult EXCEPT ![s] = m]
  /\ interval' = [interval EXCEPT ![s] = (@ * m) \div Quarters]
  /\ paused' = paused \ {s}
  /\ touched' = touched \ {s}

Adapted(s) ==
  LET m == StepTo(mult[s], Target(status[s])) IN
  /\ mult' = [mult EXCEPT ![s] = m]
  /\ interval' = [interval EXCEPT ![s] = (original[s] * m) \div Quarters]
  /\ paused' = paused \ {s}
  /\ touched' = touched \ {s}

(* adaptive_reschedule: nothing for a job removed during its run; a pause  *)
(* when nobody watches; otherwise the interval follows the health.         *)
Adapt(s) ==
  /\ stage[s] = "adapting"
  /\ stage' = [stage EXCEPT ![s] = "idle"]
  /\ \/ original[s] = 0 /\ UNCHANGED <<paused, interval, mult, touched>>
     \/ /\ original[s] # 0 /\ embedded /\ s \notin watched
        /\ paused' = paused \cup {s}
        /\ UNCHANGED <<interval, mult, touched>>
     \/ original[s] # 0 /\ ~(embedded /\ s \notin watched) /\ Adapted(s)
  /\ UNCHANGED <<jobs, original, wanted, healthVars, envVars>>

(* SSE subscribers of a category come and go; no job is told.              *)
ViewersChange(s) ==
  /\ embedded
  /\ watched' = IF s \in watched THEN watched \ {s} ELSE watched \cup {s}
  /\ UNCHANGED <<jobVars, healthVars, stage, embedded>>

-----------------------------------------------------------------------------
RunStep(s) == RunStart(s) \/ RunSucceeds(s) \/ RunFails(s) \/ RunBreaks(s) \/ Adapt(s)

Next ==
  \/ \E s \in Sources : (\E i \in Intervals : AddJob(s, i)) \/ RemoveJob(s)
  \/ \E s \in Sources : RunStep(s) \/ ViewersChange(s)
  \/ Restart

Spec == Init /\ [][Next]_vars

(* Triggers fire, and a run that began ends.                               *)
FairSpec == Spec /\ \A s \in Sources : WF_vars(RunStep(s))

-----------------------------------------------------------------------------
(* Properties.                                                             *)

TypeOK ==
  /\ embedded \in BOOLEAN
  /\ jobs \subseteq Sources /\ paused \subseteq Sources /\ touched \subseteq Sources
  /\ watched \subseteq Sources
  /\ interval \in [Sources -> Nat]
  /\ original \in [Sources -> {0} \cup Intervals]
  /\ mult \in [Sources -> Quarters..(10 * Quarters)]
  /\ wanted \in [Sources -> {0} \cup Intervals]
  /\ stage \in [Sources -> {"idle", "collecting", "adapting"}]
  /\ status \in [Sources -> {"healthy", "degraded", "down"}]
  /\ fails \in [Sources -> 0..MaxFails]

(* The interval dictionary and the job store agree, and only a job can be  *)
(* paused: a run that outlives its job (remove_job, 159-166) leaves        *)
(* nothing behind when it adapts.                                          *)
BookkeepingMatches ==
  /\ \A s \in Sources : original[s] # 0 <=> s \in jobs
  /\ paused \subseteq jobs

(* A source is down only after DownAt failures in a row, and healthy only  *)
(* below DegradedAt (555-558).                                             *)
HealthThresholds ==
  \A s \in Sources :
    /\ status[s] = "down" => fails[s] >= DownAt
    /\ status[s] = "healthy" => fails[s] < DegradedAt

(* Once adapted, a job's trigger is the original interval times its        *)
(* multiplier, and the multiplier is at least what the source's health in  *)
(* the database asks for, through restarts, re-adds and failures (297-317). *)
BackoffFollowsHealth ==
  \A s \in jobs \ (touched \cup paused) :
    /\ interval[s] = (original[s] * mult[s]) \div Quarters
    /\ stage[s] # "adapting" => mult[s] >= Target(status[s])

(* A source that was down recovers by one level per successful collection  *)
(* (545-548), so that its back-off shrinks before it ends.                 *)
RecoversStepwise ==
  [][\A s \in Sources : status[s] = "down" /\ status'[s] # "down"
       => status'[s] = "degraded" /\ fails'[s] = 0]_vars

(* A source that keeps its job and, from some point on, only has runs that *)
(* succeed and record it gets its original rate back in the worker: the    *)
(* multiplier halves round by round down to 1.0 (306-308).                 *)
FullRateReturns ==
  \A s \in Sources :
    /\ ~embedded
    /\ <>[](s \in jobs)
    /\ <>[][~RunFails(s) /\ ~RunBreaks(s)]_vars
    => <>[](mult[s] = Quarters /\ status[s] = "healthy")

(* "Subscribers arrive -> resume" (data-flow.md 3.4.3): a paused job whose *)
(* category is watched runs again.                                         *)
ViewersResume ==
  \A s \in Sources : (s \in paused /\ s \in watched) ~> (s \notin paused \/ s \notin watched)

(* "Duplicates are harmless: re-adding an existing job only reschedules    *)
(* it" (worker.py 283-284): a source at full rate runs at the interval its *)
(* latest add asked for.                                                   *)
DuplicatesHarmless ==
  \A s \in jobs \ paused : mult[s] = Quarters => interval[s] = wanted[s]

=============================================================================
