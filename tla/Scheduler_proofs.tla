-------------------------- MODULE Scheduler_proofs --------------------------
(* Safety of the scheduler's job table and back-off, for any set of        *)
(* sources and intervals and any thresholds.                               *)
EXTENDS Scheduler, TLAPS

LEMMA TargetRange ==
  ASSUME NEW st \in {"healthy", "degraded", "down"}
  PROVE  Target(st) \in Quarters..(10 * Quarters)
  BY DEF Target, Quarters

(* A step of the multiplier stays between 1.0 and 10.0 and never goes      *)
(* below its target.                                                       *)
LEMMA StepToRange ==
  ASSUME NEW cu \in Quarters..(10 * Quarters), NEW ta \in Quarters..(10 * Quarters)
  PROVE  StepTo(cu, ta) \in Quarters..(10 * Quarters) /\ StepTo(cu, ta) >= ta
  BY DEF StepTo, Quarters

LEMMA IntervalsInNat == \A i \in {0} \cup Intervals : i \in Nat
<1>1. Intervals \subseteq Nat
  BY SchedulerAssumption
<1>2. QED
  BY <1>1

(* The adapted interval is a whole number of seconds.                      *)
LEMMA ScaledInNat ==
  ASSUME NEW a \in Nat, NEW b \in Nat
  PROVE  (a * b) \div Quarters \in Nat
<1>1. a * b \in Nat
  OBVIOUS
<1>2. \A c \in Nat : c \div 4 \in Nat
  OBVIOUS
<1>3. QED
  BY <1>1, <1>2 DEF Quarters

LEMMA AdaptedTyped ==
  ASSUME TypeOK, NEW s \in Sources, Adapted(s)
  PROVE  /\ mult' \in [Sources -> Quarters..(10 * Quarters)]
         /\ interval' \in [Sources -> Nat]
         /\ mult'[s] >= Target(status[s])
         /\ interval'[s] = (original[s] * mult'[s]) \div Quarters
         /\ \A u \in Sources : u # s => mult'[u] = mult[u] /\ interval'[u] = interval[u]
<1> DEFINE m == StepTo(mult[s], Target(status[s]))
<1>1. m \in Quarters..(10 * Quarters) /\ m >= Target(status[s])
  BY TargetRange, StepToRange DEF TypeOK
<1>2. original[s] \in Nat
  <2>1. original[s] \in {0} \cup Intervals
    BY DEF TypeOK
  <2>2. QED
    BY <2>1, IntervalsInNat
<1>3. (original[s] * m) \div Quarters \in Nat
  <2> HIDE DEF m
  <2>1. m \in Nat
    BY <1>1 DEF Quarters
  <2>2. QED
    BY <2>1, <1>2, ScaledInNat
<1> HIDE DEF m
<1>4. mult' = [mult EXCEPT ![s] = m] /\ interval' = [interval EXCEPT ![s] = (original[s] * m) \div Quarters]
  BY DEF Adapted, m
<1> DEFINE i == (original[s] * m) \div Quarters
<1>5. i \in Nat /\ interval' = [interval EXCEPT ![s] = i] /\ i = (original[s] * m) \div Quarters
  BY <1>3, <1>4
<1> HIDE DEF i
<1>6. mult' \in [Sources -> Quarters..(10 * Quarters)] /\ interval' \in [Sources -> Nat]
  BY <1>1, <1>4, <1>5 DEF TypeOK
<1>7. mult'[s] = m /\ interval'[s] = i
  BY <1>4, <1>5 DEF TypeOK
<1>8. \A u \in Sources : u # s => mult'[u] = mult[u] /\ interval'[u] = interval[u]
  BY <1>4, <1>5 DEF TypeOK
<1>9. mult'[s] >= Target(status[s])
  BY <1>1, <1>7
<1>10. interval'[s] = (original[s] * mult'[s]) \div Quarters
  BY <1>5, <1>7
<1>11. QED
  BY <1>6, <1>8, <1>9, <1>10

LEMMA TypeStep == TypeOK /\ [Next]_vars => TypeOK'
<1> SUFFICES ASSUME TypeOK, [Next]_vars PROVE TypeOK'
  OBVIOUS
<1> USE SchedulerAssumption DEF TypeOK
<1>1. ASSUME NEW s \in Sources, NEW i \in Intervals, AddJob(s, i) PROVE TypeOK'
  <2>1. i \in Nat
    OBVIOUS
  <2>2. QED
    BY <1>1, <2>1 DEF AddJob, ReAdd, FirstAdd, healthVars, envVars, Quarters
<1>2. ASSUME NEW s \in Sources, RemoveJob(s) PROVE TypeOK'
  BY <1>2 DEF RemoveJob, healthVars, envVars, Quarters
<1>3. ASSUME NEW s \in Sources, RunStart(s) PROVE TypeOK'
  BY <1>3 DEF RunStart, jobVars, healthVars, envVars
<1>4. ASSUME NEW s \in Sources, RunSucceeds(s) PROVE TypeOK'
  BY <1>4 DEF RunSucceeds, jobVars, envVars
<1>5. ASSUME NEW s \in Sources, RunFails(s) PROVE TypeOK'
  <2>1. StatusAfter(status[s], fails[s] + 1) \in {"healthy", "degraded", "down"}
    BY DEF StatusAfter
  <2>2. QED
    BY <1>5, <2>1 DEF RunFails, jobVars, envVars
<1>6. ASSUME NEW s \in Sources, RunBreaks(s) PROVE TypeOK'
  BY <1>6 DEF RunBreaks, jobVars, healthVars, envVars
<1>7. ASSUME NEW s \in Sources, Adapt(s) PROVE TypeOK'
  <2>1. CASE Adapted(s)
    <3>1. paused' \subseteq Sources /\ touched' \subseteq Sources
      BY <2>1 DEF Adapted
    <3>2. QED
      BY <1>7, <2>1, <3>1, AdaptedTyped DEF Adapt, healthVars, envVars
  <2>2. CASE ~Adapted(s)
    BY <1>7, <2>2 DEF Adapt, healthVars, envVars
  <2>3. QED
    BY <2>1, <2>2
<1>8. ASSUME NEW s \in Sources, ViewersChange(s) PROVE TypeOK'
  BY <1>8 DEF ViewersChange, jobVars, healthVars
<1>9. CASE Restart
  BY <1>9 DEF Restart, healthVars, envVars, Quarters
<1>10. CASE UNCHANGED vars
  BY <1>10 DEF vars, jobVars, healthVars, envVars
<1>11. QED
  BY <1>1, <1>2, <1>3, <1>4, <1>5, <1>6, <1>7, <1>8, <1>9, <1>10 DEF Next, RunStep

(* The type invariant, with multipliers between 1.0 and 10.0.              *)
THEOREM TypeCorrect == Spec => []TypeOK
<1>1. Init => TypeOK
  BY SchedulerAssumption DEF Init, TypeOK, Quarters
<1>2. QED
  BY <1>1, TypeStep, PTL DEF Spec

-----------------------------------------------------------------------------
LEMMA BookkeepingStep == TypeOK /\ BookkeepingMatches /\ [Next]_vars => BookkeepingMatches'
<1> SUFFICES ASSUME TypeOK, BookkeepingMatches, [Next]_vars PROVE BookkeepingMatches'
  OBVIOUS
<1> USE SchedulerAssumption DEF TypeOK, BookkeepingMatches
<1>1. ASSUME NEW s \in Sources, NEW i \in Intervals, AddJob(s, i) PROVE BookkeepingMatches'
  <2>1. CASE ReAdd(s, i)
    BY <2>1 DEF ReAdd
  <2>2. CASE FirstAdd(s, i)
    BY <2>2 DEF FirstAdd
  <2>3. QED
    BY <1>1, <2>1, <2>2 DEF AddJob
<1>2. ASSUME NEW s \in Sources, RemoveJob(s) PROVE BookkeepingMatches'
  BY <1>2 DEF RemoveJob
<1>3. ASSUME NEW s \in Sources, RunStep(s) PROVE BookkeepingMatches'
  <2>1. UNCHANGED <<jobs, original>> /\ paused' \subseteq paused \cup {s}
        /\ (original[s] = 0 => paused' = paused)
    BY <1>3 DEF RunStep, RunStart, RunSucceeds, RunFails, RunBreaks, Adapt, Adapted, jobVars
  <2>2. QED
    BY <2>1
<1>4. ASSUME NEW s \in Sources, ViewersChange(s) PROVE BookkeepingMatches'
  BY <1>4 DEF ViewersChange, jobVars
<1>5. CASE Restart
  BY <1>5 DEF Restart
<1>6. CASE UNCHANGED vars
  BY <1>6 DEF vars, jobVars
<1>7. QED
  BY <1>1, <1>2, <1>3, <1>4, <1>5, <1>6 DEF Next

(* The dictionary of original intervals has a key exactly for the jobs of  *)
(* the store, and only jobs are paused, also when a job is removed or      *)
(* added again while its run is under way.                                 *)
THEOREM BookkeepingCorrect == Spec => []BookkeepingMatches
<1>1. Init => BookkeepingMatches
  BY DEF Init, BookkeepingMatches
<1>2. QED
  BY <1>1, BookkeepingStep, TypeCorrect, PTL DEF Spec

-----------------------------------------------------------------------------
LEMMA ThresholdStep == TypeOK /\ HealthThresholds /\ [Next]_vars => HealthThresholds'
<1> SUFFICES ASSUME TypeOK, HealthThresholds, [Next]_vars PROVE HealthThresholds'
  OBVIOUS
<1> USE SchedulerAssumption DEF TypeOK, HealthThresholds
<1>1. CASE UNCHANGED <<status, fails>>
  BY <1>1
<1>2. ASSUME NEW s \in Sources, RunSucceeds(s) PROVE HealthThresholds'
  BY <1>2 DEF RunSucceeds
<1>3. ASSUME NEW s \in Sources, RunFails(s) PROVE HealthThresholds'
  BY <1>3 DEF RunFails, StatusAfter
<1>4. ASSUME NEW s \in Sources, RunStart(s) \/ RunBreaks(s) \/ Adapt(s) \/ ViewersChange(s) \/ RemoveJob(s)
      PROVE UNCHANGED <<status, fails>>
  BY <1>4 DEF RunStart, RunBreaks, Adapt, ViewersChange, RemoveJob, healthVars
<1>5. ASSUME NEW s \in Sources, NEW i \in Intervals, AddJob(s, i) PROVE UNCHANGED <<status, fails>>
  BY <1>5 DEF AddJob, healthVars
<1>6. Restart \/ UNCHANGED vars => UNCHANGED <<status, fails>>
  BY DEF Restart, vars, healthVars
<1>7. QED
  BY <1>1, <1>2, <1>3, <1>4, <1>5, <1>6 DEF Next, RunStep

(* Down means at least DownAt failures in a row, healthy fewer than        *)
(* DegradedAt.                                                             *)
THEOREM ThresholdsCorrect == Spec => []HealthThresholds
<1>1. Init => HealthThresholds
  <2> SUFFICES ASSUME Init, NEW s \in Sources
        PROVE (status[s] = "down" => fails[s] >= DownAt) /\ (status[s] = "healthy" => fails[s] < DegradedAt)
    BY DEF HealthThresholds
  <2>1. status[s] = "healthy" /\ fails[s] = 0
    BY DEF Init
  <2>2. 0 < DegradedAt
    BY SchedulerAssumption
  <2>3. QED
    BY <2>1, <2>2
<1>2. QED
  BY <1>1, ThresholdStep, TypeCorrect, PTL DEF Spec

(* A source leaves "down" only for "degraded", on a success.               *)
THEOREM RecoveryStepwise == Spec => RecoversStepwise
<1> DEFINE Climb == \A s \in Sources : status[s] = "down" /\ status'[s] # "down"
                      => status'[s] = "degraded" /\ fails'[s] = 0
<1>1. TypeOK /\ HealthThresholds /\ [Next]_vars => Climb
  <2> SUFFICES ASSUME TypeOK, HealthThresholds, [Next]_vars PROVE Climb
    OBVIOUS
  <2> USE SchedulerAssumption DEF TypeOK, HealthThresholds
  <2>1. CASE UNCHANGED status
    BY <2>1
  <2>2. ASSUME NEW s \in Sources, RunSucceeds(s) PROVE Climb
    BY <2>2 DEF RunSucceeds
  <2>3. ASSUME NEW s \in Sources, RunFails(s) PROVE Climb
    BY <2>3 DEF RunFails, StatusAfter
  <2>4. ASSUME NEW s \in Sources, RunStart(s) \/ RunBreaks(s) \/ Adapt(s) \/ ViewersChange(s) \/ RemoveJob(s)
        PROVE UNCHANGED status
    BY <2>4 DEF RunStart, RunBreaks, Adapt, ViewersChange, RemoveJob, healthVars
  <2>5. ASSUME NEW s \in Sources, NEW i \in Intervals, AddJob(s, i) PROVE UNCHANGED status
    BY <2>5 DEF AddJob, healthVars
  <2>6. Restart \/ UNCHANGED vars => UNCHANGED status
    BY DEF Restart, vars, healthVars
  <2>7. QED
    BY <2>1, <2>2, <2>3, <2>4, <2>5, <2>6 DEF Next, RunStep
<1>2. Spec => [][Climb]_vars
  BY <1>1, TypeCorrect, ThresholdsCorrect, PTL DEF Spec
<1>3. QED
  BY <1>2 DEF RecoversStepwise

-----------------------------------------------------------------------------
(* What is left alone when a run of one source is not the one adapting.    *)
LEMMA BackoffStep ==
  TypeOK /\ BookkeepingMatches /\ BackoffFollowsHealth /\ [Next]_vars => BackoffFollowsHealth'
<1> SUFFICES ASSUME TypeOK, BookkeepingMatches, BackoffFollowsHealth, [Next]_vars
    PROVE BackoffFollowsHealth'
  OBVIOUS
<1> USE DEF BackoffFollowsHealth
<1>1. ASSUME NEW s \in Sources, NEW i \in Intervals, AddJob(s, i) PROVE BackoffFollowsHealth'
  <2>1. /\ touched' = touched \cup {s} /\ jobs' \subseteq jobs \cup {s}
        /\ paused' \cup {s} = paused \cup {s}
        /\ UNCHANGED <<stage, status>>
    BY <1>1 DEF AddJob, ReAdd, FirstAdd, healthVars
  <2>2. \A u \in Sources : u # s => interval'[u] = interval[u] /\ original'[u] = original[u] /\ mult'[u] = mult[u]
    BY <1>1 DEF AddJob, ReAdd, FirstAdd, TypeOK
  <2>3. QED
    BY <2>1, <2>2 DEF TypeOK
<1>2. ASSUME NEW s \in Sources, RemoveJob(s) PROVE BackoffFollowsHealth'
  BY <1>2 DEF RemoveJob, healthVars, TypeOK
<1>3. ASSUME NEW s \in Sources, RunStart(s) PROVE BackoffFollowsHealth'
  BY <1>3 DEF RunStart, jobVars, healthVars, TypeOK
<1>4. ASSUME NEW s \in Sources, RunSucceeds(s) \/ RunFails(s) PROVE BackoffFollowsHealth'
  <2>1. UNCHANGED jobVars /\ stage'[s] = "adapting"
    BY <1>4 DEF RunSucceeds, RunFails, TypeOK
  <2>2. \A u \in Sources : u # s => stage'[u] = stage[u] /\ status'[u] = status[u]
    BY <1>4 DEF RunSucceeds, RunFails, TypeOK
  <2>3. QED
    BY <2>1, <2>2 DEF jobVars, TypeOK
<1>5. ASSUME NEW s \in Sources, RunBreaks(s) PROVE BackoffFollowsHealth'
  <2>1. stage[s] = "collecting" /\ UNCHANGED <<jobVars, status>>
    BY <1>5 DEF RunBreaks, healthVars
  <2>2. \A u \in Sources : u # s => stage'[u] = stage[u]
    BY <1>5 DEF RunBreaks, TypeOK
  <2>3. QED
    BY <2>1, <2>2 DEF jobVars, TypeOK
<1>6. ASSUME NEW s \in Sources, Adapt(s) PROVE BackoffFollowsHealth'
  <2>1. UNCHANGED <<jobs, original, status>> /\ \A u \in Sources : u # s => stage'[u] = stage[u]
    BY <1>6 DEF Adapt, healthVars, TypeOK
  <2>2. CASE original[s] = 0 /\ UNCHANGED <<paused, interval, mult, touched>>
    BY <2>1, <2>2 DEF BookkeepingMatches, TypeOK
  <2>3. CASE paused' = paused \cup {s} /\ UNCHANGED <<interval, mult, touched>>
    BY <2>1, <2>3 DEF TypeOK
  <2>4. CASE Adapted(s)
    <3>1. paused' = paused \ {s} /\ touched' = touched \ {s}
      BY <2>4 DEF Adapted
    <3>2. QED
      BY <2>1, <2>4, <3>1, AdaptedTyped DEF TypeOK
  <2>5. QED
    BY <1>6, <2>2, <2>3, <2>4 DEF Adapt
<1>7. ASSUME NEW s \in Sources, ViewersChange(s) PROVE BackoffFollowsHealth'
  BY <1>7 DEF ViewersChange, jobVars, healthVars
<1>8. CASE Restart
  BY <1>8 DEF Restart
<1>9. CASE UNCHANGED vars
  BY <1>9 DEF vars, jobVars, healthVars
<1>10. QED
  BY <1>1, <1>2, <1>3, <1>4, <1>5, <1>6, <1>7, <1>8, <1>9 DEF Next, RunStep

(* An adapted job's trigger is its original interval times its multiplier, *)
(* and the multiplier is at least what the stored health asks for.         *)
THEOREM BackoffCorrect == Spec => []BackoffFollowsHealth
<1>1. Init => BackoffFollowsHealth
  BY DEF Init, BackoffFollowsHealth
<1>2. QED
  BY <1>1, BackoffStep, TypeCorrect, BookkeepingCorrect, PTL DEF Spec

=============================================================================
