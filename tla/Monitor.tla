------------------------------ MODULE Monitor ------------------------------
(***************************************************************************)
(* What the dashboard knows: the heartbeat a worker process keeps in Redis *)
(* (scheduler/worker.py) and the api process reads as the health of the    *)
(* scheduler, and the loop of the api process that samples the machine,    *)
(* pushes what changed and archives snapshots (services/dashboard.py).     *)
(* Two workers run at once while a deployment replaces one by the other.   *)
(***************************************************************************)
EXTENDS Integers, FiniteSets

CONSTANTS
  Workers,        (* worker processes                                      *)
  Ttl,            (* WORKER_HEARTBEAT_TTL in HEARTBEAT_INTERVAL_SECONDS    *)
  MaxLevel,       (* levels of CPU usage 0..MaxLevel                       *)
  Step,           (* METRIC_THRESHOLDS["cpu_change_percent"], in levels    *)
  Rates,          (* network_in_kbps                                       *)
  ArchiveEvery,   (* archive_interval in rounds of collect_interval        *)
  MaxMisses       (* bound of the model: snapshots failing in a row        *)

ASSUME MonitorAssumption ==
  /\ IsFiniteSet(Workers) /\ Ttl \in Nat \ {0} /\ MaxLevel \in Nat
  /\ Step \in Nat \ {0} /\ ArchiveEvery \in Nat \ {0} /\ MaxMisses \in Nat

Levels == 0..MaxLevel
None == -1      \* no sample, not yet

VARIABLES
  beat,    (* time left to scheduler:worker:heartbeat, 0 when it is gone   *)
  worker,  (* the main() and the heartbeat_loop of each worker             *)
  redis,   (* does Redis answer?                                           *)
  wiped,   (* history: workers whose last write failed, or whose heartbeat *)
           (* was deleted since                                            *)
  last,    (* _last_metrics                                                *)
  view,    (* the metrics a browser shows                                  *)
  quiet,   (* history: rounds since the view was told of a field, None for *)
           (* not yet                                                      *)
  round,   (* where _periodic_loop is                                      *)
  since,   (* rounds since last_archive_time                               *)
  gap,     (* history: rounds since the last snapshot                      *)
  misses   (* history: archives failed since                               *)

beats == <<beat, worker, redis, wiped>>
metrics == <<last, view, quiet, round, since, gap, misses>>
vars == <<beats, metrics>>

Off == [at |-> "off", due |-> TRUE]
NoSample == [cpu |-> None, rate |-> None]

Init ==
  /\ beat = 0 /\ worker = [w \in Workers |-> Off] /\ redis = TRUE
  /\ wiped = {}
  /\ last = NoSample /\ round = "sleep" /\ since = 0 /\ gap = 0 /\ misses = 0
  /\ view \in [cpu : Levels, rate : Rates]
  /\ quiet = NoSample

-----------------------------------------------------------------------------
(* The worker.                                                             *)

Looping(w) == worker[w].at \in {"run", "stopping"}

(* main() up to the task of the heartbeat, whose first write is at once.   *)
Start(w) ==
  /\ worker[w].at = "off"
  /\ worker' = [worker EXCEPT ![w] = [Off EXCEPT !.at = "run"]]
  /\ wiped' = wiped \cup {w}
  /\ UNCHANGED <<beat, redis, metrics>>

Write_short(w) ==     \* Mutant: a time to live of one interval
  /\ Looping(w) /\ worker[w].due
  /\ worker' = [worker EXCEPT ![w].due = FALSE]
  /\ IF redis THEN beat' = 1 /\ wiped' = wiped \ {w}
              ELSE wiped' = wiped \cup {w} /\ UNCHANGED beat
  /\ UNCHANGED <<redis, metrics>>

(* write_heartbeat: the payload with its timestamp, SET with a new time to *)
(* live; an error is logged, and the loop sleeps either way.               *)
Write(w) ==
  /\ Looping(w) /\ worker[w].due
  /\ worker' = [worker EXCEPT ![w].due = FALSE]
  /\ IF redis THEN beat' = Ttl /\ wiped' = wiped \ {w}
              ELSE wiped' = wiped \cup {w} /\ UNCHANGED beat
  /\ UNCHANGED <<redis, metrics>>

(* The signal: the listener is torn down while the heartbeat goes on, then *)
(* its task is cancelled, ...                                              *)
Signal(w) ==
  /\ worker[w].at = "run"
  /\ worker' = [worker EXCEPT ![w].at = "stopping"]
  /\ UNCHANGED <<beat, redis, wiped, metrics>>

CancelBeat(w) ==
  /\ worker[w].at = "stopping"
  /\ worker' = [worker EXCEPT ![w] = [Off EXCEPT !.at = "clear"]]
  /\ UNCHANGED <<beat, redis, wiped, metrics>>

(* ... and clear_heartbeat deletes the key, whoever wrote it.              *)
ClearBeat(w) ==
  /\ worker[w].at = "clear"
  /\ worker' = [worker EXCEPT ![w] = Off]
  /\ IF redis THEN beat' = 0 /\ wiped' = Workers
              ELSE UNCHANGED <<beat, wiped>>
  /\ UNCHANGED <<redis, metrics>>

Crash(w) ==
  /\ worker[w].at # "off"
  /\ worker' = [worker EXCEPT ![w] = Off]
  /\ UNCHANGED <<beat, redis, wiped, metrics>>

-----------------------------------------------------------------------------
(* Fifteen seconds pass; no loop oversleeps.                               *)
Tick ==
  /\ \A w \in Workers : Looping(w) => ~worker[w].due
  /\ worker' = [w \in Workers |-> [worker[w] EXCEPT !.due = TRUE]]
  /\ beat' = IF beat = 0 THEN 0 ELSE beat - 1
  /\ UNCHANGED <<redis, wiped, metrics>>

RedisTurns ==
  /\ redis' = ~redis
  /\ UNCHANGED <<beat, worker, wiped, metrics>>

(* worker_heartbeat_is_fresh: the timestamp is younger than Ttl as long as *)
(* the key is there.                                                       *)
Fresh == beat > 0

(* _read_worker_heartbeat, as the health of the services, the status of    *)
(* the scheduler and the snapshots use it.                                 *)
Shown == redis /\ Fresh

-----------------------------------------------------------------------------
(* _periodic_loop.                                                         *)

Diff(a, b) == IF a > b THEN a - b ELSE b - a

(* What collect_and_push_metrics puts into the event.                      *)
Changed_over(now) ==     \* Mutant: > for >=
  IF last = NoSample THEN {"cpu", "rate"}
  ELSE {f \in {"cpu"} : Diff(now.cpu, last.cpu) > Step}
       \cup {f \in {"rate"} : now.rate # last.rate}

Changed(now) ==
  IF last = NoSample THEN {"cpu", "rate"}
  ELSE {f \in {"cpu"} : Diff(now.cpu, last.cpu) >= Step}
       \cup {f \in {"rate"} : now.rate # last.rate}

(* The sample becomes the base of the next comparison whether the push,    *)
(* whose errors are swallowed, arrives or not.                             *)
Quieter(f, told) ==
  IF f \in told THEN 0
  ELSE IF f = "cpu" /\ quiet[f] \in 0..MaxLevel - 1 THEN quiet[f] + 1 ELSE quiet[f]

Collect(now, arrives) ==
  /\ round = "sleep"
  /\ LET told == IF arrives THEN Changed(now) ELSE {}
         lost == Changed(now) \ told
     IN  /\ view' = [f \in DOMAIN view |-> IF f \in told THEN now[f] ELSE view[f]]
         /\ quiet' = [f \in DOMAIN quiet |-> IF f \in lost THEN None ELSE Quieter(f, told)]
  /\ last' = now
  /\ since' = IF since < ArchiveEvery THEN since + 1 ELSE since
  /\ gap' = IF gap <= ArchiveEvery + MaxMisses THEN gap + 1 ELSE gap
  /\ round' = IF since + 1 >= ArchiveEvery THEN "archive" ELSE "sleep"
  /\ UNCHANGED <<beats, misses>>

(* archive_snapshot; after a failure the next round tries again.           *)
Archive_once(stored) ==     \* Mutant: last_archive_time is set before the attempt
  /\ round = "archive" /\ (stored \/ misses < MaxMisses)
  /\ round' = "sleep" /\ since' = 0
  /\ misses' = IF stored THEN 0 ELSE misses + 1
  /\ gap' = IF stored THEN 0 ELSE gap
  /\ UNCHANGED <<beats, last, view, quiet>>

Archive(stored) ==
  /\ round = "archive" /\ (stored \/ misses < MaxMisses)
  /\ round' = "sleep"
  /\ IF stored
       THEN since' = 0 /\ gap' = 0 /\ misses' = 0
       ELSE misses' = misses + 1 /\ UNCHANGED <<since, gap>>
  /\ UNCHANGED <<beats, last, view, quiet>>

(* A page opens: GET /dashboard/system takes a sample of its own.          *)
OpenPage(now) ==
  /\ view' = now /\ quiet' = NoSample
  /\ UNCHANGED <<beats, last, round, since, gap, misses>>

-----------------------------------------------------------------------------
Samples == [cpu : Levels, rate : Rates]

Next ==
  \/ \E w \in Workers :
       \/ Start(w) \/ Write(w)
       \/ Signal(w) \/ CancelBeat(w) \/ ClearBeat(w) \/ Crash(w)
  \/ Tick \/ RedisTurns
  \/ \E now \in Samples, arrives \in BOOLEAN : Collect(now, arrives)
  \/ \E stored \in BOOLEAN : Archive(stored)
  \/ \E now \in Samples : OpenPage(now)

(* The loops of the worker go on, and time does.                           *)
FairSpec ==
  /\ Init /\ [][Next]_vars
  /\ \A w \in Workers : WF_vars(Write(w))
  /\ WF_vars(Tick)

-----------------------------------------------------------------------------
(* A dashboard that shows no live heartbeat while Redis answers and a      *)
(* worker runs and has written: its last write failed, or another worker's *)
(* shutdown came after it.  That deletes the key, not one's own value      *)
(* (clear_heartbeat, worker.py:242-254), so every deployment can do it.    *)
PhantomNamed ==
  \A w \in Workers : Looping(w) /\ redis /\ w \notin wiped => Shown

(* It is repaired: from when one worker runs alone beside a Redis that     *)
(* answers, the dashboard comes to show it for good (heartbeat_loop,       *)
(* worker.py:226-239).                                                     *)
Alone(w) ==
  /\ worker[w].at = "run" /\ redis
  /\ \A v \in Workers \ {w} : worker[v].at = "off"

SteadyIsShown == \A w \in Workers : <>[]Alone(w) => <>[]Shown

(* Rounds are compared with the round before, not with what a page shows,  *)
(* so small steps add up unseen; but from the first event of a field on,   *)
(* and until one is lost, the rate shown is that of the last round and the *)
(* CPU usage is off by less than Step for each round since                 *)
(* (collect_and_push_metrics, dashboard.py:717-748).                       *)
ViewFollows ==
  /\ quiet.rate # None => view.rate = last.rate
  /\ quiet.cpu # None => Diff(view.cpu, last.cpu) <= (Step - 1) * quiet.cpu

(* The archive is late by one round for each failure, not by an interval   *)
(* (_periodic_loop, dashboard.py:855-861).                                 *)
SnapshotGap == gap <= ArchiveEvery + misses
=============================================================================
