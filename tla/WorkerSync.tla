----------------------------- MODULE WorkerSync -----------------------------
(***************************************************************************)
(* How the collection worker follows the sources table                     *)
(* (backend/app/services/source.py, api/v1/sources.py,                     *)
(* scheduler/worker.py).                                                   *)
(*                                                                         *)
(* The api publishes a lifecycle hint on Redis Pub/Sub from inside the     *)
(* request's transaction and commits afterwards; the worker subscribes,    *)
(* rebuilds its jobs from a snapshot of the table, and applies the hints   *)
(* it receives.  Hints nobody receives are lost.  The worker may crash and *)
(* be restarted at any time.                                               *)
(***************************************************************************)
EXTENDS Naturals, Sequences, FiniteSets

CONSTANTS
  Sources,     (* source ids: uuids, never used twice                      *)
  Requests,    (* HTTP requests on sources; each one runs once             *)
  NoSource,
  MaxCrashes,  (* bound of the model: crashes of the worker                *)
  Faults       (* whether commits, Redis and the subscription may fail     *)

ASSUME WorkerAssumption ==
  /\ NoSource \notin Sources
  /\ MaxCrashes \in Nat
  /\ Faults \in BOOLEAN

VARIABLES
  row,        (* committed is_active of each source, or that it is absent  *)
  req,        (* the requests                                              *)
  redisUp,
  worker,     (* how far main() of the worker has come                     *)
  listener,   (* the worker's source_event_listener task                   *)
  inbox,      (* hints received and not yet taken, in order                *)
  hint,       (* the source whose settings the listener is awaiting        *)
  snap,       (* the active sources of the startup query                   *)
  jobs,       (* sources with a collection job                             *)
  crashes,
  heard,      (* history: requests whose hint reached the subscription     *)
  disturbed   (* history: sources hit since the worker's start by one of   *)
              (* the races and failures that may put them out of sync      *)

apiVars    == <<row, req>>
workerVars == <<worker, listener, hint, snap, jobs, crashes>>
history    == <<heard, disturbed>>
vars == <<apiVars, redisUp, workerVars, inbox, history>>

Hint == [src : Sources, kind : {"add", "remove"}]
Idle == [at |-> "new", op |-> "none", src |-> NoSource, want |-> "keep", seen |-> "off", value |-> "off"]

Init ==
  /\ row \in [Sources -> {"absent", "on", "off"}]
  /\ req = [r \in Requests |-> Idle]
  /\ redisUp = TRUE
  /\ worker = "down"
  /\ listener = "off"
  /\ inbox = <<>>
  /\ hint = NoSource
  /\ snap = {}
  /\ jobs = {}
  /\ crashes = 0
  /\ heard = {}
  /\ disturbed = {}

-----------------------------------------------------------------------------
(* Requests of the api.                                                    *)

(* An update that changes a column holds the row lock from its flush to    *)
(* its commit; "keep" is an update of other columns.                       *)
Writes(q) == q.op = "update" /\ q.want # q.seen
Locked(s) == \E r \in Requests :
  req[r].src = s /\ req[r].at \in {"flushed", "published"} /\ Writes(req[r])

(* Whether the handler publishes: always for create and delete, and for an *)
(* update when the refreshed row differs from the row first read.          *)
Publishes(q) == q.op \in {"create", "delete"} \/ q.value # q.seen

(* Mutant: the hint carries the flag instead of the name of the event.     *)
KindOf_flag(q) == q.value

KindOf(q) == IF q.op # "delete" /\ q.value = "on" THEN "add" ELSE "remove"

Sent(s) == {r \in Requests : req[r].src = s /\ req[r].at = "published" /\ Publishes(req[r])}

(* create_source inserts and flushes; nobody sees the row before commit.   *)
CreateBegin(r, s, w) ==
  /\ req[r].at = "new" /\ row[s] = "absent" /\ \A q \in Requests : req[q].src # s
  /\ req' = [req EXCEPT ![r] =
       [at |-> "flushed", op |-> "create", src |-> s, want |-> w, seen |-> "off", value |-> w]]
  /\ UNCHANGED <<row, redisUp, workerVars, inbox, history>>

(* update_source and delete_source first read the committed row.           *)
ReadRow(r, s, op, w) ==
  /\ req[r].at = "new" /\ row[s] \in {"on", "off"}
  /\ req' = [req EXCEPT ![r] =
       [at |-> "read", op |-> op, src |-> s, want |-> w, seen |-> row[s], value |-> row[s]]]
  /\ UNCHANGED <<row, redisUp, workerVars, inbox, history>>

End(r) == req' = [req EXCEPT ![r].at = "done"]

(* flush and refresh: the UPDATE waits for the row lock, the refresh reads *)
(* what is committed by now; a row deleted meanwhile fails the request.    *)
UpdateFlush(r) ==
  LET q == req[r] IN
  /\ q.at = "read" /\ q.op = "update"
  /\ Writes(q) => ~Locked(q.src)
  /\ IF row[q.src] = "gone" THEN End(r)
     ELSE req' = [req EXCEPT ![r].at = "flushed",
                             ![r].value = IF Writes(q) /\ q.want # "keep" THEN q.want ELSE row[q.src]]
  /\ UNCHANGED <<row, redisUp, workerVars, inbox, history>>

(* A publication that may leave source s out of sync: the worker does not  *)
(* hear it, it says what another request committed and no longer holds the *)
(* row, or it races with a delete that has published already.              *)
Disturbs(r) ==
  LET q == req[r] IN
  \/ worker # "down" /\ listener # "on"
  \/ q.op = "update" /\ ~Writes(q)
  \/ \E p \in Sent(q.src) : req[p].op = "delete"

(* redis_publish: a failure propagates, fails the request and rolls back.  *)
(* A source created inactive is published too; the worker ignores it.      *)
RequestPublish(r) ==
  LET q == req[r]
      matters == q.op # "create" \/ q.value = "on"
  IN  /\ q.at = IF q.op = "delete" THEN "read" ELSE "flushed"
      /\ Publishes(q) /\ redisUp
      /\ req' = [req EXCEPT ![r].at = "published"]
      /\ inbox' = IF listener = "on" /\ matters
                  THEN Append(inbox, [src |-> q.src, kind |-> KindOf(q)]) ELSE inbox
      /\ heard' = IF listener = "on" THEN heard \cup {r} ELSE heard
      /\ disturbed' = IF Disturbs(r) THEN disturbed \cup {q.src} ELSE disturbed
      /\ UNCHANGED <<row, redisUp, workerVars>>

RequestSilent(r) ==
  /\ req[r].at = "flushed" /\ ~Publishes(req[r])
  /\ req' = [req EXCEPT ![r].at = "published"]
  /\ UNCHANGED <<row, redisUp, workerVars, inbox, history>>

Outcome(q) ==
  CASE q.op = "create" -> q.want
    [] q.op = "delete" -> "gone"
    [] OTHER -> IF Writes(q) /\ q.want # "keep" THEN q.want ELSE row[q.src]

(* The router commits; a delete issues its DELETE only now and waits for   *)
(* the row lock.                                                           *)
RequestCommit(r) ==
  LET q == req[r] IN
  /\ q.at = "published"
  /\ q.op = "delete" => ~Locked(q.src)
  /\ row' = [row EXCEPT ![q.src] = Outcome(q)]
  /\ End(r)
  /\ UNCHANGED <<redisUp, workerVars, inbox, history>>

(* Redis refuses the publication, or the commit fails: a rollback, which   *)
(* takes nothing back that was published.                                  *)
RequestFail(r) ==
  LET q == req[r] IN
  /\ q.at \in {"read", "flushed", "published"}
  /\ Faults
  /\ End(r)
  /\ disturbed' = IF r \in Sent(q.src) THEN disturbed \cup {q.src} ELSE disturbed
  /\ UNCHANGED <<row, redisUp, workerVars, inbox, heard>>

-----------------------------------------------------------------------------
(* The worker: main().                                                     *)

WorkerStart ==
  /\ worker = "down"
  /\ worker' = "subscribing"
  /\ listener' = "pending"
  /\ disturbed' = {}
  /\ UNCHANGED <<apiVars, redisUp, inbox, hint, snap, jobs, crashes, heard>>

(* The wait for the subscription ends when the listener task subscribed or *)
(* failed, or after five seconds.                                          *)
WorkerProceeds ==
  /\ worker = "subscribing"
  /\ listener # "pending" \/ Faults
  /\ worker' = "subscribed"
  /\ UNCHANGED <<apiVars, redisUp, listener, inbox, hint, snap, jobs, crashes, history>>

(* The query sees committed rows only: a request that has published and    *)
(* has not committed is invisible, and its hint may be gone already.       *)
WorkerSnapshot ==
  /\ worker = "subscribed"
  /\ worker' = "scheduling"
  /\ snap' = {s \in Sources : row[s] = "on"}
  /\ disturbed' = disturbed \cup {s \in Sources : Sent(s) # {}}
  /\ UNCHANGED <<apiVars, redisUp, listener, inbox, hint, jobs, crashes, heard>>

(* Mutant: the rebuild forgets the jobs that hints created meanwhile.      *)
WorkerSchedule_replaces ==
  /\ worker = "scheduling"
  /\ worker' = "running"
  /\ jobs' = snap
  /\ UNCHANGED <<apiVars, redisUp, listener, inbox, hint, snap, crashes, history>>

(* schedule_all_active_sources, after the settings query.                  *)
WorkerSchedule ==
  /\ worker = "scheduling"
  /\ worker' = "running"
  /\ jobs' = jobs \cup snap
  /\ UNCHANGED <<apiVars, redisUp, listener, inbox, hint, snap, crashes, history>>

(* A crash, or a shutdown on SIGTERM; every job lives in memory only.      *)
WorkerCrash ==
  /\ worker # "down" /\ crashes < MaxCrashes
  /\ worker' = "down"
  /\ listener' = "off"
  /\ inbox' = <<>>
  /\ hint' = NoSource
  /\ snap' = {}
  /\ jobs' = {}
  /\ crashes' = crashes + 1
  /\ UNCHANGED <<apiVars, redisUp, history>>

-----------------------------------------------------------------------------
(* The worker: source_event_listener and handle_source_status_event.       *)

ListenerSubscribes ==
  /\ listener = "pending"
  /\ listener' = IF redisUp THEN "on" ELSE "dead"
  /\ UNCHANGED <<apiVars, redisUp, worker, inbox, hint, snap, jobs, crashes, history>>

Listening == listener \in {"on", "broken"} /\ hint = NoSource /\ inbox # <<>>

(* Mutant: a hint for a deletion or a disabling is dropped.                *)
HandleRemove_ignored ==
  /\ Listening /\ Head(inbox).kind = "remove"
  /\ inbox' = Tail(inbox)
  /\ disturbed' = IF worker = "scheduling" /\ Head(inbox).src \in snap
                  THEN disturbed \cup {Head(inbox).src} ELSE disturbed
  /\ UNCHANGED <<apiVars, redisUp, workerVars, heard>>

(* source_disabled, source_deleted: the job goes at once.  The rebuild may *)
(* bring it back from a snapshot taken before.                             *)
HandleRemove ==
  /\ Listening /\ Head(inbox).kind = "remove"
  /\ inbox' = Tail(inbox)
  /\ jobs' = jobs \ {Head(inbox).src}
  /\ disturbed' = IF worker = "scheduling" /\ Head(inbox).src \in snap
                  THEN disturbed \cup {Head(inbox).src} ELSE disturbed
  /\ UNCHANGED <<apiVars, redisUp, worker, listener, hint, snap, crashes, heard>>

(* source_enabled, source_created: the tenant's settings are awaited, then *)
(* the job is added from the hint's own payload.                           *)
HandleAdd ==
  /\ Listening /\ Head(inbox).kind = "add"
  /\ inbox' = Tail(inbox)
  /\ hint' = Head(inbox).src
  /\ UNCHANGED <<apiVars, redisUp, worker, listener, snap, jobs, crashes, history>>

AddSourceJob ==
  /\ hint # NoSource
  /\ jobs' = jobs \cup {hint}
  /\ hint' = NoSource
  /\ UNCHANGED <<apiVars, redisUp, worker, listener, inbox, snap, crashes, history>>

(* The listener ends at the first connection error and is not restarted;   *)
(* what it had not read is lost.                                           *)
ListenerDies ==
  /\ listener = "broken" /\ hint = NoSource
  /\ listener' = "dead"
  /\ inbox' = <<>>
  /\ disturbed' = disturbed \cup {inbox[i].src : i \in DOMAIN inbox}
  /\ UNCHANGED <<apiVars, redisUp, worker, hint, snap, jobs, crashes, heard>>

RedisFails ==
  /\ Faults /\ redisUp
  /\ redisUp' = FALSE
  /\ listener' = IF listener = "on" THEN "broken" ELSE listener
  /\ UNCHANGED <<apiVars, worker, inbox, hint, snap, jobs, crashes, history>>

RedisRecovers ==
  /\ ~redisUp
  /\ redisUp' = TRUE
  /\ UNCHANGED <<apiVars, workerVars, inbox, history>>

-----------------------------------------------------------------------------
RequestStep(r) ==
  \/ UpdateFlush(r) \/ RequestPublish(r) \/ RequestSilent(r) \/ RequestCommit(r) \/ RequestFail(r)

RequestBegin(r) ==
  \E s \in Sources :
    \/ \E w \in {"on", "off"} : CreateBegin(r, s, w)
    \/ \E w \in {"on", "off", "keep"} : ReadRow(r, s, "update", w)
    \/ ReadRow(r, s, "delete", "keep")

WorkerStep == WorkerStart \/ WorkerProceeds \/ WorkerSnapshot \/ WorkerSchedule
ListenerStep == ListenerSubscribes \/ HandleRemove \/ HandleAdd \/ AddSourceJob

Next ==
  \/ \E r \in Requests : RequestBegin(r) \/ RequestStep(r)
  \/ WorkerStep \/ WorkerCrash
  \/ ListenerStep \/ ListenerDies
  \/ RedisFails \/ RedisRecovers

Spec == Init /\ [][Next]_vars

(* The container runtime restarts the worker, the event loop runs its      *)
(* ready tasks, a started request ends, and an outage of Redis is over     *)
(* some day.  Requests begin at will.                                      *)
Fairness ==
  /\ WF_vars(WorkerStep) /\ WF_vars(ListenerStep) /\ WF_vars(RedisRecovers)
  /\ \A r \in Requests : WF_vars(RequestStep(r))

FairSpec == Spec /\ Fairness

-----------------------------------------------------------------------------
(* Properties.                                                             *)

TypeOK ==
  /\ row \in [Sources -> {"absent", "on", "off", "gone"}]
  /\ req \in [Requests ->
       [at : {"new", "read", "flushed", "published", "done"},
        op : {"none", "create", "update", "delete"}, src : Sources \cup {NoSource},
        want : {"on", "off", "keep"}, seen : {"on", "off"}, value : {"on", "off"}]]
  /\ redisUp \in BOOLEAN
  /\ worker \in {"down", "subscribing", "subscribed", "scheduling", "running"}
  /\ listener \in {"off", "pending", "on", "broken", "dead"}
  /\ inbox \in Seq(Hint)
  /\ hint \in Sources \cup {NoSource}
  /\ snap \subseteq Sources
  /\ jobs \subseteq Sources
  /\ crashes \in 0..MaxCrashes
  /\ heard \subseteq Requests
  /\ disturbed \subseteq Sources

InFlight(s) == \E r \in Requests : req[r].src = s /\ req[r].at \in {"flushed", "published"}
Pending(s) == hint = s \/ \E i \in DOMAIN inbox : inbox[i].src = s
InSync(s) == s \in jobs <=> row[s] = "on"

(* Once the worker runs and nothing about a source is under way, it has a  *)
(* job exactly if its row is active, unless one of the named races or      *)
(* failures hit it since the worker started.  In particular a restart      *)
(* makes good every hint lost before it (worker.py 92-96 and 297-308).     *)
SettledInSync ==
  \A s \in Sources \ disturbed :
    worker = "running" /\ ~InFlight(s) /\ ~Pending(s) => InSync(s)

(* The worker does not stay out of step: a source whose row and job differ *)
(* is brought into step unless it is disturbed.                            *)
Resyncs == \A s \in Sources : ~InSync(s) ~> (InSync(s) \/ s \in disturbed)

(* "Subscribe ... BEFORE the initial DB snapshot so that enables/disables  *)
(* happening during startup are not lost" (worker.py 282-284): without any *)
(* failure, a settled worker whose subscription received the hint of every *)
(* request on a source has the job its row calls for.                      *)
StartupKeepsHints ==
  \A s \in Sources :
    /\ worker = "running" /\ ~InFlight(s) /\ ~Pending(s)
    /\ \A r \in Requests : req[r].src = s => r \in heard
    => InSync(s)

=============================================================================
