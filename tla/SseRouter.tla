----------------------------- MODULE SseRouter -----------------------------
(***************************************************************************)
(* The in-process SSE fan-out of the api process                           *)
(* (backend/app/core/sse_router.py, api/v1/sse.py, services/sse.py).       *)
(*                                                                         *)
(* Streams register in a connection table and a channel index; events are  *)
(* put on one bounded asyncio.Queue per stream by three kinds of asyncio   *)
(* tasks: callers of push_event, the Redis Pub/Sub listener and the        *)
(* heartbeat loop.  asyncio is cooperative: a task runs until it awaits,   *)
(* and Queue.put awaits only when the queue is full.  "running" is the     *)
(* task that holds the event loop; every other action needs the loop free. *)
(***************************************************************************)
EXTENDS Naturals, Sequences, FiniteSets

CONSTANTS
  Clients,    (* stream requests; client_id ends in a fresh uuid, so a     *)
              (* client never registers twice                              *)
  Tenants,
  NoTenant,   (* a message without tenant_id: source lifecycle messages    *)
  Channels,   (* finance, tech, dashboard, admin                           *)
  AllChannel, (* the pseudo-channel "all"                                  *)
  TenantOf,   (* the tenant claim of each client's token                   *)
  CatsOf,     (* the categories each client subscribes to                  *)
  Pushers,    (* tasks of the api process that call push_event             *)
  Listener,   (* the task running start_redis_listener                     *)
  Heartbeat,  (* the task running _heartbeat_loop                          *)
  NoTask, NoClient,
  Cap,        (* maxsize of a connection's queue (1000 in the code)        *)
  MaxEvents,  (* bound of the model: events published in a behaviour       *)
  MaxBeats,   (* bound of the model: heartbeat ticks in a behaviour        *)
  RedisMayFail (* whether behaviours include a Redis outage                *)

Tasks == Pushers \cup {Listener, Heartbeat}
Subscribable == Channels \cup {AllChannel}
EventIds == 1..MaxEvents
NoEvent == 0  \* the payload of a heartbeat frame; also "nothing to deliver"

(* The path segment is one category, or "all"; the channels= selector only *)
(* accepts the concrete channels, so no client is in "all" and in another. *)
ASSUME RouterAssumption ==
  /\ Cap \in Nat \ {0}
  /\ MaxEvents \in Nat /\ MaxBeats \in Nat
  /\ RedisMayFail \in BOOLEAN
  /\ NoTenant \notin Tenants
  /\ AllChannel \notin Channels
  /\ TenantOf \in [Clients -> Tenants]
  /\ CatsOf \in [Clients -> SUBSET Subscribable]
  /\ \A c \in Clients : AllChannel \in CatsOf[c] => CatsOf[c] = {AllChannel}
  /\ Listener \notin Pushers /\ Heartbeat \notin Pushers /\ Listener # Heartbeat
  /\ NoTask \notin Tasks
  /\ NoClient \notin Clients

VARIABLES
  stage,      (* progress of each stream request                           *)
  registered, (* keys of _connections (is_active exactly while present)    *)
  subs,       (* _subscriptions; a missing key is the empty set            *)
  queue,      (* conn.queue, kept while a task may still hold the object   *)
  running,    (* the task holding the event loop, or NoTask                *)
  pc,         (* where each task is                                        *)
  cur,        (* the event a task is delivering                            *)
  phase,      (* 1: the channel's subscribers, 2: the "all" subscribers    *)
  todo,       (* what is left of the copied subscriber set                 *)
  at,         (* the client whose full queue suspends the task             *)
  redisUp,    (* whether Redis answers                                     *)
  sub,        (* the listener's subscription                               *)
  published,  (* events Redis accepted for the subscription, in order      *)
  read,       (* how many of them the listener has taken                   *)
  events,     (* all events, in the order push_event numbered them         *)
  beats,      (* heartbeat ticks so far                                    *)
  owed,       (* history: clients entitled to the delivery when it began   *)
  served,     (* history: clients this delivery has reached                *)
  copies      (* history: times an event was put on a client's queue       *)

connVars  == <<stage, registered, subs>>
taskVars  == <<pc, cur, phase, todo, at, owed, served>>
redisVars == <<redisUp, sub, published, read, events>>
busVars   == <<redisVars, beats>>
vars == <<connVars, queue, running, taskVars, busVars, copies>>

Entry == [ev : {NoEvent} \cup EventIds, via : Tasks]
EventRec == [ch : Channels, tenant : Tenants \cup {NoTenant}, local : BOOLEAN]

(* The filter of _on_redis_message: only a set tenant_id is compared.      *)
TenantMatches(c, n) == events[n].tenant \in {NoTenant, TenantOf[c]}

(* A client follows a channel by name or through "all".                    *)
Follows(c, ch) == CatsOf[c] \cap {ch, AllChannel} # {}

(* Who an event is for, said without the index: registered clients of the  *)
(* tenant that follow its channel.                                         *)
Audience(n) == {c \in registered : TenantMatches(c, n) /\ Follows(c, events[n].ch)}

Free == running = NoTask

Init ==
  /\ stage = [c \in Clients |-> "new"]
  /\ registered = {}
  /\ subs = [ch \in Subscribable |-> {}]
  /\ queue = [c \in Clients |-> <<>>]
  /\ running = NoTask
  /\ pc = [t \in Tasks |-> "idle"]
  /\ cur = [t \in Tasks |-> NoEvent]
  /\ phase = [t \in Tasks |-> 1]
  /\ todo = [t \in Tasks |-> {}]
  /\ at = [t \in Tasks |-> NoClient]
  /\ redisUp = TRUE
  /\ sub = "subscribed"
  /\ published = <<>>
  /\ read = 0
  /\ events = <<>>
  /\ beats = 0
  /\ owed = [t \in Tasks |-> {}]
  /\ served = [t \in Tasks |-> {}]
  /\ copies = [c \in Clients |-> [n \in EventIds |-> 0]]

-----------------------------------------------------------------------------
(* Streams.                                                                *)

AddSubscriber(c) ==
  subs' = [ch \in Subscribable |-> IF ch \in CatsOf[c] THEN subs[ch] \cup {c} ELSE subs[ch]]

(* Mutant: unregister pops the connection and leaves the index alone.      *)
RemoveSubscriber_forgotten(c) == subs' = subs

RemoveSubscriber(c) ==
  subs' = [ch \in Subscribable |-> IF ch \in CatsOf[c] THEN subs[ch] \ {c} ELSE subs[ch]]

(* SSEService.connect registers in memory, then awaits the audit commit.   *)
Register(c) ==
  /\ Free /\ stage[c] = "new"
  /\ stage' = [stage EXCEPT ![c] = "auditing"]
  /\ registered' = registered \cup {c}
  /\ AddSubscriber(c)
  /\ UNCHANGED <<queue, running, taskVars, busVars, copies>>

(* The commit succeeds and the response starts, or it raises: the request  *)
(* fails and nothing takes the registration back.                          *)
AuditCommit(c) ==
  /\ Free /\ stage[c] = "auditing"
  /\ \E s \in {"opening", "orphaned"} : stage' = [stage EXCEPT ![c] = s]
  /\ UNCHANGED <<registered, subs, queue, running, taskVars, busVars, copies>>

(* The generator reaches its try block after the connected frame and the   *)
(* replay; a client that leaves earlier never runs the finally clause.     *)
EnterLoop(c) ==
  /\ Free /\ stage[c] = "opening"
  /\ stage' = [stage EXCEPT ![c] = "live"]
  /\ UNCHANGED <<registered, subs, queue, running, taskVars, busVars, copies>>

LeaveEarly(c) ==
  /\ Free /\ stage[c] = "opening"
  /\ stage' = [stage EXCEPT ![c] = "orphaned"]
  /\ UNCHANGED <<registered, subs, queue, running, taskVars, busVars, copies>>

(* The loop of the generator takes one queued event and sends its frame.   *)
Drain(c) ==
  /\ Free /\ stage[c] = "live" /\ queue[c] # <<>>
  /\ queue' = [queue EXCEPT ![c] = Tail(@)]
  /\ UNCHANGED <<connVars, running, taskVars, busVars, copies>>

(* The client leaves a live stream: finally, disconnect, unregister.  The  *)
(* queue object outlives the registration for a task suspended on it.      *)
Unregister(c) ==
  /\ Free /\ stage[c] = "live"
  /\ stage' = [stage EXCEPT ![c] = "closed"]
  /\ registered' = registered \ {c}
  /\ RemoveSubscriber(c)
  /\ UNCHANGED <<queue, running, taskVars, busVars, copies>>

-----------------------------------------------------------------------------
(* Publishing.                                                             *)

NewEvent(ch, tn, local) ==
  /\ Len(events) < MaxEvents
  /\ events' = Append(events, [ch |-> ch, tenant |-> tn, local |-> local])

(* Mutant: the message body is published without its event_id.             *)
Publish_withoutId(n) ==
  published' = IF redisUp /\ sub = "subscribed" THEN Append(published, NoEvent) ELSE published

(* What PUBLISH does for this process: the message reaches the listener's  *)
(* subscription if Redis is up and the subscription still exists.          *)
Publish(n) ==
  published' = IF redisUp /\ sub = "subscribed" THEN Append(published, n) ELSE published

(* A publisher that is not in this process (the worker), or that publishes *)
(* without push_event (SourceService, without a tenant_id).                *)
PublishRemote(ch, tn) ==
  /\ Free
  /\ NewEvent(ch, tn, FALSE)
  /\ Publish(Len(events) + 1)
  /\ UNCHANGED <<connVars, queue, running, taskVars, redisUp, sub, read, beats, copies>>

(* push_event numbers the message, then awaits history and PUBLISH; a      *)
(* failure of either is logged and ignored.                                *)
PushBegin(p, ch, tn) ==
  /\ Free /\ pc[p] = "idle"
  /\ NewEvent(ch, tn, TRUE)
  /\ pc' = [pc EXCEPT ![p] = "publishing"]
  /\ cur' = [cur EXCEPT ![p] = Len(events) + 1]
  /\ UNCHANGED <<connVars, queue, running, phase, todo, at, owed, served,
                 redisUp, sub, published, read, beats, copies>>

PushPublish(p) ==
  /\ Free /\ pc[p] = "publishing"
  /\ Publish(cur[p])
  /\ pc' = [pc EXCEPT ![p] = "published"]
  /\ UNCHANGED <<connVars, queue, running, cur, phase, todo, at, owed, served,
                 redisUp, sub, read, events, beats, copies>>

-----------------------------------------------------------------------------
(* Delivery: _on_redis_message and the heartbeat loop.                     *)

StartDelivery(t, n, targets, entitled) ==
  /\ pc' = [pc EXCEPT ![t] = "deliver"]
  /\ cur' = [cur EXCEPT ![t] = n]
  /\ todo' = [todo EXCEPT ![t] = targets]
  /\ owed' = [owed EXCEPT ![t] = entitled]
  /\ running' = t
  /\ UNCHANGED <<connVars, queue, phase, at, served, redisUp, sub, published, events, copies>>

(* push_event always ends with a direct _on_redis_message call.            *)
PushDirect(p) ==
  /\ Free /\ pc[p] = "published"
  /\ StartDelivery(p, cur[p], subs[events[cur[p]].ch], Audience(cur[p]))
  /\ UNCHANGED <<read, beats>>

(* Mutants: a message stays in the buffer once read; the newest message is *)
(* read first.                                                             *)
ListenerReceive_keeps ==
  /\ Free /\ pc[Listener] = "idle" /\ sub # "dead" /\ read < Len(published)
  /\ LET n == published[read + 1]
     IN  StartDelivery(Listener, n, subs[events[n].ch], Audience(n))
  /\ UNCHANGED <<read, beats>>

ListenerReceive_newest ==
  /\ Free /\ pc[Listener] = "idle" /\ sub # "dead" /\ read < Len(published)
  /\ LET n == published[Len(published)]
     IN  StartDelivery(Listener, n, subs[events[n].ch], Audience(n))
  /\ read' = read + 1
  /\ UNCHANGED beats

(* The listener takes the next message and delivers it before the next.    *)
ListenerReceive ==
  /\ Free /\ pc[Listener] = "idle" /\ sub # "dead" /\ read < Len(published)
  /\ LET n == published[read + 1]
     IN  StartDelivery(Listener, n, subs[events[n].ch], Audience(n))
  /\ read' = read + 1
  /\ UNCHANGED beats

(* The heartbeat loop walks a list of the connections active at the tick.  *)
HeartbeatTick ==
  /\ Free /\ pc[Heartbeat] = "idle" /\ registered # {} /\ beats < MaxBeats
  /\ StartDelivery(Heartbeat, NoEvent, registered, {})
  /\ beats' = beats + 1
  /\ UNCHANGED read

(* Mutant: the tenant filter is gone.                                      *)
Skips_anyTenant(t, c) ==
  /\ t # Heartbeat
  /\ \/ c \notin registered
     \/ phase[t] = 2 /\ c \in subs[events[cur[t]].ch]

(* The loops re-read the connection before each put and pass over a client *)
(* that left, is of another tenant or was served as a channel subscriber;  *)
(* the heartbeat loop holds the connection objects and checks nothing.     *)
(* None of these reasons ever goes away again.                             *)
Skips(t, c) ==
  /\ t # Heartbeat
  /\ \/ c \notin registered
     \/ ~TenantMatches(c, cur[t])
     \/ phase[t] = 2 /\ c \in subs[events[cur[t]].ch]

Remaining(t) == {c \in todo[t] : ~Skips(t, c)}

Enqueue(t, c) ==
  /\ queue' = [queue EXCEPT ![c] = Append(@, [ev |-> cur[t], via |-> t])]
  /\ todo' = [todo EXCEPT ![t] = @ \ {c}]
  /\ served' = [served EXCEPT ![t] = @ \cup {c}]
  /\ copies' = IF cur[t] = NoEvent THEN copies
               ELSE [copies EXCEPT ![c][cur[t]] = @ + 1]

DeliverPut(t) ==
  /\ running = t
  /\ \E c \in Remaining(t) : Len(queue[c]) < Cap /\ Enqueue(t, c)
  /\ UNCHANGED <<connVars, running, pc, cur, phase, at, owed, busVars>>

(* queue.put on a full queue suspends the task; QueueFull is never raised. *)
DeliverBlock(t) ==
  /\ running = t
  /\ \E c \in Remaining(t) : Len(queue[c]) = Cap /\ at' = [at EXCEPT ![t] = c]
  /\ pc' = [pc EXCEPT ![t] = "blocked"]
  /\ running' = NoTask
  /\ UNCHANGED <<connVars, queue, cur, phase, todo, owed, served, busVars, copies>>

(* Mutants: the put goes ahead without looking at the queue again; it      *)
(* waits for one place too many.                                           *)
Resume_unchecked(t) ==
  /\ Free /\ pc[t] = "blocked"
  /\ Enqueue(t, at[t])
  /\ pc' = [pc EXCEPT ![t] = "deliver"]
  /\ at' = [at EXCEPT ![t] = NoClient]
  /\ running' = t
  /\ UNCHANGED <<connVars, cur, phase, owed, busVars>>

Resume_late(t) == pc[t] = "blocked" /\ Len(queue[at[t]]) + 1 < Cap /\ Resume_unchecked(t)

(* A get woke the suspended put, which goes ahead whatever happened to the *)
(* registration meanwhile.                                                 *)
Resume(t) ==
  /\ Free /\ pc[t] = "blocked" /\ Len(queue[at[t]]) < Cap
  /\ Enqueue(t, at[t])
  /\ pc' = [pc EXCEPT ![t] = "deliver"]
  /\ at' = [at EXCEPT ![t] = NoClient]
  /\ running' = t
  /\ UNCHANGED <<connVars, cur, phase, owed, busVars>>

(* Mutants: the second loop walks every connection; it runs only when the  *)
(* channel has no subscriber of its own.                                   *)
DeliverAll_everyone(t) ==
  /\ running = t /\ t # Heartbeat /\ Remaining(t) = {} /\ phase[t] = 1
  /\ phase' = [phase EXCEPT ![t] = 2]
  /\ todo' = [todo EXCEPT ![t] = registered]
  /\ UNCHANGED <<connVars, queue, running, pc, cur, at, owed, served, busVars, copies>>

DeliverAll_otherwise(t) ==
  /\ running = t /\ t # Heartbeat /\ Remaining(t) = {} /\ phase[t] = 1
  /\ phase' = [phase EXCEPT ![t] = 2]
  /\ todo' = [todo EXCEPT ![t] = IF subs[events[cur[t]].ch] = {} THEN subs[AllChannel] ELSE {}]
  /\ UNCHANGED <<connVars, queue, running, pc, cur, at, owed, served, busVars, copies>>

(* The second loop, over the "all" subscribers, is set up where the first  *)
(* one ends.                                                               *)
DeliverAll(t) ==
  /\ running = t /\ t # Heartbeat /\ Remaining(t) = {} /\ phase[t] = 1
  /\ phase' = [phase EXCEPT ![t] = 2]
  /\ todo' = [todo EXCEPT ![t] = subs[AllChannel]]
  /\ UNCHANGED <<connVars, queue, running, pc, cur, at, owed, served, busVars, copies>>

Finished(t) == running = t /\ Remaining(t) = {} /\ (t = Heartbeat \/ phase[t] = 2)

DeliverDone(t) ==
  /\ Finished(t)
  /\ pc' = [pc EXCEPT ![t] = "idle"]
  /\ cur' = [cur EXCEPT ![t] = NoEvent]
  /\ phase' = [phase EXCEPT ![t] = 1]
  /\ todo' = [todo EXCEPT ![t] = {}]
  /\ owed' = [owed EXCEPT ![t] = {}]
  /\ served' = [served EXCEPT ![t] = {}]
  /\ running' = NoTask
  /\ UNCHANGED <<connVars, queue, at, busVars, copies>>

-----------------------------------------------------------------------------
(* Redis.  The listener leaves its loop at the first connection error and  *)
(* nothing starts it again.                                                *)

RedisFails ==
  /\ Free /\ RedisMayFail /\ redisUp
  /\ redisUp' = FALSE
  /\ sub' = IF sub = "subscribed" THEN "broken" ELSE sub
  /\ UNCHANGED <<connVars, queue, running, taskVars, published, read, events, beats, copies>>

RedisRecovers ==
  /\ Free /\ ~redisUp
  /\ redisUp' = TRUE
  /\ UNCHANGED <<connVars, queue, running, taskVars, sub, published, read, events, beats, copies>>

ListenerDies ==
  /\ Free /\ pc[Listener] = "idle" /\ sub = "broken"
  /\ sub' = "dead"
  /\ UNCHANGED <<connVars, queue, running, taskVars, redisUp, published, read, events, beats, copies>>

-----------------------------------------------------------------------------
StreamStep(c) ==
  Register(c) \/ AuditCommit(c) \/ EnterLoop(c) \/ LeaveEarly(c) \/ Drain(c) \/ Unregister(c)

LoopStep(t) ==
  DeliverPut(t) \/ DeliverBlock(t) \/ DeliverAll(t) \/ DeliverDone(t)

PushStep(p) ==
  \/ \E ch \in Channels, tn \in Tenants : PushBegin(p, ch, tn)
  \/ PushPublish(p)
  \/ PushDirect(p)

RedisStep == RedisFails \/ RedisRecovers \/ ListenerDies

Next ==
  \/ \E c \in Clients : StreamStep(c)
  \/ \E ch \in Channels, tn \in Tenants \cup {NoTenant} : PublishRemote(ch, tn)
  \/ \E p \in Pushers : PushStep(p)
  \/ ListenerReceive
  \/ HeartbeatTick
  \/ \E t \in Tasks : LoopStep(t) \/ Resume(t)
  \/ RedisStep

Spec == Init /\ [][Next]_vars

(* asyncio runs ready callbacks in order, so a task holding the loop goes  *)
(* on, and a waiting put or a live generator that is ready again and again *)
(* gets its turn.  Clients may leave, and publishers may stop, at will.    *)
Fairness ==
  /\ \A t \in Tasks : WF_vars(LoopStep(t)) /\ SF_vars(Resume(t))
  /\ \A c \in Clients : SF_vars(Drain(c))

FairSpec == Spec /\ Fairness

-----------------------------------------------------------------------------
(* Properties.                                                             *)

TypeOK ==
  /\ stage \in [Clients -> {"new", "auditing", "opening", "live", "orphaned", "closed"}]
  /\ registered \subseteq Clients
  /\ subs \in [Subscribable -> SUBSET Clients]
  /\ queue \in [Clients -> Seq(Entry)]
  /\ running \in Tasks \cup {NoTask}
  /\ pc \in [Tasks -> {"idle", "publishing", "published", "deliver", "blocked"}]
  /\ cur \in [Tasks -> {NoEvent} \cup EventIds]
  /\ phase \in [Tasks -> {1, 2}]
  /\ todo \in [Tasks -> SUBSET Clients]
  /\ at \in [Tasks -> Clients \cup {NoClient}]
  /\ redisUp \in BOOLEAN
  /\ sub \in {"subscribed", "broken", "dead"}
  /\ published \in Seq(EventIds)
  /\ read \in 0..Len(published)
  /\ events \in Seq(EventRec)
  /\ Len(events) <= MaxEvents
  /\ beats \in 0..MaxBeats
  /\ owed \in [Tasks -> SUBSET Clients]
  /\ served \in [Tasks -> SUBSET Clients]
  /\ copies \in [Clients -> [EventIds -> Nat]]

(* The channel index and the connection table agree: unregister (lines     *)
(* 75-86) undoes exactly what register (61-73) did, in every interleaving. *)
IndexMatchesRegistry ==
  \A ch \in Subscribable : subs[ch] = {c \in registered : ch \in CatsOf[c]}

(* No queue ever holds an event of another tenant, although deliveries     *)
(* suspend between reading the subscriber set and putting (lines 197-212). *)
TenantIsolation ==
  \A c \in Clients : \A i \in DOMAIN queue[c] :
    queue[c][i].ev # NoEvent => TenantMatches(c, queue[c][i].ev)

(* A queue holds only events of channels its client asked for.             *)
OnlySubscribedChannels ==
  \A c \in Clients : \A i \in DOMAIN queue[c] :
    queue[c][i].ev # NoEvent => Follows(c, events[queue[c][i].ev].ch)

(* An asyncio.Queue never exceeds its maxsize, whichever of several        *)
(* suspended puts wakes first (lines 39 and 47).                           *)
QueueBound == \A c \in Clients : Len(queue[c]) <= Cap

(* An event of another process reaches a client at most once and an event  *)
(* of this process at most twice: directly and as the listener's echo      *)
(* (push_event, line 135, and the listener, line 237).                     *)
CopiesBounded ==
  \A c \in Clients, n \in EventIds :
    copies[c][n] > 0 =>
      /\ n <= Len(events)
      /\ copies[c][n] <= IF events[n].local THEN 2 ELSE 1

(* Where event n stands in the order Redis accepted the events.            *)
WirePos(n) == CHOOSE i \in DOMAIN published : published[i] = n

(* What the listener put on one queue is in the order of publication, even *)
(* when its delivery is suspended between two events (lines 230-237).      *)
ListenerOrder ==
  \A c \in Clients : \A i, j \in DOMAIN queue[c] :
    i < j /\ queue[c][i].via = Listener /\ queue[c][j].via = Listener
      => WirePos(queue[c][i].ev) < WirePos(queue[c][j].ev)

(* A delivery that ends has reached every client that was entitled to the  *)
(* event when it began and is still registered, however long it was        *)
(* suspended and whoever joined or left meanwhile (lines 197-212).         *)
DeliveryComplete ==
  [][\A t \in Tasks : Finished(t) /\ running' = NoTask
       => owed[t] \cap registered \subseteq served[t]]_vars

(* A task suspended on a stream that is being read goes on, or the stream  *)
(* leaves (lines 45-47 against the generator's loop).                      *)
SlowReaderReleases ==
  \A t \in Tasks :
    (pc[t] = "blocked" /\ stage[at[t]] = "live")
      ~> (pc[t] # "blocked" \/ stage[at[t]] # "live")

(* The log line "SSE queue full ..., dropping event" (line 51): a full     *)
(* queue costs the slow client an event and suspends no task.              *)
FullQueueDrops == \A t \in Tasks : pc[t] # "blocked"

(* "Falling back to direct push" (line 133): the direct push replaces the  *)
(* Redis path when that path fails, so no client gets an event twice.      *)
DirectPushIsFallback ==
  \A c \in Clients, n \in EventIds : copies[c][n] <= 1

(* "Clean up on disconnect": a stream whose client is gone loses its       *)
(* registration.                                                           *)
GoneIsCleanedUp ==
  \A c \in Clients : stage[c] = "orphaned" ~> c \notin registered

=============================================================================
