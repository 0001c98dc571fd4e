-------------------------- MODULE SseRouter_proofs --------------------------
(* Safety of the SSE router for any set of clients, tenants, channels and  *)
(* pushing tasks, any queue size and any number of events and heartbeats.  *)
EXTENDS SseRouter, TLAPS

(* Event numbers and task positions: what the types do not say and every   *)
(* step relies on.  A task that is past its start delivers a published     *)
(* event, only a pushing task publishes, the holder of the loop is the one *)
(* delivering task, and a suspended task knows whose queue it waits for.   *)
Positions ==
  /\ \A t \in Tasks : pc[t] \in {"publishing", "published"} => t \in Pushers
  /\ \A t \in Tasks : t # Heartbeat /\ pc[t] # "idle" => cur[t] \in 1..Len(events)
  /\ cur[Heartbeat] = NoEvent
  /\ \A t \in Tasks : pc[t] = "deliver" <=> running = t
  /\ \A t \in Tasks : pc[t] = "blocked" => at[t] \in todo[t]
  /\ \A i \in DOMAIN published : published[i] <= Len(events)
  /\ \A c \in Clients : \A i \in DOMAIN queue[c] : queue[c][i].ev <= Len(events)

LEMMA InitTyped == Init => TypeOK /\ Positions
  BY RouterAssumption DEF Init, TypeOK, Positions, Tasks, EventIds, NoEvent, Subscribable

(* A new event keeps the numbers and the records of the earlier ones.      *)
LEMMA NewEventAppends ==
  ASSUME TypeOK, NEW ch \in Channels, NEW tn \in Tenants \cup {NoTenant}, NEW l \in BOOLEAN,
         NewEvent(ch, tn, l)
  PROVE  /\ events' \in Seq(EventRec)
         /\ Len(events') = Len(events) + 1
         /\ Len(events') <= MaxEvents
         /\ Len(events) + 1 \in EventIds
         /\ \A n \in 1..Len(events) : events'[n] = events[n]
  BY RouterAssumption DEF TypeOK, NewEvent, EventRec, EventIds

(* The type invariant is preserved by every step.                          *)
LEMMA TypeStep == TypeOK /\ Positions /\ [Next]_vars => TypeOK'
<1> SUFFICES ASSUME TypeOK, Positions, [Next]_vars PROVE TypeOK'
  OBVIOUS
<1> USE RouterAssumption DEF TypeOK
<1>1. ASSUME NEW c \in Clients, StreamStep(c) PROVE TypeOK'
  <2>1. CASE Register(c)
    BY <2>1 DEF Register, AddSubscriber, taskVars, busVars, redisVars, Subscribable
  <2>2. CASE AuditCommit(c)
    BY <2>2 DEF AuditCommit, taskVars, busVars, redisVars
  <2>3. CASE EnterLoop(c)
    BY <2>3 DEF EnterLoop, taskVars, busVars, redisVars
  <2>4. CASE LeaveEarly(c)
    BY <2>4 DEF LeaveEarly, taskVars, busVars, redisVars
  <2>5. CASE Drain(c)
    BY <2>5 DEF Drain, connVars, taskVars, busVars, redisVars
  <2>6. CASE Unregister(c)
    BY <2>6 DEF Unregister, RemoveSubscriber, taskVars, busVars, redisVars, Subscribable
  <2>7. QED
    BY <1>1, <2>1, <2>2, <2>3, <2>4, <2>5, <2>6 DEF StreamStep
<1>2. ASSUME NEW STATE n, n \in EventIds, Publish(n), read' = read
      PROVE published' \in Seq(EventIds) /\ read' \in 0..Len(published')
  BY <1>2 DEF Publish
<1>3. ASSUME NEW STATE n, n \in 1..Len(events)
      PROVE  n \in EventIds /\ subs[events[n].ch] \subseteq Clients /\ Audience(n) \subseteq Clients
  <2>1. events[n] \in EventRec
    BY <1>3
  <2>2. events[n].ch \in Subscribable
    BY <2>1 DEF EventRec, Subscribable
  <2>3. QED
    BY <1>3, <2>2 DEF EventIds, Audience
<1>4. ASSUME NEW ch \in Channels, NEW tn \in Tenants \cup {NoTenant}, PublishRemote(ch, tn) PROVE TypeOK'
  <2>1. events' \in Seq(EventRec) /\ Len(events') <= MaxEvents /\ Len(events) + 1 \in EventIds
    BY <1>4, NewEventAppends DEF PublishRemote
  <2>2. published' \in Seq(EventIds) /\ read' \in 0..Len(published')
    BY <1>2, <1>4, <2>1 DEF PublishRemote
  <2>3. QED
    BY <1>4, <2>1, <2>2 DEF PublishRemote, connVars, taskVars
<1>5. ASSUME NEW p \in Pushers, PushStep(p) PROVE TypeOK'
  <2>1. ASSUME NEW ch \in Channels, NEW tn \in Tenants, PushBegin(p, ch, tn) PROVE TypeOK'
    <3>1. events' \in Seq(EventRec) /\ Len(events') <= MaxEvents /\ Len(events) + 1 \in EventIds
      BY <2>1, NewEventAppends DEF PushBegin
    <3>2. QED
      BY <2>1, <3>1 DEF PushBegin, connVars, Tasks
  <2>2. CASE PushPublish(p)
    <3>1. p \in Tasks /\ p # Heartbeat /\ cur[p] \in 1..Len(events)
      BY <2>2 DEF PushPublish, Positions, Tasks
    <3>2. published' \in Seq(EventIds) /\ read' \in 0..Len(published')
      BY <1>2, <1>3, <2>2, <3>1 DEF PushPublish
    <3>3. QED
      BY <2>2, <3>1, <3>2 DEF PushPublish, connVars
  <2>3. CASE PushDirect(p)
    <3>1. p \in Tasks /\ p # Heartbeat /\ cur[p] \in 1..Len(events)
      BY <2>3 DEF PushDirect, Positions, Tasks
    <3>2. QED
      BY <1>3, <2>3, <3>1 DEF PushDirect, StartDelivery, connVars
  <2>4. QED
    BY <1>5, <2>1, <2>2, <2>3 DEF PushStep
<1>6. CASE ListenerReceive
  <2>1. published[read + 1] \in 1..Len(events) /\ read + 1 \in 0..Len(published) /\ Listener \in Tasks
    BY <1>6 DEF ListenerReceive, Positions, EventIds, Tasks
  <2>2. QED
    BY <1>3, <1>6, <2>1 DEF ListenerReceive, StartDelivery, connVars
<1>7. CASE HeartbeatTick
  <2>1. Heartbeat \in Tasks /\ beats + 1 \in 0..MaxBeats
    BY <1>7 DEF HeartbeatTick, Tasks
  <2>2. QED
    BY <1>7, <2>1 DEF HeartbeatTick, StartDelivery, connVars
<1>8. ASSUME NEW t \in Tasks, LoopStep(t) \/ Resume(t) PROVE TypeOK'
  <2>1. ASSUME NEW c \in Clients, Enqueue(t, c)
        PROVE  /\ queue' \in [Clients -> Seq(Entry)]
               /\ todo' \in [Tasks -> SUBSET Clients]
               /\ served' \in [Tasks -> SUBSET Clients]
               /\ copies' \in [Clients -> [EventIds -> Nat]]
    <3>1. [ev |-> cur[t], via |-> t] \in Entry
      BY DEF Entry
    <3>2. queue' \in [Clients -> Seq(Entry)]
      BY <2>1, <3>1 DEF Enqueue
    <3>3. todo' \in [Tasks -> SUBSET Clients] /\ served' \in [Tasks -> SUBSET Clients]
      BY <2>1 DEF Enqueue
    <3>4. copies' \in [Clients -> [EventIds -> Nat]]
      BY <2>1 DEF Enqueue
    <3>5. QED
      BY <3>2, <3>3, <3>4
  <2>2. CASE DeliverPut(t)
    <3>1. PICK c \in Remaining(t) : Enqueue(t, c)
      BY <2>2 DEF DeliverPut
    <3>2. c \in Clients
      BY DEF Remaining
    <3>3. QED
      BY <2>1, <2>2, <3>1, <3>2 DEF DeliverPut, connVars, busVars, redisVars
  <2>3. CASE DeliverBlock(t)
    BY <2>3 DEF DeliverBlock, Remaining, connVars, busVars, redisVars
  <2>4. CASE DeliverAll(t)
    BY <2>4 DEF DeliverAll, connVars, busVars, redisVars, Subscribable
  <2>5. CASE DeliverDone(t)
    BY <2>5 DEF DeliverDone, connVars, busVars, redisVars
  <2>6. CASE Resume(t)
    <3>1. at[t] \in Clients
      BY <2>6 DEF Resume, Positions
    <3>2. QED
      BY <2>1, <2>6, <3>1 DEF Resume, connVars, busVars, redisVars
  <2>7. QED
    BY <1>8, <2>2, <2>3, <2>4, <2>5, <2>6 DEF LoopStep
<1>9. CASE RedisStep
  <2> USE <1>9 DEF RedisStep, RedisFails, RedisRecovers, ListenerDies
  <2>1. UNCHANGED <<connVars, queue, running, taskVars, published, read, events, beats, copies>>
    OBVIOUS
  <2>2. redisUp' \in BOOLEAN /\ sub' \in {"subscribed", "broken", "dead"}
    OBVIOUS
  <2>3. QED
    BY ONLY TypeOK, RouterAssumption, <2>1, <2>2 DEF TypeOK, connVars, taskVars
<1>10. CASE UNCHANGED vars
  BY <1>10 DEF vars, connVars, taskVars, busVars, redisVars
<1>11. QED
  BY <1>1, <1>4, <1>5, <1>6, <1>7, <1>8, <1>9, <1>10 DEF Next

(* Steps of streams, of Redis and of the bus leave tasks alone.            *)
LEMMA QuietSteps ==
  ASSUME NEW c \in Clients,
         \/ Register(c) \/ AuditCommit(c) \/ EnterLoop(c) \/ LeaveEarly(c) \/ Unregister(c)
         \/ RedisStep \/ UNCHANGED vars
  PROVE  UNCHANGED <<queue, running, taskVars, published, read, events>>
BY DEF Register, AuditCommit, EnterLoop, LeaveEarly, Unregister, RedisStep, RedisFails,
       RedisRecovers, ListenerDies, vars, taskVars, busVars, redisVars

(* Task positions and event numbers stay in step with each other.          *)
LEMMA PositionsStep == TypeOK /\ Positions /\ [Next]_vars => Positions'
<1> SUFFICES ASSUME TypeOK, Positions, [Next]_vars PROVE Positions'
  OBVIOUS
<1> USE RouterAssumption DEF TypeOK, Positions
<1>1. ASSUME UNCHANGED <<queue, running, taskVars, published, read, events>> PROVE Positions'
  BY <1>1 DEF taskVars
<1>2. ASSUME NEW c \in Clients, StreamStep(c) PROVE Positions'
  <2>1. CASE Drain(c)
    <3>1. UNCHANGED <<running, pc, cur, todo, at, published, events>>
      BY <2>1 DEF Drain, taskVars, busVars, redisVars
    <3>2. ASSUME NEW d \in Clients, NEW i \in DOMAIN queue'[d] PROVE queue'[d][i].ev <= Len(events)
      BY <2>1, <3>2 DEF Drain
    <3>3. QED
      BY <3>1, <3>2
  <2>2. QED
    BY <1>1, <1>2, <2>1, QuietSteps DEF StreamStep
<1>3. ASSUME NEW ch \in Channels, NEW tn \in Tenants \cup {NoTenant}, PublishRemote(ch, tn) PROVE Positions'
  <2>1. Len(events') = Len(events) + 1
    BY <1>3, NewEventAppends DEF PublishRemote
  <2>2. ASSUME NEW i \in DOMAIN published' PROVE published'[i] <= Len(events')
    BY <1>3, <2>1, <2>2 DEF PublishRemote, Publish, EventIds
  <2>3. ASSUME NEW c \in Clients, NEW i \in DOMAIN queue'[c] PROVE queue'[c][i].ev <= Len(events')
    <3>1. queue' = queue /\ queue[c][i] \in Entry
      BY <1>3, <2>3 DEF PublishRemote
    <3>2. QED
      BY <2>1, <2>3, <3>1 DEF Entry, EventIds, NoEvent
  <2>4. QED
    BY <1>3, <2>1, <2>2, <2>3 DEF PublishRemote, taskVars
<1>4. ASSUME NEW p \in Pushers, PushStep(p) PROVE Positions'
  <2>0. p \in Tasks /\ p # Heartbeat
    BY DEF Tasks
  <2>1. ASSUME NEW ch \in Channels, NEW tn \in Tenants, PushBegin(p, ch, tn) PROVE Positions'
    <3>1. Len(events') = Len(events) + 1
      BY <2>1, NewEventAppends DEF PushBegin
    <3>2. ASSUME NEW i \in DOMAIN published' PROVE published'[i] <= Len(events')
      BY <2>1, <3>1, <3>2 DEF PushBegin, EventIds
    <3>3. ASSUME NEW c \in Clients, NEW i \in DOMAIN queue'[c] PROVE queue'[c][i].ev <= Len(events')
      <4>1. queue' = queue /\ queue[c][i] \in Entry
        BY <2>1, <3>3 DEF PushBegin
      <4>2. QED
        BY <3>1, <3>3, <4>1 DEF Entry, EventIds, NoEvent
    <3>4. QED
      BY <2>0, <2>1, <3>1, <3>2, <3>3 DEF PushBegin
  <2>2. CASE PushPublish(p)
    <3>1. ASSUME NEW i \in DOMAIN published' PROVE published'[i] <= Len(events)
      BY <2>0, <2>2, <3>1 DEF PushPublish, Publish
    <3>2. QED
      BY <2>0, <2>2, <3>1 DEF PushPublish
  <2>3. CASE PushDirect(p)
    BY <2>0, <2>3 DEF PushDirect, StartDelivery, Free
  <2>4. QED
    BY <1>4, <2>1, <2>2, <2>3 DEF PushStep
<1>5. CASE ListenerReceive
  <2>1. published[read + 1] \in 1..Len(events) /\ Listener \in Tasks /\ Listener # Heartbeat
    BY <1>5 DEF ListenerReceive, EventIds, Tasks
  <2>2. QED
    BY <1>5, <2>1 DEF ListenerReceive, StartDelivery, Free
<1>6. CASE HeartbeatTick
  BY <1>6 DEF HeartbeatTick, StartDelivery, Free, Tasks
<1>7. ASSUME NEW t \in Tasks, LoopStep(t) \/ Resume(t) PROVE Positions'
  <2>1. ASSUME NEW c \in Clients, Enqueue(t, c), t # Heartbeat => cur[t] \in 1..Len(events)
        PROVE  \A d \in Clients : \A i \in DOMAIN queue'[d] : queue'[d][i].ev <= Len(events)
    <3>1. cur[t] <= Len(events)
      BY <2>1 DEF NoEvent
    <3>2. QED
      BY <2>1, <3>1 DEF Enqueue
  <2>2. CASE DeliverPut(t)
    <3>1. PICK c \in Remaining(t) : Enqueue(t, c)
      BY <2>2 DEF DeliverPut
    <3>2. c \in Clients /\ running = t /\ pc[t] = "deliver"
      BY <2>2 DEF Remaining, DeliverPut
    <3>3. \A d \in Clients : \A i \in DOMAIN queue'[d] : queue'[d][i].ev <= Len(events)
      BY <2>1, <3>1, <3>2
    <3>4. UNCHANGED <<running, pc, cur, at, published, events>>
      BY <2>2 DEF DeliverPut, busVars, redisVars
    <3>5. \A u \in Tasks : u # t => todo'[u] = todo[u]
      BY <3>1 DEF Enqueue
    <3>6. QED
      BY <3>2, <3>3, <3>4, <3>5
  <2>3. CASE DeliverBlock(t)
    BY <2>3 DEF DeliverBlock, Remaining, busVars, redisVars
  <2>4. CASE DeliverAll(t)
    BY <2>4 DEF DeliverAll, busVars, redisVars
  <2>5. CASE DeliverDone(t)
    BY <2>5 DEF DeliverDone, Finished, busVars, redisVars
  <2>6. CASE Resume(t)
    <3>1. at[t] \in Clients /\ Enqueue(t, at[t]) /\ pc[t] = "blocked" /\ Free
      BY <2>6 DEF Resume
    <3>2. \A d \in Clients : \A i \in DOMAIN queue'[d] : queue'[d][i].ev <= Len(events)
      BY <2>1, <3>1
    <3>3. UNCHANGED <<cur, published, events>>
      BY <2>6 DEF Resume, busVars, redisVars
    <3>4. \A u \in Tasks : u # t => todo'[u] = todo[u] /\ at'[u] = at[u] /\ pc'[u] = pc[u]
      BY <2>6, <3>1 DEF Enqueue, Resume
    <3>5. pc'[t] = "deliver" /\ running' = t
      BY <2>6 DEF Resume
    <3>6. QED
      BY <3>1, <3>2, <3>3, <3>4, <3>5 DEF Free
  <2>7. QED
    BY <1>7, <2>2, <2>3, <2>4, <2>5, <2>6 DEF LoopStep
<1>8. CASE RedisStep \/ UNCHANGED vars
  BY <1>1, <1>8 DEF RedisStep, RedisFails, RedisRecovers, ListenerDies, vars, taskVars, busVars, redisVars
<1>9. QED
  BY <1>2, <1>3, <1>4, <1>5, <1>6, <1>7, <1>8 DEF Next

(* The type invariant: every variable keeps the shape the code gives it.   *)
THEOREM TypeCorrect == Spec => []TypeOK
<1>1. Init => TypeOK /\ Positions
  BY InitTyped
<1>2. TypeOK /\ Positions /\ [Next]_vars => TypeOK' /\ Positions'
  BY TypeStep, PositionsStep
<1>3. QED
  BY <1>1, <1>2, PTL DEF Spec

LEMMA Typed == Spec => [](TypeOK /\ Positions)
  BY InitTyped, TypeStep, PositionsStep, PTL DEF Spec

-----------------------------------------------------------------------------
(* Only Register and Unregister touch the connection table or the index.   *)
LEMMA IndexStep ==
  TypeOK /\ IndexMatchesRegistry /\ [Next]_vars => IndexMatchesRegistry'
<1> SUFFICES ASSUME TypeOK, IndexMatchesRegistry, [Next]_vars PROVE IndexMatchesRegistry'
  OBVIOUS
<1> USE DEF IndexMatchesRegistry
<1>1. CASE UNCHANGED <<registered, subs>>
  BY <1>1
<1>2. ASSUME NEW c \in Clients, Register(c) PROVE IndexMatchesRegistry'
  BY <1>2 DEF Register, AddSubscriber
<1>3. ASSUME NEW c \in Clients, Unregister(c) PROVE IndexMatchesRegistry'
  BY <1>3 DEF Unregister, RemoveSubscriber
<1>4. ASSUME NEW c \in Clients, AuditCommit(c) \/ EnterLoop(c) \/ LeaveEarly(c) \/ Drain(c)
      PROVE UNCHANGED <<registered, subs>>
  BY <1>4 DEF AuditCommit, EnterLoop, LeaveEarly, Drain, connVars
<1>5. ASSUME NEW p \in Pushers, PushStep(p) PROVE UNCHANGED <<registered, subs>>
  BY <1>5 DEF PushStep, PushBegin, PushPublish, PushDirect, StartDelivery, connVars
<1>6. ASSUME NEW t \in Tasks, LoopStep(t) \/ Resume(t) PROVE UNCHANGED <<registered, subs>>
  BY <1>6 DEF LoopStep, DeliverPut, DeliverBlock, DeliverAll, DeliverDone, Resume, connVars
<1>7. ListenerReceive \/ HeartbeatTick \/ RedisStep \/ UNCHANGED vars => UNCHANGED <<registered, subs>>
  BY DEF ListenerReceive, HeartbeatTick, StartDelivery, RedisStep, RedisFails, RedisRecovers,
         ListenerDies, vars, connVars
<1>8. ASSUME NEW ch \in Channels, NEW tn \in Tenants \cup {NoTenant}, PublishRemote(ch, tn)
      PROVE UNCHANGED <<registered, subs>>
  BY <1>8 DEF PublishRemote, connVars
<1>9. QED
  BY <1>1, <1>2, <1>3, <1>4, <1>5, <1>6, <1>7, <1>8 DEF Next, StreamStep

(* The channel index and the connection table agree in every reachable     *)
(* state: no client is indexed without a connection, none is forgotten.    *)
THEOREM IndexCorrect == Spec => []IndexMatchesRegistry
<1>1. Init => IndexMatchesRegistry
  BY DEF Init, IndexMatchesRegistry
<1>2. QED
  BY <1>1, IndexStep, TypeCorrect, PTL DEF Spec

-----------------------------------------------------------------------------
(* A put adds one entry to one queue that has room for it.                 *)
LEMMA BoundStep == TypeOK /\ Positions /\ QueueBound /\ [Next]_vars => QueueBound'
<1> SUFFICES ASSUME TypeOK, Positions, QueueBound, [Next]_vars PROVE QueueBound'
  OBVIOUS
<1> USE RouterAssumption DEF TypeOK, QueueBound
<1>1. CASE UNCHANGED queue
  BY <1>1
<1>2. ASSUME NEW c \in Clients, Drain(c) PROVE QueueBound'
  BY <1>2 DEF Drain
<1>3. ASSUME NEW t \in Tasks, NEW c \in Clients, Len(queue[c]) < Cap, Enqueue(t, c) PROVE QueueBound'
  BY <1>3 DEF Enqueue
<1>4. ASSUME NEW t \in Tasks, DeliverPut(t) PROVE QueueBound'
  BY <1>3, <1>4 DEF DeliverPut, Remaining
<1>5. ASSUME NEW t \in Tasks, Resume(t) PROVE QueueBound'
  BY <1>3, <1>5 DEF Resume, Positions
<1>6. ASSUME NEW c \in Clients,
             Register(c) \/ AuditCommit(c) \/ EnterLoop(c) \/ LeaveEarly(c) \/ Unregister(c)
      PROVE UNCHANGED queue
  BY <1>6 DEF Register, AuditCommit, EnterLoop, LeaveEarly, Unregister
<1>7. ASSUME NEW p \in Pushers, PushStep(p) PROVE UNCHANGED queue
  BY <1>7 DEF PushStep, PushBegin, PushPublish, PushDirect, StartDelivery
<1>8. ASSUME NEW t \in Tasks, DeliverBlock(t) \/ DeliverAll(t) \/ DeliverDone(t) PROVE UNCHANGED queue
  BY <1>8 DEF DeliverBlock, DeliverAll, DeliverDone
<1>9. ListenerReceive \/ HeartbeatTick \/ RedisStep \/ UNCHANGED vars => UNCHANGED queue
  BY DEF ListenerReceive, HeartbeatTick, StartDelivery, RedisStep, RedisFails, RedisRecovers,
         ListenerDies, vars
<1>10. ASSUME NEW ch \in Channels, NEW tn \in Tenants \cup {NoTenant}, PublishRemote(ch, tn)
       PROVE UNCHANGED queue
  BY <1>10 DEF PublishRemote
<1>11. QED
  BY <1>1, <1>2, <1>4, <1>5, <1>6, <1>7, <1>8, <1>9, <1>10 DEF Next, StreamStep, LoopStep

(* No queue exceeds its maxsize, for any number of suspended puts.         *)
THEOREM QueueBounded == Spec => []QueueBound
<1>1. Init => QueueBound
  BY RouterAssumption DEF Init, QueueBound
<1>2. QED
  BY <1>1, BoundStep, Typed, PTL DEF Spec

-----------------------------------------------------------------------------
(* Why no queue holds a foreign event.  A delivering task only has clients *)
(* left that subscribed to its event's channel or to "all", and a task     *)
(* suspended on a queue has already compared the tenants; neither fact is  *)
(* lost while the loop runs other tasks.                                   *)
Wanted(c, n) == Follows(c, events[n].ch)

TargetsWanted ==
  \A t \in Tasks \ {Heartbeat} :
    pc[t] \in {"deliver", "blocked"} => \A c \in todo[t] : Wanted(c, cur[t])

SuspendedMatches ==
  \A t \in Tasks \ {Heartbeat} : pc[t] = "blocked" => TenantMatches(at[t], cur[t])

Contents == /\ TargetsWanted
            /\ SuspendedMatches
            /\ TenantIsolation
            /\ OnlySubscribedChannels

(* Steps that leave every queue, target set and delivering task alone.     *)
LEMMA ContentsFrame ==
  ASSUME TypeOK, Positions, Contents,
         \A n \in 1..Len(events) : events'[n] = events[n],
         UNCHANGED <<queue, todo>>,
         \A t \in Tasks : pc'[t] \in {"deliver", "blocked"} =>
            pc[t] = pc'[t] /\ cur[t] = cur'[t] /\ at[t] = at'[t]
  PROVE  Contents'
<1> USE RouterAssumption DEF TypeOK, Positions, Contents
<1>1. ASSUME NEW t \in Tasks \ {Heartbeat}, pc'[t] \in {"deliver", "blocked"}
      PROVE  /\ pc[t] = pc'[t] /\ cur[t] = cur'[t] /\ at[t] = at'[t]
             /\ events'[cur[t]] = events[cur[t]]
  <2>1. pc[t] = pc'[t] /\ cur[t] = cur'[t] /\ at[t] = at'[t]
    BY <1>1
  <2>2. cur[t] \in 1..Len(events)
    BY <1>1, <2>1
  <2>3. QED
    BY <2>1, <2>2
<1>2. TargetsWanted'
  BY ONLY <1>1, TargetsWanted, todo' = todo DEF TargetsWanted, Wanted
<1>3. SuspendedMatches'
  BY ONLY <1>1, SuspendedMatches DEF SuspendedMatches, TenantMatches
<1>4. ASSUME NEW c \in Clients, NEW i \in DOMAIN queue'[c], queue'[c][i].ev # NoEvent
      PROVE  queue'[c][i].ev \in 1..Len(events)
  <2>1. queue[c][i] \in Entry /\ queue[c][i].ev <= Len(events)
    BY <1>4
  <2>2. QED
    BY <1>4, <2>1 DEF Entry, EventIds, NoEvent
<1>5. TenantIsolation'
  BY ONLY <1>4, TenantIsolation, queue' = queue, \A n \in 1..Len(events) : events'[n] = events[n]
     DEF TenantIsolation, TenantMatches
<1>6. OnlySubscribedChannels'
  BY ONLY <1>4, OnlySubscribedChannels, queue' = queue,
          \A n \in 1..Len(events) : events'[n] = events[n]
     DEF OnlySubscribedChannels
<1>7. QED
  BY <1>2, <1>3, <1>5, <1>6

(* A put of an event that its client wants and may see.                    *)
LEMMA ContentsPut ==
  ASSUME TypeOK, Positions, Contents, NEW t \in Tasks, NEW c \in Clients,
         Enqueue(t, c),
         t # Heartbeat => cur[t] \in 1..Len(events) /\ Wanted(c, cur[t]) /\ TenantMatches(c, cur[t]),
         UNCHANGED <<events, cur>>,
         pc'[t] = "deliver",
         \A u \in Tasks : u # t => pc'[u] = pc[u] /\ at'[u] = at[u],
         pc[t] \in {"deliver", "blocked"}
  PROVE  Contents'
<1> USE RouterAssumption DEF TypeOK, Positions, Contents
<1>0. \A u \in Tasks : todo'[u] \subseteq todo[u]
  BY DEF Enqueue
<1>1. TargetsWanted'
  <2>1. ASSUME NEW u \in Tasks \ {Heartbeat}, pc'[u] \in {"deliver", "blocked"}, NEW d \in todo'[u]
        PROVE  Follows(d, events[cur[u]].ch)
    <3>1. pc[u] \in {"deliver", "blocked"}
      BY <2>1
    <3>2. d \in todo[u]
      BY <1>0
    <3>3. QED
      BY <3>1, <3>2 DEF TargetsWanted, Wanted
  <2>2. QED
    BY <2>1 DEF TargetsWanted, Wanted
<1>2. SuspendedMatches'
  BY DEF SuspendedMatches, TenantMatches
<1>3. t = Heartbeat => cur[t] = NoEvent
  OBVIOUS
<1>4. ASSUME NEW d \in Clients, NEW i \in DOMAIN queue'[d]
      PROVE  \/ i \in DOMAIN queue[d] /\ queue'[d][i] = queue[d][i]
             \/ d = c /\ queue'[d][i].ev = cur[t]
  BY <1>4 DEF Enqueue
<1>5. TenantIsolation'
  BY <1>3, <1>4 DEF TenantIsolation, TenantMatches
<1>6. OnlySubscribedChannels'
  <2>1. ASSUME NEW d \in Clients, NEW i \in DOMAIN queue'[d], queue'[d][i].ev # NoEvent
        PROVE  Follows(d, events[queue'[d][i].ev].ch)
    <3>1. CASE i \in DOMAIN queue[d] /\ queue'[d][i] = queue[d][i]
      BY <2>1, <3>1 DEF OnlySubscribedChannels
    <3>2. CASE d = c /\ queue'[d][i].ev = cur[t]
      BY <1>3, <2>1, <3>2 DEF Wanted
    <3>3. QED
      BY <1>4, <3>1, <3>2
  <2>2. QED
    BY <2>1 DEF OnlySubscribedChannels
<1>7. QED
  BY <1>1, <1>2, <1>5, <1>6

(* The start of a delivery to the subscribers of the event's channel.      *)
LEMMA ContentsStart ==
  ASSUME TypeOK, Positions, IndexMatchesRegistry, Contents,
         NEW t \in Tasks \ {Heartbeat}, NEW STATE n, n \in 1..Len(events), NEW STATE owing,
         StartDelivery(t, n, subs[events[n].ch], owing)
  PROVE  Contents'
<1> USE RouterAssumption DEF TypeOK, Positions, Contents
<1>0. UNCHANGED <<queue, at, events>>
  BY DEF StartDelivery
<1>1. events[n].ch \in Subscribable
  <2>1. events[n] \in EventRec
    OBVIOUS
  <2>2. QED
    BY <2>1 DEF EventRec, Subscribable
<1>2. \A c \in subs[events[n].ch] : Wanted(c, n)
  BY <1>1 DEF IndexMatchesRegistry, Wanted, Follows
<1>3. pc'[t] = "deliver" /\ cur'[t] = n /\ todo'[t] = subs[events[n].ch]
  BY DEF StartDelivery
<1>4. \A u \in Tasks : u # t => pc'[u] = pc[u] /\ cur'[u] = cur[u] /\ todo'[u] = todo[u]
  BY DEF StartDelivery
<1>5. TargetsWanted'
  BY <1>0, <1>2, <1>3, <1>4 DEF TargetsWanted, Wanted
<1>6. SuspendedMatches'
  BY <1>0, <1>3, <1>4 DEF SuspendedMatches, TenantMatches
<1>7. TenantIsolation' /\ OnlySubscribedChannels'
  BY <1>0 DEF TenantIsolation, OnlySubscribedChannels, TenantMatches
<1>8. QED
  BY <1>5, <1>6, <1>7

LEMMA ContentsStep ==
  TypeOK /\ Positions /\ IndexMatchesRegistry /\ Contents /\ [Next]_vars => Contents'
<1> SUFFICES ASSUME TypeOK, Positions, IndexMatchesRegistry, Contents, [Next]_vars PROVE Contents'
  OBVIOUS
<1> USE RouterAssumption
<1>1. ASSUME UNCHANGED <<queue, running, taskVars, published, read, events>> PROVE Contents'
  BY <1>1, ContentsFrame DEF taskVars
<1>2. ASSUME NEW c \in Clients, Drain(c) PROVE Contents'
  <2>1. UNCHANGED <<pc, cur, todo, at, events>>
    BY <1>2 DEF Drain, taskVars, busVars, redisVars
  <2>2. ASSUME NEW d \in Clients, NEW i \in DOMAIN queue'[d]
        PROVE \E j \in DOMAIN queue[d] : queue'[d][i] = queue[d][j]
    <3>1. CASE d = c
      <4>1. queue[c] \in Seq(Entry) /\ queue[c] # <<>> /\ queue'[c] = Tail(queue[c])
        BY <1>2 DEF Drain, TypeOK
      <4>2. i + 1 \in DOMAIN queue[c] /\ queue'[c][i] = queue[c][i + 1]
        BY <2>2, <3>1, <4>1
      <4>3. QED
        BY <3>1, <4>2
    <3>2. CASE d # c
      BY <1>2, <2>2, <3>2 DEF Drain, TypeOK
    <3>3. QED
      BY <3>1, <3>2
  <2>3. TargetsWanted' /\ SuspendedMatches'
    BY <2>1 DEF Contents, TargetsWanted, SuspendedMatches, Wanted, TenantMatches
  <2>4. TenantIsolation'
    BY <2>1, <2>2 DEF Contents, TenantIsolation, TenantMatches
  <2>5. OnlySubscribedChannels'
    BY <2>1, <2>2 DEF Contents, OnlySubscribedChannels
  <2>6. QED
    BY <2>3, <2>4, <2>5 DEF Contents
<1>3. ASSUME NEW c \in Clients, StreamStep(c) PROVE Contents'
  BY <1>1, <1>2, <1>3, QuietSteps DEF StreamStep
<1>4. ASSUME NEW ch \in Channels, NEW tn \in Tenants \cup {NoTenant}, PublishRemote(ch, tn) PROVE Contents'
  <2>1. \A n \in 1..Len(events) : events'[n] = events[n]
    BY <1>4, NewEventAppends DEF PublishRemote
  <2>2. QED
    BY <1>4, <2>1, ContentsFrame DEF PublishRemote, taskVars
<1>5. ASSUME NEW p \in Pushers, PushStep(p) PROVE Contents'
  <2>0. p \in Tasks \ {Heartbeat}
    BY DEF Tasks
  <2>1. ASSUME NEW ch \in Channels, NEW tn \in Tenants, PushBegin(p, ch, tn) PROVE Contents'
    <3>1. \A n \in 1..Len(events) : events'[n] = events[n]
      BY <2>1, NewEventAppends DEF PushBegin
    <3>2. \A t \in Tasks : pc'[t] \in {"deliver", "blocked"} =>
            pc[t] = pc'[t] /\ cur[t] = cur'[t] /\ at[t] = at'[t]
      BY <2>0, <2>1 DEF PushBegin, TypeOK
    <3>3. QED
      BY <2>1, <3>1, <3>2, ContentsFrame DEF PushBegin
  <2>2. CASE PushPublish(p)
    <3>1. \A t \in Tasks : pc'[t] \in {"deliver", "blocked"} =>
            pc[t] = pc'[t] /\ cur[t] = cur'[t] /\ at[t] = at'[t]
      BY <2>0, <2>2 DEF PushPublish, TypeOK
    <3>2. QED
      BY <2>2, <3>1, ContentsFrame DEF PushPublish
  <2>3. CASE PushDirect(p)
    <3>1. cur[p] \in 1..Len(events)
      BY <2>0, <2>3 DEF PushDirect, Positions
    <3>2. StartDelivery(p, cur[p], subs[events[cur[p]].ch], Audience(cur[p]))
      BY <2>3 DEF PushDirect
    <3>3. QED
      BY <2>0, <3>1, <3>2, ContentsStart
  <2>4. QED
    BY <1>5, <2>1, <2>2, <2>3 DEF PushStep
<1>6. CASE ListenerReceive
  <2>1. published[read + 1] \in 1..Len(events) /\ Listener \in Tasks \ {Heartbeat}
    BY <1>6 DEF ListenerReceive, EventIds, Tasks, TypeOK, Positions
  <2>2. StartDelivery(Listener, published[read + 1], subs[events[published[read + 1]].ch],
                      Audience(published[read + 1]))
    BY <1>6 DEF ListenerReceive
  <2>3. QED
    BY <2>1, <2>2, ContentsStart
<1>7. CASE HeartbeatTick
  <2>1. UNCHANGED <<queue, at, events>>
    BY <1>7 DEF HeartbeatTick, StartDelivery
  <2>2. \A t \in Tasks \ {Heartbeat} : pc'[t] = pc[t] /\ cur'[t] = cur[t] /\ todo'[t] = todo[t]
    BY <1>7 DEF HeartbeatTick, StartDelivery, TypeOK
  <2>3. QED
    BY <2>1, <2>2 DEF Contents, TargetsWanted, SuspendedMatches, TenantIsolation,
                      OnlySubscribedChannels, Wanted, TenantMatches
<1>8. ASSUME NEW t \in Tasks, DeliverPut(t) PROVE Contents'
  <2>1. PICK c \in Remaining(t) : Enqueue(t, c)
    BY <1>8 DEF DeliverPut
  <2>2. c \in Clients /\ c \in todo[t] /\ running = t /\ pc[t] = "deliver"
    BY <1>8, <2>1 DEF Remaining, DeliverPut, TypeOK, Positions
  <2>3. UNCHANGED <<pc, cur, at, events>>
    BY <1>8 DEF DeliverPut, busVars, redisVars
  <2>4. t # Heartbeat => cur[t] \in 1..Len(events) /\ Wanted(c, cur[t]) /\ TenantMatches(c, cur[t])
    BY <2>1, <2>2 DEF Remaining, Skips, Contents, TargetsWanted, Positions
  <2>5. QED
    BY <2>1, <2>2, <2>3, <2>4, ContentsPut
<1>9. ASSUME NEW t \in Tasks, DeliverBlock(t) PROVE Contents'
  <2>1. PICK c \in Remaining(t) : at' = [at EXCEPT ![t] = c]
    BY <1>9 DEF DeliverBlock
  <2>2. UNCHANGED <<queue, cur, todo, events>> /\ pc' = [pc EXCEPT ![t] = "blocked"]
    BY <1>9 DEF DeliverBlock, busVars, redisVars
  <2>3. running = t /\ pc[t] = "deliver"
    BY <1>9 DEF DeliverBlock, TypeOK, Positions
  <2>4. t # Heartbeat => TenantMatches(c, cur[t])
    BY <2>1 DEF Remaining, Skips
  <2>5. TargetsWanted'
    BY <2>2, <2>3 DEF Contents, TargetsWanted, Wanted, TypeOK
  <2>6. SuspendedMatches'
    BY <2>1, <2>2, <2>4 DEF Contents, SuspendedMatches, TenantMatches, TypeOK
  <2>7. TenantIsolation' /\ OnlySubscribedChannels'
    BY <2>2 DEF Contents, TenantIsolation, OnlySubscribedChannels, TenantMatches
  <2>8. QED
    BY <2>5, <2>6, <2>7 DEF Contents
<1>10. ASSUME NEW t \in Tasks, DeliverAll(t) PROVE Contents'
  <2>1. UNCHANGED <<queue, pc, cur, at, events>> /\ todo' = [todo EXCEPT ![t] = subs[AllChannel]]
    BY <1>10 DEF DeliverAll, busVars, redisVars
  <2>2. ASSUME NEW c \in subs[AllChannel], NEW STATE ch PROVE Follows(c, ch)
    BY DEF IndexMatchesRegistry, Follows, Subscribable
  <2>3. TargetsWanted'
    <3>1. ASSUME NEW u \in Tasks \ {Heartbeat}, pc[u] \in {"deliver", "blocked"}, NEW c \in todo'[u]
          PROVE  Follows(c, events[cur[u]].ch)
      BY <2>1, <2>2, <3>1 DEF Contents, TargetsWanted, Wanted, TypeOK
    <3>2. QED
      BY <2>1, <3>1 DEF TargetsWanted, Wanted
  <2>4. SuspendedMatches' /\ TenantIsolation' /\ OnlySubscribedChannels'
    BY <2>1 DEF Contents, SuspendedMatches, TenantIsolation, OnlySubscribedChannels, TenantMatches
  <2>5. QED
    BY <2>3, <2>4 DEF Contents
<1>11. ASSUME NEW t \in Tasks, DeliverDone(t) PROVE Contents'
  <2>1. UNCHANGED <<queue, at, events>>
    BY <1>11 DEF DeliverDone, busVars, redisVars
  <2>2. /\ pc'[t] = "idle"
        /\ \A u \in Tasks : u # t => pc'[u] = pc[u] /\ cur'[u] = cur[u] /\ todo'[u] = todo[u]
    BY <1>11 DEF DeliverDone, TypeOK
  <2>3. QED
    BY <2>1, <2>2 DEF Contents, TargetsWanted, SuspendedMatches, TenantIsolation,
                      OnlySubscribedChannels, Wanted, TenantMatches
<1>12. ASSUME NEW t \in Tasks, Resume(t) PROVE Contents'
  <2>1. at[t] \in Clients /\ at[t] \in todo[t] /\ Enqueue(t, at[t]) /\ pc[t] = "blocked"
    BY <1>12 DEF Resume, TypeOK, Positions
  <2>2. UNCHANGED <<cur, events>>
    BY <1>12 DEF Resume, busVars, redisVars
  <2>3. pc'[t] = "deliver" /\ \A u \in Tasks : u # t => pc'[u] = pc[u] /\ at'[u] = at[u]
    BY <1>12 DEF Resume, TypeOK
  <2>4. t # Heartbeat => cur[t] \in 1..Len(events) /\ Wanted(at[t], cur[t]) /\ TenantMatches(at[t], cur[t])
    BY <2>1 DEF Contents, TargetsWanted, SuspendedMatches, Positions
  <2>5. QED
    BY <2>1, <2>2, <2>3, <2>4, ContentsPut
<1>13. CASE RedisStep \/ UNCHANGED vars
  BY <1>1, <1>13 DEF RedisStep, RedisFails, RedisRecovers, ListenerDies, vars, taskVars, busVars, redisVars
<1>14. QED
  BY <1>3, <1>4, <1>5, <1>6, <1>7, <1>8, <1>9, <1>10, <1>11, <1>12, <1>13 DEF Next, LoopStep

LEMMA ContentsHold == Spec => []Contents
<1>1. Init => Contents
  BY DEF Init, Contents, TargetsWanted, SuspendedMatches, TenantIsolation, OnlySubscribedChannels
<1>2. QED
  BY <1>1, ContentsStep, Typed, IndexCorrect, PTL DEF Spec

(* No client's queue ever holds an event of another tenant.                *)
THEOREM TenantsIsolated == Spec => []TenantIsolation
  BY ContentsHold, PTL DEF Contents

(* No client's queue ever holds an event of a channel it did not ask for.  *)
THEOREM ChannelsRespected == Spec => []OnlySubscribedChannels
  BY ContentsHold, PTL DEF Contents

-----------------------------------------------------------------------------
(* How one delivery proceeds.  A client is put at most once, because what  *)
(* is left in todo has not been served, and the two loops walk different   *)
(* clients: those who named the channel and those who named "all".  A      *)
(* client owed the event and still registered is served, still in todo, or *)
(* an "all" client for the second loop.                                    *)
Delivering(t) == pc[t] \in {"deliver", "blocked"}

(* What a task that delivers nothing has put back.                         *)
AtRest(t) == ~Delivering(t) => served[t] = {} /\ owed[t] = {} /\ phase[t] = 1

Owing(t) ==
  /\ \A c \in owed[t] : stage[c] # "new" /\ TenantMatches(c, cur[t])
  /\ \A c \in owed[t] \cap registered :
       c \in served[t] \cup todo[t] \/ (phase[t] = 1 /\ AllChannel \in CatsOf[c])

Walking(t) ==
  /\ todo[t] \cap served[t] = {}
  /\ phase[t] = 1 => \A c \in todo[t] \cup served[t] : events[cur[t]].ch \in CatsOf[c]
  /\ phase[t] = 2 => \A c \in todo[t] : AllChannel \in CatsOf[c]

DeliveryOf(t) == AtRest(t) /\ (t # Heartbeat /\ Delivering(t) => Owing(t) /\ Walking(t))

Deliveries ==
  /\ \A c \in registered : stage[c] # "new"
  /\ owed[Heartbeat] = {}
  /\ \A t \in Tasks : DeliveryOf(t)

(* The subscription carries each event once, whether the listener has read *)
(* it or not; no event is pushed by two tasks; the listener delivers what  *)
(* it read last.                                                           *)
Wire ==
  /\ \A i, j \in DOMAIN published : published[i] = published[j] => i = j
  /\ \A p \in Pushers : pc[p] = "publishing" => \A i \in DOMAIN published : published[i] # cur[p]
  /\ \A p, q \in Pushers : pc[p] # "idle" /\ pc[q] # "idle" /\ cur[p] = cur[q] => p = q
  /\ pc[Listener] # "idle" => read > 0 /\ cur[Listener] = published[read]

(* The copies of an event a client may still get: from the task that       *)
(* pushes it, and from the listener.                                       *)
DirectLeft(c, n) == \E p \in Pushers : pc[p] # "idle" /\ cur[p] = n /\ c \notin served[p]

EchoLeft(c, n) ==
  \/ \E p \in Pushers : pc[p] = "publishing" /\ cur[p] = n
  \/ \E i \in (read + 1)..Len(published) : published[i] = n
  \/ pc[Listener] # "idle" /\ cur[Listener] = n /\ c \notin served[Listener]

Expected(c, n) ==
  (IF DirectLeft(c, n) THEN 1 ELSE 0) + (IF EchoLeft(c, n) THEN 1 ELSE 0)

Copies ==
  \A c \in Clients, n \in EventIds :
    IF n <= Len(events)
      THEN copies[c][n] + Expected(c, n) <= IF events[n].local THEN 2 ELSE 1
      ELSE copies[c][n] = 0

(* What the listener put on a queue stands on the wire in the order of the *)
(* queue, and before the event the listener has still to put there.        *)
Reads ==
  \A c \in Clients : \A i \in DOMAIN queue[c] :
    queue[c][i].via = Listener =>
      \E k \in 1..read :
        /\ published[k] = queue[c][i].ev
        /\ pc[Listener] # "idle" /\ c \notin served[Listener] => k < read

InOrder ==
  \A c \in Clients : \A i, j \in DOMAIN queue[c] :
    i < j /\ queue[c][i].via = Listener /\ queue[c][j].via = Listener =>
      \A k, l \in DOMAIN published :
        published[k] = queue[c][i].ev /\ published[l] = queue[c][j].ev => k < l

-----------------------------------------------------------------------------
(* What steps leave alone, for the three proofs that follow.               *)

SameTask(t) ==
  /\ pc'[t] = pc[t] /\ cur'[t] = cur[t] /\ phase'[t] = phase[t]
  /\ todo'[t] = todo[t] /\ served'[t] = served[t] /\ owed'[t] = owed[t]

EventsKept == \A n \in 1..Len(events) : events'[n] = events[n]

(* A stream leaves "new" once, and registers when it does.                 *)
StreamsMoveOn ==
  /\ \A c \in Clients : stage[c] # "new" => stage'[c] # "new"
  /\ \A c \in Clients : c \in registered' /\ c \notin registered => stage[c] = "new"
  /\ (\A c \in registered : stage[c] # "new") => \A c \in registered' : stage'[c] # "new"

(* One put of a delivery, suspended before or not.                         *)
Puts(t, c) ==
  /\ Enqueue(t, c) /\ c \in todo[t] /\ Delivering(t)
  /\ UNCHANGED <<connVars, cur, phase, owed, busVars>>
  /\ pc'[t] = "deliver" /\ \A u \in Tasks : u # t => pc'[u] = pc[u]

Starts(t, n, owing) ==
  /\ StartDelivery(t, n, IF t = Heartbeat THEN registered ELSE subs[events[n].ch], owing)
  /\ ~Delivering(t)
  /\ t # Heartbeat => n \in 1..Len(events) /\ owing = Audience(n)
  /\ t = Heartbeat => n = NoEvent /\ owing = {}

LEMMA PutShape ==
  ASSUME TypeOK, Positions, NEW t \in Tasks, DeliverPut(t) \/ Resume(t)
  PROVE  \E c \in Clients : Puts(t, c)
<1>1. CASE DeliverPut(t)
  <2>1. PICK c \in Remaining(t) : Enqueue(t, c)
    BY <1>1 DEF DeliverPut
  <2>2. c \in todo[t] /\ c \in Clients /\ pc[t] = "deliver"
    BY <1>1, <2>1 DEF DeliverPut, Remaining, TypeOK, Positions
  <2>3. QED
    BY <1>1, <2>1, <2>2 DEF DeliverPut, Puts, Delivering
<1>2. CASE Resume(t)
  <2>1. at[t] \in todo[t] /\ at[t] \in Clients /\ pc[t] = "blocked"
    BY <1>2 DEF Resume, TypeOK, Positions
  <2>2. pc' = [pc EXCEPT ![t] = "deliver"] /\ Enqueue(t, at[t])
    BY <1>2 DEF Resume
  <2>3. pc'[t] = "deliver" /\ \A u \in Tasks : u # t => pc'[u] = pc[u]
    BY <2>2 DEF TypeOK
  <2>4. UNCHANGED <<connVars, cur, phase, owed, busVars>>
    BY <1>2 DEF Resume
  <2>5. QED
    BY <2>1, <2>2, <2>3, <2>4 DEF Puts, Delivering
<1>3. QED
  BY <1>1, <1>2

LEMMA StartShape ==
  ASSUME TypeOK, Positions
  PROVE  /\ \A p \in Pushers : PushDirect(p) => Starts(p, cur[p], Audience(cur[p]))
         /\ ListenerReceive => Starts(Listener, published[read + 1], Audience(published[read + 1]))
         /\ HeartbeatTick => Starts(Heartbeat, NoEvent, {})
<1> USE RouterAssumption DEF TypeOK, Positions, Starts, Delivering, Tasks
<1>1. ASSUME NEW p \in Pushers, PushDirect(p) PROVE Starts(p, cur[p], Audience(cur[p]))
  BY <1>1 DEF PushDirect
<1>2. ASSUME ListenerReceive
      PROVE  Starts(Listener, published[read + 1], Audience(published[read + 1]))
  <2>1. published[read + 1] \in 1..Len(events)
    BY <1>2 DEF ListenerReceive, EventIds
  <2>2. QED
    BY <1>2, <2>1 DEF ListenerReceive
<1>3. ASSUME HeartbeatTick PROVE Starts(Heartbeat, NoEvent, {})
  BY <1>3 DEF HeartbeatTick
<1>4. QED
  BY <1>1, <1>2, <1>3

(* Every step is one of these.                                             *)
Elsewhere == UNCHANGED <<queue, taskVars, published, read, events, copies>>

Opens(p) ==
  /\ p \in Pushers /\ pc[p] = "idle" /\ pc' = [pc EXCEPT ![p] = "publishing"]
  /\ cur' = [cur EXCEPT ![p] = Len(events) + 1]
  /\ \E ch \in Channels, tn \in Tenants : NewEvent(ch, tn, TRUE)
  /\ UNCHANGED <<connVars, queue, phase, todo, served, owed, published, read, copies>>

Hands(p) ==
  /\ p \in Pushers /\ pc[p] = "publishing" /\ pc' = [pc EXCEPT ![p] = "published"]
  /\ published' \in {published, Append(published, cur[p])}
  /\ UNCHANGED <<connVars, queue, cur, phase, todo, served, owed, read, events, copies>>

Arrives ==
  /\ \E ch \in Channels, tn \in Tenants \cup {NoTenant} : NewEvent(ch, tn, FALSE)
  /\ published' \in {published, Append(published, Len(events) + 1)}
  /\ UNCHANGED <<connVars, queue, taskVars, read, copies>>

Begins(t) ==
  /\ \E n, owing : Starts(t, n, owing)
  /\ IF t = Listener THEN /\ pc[t] = "idle" /\ read < Len(published) /\ read' = read + 1
                          /\ cur'[t] = published[read + 1]
     ELSE read' = read
  /\ t \in Pushers => pc[t] = "published" /\ cur' = cur

Turns(t) == DeliverAll(t) \/ DeliverBlock(t) \/ DeliverDone(t)

LEMMA StepKinds ==
  ASSUME TypeOK, Positions, [Next]_vars
  PROVE  \/ Elsewhere /\ StreamsMoveOn
         \/ \E c \in Clients : Drain(c)
         \/ \E p \in Pushers : Opens(p) \/ Hands(p)
         \/ Arrives
         \/ \E t \in Tasks : Begins(t) \/ Turns(t) \/ \E c \in Clients : Puts(t, c)
<1>1. ASSUME NEW c \in Clients, StreamStep(c), ~Drain(c) PROVE Elsewhere /\ StreamsMoveOn
  <2>1. Elsewhere
    BY <1>1 DEF StreamStep, Register, AuditCommit, EnterLoop, LeaveEarly, Unregister, Elsewhere,
                taskVars, busVars, redisVars
  <2>2. StreamsMoveOn
    BY <1>1 DEF StreamStep, Register, AuditCommit, EnterLoop, LeaveEarly, Unregister,
                StreamsMoveOn, TypeOK
  <2>3. QED
    BY <2>1, <2>2
<1>2. ASSUME NEW ch \in Channels, NEW tn \in Tenants \cup {NoTenant}, PublishRemote(ch, tn)
      PROVE  Arrives
  BY <1>2 DEF PublishRemote, Publish, Arrives, taskVars, connVars
<1>3. ASSUME NEW p \in Pushers, PushStep(p), ~PushDirect(p) PROVE Opens(p) \/ Hands(p)
  <2>1. ASSUME NEW ch \in Channels, NEW tn \in Tenants, PushBegin(p, ch, tn) PROVE Opens(p)
    BY <2>1 DEF PushBegin, Opens
  <2>2. CASE PushPublish(p)
    BY <2>2 DEF PushPublish, Publish, Hands
  <2>3. QED
    BY <1>3, <2>1, <2>2 DEF PushStep
<1>4. ASSUME NEW p \in Pushers, PushDirect(p) PROVE Begins(p)
  <2>1. Starts(p, cur[p], Audience(cur[p]))
    BY <1>4, StartShape
  <2>2. cur' = cur
    BY <1>4 DEF PushDirect, StartDelivery, TypeOK
  <2>3. QED
    BY <1>4, <2>1, <2>2, RouterAssumption DEF Begins, PushDirect
<1>5. CASE ListenerReceive
  <2>1. Starts(Listener, published[read + 1], Audience(published[read + 1]))
    BY <1>5, StartShape
  <2>2. cur'[Listener] = published[read + 1]
    BY <2>1 DEF Starts, StartDelivery, TypeOK, Tasks
  <2>3. QED
    BY <1>5, <2>1, <2>2, RouterAssumption DEF Begins, ListenerReceive, Tasks
<1>6. CASE HeartbeatTick
  <2>1. Starts(Heartbeat, NoEvent, {})
    BY <1>6, StartShape
  <2>2. QED
    BY <1>6, <2>1, RouterAssumption DEF Begins, HeartbeatTick, Tasks
<1>7. ASSUME NEW t \in Tasks, LoopStep(t) \/ Resume(t)
      PROVE  Turns(t) \/ \E c \in Clients : Puts(t, c)
  BY <1>7, PutShape DEF LoopStep, Turns
<1>8. CASE RedisStep \/ UNCHANGED vars
  BY <1>8 DEF RedisStep, RedisFails, RedisRecovers, ListenerDies, vars, connVars, taskVars, busVars,
              redisVars, Elsewhere, StreamsMoveOn
<1>9. Listener \in Tasks /\ Heartbeat \in Tasks /\ Pushers \subseteq Tasks
  BY DEF Tasks
<1>10. CASE Next
  <2>1. CASE \E c \in Clients : StreamStep(c)
    BY <1>1, <2>1
  <2>2. CASE \E p \in Pushers : PushStep(p)
    BY <1>3, <1>4, <1>9, <2>2
  <2>3. CASE \E t \in Tasks : LoopStep(t) \/ Resume(t)
    BY <1>7, <2>3
  <2>4. QED
    BY <1>2, <1>5, <1>6, <1>8, <1>9, <1>10, <2>1, <2>2, <2>3 DEF Next
<1>11. QED
  BY <1>8, <1>10

-----------------------------------------------------------------------------
LEMMA StreamsFrame == UNCHANGED connVars => StreamsMoveOn
  BY DEF connVars, StreamsMoveOn

LEMMA EventFrame ==
  ASSUME TypeOK, NEW ch \in Channels, NEW tn \in Tenants \cup {NoTenant}, NEW l \in BOOLEAN,
         NewEvent(ch, tn, l)
  PROVE  /\ EventsKept /\ Len(events') = Len(events) + 1 /\ events' \in Seq(EventRec)
         /\ events'[Len(events) + 1].local = l
<1>1. EventsKept /\ Len(events') = Len(events) + 1 /\ events' \in Seq(EventRec)
  BY NewEventAppends DEF EventsKept
<1>2. events'[Len(events) + 1] = [ch |-> ch, tenant |-> tn, local |-> l]
  BY DEF NewEvent, TypeOK
<1>3. QED
  BY <1>1, <1>2

(* A task that delivers an event delivers it on its own channel.           *)
LEMMA ChannelOf ==
  ASSUME TypeOK, Positions, NEW t \in Tasks, t # Heartbeat, Delivering(t)
  PROVE  events[cur[t]].ch \in Channels /\ events[cur[t]].ch # AllChannel
<1>1. cur[t] \in 1..Len(events)
  BY DEF Positions, Delivering
<1>2. events[cur[t]] \in EventRec
  BY <1>1 DEF TypeOK
<1>3. QED
  BY <1>2, RouterAssumption DEF EventRec

(* A task that takes no part in a step keeps what is said of its delivery. *)
LEMMA DeliveryFrame ==
  ASSUME TypeOK, Positions, NEW t \in Tasks, DeliveryOf(t), SameTask(t), EventsKept, StreamsMoveOn
  PROVE  DeliveryOf(t)'
<1>1. AtRest(t)' /\ (Delivering(t)' => Delivering(t))
  BY DEF DeliveryOf, AtRest, SameTask, Delivering
<1>2. ASSUME t # Heartbeat, Delivering(t)' PROVE Owing(t)' /\ Walking(t)'
  <2>1. Owing(t) /\ Walking(t) /\ cur[t] \in 1..Len(events)
    BY <1>1, <1>2 DEF DeliveryOf, Delivering, Positions
  <2>2. events'[cur'[t]] = events[cur[t]]
    BY <2>1 DEF EventsKept, SameTask
  <2>3. owed[t] \subseteq Clients
    BY DEF TypeOK
  <2>4. Owing(t)'
    BY <2>1, <2>2, <2>3 DEF Owing, SameTask, StreamsMoveOn, TenantMatches
  <2>5. Walking(t)'
    BY <2>1, <2>2 DEF Walking, SameTask
  <2>6. QED
    BY <2>4, <2>5
<1>3. QED
  BY <1>1, <1>2 DEF DeliveryOf

(* A delivery begins with the subscribers of the channel and owes the      *)
(* event to the audience, all of it on the channel or on "all".            *)
LEMMA DeliveryBegins ==
  ASSUME TypeOK, Positions, IndexMatchesRegistry, Deliveries, NEW t \in Tasks, NEW n, NEW owing,
         Starts(t, n, owing)
  PROVE  DeliveryOf(t)'
<1>1. /\ pc'[t] = "deliver" /\ cur'[t] = n /\ owed'[t] = owing
      /\ todo'[t] = IF t = Heartbeat THEN registered ELSE subs[events[n].ch]
      /\ served'[t] = {} /\ phase'[t] = 1 /\ UNCHANGED <<connVars, events>>
  BY DEF Starts, StartDelivery, TypeOK, Deliveries, DeliveryOf, AtRest
<1>2. AtRest(t)'
  BY <1>1 DEF AtRest, Delivering
<1>3. ASSUME t # Heartbeat PROVE Owing(t)' /\ Walking(t)'
  <2>1. n \in 1..Len(events) /\ owing = Audience(n) /\ events[n] \in EventRec
    BY <1>3 DEF Starts, TypeOK
  <2>2. events[n].ch \in Subscribable
    BY <2>1 DEF EventRec, Subscribable
  <2>3. todo'[t] = {c \in registered : events[n].ch \in CatsOf[c]}
    BY <1>1, <1>3, <2>2 DEF IndexMatchesRegistry
  <2>4. Walking(t)'
    BY <1>1, <2>3 DEF Walking
  <2>5. \A c \in owing : c \in registered /\ TenantMatches(c, n)
                         /\ (events[n].ch \in CatsOf[c] \/ AllChannel \in CatsOf[c])
    BY <2>1 DEF Audience, Follows
  <2>6. Owing(t)'
    BY <1>1, <2>3, <2>5 DEF Owing, Deliveries, TenantMatches, connVars
  <2>7. QED
    BY <2>4, <2>6
<1>4. QED
  BY <1>2, <1>3 DEF DeliveryOf

(* Where the first loop ends, whoever of its clients is owed the event has *)
(* been served, and the second loop has none of them: no client names both *)
(* a channel and "all".                                                    *)
LEMMA DeliveryTurns ==
  ASSUME TypeOK, Positions, IndexMatchesRegistry, Deliveries, NEW t \in Tasks, Turns(t)
  PROVE  DeliveryOf(t)'
<1>1. CASE DeliverBlock(t)
  <2>1. /\ Delivering(t) /\ Delivering(t)'
        /\ UNCHANGED <<connVars, cur, phase, todo, owed, served, events>>
    BY <1>1 DEF DeliverBlock, Delivering, TypeOK, Positions, busVars, redisVars
  <2>2. QED
    BY <2>1 DEF Deliveries, DeliveryOf, AtRest, Owing, Walking, TenantMatches, connVars
<1>2. CASE DeliverDone(t)
  BY <1>2 DEF DeliverDone, DeliveryOf, AtRest, Delivering, TypeOK
<1>3. CASE DeliverAll(t)
  <2>1. /\ t # Heartbeat /\ Delivering(t) /\ Delivering(t)' /\ phase[t] = 1 /\ phase'[t] = 2
        /\ Remaining(t) = {} /\ todo'[t] = subs[AllChannel]
        /\ UNCHANGED <<connVars, cur, owed, served, events>>
    BY <1>3 DEF DeliverAll, Delivering, TypeOK, Positions, busVars, redisVars
  <2>2. Owing(t) /\ Walking(t)
    BY <2>1 DEF Deliveries, DeliveryOf
  <2>3. todo'[t] = {c \in registered : AllChannel \in CatsOf[c]}
    BY <2>1 DEF IndexMatchesRegistry, Subscribable
  <2>4. events[cur[t]].ch # AllChannel
    BY <2>1, ChannelOf
  <2>5. served[t] \subseteq Clients /\ registered \subseteq Clients
    BY DEF TypeOK
  <2>6. Walking(t)'
    BY <2>1, <2>2, <2>3, <2>4, <2>5, RouterAssumption DEF Walking
  <2>7. \A c \in todo[t] : c \in owed[t] => c \notin registered
    BY <2>1, <2>2 DEF Remaining, Skips, Owing
  <2>8. Owing(t)'
    BY <2>1, <2>2, <2>3, <2>7 DEF Owing, TenantMatches, connVars
  <2>9. QED
    BY <2>1, <2>6, <2>8 DEF DeliveryOf, AtRest
<1>4. QED
  BY <1>1, <1>2, <1>3 DEF Turns

LEMMA DeliveryPuts ==
  ASSUME TypeOK, Positions, Deliveries, NEW t \in Tasks, NEW c \in Clients, Puts(t, c)
  PROVE  DeliveryOf(t)'
<1>1. /\ Delivering(t) /\ Delivering(t)' /\ c \in todo[t]
      /\ UNCHANGED <<connVars, cur, phase, owed, events>>
      /\ todo'[t] = todo[t] \ {c} /\ served'[t] = served[t] \cup {c}
  BY DEF Puts, Enqueue, Delivering, TypeOK, busVars, redisVars
<1>2. ASSUME t # Heartbeat PROVE Owing(t)' /\ Walking(t)'
  <2>1. Owing(t) /\ Walking(t)
    BY <1>1, <1>2 DEF Deliveries, DeliveryOf
  <2>2. QED
    BY <1>1, <2>1 DEF Owing, Walking, TenantMatches, connVars
<1>3. QED
  BY <1>1, <1>2 DEF DeliveryOf, AtRest

(* The tasks other than the one that moves.                                *)
LEMMA OthersSame ==
  ASSUME TypeOK, NEW t \in Tasks, NEW u \in Tasks, u # t,
         Begins(t) \/ Turns(t) \/ (\E c \in Clients : Puts(t, c)) \/ Opens(t) \/ Hands(t)
  PROVE  SameTask(u)
<1>1. CASE Begins(t)
  BY <1>1 DEF Begins, Starts, StartDelivery, SameTask, TypeOK
<1>2. CASE Turns(t)
  BY <1>2 DEF Turns, DeliverAll, DeliverBlock, DeliverDone, SameTask, TypeOK
<1>3. CASE \E c \in Clients : Puts(t, c)
  BY <1>3 DEF Puts, Enqueue, SameTask, TypeOK
<1>4. CASE Opens(t) \/ Hands(t)
  BY <1>4 DEF Opens, Hands, SameTask, TypeOK
<1>5. QED
  BY <1>1, <1>2, <1>3, <1>4

(* A step of one task leaves the records of events and the streams alone.  *)
LEMMA TaskFrame ==
  ASSUME TypeOK, NEW t \in Tasks, Begins(t) \/ Turns(t) \/ \E c \in Clients : Puts(t, c)
  PROVE  EventsKept /\ StreamsMoveOn /\ events' = events
<1>1. UNCHANGED <<connVars, events>>
  BY DEF Begins, Starts, StartDelivery, Turns, DeliverAll, DeliverBlock, DeliverDone, Puts,
         busVars, redisVars
<1>2. QED
  BY <1>1, StreamsFrame DEF EventsKept

LEMMA DeliveriesStep ==
  TypeOK /\ Positions /\ IndexMatchesRegistry /\ Deliveries /\ [Next]_vars => Deliveries'
<1> SUFFICES ASSUME TypeOK, Positions, IndexMatchesRegistry, Deliveries, [Next]_vars
             PROVE  Deliveries'
  OBVIOUS
<1>1. ASSUME EventsKept, StreamsMoveOn, owed'[Heartbeat] = {}, \A t \in Tasks : DeliveryOf(t)'
      PROVE  Deliveries'
  BY <1>1 DEF Deliveries, StreamsMoveOn
<1>2. ASSUME EventsKept, StreamsMoveOn, UNCHANGED taskVars PROVE Deliveries'
  <2>1. \A t \in Tasks : SameTask(t)
    BY <1>2 DEF SameTask, taskVars
  <2>2. \A t \in Tasks : DeliveryOf(t)'
    BY <1>2, <2>1, DeliveryFrame DEF Deliveries
  <2>3. owed'[Heartbeat] = {}
    BY <1>2 DEF Deliveries, taskVars
  <2>4. QED
    BY <1>1, <1>2, <2>2, <2>3
<1>3. CASE Elsewhere /\ StreamsMoveOn
  BY <1>2, <1>3 DEF Elsewhere, EventsKept
<1>4. ASSUME NEW c \in Clients, Drain(c) PROVE Deliveries'
  BY <1>2, <1>4, StreamsFrame DEF Drain, EventsKept, busVars, redisVars
<1>5. CASE Arrives
  BY <1>2, <1>5, StreamsFrame, EventFrame DEF Arrives
<1>6. ASSUME NEW p \in Pushers, Opens(p) \/ Hands(p) PROVE Deliveries'
  <2>1. p \in Tasks /\ p # Heartbeat
    BY RouterAssumption DEF Tasks
  <2>2. EventsKept
    <3>1. CASE Opens(p)
      BY <3>1, EventFrame DEF Opens
    <3>2. CASE Hands(p)
      BY <3>2 DEF Hands, EventsKept
    <3>3. QED
      BY <1>6, <3>1, <3>2
  <2>3. StreamsMoveOn /\ owed' = owed
    BY <1>6, StreamsFrame DEF Opens, Hands
  <2>4. DeliveryOf(p)'
    BY <1>6, <2>1 DEF Opens, Hands, DeliveryOf, AtRest, Delivering, Deliveries, TypeOK
  <2>5. \A u \in Tasks : u # p => DeliveryOf(u)'
    BY <1>6, <2>1, <2>2, <2>3, OthersSame, DeliveryFrame DEF Deliveries
  <2>6. QED
    BY <1>1, <2>2, <2>3, <2>4, <2>5 DEF Deliveries
<1>7. ASSUME NEW t \in Tasks, Begins(t) \/ Turns(t) \/ \E c \in Clients : Puts(t, c)
      PROVE  Deliveries'
  <2>1. EventsKept /\ StreamsMoveOn
    BY <1>7, TaskFrame
  <2>2. DeliveryOf(t)'
    BY <1>7, DeliveryBegins, DeliveryTurns, DeliveryPuts DEF Begins
  <2>3. \A u \in Tasks : u # t => DeliveryOf(u)'
    BY <1>7, <2>1, OthersSame, DeliveryFrame DEF Deliveries
  <2>4. owed'[Heartbeat] = {}
    <3>1. Heartbeat \in Tasks
      BY DEF Tasks
    <3>2. CASE t # Heartbeat
      BY <1>7, <3>1, <3>2, OthersSame DEF SameTask, Deliveries
    <3>3. CASE t = Heartbeat
      BY <1>7, <3>1, <3>3 DEF Begins, Starts, StartDelivery, Turns, DeliverAll, DeliverBlock,
                              DeliverDone, Puts, Deliveries, TypeOK
    <3>4. QED
      BY <3>2, <3>3
  <2>5. QED
    BY <1>1, <2>1, <2>2, <2>3, <2>4
<1>8. QED
  BY <1>3, <1>4, <1>5, <1>6, <1>7, StepKinds

LEMMA DeliveriesHold == Spec => []Deliveries
<1>1. Init => Deliveries
  BY DEF Init, Deliveries, DeliveryOf, AtRest, Delivering, Tasks
<1>2. QED
  BY <1>1, DeliveriesStep, Typed, IndexCorrect, PTL DEF Spec

(* A delivery that ends has reached every client that was entitled to the  *)
(* event when it began and is still registered (_on_redis_message 197-212).*)
THEOREM DeliveriesComplete == Spec => DeliveryComplete
<1>1. ASSUME TypeOK, Positions, IndexMatchesRegistry, Deliveries, NEW t \in Tasks, Finished(t)
      PROVE  owed[t] \cap registered \subseteq served[t]
  <2>1. CASE t = Heartbeat
    BY <1>1, <2>1 DEF Deliveries
  <2>2. CASE t # Heartbeat
    <3>1. Delivering(t) /\ Remaining(t) = {} /\ phase[t] = 2
      BY <1>1, <2>2 DEF Finished, Positions, Delivering
    <3>2. Owing(t) /\ Walking(t)
      BY <1>1, <2>2, <3>1 DEF Deliveries, DeliveryOf
    <3>3. events[cur[t]].ch \in Channels /\ events[cur[t]].ch # AllChannel
      BY <1>1, <2>2, <3>1, ChannelOf
    <3>4. ASSUME NEW c \in todo[t], c \in owed[t], c \in registered PROVE FALSE
      <4>1. c \in Clients /\ AllChannel \in CatsOf[c] /\ TenantMatches(c, cur[t])
        BY <1>1, <3>1, <3>2, <3>4 DEF Walking, Owing, TypeOK
      <4>2. c \notin subs[events[cur[t]].ch]
        BY <1>1, <3>3, <4>1, RouterAssumption DEF IndexMatchesRegistry, Subscribable
      <4>3. QED
        BY <3>1, <3>4, <4>1, <4>2 DEF Remaining, Skips
    <3>5. QED
      BY <3>1, <3>2, <3>4 DEF Owing
  <2>3. QED
    BY <2>1, <2>2
<1>2. TypeOK /\ Positions /\ IndexMatchesRegistry /\ Deliveries =>
        \A t \in Tasks : Finished(t) /\ running' = NoTask
          => owed[t] \cap registered \subseteq served[t]
  BY <1>1
<1>3. QED
  BY <1>2, Typed, IndexCorrect, DeliveriesHold, PTL DEF DeliveryComplete, Spec

-----------------------------------------------------------------------------
(* Steps that neither publish nor begin a delivery: whoever is at work     *)
(* afterwards was at work before, on the same event.                       *)
Calm ==
  /\ UNCHANGED <<published, read>>
  /\ \A u \in Tasks :
       /\ pc'[u] # "idle" => /\ pc[u] # "idle" /\ cur'[u] = cur[u]
                             /\ served[u] \subseteq served'[u]
       /\ pc'[u] = "publishing" => pc[u] = "publishing"

LEMMA CalmSteps ==
  ASSUME TypeOK, Positions
  PROVE  /\ Elsewhere => Calm
         /\ \A c \in Clients : Drain(c) => Calm
         /\ \A t \in Tasks : Turns(t) => Calm
         /\ \A t \in Tasks, c \in Clients : Puts(t, c) => Calm
         /\ \A t \in Tasks \ {Listener, Heartbeat} : Begins(t) => Calm
<1>1. Elsewhere => Calm
  BY DEF Elsewhere, Calm, taskVars
<1>2. ASSUME NEW c \in Clients, Drain(c) PROVE Calm
  BY <1>2 DEF Drain, Calm, taskVars, busVars, redisVars
<1>3. ASSUME NEW t \in Tasks, Turns(t) PROVE Calm
  <2>1. UNCHANGED <<published, read>> /\ pc[t] = "deliver"
    BY <1>3 DEF Turns, DeliverAll, DeliverBlock, DeliverDone, Finished, busVars, redisVars,
                TypeOK, Positions
  <2>2. /\ pc'[t] \in {"deliver", "blocked", "idle"}
        /\ pc'[t] # "idle" => cur'[t] = cur[t] /\ served'[t] = served[t]
    BY <1>3, <2>1 DEF Turns, DeliverAll, DeliverBlock, DeliverDone, TypeOK
  <2>3. \A u \in Tasks : u # t => SameTask(u)
    BY <1>3, OthersSame
  <2>4. QED
    BY <2>1, <2>2, <2>3 DEF Calm, SameTask
<1>4. ASSUME NEW t \in Tasks, NEW c \in Clients, Puts(t, c) PROVE Calm
  BY <1>4 DEF Puts, Enqueue, Delivering, Calm, busVars, redisVars, TypeOK
<1>5. ASSUME NEW t \in Tasks \ {Listener, Heartbeat}, Begins(t) PROVE Calm
  <2>1. t \in Pushers
    BY DEF Tasks
  <2>2. /\ pc[t] = "published" /\ cur' = cur /\ served' = served /\ read' = read
        /\ published' = published /\ pc' = [pc EXCEPT ![t] = "deliver"]
    BY <1>5, <2>1 DEF Begins, Starts, StartDelivery
  <2>3. QED
    BY <2>2 DEF Calm, TypeOK
<1>6. QED
  BY <1>1, <1>2, <1>3, <1>4, <1>5

(* A heartbeat begins: no event is touched.                                *)
LEMMA BeatBegins ==
  ASSUME TypeOK, Begins(Heartbeat)
  PROVE  /\ UNCHANGED <<published, read, served, events, copies>>
         /\ \A u \in Tasks : u # Heartbeat => pc'[u] = pc[u] /\ cur'[u] = cur[u]
  BY RouterAssumption DEF Begins, Starts, StartDelivery, TypeOK

LEMMA ListenerBegins ==
  ASSUME TypeOK, Begins(Listener)
  PROVE  /\ UNCHANGED <<published, served, events, copies>>
         /\ pc[Listener] = "idle" /\ read < Len(published) /\ read' = read + 1
         /\ cur'[Listener] = published[read + 1]
         /\ \A u \in Tasks : u # Listener => pc'[u] = pc[u] /\ cur'[u] = cur[u]
  BY DEF Begins, Starts, StartDelivery, TypeOK

LEMMA PusherFacts ==
  ASSUME TypeOK, Positions
  PROVE  /\ \A p \in Pushers : p \in Tasks /\ p # Listener /\ p # Heartbeat
         /\ \A p \in Pushers : pc[p] # "idle" => cur[p] \in 1..Len(events)
         /\ Listener \in Tasks /\ Heartbeat \in Tasks /\ Listener # Heartbeat
         /\ \A i \in DOMAIN published : published[i] \in 1..Len(events)
<1>1. \A p \in Pushers : p \in Tasks /\ p # Listener /\ p # Heartbeat
  BY RouterAssumption DEF Tasks
<1>2. \A p \in Pushers : pc[p] # "idle" => cur[p] \in 1..Len(events)
  BY <1>1 DEF Positions
<1>3. \A i \in DOMAIN published : published[i] \in 1..Len(events)
  BY RouterAssumption DEF TypeOK, Positions, EventIds
<1>4. Listener \in Tasks /\ Heartbeat \in Tasks /\ Listener # Heartbeat
  BY RouterAssumption DEF Tasks
<1>5. QED
  BY <1>1, <1>2, <1>3, <1>4

LEMMA WireCalm ==
  ASSUME TypeOK, Positions, Wire, Calm
  PROVE  Wire'
  BY PusherFacts DEF Wire, Calm

LEMMA WireStep == TypeOK /\ Positions /\ Wire /\ [Next]_vars => Wire'
<1> SUFFICES ASSUME TypeOK, Positions, Wire, [Next]_vars PROVE Wire'
  OBVIOUS
<1>1. published \in Seq(EventIds) /\ read \in 0..Len(published) /\ Len(events) \in Nat
  BY DEF TypeOK
<1>2. CASE Arrives
  <2>1. taskVars' = taskVars /\ read' = read
    BY <1>2 DEF Arrives
  <2>2. CASE published' = published
    BY <2>1, <2>2 DEF Wire, taskVars
  <2>3. CASE published' = Append(published, Len(events) + 1)
    <3>1. /\ DOMAIN published' = 1..(Len(published) + 1)
          /\ published'[Len(published) + 1] = Len(events) + 1
          /\ \A i \in 1..Len(published) : published'[i] = published[i]
      BY <1>1, <2>3
    <3>2. \A i \in 1..Len(published) : published[i] # Len(events) + 1
      BY <1>1, PusherFacts
    <3>3. \A p \in Pushers : pc[p] # "idle" => cur[p] # Len(events) + 1
      BY <1>1, PusherFacts
    <3>4. pc' = pc /\ cur' = cur
      BY <2>1 DEF taskVars
    <3>5. \A i, j \in DOMAIN published' : published'[i] = published'[j] => i = j
      BY <1>1, <3>1, <3>2 DEF Wire
    <3>6. \A p \in Pushers : pc'[p] = "publishing" => \A i \in DOMAIN published' : published'[i] # cur'[p]
      BY <1>1, <3>1, <3>3, <3>4 DEF Wire
    <3>7. pc'[Listener] # "idle" => read' > 0 /\ cur'[Listener] = published'[read']
      BY <1>1, <2>1, <3>1, <3>4 DEF Wire
    <3>8. QED
      BY <3>4, <3>5, <3>6, <3>7 DEF Wire
  <2>4. QED
    BY <1>2, <2>2, <2>3 DEF Arrives
<1>3. ASSUME NEW p \in Pushers, Opens(p) PROVE Wire'
  <2>1. /\ published' = published /\ read' = read
        /\ pc'[p] = "publishing" /\ cur'[p] = Len(events) + 1
        /\ \A u \in Tasks : u # p => pc'[u] = pc[u] /\ cur'[u] = cur[u]
    BY <1>3, PusherFacts DEF Opens, TypeOK
  <2>2. \A q \in Pushers : pc[q] # "idle" => cur[q] # Len(events) + 1
    BY <1>1, PusherFacts
  <2>3. \A i \in DOMAIN published : published[i] # Len(events) + 1
    BY <1>1, PusherFacts
  <2>4. QED
    BY <2>1, <2>2, <2>3, PusherFacts DEF Wire
<1>4. ASSUME NEW p \in Pushers, Hands(p) PROVE Wire'
  <2>1. /\ cur' = cur /\ read' = read /\ pc[p] = "publishing" /\ pc'[p] = "published"
        /\ \A u \in Tasks : u # p => pc'[u] = pc[u]
    BY <1>4, PusherFacts DEF Hands, TypeOK
  <2>2. CASE published' = published
    BY <2>1, <2>2, PusherFacts DEF Wire
  <2>3. CASE published' = Append(published, cur[p])
    <3>1. /\ DOMAIN published' = 1..(Len(published) + 1)
          /\ published'[Len(published) + 1] = cur[p]
          /\ \A i \in 1..Len(published) : published'[i] = published[i]
      BY <1>1, <2>3
    <3>2. \A i \in 1..Len(published) : published[i] # cur[p]
      BY <1>1, <2>1 DEF Wire
    <3>3. \A i, j \in DOMAIN published' : published'[i] = published'[j] => i = j
      BY <1>1, <3>1, <3>2 DEF Wire
    <3>4. ASSUME NEW q \in Pushers, pc'[q] = "publishing", NEW i \in DOMAIN published'
          PROVE  published'[i] # cur'[q]
      <4>1. q # p /\ pc[q] = "publishing"
        BY <2>1, <3>4, PusherFacts
      <4>2. cur[q] # cur[p] /\ \A j \in 1..Len(published) : published[j] # cur[q]
        BY <1>1, <2>1, <4>1 DEF Wire
      <4>3. QED
        BY <2>1, <3>1, <4>2
    <3>5. \A q, s \in Pushers : pc'[q] # "idle" /\ pc'[s] # "idle" /\ cur'[q] = cur'[s] => q = s
      BY <2>1, PusherFacts DEF Wire
    <3>6. pc'[Listener] # "idle" => read' > 0 /\ cur'[Listener] = published'[read']
      BY <1>1, <2>1, <3>1, PusherFacts DEF Wire
    <3>7. QED
      BY <3>3, <3>4, <3>5, <3>6 DEF Wire
  <2>4. QED
    BY <1>4, <2>2, <2>3 DEF Hands
<1>5. CASE Begins(Listener)
  <2>1. /\ published' = published /\ read' = read + 1 /\ cur'[Listener] = published[read']
        /\ \A p \in Pushers : pc'[p] = pc[p] /\ cur'[p] = cur[p]
    BY <1>5, ListenerBegins, PusherFacts
  <2>2. read' > 0
    BY <1>1, <2>1
  <2>3. QED
    BY <2>1, <2>2 DEF Wire
<1>6. CASE Begins(Heartbeat)
  BY <1>6, BeatBegins, PusherFacts DEF Wire
<1>7. QED
  BY <1>2, <1>3, <1>4, <1>5, <1>6, StepKinds, CalmSteps, WireCalm

LEMMA WireHolds == Spec => []Wire
<1>1. Init => Wire
  BY DEF Init, Wire, Tasks
<1>2. QED
  BY <1>1, WireStep, Typed, PTL DEF Spec

-----------------------------------------------------------------------------
Allowed(n) == IF events[n].local THEN 2 ELSE 1

(* The copies of one event for one client may only become fewer to come.   *)
LEMMA FewerExpected ==
  ASSUME NEW c \in Clients, NEW n \in EventIds,
         DirectLeft(c, n)' => DirectLeft(c, n), EchoLeft(c, n)' => EchoLeft(c, n)
  PROVE  Expected(c, n)' <= Expected(c, n) /\ Expected(c, n)' \in Nat /\ Expected(c, n) \in Nat
  BY DEF Expected

LEMMA CalmExpects ==
  ASSUME TypeOK, Positions, Calm, NEW c \in Clients, NEW n \in EventIds
  PROVE  /\ DirectLeft(c, n)' => DirectLeft(c, n)
         /\ EchoLeft(c, n)' => EchoLeft(c, n)
<1>1. DirectLeft(c, n)' => DirectLeft(c, n)
  BY PusherFacts DEF Calm, DirectLeft
<1>2. EchoLeft(c, n)' => EchoLeft(c, n)
  BY PusherFacts DEF Calm, EchoLeft
<1>3. QED
  BY <1>1, <1>2

(* A put uses up one copy that was expected: the task that put it will not *)
(* put another on this queue, and no other task brings the same copy.      *)
LEMMA PutUsesOne ==
  ASSUME TypeOK, Positions, Deliveries, Wire, NEW t \in Tasks, NEW c \in Clients, Puts(t, c),
         NEW n \in EventIds, n = cur[t]
  PROVE  Expected(c, n)' + 1 <= Expected(c, n)
<1>1. /\ t # Heartbeat /\ Delivering(t) /\ pc[t] # "idle" /\ pc[t] # "publishing"
      /\ cur' = cur /\ pc'[t] = "deliver"
      /\ c \notin served[t] /\ c \in served'[t]
  <2>1. n # NoEvent
    BY RouterAssumption DEF EventIds, NoEvent
  <2>2. pc[t] \in {"deliver", "blocked"} /\ cur' = cur /\ pc'[t] = "deliver"
    BY DEF Puts, Delivering
  <2>3. t # Heartbeat
    BY <2>1 DEF Positions
  <2>4. c \notin served[t] /\ c \in served'[t]
    BY <2>2, <2>3 DEF Puts, Enqueue, Deliveries, DeliveryOf, Walking, Delivering, TypeOK
  <2>5. QED
    BY <2>2, <2>3, <2>4 DEF Delivering
<1>2. UNCHANGED <<published, read>> /\ \A u \in Tasks : u # t => SameTask(u)
  BY OthersSame DEF Puts, busVars, redisVars
<1>3. /\ DirectLeft(c, n)' => DirectLeft(c, n)
      /\ EchoLeft(c, n)' => EchoLeft(c, n)
  BY <1>1, CalmSteps, CalmExpects
<1>4. CASE t \in Pushers
  <2>1. DirectLeft(c, n)
    BY <1>1, <1>4 DEF DirectLeft
  <2>2. ~DirectLeft(c, n)'
    <3>1. SUFFICES ASSUME NEW p \in Pushers, pc'[p] # "idle", cur'[p] = n, c \notin served'[p]
                   PROVE  FALSE
      BY <1>1 DEF DirectLeft
    <3>2. p # t
      BY <1>1, <3>1
    <3>3. pc[p] # "idle" /\ cur[p] = n
      BY <1>2, <3>1, <3>2, PusherFacts DEF SameTask
    <3>4. QED
      BY <1>1, <1>4, <3>2, <3>3 DEF Wire
  <2>3. QED
    BY <1>1, <1>3, <2>1, <2>2 DEF Expected
<1>5. CASE t = Listener
  <2>1. EchoLeft(c, n)
    BY <1>1, <1>5 DEF EchoLeft
  <2>2. read > 0 /\ published[read] = n /\ read \in 1..Len(published)
    BY <1>1, <1>5 DEF Wire, TypeOK
  <2>3. ~EchoLeft(c, n)'
    <3>1. ~\E p \in Pushers : pc'[p] = "publishing" /\ cur'[p] = n
      <4>1. SUFFICES ASSUME NEW p \in Pushers, pc'[p] = "publishing", cur[p] = n PROVE FALSE
        BY <1>1
      <4>2. pc[p] = "publishing"
        BY <1>2, <1>5, <4>1, PusherFacts DEF SameTask
      <4>3. QED
        BY <2>2, <4>1, <4>2 DEF Wire, TypeOK
    <3>2. ~\E i \in (read + 1)..Len(published) : published[i] = n
      BY <2>2 DEF Wire, TypeOK
    <3>3. QED
      BY <1>1, <1>2, <1>5, <3>1, <3>2 DEF EchoLeft
  <2>4. QED
    BY <1>1, <1>3, <2>1, <2>3 DEF Expected
<1>6. QED
  BY <1>1, <1>4, <1>5 DEF Tasks

(* Copies is kept where no copy is made and none more is expected of the   *)
(* events there were, and a new event expects what it is allowed.          *)
LEMMA CopiesFrame ==
  ASSUME TypeOK, Positions, Copies, copies' = copies, EventsKept, events' \in Seq(EventRec),
         Len(events') >= Len(events),
         \A c \in Clients : \A n \in EventIds : n <= Len(events) =>
           (DirectLeft(c, n)' => DirectLeft(c, n)) /\ (EchoLeft(c, n)' => EchoLeft(c, n)),
         \A c \in Clients : \A n \in EventIds : n > Len(events) /\ n <= Len(events') =>
           Expected(c, n)' <= IF events'[n].local THEN 2 ELSE 1
  PROVE  Copies'
<1> SUFFICES ASSUME NEW c \in Clients, NEW n \in EventIds
             PROVE  IF n <= Len(events')
                      THEN copies'[c][n] + Expected(c, n)' <= IF events'[n].local THEN 2 ELSE 1
                      ELSE copies'[c][n] = 0
  BY DEF Copies
<1>1. n \in Nat \ {0} /\ Len(events) \in Nat /\ Len(events') \in Nat /\ copies[c][n] \in Nat
  BY RouterAssumption DEF TypeOK, EventIds
<1>2. CASE n <= Len(events)
  <2>1. Expected(c, n)' <= Expected(c, n) /\ Expected(c, n)' \in Nat /\ Expected(c, n) \in Nat
    BY <1>2, FewerExpected
  <2>2. copies[c][n] + Expected(c, n) <= Allowed(n)
    BY <1>2 DEF Copies, Allowed
  <2>3. events'[n] = events[n] /\ Allowed(n) \in Nat
    BY <1>1, <1>2 DEF EventsKept, Allowed
  <2>4. copies'[c][n] + Expected(c, n)' <= Allowed(n)
    BY <1>1, <2>1, <2>2, <2>3
  <2>5. QED
    BY <1>1, <1>2, <2>3, <2>4 DEF Allowed
<1>3. CASE n > Len(events)
  <2>1. copies'[c][n] = 0
    BY <1>1, <1>3 DEF Copies
  <2>2. Expected(c, n)' \in Nat
    BY DEF Expected
  <2>3. QED
    BY <1>1, <1>3, <2>1, <2>2
<1>4. QED
  BY <1>1, <1>2, <1>3

LEMMA CopiesPut ==
  ASSUME TypeOK, Positions, Deliveries, Wire, Copies, NEW t \in Tasks, NEW c \in Clients, Puts(t, c)
  PROVE  Copies'
<1> SUFFICES ASSUME NEW d \in Clients, NEW n \in EventIds
             PROVE  IF n <= Len(events')
                      THEN copies'[d][n] + Expected(d, n)' <= IF events'[n].local THEN 2 ELSE 1
                      ELSE copies'[d][n] = 0
  BY DEF Copies
<1>1. events' = events
  BY TaskFrame
<1>2. /\ n \in Nat \ {0} /\ Len(events) \in Nat /\ copies[d][n] \in Nat /\ Allowed(n) \in Nat
      /\ Expected(d, n) \in Nat /\ Expected(d, n)' \in Nat
  <2>1. n \in Nat \ {0} /\ Len(events) \in Nat /\ copies[d][n] \in Nat
    BY RouterAssumption DEF TypeOK, EventIds
  <2>2. Allowed(n) \in Nat /\ Expected(d, n) \in Nat /\ Expected(d, n)' \in Nat
    BY DEF Allowed, Expected
  <2>3. QED
    BY <2>1, <2>2
<1>3. CASE d = c /\ n = cur[t]
  <2>1. n # NoEvent /\ t # Heartbeat /\ n <= Len(events)
    BY <1>2, <1>3 DEF NoEvent, Positions, Puts, Delivering
  <2>2. copies'[d][n] = copies[d][n] + 1
    BY <1>3, <2>1 DEF Puts, Enqueue, TypeOK
  <2>3. Expected(d, n)' + 1 <= Expected(d, n)
    BY <1>3, PutUsesOne
  <2>4. copies[d][n] + Expected(d, n) <= Allowed(n)
    BY <2>1 DEF Copies, Allowed
  <2>5. copies'[d][n] + Expected(d, n)' <= Allowed(n)
    BY <1>2, <2>2, <2>3, <2>4
  <2>6. QED
    BY <1>1, <2>1, <2>5 DEF Allowed
<1>4. CASE ~(d = c /\ n = cur[t])
  <2>1. copies'[d][n] = copies[d][n]
    BY <1>4 DEF Puts, Enqueue, TypeOK
  <2>2. Expected(d, n)' <= Expected(d, n)
    BY CalmSteps, CalmExpects, FewerExpected
  <2>3. CASE n <= Len(events)
    <3>1. copies[d][n] + Expected(d, n) <= Allowed(n)
      BY <2>3 DEF Copies, Allowed
    <3>2. copies'[d][n] + Expected(d, n)' <= Allowed(n)
      BY <1>2, <2>1, <2>2, <3>1
    <3>3. QED
      BY <1>1, <2>3, <3>2 DEF Allowed
  <2>4. CASE ~(n <= Len(events))
    BY <1>1, <2>1, <2>4 DEF Copies
  <2>5. QED
    BY <2>3, <2>4
<1>5. QED
  BY <1>3, <1>4

LEMMA CopiesStep ==
  TypeOK /\ Positions /\ Deliveries /\ Wire /\ Copies /\ [Next]_vars => Copies'
<1> SUFFICES ASSUME TypeOK, Positions, Deliveries, Wire, Copies, [Next]_vars PROVE Copies'
  OBVIOUS
<1>1. published \in Seq(EventIds) /\ read \in 0..Len(published) /\ Len(events) \in Nat
  BY DEF TypeOK
<1>2. ASSUME events' = events, copies' = copies,
             \A c \in Clients : \A n \in EventIds :
               (DirectLeft(c, n)' => DirectLeft(c, n)) /\ (EchoLeft(c, n)' => EchoLeft(c, n))
      PROVE  Copies'
  <2>1. EventsKept /\ events' \in Seq(EventRec) /\ Len(events') >= Len(events)
    BY <1>1, <1>2 DEF EventsKept, TypeOK
  <2>2. \A n \in EventIds : ~(n > Len(events) /\ n <= Len(events'))
    BY <1>1, <1>2, RouterAssumption DEF EventIds
  <2>3. QED
    BY <1>2, <2>1, <2>2, CopiesFrame
<1>3. ASSUME events' = events, copies' = copies, Calm PROVE Copies'
  BY <1>2, <1>3, CalmExpects
<1>4. CASE Elsewhere
  BY <1>3, <1>4, CalmSteps DEF Elsewhere
<1>5. ASSUME NEW c \in Clients, Drain(c) PROVE Copies'
  BY <1>3, <1>5, CalmSteps DEF Drain, busVars, redisVars
<1>6. ASSUME NEW t \in Tasks, Turns(t) PROVE Copies'
  BY <1>3, <1>6, CalmSteps, TaskFrame DEF Turns, DeliverAll, DeliverBlock, DeliverDone
<1>7. CASE Arrives
  <2>1. PICK ch \in Channels, tn \in Tenants \cup {NoTenant} : NewEvent(ch, tn, FALSE)
    BY <1>7 DEF Arrives
  <2>2. /\ EventsKept /\ Len(events') = Len(events) + 1 /\ events' \in Seq(EventRec)
        /\ events'[Len(events) + 1].local = FALSE
    BY <2>1, EventFrame
  <2>3. UNCHANGED <<pc, cur, served, read, copies>>
    BY <1>7 DEF Arrives, taskVars
  <2>4. \A i \in DOMAIN published' : (i \in DOMAIN published /\ published'[i] = published[i])
                                      \/ published'[i] = Len(events) + 1
    BY <1>1, <1>7 DEF Arrives
  <2>5. ASSUME NEW c \in Clients, NEW n \in EventIds, n <= Len(events)
        PROVE  (DirectLeft(c, n)' => DirectLeft(c, n)) /\ (EchoLeft(c, n)' => EchoLeft(c, n))
    <3>1. DirectLeft(c, n)' => DirectLeft(c, n)
      BY <2>3 DEF DirectLeft
    <3>2. published' \in Seq(Nat) /\ published \in Seq(Nat)
      <4>1. published \in Seq(Nat) /\ Len(events) + 1 \in Nat
        BY <1>1, RouterAssumption DEF EventIds
      <4>2. QED
        BY <1>7, <4>1 DEF Arrives
    <3>3. ASSUME NEW i \in (read' + 1)..Len(published'), published'[i] = n
          PROVE  \E j \in (read + 1)..Len(published) : published[j] = n
      <4>1. i \in DOMAIN published'
        BY <1>1, <2>3, <3>2
      <4>2. n # Len(events) + 1
        BY <1>1, <2>5, RouterAssumption DEF EventIds
      <4>3. i \in DOMAIN published /\ published[i] = n
        BY <2>4, <3>3, <4>1, <4>2
      <4>4. QED
        BY <1>1, <2>3, <3>2, <4>3
    <3>4. EchoLeft(c, n)' => EchoLeft(c, n)
      BY <2>3, <3>3 DEF EchoLeft
    <3>5. QED
      BY <3>1, <3>4
  <2>6. ASSUME NEW c \in Clients, NEW n \in EventIds, n > Len(events), n <= Len(events')
        PROVE  Expected(c, n)' <= IF events'[n].local THEN 2 ELSE 1
    <3>1. n = Len(events) + 1
      BY <1>1, <2>2, <2>6, RouterAssumption DEF EventIds
    <3>2. ~DirectLeft(c, n)'
      BY <1>1, <2>3, <3>1, PusherFacts DEF DirectLeft
    <3>3. QED
      BY <2>2, <3>1, <3>2 DEF Expected
  <2>7. QED
    BY <1>1, <2>2, <2>3, <2>5, <2>6, CopiesFrame
<1>8. ASSUME NEW p \in Pushers, Opens(p) PROVE Copies'
  <2>1. PICK ch \in Channels, tn \in Tenants : NewEvent(ch, tn, TRUE)
    BY <1>8 DEF Opens
  <2>2. /\ EventsKept /\ Len(events') = Len(events) + 1 /\ events' \in Seq(EventRec)
        /\ events'[Len(events) + 1].local = TRUE
    BY <2>1, EventFrame
  <2>3. /\ UNCHANGED <<served, read, copies, published>> /\ cur'[p] = Len(events) + 1
        /\ \A u \in Tasks : u # p => pc'[u] = pc[u] /\ cur'[u] = cur[u]
    BY <1>8, PusherFacts DEF Opens, TypeOK
  <2>4. ASSUME NEW c \in Clients, NEW n \in EventIds, n <= Len(events)
        PROVE  (DirectLeft(c, n)' => DirectLeft(c, n)) /\ (EchoLeft(c, n)' => EchoLeft(c, n))
    <3>1. cur'[p] # n
      BY <1>1, <2>3, <2>4, RouterAssumption DEF EventIds
    <3>2. DirectLeft(c, n)' => DirectLeft(c, n)
      BY <2>3, <3>1, PusherFacts DEF DirectLeft
    <3>3. EchoLeft(c, n)' => EchoLeft(c, n)
      BY <2>3, <3>1, PusherFacts DEF EchoLeft
    <3>4. QED
      BY <3>2, <3>3
  <2>5. ASSUME NEW c \in Clients, NEW n \in EventIds, n > Len(events), n <= Len(events')
        PROVE  Expected(c, n)' <= IF events'[n].local THEN 2 ELSE 1
    <3>1. n = Len(events) + 1
      BY <1>1, <2>2, <2>5, RouterAssumption DEF EventIds
    <3>2. QED
      BY <2>2, <3>1 DEF Expected
  <2>6. QED
    BY <1>1, <2>2, <2>3, <2>4, <2>5, CopiesFrame
<1>9. ASSUME NEW p \in Pushers, Hands(p) PROVE Copies'
  <2>1. /\ UNCHANGED <<cur, served, read, events, copies>>
        /\ pc[p] = "publishing" /\ pc'[p] = "published"
        /\ \A u \in Tasks : u # p => pc'[u] = pc[u]
    BY <1>9, PusherFacts DEF Hands, TypeOK
  <2>2. \A i \in DOMAIN published' : (i \in DOMAIN published /\ published'[i] = published[i])
                                      \/ published'[i] = cur[p]
    BY <1>1, <1>9 DEF Hands
  <2>3. ASSUME NEW c \in Clients, NEW n \in EventIds
        PROVE  (DirectLeft(c, n)' => DirectLeft(c, n)) /\ (EchoLeft(c, n)' => EchoLeft(c, n))
    <3>1. DirectLeft(c, n)' => DirectLeft(c, n)
      BY <2>1, PusherFacts DEF DirectLeft
    <3>2. published' \in Seq(Nat) /\ published \in Seq(Nat)
      <4>1. cur[p] \in Nat
        BY <2>1, PusherFacts
      <4>2. published \in Seq(Nat)
        BY <1>1, RouterAssumption DEF EventIds
      <4>3. QED
        BY <1>9, <4>1, <4>2 DEF Hands
    <3>3. ASSUME NEW i \in (read' + 1)..Len(published'), published'[i] = n, n # cur[p]
          PROVE  \E j \in (read + 1)..Len(published) : published[j] = n
      <4>1. i \in DOMAIN published'
        BY <1>1, <2>1, <3>2
      <4>2. i \in DOMAIN published /\ published[i] = n
        BY <2>2, <3>3, <4>1
      <4>3. QED
        BY <1>1, <2>1, <3>2, <4>2
    <3>4. n = cur[p] => EchoLeft(c, n)
      BY <2>1 DEF EchoLeft
    <3>5. EchoLeft(c, n)' => EchoLeft(c, n)
      BY <2>1, <3>3, <3>4, PusherFacts DEF EchoLeft
    <3>6. QED
      BY <3>1, <3>5
  <2>4. QED
    BY <1>2, <2>1, <2>3
<1>10. CASE Begins(Listener)
  <2>1. /\ UNCHANGED <<published, served, events, copies>>
        /\ pc[Listener] = "idle" /\ read < Len(published) /\ read' = read + 1
        /\ cur'[Listener] = published[read + 1]
        /\ \A u \in Tasks : u # Listener => pc'[u] = pc[u] /\ cur'[u] = cur[u]
    BY <1>10, ListenerBegins
  <2>2. ASSUME NEW c \in Clients, NEW n \in EventIds
        PROVE  (DirectLeft(c, n)' => DirectLeft(c, n)) /\ (EchoLeft(c, n)' => EchoLeft(c, n))
    <3>1. DirectLeft(c, n)' => DirectLeft(c, n)
      BY <2>1, PusherFacts DEF DirectLeft
    <3>2. read + 1 \in (read + 1)..Len(published)
          /\ \A i \in (read' + 1)..Len(published') : i \in (read + 1)..Len(published)
      BY <1>1, <2>1
    <3>3. EchoLeft(c, n)' => EchoLeft(c, n)
      BY <2>1, <3>2, PusherFacts DEF EchoLeft
    <3>4. QED
      BY <3>1, <3>3
  <2>3. QED
    BY <1>2, <2>1, <2>2
<1>11. CASE Begins(Heartbeat)
  <2>1. /\ UNCHANGED <<published, read, served, events, copies>>
        /\ \A u \in Tasks : u # Heartbeat => pc'[u] = pc[u] /\ cur'[u] = cur[u]
    BY <1>11, BeatBegins
  <2>2. ASSUME NEW c \in Clients, NEW n \in EventIds
        PROVE  (DirectLeft(c, n)' => DirectLeft(c, n)) /\ (EchoLeft(c, n)' => EchoLeft(c, n))
    BY <2>1, PusherFacts DEF DirectLeft, EchoLeft
  <2>3. QED
    BY <1>2, <2>1, <2>2
<1>12. ASSUME NEW t \in Tasks \ {Listener, Heartbeat}, Begins(t) PROVE Copies'
  BY <1>3, <1>12, CalmSteps, TaskFrame DEF Begins, Starts, StartDelivery
<1>13. QED
  BY <1>4, <1>5, <1>6, <1>7, <1>8, <1>9, <1>10, <1>11, <1>12, StepKinds, CopiesPut

(* An event of another process reaches a client at most once, an event of  *)
(* this process at most twice: by its push_event and as the echo           *)
(* (push_event 135, start_redis_listener 237).                             *)
THEOREM CopiesFew == Spec => []CopiesBounded
<1>1. Init => Copies
  <2>1. Init => \A c \in Clients, n \in EventIds : ~(n <= Len(events)) /\ copies[c][n] = 0
    BY RouterAssumption DEF Init, EventIds
  <2>2. QED
    BY <2>1 DEF Copies
<1>2. TypeOK /\ Copies => CopiesBounded
  <2> SUFFICES ASSUME TypeOK, Copies, NEW c \in Clients, NEW n \in EventIds, copies[c][n] > 0
               PROVE  n <= Len(events) /\ copies[c][n] <= IF events[n].local THEN 2 ELSE 1
    BY DEF CopiesBounded
  <2>1. Expected(c, n) \in Nat /\ copies[c][n] \in Nat
    BY DEF Expected, TypeOK
  <2>2. n <= Len(events)
    BY <2>1 DEF Copies
  <2>3. QED
    BY <2>1, <2>2 DEF Copies
<1>3. QED
  BY <1>1, <1>2, CopiesStep, Typed, DeliveriesHold, WireHolds, PTL DEF Spec

-----------------------------------------------------------------------------
(* The listener's entries on one queue are in the order of the wire: it    *)
(* begins with what it reads next, and serves a queue once for each event. *)
ReadOf(c, i) == queue[c][i].via = Listener

LEMMA ReadsStep ==
  ASSUME TypeOK, Positions, Deliveries, Wire, Reads, InOrder, [Next]_vars
  PROVE  Reads' /\ InOrder'
<1>1. published \in Seq(EventIds) /\ read \in 0..Len(published) /\ queue \in [Clients -> Seq(Entry)]
  BY DEF TypeOK
<1>2. ASSUME queue' = queue, read' \in Nat, read' >= read,
             Len(published') >= Len(published), Len(published') \in Nat,
             DOMAIN published' = 1..Len(published'),
             \A k \in 1..Len(published) : published'[k] = published[k],
             \A i, j \in DOMAIN published' : published'[i] = published'[j] => i = j,
             \A c \in Clients : pc'[Listener] # "idle" /\ c \notin served'[Listener] =>
                 read' > read \/ (pc[Listener] # "idle" /\ c \notin served[Listener] /\ read' = read)
      PROVE  Reads' /\ InOrder'
  <2>1. Reads'
    <3> SUFFICES ASSUME NEW c \in Clients, NEW i \in DOMAIN queue[c], queue[c][i].via = Listener
                 PROVE  \E k \in 1..read' :
                          /\ published'[k] = queue[c][i].ev
                          /\ pc'[Listener] # "idle" /\ c \notin served'[Listener] => k < read'
      BY <1>2 DEF Reads
    <3>1. PICK k \in 1..read : /\ published[k] = queue[c][i].ev
                               /\ pc[Listener] # "idle" /\ c \notin served[Listener] => k < read
      BY DEF Reads
    <3>2. k \in 1..read' /\ published'[k] = queue[c][i].ev
      BY <1>1, <1>2, <3>1
    <3>3. pc'[Listener] # "idle" /\ c \notin served'[Listener] => k < read'
      BY <1>1, <1>2, <3>1
    <3>4. QED
      BY <3>2, <3>3
  <2>2. InOrder'
    <3> SUFFICES ASSUME NEW c \in Clients, NEW i \in DOMAIN queue[c], NEW j \in DOMAIN queue[c],
                        i < j, ReadOf(c, i), ReadOf(c, j),
                        NEW k \in DOMAIN published', NEW l \in DOMAIN published',
                        published'[k] = queue[c][i].ev, published'[l] = queue[c][j].ev
                 PROVE  k < l
      BY <1>2 DEF InOrder, ReadOf
    <3>1. PICK m \in 1..read : published[m] = queue[c][i].ev
      BY DEF Reads, ReadOf
    <3>2. PICK o \in 1..read : published[o] = queue[c][j].ev
      BY DEF Reads, ReadOf
    <3>3. m \in DOMAIN published /\ o \in DOMAIN published /\ m < o
      BY <1>1, <3>1, <3>2 DEF InOrder, ReadOf
    <3>4. m \in DOMAIN published' /\ o \in DOMAIN published' /\ published'[m] = published[m]
          /\ published'[o] = published[o]
      BY <1>1, <1>2, <3>3
    <3>5. k = m /\ l = o
      BY <1>2, <3>1, <3>2, <3>4
    <3>6. QED
      BY <3>3, <3>5
  <2>3. QED
    BY <2>1, <2>2
<1>3. Wire'
  BY WireStep
<1>4. ASSUME queue' = queue, Calm PROVE Reads' /\ InOrder'
  <2>1. UNCHANGED <<published, read>> /\ published' \in Seq(EventIds)
    BY <1>1, <1>4 DEF Calm
  <2>2. \A c \in Clients : pc'[Listener] # "idle" /\ c \notin served'[Listener] =>
          pc[Listener] # "idle" /\ c \notin served[Listener]
    BY <1>4, PusherFacts DEF Calm
  <2>3. \A i, j \in DOMAIN published' : published'[i] = published'[j] => i = j
    BY <1>3 DEF Wire
  <2>4. QED
    BY <1>1, <1>2, <1>4, <2>1, <2>2, <2>3
<1>5. CASE Elsewhere
  BY <1>4, <1>5, CalmSteps DEF Elsewhere
<1>6. ASSUME NEW t \in Tasks, Turns(t) PROVE Reads' /\ InOrder'
  BY <1>4, <1>6, CalmSteps DEF Turns, DeliverAll, DeliverBlock, DeliverDone
<1>7. ASSUME NEW t \in Tasks \ {Listener, Heartbeat}, Begins(t) PROVE Reads' /\ InOrder'
  BY <1>4, <1>7, CalmSteps DEF Begins, Starts, StartDelivery
<1>8. ASSUME NEW n \in EventIds, queue' = queue, read' = read, served' = served,
             pc'[Listener] = pc[Listener], published' \in {published, Append(published, n)}
      PROVE  Reads' /\ InOrder'
  <2>1. /\ Len(published') >= Len(published) /\ Len(published') \in Nat
        /\ DOMAIN published' = 1..Len(published')
        /\ \A k \in 1..Len(published) : published'[k] = published[k]
    BY <1>1, <1>8
  <2>2. \A i, j \in DOMAIN published' : published'[i] = published'[j] => i = j
    BY <1>3 DEF Wire
  <2>3. /\ read' \in Nat /\ read' >= read
        /\ \A c \in Clients : pc'[Listener] # "idle" /\ c \notin served'[Listener] =>
             pc[Listener] # "idle" /\ c \notin served[Listener] /\ read' = read
    BY <1>1, <1>8
  <2>4. queue' = queue
    BY <1>8
  <2>5. QED
    BY <1>2, <2>1, <2>2, <2>3, <2>4
<1>9. CASE Arrives
  <2>1. Len(events) + 1 \in EventIds
    BY <1>9, NewEventAppends DEF Arrives
  <2>2. QED
    BY <1>8, <1>9, <2>1 DEF Arrives, taskVars
<1>10. ASSUME NEW p \in Pushers, Opens(p) PROVE Reads' /\ InOrder'
  <2>1. /\ queue' = queue /\ read' = read /\ served' = served /\ published' = published
        /\ pc'[Listener] = pc[Listener]
    BY <1>10, PusherFacts DEF Opens, TypeOK
  <2>2. \A i, j \in DOMAIN published' : published'[i] = published'[j] => i = j
    BY <1>3 DEF Wire
  <2>3. QED
    BY <1>1, <1>2, <2>1, <2>2
<1>11. ASSUME NEW p \in Pushers, Hands(p) PROVE Reads' /\ InOrder'
  <2>1. cur[p] \in EventIds /\ pc'[Listener] = pc[Listener]
    <3>1. cur[p] \in 1..Len(events) /\ Len(events) <= MaxEvents
      BY <1>11, PusherFacts DEF Hands, TypeOK
    <3>2. pc'[Listener] = pc[Listener]
      BY <1>11, PusherFacts DEF Hands, TypeOK
    <3>3. QED
      BY <3>1, <3>2, RouterAssumption DEF EventIds, TypeOK
  <2>2. QED
    BY <1>8, <1>11, <2>1 DEF Hands
<1>12. CASE Begins(Listener)
  <2>1. /\ published' = published /\ read < Len(published) /\ read' = read + 1
    BY <1>12, ListenerBegins
  <2>2. queue' = queue
    BY <1>12 DEF Begins, Starts, StartDelivery
  <2>3. \A i, j \in DOMAIN published' : published'[i] = published'[j] => i = j
    BY <1>3 DEF Wire
  <2>4. QED
    BY <1>1, <1>2, <2>1, <2>2, <2>3
<1>13. CASE Begins(Heartbeat)
  <2>1. UNCHANGED <<published, read, served>> /\ pc'[Listener] = pc[Listener]
    BY <1>13, BeatBegins, PusherFacts
  <2>2. queue' = queue
    BY <1>13 DEF Begins, Starts, StartDelivery
  <2>3. \A i, j \in DOMAIN published' : published'[i] = published'[j] => i = j
    BY <1>3 DEF Wire
  <2>4. QED
    BY <1>1, <1>2, <2>1, <2>2, <2>3
<1>14. ASSUME NEW c \in Clients, Drain(c) PROVE Reads' /\ InOrder'
  <2>1. UNCHANGED <<taskVars, published, read>>
    BY <1>14 DEF Drain, busVars, redisVars
  <2>2. ASSUME NEW d \in Clients
        PROVE  \E s \in {0, 1} : \A i \in DOMAIN queue'[d] :
                 i + s \in DOMAIN queue[d] /\ queue'[d][i] = queue[d][i + s]
    <3>1. CASE d = c
      <4>1. queue[c] \in Seq(Entry) /\ queue[c] # <<>> /\ queue'[c] = Tail(queue[c])
        BY <1>1, <1>14 DEF Drain
      <4>2. \A i \in DOMAIN queue'[c] : i + 1 \in DOMAIN queue[c] /\ queue'[c][i] = queue[c][i + 1]
        BY <4>1
      <4>3. QED
        BY <3>1, <4>2
    <3>2. CASE d # c
      <4>1. queue'[d] = queue[d] /\ \A i \in DOMAIN queue[d] : i + 0 = i
        BY <1>1, <1>14, <3>2 DEF Drain
      <4>2. QED
        BY <4>1
    <3>3. QED
      BY <3>1, <3>2
  <2>3. Reads'
    BY <2>1, <2>2 DEF Reads, taskVars
  <2>4. InOrder'
    <3> SUFFICES ASSUME NEW d \in Clients, NEW i \in DOMAIN queue'[d], NEW j \in DOMAIN queue'[d],
                        i < j, queue'[d][i].via = Listener, queue'[d][j].via = Listener,
                        NEW k \in DOMAIN published, NEW l \in DOMAIN published,
                        published[k] = queue'[d][i].ev, published[l] = queue'[d][j].ev
                 PROVE  k < l
      BY <2>1 DEF InOrder
    <3>1. PICK s \in {0, 1} : \A m \in DOMAIN queue'[d] :
                 m + s \in DOMAIN queue[d] /\ queue'[d][m] = queue[d][m + s]
      BY <2>2
    <3>2. queue'[d] \in Seq(Entry)
      BY <1>1, <1>14 DEF Drain
    <3>3. i + s < j + s
      BY <3>2
    <3>4. QED
      BY <3>1, <3>3 DEF InOrder
  <2>5. QED
    BY <2>3, <2>4
<1>15. ASSUME NEW t \in Tasks, NEW c \in Clients, Puts(t, c) PROVE Reads' /\ InOrder'
  <2>1. /\ UNCHANGED <<published, read, cur>> /\ Delivering(t) /\ c \in todo[t]
        /\ pc'[t] = "deliver" /\ (\A u \in Tasks : u # t => pc'[u] = pc[u])
        /\ served' = [served EXCEPT ![t] = @ \cup {c}]
        /\ queue' = [queue EXCEPT ![c] = Append(@, [ev |-> cur[t], via |-> t])]
    BY <1>15 DEF Puts, Enqueue, busVars, redisVars
  <2>2. served'[t] = served[t] \cup {c} /\ \A u \in Tasks : u # t => served'[u] = served[u]
    BY <2>1 DEF TypeOK
  <2>3. \A d \in Clients : d # c => queue'[d] = queue[d]
    BY <1>1, <2>1
  <2>4. DOMAIN queue[c] = 1..Len(queue[c]) /\ Len(queue[c]) \in Nat
    BY <1>1
  <2>5. /\ DOMAIN queue'[c] = 1..(Len(queue[c]) + 1)
        /\ queue'[c][Len(queue[c]) + 1] = [ev |-> cur[t], via |-> t]
        /\ \A i \in 1..Len(queue[c]) : queue'[c][i] = queue[c][i]
    <3>1. queue'[c] = Append(queue[c], [ev |-> cur[t], via |-> t])
      BY <1>1, <2>1
    <3>2. [ev |-> cur[t], via |-> t] \in Entry
      BY DEF TypeOK, Entry
    <3>3. QED
      BY <1>1, <3>1, <3>2
  <2>6. t = Listener => /\ read \in 1..Len(published) /\ published[read] = cur[t]
                        /\ c \notin served[t] /\ pc[t] # "idle"
    <3>1. pc[t] # "idle" /\ read \in Nat
      BY <1>1, <2>1 DEF Delivering
    <3>2. t = Listener => read \in 1..Len(published) /\ published[read] = cur[t]
      BY <1>1, <3>1 DEF Wire
    <3>3. t = Listener => c \notin served[t]
      BY <2>1, PusherFacts DEF Deliveries, DeliveryOf, Walking
    <3>4. QED
      BY <3>1, <3>2, <3>3
  <2>7. \A d \in Clients : pc'[Listener] # "idle" /\ d \notin served'[Listener] =>
          pc[Listener] # "idle" /\ d \notin served[Listener] /\ ~(t = Listener /\ d = c)
    BY <2>1, <2>2, PusherFacts DEF Delivering
  <2>8. Reads'
    <3> SUFFICES ASSUME NEW d \in Clients, NEW i \in DOMAIN queue'[d], queue'[d][i].via = Listener
                 PROVE  \E k \in 1..read :
                          /\ published[k] = queue'[d][i].ev
                          /\ pc'[Listener] # "idle" /\ d \notin served'[Listener] => k < read
      BY <2>1 DEF Reads
    <3>1. CASE i \in DOMAIN queue[d] /\ queue'[d][i] = queue[d][i]
      BY <2>7, <3>1 DEF Reads
    <3>2. CASE d = c /\ queue'[d][i] = [ev |-> cur[t], via |-> t]
      <4>1. t = Listener
        BY <3>2
      <4>2. read \in 1..read /\ published[read] = queue'[d][i].ev
        BY <1>1, <2>6, <3>2, <4>1
      <4>3. QED
        BY <2>7, <3>2, <4>1, <4>2
    <3>3. QED
      BY <2>3, <2>4, <2>5, <3>1, <3>2
  <2>9. InOrder'
    <3> SUFFICES ASSUME NEW d \in Clients, NEW i \in DOMAIN queue'[d], NEW j \in DOMAIN queue'[d],
                        i < j, queue'[d][i].via = Listener, queue'[d][j].via = Listener,
                        NEW k \in DOMAIN published, NEW l \in DOMAIN published,
                        published[k] = queue'[d][i].ev, published[l] = queue'[d][j].ev
                 PROVE  k < l
      BY <2>1 DEF InOrder
    <3>1. CASE j \in DOMAIN queue[d] /\ i \in DOMAIN queue[d] /\ queue'[d][j] = queue[d][j]
               /\ queue'[d][i] = queue[d][i]
      BY <3>1 DEF InOrder
    <3>2. CASE d = c /\ j = Len(queue[c]) + 1
      <4>1. i \in 1..Len(queue[c]) /\ queue'[c][i] = queue[c][i] /\ t = Listener
        BY <2>4, <2>5, <3>2
      <4>2. PICK m \in 1..read : published[m] = queue[c][i].ev /\ m < read
        BY <2>4, <2>6, <3>2, <4>1 DEF Reads
      <4>3. k = m /\ l = read
        <5>1. published[l] = published[read]
          BY <2>5, <2>6, <3>2, <4>1
        <5>2. published[k] = published[m]
          BY <3>2, <4>1, <4>2
        <5>3. m \in DOMAIN published /\ read \in DOMAIN published
          BY <1>1, <2>6, <4>1
        <5>4. QED
          BY <5>1, <5>2, <5>3 DEF Wire
      <4>4. QED
        BY <4>2, <4>3
    <3>3. QED
      <4>1. CASE d # c
        BY <2>3, <3>1, <4>1
      <4>2. CASE d = c /\ j # Len(queue[c]) + 1
        <5>1. i \in 1..Len(queue[c]) /\ j \in 1..Len(queue[c])
          BY <2>4, <2>5, <4>2
        <5>2. QED
          BY <2>4, <2>5, <3>1, <4>2, <5>1
      <4>3. QED
        BY <3>2, <4>1, <4>2
  <2>10. QED
    BY <2>8, <2>9
<1>16. QED
  BY <1>5, <1>6, <1>7, <1>9, <1>10, <1>11, <1>12, <1>13, <1>14, <1>15, StepKinds

(* What the listener put on one queue is in the order of publication, even *)
(* when its delivery is suspended between two events (230-237).            *)
THEOREM ListenerOrdered == Spec => []ListenerOrder
<1>1. Init => Reads /\ InOrder
  BY DEF Init, Reads, InOrder
<1>2. TypeOK /\ Positions /\ Deliveries /\ Wire /\ Reads /\ InOrder /\ [Next]_vars
        => Reads' /\ InOrder'
  BY ReadsStep
<1>3. TypeOK /\ Wire /\ Reads /\ InOrder => ListenerOrder
  <2> SUFFICES ASSUME TypeOK, Wire, Reads, InOrder,
                      NEW c \in Clients, NEW i \in DOMAIN queue[c], NEW j \in DOMAIN queue[c],
                      i < j, queue[c][i].via = Listener, queue[c][j].via = Listener
               PROVE  WirePos(queue[c][i].ev) < WirePos(queue[c][j].ev)
    BY DEF ListenerOrder
  <2>1. PICK k \in 1..read : published[k] = queue[c][i].ev
    BY DEF Reads
  <2>2. PICK l \in 1..read : published[l] = queue[c][j].ev
    BY DEF Reads
  <2>3. k \in DOMAIN published /\ l \in DOMAIN published
    BY DEF TypeOK
  <2>4. k < l
    BY <2>1, <2>2, <2>3 DEF InOrder
  <2>5. WirePos(queue[c][i].ev) = k
    BY <2>1, <2>3 DEF WirePos, Wire
  <2>6. WirePos(queue[c][j].ev) = l
    BY <2>2, <2>3 DEF WirePos, Wire
  <2>7. QED
    BY <2>4, <2>5, <2>6
<1>4. QED
  BY <1>1, <1>2, <1>3, Typed, DeliveriesHold, WireHolds, PTL DEF Spec

=============================================================================
