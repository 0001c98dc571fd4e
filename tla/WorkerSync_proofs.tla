-------------------------- MODULE WorkerSync_proofs --------------------------
(* Type correctness of WorkerSync, and agreement of the worker with the    *)
(* table once nothing is on its way, for any number of sources, requests   *)
(* and crashes.                                                            *)
EXTENDS WorkerSync, WellFoundedInduction, TLAPS

Values == {"absent", "on", "off", "gone"}
Request == [at : {"new", "read", "flushed", "published", "done"},
            op : {"none", "create", "update", "delete"}, src : Sources \cup {NoSource},
            want : {"on", "off", "keep"}, seen : {"on", "off"}, value : {"on", "off"}]

(* The request and the table agree: a started request names a source, a    *)
(* create in flight has its source to itself, an update has read a row,    *)
(* and an update that wrote keeps its row, which cannot be deleted.        *)
Owns(r) ==
  LET q == req[r] IN
  /\ q.at # "new" => q.src \in Sources
  /\ q.at \in {"read", "flushed", "published"} /\ q.op = "update" => row[q.src] # "absent"
  /\ q.op = "create" => q.at # "read" /\ q.want # "keep"
  /\ q.at \in {"flushed", "published"} /\ Writes(q) => row[q.src] # "gone"
Exclusive(r) ==
  req[r].at \in {"flushed", "published"} /\ req[r].op = "create" =>
    /\ row[req[r].src] = "absent"
    /\ \A q \in Requests : q # r => req[q].src # req[r].src
Ownership == \A r \in Requests : Owns(r) /\ Exclusive(r)

-----------------------------------------------------------------------------
LEMMA OutcomeTyped ==
  ASSUME TypeOK, NEW r \in Requests, Owns(r), req[r].src \in Sources
  PROVE  Outcome(req[r]) \in Values
<1>1. row[req[r].src] \in Values /\ req[r].want \in {"on", "off", "keep"}
  BY DEF TypeOK, Values
<1>2. CASE req[r].op = "create"
  BY <1>1, <1>2 DEF Outcome, Owns, Values
<1>3. CASE req[r].op = "delete"
  BY <1>3 DEF Outcome, Values
<1>4. CASE req[r].op \notin {"create", "delete"}
  <2>1. Outcome(req[r]) = IF Writes(req[r]) /\ req[r].want # "keep" THEN req[r].want ELSE row[req[r].src]
    BY <1>4 DEF Outcome
  <2>2. QED
    BY <2>1, <1>1 DEF Values
<1>5. QED
  BY <1>2, <1>3, <1>4

(* What a step of a request does to the requests.                          *)
LEMMA EndTyped ==
  ASSUME TypeOK, NEW r \in Requests, End(r)
  PROVE  req' \in [Requests -> Request]
<1> DEFINE q == [req[r] EXCEPT !.at = "done"]
<1>1. req \in [Requests -> Request]
  BY DEF TypeOK, Request
<1>2. q \in Request
  BY <1>1 DEF Request
<1>3. req' = [req EXCEPT ![r] = q]
  BY <1>1 DEF End
<1> HIDE DEF q
<1>4. QED
  BY <1>1, <1>2, <1>3

-----------------------------------------------------------------------------
LEMMA TypeStep == TypeOK /\ Ownership /\ [Next]_vars => TypeOK'
<1> SUFFICES ASSUME TypeOK, Ownership, [Next]_vars PROVE TypeOK'
  OBVIOUS
<1> USE WorkerAssumption DEF TypeOK, apiVars, workerVars, history
<1>1. ASSUME NEW r \in Requests, NEW s \in Sources, NEW w \in {"on", "off"}, CreateBegin(r, s, w)
      PROVE TypeOK'
  BY <1>1 DEF CreateBegin
<1>2. ASSUME NEW r \in Requests, NEW s \in Sources, NEW op \in {"update", "delete"},
             NEW w \in {"on", "off", "keep"}, ReadRow(r, s, op, w)
      PROVE TypeOK'
  <2>1. row[s] \in {"on", "off"}
    BY <1>2 DEF ReadRow
  <2>2. QED
    BY <1>2, <2>1 DEF ReadRow
<1>3. ASSUME NEW r \in Requests, UpdateFlush(r) PROVE TypeOK'
  <2>1. CASE row[req[r].src] = "gone"
    BY <1>3, <2>1, EndTyped DEF UpdateFlush, Request
  <2>2. CASE row[req[r].src] # "gone"
    <3>1. row[req[r].src] \in {"on", "off"}
      BY <1>3, <2>2 DEF UpdateFlush, Ownership, Owns
    <3>2. PICK v \in {"on", "off"} : req' = [req EXCEPT ![r].at = "flushed", ![r].value = v]
      BY <1>3, <2>2, <3>1 DEF UpdateFlush
    <3>3. QED
      BY <1>3, <3>2 DEF UpdateFlush
  <2>3. QED
    BY <2>1, <2>2
<1>4. ASSUME NEW r \in Requests, RequestPublish(r) PROVE TypeOK'
  <2>1. req[r].src \in Sources
    BY <1>4 DEF RequestPublish, Ownership, Owns
  <2>2. inbox' \in Seq(Hint)
    <3>1. [src |-> req[r].src, kind |-> KindOf(req[r])] \in Hint
      BY <2>1 DEF Hint, KindOf
    <3>2. QED
      BY <1>4, <3>1 DEF RequestPublish
  <2>3. heard' \subseteq Requests /\ disturbed' \subseteq Sources
    BY <1>4, <2>1 DEF RequestPublish
  <2>4. req' \in [Requests -> Request]
    <3> DEFINE q == [req[r] EXCEPT !.at = "published"]
    <3>1. req \in [Requests -> Request]
      BY DEF Request
    <3>2. q \in Request
      BY <3>1 DEF Request
    <3>3. req' = [req EXCEPT ![r] = q]
      BY <1>4, <3>1 DEF RequestPublish
    <3> HIDE DEF q
    <3>4. QED
      BY <3>1, <3>2, <3>3
  <2>5. UNCHANGED <<row, redisUp, workerVars>>
    BY <1>4 DEF RequestPublish
  <2>6. QED
    BY <2>2, <2>3, <2>4, <2>5 DEF Request
<1>5. ASSUME NEW r \in Requests, RequestSilent(r) PROVE TypeOK'
  BY <1>5 DEF RequestSilent
<1>6. ASSUME NEW r \in Requests, RequestCommit(r) PROVE TypeOK'
  <2>1. req[r].src \in Sources /\ Owns(r)
    BY <1>6 DEF RequestCommit, Ownership, Owns
  <2>2. row' \in [Sources -> Values]
    BY <1>6, <2>1, OutcomeTyped DEF RequestCommit, Values
  <2>3. req' \in [Requests -> Request]
    BY <1>6, EndTyped DEF RequestCommit
  <2>4. QED
    BY <1>6, <2>2, <2>3 DEF RequestCommit, Values, Request
<1>7. ASSUME NEW r \in Requests, RequestFail(r) PROVE TypeOK'
  <2>1. req' \in [Requests -> Request] /\ req[r].src \in Sources
    BY <1>7, EndTyped DEF RequestFail, Ownership, Owns
  <2>2. QED
    BY <1>7, <2>1 DEF RequestFail, Request
<1>8. CASE WorkerStep \/ WorkerCrash
  <2>1. CASE WorkerStart
    BY <2>1 DEF WorkerStart
  <2>2. CASE WorkerProceeds
    BY <2>2 DEF WorkerProceeds
  <2>3. CASE WorkerSnapshot
    BY <2>3 DEF WorkerSnapshot
  <2>4. CASE WorkerSchedule
    BY <2>4 DEF WorkerSchedule
  <2>5. CASE WorkerCrash
    BY <2>5 DEF WorkerCrash
  <2>6. QED
    BY <1>8, <2>1, <2>2, <2>3, <2>4, <2>5 DEF WorkerStep
<1>9. CASE ListenerStep \/ ListenerDies
  <2>1. CASE ListenerSubscribes
    BY <2>1 DEF ListenerSubscribes
  <2>2. ASSUME inbox # <<>> PROVE Head(inbox).src \in Sources /\ Tail(inbox) \in Seq(Hint)
    <3>1. Head(inbox) \in Hint /\ Tail(inbox) \in Seq(Hint)
      BY <2>2
    <3>2. QED
      BY <3>1 DEF Hint
  <2>3. CASE HandleRemove
    BY <2>2, <2>3 DEF HandleRemove, Listening
  <2>4. CASE HandleAdd
    BY <2>2, <2>4 DEF HandleAdd, Listening
  <2>5. CASE AddSourceJob
    BY <2>5 DEF AddSourceJob
  <2>6. CASE ListenerDies
    <3>1. \A i \in DOMAIN inbox : inbox[i] \in Hint
      OBVIOUS
    <3>2. {inbox[i].src : i \in DOMAIN inbox} \subseteq Sources
      BY <3>1 DEF Hint
    <3>3. QED
      BY <2>6, <3>2 DEF ListenerDies
  <2>7. QED
    BY <1>9, <2>1, <2>3, <2>4, <2>5, <2>6 DEF ListenerStep
<1>10. CASE RedisFails
  BY <1>10 DEF RedisFails
<1>11. CASE RedisRecovers
  BY <1>11 DEF RedisRecovers
<1>12. CASE UNCHANGED vars
  BY <1>12 DEF vars
<1>13. QED
  BY <1>1, <1>2, <1>3, <1>4, <1>5, <1>6, <1>7, <1>8, <1>9, <1>10, <1>11, <1>12
  DEF Next, RequestBegin, RequestStep

-----------------------------------------------------------------------------
(* A step that leaves the table alone, and changes one request without     *)
(* giving it another source, keeps the others in order.                    *)
LEMMA OthersKeep ==
  ASSUME TypeOK, Ownership, NEW r \in Requests, NEW u \in Requests, u # r, row' = row,
         req'[u] = req[u], \A q \in Requests : q \notin {r} => req'[q] = req[q],
         req'[r].src = req[r].src
  PROVE  Owns(u)' /\ Exclusive(u)'
<1>1. Owns(u) /\ Exclusive(u)
  BY DEF Ownership
<1>2. Owns(u)'
  BY <1>1 DEF Owns, Writes
<1>3. \A q \in Requests : req'[q].src = req[q].src
  OBVIOUS
<1>4. Exclusive(u)'
  BY <1>1, <1>3 DEF Exclusive
<1>5. QED
  BY <1>2, <1>4

LEMMA CommitKeeps ==
  ASSUME TypeOK, Ownership, NEW r \in Requests, RequestCommit(r)
  PROVE  Ownership'
<1> DEFINE s == req[r].src
<1>1. s \in Sources /\ Owns(r) /\ Exclusive(r)
  BY DEF RequestCommit, Ownership, Owns
<1>2. row' = [row EXCEPT ![s] = Outcome(req[r])] /\ row'[s] = Outcome(req[r])
  BY <1>1 DEF RequestCommit, TypeOK
<1>3. \A u \in Requests : u # r => req'[u] = req[u]
  BY DEF RequestCommit, End, TypeOK
<1>4. req'[r].at = "done" /\ req'[r].src = s /\ req'[r].op = req[r].op /\ req'[r].want = req[r].want
  BY DEF RequestCommit, End, TypeOK
<1>5. Owns(r)' /\ Exclusive(r)'
  BY <1>1, <1>4 DEF Owns, Exclusive
<1>6. ASSUME NEW u \in Requests, u # r PROVE Owns(u)' /\ Exclusive(u)'
  <2>1. req'[u] = req[u] /\ Owns(u) /\ Exclusive(u)
    BY <1>3, <1>6 DEF Ownership
  <2>2. \A q \in Requests : req'[q].src = req[q].src
    BY <1>3, <1>4
  <2>3. CASE req[u].src # s
    <3>1. row'[req[u].src] = row[req[u].src]
      BY <1>2, <2>3 DEF TypeOK
    <3>2. QED
      BY <2>1, <2>2, <3>1 DEF Owns, Exclusive, Writes
  <2>4. CASE req[u].src = s
    <3>1. ~(req[u].at \in {"flushed", "published"} /\ req[u].op = "create")
      BY <2>1, <2>4, <1>6 DEF Exclusive
    <3>2. req[r].op # "create"
      BY <1>1, <2>4, <1>6 DEF Exclusive, RequestCommit
    <3>3. req[r].op = "delete" => ~(req[u].at \in {"flushed", "published"} /\ Writes(req[u]))
      BY <2>4 DEF RequestCommit, Locked
    <3>4. CASE req[r].op = "delete"
      <4>1. row'[s] = "gone"
        BY <1>2, <3>4 DEF Outcome
      <4>2. QED
        BY <2>1, <2>2, <2>4, <3>1, <3>3, <3>4, <4>1 DEF Owns, Exclusive, Writes
    <3>5. CASE req[r].op # "delete"
      <4>1. row'[s] = IF Writes(req[r]) /\ req[r].want # "keep" THEN req[r].want ELSE row[s]
        BY <1>2, <3>2, <3>5 DEF Outcome
      <4>2. req[r].want \in {"on", "off", "keep"}
        BY DEF TypeOK
      <4>3. row'[s] \in {"on", "off"} \/ row'[s] = row[s]
        BY <4>1, <4>2
      <4>4. QED
        BY <2>1, <2>2, <2>4, <3>1, <4>3 DEF Owns, Exclusive, Writes
    <3>6. QED
      BY <3>4, <3>5
  <2>5. QED
    BY <2>3, <2>4
<1>7. QED
  BY <1>5, <1>6 DEF Ownership

LEMMA OwnershipStep == TypeOK /\ Ownership /\ [Next]_vars => Ownership'
<1> SUFFICES ASSUME TypeOK, Ownership, [Next]_vars PROVE Ownership'
  OBVIOUS
<1>1. ASSUME NEW r \in Requests, NEW s \in Sources, NEW w \in {"on", "off"}, CreateBegin(r, s, w)
      PROVE Ownership'
  <2>1. row' = row /\ row[s] = "absent" /\ \A q \in Requests : req[q].src # s
    BY <1>1 DEF CreateBegin
  <2>2. req'[r] = [at |-> "flushed", op |-> "create", src |-> s, want |-> w, seen |-> "off", value |-> w]
    BY <1>1 DEF CreateBegin, TypeOK
  <2>3. \A u \in Requests : u # r => req'[u] = req[u]
    BY <1>1 DEF CreateBegin, TypeOK
  <2>4. Owns(r)' /\ Exclusive(r)'
    BY <2>1, <2>2, <2>3 DEF Owns, Exclusive, Writes
  <2>5. ASSUME NEW u \in Requests, u # r PROVE Owns(u)' /\ Exclusive(u)'
    <3>1. Owns(u) /\ Exclusive(u) /\ req'[u] = req[u] /\ req[u].src # s
      BY <2>1, <2>3, <2>5 DEF Ownership
    <3>2. \A q \in Requests : req'[q].src = IF q = r THEN s ELSE req[q].src
      BY <2>2, <2>3
    <3>3. QED
      BY <2>1, <3>1, <3>2 DEF Owns, Exclusive, Writes
  <2>6. QED
    BY <2>4, <2>5 DEF Ownership
<1>2. ASSUME NEW r \in Requests, NEW s \in Sources, NEW op \in {"update", "delete"},
             NEW w \in {"on", "off", "keep"}, ReadRow(r, s, op, w)
      PROVE Ownership'
  <2>1. row' = row /\ row[s] \in {"on", "off"}
    BY <1>2 DEF ReadRow
  <2>2. req'[r] = [at |-> "read", op |-> op, src |-> s, want |-> w, seen |-> row[s], value |-> row[s]]
    BY <1>2 DEF ReadRow, TypeOK
  <2>3. \A u \in Requests : u # r => req'[u] = req[u]
    BY <1>2 DEF ReadRow, TypeOK
  <2>4. Owns(r)' /\ Exclusive(r)'
    BY <2>1, <2>2 DEF Owns, Exclusive
  <2>5. ASSUME NEW u \in Requests, u # r PROVE Owns(u)' /\ Exclusive(u)'
    <3>1. Owns(u) /\ Exclusive(u) /\ req'[u] = req[u]
      BY <2>3, <2>5 DEF Ownership
    <3>2. \A q \in Requests : req'[q].src = IF q = r THEN s ELSE req[q].src
      BY <2>2, <2>3
    <3>3. QED
      BY <2>1, <3>1, <3>2 DEF Owns, Exclusive, Writes
  <2>6. QED
    BY <2>4, <2>5 DEF Ownership
<1>3. ASSUME NEW r \in Requests, row' = row,
             \/ End(r) /\ req[r].at # "new"
             \/ /\ \E v : req' = [req EXCEPT ![r].at = "flushed", ![r].value = v]
                /\ req[r].at = "read" /\ req[r].op = "update" /\ row[req[r].src] # "gone"
             \/ /\ req' = [req EXCEPT ![r].at = "published"]
                /\ req[r].at = "flushed" \/ (req[r].op = "delete" /\ req[r].at = "read")
      PROVE Ownership'
  <2>1. Owns(r) /\ Exclusive(r)
    BY DEF Ownership
  <2>2. \A u \in Requests : u # r => req'[u] = req[u]
    BY <1>3 DEF End, TypeOK
  <2>3. /\ req'[r].src = req[r].src /\ req'[r].op = req[r].op
        /\ req'[r].want = req[r].want /\ req'[r].seen = req[r].seen
    BY <1>3 DEF End, TypeOK
  <2>4. \/ req'[r].at = "done"
        \/ /\ req'[r].at = "flushed" /\ req[r].at = "read" /\ req[r].op = "update"
           /\ row[req[r].src] # "gone"
        \/ /\ req'[r].at = "published"
           /\ req[r].at = "flushed" \/ (req[r].op = "delete" /\ req[r].at = "read")
    BY <1>3 DEF End, TypeOK
  <2> row' = row
    BY <1>3
  <2>5. Owns(r)'
    <3>1. Writes(req[r]) <=> Writes(req'[r])
      BY <2>3 DEF Writes
    <3>2. req[r].src \in Sources /\ req'[r].src \in Sources
      BY <2>1, <2>3, <2>4, <1>3 DEF Owns, End
    <3>3. Writes(req[r]) => req[r].op = "update"
      BY DEF Writes
    <3>4. QED
      BY <2>1, <2>3, <2>4, <3>1, <3>2, <3>3 DEF Owns
  <2>6. Exclusive(r)'
    BY <2>1, <2>2, <2>3, <2>4 DEF Exclusive, Owns
  <2>7. \A u \in Requests : u # r => Owns(u)' /\ Exclusive(u)'
    BY <2>2, <2>3, OthersKeep
  <2>8. QED
    BY <2>5, <2>6, <2>7 DEF Ownership
<1>4. ASSUME NEW r \in Requests, UpdateFlush(r) PROVE Ownership'
  <2>1. req[r].at = "read" /\ req[r].op = "update" /\ row' = row
    BY <1>4 DEF UpdateFlush
  <2>2. CASE row[req[r].src] = "gone"
    BY <1>3, <1>4, <2>1, <2>2 DEF UpdateFlush
  <2>3. CASE row[req[r].src] # "gone"
    <3> DEFINE v == IF Writes(req[r]) /\ req[r].want # "keep" THEN req[r].want ELSE row[req[r].src]
    <3>1. req' = [req EXCEPT ![r].at = "flushed", ![r].value = v]
      BY <1>4, <2>3 DEF UpdateFlush
    <3> HIDE DEF v
    <3>2. QED
      BY <1>3, <2>1, <2>3, <3>1
  <2>4. QED
    BY <2>2, <2>3
<1>5. ASSUME NEW r \in Requests, RequestPublish(r) \/ RequestSilent(r) PROVE Ownership'
  <2>1. /\ row' = row /\ req' = [req EXCEPT ![r].at = "published"]
        /\ req[r].at = "flushed" \/ (req[r].op = "delete" /\ req[r].at = "read")
    BY <1>5 DEF RequestPublish, RequestSilent
  <2>2. QED
    BY <1>3, <2>1
<1>6. ASSUME NEW r \in Requests, RequestFail(r) PROVE Ownership'
  BY <1>3, <1>6 DEF RequestFail
<1>7. CASE UNCHANGED <<row, req>>
  BY <1>7 DEF Ownership, Owns, Exclusive, Writes
<1>8. WorkerStep \/ WorkerCrash => UNCHANGED <<row, req>>
  BY DEF WorkerStep, WorkerStart, WorkerProceeds, WorkerSnapshot, WorkerSchedule, WorkerCrash, apiVars
<1>9. ListenerStep \/ ListenerDies \/ RedisFails \/ RedisRecovers \/ UNCHANGED vars => UNCHANGED <<row, req>>
  BY DEF ListenerStep, ListenerSubscribes, HandleRemove, HandleAdd, AddSourceJob, ListenerDies,
         RedisFails, RedisRecovers, vars, apiVars
<1>10. QED
  BY <1>1, <1>2, <1>4, <1>5, <1>6, <1>7, <1>8, <1>9, CommitKeeps DEF Next, RequestBegin, RequestStep

LEMMA TypedAndOwned == Spec => [](TypeOK /\ Ownership)
<1>1. Init => TypeOK /\ Ownership
  BY WorkerAssumption DEF Init, Idle, TypeOK, Ownership, Owns, Exclusive
<1>2. TypeOK /\ Ownership /\ [Next]_vars => (TypeOK /\ Ownership)'
  BY TypeStep, OwnershipStep
<1>3. QED
  BY <1>1, <1>2, PTL DEF Spec

(* The type invariant.                                                     *)
THEOREM TypeCorrect == Spec => []TypeOK
  BY TypedAndOwned, PTL

-----------------------------------------------------------------------------
(* What the requests in hand carry to the worker and to the table.  At     *)
(* most one update per source has written its row, and until it commits    *)
(* nobody else changes that row: the value it refreshed, and publishes, is *)
(* the value its commit leaves.                                            *)
InHand(r) == req[r].at \in {"flushed", "published"}
Carries(r) ==
  LET q == req[r] IN
  /\ q.at # "new" => q.op \in {"create", "update", "delete"}
  /\ q.op = "delete" => q.at # "flushed"
  /\ InHand(r) /\ q.op = "create" => q.value = q.want
  /\ InHand(r) /\ Writes(q) => q.value = IF q.want = "keep" THEN row[q.src] ELSE q.want
  /\ \A p \in Requests :
       InHand(r) /\ Writes(q) /\ InHand(p) /\ Writes(req[p]) /\ req[p].src = q.src => p = r
Carrying == \A r \in Requests : Carries(r)

(* What the row of a source will say when the requests that published have *)
(* committed: a delete comes last, and at most one request writes.         *)
Deleting(s) == \E r \in Sent(s) : req[r].op = "delete"
Writing(s) == {r \in Sent(s) : req[r].op = "create" \/ Writes(req[r])}
WillBeOn(s) ==
  /\ ~Deleting(s)
  /\ (\E r \in Writing(s) : req[r].value = "on") \/ (Writing(s) = {} /\ row[s] = "on")

(* What the worker will believe when it has taken every hint received.     *)
Queued(q, s) == \E i \in DOMAIN q : q[i].src = s
LastIs(q, s, k) ==
  \E i \in DOMAIN q : q[i].src = s /\ q[i].kind = k /\ \A j \in DOMAIN q : j > i => q[j].src # s
Believed(s) == hint = s \/ s \in jobs \/ (worker = "scheduling" /\ s \in snap)
BelievesOn(s) == LastIs(inbox, s, "add") \/ (~Queued(inbox, s) /\ Believed(s))

(* Before the snapshot the worker knows of a source only what a hint told  *)
(* it; from the snapshot on, belief and row are heading for the same.      *)
Agrees(s) ==
  /\ worker \in {"subscribing", "subscribed"} =>
       (BelievesOn(s) => WillBeOn(s)) /\ (LastIs(inbox, s, "remove") => ~WillBeOn(s))
  /\ worker \in {"scheduling", "running"} => (BelievesOn(s) <=> WillBeOn(s))
Agreement == \A s \in Sources \ disturbed : Agrees(s)
Asleep == worker = "down" => jobs = {} /\ inbox = <<>> /\ hint = NoSource /\ listener = "off"

-----------------------------------------------------------------------------
(* A step of one request leaves what the others carry.                     *)
LEMMA OthersCarry ==
  ASSUME Carrying, NEW r \in Requests, NEW u \in Requests, u # r,
         \A q \in Requests : q # r => req'[q] = req[q],
         InHand(u) /\ Writes(req[u]) => row'[req[u].src] = row[req[u].src],
         InHand(u) /\ Writes(req[u]) /\ InHand(r)' /\ Writes(req'[r]) /\ req'[r].src = req[u].src
           => InHand(r) /\ Writes(req[r]) /\ req[r].src = req[u].src
  PROVE  Carries(u)'
<1>1. Carries(u) /\ req'[u] = req[u]
  BY DEF Carrying
<1>2. InHand(u)' <=> InHand(u)
  BY <1>1 DEF InHand
<1>3. Writes(req'[u]) <=> Writes(req[u])
  BY <1>1
<1>4. ASSUME NEW p \in Requests, InHand(u), Writes(req[u]), InHand(p)', Writes(req'[p]),
             req'[p].src = req[u].src
      PROVE  p = u
  <2>1. CASE p = r
    BY <1>1, <1>4, <2>1 DEF Carries
  <2>2. CASE p # r
    <3>1. req'[p] = req[p]
      BY <2>2
    <3>2. QED
      BY <1>1, <1>4, <3>1 DEF Carries, InHand
  <2>3. QED
    BY <2>1, <2>2
<1>5. QED
  BY <1>1, <1>2, <1>3, <1>4 DEF Carries

(* A request that passes on, or ends, without writing anew.                *)
LEMMA PassingCarries ==
  ASSUME TypeOK, Carrying, NEW r \in Requests, row' = row,
         \/ req' = [req EXCEPT ![r].at = "done"] /\ req[r].at # "new"
         \/ /\ req' = [req EXCEPT ![r].at = "published"]
            /\ req[r].at = IF req[r].op = "delete" THEN "read" ELSE "flushed"
  PROVE  Carrying'
<1>1. \A q \in Requests : q # r => req'[q] = req[q]
  BY DEF TypeOK
<1>2. /\ req'[r].src = req[r].src /\ req'[r].op = req[r].op /\ req'[r].want = req[r].want
      /\ req'[r].seen = req[r].seen /\ req'[r].value = req[r].value
  BY DEF TypeOK
<1>3. \/ req'[r].at = "done" /\ req[r].at # "new"
      \/ req'[r].at = "published" /\ req[r].at = IF req[r].op = "delete" THEN "read" ELSE "flushed"
  BY DEF TypeOK
<1>4. Writes(req'[r]) <=> Writes(req[r])
  BY <1>2 DEF Writes
<1>5. InHand(r)' /\ req[r].op # "delete" => InHand(r)
  BY <1>3 DEF InHand
<1>6. Writes(req[r]) => req[r].op # "delete"
  BY DEF Writes
<1>7. ASSUME NEW u \in Requests, u # r PROVE Carries(u)'
  <2>1. InHand(r)' /\ Writes(req'[r]) /\ req'[r].src = req[u].src
          => InHand(r) /\ Writes(req[r]) /\ req[r].src = req[u].src
    BY <1>2, <1>4, <1>5, <1>6
  <2>2. QED
    BY <1>1, <1>7, <2>1, OthersCarry
<1>8. Carries(r)'
  <2>1. Carries(r)
    BY DEF Carrying
  <2>2. ASSUME NEW p \in Requests, InHand(r)', Writes(req'[r]), InHand(p)', Writes(req'[p]),
               req'[p].src = req'[r].src
        PROVE  p = r
    <3>1. SUFFICES ASSUME p # r PROVE FALSE
      OBVIOUS
    <3>2. req'[p] = req[p]
      BY <1>1, <3>1
    <3>3. InHand(r) /\ Writes(req[r]) /\ InHand(p) /\ Writes(req[p]) /\ req[p].src = req[r].src
      BY <1>2, <1>4, <1>5, <1>6, <2>2, <3>2 DEF InHand
    <3>4. QED
      BY <2>1, <3>1, <3>3 DEF Carries
  <2>3. InHand(r)' /\ Writes(req'[r]) => req'[r].value = IF req'[r].want = "keep" THEN row'[req'[r].src] ELSE req'[r].want
    BY <1>2, <1>4, <1>5, <1>6, <2>1 DEF Carries
  <2>4. InHand(r)' /\ req'[r].op = "create" => req'[r].value = req'[r].want
    BY <1>2, <1>5, <2>1 DEF Carries
  <2>5. /\ req'[r].at # "new" => req'[r].op \in {"create", "update", "delete"}
        /\ req'[r].op = "delete" => req'[r].at # "flushed"
    <3>1. req[r].at # "new"
      BY <1>3
    <3>2. QED
      BY <1>2, <1>3, <2>1, <3>1 DEF Carries
  <2>6. QED
    BY <2>2, <2>3, <2>4, <2>5 DEF Carries
<1>9. QED
  BY <1>7, <1>8 DEF Carrying

(* A commit changes no row another update has written.                     *)
LEMMA CommitCarries ==
  ASSUME TypeOK, Ownership, Carrying, NEW r \in Requests, RequestCommit(r)
  PROVE  Carrying'
<1> DEFINE s == req[r].src
<1>1. s \in Sources /\ Exclusive(r) /\ Carries(r)
  BY DEF RequestCommit, Ownership, Owns, Carrying
<1>2. row' = [row EXCEPT ![s] = Outcome(req[r])] /\ row'[s] = Outcome(req[r]) /\ req[r].at = "published"
  BY <1>1 DEF RequestCommit, TypeOK
<1>3. \A q \in Requests : q # r => req'[q] = req[q]
  BY DEF RequestCommit, End, TypeOK
<1>4. req'[r].at = "done" /\ req'[r].op = req[r].op
  BY DEF RequestCommit, End, TypeOK
<1>5. ~InHand(r)'
  BY <1>4 DEF InHand
<1>6. Carries(r)'
  BY <1>1, <1>2, <1>4, <1>5 DEF Carries
<1>7. ASSUME NEW u \in Requests, u # r PROVE Carries(u)'
  <2>1. ASSUME InHand(u), Writes(req[u]) PROVE row'[req[u].src] = row[req[u].src]
    <3>1. CASE req[u].src # s
      BY <1>2, <3>1 DEF TypeOK
    <3>2. CASE req[u].src = s
      <4>1. req[r].op # "create"
        BY <1>1, <1>2, <1>7, <3>2 DEF Exclusive
      <4>2. req[r].op # "delete"
        BY <2>1, <3>2 DEF RequestCommit, Locked, InHand
      <4>3. ~Writes(req[r])
        BY <1>1, <1>2, <1>7, <2>1, <3>2 DEF Carries, InHand
      <4>4. Outcome(req[r]) = row[s]
        BY <4>1, <4>2, <4>3 DEF Outcome
      <4>5. QED
        BY <1>2, <3>2, <4>4
    <3>3. QED
      BY <3>1, <3>2
  <2>2. QED
    BY <1>3, <1>5, <1>7, <2>1, OthersCarry
<1>8. QED
  BY <1>6, <1>7 DEF Carrying

LEMMA CarryingStep == TypeOK /\ Ownership /\ Carrying /\ [Next]_vars => Carrying'
<1> SUFFICES ASSUME TypeOK, Ownership, Carrying, [Next]_vars PROVE Carrying'
  OBVIOUS
<1>1. ASSUME NEW r \in Requests, NEW s \in Sources, row' = row, NEW q, req' = [req EXCEPT ![r] = q],
             q.op \in {"create", "update", "delete"}, ~Writes(q) \/ q.at = "read",
             q.at = "read" \/ (q.at = "flushed" /\ q.op = "create" /\ q.value = q.want)
      PROVE  Carrying'
  <2>1. req'[r] = q /\ \A u \in Requests : u # r => req'[u] = req[u]
    BY <1>1 DEF TypeOK
  <2>2. ~(InHand(r)' /\ Writes(req'[r]))
    BY <1>1, <2>1 DEF InHand
  <2>3. \A u \in Requests : u # r => Carries(u)'
    BY <1>1, <2>1, <2>2, OthersCarry
  <2>4. Carries(r)'
    BY <1>1, <2>1, <2>2 DEF Carries, InHand
  <2>5. QED
    BY <2>3, <2>4 DEF Carrying
<1>2. ASSUME NEW r \in Requests, NEW s \in Sources, NEW w \in {"on", "off"}, CreateBegin(r, s, w)
      PROVE Carrying'
  <2> DEFINE q == [at |-> "flushed", op |-> "create", src |-> s, want |-> w, seen |-> "off", value |-> w]
  <2>1. row' = row /\ req' = [req EXCEPT ![r] = q]
    BY <1>2 DEF CreateBegin
  <2>2. q.op = "create" /\ ~Writes(q) /\ q.at = "flushed" /\ q.value = q.want
    BY DEF Writes
  <2> HIDE DEF q
  <2>3. QED
    BY <1>1, <2>1, <2>2
<1>3. ASSUME NEW r \in Requests, NEW s \in Sources, NEW op \in {"update", "delete"},
             NEW w \in {"on", "off", "keep"}, ReadRow(r, s, op, w)
      PROVE Carrying'
  <2> DEFINE q == [at |-> "read", op |-> op, src |-> s, want |-> w, seen |-> row[s], value |-> row[s]]
  <2>1. row' = row /\ req' = [req EXCEPT ![r] = q]
    BY <1>3 DEF ReadRow
  <2>2. q.op \in {"update", "delete"} /\ q.at = "read"
    OBVIOUS
  <2> HIDE DEF q
  <2>3. QED
    BY <1>1, <2>1, <2>2
<1>4. ASSUME NEW r \in Requests, UpdateFlush(r) PROVE Carrying'
  <2> DEFINE v == IF Writes(req[r]) /\ req[r].want # "keep" THEN req[r].want ELSE row[req[r].src]
  <2>1. req[r].at = "read" /\ req[r].op = "update" /\ row' = row /\ (Writes(req[r]) => ~Locked(req[r].src))
    BY <1>4 DEF UpdateFlush
  <2>2. CASE row[req[r].src] = "gone"
    BY <1>4, <2>1, <2>2, PassingCarries DEF UpdateFlush, End
  <2>3. CASE row[req[r].src] # "gone"
    <3>1. req' = [req EXCEPT ![r].at = "flushed", ![r].value = v]
      BY <1>4, <2>3 DEF UpdateFlush
    <3>2. \A u \in Requests : u # r => req'[u] = req[u]
      BY <3>1 DEF TypeOK
    <3>3. /\ req'[r].at = "flushed" /\ req'[r].src = req[r].src /\ req'[r].op = "update"
          /\ req'[r].want = req[r].want /\ req'[r].seen = req[r].seen /\ req'[r].value = v
      BY <2>1, <3>1 DEF TypeOK
    <3>4. Writes(req'[r]) <=> Writes(req[r])
      BY <2>1, <3>3 DEF Writes
    <3>5. ASSUME NEW u \in Requests, u # r, InHand(u), Writes(req[u]), Writes(req'[r])
          PROVE  req[u].src # req[r].src
      BY <2>1, <3>4, <3>5 DEF Locked, InHand
    <3>6. ASSUME NEW u \in Requests, u # r PROVE Carries(u)'
      BY <2>1, <3>2, <3>3, <3>5, <3>6, OthersCarry
    <3>7. ASSUME NEW p \in Requests, Writes(req'[r]), InHand(p)', Writes(req'[p]), req'[p].src = req'[r].src
          PROVE  p = r
      <4>1. SUFFICES ASSUME p # r PROVE FALSE
        OBVIOUS
      <4>2. req'[p] = req[p]
        BY <3>2, <4>1
      <4>3. QED
        BY <3>3, <3>5, <3>7, <4>1, <4>2 DEF InHand
    <3>8. Writes(req'[r]) => v = IF req[r].want = "keep" THEN row[req[r].src] ELSE req[r].want
      BY <3>4
    <3>9. Carries(r)'
      BY <2>1, <3>3, <3>7, <3>8 DEF Carries
    <3>10. QED
      BY <3>6, <3>9 DEF Carrying
  <2>4. QED
    BY <2>2, <2>3
<1>5. ASSUME NEW r \in Requests, RequestPublish(r) \/ RequestSilent(r) PROVE Carrying'
  <2>1. /\ row' = row /\ req' = [req EXCEPT ![r].at = "published"]
        /\ req[r].at = IF req[r].op = "delete" THEN "read" ELSE "flushed"
    BY <1>5 DEF RequestPublish, RequestSilent, Publishes
  <2>2. QED
    BY <2>1, PassingCarries
<1>6. ASSUME NEW r \in Requests, RequestFail(r) PROVE Carrying'
  BY <1>6, PassingCarries DEF RequestFail, End
<1>7. CASE UNCHANGED <<row, req>>
  BY <1>7 DEF Carrying, Carries, InHand
<1>8. WorkerStep \/ WorkerCrash => UNCHANGED <<row, req>>
  BY DEF WorkerStep, WorkerStart, WorkerProceeds, WorkerSnapshot, WorkerSchedule, WorkerCrash, apiVars
<1>9. ListenerStep \/ ListenerDies \/ RedisFails \/ RedisRecovers \/ UNCHANGED vars => UNCHANGED <<row, req>>
  BY DEF ListenerStep, ListenerSubscribes, HandleRemove, HandleAdd, AddSourceJob, ListenerDies,
         RedisFails, RedisRecovers, vars, apiVars
<1>10. QED
  BY <1>2, <1>3, <1>4, <1>5, <1>6, <1>7, <1>8, <1>9, CommitCarries DEF Next, RequestBegin, RequestStep

-----------------------------------------------------------------------------
(* The queue of hints: a new last hint, and the first one taken.           *)
LEMMA Appended ==
  ASSUME NEW q \in Seq(Hint), NEW h \in Hint, NEW s, NEW k
  PROVE  /\ s = h.src => Queued(Append(q, h), s) /\ (LastIs(Append(q, h), s, k) <=> k = h.kind)
         /\ s # h.src => /\ Queued(Append(q, h), s) <=> Queued(q, s)
                         /\ LastIs(Append(q, h), s, k) <=> LastIs(q, s, k)
<1> DEFINE n == Len(q) + 1  p == Append(q, h)
<1>1. Len(q) \in Nat /\ DOMAIN q = 1..Len(q) /\ DOMAIN p = 1..n /\ p[n] = h
  OBVIOUS
<1>2. \A i \in DOMAIN q : p[i] = q[i] /\ i \in DOMAIN p /\ n > i
  OBVIOUS
<1>3. \A i \in DOMAIN p : i = n \/ i \in DOMAIN q
  BY <1>1
<1>4. \A i \in DOMAIN p : ~(i > n)
  BY <1>1
<1>5. n \in DOMAIN p
  BY <1>1
<1> HIDE DEF n, p
<1>6. CASE s = h.src
  <2>1. Queued(p, s)
    BY <1>1, <1>5, <1>6 DEF Queued
  <2>2. LastIs(p, s, k) <=> k = h.kind
    BY <1>1, <1>2, <1>3, <1>4, <1>5, <1>6 DEF LastIs
  <2>3. QED
    BY <1>6, <2>1, <2>2 DEF p
<1>7. CASE s # h.src
  <2>1. Queued(p, s) <=> Queued(q, s)
    BY <1>1, <1>2, <1>3, <1>7 DEF Queued
  <2>2. LastIs(p, s, k) <=> LastIs(q, s, k)
    BY <1>1, <1>2, <1>3, <1>7 DEF LastIs
  <2>3. QED
    BY <1>7, <2>1, <2>2 DEF p
<1>8. QED
  BY <1>6, <1>7

LEMMA Taken ==
  ASSUME NEW q \in Seq(Hint), q # <<>>, NEW s, NEW k
  PROVE  /\ s # Head(q).src \/ Queued(Tail(q), s) =>
              /\ Queued(Tail(q), s) <=> Queued(q, s)
              /\ LastIs(Tail(q), s, k) <=> LastIs(q, s, k)
         /\ s = Head(q).src /\ ~Queued(Tail(q), s) =>
              /\ Queued(q, s) /\ ~LastIs(Tail(q), s, k)
              /\ LastIs(q, s, k) <=> k = Head(q).kind
<1> DEFINE t == Tail(q)  h == Head(q)
<1>1. Len(q) \in Nat /\ Len(q) > 0 /\ DOMAIN q = 1..Len(q) /\ DOMAIN t = 1..(Len(q) - 1) /\ q[1] = h
  OBVIOUS
<1>2. \A i \in DOMAIN t : t[i] = q[i + 1]
  OBVIOUS
<1> HIDE DEF t, h
<1>3. \A i \in DOMAIN t : i + 1 \in DOMAIN q
  BY <1>1
<1>4. \A i \in DOMAIN q : i = 1 \/ (i - 1 \in DOMAIN t /\ t[i - 1] = q[i])
  BY <1>1, <1>2
<1>5. Queued(q, s) <=> s = h.src \/ Queued(t, s)
  <2>1. Queued(t, s) => Queued(q, s)
    BY <1>2, <1>3 DEF Queued
  <2>2. s = h.src => Queued(q, s)
    BY <1>1 DEF Queued
  <2>3. Queued(q, s) => s = h.src \/ Queued(t, s)
    BY <1>1, <1>4 DEF Queued
  <2>4. QED
    BY <2>1, <2>2, <2>3
<1>6. LastIs(t, s, k) => LastIs(q, s, k)
  <2>1. SUFFICES ASSUME NEW i \in DOMAIN t, t[i].src = s, t[i].kind = k,
                        \A j \in DOMAIN t : j > i => t[j].src # s
                 PROVE  LastIs(q, s, k)
    BY DEF LastIs
  <2>2. ASSUME NEW j \in DOMAIN q, j > i + 1 PROVE q[j].src # s
    <3>1. i \in 1..(Len(q) - 1) /\ j \in 1..Len(q)
      BY <1>1
    <3>2. j - 1 \in DOMAIN t /\ j - 1 > i /\ t[j - 1] = q[j]
      BY <1>1, <1>4, <2>2, <3>1
    <3>3. QED
      BY <2>1, <3>2
  <2>3. QED
    BY <1>2, <1>3, <2>1, <2>2 DEF LastIs
<1>7. LastIs(q, s, k) => LastIs(t, s, k) \/ (~Queued(t, s) /\ s = h.src /\ k = h.kind)
  <2>1. SUFFICES ASSUME NEW i \in DOMAIN q, q[i].src = s, q[i].kind = k,
                        \A j \in DOMAIN q : j > i => q[j].src # s
                 PROVE  LastIs(t, s, k) \/ (~Queued(t, s) /\ s = h.src /\ k = h.kind)
    BY DEF LastIs
  <2>2. CASE i = 1
    <3>1. ASSUME NEW j \in DOMAIN t PROVE t[j].src # s
      <4>1. j + 1 \in DOMAIN q /\ j + 1 > 1
        BY <1>1, <1>3
      <4>2. QED
        BY <1>2, <2>1, <2>2, <4>1
    <3>2. QED
      BY <1>1, <2>1, <2>2, <3>1 DEF Queued
  <2>3. CASE i # 1
    <3>1. i - 1 \in DOMAIN t /\ t[i - 1] = q[i]
      BY <1>4, <2>3
    <3>2. ASSUME NEW j \in DOMAIN t, j > i - 1 PROVE t[j].src # s
      <4>1. j + 1 \in DOMAIN q /\ j + 1 > i
        BY <1>1, <1>3, <3>2
      <4>2. QED
        BY <1>2, <2>1, <4>1
    <3>3. QED
      BY <2>1, <3>1, <3>2 DEF LastIs
  <2>4. QED
    BY <2>2, <2>3
<1>8. LastIs(t, s, k) => Queued(t, s)
  BY DEF LastIs, Queued
<1>9. s = h.src /\ ~Queued(t, s) /\ k = h.kind => LastIs(q, s, k)
  <2>1. SUFFICES ASSUME s = h.src, ~Queued(t, s), k = h.kind PROVE LastIs(q, s, k)
    OBVIOUS
  <2>2. ASSUME NEW j \in DOMAIN q, j > 1 PROVE q[j].src # s
    <3>1. j - 1 \in DOMAIN t /\ t[j - 1] = q[j]
      BY <1>1, <1>4, <2>2
    <3>2. QED
      BY <2>1, <3>1 DEF Queued
  <2>3. QED
    BY <1>1, <2>1, <2>2 DEF LastIs
<1>10. QED
  BY <1>5, <1>6, <1>7, <1>8, <1>9 DEF t, h

(* Something queued has a last hint: the queue is finite.                  *)
LEMMA LastHint ==
  ASSUME NEW q \in Seq(Hint), NEW s, Queued(q, s)
  PROVE  LastIs(q, s, "add") \/ LastIs(q, s, "remove")
<1> DEFINE R == {ss \in Nat \X Nat : ss[1] < ss[2]}
           T == {Len(q) - i : i \in {j \in DOMAIN q : q[j].src = s}}
<1>1. DOMAIN q = 1..Len(q) /\ Len(q) \in Nat
  OBVIOUS
<1>2. T \subseteq Nat /\ T # {}
  BY <1>1 DEF Queued
<1>3. IsWellFoundedOn(R, Nat)
  BY NatLessThanWellFounded DEF OpToRel
<1> HIDE DEF R
<1>4. PICK x \in T : \A y \in T : <<y, x>> \notin R
  BY <1>2, <1>3, WFMin
<1>5. \A y \in T : ~(y < x)
  BY <1>2, <1>4 DEF R
<1>6. PICK n \in DOMAIN q : q[n].src = s /\ x = Len(q) - n
  BY <1>4
<1>7. ASSUME NEW j \in DOMAIN q, j > n PROVE q[j].src # s
  <2>1. j \in Int /\ n \in Int /\ Len(q) - j < Len(q) - n
    BY <1>1, <1>7
  <2>2. Len(q) - j \notin T
    BY <1>5, <1>6, <2>1
  <2>3. QED
    BY <2>2
<1>8. q[n] \in Hint
  OBVIOUS
<1>9. QED
  BY <1>6, <1>7, <1>8 DEF LastIs, Hint

-----------------------------------------------------------------------------
(* Where the row is heading.                                               *)
LEMMA WillStays ==
  ASSUME NEW s, row'[s] = row[s], Sent(s)' = Sent(s), \A q \in Sent(s) : req'[q] = req[q]
  PROVE  WillBeOn(s)' <=> WillBeOn(s)
<1>1. Deleting(s)' <=> Deleting(s)
  BY DEF Deleting
<1>2. Writing(s)' = Writing(s)
  BY DEF Writing
<1>3. \A q \in Writing(s) : req'[q] = req[q]
  BY DEF Writing
<1>4. QED
  BY <1>1, <1>2, <1>3 DEF WillBeOn

(* A request that has not published, and does not publish, leaves it; so   *)
(* does one of another source.                                             *)
LEMMA UnsentKeepsWill ==
  ASSUME NEW s, NEW r \in Requests, row'[s] = row[s],
         \A q \in Requests : q # r => req'[q] = req[q], r \notin Sent(s), r \notin Sent(s)'
  PROVE  WillBeOn(s)' <=> WillBeOn(s)
<1>1. ASSUME NEW q \in Requests PROVE q \in Sent(s)' <=> q \in Sent(s)
  <2>1. CASE q = r
    BY <2>1
  <2>2. CASE q # r
    <3>1. req'[q] = req[q]
      BY <2>2
    <3>2. QED
      BY <3>1 DEF Sent
  <2>3. QED
    BY <2>1, <2>2
<1>2. Sent(s) \subseteq Requests /\ Sent(s)' \subseteq Requests
  BY DEF Sent
<1>3. Sent(s)' = Sent(s)
  BY <1>1, <1>2
<1>4. \A q \in Sent(s) : req'[q] = req[q]
  BY <1>2
<1>5. QED
  BY <1>3, <1>4, WillStays

LEMMA QuietKeepsWill ==
  ASSUME TypeOK, Ownership, NEW r \in Requests, NEW s \in Sources \ disturbed',
         RequestBegin(r) \/ UpdateFlush(r) \/ RequestSilent(r) \/ RequestFail(r)
  PROVE  WillBeOn(s)' <=> WillBeOn(s)
<1>1. /\ row'[s] = row[s] /\ \A q \in Requests : q # r => req'[q] = req[q]
      /\ r \notin Sent(s) /\ r \notin Sent(s)'
  <2>1. CASE RequestBegin(r)
    <3>1. row' = row /\ req[r].at = "new"
      BY <2>1 DEF RequestBegin, CreateBegin, ReadRow
    <3>2. req'[r].at # "published" /\ \A q \in Requests : q # r => req'[q] = req[q]
      <4>1. ASSUME NEW t \in Sources, NEW w, CreateBegin(r, t, w)
            PROVE  req'[r].at # "published" /\ \A q \in Requests : q # r => req'[q] = req[q]
        BY <4>1 DEF CreateBegin, TypeOK
      <4>2. ASSUME NEW t \in Sources, NEW op, NEW w, ReadRow(r, t, op, w)
            PROVE  req'[r].at # "published" /\ \A q \in Requests : q # r => req'[q] = req[q]
        BY <4>2 DEF ReadRow, TypeOK
      <4>3. QED
        BY <2>1, <4>1, <4>2 DEF RequestBegin
    <3>3. QED
      BY <3>1, <3>2 DEF Sent
  <2>2. CASE UpdateFlush(r)
    <3>1. row' = row /\ req[r].at = "read"
      BY <2>2 DEF UpdateFlush
    <3>2. req'[r].at # "published" /\ \A q \in Requests : q # r => req'[q] = req[q]
      BY <2>2 DEF UpdateFlush, End, TypeOK
    <3>3. QED
      BY <3>1, <3>2 DEF Sent
  <2>3. CASE RequestSilent(r)
    <3>1. /\ row' = row /\ req[r].at = "flushed" /\ ~Publishes(req[r])
          /\ req' = [req EXCEPT ![r].at = "published"]
      BY <2>3 DEF RequestSilent
    <3>2. /\ \A q \in Requests : q # r => req'[q] = req[q]
          /\ req'[r].op = req[r].op /\ req'[r].value = req[r].value /\ req'[r].seen = req[r].seen
      BY <3>1 DEF TypeOK
    <3>3. ~Publishes(req'[r])
      BY <3>1, <3>2 DEF Publishes
    <3>4. QED
      BY <3>1, <3>2, <3>3 DEF Sent
  <2>4. CASE RequestFail(r)
    <3>1. row' = row /\ req'[r].at = "done" /\ \A q \in Requests : q # r => req'[q] = req[q]
      BY <2>4 DEF RequestFail, End, TypeOK
    <3>2. r \in Sent(req[r].src) => req[r].src \in disturbed'
      BY <2>4 DEF RequestFail
    <3>3. r \in Sent(s) => req[r].src = s
      BY DEF Sent
    <3>4. QED
      BY <3>1, <3>2, <3>3 DEF Sent
  <2>5. QED
    BY <2>1, <2>2, <2>3, <2>4
<1>2. QED
  BY <1>1, UnsentKeepsWill

(* A commit makes of the row what was announced.                           *)
LEMMA CommitKeepsWill ==
  ASSUME TypeOK, Ownership, Carrying, NEW r \in Requests, NEW s \in Sources, RequestCommit(r)
  PROVE  WillBeOn(s)' <=> WillBeOn(s)
<1>1. req[r].src \in Sources /\ Exclusive(r) /\ Carries(r) /\ req[r].at = "published"
  BY DEF RequestCommit, Ownership, Owns, Carrying
<1>2. /\ row' = [row EXCEPT ![req[r].src] = Outcome(req[r])] /\ req'[r].at = "done"
      /\ \A q \in Requests : q # r => req'[q] = req[q]
  BY DEF RequestCommit, End, TypeOK
<1>3. r \notin Sent(s)'
  BY <1>2 DEF Sent
<1>4. CASE req[r].src # s
  <2>1. row'[s] = row[s] /\ r \notin Sent(s)
    BY <1>2, <1>4 DEF TypeOK, Sent
  <2>2. QED
    BY <1>2, <1>3, <2>1, UnsentKeepsWill
<1>5. CASE req[r].src = s
  <2>1. row'[s] = Outcome(req[r])
    BY <1>2, <1>5 DEF TypeOK
  <2>2. ASSUME NEW q \in Requests, q # r PROVE q \in Sent(s)' <=> q \in Sent(s)
    <3>1. req'[q] = req[q]
      BY <1>2, <2>2
    <3>2. QED
      BY <3>1 DEF Sent
  <2>3. \A q \in Sent(s)' : q \in Requests /\ q # r /\ q \in Sent(s) /\ req'[q] = req[q]
    BY <1>2, <1>3, <2>2 DEF Sent
  <2>4. \A q \in Sent(s) : q \in Requests /\ req[q].src = s /\ InHand(q) /\ (q # r => q \in Sent(s)')
    BY <2>2 DEF Sent, InHand
  <2>5. CASE req[r].op = "create"
    <3>1. Sent(s)' = {}
      BY <1>1, <1>5, <2>3, <2>4, <2>5 DEF Exclusive
    <3>2. Sent(s) = {r}
      BY <1>1, <1>5, <2>5, <3>1, <2>4 DEF Sent, Publishes
    <3>3. WillBeOn(s) <=> req[r].value = "on"
      BY <2>5, <3>2 DEF WillBeOn, Deleting, Writing
    <3>4. WillBeOn(s)' <=> row'[s] = "on"
      BY <3>1 DEF WillBeOn, Deleting, Writing
    <3>5. row'[s] = req[r].value
      BY <1>1, <2>1, <2>5 DEF Outcome, Carries, InHand
    <3>6. QED
      BY <3>3, <3>4, <3>5
  <2>6. CASE req[r].op = "delete"
    <3>1. r \in Sent(s)
      BY <1>1, <1>5, <2>6 DEF Sent, Publishes
    <3>2. ~WillBeOn(s)
      BY <2>6, <3>1 DEF WillBeOn, Deleting
    <3>3. row'[s] = "gone"
      BY <2>1, <2>6 DEF Outcome
    <3>4. \A q \in Sent(s)' : req'[q].op # "create" /\ ~Writes(req'[q])
      <4>1. \A q \in Sent(s) : q # r => req[q].op # "create"
        BY <1>5, <2>4 DEF Ownership, Exclusive, InHand
      <4>2. \A q \in Sent(s) : ~Writes(req[q])
        BY <1>5, <2>4, <2>6 DEF RequestCommit, Locked, InHand
      <4>3. QED
        BY <2>3, <4>1, <4>2
    <3>5. Writing(s)' = {}
      BY <3>4 DEF Writing
    <3>6. QED
      BY <3>2, <3>3, <3>5 DEF WillBeOn
  <2>7. CASE req[r].op = "update" /\ Writes(req[r]) /\ Publishes(req[r])
    <3>1. r \in Sent(s)
      BY <1>1, <1>5, <2>7 DEF Sent
    <3>2. \A q \in Sent(s) : q # r => req[q].op # "create" /\ ~Writes(req[q])
      <4>1. \A q \in Sent(s) : q # r => req[q].op # "create"
        BY <1>5, <2>4 DEF Ownership, Exclusive, InHand
      <4>2. \A q \in Sent(s) : q # r => ~Writes(req[q])
        BY <1>1, <1>5, <2>4, <2>7, <3>1 DEF Carries
      <4>3. QED
        BY <4>1, <4>2
    <3>3. Writing(s) = {r}
      BY <2>7, <3>1, <3>2 DEF Writing
    <3>4. Writing(s)' = {}
      BY <2>3, <3>2 DEF Writing
    <3>5. Deleting(s)' <=> Deleting(s)
      BY <2>3, <2>4, <2>7 DEF Deleting
    <3>6. row'[s] = req[r].value
      BY <1>1, <1>5, <2>1, <2>7 DEF Outcome, Carries, InHand
    <3>7. QED
      BY <3>3, <3>4, <3>5, <3>6 DEF WillBeOn
  <2>8. CASE req[r].op = "update" /\ ~(Writes(req[r]) /\ Publishes(req[r]))
    <3>1. Writes(req[r]) => req[r].want = "keep"
      BY <1>1, <2>8 DEF Carries, InHand, Publishes, Writes
    <3>2. row'[s] = row[s]
      BY <1>5, <2>1, <2>8, <3>1 DEF Outcome
    <3>3. Writing(s)' = Writing(s)
      <4>1. r \notin Writing(s)
        BY <2>8 DEF Writing, Sent
      <4>2. QED
        BY <2>3, <2>4, <4>1 DEF Writing
    <3>4. Deleting(s)' <=> Deleting(s)
      BY <2>3, <2>4, <2>8 DEF Deleting
    <3>5. \A q \in Writing(s)' : req'[q] = req[q]
      BY <2>3 DEF Writing
    <3>6. QED
      BY <3>2, <3>3, <3>4, <3>5 DEF WillBeOn
  <2>9. QED
    BY <1>1, <2>5, <2>6, <2>7, <2>8 DEF Carries
<1>6. QED
  BY <1>4, <1>5

(* An undisturbed publication says what the row will be.                   *)
LEMMA PublishSays ==
  ASSUME TypeOK, Ownership, Carrying, NEW r \in Requests, RequestPublish(r), worker # "down",
         NEW s \in Sources \ disturbed', req[r].src = s
  PROVE  /\ listener = "on"
         /\ WillBeOn(s)' <=> KindOf(req[r]) = "add"
         /\ req[r].op = "create" => ~WillBeOn(s)
<1>1. ~Disturbs(r)
  BY DEF RequestPublish
<1>2. /\ listener = "on" /\ (req[r].op = "update" => Writes(req[r]))
      /\ \A p \in Sent(s) : req[p].op # "delete"
  BY <1>1 DEF Disturbs
<1>3. /\ row' = row /\ req' = [req EXCEPT ![r].at = "published"] /\ Publishes(req[r])
      /\ req[r].at = IF req[r].op = "delete" THEN "read" ELSE "flushed"
  BY DEF RequestPublish
<1>4. /\ \A q \in Requests : q # r => req'[q] = req[q]
      /\ req'[r].at = "published" /\ req'[r].src = s /\ req'[r].op = req[r].op
      /\ req'[r].want = req[r].want /\ req'[r].seen = req[r].seen /\ req'[r].value = req[r].value
  BY <1>3 DEF TypeOK
<1>5. Publishes(req'[r]) /\ (Writes(req'[r]) <=> Writes(req[r]))
  BY <1>3, <1>4 DEF Publishes, Writes
<1>6. r \in Sent(s)'
  BY <1>4, <1>5 DEF Sent
<1>7. \A q \in Sent(s)' : q # r => q \in Sent(s) /\ req'[q] = req[q]
  BY <1>4 DEF Sent
<1>8. \A q \in Sent(s) : q \in Requests /\ req[q].src = s /\ InHand(q)
  BY DEF Sent, InHand
<1>9. Carries(r) /\ Exclusive(r)
  BY DEF Carrying, Ownership
<1>10. CASE req[r].op = "delete"
  BY <1>2, <1>4, <1>6, <1>10 DEF WillBeOn, Deleting, KindOf
<1>11. CASE req[r].op \in {"create", "update"}
  <2>1. InHand(r) /\ (KindOf(req[r]) = "add" <=> req[r].value = "on")
    BY <1>3, <1>11 DEF InHand, KindOf
  <2>2. \A q \in Sent(s) : q # r => req[q].op # "create" /\ ~Writes(req[q])
    <3>1. CASE req[r].op = "create"
      BY <1>8, <1>9, <2>1, <3>1 DEF Exclusive, InHand
    <3>2. CASE req[r].op = "update"
      BY <1>2, <1>8, <1>9, <2>1, <3>2 DEF Ownership, Exclusive, InHand, Carries
    <3>3. QED
      BY <1>11, <3>1, <3>2
  <2>3. Writing(s)' = {r}
    BY <1>2, <1>4, <1>5, <1>6, <1>7, <1>11, <2>2 DEF Writing
  <2>4. ~Deleting(s)'
    BY <1>2, <1>4, <1>7, <1>11 DEF Deleting
  <2>5. WillBeOn(s)' <=> req[r].value = "on"
    BY <1>4, <2>3, <2>4 DEF WillBeOn
  <2>6. ASSUME req[r].op = "create" PROVE ~WillBeOn(s)
    <3>1. row[s] = "absent" /\ \A q \in Requests : q # r => req[q].src # s
      BY <1>9, <2>1, <2>6 DEF Exclusive, InHand
    <3>2. r \notin Sent(s)
      BY <1>3, <2>6 DEF Sent
    <3>3. Sent(s) = {}
      BY <1>8, <3>1, <3>2
    <3>4. QED
      BY <3>1, <3>3 DEF WillBeOn, Writing
  <2>7. QED
    BY <1>2, <2>1, <2>5, <2>6
<1>12. QED
  BY <1>3, <1>9, <1>10, <1>11 DEF Carries

-----------------------------------------------------------------------------
(* A worker that is down remembers nothing.                                *)
LEMMA AsleepStep == TypeOK /\ Asleep /\ [Next]_vars => Asleep'
<1> SUFFICES ASSUME TypeOK, Asleep, [Next]_vars PROVE Asleep'
  OBVIOUS
<1> USE DEF Asleep
<1>1. ASSUME NEW r \in Requests, RequestPublish(r) PROVE Asleep'
  BY <1>1 DEF RequestPublish, workerVars
<1>2. ASSUME NEW r \in Requests,
             RequestBegin(r) \/ UpdateFlush(r) \/ RequestSilent(r) \/ RequestCommit(r) \/ RequestFail(r)
      PROVE Asleep'
  <2>1. UNCHANGED <<workerVars, inbox>>
    BY <1>2 DEF RequestBegin, CreateBegin, ReadRow, UpdateFlush, RequestSilent, RequestCommit, RequestFail
  <2>2. QED
    BY <2>1 DEF workerVars
<1>3. CASE WorkerStep \/ WorkerCrash
  BY <1>3 DEF WorkerStep, WorkerStart, WorkerProceeds, WorkerSnapshot, WorkerSchedule, WorkerCrash
<1>4. CASE ListenerStep \/ ListenerDies
  BY <1>4 DEF ListenerStep, ListenerSubscribes, HandleRemove, HandleAdd, AddSourceJob, ListenerDies, Listening
<1>5. CASE RedisFails \/ RedisRecovers
  BY <1>5 DEF RedisFails, RedisRecovers, workerVars
<1>6. CASE UNCHANGED vars
  BY <1>6 DEF vars, workerVars
<1>7. QED
  BY <1>1, <1>2, <1>3, <1>4, <1>5, <1>6 DEF Next, RequestStep

(* A step that changes neither the belief nor the outcome.                 *)
LEMMA StillAgrees ==
  ASSUME NEW s, Agrees(s), BelievesOn(s)' <=> BelievesOn(s), WillBeOn(s)' <=> WillBeOn(s),
         LastIs(inbox', s, "remove") => LastIs(inbox, s, "remove"),
         \/ worker' = worker
         \/ worker = "subscribing" /\ worker' = "subscribed"
         \/ worker = "scheduling" /\ worker' = "running"
  PROVE  Agrees(s)'
BY DEF Agrees

(* A step of the worker's: requests and rows stay.                         *)
LEMMA WorkerAgrees ==
  ASSUME TypeOK, Asleep, Agreement, NEW s \in Sources \ disturbed', row' = row, req' = req,
         WorkerStep \/ WorkerCrash
  PROVE  Agrees(s)'
<1>1. Sent(s)' = Sent(s)
  BY DEF Sent
<1>2. WillBeOn(s)' <=> WillBeOn(s)
  BY <1>1, WillStays
<1>3. CASE WorkerStart
  <2>1. /\ worker = "down" /\ worker' = "subscribing" /\ inbox' = <<>> /\ hint' = NoSource /\ jobs' = {}
    BY <1>3 DEF WorkerStart, Asleep
  <2>2. ~Queued(inbox', s) /\ ~LastIs(inbox', s, "add") /\ ~LastIs(inbox', s, "remove")
    BY <2>1 DEF Queued, LastIs
  <2>3. ~BelievesOn(s)'
    BY <2>1, <2>2, WorkerAssumption DEF BelievesOn, Believed
  <2>4. QED
    BY <2>1, <2>2, <2>3 DEF Agrees
<1>4. CASE WorkerProceeds
  <2>1. /\ worker = "subscribing" /\ worker' = "subscribed" /\ UNCHANGED <<inbox, hint, jobs, disturbed>>
    BY <1>4 DEF WorkerProceeds, history
  <2>2. BelievesOn(s)' <=> BelievesOn(s)
    BY <2>1 DEF BelievesOn, Believed
  <2>3. Agrees(s)
    BY <2>1 DEF Agreement
  <2>4. QED
    BY <1>2, <2>1, <2>2, <2>3, StillAgrees
<1>5. CASE WorkerSnapshot
  <2>1. /\ worker = "subscribed" /\ worker' = "scheduling" /\ UNCHANGED <<inbox, hint, jobs>>
        /\ snap' = {t \in Sources : row[t] = "on"} /\ Sent(s) = {} /\ s \notin disturbed
    BY <1>5 DEF WorkerSnapshot
  <2>2. WillBeOn(s) <=> row[s] = "on"
    BY <2>1 DEF WillBeOn, Deleting, Writing
  <2>3. (BelievesOn(s) => WillBeOn(s)) /\ (LastIs(inbox, s, "remove") => ~WillBeOn(s))
    BY <2>1 DEF Agreement, Agrees
  <2>4. Queued(inbox, s) => LastIs(inbox, s, "add") \/ LastIs(inbox, s, "remove")
    BY LastHint DEF TypeOK
  <2>5. BelievesOn(s)' <=> LastIs(inbox, s, "add") \/ (~Queued(inbox, s) /\ (hint = s \/ s \in jobs \/ row[s] = "on"))
    BY <2>1 DEF BelievesOn, Believed
  <2>6. BelievesOn(s) <=> LastIs(inbox, s, "add") \/ (~Queued(inbox, s) /\ (hint = s \/ s \in jobs))
    BY <2>1 DEF BelievesOn, Believed
  <2>7. BelievesOn(s)' <=> WillBeOn(s)
    BY <2>2, <2>3, <2>4, <2>5, <2>6
  <2>8. QED
    BY <1>2, <2>1, <2>7 DEF Agrees
<1>6. CASE WorkerSchedule
  <2>1. /\ worker = "scheduling" /\ worker' = "running" /\ UNCHANGED <<inbox, hint, disturbed>>
        /\ jobs' = jobs \cup snap
    BY <1>6 DEF WorkerSchedule, history
  <2>2. BelievesOn(s)' <=> BelievesOn(s)
    BY <2>1 DEF BelievesOn, Believed
  <2>3. Agrees(s)
    BY <2>1 DEF Agreement
  <2>4. QED
    BY <1>2, <2>1, <2>2, <2>3, StillAgrees
<1>7. CASE WorkerCrash
  BY <1>7 DEF WorkerCrash, Agrees
<1>8. QED
  BY <1>3, <1>4, <1>5, <1>6, <1>7 DEF WorkerStep

(* A step of the listener's: a hint moves from the queue to the jobs.      *)
LEMMA ListenerAgrees ==
  ASSUME TypeOK, Agreement, NEW s \in Sources \ disturbed', row' = row, req' = req, worker' = worker,
         ListenerStep \/ ListenerDies
  PROVE  Agrees(s)'
<1>1. Sent(s)' = Sent(s)
  BY DEF Sent
<1>2. WillBeOn(s)' <=> WillBeOn(s)
  BY <1>1, WillStays
<1>3. Agrees(s)
  BY DEF Agreement, ListenerStep, ListenerSubscribes, HandleRemove, HandleAdd, AddSourceJob, ListenerDies, history
<1> SUFFICES /\ BelievesOn(s)' <=> BelievesOn(s)
             /\ LastIs(inbox', s, "remove") => LastIs(inbox, s, "remove")
  BY <1>2, <1>3, StillAgrees
<1>4. CASE ListenerSubscribes
  BY <1>4 DEF ListenerSubscribes, BelievesOn, Believed
<1>5. CASE HandleRemove
  <2>1. /\ inbox # <<>> /\ Head(inbox).kind = "remove" /\ hint = NoSource /\ inbox' = Tail(inbox)
        /\ jobs' = jobs \ {Head(inbox).src} /\ UNCHANGED <<hint, snap>>
        /\ s = Head(inbox).src => ~(worker = "scheduling" /\ s \in snap)
    BY <1>5 DEF HandleRemove, Listening
  <2>2. inbox \in Seq(Hint) /\ s # NoSource
    BY WorkerAssumption DEF TypeOK
  <2>3. CASE s # Head(inbox).src \/ Queued(Tail(inbox), s)
    <3>1. /\ Queued(inbox', s) <=> Queued(inbox, s)
          /\ \A k : LastIs(inbox', s, k) <=> LastIs(inbox, s, k)
      BY <2>1, <2>2, <2>3, Taken
    <3>2. s # Head(inbox).src => (Believed(s)' <=> Believed(s))
      BY <2>1 DEF Believed
    <3>3. Queued(inbox, s) \/ s # Head(inbox).src
      BY <2>1, <2>3, <3>1
    <3>4. QED
      BY <3>1, <3>2, <3>3 DEF BelievesOn
  <2>4. CASE s = Head(inbox).src /\ ~Queued(Tail(inbox), s)
    <3>1. /\ Queued(inbox, s) /\ ~LastIs(inbox', s, "remove") /\ ~LastIs(inbox', s, "add")
          /\ ~LastIs(inbox, s, "add")
      BY <2>1, <2>2, <2>4, Taken
    <3>2. ~Believed(s)'
      BY <2>1, <2>2, <2>4 DEF Believed
    <3>3. QED
      BY <3>1, <3>2 DEF BelievesOn
  <2>5. QED
    BY <2>3, <2>4
<1>6. CASE HandleAdd
  <2>1. /\ inbox # <<>> /\ Head(inbox).kind = "add" /\ hint = NoSource /\ inbox' = Tail(inbox)
        /\ hint' = Head(inbox).src /\ UNCHANGED <<jobs, snap>>
    BY <1>6 DEF HandleAdd, Listening
  <2>2. inbox \in Seq(Hint) /\ s # NoSource
    BY WorkerAssumption DEF TypeOK
  <2>3. CASE s # Head(inbox).src \/ Queued(Tail(inbox), s)
    <3>1. /\ Queued(inbox', s) <=> Queued(inbox, s)
          /\ \A k : LastIs(inbox', s, k) <=> LastIs(inbox, s, k)
      BY <2>1, <2>2, <2>3, Taken
    <3>2. s # Head(inbox).src => (Believed(s)' <=> Believed(s))
      BY <2>1, <2>2 DEF Believed
    <3>3. Queued(inbox, s) \/ s # Head(inbox).src
      BY <2>1, <2>3, <3>1
    <3>4. QED
      BY <3>1, <3>2, <3>3 DEF BelievesOn
  <2>4. CASE s = Head(inbox).src /\ ~Queued(Tail(inbox), s)
    <3>1. ~LastIs(inbox', s, "remove") /\ LastIs(inbox, s, "add")
      BY <2>1, <2>2, <2>4, Taken
    <3>2. Believed(s)' /\ ~Queued(inbox', s)
      BY <2>1, <2>4 DEF Believed
    <3>3. QED
      BY <3>1, <3>2 DEF BelievesOn
  <2>5. QED
    BY <2>3, <2>4
<1>7. CASE AddSourceJob
  <2>1. inbox' = inbox /\ hint # NoSource /\ hint' = NoSource /\ jobs' = jobs \cup {hint} /\ snap' = snap
    BY <1>7 DEF AddSourceJob
  <2>2. Believed(s)' <=> Believed(s)
    BY <2>1, WorkerAssumption DEF Believed
  <2>3. QED
    BY <2>1, <2>2 DEF BelievesOn
<1>8. CASE ListenerDies
  <2>1. inbox' = <<>> /\ UNCHANGED <<hint, jobs, snap>> /\ ~Queued(inbox, s)
    BY <1>8 DEF ListenerDies, Queued
  <2>2. ~Queued(inbox', s) /\ \A k : ~LastIs(inbox', s, k) /\ ~LastIs(inbox, s, k)
    BY <2>1 DEF Queued, LastIs
  <2>3. Believed(s)' <=> Believed(s)
    BY <2>1 DEF Believed
  <2>4. QED
    BY <2>1, <2>2, <2>3 DEF BelievesOn
<1>9. QED
  BY <1>4, <1>5, <1>6, <1>7, <1>8 DEF ListenerStep

(* A request's step: only a publication changes what the worker believes.  *)
LEMMA RequestAgrees ==
  ASSUME TypeOK, Ownership, Carrying, Asleep, Agreement, NEW s \in Sources \ disturbed',
         NEW r \in Requests, RequestBegin(r) \/ RequestStep(r)
  PROVE  Agrees(s)'
<1>1. /\ UNCHANGED workerVars /\ s \notin disturbed
  BY DEF RequestBegin, CreateBegin, ReadRow, RequestStep, UpdateFlush, RequestPublish, RequestSilent,
         RequestCommit, RequestFail, history
<1>2. /\ UNCHANGED <<worker, listener, hint, snap, jobs>> /\ Agrees(s)
  BY <1>1 DEF workerVars, Agreement
<1>3. Believed(s)' <=> Believed(s)
  BY <1>2 DEF Believed
<1>4. CASE ~RequestPublish(r)
  <2>1. inbox' = inbox
    BY <1>4 DEF RequestBegin, CreateBegin, ReadRow, RequestStep, UpdateFlush, RequestSilent,
                RequestCommit, RequestFail
  <2>2. WillBeOn(s)' <=> WillBeOn(s)
    BY <1>4, CommitKeepsWill, QuietKeepsWill DEF RequestStep
  <2>3. QED
    BY <1>2, <1>3, <2>1, <2>2, StillAgrees DEF BelievesOn
<1>5. CASE RequestPublish(r) /\ worker = "down"
  BY <1>2, <1>5 DEF Agrees
<1>6. CASE RequestPublish(r) /\ worker # "down"
  <2> DEFINE h == [src |-> req[r].src, kind |-> KindOf(req[r])]
             matters == req[r].op # "create" \/ req[r].value = "on"
  <2>1. /\ row' = row /\ req' = [req EXCEPT ![r].at = "published"]
        /\ inbox' = IF listener = "on" /\ matters THEN Append(inbox, h) ELSE inbox
    BY <1>6 DEF RequestPublish
  <2>2. inbox \in Seq(Hint) /\ h \in Hint
    BY <1>6 DEF TypeOK, Ownership, Owns, RequestPublish, Hint, KindOf
  <2>3. CASE req[r].src # s
    <3>1. /\ Queued(inbox', s) <=> Queued(inbox, s)
          /\ \A k : LastIs(inbox', s, k) <=> LastIs(inbox, s, k)
      <4>1. /\ Queued(Append(inbox, h), s) <=> Queued(inbox, s)
            /\ \A k : LastIs(Append(inbox, h), s, k) <=> LastIs(inbox, s, k)
        BY <2>2, <2>3, Appended
      <4>2. inbox' = inbox \/ inbox' = Append(inbox, h)
        BY <2>1
      <4> HIDE DEF h
      <4>3. QED
        BY <4>1, <4>2
    <3>2. WillBeOn(s)' <=> WillBeOn(s)
      <4>1. req'[r].src = req[r].src /\ \A q \in Requests : q # r => req'[q] = req[q]
        BY <2>1 DEF TypeOK
      <4>2. r \notin Sent(s) /\ r \notin Sent(s)'
        BY <2>3, <4>1 DEF Sent
      <4>3. QED
        BY <2>1, <4>1, <4>2, UnsentKeepsWill
    <3>3. QED
      BY <1>2, <1>3, <3>1, <3>2, StillAgrees DEF BelievesOn
  <2>4. CASE req[r].src = s
    <3>1. /\ listener = "on" /\ (WillBeOn(s)' <=> KindOf(req[r]) = "add")
          /\ req[r].op = "create" => ~WillBeOn(s)
      BY <1>6, <2>4, PublishSays
    <3>2. CASE matters
      <4>1. Queued(inbox', s) /\ \A k : LastIs(inbox', s, k) <=> k = KindOf(req[r])
        BY <2>1, <2>2, <2>4, <3>1, <3>2, Appended
      <4>2. BelievesOn(s)' <=> KindOf(req[r]) = "add"
        BY <4>1 DEF BelievesOn
      <4>3. QED
        BY <3>1, <4>1, <4>2 DEF Agrees
    <3>3. CASE ~matters
      <4>1. ~WillBeOn(s) /\ ~WillBeOn(s)' /\ inbox' = inbox
        BY <2>1, <3>1, <3>3 DEF KindOf
      <4>2. QED
        BY <1>2, <1>3, <4>1, StillAgrees DEF BelievesOn
    <3>4. QED
      BY <3>2, <3>3
  <2>5. QED
    BY <2>3, <2>4
<1>7. QED
  BY <1>4, <1>5, <1>6

LEMMA AgreementStep ==
  TypeOK /\ Ownership /\ Carrying /\ Asleep /\ Agreement /\ [Next]_vars => Agreement'
<1> SUFFICES ASSUME TypeOK, Ownership, Carrying, Asleep, Agreement, [Next]_vars,
                    NEW s \in Sources \ disturbed'
             PROVE  Agrees(s)'
  BY DEF Agreement
<1>1. ASSUME NEW r \in Requests, RequestBegin(r) \/ RequestStep(r) PROVE Agrees(s)'
  BY <1>1, RequestAgrees
<1>2. CASE WorkerStep \/ WorkerCrash
  <2>1. row' = row /\ req' = req
    BY <1>2 DEF WorkerStep, WorkerStart, WorkerProceeds, WorkerSnapshot, WorkerSchedule, WorkerCrash, apiVars
  <2>2. QED
    BY <1>2, <2>1, WorkerAgrees
<1>3. CASE ListenerStep \/ ListenerDies
  <2>1. row' = row /\ req' = req /\ worker' = worker
    BY <1>3 DEF ListenerStep, ListenerSubscribes, HandleRemove, HandleAdd, AddSourceJob, ListenerDies, apiVars
  <2>2. QED
    BY <1>3, <2>1, ListenerAgrees
<1>4. CASE RedisFails \/ RedisRecovers \/ UNCHANGED vars
  <2>1. UNCHANGED <<row, req, worker, inbox, hint, snap, jobs, disturbed>>
    BY <1>4 DEF RedisFails, RedisRecovers, vars, apiVars, workerVars, history
  <2>2. Sent(s)' = Sent(s) /\ Agrees(s)
    BY <2>1 DEF Sent, Agreement
  <2>3. WillBeOn(s)' <=> WillBeOn(s)
    BY <2>1, <2>2, WillStays
  <2>4. BelievesOn(s)' <=> BelievesOn(s)
    BY <2>1 DEF BelievesOn, Believed
  <2>5. QED
    BY <2>1, <2>2, <2>3, <2>4, StillAgrees
<1>5. QED
  BY <1>1, <1>2, <1>3, <1>4 DEF Next

LEMMA Agreed == Spec => [](TypeOK /\ Ownership /\ Carrying /\ Asleep /\ Agreement)
<1>1. Init => Carrying /\ Asleep /\ Agreement
  <2>1. Init => Carrying
    BY DEF Init, Idle, Carrying, Carries, InHand
  <2>2. Init => Asleep /\ Agreement
    BY DEF Init, Asleep, Agreement, Agrees
  <2>3. QED
    BY <2>1, <2>2
<1>2. TypeOK /\ Ownership /\ Carrying /\ Asleep /\ Agreement /\ [Next]_vars => (Carrying /\ Asleep /\ Agreement)'
  BY CarryingStep, AsleepStep, AgreementStep
<1>3. QED
  BY <1>1, <1>2, TypedAndOwned, PTL DEF Spec

(* A worker that runs has a job for exactly the active sources, whenever   *)
(* nothing about a source is under way: every hint lost before a restart   *)
(* is made good by the snapshot, and every later change by its hint, in    *)
(* the order of the commits.                                               *)
THEOREM WorkerSettles == Spec => []SettledInSync
<1>1. Agreement => SettledInSync
  <2> SUFFICES ASSUME Agreement, NEW s \in Sources \ disturbed, worker = "running", ~InFlight(s), ~Pending(s)
               PROVE  InSync(s)
    BY DEF SettledInSync
  <2>1. Sent(s) = {}
    BY DEF InFlight, Sent
  <2>2. WillBeOn(s) <=> row[s] = "on"
    BY <2>1 DEF WillBeOn, Deleting, Writing
  <2>3. ~Queued(inbox, s) /\ ~LastIs(inbox, s, "add") /\ hint # s
    BY DEF Pending, Queued, LastIs
  <2>4. BelievesOn(s) <=> s \in jobs
    BY <2>3 DEF BelievesOn, Believed
  <2>5. QED
    BY <2>2, <2>4 DEF Agreement, Agrees, InSync
<1>2. QED
  BY <1>1, Agreed, PTL

=============================================================================
