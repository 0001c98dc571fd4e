----------------------- MODULE Authentication_proofs ------------------------
(* Safety of the logins, for any handlers, emails, identities and          *)
(* thresholds (Logins), and of the tokens of one browser, for any tabs,    *)
(* providers and token pairs (Sessions).                                   *)
EXTENDS Logins, Sessions, FiniteSetTheorems, TLAPS

AllEmails ==
  Emails \cup SsoEmails \cup {NoEmail, AdminEmail} \cup {Placeholder[i] : i \in Identities}

HandlerStages == {"idle", "verify", "incr", "expire", "lock", "clear", "upsert",
           "byEmail", "save", "refresh"}

RequestsTyped ==
  req \in [Handlers -> [at : HandlerStages, email : AllEmails,
                        identity : Identities \cup {<<>>}, user : Ids \cup {NoUser},
                        counter : Counters, count : Nat, known : BOOLEAN]]

CountersTyped == fails \in [Counters -> Nat]

-----------------------------------------------------------------------------
(* The kinds of users.                                                     *)

LocalIdentities == {<<Local, e>> : e \in AllEmails}

AdminRows ==
  [in : {"system"}, identity : LocalIdentities, email : AllEmails, role : {"admin"}]
MemberRows ==
  [in : {"default"}, identity : Identities, email : AllEmails, role : {"member"}]
UserRows == {Free} \cup AdminRows \cup MemberRows

LEMMA KindsOfIdentity ==
  /\ \A x \in LocalIdentities : x[1] = Local
  /\ \A x \in Identities : x[1] # Local
  BY LoginsAssumption DEF LocalIdentities

LEMMA KindsDiffer ==
  ASSUME NEW r \in UserRows
  PROVE  /\ r # Free => r \in AdminRows \/ r \in MemberRows
         /\ r \in AdminRows =>
              r.in = "system" /\ r.role = "admin" /\ r.identity[1] = Local
         /\ r \in MemberRows =>
              r.in = "default" /\ r.role = "member" /\ r.identity[1] # Local
<1>1. r # Free => r \in AdminRows \/ r \in MemberRows
  BY DEF UserRows
<1>2. ASSUME r \in AdminRows
      PROVE  r.in = "system" /\ r.role = "admin" /\ r.identity \in LocalIdentities
  BY <1>2 DEF AdminRows
<1>3. ASSUME r \in MemberRows
      PROVE  r.in = "default" /\ r.role = "member" /\ r.identity \in Identities
  BY <1>3 DEF MemberRows
<1> QED
  BY <1>1, <1>2, <1>3, KindsOfIdentity

LEMMA FreeIsNoUser ==
  /\ Free.identity = <<>> /\ Free.in = "none"
  /\ \A e : <<Local, e>> # <<>>
  /\ <<>> \notin Identities
  BY LoginsAssumption DEF Free

(* A request that has chosen a row holds one of its own kind.              *)
Chosen(h) ==
  /\ req[h].at \in {"clear", "upsert"} /\ req[h].user # NoUser =>
       users[req[h].user] \in AdminRows
  /\ req[h].at \in {"save", "refresh"} /\ req[h].user # NoUser =>
       users[req[h].user] \in MemberRows
  /\ req[h].at = "refresh" => req[h].user # NoUser
  /\ req[h].at \in {"byEmail", "save", "refresh"} => req[h].identity \in Identities
  /\ req[h].at = "verify" => req[h].email \in Emails

UsersInv ==
  /\ RequestsTyped /\ CountersTyped
  /\ users \in [Ids -> UserRows]
  /\ \A h \in Handlers : Chosen(h)

LEMMA SlotIsFree ==
  /\ Slot \in Ids \cup {NoUser}
  /\ Slot \in Ids => users[Slot] = Free
  BY DEF Slot, NoUser, Ids

(* Whatever a request saves keeps the kind of the row, or fills a free one.*)
LEMMA SaveKeeps ==
  ASSUME UsersInv, NEW h \in Handlers, NEW i \in Ids \cup {NoUser}, NEW row \in UserRows,
         i \in Ids => \/ users[i] = Free
                      \/ users[i] \in AdminRows /\ row \in AdminRows
                      \/ users[i] \in MemberRows /\ row \in MemberRows,
         Save(h, i, row)
  PROVE  UsersInv'
<1>1. req' = [req EXCEPT ![h] = Idle] /\ fails' = fails
  BY DEF Save, Put, counters
<1>2. Idle \in [at : HandlerStages, email : AllEmails,
                identity : Identities \cup {<<>>}, user : Ids \cup {NoUser},
                counter : Counters, count : Nat, known : BOOLEAN]
  BY DEF Idle, HandlerStages, AllEmails, NoEmail, Counters
<1>3. RequestsTyped' /\ CountersTyped'
  BY <1>1, <1>2 DEF UsersInv, RequestsTyped, CountersTyped
<1>4. users' = users \/ users' = [users EXCEPT ![i] = row]
  BY DEF Save
<1>5. users' \in [Ids -> UserRows]
  BY <1>4 DEF UsersInv
<1>6. ASSUME NEW j \in Ids
      PROVE  /\ users[j] \in AdminRows => users'[j] \in AdminRows
             /\ users[j] \in MemberRows => users'[j] \in MemberRows
  <2>1. Free \notin AdminRows /\ Free \notin MemberRows
    BY DEF Free, AdminRows, MemberRows
  <2>2. users[j] \in AdminRows => users[j] \notin MemberRows
    BY KindsDiffer DEF UsersInv
  <2>3. users \in [Ids -> UserRows]
    BY DEF UsersInv
  <2> QED
    BY <1>4, <2>1, <2>2, <2>3
<1>7. ASSUME NEW g \in Handlers PROVE Chosen(g)'
  <2>1. CASE g = h
    BY <1>1, <2>1 DEF Chosen, Idle, UsersInv, RequestsTyped
  <2>2. CASE g # h
    <3>1. req'[g] = req[g] /\ req[g].user \in Ids \cup {NoUser} /\ Chosen(g)
      BY <1>1, <2>2 DEF UsersInv, RequestsTyped
    <3> QED
      BY <1>6, <3>1 DEF Chosen
  <2> QED
    BY <2>1, <2>2
<1> QED
  BY <1>3, <1>5, <1>7 DEF UsersInv

(* A request that goes on, while the users stay.                           *)
LEMMA GoKeeps ==
  ASSUME UsersInv, NEW h \in Handlers, CountersTyped', users' = users,
         NEW state \in [at : HandlerStages, email : AllEmails,
                        identity : Identities \cup {<<>>}, user : Ids \cup {NoUser},
                        counter : Counters, count : Nat, known : BOOLEAN],
         req' = [req EXCEPT ![h] = state],
         Chosen(h)'
  PROVE  UsersInv'
<1>1. RequestsTyped'
  BY DEF UsersInv, RequestsTyped
<1>2. ASSUME NEW g \in Handlers, g # h PROVE Chosen(g)'
  BY <1>2 DEF UsersInv, RequestsTyped, Chosen
<1> QED
  BY <1>1, <1>2 DEF UsersInv

LEMMA UsersInductive == UsersInv /\ [Next]_vars => UsersInv'
<1> SUFFICES ASSUME UsersInv, [Next]_vars PROVE UsersInv'
  OBVIOUS
<1> DEFINE Request == [at : HandlerStages, email : AllEmails,
                       identity : Identities \cup {<<>>}, user : Ids \cup {NoUser},
                       counter : Counters, count : Nat, known : BOOLEAN]
<1>0. /\ req \in [Handlers -> Request] /\ fails \in [Counters -> Nat]
      /\ users \in [Ids -> UserRows] /\ \A h \in Handlers : Chosen(h)
      /\ Idle \in Request /\ Idle.at = "idle"
  BY DEF UsersInv, RequestsTyped, CountersTyped, Idle, HandlerStages, AllEmails, NoEmail, Counters
<1>u. ASSUME NEW i \in Ids, NEW r \in UserRows, users[i] = r, r # Free
      PROVE  \/ users[i] \in AdminRows /\ users[i] \notin MemberRows
             \/ users[i] \in MemberRows /\ users[i] \notin AdminRows
  BY <1>u, KindsDiffer
<1>1. ASSUME NEW c \in Counters, CounterLapses(c) \/ LockLapses(c) PROVE UsersInv'
  <2>1. req' = req /\ users' = users
    BY <1>1 DEF CounterLapses, LockLapses
  <2>2. fails' \in [Counters -> Nat]
    BY <1>0, <1>1 DEF CounterLapses, LockLapses
  <2> QED
    BY <2>1, <2>2 DEF UsersInv, RequestsTyped, CountersTyped, Chosen
<1>2. ASSUME NEW h \in Handlers, NEW e \in Emails, NEW answers \in BOOLEAN,
             Check(h, e, answers)
      PROVE  UsersInv'
  <2> DEFINE state == [Idle EXCEPT !.at = "verify", !.email = e]
  <2>1. state \in Request /\ state.at = "verify"
    BY DEF Idle, HandlerStages, AllEmails, NoEmail, Counters
  <2>2. req' = [req EXCEPT ![h] = state] /\ users' = users /\ fails' = fails
    BY <1>2 DEF Check, Put, counters
  <2>3. Chosen(h)'
    BY <1>0, <2>1, <2>2 DEF Chosen
  <2> QED
    BY <1>0, <2>1, <2>2, <2>3, GoKeeps DEF CountersTyped
<1>3. ASSUME NEW h \in Handlers, VerifyOk(h) PROVE UsersInv'
  <2> DEFINE i == IF LocalUser(AdminEmail) = {} THEN NoUser
                  ELSE CHOOSE x \in LocalUser(AdminEmail) : TRUE
             state == [req[h] EXCEPT !.at = "clear", !.user = i]
  <2>1. i \in Ids \cup {NoUser}
        /\ (i # NoUser => i \in LocalUser(AdminEmail))
    BY DEF LocalUser
  <2>3. req' = [req EXCEPT ![h] = state] /\ users' = users /\ fails' = fails
    BY <1>0, <1>3 DEF VerifyOk, Put, Go, counters
  <2> HIDE DEF i
  <2>2. ASSUME i # NoUser PROVE users[i] \in AdminRows
    <3>1. i \in Ids /\ users[i].identity = <<Local, AdminEmail>>
      BY <2>1, <2>2 DEF LocalUser
    <3>2. users[i].identity[1] = Local
      BY <3>1
    <3>3. users[i] # Free
      BY <3>1, FreeIsNoUser
    <3> QED
      BY <1>0, <3>1, <3>2, <3>3, KindsDiffer
  <2>4. state \in Request /\ state.at = "clear" /\ state.user = i
    BY <1>0, <2>1 DEF HandlerStages
  <2>5. Chosen(h)'
    BY <1>0, <2>2, <2>3, <2>4 DEF Chosen
  <2> QED
    BY <1>0, <2>3, <2>4, <2>5, GoKeeps DEF CountersTyped
<1>4. ASSUME NEW h \in Handlers, VerifyFails(h) PROVE UsersInv'
  <2> DEFINE state == [req[h] EXCEPT !.at = "incr", !.counter = req[h].email]
  <2>1. req' = [req EXCEPT ![h] = state] /\ users' = users /\ fails' = fails
    BY <1>0, <1>4 DEF VerifyFails, Put, Go, counters
  <2>2. req[h].email \in Counters
    BY <1>0, <1>4 DEF VerifyFails, Chosen, Counters
  <2>3. state \in Request /\ state.at = "incr"
    BY <1>0, <2>2 DEF HandlerStages
  <2>4. Chosen(h)'
    BY <1>0, <2>1, <2>3 DEF Chosen
  <2> QED
    BY <1>0, <2>1, <2>3, <2>4, GoKeeps DEF CountersTyped
<1>5. ASSUME NEW h \in Handlers, Incr(h) PROVE UsersInv'
  <2> DEFINE c == req[h].counter
             n == IF fails[c] < ThresholdOf(c) THEN fails[c] + 1 ELSE fails[c]
             state == [req[h] EXCEPT !.at = IF fails[c] = 0 THEN "expire" ELSE "lock",
                                     !.count = n]
  <2>1. c \in Counters /\ n \in Nat
    BY <1>0
  <2>2. /\ req' = [req EXCEPT ![h] = state] /\ users' = users
        /\ fails' = [fails EXCEPT ![c] = n]
    BY <1>0, <1>5 DEF Incr, Put, Go
  <2> HIDE DEF c, n
  <2>3. state \in Request /\ state.at \in {"expire", "lock"}
    BY <1>0, <2>1 DEF HandlerStages
  <2>4. Chosen(h)'
    BY <1>0, <2>2, <2>3 DEF Chosen
  <2>5. CountersTyped'
    BY <1>0, <2>1, <2>2 DEF CountersTyped
  <2> QED
    BY <1>0, <2>2, <2>3, <2>4, <2>5, GoKeeps
<1>6. ASSUME NEW h \in Handlers, Expire(h) PROVE UsersInv'
  <2> DEFINE state == [req[h] EXCEPT !.at = "lock"]
  <2>1. req' = [req EXCEPT ![h] = state] /\ users' = users /\ fails' = fails
    BY <1>0, <1>6 DEF Expire, Put, Go
  <2>2. state \in Request /\ state.at = "lock"
    BY <1>0 DEF HandlerStages
  <2>3. Chosen(h)'
    BY <1>0, <2>1, <2>2 DEF Chosen
  <2> QED
    BY <1>0, <2>1, <2>2, <2>3, GoKeeps DEF CountersTyped
<1>7. ASSUME NEW h \in Handlers, Lock(h) PROVE UsersInv'
  <2>1. req' = [req EXCEPT ![h] = Counted(h)] /\ users' = users /\ fails' = fails
    BY <1>0, <1>7 DEF Lock, Put
  <2>2. Counted(h) \in Request /\ Counted(h).at \in {"idle", "incr"}
    <3>1. Ip \in Counters
      BY DEF Counters
    <3>2. CASE req[h].counter = Ip
      BY <1>0, <3>2 DEF Counted
    <3>3. CASE req[h].counter # Ip
      BY <1>0, <3>1, <3>3 DEF Counted, Go, HandlerStages
    <3> QED
      BY <3>2, <3>3
  <2>3. Chosen(h)'
    BY <1>0, <2>1, <2>2 DEF Chosen
  <2> QED
    BY <1>0, <2>1, <2>2, <2>3, GoKeeps DEF CountersTyped
<1>8. ASSUME NEW h \in Handlers, BreaksOff(h) PROVE UsersInv'
  <2>1. req' = [req EXCEPT ![h] = Idle] /\ users' = users /\ fails' = fails
    BY <1>0, <1>8 DEF BreaksOff, Put, counters
  <2>2. Chosen(h)'
    BY <1>0, <2>1 DEF Chosen
  <2> QED
    BY <1>0, <2>1, <2>2, GoKeeps DEF CountersTyped
<1>9. ASSUME NEW h \in Handlers, NEW answers \in BOOLEAN, Clear(h, answers) PROVE UsersInv'
  <2> DEFINE b == "system" \in tenants
             state == [req[h] EXCEPT !.at = "upsert", !.known = b]
  <2>1. req' = [req EXCEPT ![h] = state] /\ users' = users
    BY <1>0, <1>9 DEF Clear, Put, Go
  <2>2. fails' = fails \/ fails' = [fails EXCEPT ![req[h].email] = 0]
    BY <1>9 DEF Clear, counters
  <2>3. CountersTyped'
    BY <1>0, <2>2 DEF CountersTyped
  <2>4. b \in BOOLEAN
    OBVIOUS
  <2> HIDE DEF b
  <2>5. state \in Request /\ state.at = "upsert" /\ state.user = req[h].user
    BY <1>0, <2>4 DEF HandlerStages
  <2>6. Chosen(h) /\ req[h].at = "clear"
    BY <1>0, <1>9 DEF Clear
  <2>7. Chosen(h)'
    BY <1>0, <2>1, <2>5, <2>6 DEF Chosen
  <2> QED
    BY <1>0, <2>1, <2>3, <2>5, <2>7, GoKeeps
<1>10. ASSUME NEW h \in Handlers, UpsertAdmin(h) PROVE UsersInv'
  <2> DEFINE e == req[h].email
             i == req[h].user
             old == [users[i] EXCEPT !.email = e, !.role = "admin"]
             new == [in |-> "system", identity |-> <<Local, e>>, email |-> e,
                     role |-> "admin"]
  <2>1. e \in AllEmails /\ i \in Ids \cup {NoUser} /\ Chosen(h) /\ req[h].at = "upsert"
    BY <1>0, <1>10 DEF UpsertAdmin
  <2>2. CASE i # NoUser
    <3>1. i \in Ids /\ users[i] \in AdminRows
      BY <2>1, <2>2 DEF Chosen
    <3>2. old \in AdminRows
      BY <2>1, <3>1 DEF AdminRows
    <3>3. Save(h, i, old)
      BY <1>10, <2>2 DEF UpsertAdmin
    <3> QED
      BY <2>1, <3>1, <3>2, <3>3, SaveKeeps DEF UserRows
  <2>3. CASE i = NoUser
    <3>1. new \in AdminRows
      BY <2>1 DEF AdminRows, LocalIdentities
    <3>2. Slot \in Ids \cup {NoUser} /\ (Slot \in Ids => users[Slot] = Free)
      BY SlotIsFree
    <3>3. Save(h, Slot, new)
      BY <1>10, <2>3 DEF UpsertAdmin
    <3> QED
      BY <3>1, <3>2, <3>3, SaveKeeps DEF UserRows
  <2> QED
    BY <2>2, <2>3
<1>11. ASSUME NEW h \in Handlers, NEW who \in Identities, NEW e \in SsoEmails \cup {NoEmail},
              SsoFind(h, who, e)
       PROVE  UsersInv'
  <2> DEFINE found == {i \in Ids : users[i].identity = who}
             i == IF found = {} THEN NoUser ELSE CHOOSE x \in found : TRUE
             place == IF found # {} THEN "refresh" ELSE IF e = NoEmail THEN "save" ELSE "byEmail"
             b == found # {} \/ "default" \in tenants
             state == [Idle EXCEPT !.at = place, !.identity = who, !.email = e, !.user = i,
                                   !.known = b]
  <2>1. req' = [req EXCEPT ![h] = state] /\ users' = users /\ fails' = fails
    BY <1>11 DEF SsoFind, Put, counters
  <2>2. /\ i \in found \/ (i = NoUser /\ found = {})
        /\ place \in {"refresh", "save", "byEmail"} /\ b \in BOOLEAN
        /\ place = "refresh" => found # {}
        /\ found # {} => place = "refresh"
    OBVIOUS
  <2> HIDE DEF i, place, b
  <2>3. ASSUME i \in found PROVE i \in Ids /\ users[i] \in MemberRows
    <3>1. i \in Ids /\ users[i].identity = who
      BY <2>3
    <3>2. users[i] # Free
      BY <3>1, FreeIsNoUser
    <3>3. users[i].identity[1] # Local
      BY <3>1, KindsOfIdentity
    <3> QED
      BY <1>0, <3>1, <3>2, <3>3, KindsDiffer
  <2>4. i \in Ids \cup {NoUser} /\ e \in AllEmails /\ b \in BOOLEAN /\ place \in HandlerStages
        /\ who \in Identities /\ place \in {"refresh", "save", "byEmail"}
        /\ (place = "refresh" => i \in found) /\ (place = "save" => i = NoUser)
    BY <2>2, <2>3 DEF AllEmails, HandlerStages
  <2>5. NoUser \notin Ids
    BY DEF NoUser, Ids
  <2> HIDE DEF found
  <2>6. state \in Request /\ state.at = place /\ state.user = i /\ state.identity = who
    BY <2>4 DEF Idle, Counters
  <2>7. Chosen(h)'
    <3>1. req'[h] = state
      BY <1>0, <2>1
    <3> HIDE DEF state
    <3>2. place = "refresh" => i # NoUser /\ users[i] \in MemberRows
      BY <2>3, <2>4, <2>5
    <3> QED
      BY <2>1, <2>4, <2>6, <3>1, <3>2 DEF Chosen
  <2> QED
    BY <1>0, <2>1, <2>6, <2>7, GoKeeps DEF CountersTyped
<1>12. ASSUME NEW h \in Handlers, SsoByEmail(h) PROVE UsersInv'
  <2> DEFINE found == {i \in Ids : /\ users[i].email = req[h].email
                                   /\ users[i].in = "default"
                                   /\ users[i].identity[1] # Local}
             i == IF found = {} THEN NoUser ELSE CHOOSE x \in found : TRUE
             state == [req[h] EXCEPT !.at = "save", !.user = i]
  <2>1. req' = [req EXCEPT ![h] = state] /\ users' = users /\ fails' = fails
    BY <1>12 DEF SsoByEmail, Put, Go, counters
  <2>2. i \in found \/ i = NoUser
    OBVIOUS
  <2> HIDE DEF i
  <2>3. ASSUME i # NoUser PROVE i \in Ids /\ users[i] \in MemberRows
    <3>1. i \in Ids /\ users[i].in = "default"
      BY <2>2, <2>3
    <3>2. users[i] # Free
      BY <3>1, FreeIsNoUser
    <3> QED
      BY <1>0, <3>1, <3>2, KindsDiffer
  <2>4. i \in Ids \cup {NoUser}
    BY <2>2, <2>3
  <2> HIDE DEF found
  <2>5. state \in Request /\ state.at = "save" /\ state.user = i
        /\ state.identity = req[h].identity
    BY <1>0, <2>4 DEF HandlerStages
  <2>6. req[h].identity \in Identities
    BY <1>0, <1>12 DEF SsoByEmail, Chosen
  <2>7. Chosen(h)'
    <3>1. req'[h] = state
      BY <1>0, <2>1
    <3> QED
      BY <2>1, <2>3, <2>5, <2>6, <3>1 DEF Chosen
  <2> QED
    BY <1>0, <2>1, <2>5, <2>7, GoKeeps DEF CountersTyped
<1>13. ASSUME NEW h \in Handlers, SsoSave(h) PROVE UsersInv'
  <2> DEFINE i == req[h].user
             who == req[h].identity
             e == IF req[h].email = NoEmail THEN Placeholder[req[h].identity] ELSE req[h].email
             old == [users[i] EXCEPT !.identity = who]
             new == [in |-> "default", identity |-> who, email |-> e, role |-> "member"]
  <2>1. req[h].at = "save" /\ who \in Identities /\ i \in Ids \cup {NoUser}
        /\ req[h].email \in AllEmails
    BY <1>0, <1>13 DEF SsoSave, Chosen
  <2>2. e \in AllEmails
    BY <2>1 DEF AllEmails
  <2>3. CASE i # NoUser
    <3>1. i \in Ids /\ users[i] \in MemberRows
      BY <1>0, <2>1, <2>3 DEF Chosen
    <3>2. old \in MemberRows
      BY <2>1, <3>1 DEF MemberRows
    <3>3. Save(h, i, old)
      BY <1>13, <2>3 DEF SsoSave
    <3> QED
      BY <2>1, <3>1, <3>2, <3>3, SaveKeeps DEF UserRows
  <2>4. CASE i = NoUser
    <3>1. new \in MemberRows
      BY <2>1, <2>2 DEF MemberRows
    <3>2. Slot \in Ids \cup {NoUser} /\ (Slot \in Ids => users[Slot] = Free)
      BY SlotIsFree
    <3>3. Save(h, Slot, new)
      BY <1>13, <2>4 DEF SsoSave
    <3> QED
      BY <3>1, <3>2, <3>3, SaveKeeps DEF UserRows
  <2> QED
    BY <2>3, <2>4
<1>14. ASSUME NEW h \in Handlers, SsoRefresh(h) PROVE UsersInv'
  <2> DEFINE i == req[h].user
             old == users[i].email
             e == IF req[h].email = NoEmail THEN old ELSE req[h].email
             row == [users[i] EXCEPT !.email = e]
  <2>1. i \in Ids /\ users[i] \in MemberRows /\ req[h].email \in AllEmails
    BY <1>0, <1>14 DEF SsoRefresh, Chosen
  <2>2. e \in AllEmails
    BY <2>1 DEF MemberRows
  <2>3. row \in MemberRows
    BY <2>1, <2>2 DEF MemberRows
  <2>4. Save(h, i, row)
    BY <1>14 DEF SsoRefresh
  <2> QED
    BY <2>1, <2>3, <2>4, SaveKeeps DEF UserRows
<1>15. CASE UNCHANGED vars
  BY <1>15 DEF vars, counters, UsersInv, RequestsTyped, CountersTyped, Chosen
<1>16. ASSUME NEW profile \in Profiles, NEW h \in Handlers, SsoFind(h, profile[1], profile[2])
       PROVE  UsersInv'
  BY <1>11, <1>16 DEF Profiles
<1> QED
  BY <1>1, <1>2, <1>3, <1>4, <1>5, <1>6, <1>7, <1>8, <1>9, <1>10, <1>12, <1>13, <1>14,
     <1>15, <1>16 DEF Next

LEMMA UsersAtStart == Init => UsersInv
<1> SUFFICES ASSUME Init PROVE UsersInv
  OBVIOUS
<1>1. Idle.at = "idle" /\
      Idle \in [at : HandlerStages, email : AllEmails,
                identity : Identities \cup {<<>>}, user : Ids \cup {NoUser},
                counter : Counters, count : Nat, known : BOOLEAN]
  BY DEF Idle, HandlerStages, AllEmails, NoEmail, Counters
<1>2. req = [h \in Handlers |-> Idle] /\ users = [i \in Ids |-> Free]
      /\ fails = [c \in Counters |-> 0]
  BY DEF Init
<1> QED
  BY <1>1, <1>2 DEF UsersInv, RequestsTyped, CountersTyped, Chosen, UserRows

(* No order of logins mixes the local admins of the system tenant with the *)
(* members that SSO brings in, whatever emails their providers say.        *)
THEOREM AdminsIsolated == Spec => []AdminIsolated
<1>1. Init => UsersInv
  BY UsersAtStart
<1>2. UsersInv => AdminIsolated
  BY KindsDiffer DEF UsersInv, AdminIsolated
<1> QED
  BY <1>1, <1>2, UsersInductive, PTL DEF Spec
-----------------------------------------------------------------------------
(* The counters.                                                           *)

(* Somebody is about to set the window of a counter.                       *)
Arming(h, c) == req[h].at = "expire" /\ req[h].counter = c

Named(c) == fails[c] > 0 /\ c \notin ticking => c \in torn \/ \E h \in Handlers : Arming(h, c)

(* A step that leaves the counters alone and takes nobody from EXPIRE.     *)
LEMMA CountersStay ==
  ASSUME StuckNamed, UNCHANGED <<fails, ticking, torn>>,
         \A g \in Handlers : req[g].at = "expire" => req'[g] = req[g]
  PROVE  StuckNamed'
  BY DEF StuckNamed

LEMMA StuckInductive == UsersInv /\ StuckNamed /\ [Next]_vars => StuckNamed'
<1> SUFFICES ASSUME UsersInv, StuckNamed, [Next]_vars PROVE StuckNamed'
  OBVIOUS
<1>0. /\ \A h \in Handlers : req[h].counter \in Counters /\ req[h].at \in HandlerStages
      /\ DOMAIN req = Handlers
      /\ \A h \in Handlers : DOMAIN req[h] = {"at", "email", "identity", "user", "counter",
                                              "count", "known"}
      /\ fails \in [Counters -> Nat]
      /\ \A c \in Counters : Named(c)
  BY DEF UsersInv, RequestsTyped, CountersTyped, StuckNamed, Named, Arming
<1>p. ASSUME NEW h \in Handlers, NEW state, Put(h, state)
      PROVE  req'[h] = state /\ \A g \in Handlers \ {h} : req'[g] = req[g]
  BY <1>0, <1>p DEF Put
<1>1. ASSUME NEW c \in Counters, CounterLapses(c) PROVE StuckNamed'
  BY <1>0, <1>1 DEF CounterLapses, StuckNamed, Named, Arming
<1>2. ASSUME NEW c \in Counters, LockLapses(c) PROVE StuckNamed'
  BY <1>2, CountersStay DEF LockLapses
<1>3. ASSUME NEW h \in Handlers, req[h].at # "expire", NEW state, Put(h, state),
             UNCHANGED <<fails, ticking, torn>>
      PROVE  StuckNamed'
  BY <1>3, <1>p, CountersStay
<1>4. ASSUME NEW h \in Handlers, NEW e \in Emails, NEW answers \in BOOLEAN,
             Check(h, e, answers)
      PROVE  StuckNamed'
  BY <1>3, <1>4 DEF Check, counters
<1>5. ASSUME NEW h \in Handlers, VerifyOk(h) \/ VerifyFails(h) PROVE StuckNamed'
  BY <1>3, <1>5 DEF VerifyOk, VerifyFails, counters, history
<1>6. ASSUME NEW h \in Handlers, Lock(h) PROVE StuckNamed'
  BY <1>3, <1>6 DEF Lock, history
<1>7. ASSUME NEW h \in Handlers, Incr(h) PROVE StuckNamed'
  <2> DEFINE c == req[h].counter
             n == IF fails[c] < ThresholdOf(c) THEN fails[c] + 1 ELSE fails[c]
             state == [Go(h, IF fails[c] = 0 THEN "expire" ELSE "lock") EXCEPT !.count = n]
  <2>1. /\ req[h].at = "incr" /\ Put(h, state)
        /\ fails' = [fails EXCEPT ![c] = n] /\ ticking' = ticking /\ torn' = torn
    BY <1>7 DEF Incr, history
  <2>2. c \in Counters /\ n \in Nat /\ (fails[c] > 0 \/ fails[c] = 0)
    BY <1>0
  <2>3. fails[c] = 0 => state.at = "expire" /\ state.counter = c
    BY <1>0 DEF Go
  <2> HIDE DEF state, n
  <2>4. ASSUME NEW d \in Counters PROVE Named(d)'
    <3>1. \A g \in Handlers : Arming(g, d) => Arming(g, d)'
      BY <1>p, <2>1 DEF Arming
    <3>2. CASE d = c /\ fails[c] = 0
      <4>1. Arming(h, d)'
        BY <1>p, <2>1, <2>3, <3>2 DEF Arming
      <4> QED
        BY <4>1 DEF Named
    <3>3. CASE d = c /\ fails[c] > 0
      BY <1>0, <2>1, <3>1, <3>3 DEF Named
    <3>4. CASE d # c
      BY <1>0, <2>1, <3>1, <3>4 DEF Named
    <3> QED
      BY <2>2, <3>2, <3>3, <3>4
  <2> QED
    BY <2>4 DEF StuckNamed, Named, Arming
<1>8. ASSUME NEW h \in Handlers, Expire(h) PROVE StuckNamed'
  <2> DEFINE c == req[h].counter
  <2>1. /\ Put(h, Go(h, "lock")) /\ fails' = fails /\ torn' = torn \ {c}
        /\ ticking' = IF fails[c] = 0 THEN ticking ELSE ticking \cup {c}
    BY <1>8 DEF Expire
  <2>2. ASSUME NEW d \in Counters PROVE Named(d)'
    <3>1. CASE d = c
      BY <1>0, <2>1, <3>1 DEF Named
    <3>2. CASE d # c
      <4>1. \A g \in Handlers : Arming(g, d) => Arming(g, d)'
        BY <1>p, <2>1, <3>2 DEF Arming
      <4> QED
        BY <1>0, <2>1, <3>2, <4>1 DEF Named
    <3> QED
      BY <3>1, <3>2
  <2> QED
    BY <2>2 DEF StuckNamed, Named, Arming
<1>9. ASSUME NEW h \in Handlers, BreaksOff(h) PROVE StuckNamed'
  <2> DEFINE c == req[h].counter
  <2>1. /\ Put(h, Idle) /\ fails' = fails /\ ticking' = ticking
        /\ torn' = IF req[h].at = "expire" THEN torn \cup {c} ELSE torn
    BY <1>9 DEF BreaksOff, counters
  <2>2. ASSUME NEW d \in Counters PROVE Named(d)'
    <3>1. \A g \in Handlers : Arming(g, d) => Arming(g, d)' \/ d \in torn'
      BY <1>p, <2>1 DEF Arming
    <3> QED
      BY <1>0, <2>1, <3>1 DEF Named
  <2> QED
    BY <2>2 DEF StuckNamed, Named, Arming
<1>10. ASSUME NEW h \in Handlers, NEW answers \in BOOLEAN, Clear(h, answers)
       PROVE  StuckNamed'
  <2> DEFINE state == [Go(h, "upsert") EXCEPT !.known = "system" \in tenants]
             e == req[h].email
  <2>1. req[h].at = "clear" /\ Put(h, state)
    BY <1>10 DEF Clear
  <2>2. CASE answers
    <3>1. /\ fails' = [fails EXCEPT ![e] = 0] /\ ticking' = ticking \ {e}
          /\ torn' = torn \ {e}
      BY <1>10, <2>2 DEF Clear
    <3> HIDE DEF state
    <3>2. ASSUME NEW d \in Counters PROVE Named(d)'
      <4>1. \A g \in Handlers : Arming(g, d) => Arming(g, d)'
        BY <1>p, <2>1 DEF Arming
      <4> QED
        BY <1>0, <3>1, <4>1 DEF Named
    <3> QED
      BY <3>2 DEF StuckNamed, Named, Arming
  <2>3. CASE ~answers
    <3>1. UNCHANGED <<fails, ticking, torn>>
      BY <1>10, <2>3 DEF Clear, counters, history
    <3> QED
      BY <1>3, <2>1, <3>1
  <2> QED
    BY <2>2, <2>3
<1>11. ASSUME NEW h \in Handlers, NEW i, NEW row, Save(h, i, row), req[h].at # "expire"
       PROVE  StuckNamed'
  BY <1>3, <1>11 DEF Save, counters, history
<1>12. ASSUME NEW h \in Handlers, UpsertAdmin(h) \/ SsoSave(h) \/ SsoRefresh(h)
       PROVE  StuckNamed'
  BY <1>11, <1>12 DEF UpsertAdmin, SsoSave, SsoRefresh
<1>13. ASSUME NEW h \in Handlers, NEW who, NEW e, SsoFind(h, who, e) PROVE StuckNamed'
  BY <1>3, <1>13 DEF SsoFind, counters, history
<1>14. ASSUME NEW h \in Handlers, SsoByEmail(h) PROVE StuckNamed'
  BY <1>3, <1>14 DEF SsoByEmail, counters, history
<1>15. CASE UNCHANGED vars
  BY <1>15, CountersStay DEF vars, counters, history
<1> QED
  BY <1>1, <1>2, <1>4, <1>5, <1>6, <1>7, <1>8, <1>9, <1>10, <1>12, <1>13, <1>14, <1>15
     DEF Next

(* A counter without a time to live goes back to a handler that broke off  *)
(* between INCR and EXPIRE, with any number of them at work.               *)
THEOREM StuckCountersNamed == Spec => []StuckNamed
<1>1. Init => UsersInv
  BY UsersAtStart
<1>2. Init => StuckNamed
  BY DEF Init, StuckNamed
<1> QED
  BY <1>1, <1>2, UsersInductive, StuckInductive, PTL DEF Spec
-----------------------------------------------------------------------------
(* The attempts.                                                           *)

(* Handlers that tried a wrong password for e and have not counted it, or  *)
(* have and are about to lock.                                             *)
Failing(e) ==
  {h \in Handlers :
     /\ req[h].counter = e
     /\ \/ req[h].at = "incr"
        \/ req[h].at \in {"expire", "lock"} /\ req[h].count >= Threshold.email}

(* Handlers that found no lock and have not tried their password.          *)
Admitted(e) == {h \in Handlers : req[h].at = "verify" /\ req[h].email = e}

Below(e) == IF fails[e] < Threshold.email THEN fails[e] ELSE Threshold.email - 1

(* Without a lock the attempts are counted, but for those on their way to  *)
(* the counter or the lock.  Under the lock only who was admitted before   *)
(* may still try.                                                          *)
Within(e) ==
  /\ e \notin locks => tries[e] <= Below(e) + Cardinality(Failing(e))
  /\ e \in locks =>
       tries[e] + Cardinality(Admitted(e)) <= Threshold.email - 1 + Cardinality(Handlers)

(* A handler counts for the email it was given.                            *)
CountsOwn ==
  \A h \in Handlers : Counting(h) /\ req[h].counter # Ip => req[h].counter = req[h].email

AttemptsInv ==
  /\ UsersInv /\ CountsOwn
  /\ tries \in [Emails -> Nat]
  /\ \A e \in Emails \ missed : Within(e)

(* Some handlers, of finitely many.                                        *)
LEMMA SomeHandlers ==
  ASSUME NEW S, S \subseteq Handlers
  PROVE  /\ IsFiniteSet(S) /\ Cardinality(S) \in Nat
         /\ Cardinality(S) <= Cardinality(Handlers) /\ Cardinality(Handlers) \in Nat
BY FS_Subset, FS_CardinalityType, LoginsAssumption

LEMMA OneHandler ==
  ASSUME NEW S, S \subseteq Handlers, NEW h \in Handlers
  PROVE  /\ h \notin S => Cardinality(S \cup {h}) = Cardinality(S) + 1
         /\ h \in S => Cardinality(S \ {h}) = Cardinality(S) - 1
<1>1. IsFiniteSet(S)
  BY SomeHandlers
<1>2. h \notin S => Cardinality(S \cup {h}) = Cardinality(S) + 1
  BY <1>1, FS_AddElement
<1>3. h \in S => Cardinality(S \ {h}) = Cardinality(S) - 1
  BY <1>1, FS_RemoveElement
<1> QED
  BY <1>2, <1>3

LEMMA AttemptNumbers ==
  ASSUME AttemptsInv, NEW e \in Emails
  PROVE  /\ Threshold.email \in Nat \ {0} /\ ThresholdOf(e) = Threshold.email
         /\ e \in Counters /\ e # Ip
         /\ fails[e] \in Nat /\ tries[e] \in Nat
         /\ Cardinality(Handlers) \in Nat
         /\ Failing(e) \subseteq Handlers /\ Admitted(e) \subseteq Handlers
         /\ Cardinality(Failing(e)) \in Nat /\ Cardinality(Admitted(e)) \in Nat
         /\ Cardinality(Failing(e)) + Cardinality(Admitted(e)) <= Cardinality(Handlers)
         /\ Below(e) \in Nat /\ Below(e) <= Threshold.email - 1
<1>1. Threshold.email \in Nat \ {0}
  BY LoginsAssumption
<1>2. e # Ip /\ ThresholdOf(e) = Threshold.email /\ e \in Counters
  BY LoginsAssumption DEF ThresholdOf, Counters
<1>3. fails[e] \in Nat /\ tries[e] \in Nat
  BY <1>2 DEF AttemptsInv, UsersInv, CountersTyped
<1>4. /\ Failing(e) \subseteq Handlers /\ Admitted(e) \subseteq Handlers
      /\ Failing(e) \cap Admitted(e) = {}
  BY DEF Failing, Admitted
<1>5. /\ IsFiniteSet(Failing(e)) /\ IsFiniteSet(Admitted(e)) /\ IsFiniteSet({})
      /\ Cardinality(Failing(e)) \in Nat /\ Cardinality(Admitted(e)) \in Nat
      /\ Cardinality(Handlers) \in Nat /\ Cardinality({}) = 0
  BY <1>4, SomeHandlers, FS_EmptySet
<1>6. Cardinality(Failing(e) \cup Admitted(e)) = Cardinality(Failing(e)) + Cardinality(Admitted(e))
  <2>1. Cardinality(Failing(e) \cup Admitted(e)) =
          Cardinality(Failing(e)) + Cardinality(Admitted(e)) - Cardinality(Failing(e) \cap Admitted(e))
    BY <1>5, FS_Union
  <2> QED
    BY <1>4, <1>5, <2>1
<1>7. Cardinality(Failing(e) \cup Admitted(e)) <= Cardinality(Handlers)
  <2>1. Failing(e) \cup Admitted(e) \subseteq Handlers
    BY <1>4
  <2> QED
    BY <2>1, SomeHandlers
<1>8. Below(e) \in Nat /\ Below(e) <= Threshold.email - 1
  BY <1>1, <1>3 DEF Below
<1> QED
  BY <1>1, <1>2, <1>3, <1>4, <1>5, <1>6, <1>7, <1>8

(* The attempts are forgotten with the counter or the lock.                *)
LEMMA AttemptsReset ==
  ASSUME AttemptsInv, CountersTyped', NEW e \in Emails, tries'[e] = 0
  PROVE  Within(e)'
<1>1. Threshold.email \in Nat \ {0} /\ fails'[e] \in Nat
  BY AttemptNumbers DEF CountersTyped
<1>2. /\ Cardinality(Failing(e)') \in Nat /\ Cardinality(Admitted(e)') \in Nat
      /\ Cardinality(Admitted(e)') <= Cardinality(Handlers) /\ Cardinality(Handlers) \in Nat
  <2>1. Failing(e)' \subseteq Handlers /\ Admitted(e)' \subseteq Handlers
    BY DEF Failing, Admitted
  <2> QED
    BY <2>1, SomeHandlers
<1>3. Below(e)' \in Nat
  BY <1>1 DEF Below
<1> QED
  BY <1>1, <1>2, <1>3 DEF Within

(* Nothing changes for an email, but that fewer are admitted, or more      *)
(* while there is no lock.                                                 *)
LEMMA AttemptsSame ==
  ASSUME AttemptsInv, NEW e \in Emails \ missed,
         tries'[e] = tries[e], fails'[e] = fails[e], e \in locks' <=> e \in locks,
         Failing(e)' = Failing(e),
         e \in locks => Admitted(e)' \subseteq Admitted(e)
  PROVE  Within(e)'
<1>1. Within(e) /\ Below(e)' = Below(e)
  BY DEF AttemptsInv, Below
<1>2. CASE e \notin locks
  BY <1>1, <1>2 DEF Within
<1>3. CASE e \in locks
  <2>1. Admitted(e)' \subseteq Admitted(e) /\ IsFiniteSet(Admitted(e))
    BY <1>3, AttemptNumbers, SomeHandlers
  <2>2. /\ Cardinality(Admitted(e)') <= Cardinality(Admitted(e))
        /\ Cardinality(Admitted(e)') \in Nat
    BY <2>1, FS_Subset, FS_CardinalityType
  <2> QED
    BY <1>1, <1>3, <2>2, AttemptNumbers DEF Within
<1> QED
  BY <1>2, <1>3

(* The steps of a handler that is neither failing nor admitted, and does   *)
(* not become so.                                                          *)
Neutral(state, e) ==
  /\ ~(state.counter = e /\ state.at \in {"incr", "expire", "lock"})
  /\ ~(state.at = "verify" /\ state.email = e)

LEMMA NeutralStep ==
  ASSUME AttemptsInv, NEW e \in Emails \ missed, NEW h \in Handlers, NEW state,
         Put(h, state), Neutral(req[h], e), Neutral(state, e),
         tries'[e] = tries[e], fails'[e] = fails[e], e \in locks' <=> e \in locks
  PROVE  Within(e)'
<1>1. req'[h] = state /\ \A g \in Handlers \ {h} : req'[g] = req[g]
  BY DEF Put, AttemptsInv, UsersInv, RequestsTyped
<1>2. Failing(e)' = Failing(e) /\ Admitted(e)' = Admitted(e)
  BY <1>1 DEF Failing, Admitted, Neutral
<1> QED
  BY <1>2, AttemptsSame

(* A wrong password.                                                       *)
LEMMA AttemptTried ==
  ASSUME AttemptsInv, NEW e \in Emails \ missed, NEW h \in Handlers, VerifyFails(h)
  PROVE  Within(e)'
<1> DEFINE state == [Go(h, "incr") EXCEPT !.counter = req[h].email]
<1>1. /\ Put(h, state) /\ req[h].at = "verify" /\ UNCHANGED <<fails, locks>>
      /\ tries' = [tries EXCEPT ![req[h].email] = IF req[h].email \in missed THEN 0 ELSE @ + 1]
  BY DEF VerifyFails, counters
<1>2. state.counter = req[h].email /\ state.at = "incr"
  BY DEF Go, AttemptsInv, UsersInv, RequestsTyped
<1> HIDE DEF state
<1>3. CASE req[h].email # e
  <2>1. tries'[e] = tries[e]
    BY <1>1, <1>3 DEF AttemptsInv
  <2> QED
    BY <1>1, <1>2, <1>3, <2>1, NeutralStep DEF Neutral
<1>4. CASE req[h].email = e
  <2>1. tries'[e] = tries[e] + 1
    BY <1>1, <1>4 DEF AttemptsInv
  <2>2. req'[h] = state /\ \A g \in Handlers \ {h} : req'[g] = req[g]
    BY <1>1 DEF Put, AttemptsInv, UsersInv, RequestsTyped
  <2>3. /\ Failing(e)' = Failing(e) \cup {h} /\ h \notin Failing(e)
        /\ Admitted(e)' = Admitted(e) \ {h} /\ h \in Admitted(e)
    BY <1>1, <1>2, <1>4, <2>2 DEF Failing, Admitted
  <2>4. /\ Cardinality(Failing(e)') = Cardinality(Failing(e)) + 1
        /\ Cardinality(Admitted(e)') = Cardinality(Admitted(e)) - 1
    BY <2>3, OneHandler, AttemptNumbers
  <2>5. Below(e)' = Below(e) /\ Within(e)
    BY <1>1 DEF Below, AttemptsInv
  <2> QED
    BY <1>1, <2>1, <2>4, <2>5, AttemptNumbers DEF Within
<1> QED
  BY <1>3, <1>4

(* It is counted.                                                          *)
LEMMA AttemptCounted ==
  ASSUME AttemptsInv, NEW e \in Emails \ missed, NEW h \in Handlers, Incr(h)
  PROVE  Within(e)'
<1> DEFINE c == req[h].counter
           n == IF fails[c] < ThresholdOf(c) THEN fails[c] + 1 ELSE fails[c]
           state == [Go(h, IF fails[c] = 0 THEN "expire" ELSE "lock") EXCEPT !.count = n]
<1>1. /\ Put(h, state) /\ req[h].at = "incr" /\ UNCHANGED <<tries, locks>>
      /\ fails' = [fails EXCEPT ![c] = n] /\ fails \in [Counters -> Nat]
  BY DEF Incr, history, AttemptsInv, UsersInv, CountersTyped
<1>2. state.counter = c /\ state.at \in {"expire", "lock"} /\ state.count = n
  BY DEF Go, AttemptsInv, UsersInv, RequestsTyped
<1> HIDE DEF state
<1>3. CASE c # e
  <2>1. fails'[e] = fails[e]
    BY <1>1, <1>3, AttemptNumbers
  <2> QED
    BY <1>1, <1>2, <1>3, <2>1, NeutralStep DEF Neutral
<1>4. CASE c = e
  <2>1. fails'[e] = n /\ n = (IF fails[e] < Threshold.email THEN fails[e] + 1 ELSE fails[e])
    BY <1>1, <1>4, AttemptNumbers
  <2> HIDE DEF n
  <2>2. req'[h] = state /\ \A g \in Handlers \ {h} : req'[g] = req[g]
    BY <1>1 DEF Put, AttemptsInv, UsersInv, RequestsTyped
  <2>3. Admitted(e)' = Admitted(e) /\ h \in Failing(e)
    BY <1>1, <1>2, <1>4, <2>2 DEF Failing, Admitted
  <2>4. Within(e)
    BY DEF AttemptsInv
  <2>5. CASE n >= Threshold.email
    <3>1. Failing(e)' = Failing(e)
      BY <1>1, <1>2, <1>4, <2>2, <2>5 DEF Failing
    <3>2. Below(e)' = Threshold.email - 1 /\ Below(e) = Threshold.email - 1
      BY <2>1, <2>5, AttemptNumbers DEF Below
    <3> QED
      BY <1>1, <2>3, <2>4, <3>1, <3>2 DEF Within
  <2>6. CASE n < Threshold.email
    <3>1. Failing(e)' = Failing(e) \ {h}
      <4>1. ~(n >= Threshold.email)
        BY <2>1, <2>6, AttemptNumbers
      <4> QED
        BY <1>1, <1>2, <1>4, <2>2, <4>1 DEF Failing
    <3>2. Cardinality(Failing(e)') = Cardinality(Failing(e)) - 1
      BY <2>3, <3>1, OneHandler, AttemptNumbers
    <3>3. Below(e)' = Below(e) + 1
      BY <2>1, <2>6, AttemptNumbers DEF Below
    <3> QED
      BY <1>1, <2>3, <2>4, <3>2, <3>3, AttemptNumbers DEF Within
  <2> QED
    BY <2>1, <2>5, <2>6, AttemptNumbers
<1> QED
  BY <1>3, <1>4

(* The window of the counter is set.                                       *)
LEMMA AttemptTimed ==
  ASSUME AttemptsInv, NEW e \in Emails \ missed, NEW h \in Handlers, Expire(h)
  PROVE  Within(e)'
<1>1. /\ Put(h, Go(h, "lock")) /\ req[h].at = "expire" /\ UNCHANGED <<fails, locks, tries>>
  BY DEF Expire
<1>2. /\ req'[h] = [req[h] EXCEPT !.at = "lock"] /\ \A g \in Handlers \ {h} : req'[g] = req[g]
  BY <1>1 DEF Put, Go, AttemptsInv, UsersInv, RequestsTyped
<1>3. req'[h].at = "lock" /\ req'[h].counter = req[h].counter /\ req'[h].count = req[h].count
  BY <1>2 DEF AttemptsInv, UsersInv, RequestsTyped
<1>4. ASSUME NEW g \in Handlers
      PROVE  (g \in Failing(e)' <=> g \in Failing(e)) /\ (g \in Admitted(e)' <=> g \in Admitted(e))
  <2>1. CASE g = h
    BY <1>1, <1>3, <2>1 DEF Failing, Admitted
  <2>2. CASE g # h
    <3>1. req'[g] = req[g]
      BY <1>2, <2>2
    <3> QED
      BY <3>1 DEF Failing, Admitted
  <2> QED
    BY <2>1, <2>2
<1>5. Failing(e)' = Failing(e) /\ Admitted(e)' = Admitted(e)
  BY <1>4 DEF Failing, Admitted
<1> QED
  BY <1>1, <1>5, AttemptsSame

(* The lock: who was admitted and who was counting are different handlers. *)
LEMMA AttemptLocked ==
  ASSUME AttemptsInv, NEW e \in Emails \ missed, NEW h \in Handlers, Lock(h)
  PROVE  Within(e)'
<1>1. /\ Put(h, Counted(h)) /\ req[h].at = "lock" /\ UNCHANGED <<fails, tries>>
      /\ locks' = IF req[h].count >= ThresholdOf(req[h].counter)
                    THEN locks \cup {req[h].counter} ELSE locks
  BY DEF Lock, history
<1>2. Neutral(Counted(h), e) /\ Counted(h).at # "verify"
  <2>1. e # Ip
    BY AttemptNumbers
  <2>2. CASE req[h].counter = Ip
    BY <2>1, <2>2 DEF Counted, Idle, Neutral
  <2>3. CASE req[h].counter # Ip
    <3>1. Counted(h).at = "incr" /\ Counted(h).counter = Ip
      BY <2>3 DEF Counted, Go, AttemptsInv, UsersInv, RequestsTyped
    <3> QED
      BY <2>1, <3>1 DEF Neutral
  <2> QED
    BY <2>2, <2>3
<1>3. req'[h] = Counted(h) /\ \A g \in Handlers \ {h} : req'[g] = req[g]
  BY <1>1 DEF Put, AttemptsInv, UsersInv, RequestsTyped
<1>4. Admitted(e)' = Admitted(e)
  BY <1>1, <1>2, <1>3 DEF Admitted
<1>5. CASE req[h].counter # e
  BY <1>1, <1>2, <1>5, NeutralStep DEF Neutral
<1>6. CASE req[h].counter = e /\ ~(req[h].count >= Threshold.email)
  <2>1. Failing(e)' = Failing(e)
    BY <1>1, <1>2, <1>3, <1>6 DEF Failing, Neutral
  <2>2. locks' = locks
    BY <1>1, <1>6, AttemptNumbers
  <2> QED
    BY <1>1, <1>4, <2>1, <2>2, AttemptsSame
<1>7. CASE req[h].counter = e /\ req[h].count >= Threshold.email
  <2>1. e \in locks'
    BY <1>1, <1>7, AttemptNumbers
  <2>2. Within(e)
    BY DEF AttemptsInv
  <2>3. CASE e \in locks
    BY <1>1, <1>4, <2>1, <2>2, <2>3 DEF Within
  <2>4. CASE e \notin locks
    <3>1. tries[e] <= Below(e) + Cardinality(Failing(e))
      BY <2>2, <2>4 DEF Within
    <3>2. tries[e] + Cardinality(Admitted(e)) <= Threshold.email - 1 + Cardinality(Handlers)
      BY <3>1, AttemptNumbers
    <3> QED
      BY <1>1, <1>4, <2>1, <3>2 DEF Within
  <2> QED
    BY <2>3, <2>4
<1> QED
  BY <1>5, <1>6, <1>7

(* A handler is admitted only while there is no lock.                      *)
LEMMA AttemptChecked ==
  ASSUME AttemptsInv, NEW e \in Emails \ missed', NEW h \in Handlers, NEW x \in Emails,
         NEW answers \in BOOLEAN, Check(h, x, answers)
  PROVE  Within(e)'
<1> DEFINE state == [Idle EXCEPT !.at = "verify", !.email = x]
<1>1. /\ Put(h, state) /\ req[h].at = "idle" /\ UNCHANGED <<fails, locks>>
      /\ answers => locks \cap {x, Ip} = {}
      /\ missed' = IF answers THEN missed ELSE missed \cup {x}
      /\ tries' = IF answers THEN tries ELSE [tries EXCEPT ![x] = 0]
  BY DEF Check, counters
<1>2. state.at = "verify" /\ state.email = x
  BY DEF Idle
<1> HIDE DEF state
<1>3. e \notin missed
  BY <1>1
<1>4. CASE x # e
  <2>1. tries'[e] = tries[e]
    BY <1>1, <1>4 DEF AttemptsInv
  <2> QED
    BY <1>1, <1>2, <1>3, <1>4, <2>1, NeutralStep DEF Neutral
<1>5. CASE x = e
  <2>1. answers /\ e \notin locks /\ tries' = tries
    BY <1>1, <1>5
  <2>2. req'[h] = state /\ \A g \in Handlers \ {h} : req'[g] = req[g]
    BY <1>1 DEF Put, AttemptsInv, UsersInv, RequestsTyped
  <2>3. Failing(e)' = Failing(e)
    BY <1>1, <1>2, <2>2 DEF Failing
  <2> QED
    BY <1>1, <1>3, <2>1, <2>3, AttemptsSame
<1> QED
  BY <1>4, <1>5

(* A handler that breaks off counts no more, and its email is marked.      *)
LEMMA AttemptLost ==
  ASSUME AttemptsInv, NEW e \in Emails \ missed', NEW h \in Handlers, BreaksOff(h)
  PROVE  Within(e)'
<1>1. /\ Put(h, Idle) /\ Counting(h) /\ UNCHANGED <<fails, locks>>
      /\ missed' = missed \cup {req[h].email}
      /\ tries' = [tries EXCEPT ![req[h].email] = 0]
  BY DEF BreaksOff, counters
<1>2. e \notin missed /\ req[h].email # e /\ tries'[e] = tries[e]
  BY <1>1 DEF AttemptsInv
<1>3. req[h].counter # e
  BY <1>1, <1>2, AttemptNumbers DEF AttemptsInv, CountsOwn
<1>4. Neutral(req[h], e) /\ Neutral(Idle, e)
  BY <1>2, <1>3 DEF Neutral, Idle
<1> QED
  BY <1>1, <1>2, <1>4, NeutralStep

(* The right password clears the counter, if Redis answers.                *)
LEMMA AttemptCleared ==
  ASSUME AttemptsInv, CountersTyped', NEW e \in Emails \ missed', NEW h \in Handlers,
         NEW answers \in BOOLEAN, Clear(h, answers)
  PROVE  Within(e)'
<1> DEFINE state == [Go(h, "upsert") EXCEPT !.known = "system" \in tenants]
<1>1. Put(h, state) /\ req[h].at = "clear"
  BY DEF Clear
<1>0. locks' = locks
  BY DEF Clear, counters
<1>2. state.at = "upsert"
  BY DEF Go, AttemptsInv, UsersInv, RequestsTyped
<1> HIDE DEF state
<1>3. CASE answers /\ req[h].email = e
  <2>1. tries'[e] = 0
    BY <1>3 DEF Clear, AttemptsInv
  <2> QED
    BY <2>1, AttemptsReset
<1>4. CASE ~(answers /\ req[h].email = e)
  <2>1. tries'[e] = tries[e] /\ fails'[e] = fails[e] /\ e \notin missed
    <3>1. CASE answers
      BY <1>4, <3>1, AttemptNumbers DEF Clear, AttemptsInv, UsersInv, CountersTyped
    <3>2. CASE ~answers
      BY <3>2 DEF Clear, counters, history
    <3> QED
      BY <3>1, <3>2
  <2> QED
    BY <1>0, <1>1, <1>2, <2>1, NeutralStep DEF Neutral
<1> QED
  BY <1>3, <1>4

(* What the other steps of a handler are for the attempts.                 *)
LEMMA AttemptElsewhere ==
  ASSUME AttemptsInv, NEW e \in Emails \ missed, NEW h \in Handlers,
         NEW state, Put(h, state), UNCHANGED <<counters, history>>,
         req[h].at \notin {"incr", "expire", "lock"},
         state.at \notin {"verify", "incr", "expire", "lock"}
  PROVE  Within(e)'
<1>1. req'[h] = state /\ \A g \in Handlers \ {h} : req'[g] = req[g]
  BY DEF Put, AttemptsInv, UsersInv, RequestsTyped
<1>2. Failing(e)' = Failing(e) /\ Admitted(e)' \subseteq Admitted(e)
  BY <1>1 DEF Failing, Admitted
<1> QED
  BY <1>2, AttemptsSame DEF counters, history

Elsewhere(h) ==
  VerifyOk(h) \/ UpsertAdmin(h) \/ SsoByEmail(h) \/ SsoSave(h) \/ SsoRefresh(h)
  \/ \E profile \in Profiles : SsoFind(h, profile[1], profile[2])

(* Such a step goes on to a place that is not in the counting.             *)
LEMMA ElsewhereSteps ==
  ASSUME UsersInv, NEW h \in Handlers, Elsewhere(h)
  PROVE  /\ UNCHANGED <<counters, history>>
         /\ req[h].at \notin {"incr", "expire", "lock"}
         /\ \E state : Put(h, state) /\ state.at \notin {"verify", "incr", "expire", "lock"}
<1>1. ASSUME NEW i, NEW row, Save(h, i, row)
      PROVE  /\ UNCHANGED <<counters, history>> /\ Put(h, Idle)
             /\ Idle.at \notin {"verify", "incr", "expire", "lock"}
  BY <1>1 DEF Save, Idle
<1>2. CASE UpsertAdmin(h)
  <2>1. req[h].at = "upsert" /\ \E i, row : Save(h, i, row)
    BY <1>2 DEF UpsertAdmin
  <2> QED
    BY <1>1, <2>1
<1>3. CASE SsoSave(h)
  <2>1. req[h].at = "save" /\ \E i, row : Save(h, i, row)
    BY <1>3 DEF SsoSave
  <2> QED
    BY <1>1, <2>1
<1>4. CASE SsoRefresh(h)
  <2>1. req[h].at = "refresh" /\ \E i, row : Save(h, i, row)
    BY <1>4 DEF SsoRefresh
  <2> QED
    BY <1>1, <2>1
<1>5. CASE VerifyOk(h)
  <2>1. \E i : Put(h, [Go(h, "clear") EXCEPT !.user = i])
    BY <1>5 DEF VerifyOk
  <2>2. \A i : [Go(h, "clear") EXCEPT !.user = i].at = "clear"
    BY DEF Go, UsersInv, RequestsTyped
  <2> QED
    BY <1>5, <2>1, <2>2 DEF VerifyOk
<1>6. CASE SsoByEmail(h)
  <2>1. \E i : Put(h, [Go(h, "save") EXCEPT !.user = i])
    <3> DEFINE found == {i \in Ids : /\ users[i].email = req[h].email
                                     /\ users[i].in = "default"
                                     /\ users[i].identity[1] # Local}
               i == IF found = {} THEN NoUser ELSE CHOOSE x \in found : TRUE
    <3>1. Put(h, [Go(h, "save") EXCEPT !.user = i])
      BY <1>6 DEF SsoByEmail
    <3> HIDE DEF i
    <3> QED
      BY <3>1
  <2>2. \A i : [Go(h, "save") EXCEPT !.user = i].at = "save"
    BY DEF Go, UsersInv, RequestsTyped
  <2> QED
    BY <1>6, <2>1, <2>2 DEF SsoByEmail
<1>7. CASE \E profile \in Profiles : SsoFind(h, profile[1], profile[2])
  <2>1. PICK who, e : SsoFind(h, who, e)
    BY <1>7
  <2> DEFINE found == {i \in Ids : users[i].identity = who}
             place == IF found # {} THEN "refresh" ELSE IF e = NoEmail THEN "save" ELSE "byEmail"
             state == [Idle EXCEPT !.at = place, !.identity = who, !.email = e,
                                   !.user = IF found = {} THEN NoUser ELSE CHOOSE i \in found : TRUE,
                                   !.known = found # {} \/ "default" \in tenants]
  <2>2. req[h].at = "idle" /\ Put(h, state) /\ UNCHANGED <<counters, history>>
    BY <2>1 DEF SsoFind
  <2>3. state.at = place /\ place \in {"refresh", "save", "byEmail"}
    BY DEF Idle
  <2> HIDE DEF state, place
  <2> QED
    BY <2>2, <2>3
<1> QED
  BY <1>2, <1>3, <1>4, <1>5, <1>6, <1>7 DEF Elsewhere

LEMMA CountsOwnStep == AttemptsInv /\ [Next]_vars => CountsOwn'
<1> SUFFICES ASSUME AttemptsInv, [Next]_vars PROVE CountsOwn'
  OBVIOUS
<1>0. /\ \A h \in Handlers : DOMAIN req[h] = {"at", "email", "identity", "user", "counter",
                                              "count", "known"}
      /\ CountsOwn
  BY DEF AttemptsInv, UsersInv, RequestsTyped
<1>1. ASSUME NEW h \in Handlers, NEW state, Put(h, state),
             /\ state.at \in {"incr", "expire", "lock"} /\ state.counter # Ip
             => state.counter = state.email
      PROVE  CountsOwn'
  <2>1. req'[h] = state /\ \A g \in Handlers \ {h} : req'[g] = req[g]
    BY <1>1 DEF Put, AttemptsInv, UsersInv, RequestsTyped
  <2> QED
    BY <1>0, <1>1, <2>1 DEF CountsOwn, Counting
<1>2. ASSUME NEW h \in Handlers, Elsewhere(h) PROVE CountsOwn'
  BY <1>1, <1>2, ElsewhereSteps DEF AttemptsInv
<1>3. ASSUME NEW h \in Handlers, NEW e \in Emails, NEW answers \in BOOLEAN, Check(h, e, answers)
      PROVE  CountsOwn'
  BY <1>1, <1>3 DEF Check, Idle
<1>4. ASSUME NEW h \in Handlers, NEW answers \in BOOLEAN, Clear(h, answers) PROVE CountsOwn'
  <2>1. \E b : Put(h, [Go(h, "upsert") EXCEPT !.known = b])
    BY <1>4 DEF Clear
  <2>2. \A b : [Go(h, "upsert") EXCEPT !.known = b].at = "upsert"
    BY <1>0 DEF Go
  <2> QED
    BY <1>1, <2>1, <2>2
<1>5. ASSUME NEW h \in Handlers, VerifyFails(h) PROVE CountsOwn'
  BY <1>0, <1>1, <1>5 DEF VerifyFails, Go
<1>6. ASSUME NEW h \in Handlers, Incr(h) PROVE CountsOwn'
  <2>1. PICK a, n : req[h].at = "incr" /\ Put(h, [Go(h, a) EXCEPT !.count = n])
    BY <1>6 DEF Incr
  <2> DEFINE state == [Go(h, a) EXCEPT !.count = n]
  <2>2. state.counter = req[h].counter /\ state.email = req[h].email
    BY <1>0 DEF Go
  <2>3. Put(h, state)
    BY <2>1
  <2> HIDE DEF state
  <2>4. req[h].counter # Ip => req[h].counter = req[h].email
    BY <1>0, <2>1 DEF CountsOwn, Counting
  <2> QED
    BY <1>1, <2>2, <2>3, <2>4
<1>7. ASSUME NEW h \in Handlers, Expire(h) PROVE CountsOwn'
  BY <1>0, <1>1, <1>7 DEF Expire, Go, CountsOwn, Counting
<1>8. ASSUME NEW h \in Handlers, Lock(h) PROVE CountsOwn'
  BY <1>0, <1>1, <1>8 DEF Lock, Counted, Go, Idle
<1>9. ASSUME NEW h \in Handlers, BreaksOff(h) PROVE CountsOwn'
  BY <1>1, <1>9 DEF BreaksOff, Idle
<1>10. ASSUME req' = req PROVE CountsOwn'
  BY <1>0, <1>10 DEF CountsOwn, Counting
<1> QED
  BY <1>2, <1>3, <1>4, <1>5, <1>6, <1>7, <1>8, <1>9, <1>10
  DEF Next, Elsewhere, CounterLapses, LockLapses, vars

LEMMA TriesTyped == AttemptsInv /\ [Next]_vars => tries' \in [Emails -> Nat]
<1> SUFFICES ASSUME AttemptsInv, [Next]_vars PROVE tries' \in [Emails -> Nat]
  OBVIOUS
<1> USE DEF AttemptsInv
<1>1. ASSUME NEW c \in Counters, CounterLapses(c) \/ LockLapses(c) PROVE tries' \in [Emails -> Nat]
  BY <1>1 DEF CounterLapses, LockLapses
<1>2. ASSUME NEW h \in Handlers, Elsewhere(h) PROVE tries' \in [Emails -> Nat]
  BY <1>2, ElsewhereSteps DEF history
<1>3. ASSUME NEW h \in Handlers, NEW e \in Emails, NEW answers \in BOOLEAN, Check(h, e, answers)
      PROVE  tries' \in [Emails -> Nat]
  BY <1>3 DEF Check
<1>4. ASSUME NEW h \in Handlers, NEW answers \in BOOLEAN, Clear(h, answers)
      PROVE  tries' \in [Emails -> Nat]
  BY <1>4 DEF Clear, history
<1>5. ASSUME NEW h \in Handlers, VerifyFails(h) PROVE tries' \in [Emails -> Nat]
  <2> DEFINE x == req[h].email
             n == IF x \in missed THEN 0 ELSE tries[x] + 1
  <2>1. tries' = [tries EXCEPT ![x] = n]
    BY <1>5 DEF VerifyFails
  <2>2. x \in Emails => n \in Nat
    OBVIOUS
  <2> HIDE DEF n, x
  <2> QED
    BY <2>1, <2>2
<1>6. ASSUME NEW h \in Handlers, Incr(h) \/ Expire(h) \/ Lock(h) \/ BreaksOff(h)
      PROVE  tries' \in [Emails -> Nat]
  BY <1>6 DEF Incr, Expire, Lock, BreaksOff, history
<1>7. CASE UNCHANGED vars
  BY <1>7 DEF vars, history
<1> QED
  BY <1>1, <1>2, <1>3, <1>4, <1>5, <1>6, <1>7 DEF Next, Elsewhere

LEMMA AttemptsInductive == AttemptsInv /\ [Next]_vars => AttemptsInv'
<1> SUFFICES ASSUME AttemptsInv, [Next]_vars PROVE AttemptsInv'
  OBVIOUS
<1>1. UsersInv' /\ CountersTyped' /\ CountsOwn' /\ tries' \in [Emails -> Nat]
  BY UsersInductive, CountsOwnStep, TriesTyped DEF AttemptsInv, UsersInv
<1>2. ASSUME NEW e \in Emails \ missed' PROVE Within(e)'
  <2>1. ASSUME NEW c \in Counters, CounterLapses(c) PROVE Within(e)'
    <3>1. CASE c = e
      BY <1>1, <2>1, <3>1, AttemptsReset DEF CounterLapses, AttemptsInv
    <3>2. CASE c # e
      <4>1. /\ e \notin missed /\ tries'[e] = tries[e] /\ fails'[e] = fails[e]
            /\ locks' = locks /\ req' = req
        BY <2>1, <3>2, AttemptNumbers DEF CounterLapses, AttemptsInv, UsersInv, CountersTyped
      <4>2. Failing(e)' = Failing(e) /\ Admitted(e)' = Admitted(e)
        BY <4>1 DEF Failing, Admitted
      <4> QED
        BY <4>1, <4>2, AttemptsSame
    <3> QED
      BY <3>1, <3>2
  <2>2. ASSUME NEW c \in Counters, LockLapses(c) PROVE Within(e)'
    <3>1. CASE c = e
      BY <1>1, <2>2, <3>1, AttemptsReset DEF LockLapses, AttemptsInv
    <3>2. CASE c # e
      <4>1. /\ e \notin missed /\ tries'[e] = tries[e] /\ fails' = fails
            /\ (e \in locks' <=> e \in locks) /\ req' = req
        BY <2>2, <3>2 DEF LockLapses, AttemptsInv
      <4>2. Failing(e)' = Failing(e) /\ Admitted(e)' = Admitted(e)
        BY <4>1 DEF Failing, Admitted
      <4> QED
        BY <4>1, <4>2, AttemptsSame
    <3> QED
      BY <3>1, <3>2
  <2>3. ASSUME NEW h \in Handlers, Elsewhere(h) PROVE Within(e)'
    <3>1. missed' = missed
      BY <2>3, ElsewhereSteps DEF AttemptsInv, history
    <3> QED
      BY <2>3, <3>1, ElsewhereSteps, AttemptElsewhere DEF AttemptsInv
  <2>4. ASSUME NEW h \in Handlers, VerifyFails(h) \/ Incr(h) \/ Expire(h) \/ Lock(h)
        PROVE  Within(e)'
    <3>1. missed' = missed
      BY <2>4 DEF VerifyFails, Incr, Expire, Lock, history
    <3> QED
      BY <2>4, <3>1, AttemptTried, AttemptCounted, AttemptTimed, AttemptLocked
  <2>5. CASE UNCHANGED vars
    <3>1. Failing(e)' = Failing(e) /\ Admitted(e)' = Admitted(e)
      BY <2>5 DEF vars, Failing, Admitted
    <3> QED
      BY <2>5, <3>1, AttemptsSame DEF vars, counters, history
  <2> QED
    BY <1>1, <2>1, <2>2, <2>3, <2>4, <2>5, AttemptChecked, AttemptLost, AttemptCleared
    DEF Next, Elsewhere
<1> QED
  BY <1>1, <1>2 DEF AttemptsInv

LEMMA AttemptsAtStart == Init => AttemptsInv
<1> SUFFICES ASSUME Init PROVE AttemptsInv
  OBVIOUS
<1>1. UsersInv
  BY UsersAtStart
<1>2. \A h \in Handlers : req[h].at = "idle"
  BY DEF Init, Idle
<1>3. CountsOwn
  BY <1>2 DEF CountsOwn, Counting
<1>4. tries \in [Emails -> Nat] /\ locks = {} /\ \A e \in Emails : tries[e] = 0 /\ fails[e] = 0
  BY DEF Init, Counters
<1>5. ASSUME NEW e \in Emails PROVE Within(e)
  <2>1. Failing(e) \subseteq Handlers /\ Threshold.email \in Nat \ {0}
    BY LoginsAssumption DEF Failing
  <2>2. Cardinality(Failing(e)) \in Nat
    BY <2>1, SomeHandlers
  <2>3. Below(e) = 0
    BY <1>4, <2>1 DEF Below
  <2> QED
    BY <1>4, <2>2, <2>3 DEF Within
<1> QED
  BY <1>1, <1>3, <1>4, <1>5 DEF AttemptsInv

(* However the handlers stand between INCR and SET, an email has at most   *)
(* Threshold - 1 wrong passwords and one for each handler until its lock   *)
(* or counter lapses, unless a failure of Redis lost a count               *)
(* (_register_admin_login_failure).                                        *)
THEOREM AttemptsFew == Spec => []AttemptsBounded
<1>1. AttemptsInv => AttemptsBounded
  <2> SUFFICES ASSUME AttemptsInv, NEW e \in Emails \ missed
               PROVE  tries[e] <= Threshold.email - 1 + Cardinality(Handlers)
    BY DEF AttemptsBounded
  <2>1. Within(e)
    BY DEF AttemptsInv
  <2> QED
    BY <2>1, AttemptNumbers DEF Within
<1> QED
  BY <1>1, AttemptsAtStart, AttemptsInductive, PTL DEF Spec

-----------------------------------------------------------------------------
(* The tokens of one browser (Sessions).                                   *)

TabState == [at : Stages, intent : {"call", "logout"}, retried : BOOLEAN,
             access : 0..issued, refresh : 0..issued]
Sound(u) ==
  /\ u \in TabState
  /\ u.at \in {"renewing", "checked"} => u.refresh # NoToken
  /\ u.at \in {"admitted", "renewed"} => u.access # NoToken

(* The type invariant, and that who is let in has a token.                 *)
RestTyped ==
  /\ issued \in 0..MaxPairs
  /\ provider \in [Pairs -> Providers]
  /\ stale \subseteq expired /\ expired \subseteq 1..issued
  /\ accessMarks \subseteq 1..issued /\ refreshMarks \subseteq 1..issued
  /\ adminOn \in BOOLEAN
  /\ store \in [access : 0..issued, refresh : 0..issued]
  /\ traded \in [Pairs -> 0..Many]
  /\ raced \cup lost \subseteq 1..issued
  /\ ended \subseteq 1..issued
  /\ crossed \in [tabs : SUBSET Tabs, pairs : SUBSET (1..issued)]

Tidy == RestTyped /\ tab \in [Tabs -> TabState] /\ \A t \in Tabs : Sound(tab[t])

LEMMA TidyTyped == Tidy => TypeOK
BY DEF Tidy, RestTyped, TypeOK, Sound, TabState

LEMMA SoundEnds ==
  ASSUME Tidy
  PROVE  /\ Sound(NoRequest) /\ Sound(Leaving) /\ \A u : Sound(GiveUp(u))
         /\ \A t \in Tabs : Sound(Failed(tab[t]))
<1>1. Sound(NoRequest)
  BY DEF NoRequest, Sound, TabState, Stages, NoToken, Tidy, RestTyped
<1>2. Sound(Leaving)
  BY <1>1 DEF Leaving, Sound, TabState, Stages
<1>3. \A u : Sound(GiveUp(u))
  BY <1>1, <1>2 DEF GiveUp
<1>4. ASSUME NEW t \in Tabs PROVE Sound(Failed(tab[t]))
  BY <1>2, <1>3 DEF Failed, Tidy
<1>5. QED
  BY <1>1, <1>2, <1>3, <1>4

LEMMA TabTyped ==
  ASSUME Tidy, NEW t \in Tabs, NEW u, Sound(u), tab' = [tab EXCEPT ![t] = u],
         issued' = issued, RestTyped'
  PROVE  Tidy'
<1>1. TabState' = TabState
  BY DEF TabState
<1>2. \A s : Sound(s)' <=> Sound(s)
  BY <1>1 DEF Sound
<1>3. tab \in [Tabs -> TabState] /\ u \in TabState
  BY DEF Tidy, Sound
<1>4. tab' \in [Tabs -> TabState]
  BY <1>3
<1>5. \A s \in Tabs : tab'[s] = IF s = t THEN u ELSE tab[s]
  BY <1>3
<1>6. \A s \in Tabs : Sound(tab'[s])
  BY <1>5 DEF Tidy
<1>7. \A s \in Tabs : Sound(tab[s])'
  BY <1>1, <1>6 DEF Sound
<1>8. tab' \in [Tabs -> TabState']
  BY <1>1, <1>4
<1>9. QED
  BY <1>7, <1>8 DEF Tidy

(* A pair more: what was typed stays typed.                                *)
LEMMA IssueTyped ==
  ASSUME Tidy, NEW p \in Providers, Issue(p)
  PROVE  /\ issued' = issued + 1 /\ issued' \in 0..MaxPairs /\ provider' \in [Pairs -> Providers]
         /\ \A s : Sound(s) => Sound(s)'
         /\ 0..issued \subseteq 0..issued' /\ 1..issued \subseteq 1..issued' /\ issued + 1 \in 1..issued'
<1>1. issued \in Nat /\ MaxPairs \in Nat /\ issued < MaxPairs /\ issued' = issued + 1
  BY SessionsAssumption DEF Tidy, RestTyped, Issue
<1>2. issued + 1 \in Pairs
  BY <1>1 DEF Pairs
<1>3. provider' \in [Pairs -> Providers]
  BY <1>2 DEF Issue, Tidy, RestTyped
<1>4. 0..issued \subseteq 0..issued' /\ 1..issued \subseteq 1..issued'
  BY <1>1
<1>5. \A s : Sound(s) => Sound(s)'
  BY <1>4 DEF Sound, TabState
<1>6. QED
  BY <1>1, <1>3, <1>4, <1>5

LEMMA ClientTyped ==
  ASSUME Tidy, NEW t \in Tabs, Client(t)
  PROVE  Tidy'
<1> DEFINE u == tab[t]
<1>1. Sound(u) /\ RestTyped
  BY DEF Tidy
<1>2. ASSUME NEW p \in Providers, Login(t, p) PROVE Tidy'
  <2>1. /\ issued' = issued + 1 /\ issued' \in 0..MaxPairs /\ provider' \in [Pairs -> Providers]
        /\ \A s : Sound(s) => Sound(s)'
        /\ 0..issued \subseteq 0..issued' /\ 1..issued \subseteq 1..issued' /\ issued + 1 \in 1..issued'
    BY <1>2, IssueTyped DEF Login
  <2>2. RestTyped'
    <3>1. store' \in [access : 0..issued', refresh : 0..issued']
      BY <1>2, <2>1 DEF Login
    <3>2. UNCHANGED <<expired, stale, marks, adminOn, traces>>
      BY <1>2 DEF Login, Issue
    <3>3. QED
      BY <1>1, <2>1, <3>1, <3>2 DEF RestTyped, marks, traces
  <2>3. tab' = tab
    BY <1>2 DEF Login
  <2>4. \A s \in Tabs : Sound(tab[s])'
    BY <2>1, <2>3 DEF Tidy, Sound, TabState
  <2>5. tab' \in [Tabs -> TabState']
    BY <2>3, <2>4 DEF Tidy, Sound
  <2>6. QED
    BY <2>2, <2>4, <2>5 DEF Tidy
<1>3. ASSUME NEW intent \in {"call", "logout"}, Send(t, intent) PROVE Tidy'
  <2> DEFINE v == [NoRequest EXCEPT !.at = "sent", !.intent = intent, !.access = store.access]
  <2>1. Sound(v)
    BY <1>1, SoundEnds DEF Sound, TabState, Stages, RestTyped
  <2>2. tab' = [tab EXCEPT ![t] = v] /\ UNCHANGED <<tokens, marks, adminOn, store, traces>>
    BY <1>3 DEF Send
  <2>3. RestTyped' /\ issued' = issued
    BY <1>1, <2>2 DEF RestTyped, tokens, marks, traces
  <2> HIDE DEF v
  <2>4. QED
    BY <2>1, <2>2, <2>3, TabTyped
<1>4. CASE Refused(t)
  <2> DEFINE v == IF u.retried THEN GiveUp(u)
                  ELSE IF store.refresh = NoToken THEN Leaving
                  ELSE [u EXCEPT !.at = "renewing", !.retried = TRUE, !.refresh = store.refresh]
  <2>1. Sound(v)
    <3>1. ASSUME store.refresh # NoToken
          PROVE  Sound([u EXCEPT !.at = "renewing", !.retried = TRUE, !.refresh = store.refresh])
      BY <1>1, <3>1 DEF Sound, TabState, Stages, NoToken, RestTyped
    <3>2. QED
      BY <3>1, SoundEnds
  <2>2. tab' = [tab EXCEPT ![t] = v] /\ UNCHANGED <<tokens, marks, adminOn, store, traces>>
    BY <1>4 DEF Refused
  <2>3. RestTyped' /\ issued' = issued
    BY <1>1, <2>2 DEF RestTyped, tokens, marks, traces
  <2> HIDE DEF v
  <2>4. QED
    BY <2>1, <2>2, <2>3, TabTyped
<1>5. CASE StoreRenewed(t)
  <2> DEFINE v == [u EXCEPT !.at = "sent"]
  <2>1. Sound(v)
    BY <1>1 DEF Sound, TabState, Stages
  <2>2. tab' = [tab EXCEPT ![t] = v] /\ UNCHANGED <<tokens, marks, adminOn, traded, raced, lost, ended>>
    BY <1>5 DEF StoreRenewed
  <2>3. RestTyped' /\ issued' = issued
    <3>1. store' \in [access : 0..issued, refresh : 0..issued]
      BY <1>1, <1>5 DEF StoreRenewed, RestTyped, Sound, TabState
    <3>2. crossed' \in [tabs : SUBSET Tabs, pairs : SUBSET (1..issued)]
      <4>1. u.access \in 1..issued
        BY <1>1, <1>5 DEF StoreRenewed, Sound, TabState, NoToken, RestTyped
      <4>2. QED
        BY <1>1, <1>5, <4>1 DEF StoreRenewed, RestTyped
    <3>3. QED
      BY <1>1, <2>2, <3>1, <3>2 DEF RestTyped, tokens, marks
  <2> HIDE DEF v
  <2>4. QED
    BY <2>1, <2>2, <2>3, TabTyped
<1>6. CASE Leave(t)
  <2>1. tab' = [tab EXCEPT ![t] = NoRequest] /\ UNCHANGED <<tokens, marks, adminOn, traded, raced, lost, ended>>
    BY <1>6 DEF Leave
  <2>2. RestTyped' /\ issued' = issued
    <3>1. store' \in [access : 0..issued, refresh : 0..issued]
      BY <1>1, <1>6 DEF Leave, RestTyped, NoToken
    <3>2. crossed' \in [tabs : SUBSET Tabs, pairs : SUBSET (1..issued)]
      BY <1>6 DEF Leave
    <3>3. QED
      BY <1>1, <2>1, <3>1, <3>2 DEF RestTyped, tokens, marks
  <2>3. QED
    BY <2>1, <2>2, TabTyped, SoundEnds
<1>7. QED
  BY <1>2, <1>3, <1>4, <1>5, <1>6 DEF Client

(* A renewal that goes on to the mark: the token traded in is real.        *)
LEMMA ServerTyped ==
  ASSUME Tidy, NEW t \in Tabs, Server(t)
  PROVE  Tidy'
<1> DEFINE u == tab[t]
<1>1. Sound(u) /\ RestTyped
  BY DEF Tidy
<1>2. CASE Serve(t)
  <2> DEFINE v == IF ~Accepts(u.access) THEN [u EXCEPT !.at = "refused", !.access = NoToken]
                  ELSE IF u.intent = "logout" THEN [u EXCEPT !.at = "admitted"] ELSE NoRequest
  <2>1. Sound(v)
    <3>1. Sound([u EXCEPT !.at = "refused", !.access = NoToken])
      <4>1. 0 \in 0..issued /\ u \in TabState
        BY <1>1 DEF RestTyped, Sound
      <4>2. QED
        BY <4>1 DEF Sound, TabState, Stages, NoToken
    <3>2. ASSUME Accepts(u.access) PROVE Sound([u EXCEPT !.at = "admitted"])
      <4>1. u.access # NoToken
        BY <3>2 DEF Accepts
      <4>2. QED
        BY <1>1, <4>1 DEF Sound, TabState, Stages
    <3>3. QED
      BY <3>1, <3>2, SoundEnds
  <2>2. tab' = [tab EXCEPT ![t] = v] /\ UNCHANGED <<tokens, marks, adminOn, store, traces>>
    BY <1>2 DEF Serve
  <2>3. RestTyped' /\ issued' = issued
    BY <1>1, <2>2 DEF RestTyped, tokens, marks, traces
  <2> HIDE DEF v
  <2>4. QED
    BY <2>1, <2>2, <2>3, TabTyped
<1>3. CASE Logout(t)
  <2>1. tab' = [tab EXCEPT ![t] = Leaving]
        /\ UNCHANGED <<tokens, refreshMarks, adminOn, store, traded, raced, lost, crossed>>
    BY <1>3 DEF Logout
  <2>2. {u.access} \ expired \subseteq 1..issued
    BY <1>1, <1>3 DEF Logout, Sound, TabState, NoToken, RestTyped
  <2>3. RestTyped' /\ issued' = issued
    BY <1>1, <1>3, <2>1, <2>2 DEF Logout, RestTyped, tokens
  <2>4. QED
    BY <2>1, <2>3, TabTyped, SoundEnds
<1>4. CASE RefreshCheck(t)
  <2> DEFINE v == IF Renewable(u.refresh) THEN [u EXCEPT !.at = "checked"] ELSE Leaving
  <2>1. Sound(v)
    <3>1. Sound([u EXCEPT !.at = "checked"])
      BY <1>1, <1>4 DEF RefreshCheck, Sound, TabState, Stages
    <3>2. QED
      BY <3>1, SoundEnds
  <2>2. tab' = [tab EXCEPT ![t] = v] /\ UNCHANGED <<tokens, marks, adminOn, store, traded, lost, ended, crossed>>
    BY <1>4 DEF RefreshCheck
  <2>3. raced' \subseteq 1..issued
    <3>1. \A s \in Tabs : tab[s].at = "checked" => tab[s].refresh \in 1..issued
      BY DEF Tidy, Sound, TabState, RestTyped, NoToken
    <3>2. QED
      BY <1>1, <1>4, <3>1 DEF RefreshCheck, RestTyped
  <2>4. RestTyped' /\ issued' = issued
    BY <1>1, <2>2, <2>3 DEF RestTyped, tokens, marks
  <2> HIDE DEF v
  <2>5. QED
    BY <2>1, <2>2, <2>4, TabTyped
<1>5. ASSUME u.at = "checked",
             refreshMarks' = refreshMarks \cup ({u.refresh} \ stale),
             traded' = [traded EXCEPT ![u.refresh] = IF u.refresh \in stale THEN 0 ELSE More(@)]
      PROVE  /\ refreshMarks' \subseteq 1..issued /\ traded' \in [Pairs -> 0..Many]
             /\ u.refresh \in Pairs
  <2>1. u.refresh \in 1..issued
    BY <1>1, <1>5 DEF Sound, TabState, RestTyped, NoToken
  <2>2. u.refresh \in Pairs
    BY <1>1, <2>1, SessionsAssumption DEF RestTyped, Pairs
  <2>3. traded[u.refresh] \in 0..Many /\ More(traded[u.refresh]) \in 0..Many
    <3>1. \A n \in 0..2 : IF n = 2 THEN 2 \in 0..2 ELSE n + 1 \in 0..2
      OBVIOUS
    <3>2. \A n \in 0..Many : More(n) \in 0..Many
      BY <3>1 DEF More, Many
    <3>3. QED
      BY <1>1, <2>2, <3>2 DEF RestTyped
  <2>4. traded' \in [Pairs -> 0..Many]
    <3> DEFINE n == IF u.refresh \in stale THEN 0 ELSE More(traded[u.refresh])
    <3>1. n \in 0..Many
      BY <2>3 DEF Many
    <3>2. traded' = [traded EXCEPT ![u.refresh] = n]
      BY <1>5
    <3> HIDE DEF n
    <3>3. QED
      BY <1>1, <3>1, <3>2 DEF RestTyped
  <2>5. QED
    BY <1>1, <1>5, <2>1, <2>2, <2>4 DEF RestTyped
<1>6. CASE RefreshIssue(t)
  <2> DEFINE v == [u EXCEPT !.at = "renewed", !.access = issued + 1, !.refresh = NoToken]
  <2>1. /\ u.at = "checked" /\ Issue(provider[u.refresh])
        /\ refreshMarks' = refreshMarks \cup ({u.refresh} \ stale)
        /\ traded' = [traded EXCEPT ![u.refresh] = IF u.refresh \in stale THEN 0 ELSE More(@)]
        /\ tab' = [tab EXCEPT ![t] = v]
        /\ UNCHANGED <<accessMarks, adminOn, store, raced, lost, ended, crossed>>
    BY <1>6 DEF RefreshIssue
  <2>2. refreshMarks' \subseteq 1..issued /\ traded' \in [Pairs -> 0..Many] /\ u.refresh \in Pairs
    BY <1>5, <2>1
  <2>3. provider[u.refresh] \in Providers
    BY <1>1, <2>2 DEF RestTyped
  <2>4. /\ issued' = issued + 1 /\ issued' \in 0..MaxPairs /\ provider' \in [Pairs -> Providers]
        /\ \A s : Sound(s) => Sound(s)'
        /\ 0..issued \subseteq 0..issued' /\ 1..issued \subseteq 1..issued' /\ issued + 1 \in 1..issued'
    BY <2>1, <2>3, IssueTyped
  <2>5. RestTyped'
    <3>1. UNCHANGED <<expired, stale>>
      BY <2>1 DEF Issue
    <3>2. refreshMarks' \subseteq 1..issued'
      BY <2>2, <2>4
    <3>3. store' \in [access : 0..issued', refresh : 0..issued']
      BY <1>1, <2>1, <2>4 DEF RestTyped
    <3>4. QED
      BY <1>1, <2>1, <2>2, <2>4, <3>1, <3>2, <3>3 DEF RestTyped
  <2>6. /\ v \in [at : Stages, intent : {"call", "logout"}, retried : BOOLEAN,
                  access : 0..issued', refresh : 0..issued']
        /\ v.at = "renewed" /\ v.access # NoToken
    <3>1. issued + 1 \in 0..issued' /\ 0 \in 0..issued' /\ issued + 1 # 0 /\ u \in TabState
      BY <1>1, <2>4 DEF RestTyped, Sound
    <3>2. QED
      BY <3>1 DEF TabState, Stages, NoToken
  <2>7. \A s \in Tabs : tab'[s] = IF s = t THEN v ELSE tab[s]
    BY <2>1 DEF Tidy
  <2> HIDE DEF v
  <2>8. \A s \in Tabs : Sound(tab[s])'
    <3>1. ASSUME NEW s \in Tabs, s # t PROVE Sound(tab[s])'
      <4>1. tab'[s] = tab[s] /\ Sound(tab[s])
        BY <2>7, <3>1 DEF Tidy
      <4>2. QED
        BY <2>4, <4>1 DEF Sound, TabState
    <3>2. Sound(tab[t])'
      BY <2>6, <2>7 DEF Sound, TabState
    <3>3. QED
      BY <3>1, <3>2
  <2>9. tab' \in [Tabs -> TabState']
    <3>1. tab' = [s \in Tabs |-> tab'[s]]
      BY <2>1 DEF Tidy
    <3>2. \A s \in Tabs : tab'[s] \in TabState'
      BY <2>8 DEF Sound
    <3>3. QED
      BY <3>1, <3>2
  <2>10. QED
    BY <2>5, <2>8, <2>9 DEF Tidy
<1>7. CASE RefreshDies(t)
  <2>1. /\ u.at = "checked"
        /\ refreshMarks' = refreshMarks \cup ({u.refresh} \ stale)
        /\ traded' = [traded EXCEPT ![u.refresh] = IF u.refresh \in stale THEN 0 ELSE More(@)]
        /\ tab' = [tab EXCEPT ![t] = Leaving]
        /\ UNCHANGED <<tokens, accessMarks, adminOn, store, raced, lost, ended, crossed>>
    BY <1>7 DEF RefreshDies
  <2>2. refreshMarks' \subseteq 1..issued /\ traded' \in [Pairs -> 0..Many]
    BY <1>5, <2>1
  <2>3. RestTyped' /\ issued' = issued
    BY <1>1, <2>1, <2>2 DEF RestTyped, tokens
  <2>4. QED
    BY <2>1, <2>3, TabTyped, SoundEnds
<1>8. CASE RequestFails(t)
  <2>1. tab' = [tab EXCEPT ![t] = Failed(tab[t])] /\ UNCHANGED <<tokens, marks, adminOn, store, traces>>
    BY <1>8 DEF RequestFails
  <2>2. RestTyped' /\ issued' = issued
    BY <1>1, <2>1 DEF RestTyped, tokens, marks, traces
  <2>3. QED
    BY <2>1, <2>2, TabTyped, SoundEnds
<1>9. QED
  BY <1>2, <1>3, <1>4, <1>6, <1>7, <1>8 DEF Server

LEMMA HeldIssued ==
  ASSUME Tidy, NEW i \in Held, i # NoToken
  PROVE  i \in 1..issued /\ i \in Pairs
<1>1. issued \in 0..MaxPairs
  BY DEF Tidy, RestTyped
<1>2. i \in 0..issued
  BY DEF Held, Tidy, RestTyped, TabState
<1>3. i \in 1..issued
  BY <1>1, <1>2 DEF NoToken
<1>4. QED
  BY <1>1, <1>3, SessionsAssumption DEF Pairs

(* A step that leaves the tabs and the pairs alone.                        *)
LEMMA TabsStayTidy ==
  ASSUME Tidy, RestTyped', issued' = issued, tab' = tab
  PROVE  Tidy'
<1>1. TabState' = TabState
  BY DEF TabState
<1>2. \A t \in Tabs : Sound(tab[t])'
  BY <1>1 DEF Tidy, Sound
<1>3. QED
  BY <1>1, <1>2 DEF Tidy

LEMMA TidyStep == Tidy /\ [SessionNext]_sessionVars => Tidy'
<1> SUFFICES ASSUME Tidy, [SessionNext]_sessionVars PROVE Tidy'
  OBVIOUS
<1>1. RestTyped
  BY DEF Tidy
<1>2. CASE AccessExpires
  <2>1. PICK i \in Held \ (expired \cup {NoToken}) :
          expired' = expired \cup {i} /\ accessMarks' = accessMarks \ {i} /\ ended' = ended \ {i}
    BY <1>2 DEF AccessExpires
  <2>2. UNCHANGED <<issued, provider, stale, refreshMarks, adminOn, store, tab, traded, raced, lost, crossed>>
    BY <1>2 DEF AccessExpires
  <2>3. i \in 1..issued
    BY HeldIssued
  <2>4. RestTyped'
    BY <1>1, <2>1, <2>2, <2>3 DEF RestTyped
  <2>5. QED
    BY <2>2, <2>4, TabsStayTidy
<1>3. CASE RefreshExpires
  <2>1. PICK i \in (Held \cap expired) \ stale :
          /\ stale' = stale \cup {i}
          /\ refreshMarks' = refreshMarks \ {i} /\ traded' = [traded EXCEPT ![i] = 0]
          /\ raced' = raced \ {i} /\ lost' = lost \ {i}
    BY <1>3 DEF RefreshExpires
  <2>2. UNCHANGED <<issued, provider, expired, accessMarks, adminOn, store, tab, ended, crossed>>
    BY <1>3 DEF RefreshExpires
  <2>3. traded' \in [Pairs -> 0..Many]
    <3>1. traded \in [Pairs -> 0..Many] /\ 0 \in 0..Many
      BY <1>1 DEF RestTyped, Many
    <3>2. QED
      BY <2>1, <3>1
  <2>4. RestTyped'
    BY <1>1, <2>1, <2>2, <2>3 DEF RestTyped
  <2>5. QED
    BY <2>2, <2>4, TabsStayTidy
<1>4. CASE MarksLost
  <2>1. PICK i \in Held \cap (accessMarks \cup refreshMarks) :
          /\ accessMarks' = accessMarks \ {i} /\ refreshMarks' = refreshMarks \ {i}
          /\ lost' = lost \cup {i}
    BY <1>4 DEF MarksLost
  <2>2. UNCHANGED <<tokens, adminOn, store, tab, traded, raced, ended, crossed>>
    BY <1>4 DEF MarksLost
  <2>3. RestTyped' /\ issued' = issued
    BY <1>1, <2>1, <2>2 DEF RestTyped, tokens
  <2>4. QED
    BY <2>2, <2>3, TabsStayTidy
<1>5. CASE Restart
  <2>1. adminOn' = ~adminOn /\ tab' = [t \in Tabs |-> Failed(tab[t])] /\ UNCHANGED <<tokens, marks, store, traces>>
    BY <1>5 DEF Restart
  <2>2. RestTyped' /\ issued' = issued
    BY <1>1, <2>1 DEF RestTyped, tokens, marks, traces
  <2>3. TabState' = TabState
    BY <2>2 DEF TabState
  <2>4. \A t \in Tabs : tab'[t] = Failed(tab[t])
    BY <2>1
  <2>5. \A t \in Tabs : Sound(tab'[t])
    BY <2>4, SoundEnds
  <2>6. \A t \in Tabs : Sound(tab[t])'
    BY <2>3, <2>5 DEF Sound
  <2>7. tab' \in [Tabs -> TabState']
    <3>1. tab' = [t \in Tabs |-> tab'[t]]
      BY <2>1
    <3>2. \A t \in Tabs : tab'[t] \in TabState'
      BY <2>6 DEF Sound
    <3>3. QED
      BY <3>1, <3>2
  <2>8. QED
    BY <2>2, <2>6, <2>7 DEF Tidy
<1>6. CASE UNCHANGED sessionVars
  <2>1. RestTyped' /\ issued' = issued /\ tab' = tab
    BY <1>1, <1>6 DEF RestTyped, sessionVars, tokens, marks, traces
  <2>2. QED
    BY <2>1, TabsStayTidy
<1>7. QED
  BY <1>2, <1>3, <1>4, <1>5, <1>6, ClientTyped, ServerTyped DEF SessionNext

LEMMA TidyInit == SessionInit => Tidy
<1> SUFFICES ASSUME SessionInit PROVE Tidy
  OBVIOUS
<1>1. RestTyped
  BY SessionsAssumption DEF SessionInit, RestTyped, Pairs, Providers, NoToken, Many
<1>2. \A t \in Tabs : tab[t] = NoRequest
  BY DEF SessionInit
<1>3. Sound(NoRequest)
  <2>1. issued = 0
    BY DEF SessionInit
  <2>2. QED
    BY <2>1 DEF NoRequest, Sound, TabState, Stages, NoToken
<1>4. tab \in [Tabs -> TabState]
  BY <1>3 DEF SessionInit, Sound
<1>5. QED
  BY <1>1, <1>2, <1>3, <1>4 DEF Tidy

-----------------------------------------------------------------------------
(* A token whose mark was not lost, that is still good and that no two     *)
(* handlers had checked at once: its only exchange leaves the mark, and    *)
(* from then on nobody is past the check with it.                          *)
Checking(t, i) == tab[t].at = "checked" /\ tab[t].refresh = i
Once(i) ==
  /\ traded[i] # Many
  /\ traded[i] > 0 => i \in refreshMarks /\ \A t \in Tabs : ~Checking(t, i)
  /\ \A t, u \in Tabs : Checking(t, i) /\ Checking(u, i) => t = u
Hit == stale \cup raced \cup lost
Exchanged ==
  /\ \A i \in stale : traded[i] = 0 /\ i \notin refreshMarks
  /\ RevokedWhenTraded
  /\ \A i \in Pairs \ Hit : Once(i)

(* Nothing but a check lets a tab past the check.                          *)
LEMMA CheckedBefore ==
  ASSUME Tidy, [SessionNext]_sessionVars, NEW t \in Tabs, NEW i, ~RefreshCheck(t), Checking(t, i)'
  PROVE  Checking(t, i)
<1>1. ASSUME NEW s \in Tabs, s # t, NEW u, tab' = [tab EXCEPT ![s] = u] PROVE Checking(t, i)
  BY <1>1 DEF Checking, Tidy
<1>2. ASSUME NEW u, tab' = [tab EXCEPT ![t] = u] PROVE u.at = "checked" /\ u.refresh = i
  BY <1>2 DEF Checking, Tidy
<1>3. \A u : GiveUp(u).at # "checked"
  BY DEF GiveUp, Leaving, NoRequest
<1>4. Leaving.at # "checked" /\ NoRequest.at # "checked"
  BY DEF Leaving, NoRequest
<1>5. \A u : Failed(u).at = "checked" => Failed(u) = u
  BY <1>3, <1>4 DEF Failed
<1>6. CASE tab' = tab
  BY <1>6 DEF Checking
<1>7. ASSUME NEW s \in Tabs, Client(s) PROVE Checking(t, i)
  <2>1. ASSUME NEW p \in Providers, Login(s, p) PROVE Checking(t, i)
    BY <1>6, <2>1 DEF Login
  <2>2. ASSUME NEW intent \in {"call", "logout"}, Send(s, intent) PROVE Checking(t, i)
    <3> DEFINE u == [NoRequest EXCEPT !.at = "sent", !.intent = intent, !.access = store.access]
    <3>1. tab' = [tab EXCEPT ![s] = u] /\ u.at = "sent"
      BY <2>2 DEF Send, NoRequest
    <3> HIDE DEF u
    <3>2. QED
      BY <1>1, <1>2, <3>1
  <2>3. CASE Refused(s)
    <3> DEFINE u == IF tab[s].retried THEN GiveUp(tab[s])
                    ELSE IF store.refresh = NoToken THEN Leaving
                    ELSE [tab[s] EXCEPT !.at = "renewing", !.retried = TRUE, !.refresh = store.refresh]
    <3>1. tab' = [tab EXCEPT ![s] = u]
      BY <2>3 DEF Refused
    <3>2. u.at # "checked"
      <4>1. [tab[s] EXCEPT !.at = "renewing", !.retried = TRUE, !.refresh = store.refresh].at # "checked"
        BY DEF Tidy, TabState
      <4>2. QED
        BY <1>3, <1>4, <4>1
    <3> HIDE DEF u
    <3>3. QED
      BY <1>1, <1>2, <3>1, <3>2
  <2>4. CASE StoreRenewed(s)
    <3> DEFINE u == [tab[s] EXCEPT !.at = "sent"]
    <3>1. tab' = [tab EXCEPT ![s] = u] /\ u.at # "checked"
      BY <2>4 DEF StoreRenewed, Tidy, TabState
    <3> HIDE DEF u
    <3>2. QED
      BY <1>1, <1>2, <3>1
  <2>5. CASE Leave(s)
    <3>1. tab' = [tab EXCEPT ![s] = NoRequest]
      BY <2>5 DEF Leave
    <3>2. QED
      BY <1>1, <1>2, <1>4, <3>1
  <2>6. QED
    BY <1>7, <2>1, <2>2, <2>3, <2>4, <2>5 DEF Client
<1>8. ASSUME NEW s \in Tabs, Server(s) PROVE Checking(t, i)
  <2>1. CASE Serve(s)
    <3> DEFINE u == IF ~Accepts(tab[s].access) THEN [tab[s] EXCEPT !.at = "refused", !.access = NoToken]
                    ELSE IF tab[s].intent = "logout" THEN [tab[s] EXCEPT !.at = "admitted"] ELSE NoRequest
    <3>1. tab' = [tab EXCEPT ![s] = u]
      BY <2>1 DEF Serve
    <3>2. u.at # "checked"
      <4>1. /\ [tab[s] EXCEPT !.at = "refused", !.access = NoToken].at # "checked"
            /\ [tab[s] EXCEPT !.at = "admitted"].at # "checked"
        BY DEF Tidy, TabState
      <4>2. QED
        BY <1>4, <4>1
    <3> HIDE DEF u
    <3>3. QED
      BY <1>1, <1>2, <3>1, <3>2
  <2>2. CASE Logout(s) \/ RefreshDies(s)
    <3>1. tab' = [tab EXCEPT ![s] = Leaving]
      BY <2>2 DEF Logout, RefreshDies
    <3>2. QED
      BY <1>1, <1>2, <1>4, <3>1
  <2>3. CASE RefreshCheck(s)
    <3> DEFINE u == IF Renewable(tab[s].refresh) THEN [tab[s] EXCEPT !.at = "checked"] ELSE Leaving
    <3>1. tab' = [tab EXCEPT ![s] = u] /\ s # t
      BY <2>3 DEF RefreshCheck
    <3> HIDE DEF u
    <3>2. QED
      BY <1>1, <3>1
  <2>4. CASE RefreshIssue(s)
    <3> DEFINE u == [tab[s] EXCEPT !.at = "renewed", !.access = issued + 1, !.refresh = NoToken]
    <3>1. tab' = [tab EXCEPT ![s] = u]
      BY <2>4 DEF RefreshIssue
    <3>2. u.at # "checked"
      BY DEF Tidy, TabState
    <3> HIDE DEF u
    <3>3. QED
      BY <1>1, <1>2, <3>1, <3>2
  <2>5. CASE RequestFails(s)
    <3>1. tab' = [tab EXCEPT ![s] = Failed(tab[s])]
      BY <2>5 DEF RequestFails
    <3>2. QED
      BY <1>1, <1>2, <1>5, <3>1 DEF Checking
  <2>6. QED
    BY <1>8, <2>1, <2>2, <2>3, <2>4, <2>5 DEF Server
<1>9. CASE AccessExpires \/ RefreshExpires \/ MarksLost \/ UNCHANGED sessionVars
  BY <1>6, <1>9 DEF AccessExpires, RefreshExpires, MarksLost, sessionVars
<1>10. CASE Restart
  <2>1. tab'[t] = Failed(tab[t])
    BY <1>10 DEF Restart
  <2>2. QED
    BY <1>5, <2>1 DEF Checking
<1>11. QED
  BY <1>7, <1>8, <1>9, <1>10 DEF SessionNext

(* A step that trades nothing in: marks go only with a loss or with the    *)
(* token.                                                                  *)
LEMMA NothingTraded ==
  ASSUME Exchanged, traded' = traded, stale' = stale, refreshMarks \subseteq refreshMarks' \cup lost',
         refreshMarks' \subseteq refreshMarks, raced \subseteq raced', lost \subseteq lost',
         \A t \in Tabs : \A i : Checking(t, i)' => Checking(t, i)
  PROVE  Exchanged'
<1>1. \A i \in stale' : traded'[i] = 0 /\ i \notin refreshMarks'
  BY DEF Exchanged
<1>2. RevokedWhenTraded'
  BY DEF Exchanged, RevokedWhenTraded
<1>3. ASSUME NEW i \in Pairs \ Hit' PROVE Once(i)'
  <2>1. i \in Pairs \ Hit /\ i \notin lost'
    BY <1>3 DEF Hit
  <2>2. Once(i)
    BY <2>1 DEF Exchanged
  <2>3. i \in refreshMarks => i \in refreshMarks'
    BY <2>1
  <2>4. QED
    BY <2>2, <2>3 DEF Once
<1>4. QED
  BY <1>1, <1>2, <1>3 DEF Exchanged

(* The exchange itself, whether or not the new pair arrives.               *)
LEMMA TradeIn ==
  ASSUME Tidy, Exchanged, NEW t \in Tabs, tab[t].at = "checked",
         refreshMarks' = refreshMarks \cup ({tab[t].refresh} \ stale),
         traded' = [traded EXCEPT ![tab[t].refresh] = IF tab[t].refresh \in stale THEN 0 ELSE More(@)],
         UNCHANGED <<stale, raced, lost>>,
         tab'[t].at # "checked",
         \A s \in Tabs : \A i : Checking(s, i)' => Checking(s, i)
  PROVE  Exchanged'
<1> DEFINE j == tab[t].refresh
<1>1. j \in Pairs /\ traded \in [Pairs -> 0..Many]
  <2>1. issued \in 0..MaxPairs /\ j \in 0..issued /\ j # 0
    BY DEF Tidy, RestTyped, Sound, TabState, NoToken
  <2>2. QED
    BY <2>1, SessionsAssumption DEF Pairs, Tidy, RestTyped
<1>2. \A i \in Pairs : traded'[i] = IF i # j THEN traded[i] ELSE IF j \in stale THEN 0 ELSE More(traded[j])
  BY <1>1
<1>3. Checking(t, j)
  BY DEF Checking
<1>4. More(traded[j]) > 0 /\ (traded[j] = 0 => More(traded[j]) # Many)
  BY <1>1 DEF More, Many
<1> HIDE DEF j
<1>5. refreshMarks' = refreshMarks \cup ({j} \ stale)
  BY DEF j
<1>6. \A i \in stale' : traded'[i] = 0 /\ i \notin refreshMarks'
  <2>1. ASSUME NEW i \in stale PROVE traded'[i] = 0 /\ i \notin refreshMarks'
    <3>1. traded[i] = 0 /\ i \notin refreshMarks /\ i \in Pairs
      BY SessionsAssumption DEF Exchanged, Tidy, RestTyped, Pairs
    <3>2. QED
      BY <1>2, <1>5, <2>1, <3>1
  <2>2. QED
    BY <2>1
<1>7. RevokedWhenTraded'
  <2>1. ASSUME NEW i \in refreshMarks' PROVE traded'[i] > 0
    <3>1. CASE i = j
      <4>1. j \notin stale
        BY <1>5, <2>1, <3>1 DEF Exchanged
      <4>2. i \in Pairs /\ traded'[i] = More(traded[j])
        BY <1>1, <1>2, <3>1, <4>1
      <4>3. QED
        BY <1>4, <4>2
    <3>2. CASE i # j
      <4>1. i \in refreshMarks /\ i \in Pairs
        <5>1. refreshMarks \subseteq 1..issued /\ issued \in 0..MaxPairs
          BY DEF Tidy, RestTyped
        <5>2. refreshMarks \subseteq Pairs
          BY <5>1, SessionsAssumption DEF Pairs
        <5>3. QED
          BY <1>5, <2>1, <3>2, <5>2
      <4>2. QED
        BY <1>2, <3>2, <4>1 DEF Exchanged, RevokedWhenTraded
    <3>3. QED
      BY <3>1, <3>2
  <2>2. QED
    BY <2>1 DEF RevokedWhenTraded
<1>8. ASSUME NEW i \in Pairs \ Hit' PROVE Once(i)'
  <2>1. i \notin stale /\ Once(i)
    BY <1>8 DEF Hit, Exchanged
  <2>2. CASE i = j
    <3>1. traded[i] = 0 /\ \A s \in Tabs : Checking(s, i) => s = t
      BY <1>1, <1>3, <2>1, <2>2 DEF Once
    <3>2. traded'[i] # Many /\ i \in refreshMarks'
      BY <1>2, <1>4, <1>5, <2>1, <2>2, <3>1
    <3>3. \A s \in Tabs : ~Checking(s, i)'
      BY <3>1 DEF Checking
    <3>4. QED
      BY <3>2, <3>3 DEF Once
  <2>3. CASE i # j
    <3>1. traded'[i] = traded[i]
      BY <1>2, <2>3
    <3>2. QED
      BY <1>5, <2>1, <3>1 DEF Once
  <2>4. QED
    BY <2>2, <2>3
<1>9. QED
  BY <1>6, <1>7, <1>8 DEF Exchanged

(* A check: a second handler past it is a race, and nobody passes once the *)
(* mark is there.                                                          *)
LEMMA CheckExchanged ==
  ASSUME Tidy, Exchanged, NEW t \in Tabs, RefreshCheck(t)
  PROVE  Exchanged'
<1> DEFINE j == tab[t].refresh
           u == IF Renewable(j) THEN [tab[t] EXCEPT !.at = "checked"] ELSE Leaving
<1>1. /\ tab[t].at = "renewing" /\ tab' = [tab EXCEPT ![t] = u]
      /\ raced' = raced \cup {tab[s].refresh : s \in {v \in Tabs \ {t} :
                      tab[v].at = "checked" /\ tab[v].refresh = j}}
      /\ UNCHANGED <<tokens, marks, lost, traded>>
  BY DEF RefreshCheck
<1>2. tab[t] \in TabState /\ tab \in [Tabs -> TabState]
  BY DEF Tidy, Sound
<1>3. u.at = "checked" => Renewable(j) /\ u.refresh = j
  BY <1>2 DEF TabState, Leaving, NoRequest
<1>4. UNCHANGED <<stale, refreshMarks, lost, traded>> /\ raced \subseteq raced'
  BY <1>1 DEF tokens, marks
<1>5. \A s \in Tabs : tab'[s] = IF s = t THEN u ELSE tab[s]
  BY <1>1, <1>2
<1> HIDE DEF u
<1>6. ASSUME NEW s \in Tabs, NEW i, Checking(s, i)'
      PROVE  IF s = t THEN i = j /\ Renewable(j) ELSE Checking(s, i)
  BY <1>3, <1>5, <1>6 DEF Checking
<1>7. ASSUME NEW i \in Pairs \ Hit' PROVE Once(i)'
  <2>1. Once(i) /\ i \notin raced'
    BY <1>4, <1>7 DEF Hit, Exchanged
  <2>2. CASE Checking(t, i)'
    <3>1. i = j /\ Renewable(i)
      BY <1>6, <2>2
    <3>2. \A s \in Tabs : s # t => ~Checking(s, i)
      BY <1>1, <2>1, <3>1 DEF Checking
    <3>3. \A s \in Tabs : Checking(s, i)' => s = t
      BY <1>6, <3>2
    <3>4. ~(traded[i] > 0)
      BY <2>1, <3>1 DEF Once, Renewable
    <3>5. QED
      BY <1>4, <2>1, <3>3, <3>4 DEF Once
  <2>3. CASE ~Checking(t, i)'
    <3>1. \A s \in Tabs : Checking(s, i)' => Checking(s, i)
      BY <1>6, <2>3
    <3>2. QED
      BY <1>4, <2>1, <3>1 DEF Once
  <2>4. QED
    BY <2>2, <2>3
<1>8. \A i \in stale' : traded'[i] = 0 /\ i \notin refreshMarks'
  BY <1>4 DEF Exchanged
<1>9. RevokedWhenTraded'
  BY <1>4 DEF Exchanged, RevokedWhenTraded
<1>10. QED
  BY <1>7, <1>8, <1>9 DEF Exchanged

LEMMA ExchangedStep == Tidy /\ Exchanged /\ [SessionNext]_sessionVars => Exchanged'
<1> SUFFICES ASSUME Tidy, Exchanged, [SessionNext]_sessionVars PROVE Exchanged'
  OBVIOUS
<1>1. ASSUME NEW t \in Tabs, RefreshCheck(t) PROVE Exchanged'
  BY <1>1, CheckExchanged
<1>2. CASE ~\E t \in Tabs : RefreshCheck(t)
  <2>1. \A t \in Tabs : \A i : Checking(t, i)' => Checking(t, i)
    BY <1>2, CheckedBefore
  <2>2. ASSUME UNCHANGED <<stale, refreshMarks, traded, raced, lost>> PROVE Exchanged'
    BY <2>1, <2>2, NothingTraded
  <2>3. ASSUME NEW t \in Tabs, RefreshIssue(t) \/ RefreshDies(t) PROVE Exchanged'
    <3>1. /\ tab[t].at = "checked"
          /\ refreshMarks' = refreshMarks \cup ({tab[t].refresh} \ stale)
          /\ traded' = [traded EXCEPT ![tab[t].refresh] = IF tab[t].refresh \in stale THEN 0 ELSE More(@)]
          /\ UNCHANGED <<stale, raced, lost>>
      BY <2>3 DEF RefreshIssue, RefreshDies, Issue, tokens
    <3>2. tab'[t].at # "checked"
      <4>1. CASE RefreshIssue(t)
        <5> DEFINE u == [tab[t] EXCEPT !.at = "renewed", !.access = issued + 1, !.refresh = NoToken]
        <5>1. tab' = [tab EXCEPT ![t] = u]
          BY <4>1 DEF RefreshIssue
        <5>2. u.at = "renewed"
          BY DEF Tidy, TabState
        <5> HIDE DEF u
        <5>3. QED
          BY <5>1, <5>2 DEF Tidy
      <4>2. CASE RefreshDies(t)
        BY <4>2 DEF RefreshDies, Leaving, NoRequest, Tidy
      <4>3. QED
        BY <2>3, <4>1, <4>2
    <3>3. QED
      BY <2>1, <3>1, <3>2, TradeIn
  <2>4. ASSUME NEW t \in Tabs, Client(t) PROVE Exchanged'
    <3>1. UNCHANGED <<stale, refreshMarks, traded, raced, lost>>
      BY <2>4 DEF Client, Login, Send, Refused, StoreRenewed, Leave, Issue, tokens, marks, traces
    <3>2. QED
      BY <2>2, <3>1
  <2>5. ASSUME NEW t \in Tabs, Serve(t) \/ Logout(t) \/ RequestFails(t) PROVE Exchanged'
    <3>1. UNCHANGED <<stale, refreshMarks, traded, raced, lost>>
      BY <2>5 DEF Serve, Logout, RequestFails, tokens, marks, traces
    <3>2. QED
      BY <2>2, <3>1
  <2>6. CASE AccessExpires \/ Restart \/ UNCHANGED sessionVars
    <3>1. UNCHANGED <<stale, refreshMarks, traded, raced, lost>>
      BY <2>6 DEF AccessExpires, Restart, sessionVars, tokens, marks, traces
    <3>2. QED
      BY <2>2, <3>1
  <2>7. CASE MarksLost
    <3>1. /\ UNCHANGED <<stale, traded, raced>> /\ refreshMarks' \subseteq refreshMarks
          /\ refreshMarks \subseteq refreshMarks' \cup lost' /\ lost \subseteq lost'
      BY <2>7 DEF MarksLost, tokens
    <3>2. QED
      BY <2>1, <3>1, NothingTraded
  <2>8. CASE RefreshExpires
    <3>1. PICK i \in (Held \cap expired) \ stale :
            /\ stale' = stale \cup {i}
            /\ refreshMarks' = refreshMarks \ {i} /\ traded' = [traded EXCEPT ![i] = 0]
            /\ raced' = raced \ {i} /\ lost' = lost \ {i}
      BY <2>8 DEF RefreshExpires
    <3>2. i \in Pairs /\ traded \in [Pairs -> 0..Many]
      <4>1. i \in 1..issued /\ issued \in 0..MaxPairs
        BY DEF Tidy, RestTyped
      <4>2. QED
        BY <4>1, SessionsAssumption DEF Pairs, Tidy, RestTyped
    <3>3. \A k \in Pairs : traded'[k] = IF k = i THEN 0 ELSE traded[k]
      BY <3>1, <3>2
    <3>4. \A k \in stale' : traded'[k] = 0 /\ k \notin refreshMarks'
      <4>1. \A k \in stale : k \in Pairs
        BY SessionsAssumption DEF Tidy, RestTyped, Pairs
      <4>2. QED
        BY <3>1, <3>2, <3>3, <4>1 DEF Exchanged
    <3>5. RevokedWhenTraded'
      <4>1. \A k \in refreshMarks : k \in Pairs
        BY SessionsAssumption DEF Tidy, RestTyped, Pairs
      <4>2. QED
        BY <3>1, <3>3, <4>1 DEF Exchanged, RevokedWhenTraded
    <3>6. ASSUME NEW k \in Pairs \ Hit' PROVE Once(k)'
      <4>1. k # i /\ k \in Pairs \ Hit
        BY <3>1, <3>6 DEF Hit
      <4>2. Once(k) /\ traded'[k] = traded[k]
        BY <3>3, <4>1 DEF Exchanged
      <4>3. QED
        BY <2>1, <3>1, <4>1, <4>2 DEF Once
    <3>7. QED
      BY <3>4, <3>5, <3>6 DEF Exchanged
  <2>9. QED
    BY <1>2, <2>3, <2>4, <2>5, <2>6, <2>7, <2>8 DEF SessionNext, Server
<1>3. QED
  BY <1>1, <1>2

-----------------------------------------------------------------------------
(* Without a refresh token in the storage, every renewal under way is one  *)
(* that the clearing crossed, and so is the one that stored last.          *)
Cleared ==
  store.refresh = NoToken =>
    /\ \A t \in Tabs : tab[t].at \in {"renewing", "checked", "renewed"} => t \in crossed.tabs
    /\ store.access # NoToken => store.access \in crossed.pairs

(* A logged out token keeps its mark as long as it matters.                *)
Ended == ended \subseteq lost \cup expired \cup accessMarks

(* A renewal under way began before: only Refused starts one, and only     *)
(* with a refresh token in the storage.                                    *)
Renewals == {"renewing", "checked", "renewed"}

LEMMA SameTab ==
  ASSUME Tidy, Cleared, UNCHANGED <<store, crossed>>, NEW t \in Tabs, NEW u,
         tab' = [tab EXCEPT ![t] = u],
         u.at \in Renewals => tab[t].at \in Renewals \/ store.refresh # NoToken
  PROVE  Cleared'
<1>1. \A s \in Tabs : tab'[s] = IF s = t THEN u ELSE tab[s]
  BY DEF Tidy
<1>2. QED
  BY <1>1 DEF Cleared, Renewals

LEMMA ClearedStep == Tidy /\ Cleared /\ [SessionNext]_sessionVars => Cleared'
<1> SUFFICES ASSUME Tidy, Cleared, [SessionNext]_sessionVars PROVE Cleared'
  OBVIOUS
<1>1. /\ NoRequest.at \notin Renewals /\ Leaving.at \notin Renewals
      /\ \A u : GiveUp(u).at \notin Renewals
  BY DEF NoRequest, Leaving, GiveUp, Renewals
<1>2. \A u : Failed(u).at \in Renewals => Failed(u) = u
  BY <1>1 DEF Failed
<1>3. \A t \in Tabs : tab[t] \in TabState
  BY DEF Tidy
<1>4. CASE UNCHANGED <<tab, store, crossed>>
  BY <1>4 DEF Cleared
<1>5. ASSUME NEW t \in Tabs, Client(t) PROVE Cleared'
  <2>1. ASSUME NEW p \in Providers, Login(t, p) PROVE Cleared'
    <3>1. store'.refresh = issued + 1
      BY <2>1 DEF Login
    <3>2. issued \in Nat
      BY SessionsAssumption DEF Tidy, RestTyped
    <3>3. QED
      BY <3>1, <3>2 DEF Cleared, NoToken
  <2>2. ASSUME NEW intent \in {"call", "logout"}, Send(t, intent) PROVE Cleared'
    <3> DEFINE u == [NoRequest EXCEPT !.at = "sent", !.intent = intent, !.access = store.access]
    <3>1. tab' = [tab EXCEPT ![t] = u] /\ u.at \notin Renewals /\ UNCHANGED <<store, crossed>>
      BY <2>2 DEF Send, NoRequest, Renewals, traces
    <3> HIDE DEF u
    <3>2. QED
      BY <3>1, SameTab
  <2>3. CASE Refused(t)
    <3> DEFINE u == IF tab[t].retried THEN GiveUp(tab[t])
                    ELSE IF store.refresh = NoToken THEN Leaving
                    ELSE [tab[t] EXCEPT !.at = "renewing", !.retried = TRUE, !.refresh = store.refresh]
    <3>1. tab' = [tab EXCEPT ![t] = u] /\ UNCHANGED <<store, crossed>>
      BY <2>3 DEF Refused, traces
    <3>2. u.at \in Renewals => store.refresh # NoToken
      BY <1>1
    <3> HIDE DEF u
    <3>3. QED
      BY <3>1, <3>2, SameTab
  <2>4. CASE StoreRenewed(t)
    <3> DEFINE u == [tab[t] EXCEPT !.at = "sent"]
    <3>1. /\ tab[t].at = "renewed" /\ tab' = [tab EXCEPT ![t] = u]
          /\ store' = [store EXCEPT !.access = tab[t].access]
          /\ crossed' = [tabs |-> crossed.tabs \ {t},
                         pairs |-> IF t \in crossed.tabs THEN {tab[t].access} ELSE {}]
      BY <2>4 DEF StoreRenewed
    <3>2. u.at = "sent"
      BY <1>3 DEF TabState
    <3> HIDE DEF u
    <3>3. \A s \in Tabs : tab'[s] = IF s = t THEN u ELSE tab[s]
      BY <3>1 DEF Tidy
    <3>4. store'.refresh = store.refresh /\ store'.access = tab[t].access
      BY <3>1 DEF Tidy, RestTyped
    <3>5. ASSUME store'.refresh = NoToken PROVE t \in crossed.tabs
      BY <3>1, <3>4, <3>5 DEF Cleared
    <3>6. ASSUME store'.refresh = NoToken, NEW s \in Tabs, tab'[s].at \in Renewals
          PROVE  s \in crossed'.tabs
      <4>1. s # t /\ tab'[s] = tab[s]
        BY <3>2, <3>3, <3>6 DEF Renewals
      <4>2. s \in crossed.tabs
        BY <3>4, <3>6, <4>1 DEF Cleared, Renewals
      <4>3. QED
        BY <3>1, <4>1, <4>2
    <3>7. QED
      BY <3>1, <3>4, <3>5, <3>6 DEF Cleared, Renewals
  <2>5. CASE Leave(t)
    <3>1. /\ store' = [access |-> NoToken, refresh |-> NoToken]
          /\ tab' = [tab EXCEPT ![t] = NoRequest]
          /\ crossed' = [tabs |-> {u \in Tabs : tab[u].at \in Renewals}, pairs |-> {}]
      BY <2>5 DEF Leave, Renewals
    <3>2. \A s \in Tabs : tab'[s] = IF s = t THEN NoRequest ELSE tab[s]
      BY <3>1 DEF Tidy
    <3>3. \A s \in Tabs : tab'[s].at \in Renewals => s \in crossed'.tabs
      BY <1>1, <3>1, <3>2
    <3>4. QED
      BY <3>1, <3>3 DEF Cleared, Renewals
  <2>6. QED
    BY <1>5, <2>1, <2>2, <2>3, <2>4, <2>5 DEF Client
<1>6. ASSUME NEW t \in Tabs, Server(t) PROVE Cleared'
  <2>1. UNCHANGED <<store, crossed>>
    BY <1>6 DEF Server, Serve, Logout, RefreshCheck, RefreshIssue, RefreshDies, RequestFails, traces
  <2>2. CASE Serve(t)
    <3> DEFINE u == IF ~Accepts(tab[t].access) THEN [tab[t] EXCEPT !.at = "refused", !.access = NoToken]
                    ELSE IF tab[t].intent = "logout" THEN [tab[t] EXCEPT !.at = "admitted"] ELSE NoRequest
    <3>1. tab' = [tab EXCEPT ![t] = u]
      BY <2>2 DEF Serve
    <3>2. /\ [tab[t] EXCEPT !.at = "refused", !.access = NoToken].at \notin Renewals
          /\ [tab[t] EXCEPT !.at = "admitted"].at \notin Renewals
      BY <1>3 DEF TabState, Renewals
    <3>3. u.at \notin Renewals
      BY <1>1, <3>2
    <3> HIDE DEF u
    <3>4. QED
      BY <2>1, <3>1, <3>3, SameTab
  <2>3. CASE Logout(t) \/ RefreshDies(t)
    <3>1. tab' = [tab EXCEPT ![t] = Leaving]
      BY <2>3 DEF Logout, RefreshDies
    <3>2. QED
      BY <1>1, <2>1, <3>1, SameTab
  <2>4. CASE RefreshCheck(t)
    <3> DEFINE u == IF Renewable(tab[t].refresh) THEN [tab[t] EXCEPT !.at = "checked"] ELSE Leaving
    <3>1. tab' = [tab EXCEPT ![t] = u] /\ tab[t].at \in Renewals
      BY <2>4 DEF RefreshCheck, Renewals
    <3> HIDE DEF u
    <3>2. QED
      BY <2>1, <3>1, SameTab
  <2>5. CASE RefreshIssue(t)
    <3> DEFINE u == [tab[t] EXCEPT !.at = "renewed", !.access = issued + 1, !.refresh = NoToken]
    <3>1. tab' = [tab EXCEPT ![t] = u] /\ tab[t].at \in Renewals
      BY <2>5 DEF RefreshIssue, Renewals
    <3> HIDE DEF u
    <3>2. QED
      BY <2>1, <3>1, SameTab
  <2>6. CASE RequestFails(t)
    <3>1. tab' = [tab EXCEPT ![t] = Failed(tab[t])]
      BY <2>6 DEF RequestFails
    <3>2. Failed(tab[t]).at \in Renewals => tab[t].at \in Renewals
      BY <1>2
    <3>3. QED
      BY <2>1, <3>1, <3>2, SameTab
  <2>7. QED
    BY <1>6, <2>2, <2>3, <2>4, <2>5, <2>6 DEF Server
<1>7. CASE AccessExpires \/ RefreshExpires \/ MarksLost \/ UNCHANGED sessionVars
  <2>1. UNCHANGED <<tab, store, crossed>>
    BY <1>7 DEF AccessExpires, RefreshExpires, MarksLost, sessionVars, traces
  <2>2. QED
    BY <1>4, <2>1
<1>8. CASE Restart
  <2>1. UNCHANGED <<store, crossed>> /\ \A t \in Tabs : tab'[t] = Failed(tab[t])
    BY <1>8 DEF Restart, traces
  <2>2. \A t \in Tabs : tab'[t].at \in Renewals => tab[t].at \in Renewals
    BY <1>2, <2>1
  <2>3. QED
    BY <2>1, <2>2 DEF Cleared, Renewals
<1>9. QED
  BY <1>5, <1>6, <1>7, <1>8 DEF SessionNext

LEMMA EndedStep == Ended /\ [SessionNext]_sessionVars => Ended'
<1> SUFFICES ASSUME Ended, [SessionNext]_sessionVars PROVE Ended'
  OBVIOUS
<1>1. ASSUME UNCHANGED <<ended, lost, expired, accessMarks>> PROVE Ended'
  BY <1>1 DEF Ended
<1>2. ASSUME NEW t \in Tabs, Client(t) PROVE Ended'
  BY <1>1, <1>2 DEF Client, Login, Send, Refused, StoreRenewed, Leave, Issue, tokens, marks, traces
<1>3. ASSUME NEW t \in Tabs, Logout(t) PROVE Ended'
  BY <1>3 DEF Logout, Ended, tokens
<1>4. ASSUME NEW t \in Tabs, Server(t), ~Logout(t) PROVE Ended'
  BY <1>1, <1>4 DEF Server, Serve, RefreshCheck, RefreshIssue, RefreshDies, RequestFails, Issue, tokens, marks, traces
<1>5. CASE AccessExpires
  BY <1>5 DEF AccessExpires, Ended
<1>6. CASE RefreshExpires
  BY <1>6 DEF RefreshExpires, Ended
<1>7. CASE MarksLost
  BY <1>7 DEF MarksLost, Ended, tokens
<1>8. CASE Restart \/ UNCHANGED sessionVars
  BY <1>1, <1>8 DEF Restart, sessionVars, tokens, marks, traces
<1>9. QED
  BY <1>2, <1>3, <1>4, <1>5, <1>6, <1>7, <1>8 DEF SessionNext

LEMMA SessionsKept == SessionSpec => [](Tidy /\ Exchanged /\ Cleared /\ Ended)
<1>1. SessionInit => Exchanged /\ Cleared /\ Ended
  <2> SUFFICES ASSUME SessionInit PROVE Exchanged /\ Cleared /\ Ended
    OBVIOUS
  <2>1. \A t \in Tabs : tab[t].at = "idle"
    BY DEF SessionInit, NoRequest
  <2>2. Exchanged
    BY <2>1 DEF SessionInit, Exchanged, RevokedWhenTraded, Once, Checking, Many
  <2>3. Cleared
    BY <2>1 DEF SessionInit, Cleared
  <2>4. Ended
    BY DEF SessionInit, Ended
  <2>5. QED
    BY <2>2, <2>3, <2>4
<1>2. Tidy /\ Exchanged /\ Cleared /\ Ended /\ [SessionNext]_sessionVars => (Tidy /\ Exchanged /\ Cleared /\ Ended)'
  BY TidyStep, ExchangedStep, ClearedStep, EndedStep
<1>3. QED
  BY <1>1, <1>2, TidyInit, PTL DEF SessionSpec

(* Types, for any number of tabs; who renews or is past the check holds a  *)
(* refresh token.                                                          *)
THEOREM SessionsTyped == SessionSpec => []TypeOK
  BY SessionsKept, TidyTyped, PTL

(* A refresh token is exchanged twice only by two handlers that were both  *)
(* past the check, or after Redis lost its mark, for any number of tabs.   *)
THEOREM ReuseNamed == SessionSpec => []ReuseNeedsOverlap
<1>1. Exchanged => ReuseNeedsOverlap
  <2> SUFFICES ASSUME Exchanged, NEW i \in Pairs, traded[i] = Many PROVE i \in raced \cup lost
    BY DEF ReuseNeedsOverlap
  <2>1. i \notin stale
    BY DEF Exchanged, Many
  <2>2. QED
    BY <2>1 DEF Exchanged, Once, Hit
<1>2. QED
  BY <1>1, SessionsKept, PTL

(* The mark of a refresh token goes back to a renewal that went through.   *)
THEOREM RevokedByTrade == SessionSpec => []RevokedWhenTraded
<1>1. Exchanged => RevokedWhenTraded
  BY DEF Exchanged
<1>2. QED
  BY <1>1, SessionsKept, PTL

(* A logout ends its access token, and an access token that is stored      *)
(* alone comes from a renewal the clearing crossed.                        *)
THEOREM SessionsEnd == SessionSpec => []SessionEnds
<1>1. Cleared /\ Ended => SessionEnds
  BY DEF Cleared, Ended, SessionEnds, Accepts
<1>2. QED
  BY <1>1, SessionsKept, PTL
=============================================================================
