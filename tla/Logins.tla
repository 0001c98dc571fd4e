------------------------------- MODULE Logins -------------------------------
(***************************************************************************)
(* The two ways in: admin_login with its failure counters and locks, and   *)
(* sso_login with the users it finds, binds or makes (services/auth.py,    *)
(* api/v1/auth.py).  A counter is INCR, EXPIRE when it is the first, and   *)
(* SET of a lock at the threshold, each a call of its own; the users table *)
(* has unique (tenant_id, email) and (sso_provider, sso_provider_id).      *)
(***************************************************************************)
EXTENDS Naturals, FiniteSets

CONSTANTS
  Handlers,       (* requests under way at once                            *)
  Emails,         (* typed into the login form                             *)
  SsoEmails,      (* said by the SSO providers                             *)
  AdminEmail,     (* ADMIN_EMAIL, "" when there is none                    *)
  Identities,     (* <<provider, provider_id>> of SSO users                *)
  Placeholder,    (* the email given to each when the provider has none    *)
  Threshold,      (* ADMIN_LOGIN_MAX_FAILURES and _IP_MAX_FAILURES         *)
  MaxUsers        (* rows of users: one for each identity there can be     *)

Local == "local"
Ids == 1..MaxUsers
NoUser == 0
NoEmail == ""

(* The counters: one of each email, and one of the client's address.       *)
Ip == "ip"
Counters == Emails \cup {Ip}
ThresholdOf(c) == IF c = Ip THEN Threshold.ip ELSE Threshold.email

ASSUME LoginsAssumption ==
  /\ Ip \notin Emails /\ IsFiniteSet(Handlers)
  /\ MaxUsers \in Nat /\ MaxUsers > Cardinality(Identities)
  /\ Threshold \in [email : Nat \ {0}, ip : Nat \ {0}]
  /\ \A i \in Identities : i # <<>> /\ i[1] # Local

VARIABLES
  fails,   (* admin_login:fail:* , 0 when there is none                    *)
  ticking, (* counters with a TTL                                          *)
  locks,   (* admin_login:lock:*                                           *)
  users,   (* rows of users                                                *)
  tenants, (* rows of tenants, by slug                                     *)
  req,     (* the request of each handler                                  *)
  tries,   (* history: wrong passwords tried for each email since its lock *)
           (* or its counter last went                                     *)
  missed,  (* history: counters that missed a failure since, or whose      *)
           (* handler broke off before EXPIRE                              *)
  torn     (* history: counters whose handler broke off before EXPIRE      *)

counters == <<fails, ticking, locks>>
history == <<tries, missed, torn>>
vars == <<counters, users, tenants, req, history>>

Free == [in |-> "none", identity |-> <<>>, email |-> "", role |-> "none"]

Idle == [at |-> "idle", email |-> "", identity |-> <<>>, user |-> NoUser,
         counter |-> Ip, count |-> 0, known |-> FALSE]

Init ==
  /\ fails = [c \in Counters |-> 0] /\ ticking = {} /\ locks = {}
  /\ users = [i \in Ids |-> Free] /\ tenants = {}
  /\ req = [h \in Handlers |-> Idle]
  /\ tries = [e \in Emails |-> 0] /\ missed = {} /\ torn = {}

Put(h, state) == req' = [req EXCEPT ![h] = state]
Go(h, place) == [req[h] EXCEPT !.at = place]

-----------------------------------------------------------------------------
(* Redis lets counters and locks go.                                       *)

CounterLapses(c) ==
  /\ c \in ticking
  /\ fails' = [fails EXCEPT ![c] = 0] /\ ticking' = ticking \ {c}
  /\ tries' = IF c \in Emails THEN [tries EXCEPT ![c] = 0] ELSE tries
  /\ missed' = missed \ {c} /\ torn' = torn \ {c}
  /\ UNCHANGED <<locks, users, tenants, req>>

LockLapses(c) ==
  /\ c \in locks /\ locks' = locks \ {c}
  /\ tries' = IF c \in Emails THEN [tries EXCEPT ![c] = 0] ELSE tries
  /\ UNCHANGED <<fails, ticking, users, tenants, req, missed, torn>>

-----------------------------------------------------------------------------
(* admin_login.                                                            *)

(* _check_admin_login_locks, let through when Redis does not answer.       *)
Check(h, e, answers) ==
  /\ req[h].at = "idle"
  /\ answers => locks \cap {e, Ip} = {}
  /\ Put(h, [Idle EXCEPT !.at = "verify", !.email = e])
  /\ missed' = IF answers THEN missed ELSE missed \cup {e}
  /\ tries' = IF answers THEN tries ELSE [tries EXCEPT ![e] = 0]
  /\ UNCHANGED <<counters, users, tenants, torn>>

LocalUser(e) == {i \in Ids : users[i].identity = <<Local, e>>}

(* The row of the admin is read first, whatever the password.              *)
VerifyOk(h) ==
  /\ req[h].at = "verify" /\ req[h].email = AdminEmail
  /\ Put(h, [Go(h, "clear") EXCEPT
               !.user = IF LocalUser(AdminEmail) = {} THEN NoUser
                        ELSE CHOOSE i \in LocalUser(AdminEmail) : TRUE])
  /\ UNCHANGED <<counters, users, tenants, history>>

VerifyFails(h) ==
  /\ req[h].at = "verify"
  /\ Put(h, [Go(h, "incr") EXCEPT !.counter = req[h].email])
  /\ tries' = [tries EXCEPT ![req[h].email] =
                 IF req[h].email \in missed THEN 0 ELSE @ + 1]
  /\ UNCHANGED <<counters, users, tenants, missed, torn>>

Incr_atLock(h) ==     \* Mutant: the window is set with the lock
  /\ req[h].at = "incr"
  /\ LET c == req[h].counter
         n == IF fails[c] < ThresholdOf(c) THEN fails[c] + 1 ELSE fails[c]
     IN  /\ fails' = [fails EXCEPT ![c] = n]
         /\ Put(h, [Go(h, IF n = ThresholdOf(c) THEN "expire" ELSE "lock") EXCEPT !.count = n])
  /\ UNCHANGED <<ticking, locks, users, tenants, history>>

Incr(h) ==
  /\ req[h].at = "incr"
  /\ LET c == req[h].counter
         n == IF fails[c] < ThresholdOf(c) THEN fails[c] + 1 ELSE fails[c]
     IN  /\ fails' = [fails EXCEPT ![c] = n]
         /\ Put(h, [Go(h, IF fails[c] = 0 THEN "expire" ELSE "lock") EXCEPT !.count = n])
  /\ UNCHANGED <<ticking, locks, users, tenants, history>>

(* EXPIRE of a counter that is gone does nothing.                          *)
Expire(h) ==
  /\ req[h].at = "expire"
  /\ ticking' = IF fails[req[h].counter] = 0 THEN ticking
                ELSE ticking \cup {req[h].counter}
  /\ torn' = torn \ {req[h].counter}
  /\ Put(h, Go(h, "lock"))
  /\ UNCHANGED <<fails, locks, users, tenants, tries, missed>>

(* After the counter of the email, that of the address.                    *)
Counted(h) ==
  IF req[h].counter = Ip THEN Idle
  ELSE [Go(h, "incr") EXCEPT !.counter = Ip, !.count = 0]

Lock_late(h) ==     \* Mutant: > for >=
  /\ req[h].at = "lock"
  /\ locks' = IF req[h].count > ThresholdOf(req[h].counter)
                THEN locks \cup {req[h].counter} ELSE locks
  /\ Put(h, Counted(h))
  /\ UNCHANGED <<fails, ticking, users, tenants, history>>

Lock(h) ==
  /\ req[h].at = "lock"
  /\ locks' = IF req[h].count >= ThresholdOf(req[h].counter)
                THEN locks \cup {req[h].counter} ELSE locks
  /\ Put(h, Counted(h))
  /\ UNCHANGED <<fails, ticking, users, tenants, history>>

(* A process that stops, or an error of Redis, which is swallowed: what    *)
(* was still to come of the counting is left out.                          *)
Counting(h) == req[h].at \in {"incr", "expire", "lock"}

BreaksOff(h) ==
  /\ Counting(h)
  /\ Put(h, Idle)
  /\ missed' = missed \cup {req[h].email} /\ tries' = [tries EXCEPT ![req[h].email] = 0]
  /\ torn' = IF req[h].at = "expire" THEN torn \cup {req[h].counter} ELSE torn
  /\ UNCHANGED <<counters, users, tenants>>

(* _clear_admin_login_failures; without Redis the counter stays.  Then the *)
(* system tenant is looked up.                                             *)
Clear(h, answers) ==
  /\ req[h].at = "clear"
  /\ Put(h, [Go(h, "upsert") EXCEPT !.known = "system" \in tenants])
  /\ IF answers
       THEN /\ fails' = [fails EXCEPT ![req[h].email] = 0]
            /\ ticking' = ticking \ {req[h].email}
            /\ tries' = [tries EXCEPT ![req[h].email] = 0]
            /\ missed' = missed \ {req[h].email} /\ torn' = torn \ {req[h].email}
            /\ UNCHANGED locks
       ELSE UNCHANGED <<counters, history>>
  /\ UNCHANGED <<users, tenants>>

-----------------------------------------------------------------------------
(* The users.                                                              *)

Taken(i, row) ==     \* a unique constraint the row would break
  \E j \in Ids \ {i} :
    \/ users[j].identity = row.identity
    \/ users[j].in = row.in /\ users[j].email = row.email

(* A write and its commit; an insert of the tenant or the user that        *)
(* another request has made meanwhile is an IntegrityError.                *)
Save(h, i, row) ==
  /\ IF Taken(i, row) \/ (~req[h].known /\ row.in \in tenants)
       THEN UNCHANGED <<users, tenants>>
       ELSE users' = [users EXCEPT ![i] = row] /\ tenants' = tenants \cup {row.in}
  /\ Put(h, Idle)
  /\ UNCHANGED <<counters, history>>

(* When there is none, the identity has a row already.                     *)
Slot == IF \E i \in Ids : users[i] = Free THEN CHOOSE i \in Ids : users[i] = Free ELSE NoUser

(* _upsert_admin_user.                                                     *)
UpsertAdmin(h) ==
  /\ req[h].at = "upsert"
  /\ LET row == [in |-> "system", identity |-> <<Local, req[h].email>>,
                 email |-> req[h].email, role |-> "admin"]
         i == req[h].user
     IN  IF i # NoUser
           THEN Save(h, i, [users[i] EXCEPT !.email = req[h].email, !.role = "admin"])
           ELSE Save(h, Slot, row)

(* What get_user_info may answer: an account says any email, or none, as   *)
(* one of GitHub does that shows no address.                               *)
Profiles == Identities \X (SsoEmails \cup {NoEmail})

(* sso_login, after the provider has said who it is; _get_or_create_user:  *)
(* by identity, ...                                                        *)
SsoFind(h, who, e) ==
  /\ req[h].at = "idle"
  /\ LET found == {i \in Ids : users[i].identity = who}
     IN  Put(h, [Idle EXCEPT !.at = IF found # {} THEN "refresh"
                                    ELSE IF e = NoEmail THEN "save" ELSE "byEmail",
                             !.identity = who, !.email = e,
                             !.user = IF found = {} THEN NoUser
                                      ELSE CHOOSE i \in found : TRUE,
                             !.known = found # {} \/ "default" \in tenants])
  /\ UNCHANGED <<counters, users, tenants, history>>

SsoByEmail_any(h) ==     \* Mutant: any row with that email, as it once was
  /\ req[h].at = "byEmail"
  /\ LET found == {i \in Ids : users[i].email = req[h].email}
     IN  Put(h, [Go(h, "save") EXCEPT !.user = IF found = {} THEN NoUser
                                               ELSE CHOOSE i \in found : TRUE])
  /\ UNCHANGED <<counters, users, tenants, history>>

(* ... by email within the default tenant, never a local account ...       *)
SsoByEmail(h) ==
  /\ req[h].at = "byEmail"
  /\ LET found == {i \in Ids : /\ users[i].email = req[h].email
                               /\ users[i].in = "default"
                               /\ users[i].identity[1] # Local}
     IN  Put(h, [Go(h, "save") EXCEPT !.user = IF found = {} THEN NoUser
                                               ELSE CHOOSE i \in found : TRUE])
  /\ UNCHANGED <<counters, users, tenants, history>>

(* ... which is bound to the identity, or a new member.                    *)
SsoSave(h) ==
  /\ req[h].at = "save"
  /\ LET i == req[h].user
         row == [in |-> "default", identity |-> req[h].identity,
                 email |-> IF req[h].email = NoEmail THEN Placeholder[req[h].identity]
                           ELSE req[h].email,
                 role |-> "member"]
     IN  IF i # NoUser
           THEN Save(h, i, [users[i] EXCEPT !.identity = req[h].identity])
           ELSE Save(h, Slot, row)

(* The profile of a known identity follows the provider.                   *)
SsoRefresh(h) ==
  /\ req[h].at = "refresh"
  /\ Save(h, req[h].user, [users[req[h].user] EXCEPT
                             !.email = IF req[h].email = NoEmail THEN @ ELSE req[h].email])

-----------------------------------------------------------------------------
Next ==
  \/ \E c \in Counters : CounterLapses(c) \/ LockLapses(c)
  \/ \E h \in Handlers :
       \/ \E e \in Emails, answers \in BOOLEAN : Check(h, e, answers)
       \/ \E profile \in Profiles : SsoFind(h, profile[1], profile[2])
       \/ \E answers \in BOOLEAN : Clear(h, answers)
       \/ VerifyOk(h) \/ VerifyFails(h)
       \/ Incr(h) \/ Expire(h) \/ Lock(h) \/ BreaksOff(h)
       \/ UpsertAdmin(h) \/ SsoByEmail(h) \/ SsoSave(h) \/ SsoRefresh(h)

Spec == Init /\ [][Next]_vars

-----------------------------------------------------------------------------
(* A wrong password is tried for an email at most Threshold - 1 times and  *)
(* once more by every handler that looked at the lock before it was set,   *)
(* until the lock or the counter lapses: whatever handlers stand between   *)
(* INCR and SET, as long as no failure of Redis loses a count              *)
(* (_check_admin_login_locks and _register_admin_login_failure,            *)
(* auth.py:384-428).                                                       *)
AttemptsBounded ==
  \A e \in Emails \ missed :
    tries[e] <= Threshold.email - 1 + Cardinality(Handlers)

(* A counter that never lapses locks the admin out again at each mistake;  *)
(* there is one only after a handler broke off between INCR and EXPIRE     *)
(* (auth.py:424-426).                                                      *)
StuckNamed ==
  \A c \in Counters : fails[c] > 0 /\ c \notin ticking =>
    c \in torn \/ \E h \in Handlers : req[h].at = "expire" /\ req[h].counter = c

(* No order of first logins, rebindings by email and changes of email      *)
(* mixes the two kinds of users: the accounts of the system tenant are the *)
(* local admins, and nobody else has their role (_get_or_create_user and   *)
(* _upsert_admin_user, auth.py:292-364 and 436-460).                       *)
AdminIsolated ==
  \A i \in Ids : users[i] # Free =>
    /\ (users[i].identity[1] = Local) <=> (users[i].in = "system")
    /\ (users[i].identity[1] = Local) <=> (users[i].role = "admin")
=============================================================================
