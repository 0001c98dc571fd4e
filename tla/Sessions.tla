------------------------------ MODULE Sessions ------------------------------
(***************************************************************************)
(* The tokens of one browser: core/security.py, the refresh and logout of  *)
(* services/auth.py and api/v1/auth.py, get_current_user of                *)
(* dependencies.py, and their client, frontend/src/utils/api.ts and        *)
(* stores/auth.ts.  Tokens carry all they say and the server only stores a *)
(* mark in Redis for those it has revoked.  The tabs share one local       *)
(* storage, and each has one request under way.                            *)
(***************************************************************************)
EXTENDS Naturals, FiniteSets

CONSTANTS
  Tabs,
  MaxPairs,  (* bound of the model: token pairs issued                     *)
  MaxLost    (* bound of the model: pairs whose marks are lost             *)

ASSUME SessionsAssumption == MaxPairs \in Nat /\ MaxLost \in Nat /\ IsFiniteSet(Tabs)

Pairs == 1..MaxPairs      \* one access and one refresh token each
NoToken == 0
Providers == {"sso", "local"}

VARIABLES
  issued,       (* pairs issued so far                                     *)
  provider,    (* claim of the tokens of each pair                         *)
  expired,      (* pairs whose access token has expired                    *)
  stale,        (* pairs whose refresh token has expired too               *)
  accessMarks,  (* token_blacklist:{jti} of access tokens                  *)
  refreshMarks, (* and of refresh tokens                                   *)
  adminOn,      (* settings.admin_login_enabled                            *)
  store,        (* localStorage: access_token and refresh_token            *)
  tab,          (* the request of each tab                                 *)
  traded,       (* history: renewals by each refresh token, 0, 1, Many     *)
  raced,        (* history: refresh tokens two handlers had checked at once*)
  lost,         (* history: pairs a mark of which Redis lost               *)
  ended,        (* history: access tokens that logged out                  *)
  crossed       (* history: tabs whose renewal was under way when the      *)
                (* storage was cleared, and the pair one of them stored    *)

tokens == <<issued, provider, expired, stale>>
marks == <<accessMarks, refreshMarks>>
traces == <<traded, raced, lost, ended, crossed>>
sessionVars == <<tokens, marks, adminOn, store, tab, traces>>

Many == 2
More(n) == IF n = Many THEN Many ELSE n + 1

NoRequest == [at |-> "idle", intent |-> "call", retried |-> FALSE,
              access |-> NoToken, refresh |-> NoToken]

SessionInit ==
  /\ issued = 0 /\ provider = [i \in Pairs |-> "sso"]
  /\ expired = {} /\ stale = {}
  /\ accessMarks = {} /\ refreshMarks = {}
  /\ adminOn \in BOOLEAN
  /\ store = [access |-> NoToken, refresh |-> NoToken]
  /\ tab = [t \in Tabs |-> NoRequest]
  /\ traded = [i \in Pairs |-> 0]
  /\ raced = {} /\ lost = {} /\ ended = {}
  /\ crossed = [tabs |-> {}, pairs |-> {}]

-----------------------------------------------------------------------------
(* Tokens and marks.                                                       *)

(* is_token_blacklisted and extract_user_from_token.                       *)
Accepts(i) == i # NoToken /\ i \notin expired \cup accessMarks

(* decode_token, the kill switch of local sessions, and the mark, in this  *)
(* order: none of them changes anything.                                   *)
Renewable(i) ==
  /\ i # NoToken /\ i \notin stale
  /\ provider[i] = "local" => adminOn
  /\ i \notin refreshMarks

(* create_access_token and create_refresh_token.                           *)
Issue(p) ==
  /\ issued < MaxPairs
  /\ issued' = issued + 1
  /\ provider' = [provider EXCEPT ![issued + 1] = p]
  /\ UNCHANGED <<expired, stale>>

(* Tokens somebody holds; what happens to the others changes nothing.      *)
Held == {store.access, store.refresh} \cup {tab[t].access : t \in Tabs} \cup
        {tab[t].refresh : t \in Tabs}

(* An access token lives for an hour, a refresh token for seven days; a    *)
(* mark goes with its token, and so does what we remember of it.           *)
AccessExpires ==
  /\ \E i \in Held \ (expired \cup {NoToken}) :
       /\ expired' = expired \cup {i}
       /\ accessMarks' = accessMarks \ {i} /\ ended' = ended \ {i}
  /\ UNCHANGED <<issued, provider, stale, refreshMarks, adminOn, store, tab,
                 traded, raced, lost, crossed>>

RefreshExpires ==
  /\ \E i \in (Held \cap expired) \ stale :
       /\ stale' = stale \cup {i}
       /\ refreshMarks' = refreshMarks \ {i} /\ traded' = [traded EXCEPT ![i] = 0]
       /\ raced' = raced \ {i} /\ lost' = lost \ {i}
  /\ UNCHANGED <<issued, provider, expired, accessMarks, adminOn, store, tab,
                 ended, crossed>>

(* A mark outlives its token, unless Redis evicts it (allkeys-lru) or      *)
(* restarts with an older snapshot.                                        *)
MarksLost ==
  /\ Cardinality(lost) < MaxLost
  /\ \E i \in Held \cap (accessMarks \cup refreshMarks) :
       /\ accessMarks' = accessMarks \ {i} /\ refreshMarks' = refreshMarks \ {i}
       /\ lost' = lost \cup {i}
  /\ UNCHANGED <<tokens, adminOn, store, tab, traded, raced, ended, crossed>>

-----------------------------------------------------------------------------
(* The client: interceptors of api.ts, storeLoginResponse and logout.      *)

(* The guards of the router show the login page to a browser without a     *)
(* session, and the admin one to an SSO session as well.                   *)
Login(t, p) ==
  /\ tab[t].at = "idle" /\ (p = "local" => adminOn)
  /\ store.access # NoToken => p = "local" /\ provider[store.access] = "sso"
  /\ Issue(p)
  /\ store' = [access |-> issued + 1, refresh |-> issued + 1]
  /\ UNCHANGED <<marks, adminOn, tab, traces>>

Send(t, intent) ==
  /\ tab[t].at = "idle"
  /\ tab' = [tab EXCEPT ![t] = [NoRequest EXCEPT !.at = "sent", !.intent = intent,
                                                 !.access = store.access]]
  /\ UNCHANGED <<tokens, marks, adminOn, store, traces>>

(* Both end with the storage cleared, whatever another tab has stored.     *)
Leave(t) ==
  /\ tab[t].at = "leaving"
  /\ store' = [access |-> NoToken, refresh |-> NoToken]
  /\ tab' = [tab EXCEPT ![t] = NoRequest]
  /\ crossed' = [tabs |-> {u \in Tabs : tab[u].at \in {"renewing", "checked", "renewed"}},
                 pairs |-> {}]
  /\ UNCHANGED <<tokens, marks, adminOn, traded, raced, lost, ended>>

(* A request that ends without a 401: a logout still clears the storage.   *)
Leaving == [NoRequest EXCEPT !.at = "leaving"]
GiveUp(u) == IF u.intent = "logout" THEN Leaving ELSE NoRequest

(* A 401: one renewal, with the refresh token stored now; the session is   *)
(* over when there is none.                                                *)
Refused(t) ==
  /\ tab[t].at = "refused"
  /\ tab' = [tab EXCEPT ![t] =
       IF @.retried THEN GiveUp(@)
       ELSE IF store.refresh = NoToken THEN Leaving
       ELSE [@ EXCEPT !.at = "renewing", !.retried = TRUE, !.refresh = store.refresh]]
  /\ UNCHANGED <<tokens, marks, adminOn, store, traces>>

(* The new access token is stored, the new refresh token is not; then the  *)
(* request is made again.                                                  *)
StoreRenewed(t) ==
  /\ tab[t].at = "renewed"
  /\ store' = [store EXCEPT !.access = tab[t].access]
  /\ tab' = [tab EXCEPT ![t].at = "sent"]
  /\ crossed' = [tabs |-> crossed.tabs \ {t},
                 pairs |-> IF t \in crossed.tabs THEN {tab[t].access} ELSE {}]
  /\ UNCHANGED <<tokens, marks, adminOn, traded, raced, lost, ended>>

-----------------------------------------------------------------------------
(* The server.                                                             *)

(* get_current_user; only a logout goes on to change something.            *)
Serve(t) ==
  /\ tab[t].at = "sent"
  /\ tab' = [tab EXCEPT ![t] =
       IF ~Accepts(@.access) THEN [@ EXCEPT !.at = "refused", !.access = NoToken]
       ELSE IF @.intent = "logout" THEN [@ EXCEPT !.at = "admitted"]
       ELSE NoRequest]
  /\ UNCHANGED <<tokens, marks, adminOn, store, traces>>

(* Mutant: the token that is revoked is the one stored last.               *)
Logout_latest(t) ==
  /\ tab[t].at = "admitted"
  /\ accessMarks' = accessMarks \cup ({issued} \ expired)
  /\ ended' = ended \cup ({tab[t].access} \ expired)
  /\ tab' = [tab EXCEPT ![t] = Leaving]
  /\ UNCHANGED <<tokens, refreshMarks, adminOn, store, traded, raced, lost, crossed>>

(* The access token is marked for the time it has left; the client sends   *)
(* no refresh token, which stays good.                                     *)
Logout(t) ==
  /\ tab[t].at = "admitted"
  /\ accessMarks' = accessMarks \cup ({tab[t].access} \ expired)
  /\ ended' = ended \cup ({tab[t].access} \ expired)
  /\ tab' = [tab EXCEPT ![t] = Leaving]
  /\ UNCHANGED <<tokens, refreshMarks, adminOn, store, traded, raced, lost, crossed>>

(* Mutant: the token is revoked before the kill switch is looked at.       *)
RefreshCheck_revoking(t) ==
  /\ tab[t].at = "renewing"
  /\ tab' = [tab EXCEPT ![t] =
       IF Renewable(@.refresh) THEN [@ EXCEPT !.at = "checked"] ELSE Leaving]
  /\ refreshMarks' = refreshMarks \cup ({tab[t].refresh} \ stale)
  /\ raced' = raced \cup {tab[u].refresh : u \in {v \in Tabs \ {t} :
                tab[v].at = "checked" /\ tab[v].refresh = tab[t].refresh}}
  /\ UNCHANGED <<tokens, accessMarks, adminOn, store, traded, lost, ended, crossed>>

(* refresh_token up to the awaits of the blacklist and of the user.  Any   *)
(* refusal, like any other error, ends the session at the client.          *)
RefreshCheck(t) ==
  /\ tab[t].at = "renewing"
  /\ tab' = [tab EXCEPT ![t] =
       IF Renewable(@.refresh) THEN [@ EXCEPT !.at = "checked"] ELSE Leaving]
  /\ raced' = raced \cup {tab[u].refresh : u \in {v \in Tabs \ {t} :
                tab[v].at = "checked" /\ tab[v].refresh = tab[t].refresh}}
  /\ UNCHANGED <<tokens, marks, adminOn, store, traded, lost, ended, crossed>>

(* Mutant: the old token is not revoked.                                   *)
RefreshIssue_keep(t) ==
  /\ tab[t].at = "checked"
  /\ Issue(provider[tab[t].refresh])
  /\ traded' = [traded EXCEPT ![tab[t].refresh] =
                  IF tab[t].refresh \in stale THEN 0 ELSE More(@)]
  /\ tab' = [tab EXCEPT ![t].at = "renewed", ![t].access = issued + 1,
                     ![t].refresh = NoToken]
  /\ UNCHANGED <<marks, adminOn, store, raced, lost, ended, crossed>>

(* The old token is marked, unless it has expired since, and a pair is     *)
(* issued for the same user and provider.                                  *)
RefreshIssue(t) ==
  /\ tab[t].at = "checked"
  /\ refreshMarks' = refreshMarks \cup ({tab[t].refresh} \ stale)
  /\ Issue(provider[tab[t].refresh])
  /\ traded' = [traded EXCEPT ![tab[t].refresh] =
                  IF tab[t].refresh \in stale THEN 0 ELSE More(@)]
  /\ tab' = [tab EXCEPT ![t].at = "renewed", ![t].access = issued + 1,
                     ![t].refresh = NoToken]
  /\ UNCHANGED <<accessMarks, adminOn, store, raced, lost, ended, crossed>>

(* The answer is lost after the mark, and the pair with it.                *)
RefreshDies(t) ==
  /\ tab[t].at = "checked"
  /\ refreshMarks' = refreshMarks \cup ({tab[t].refresh} \ stale)
  /\ traded' = [traded EXCEPT ![tab[t].refresh] =
                  IF tab[t].refresh \in stale THEN 0 ELSE More(@)]
  /\ tab' = [tab EXCEPT ![t] = Leaving]
  /\ UNCHANGED <<tokens, accessMarks, adminOn, store, raced, lost, ended, crossed>>

(* An error of Redis or the network, or the end of the process, before     *)
(* anything changed.                                                       *)
Failed(u) ==
  CASE u.at \in {"sent", "admitted"} -> GiveUp(u)
    [] u.at \in {"renewing", "checked"} -> Leaving
    [] OTHER -> u

RequestFails(t) ==
  /\ Failed(tab[t]) # tab[t]
  /\ tab' = [tab EXCEPT ![t] = Failed(@)]
  /\ UNCHANGED <<tokens, marks, adminOn, store, traces>>

(* The settings change only with the process, and its requests go with it. *)
Restart ==
  /\ adminOn' = ~adminOn
  /\ tab' = [t \in Tabs |-> Failed(tab[t])]
  /\ UNCHANGED <<tokens, marks, store, traces>>

-----------------------------------------------------------------------------
Client(t) ==
  \/ \E p \in Providers : Login(t, p)
  \/ \E intent \in {"call", "logout"} : Send(t, intent)
  \/ Refused(t) \/ StoreRenewed(t) \/ Leave(t)
Server(t) ==
  \/ Serve(t) \/ Logout(t) \/ RefreshCheck(t) \/ RefreshIssue(t) \/ RefreshDies(t)
  \/ RequestFails(t)

SessionNext ==
  \/ \E t \in Tabs : Client(t) \/ Server(t)
  \/ AccessExpires \/ RefreshExpires \/ MarksLost \/ Restart

SessionSpec == SessionInit /\ [][SessionNext]_sessionVars

-----------------------------------------------------------------------------
(* Properties.                                                             *)

Stages == {"idle", "sent", "admitted", "refused", "renewing", "checked", "renewed",
           "leaving"}

(* Types; and a renewal is never asked for without a token (api.ts 76-77). *)
TypeOK ==
  /\ issued \in 0..MaxPairs
  /\ provider \in [Pairs -> Providers]
  /\ stale \subseteq expired /\ expired \subseteq 1..issued
  /\ accessMarks \subseteq 1..issued /\ refreshMarks \subseteq 1..issued
  /\ adminOn \in BOOLEAN
  /\ store \in [access : 0..issued, refresh : 0..issued]
  /\ tab \in [Tabs -> [at : Stages, intent : {"call", "logout"}, retried : BOOLEAN,
                       access : 0..issued, refresh : 0..issued]]
  /\ \A t \in Tabs : tab[t].at \in {"renewing", "checked"} =>
                       tab[t].refresh # NoToken
  /\ traded \in [Pairs -> 0..Many]
  /\ raced \cup lost \subseteq 1..issued
  /\ ended \subseteq 1..issued
  /\ crossed \in [tabs : SUBSET Tabs, pairs : SUBSET (1..issued)]

(* A refresh token is exchanged twice only by two requests that had both   *)
(* looked for its mark before either wrote it, or when Redis lost the mark *)
(* (auth.py refresh_token 219-231: the check and the mark are apart).      *)
ReuseNeedsOverlap ==
  \A i \in Pairs : traded[i] = Many => i \in raced \cup lost

(* A refresh token is revoked only by a renewal that goes through; one the *)
(* kill switch refuses leaves it as it was (auth.py 210-217,               *)
(* admin-login.md 170).                                                    *)
RevokedWhenTraded ==
  \A i \in refreshMarks : traded[i] > 0

(* After a logout its access token is refused while Redis keeps the mark;  *)
(* and the storage holds an access token alone, which no login or renewal  *)
(* left there, only when a renewal of another tab crossed the clearing     *)
(* (api.ts 80-86 stores the answer whatever happened meanwhile).           *)
SessionEnds ==
  /\ \A i \in ended \ lost : ~Accepts(i)
  /\ store.access # NoToken /\ store.refresh = NoToken =>
       store.access \in crossed.pairs
=============================================================================
