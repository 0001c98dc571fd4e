----------------------------- MODULE Collection -----------------------------
(***************************************************************************)
(* What a collection run does with the entries of one source               *)
(* (scheduler/manager.py _run_collection, collectors/base.py, processors/, *)
(* models/item.py): fetch with retries, de-duplicate against a Redis set,  *)
(* filter and transform, add to the session and announce, and commit the   *)
(* batch.  Runs of one source follow each other (max_instances = 1), so    *)
(* the interleavings are with the feed, with Redis and with failures.      *)
(* A run refused by the rate limit changes nothing of this and is left out.*)
(***************************************************************************)
EXTENDS Naturals, Sequences

CONSTANTS
  Articles,   (* entries of the feed: one title and url, what a mark hashes*)
  Feeds,      (* what the source may serve: sequences of validated entries *)
  KeyOf,      (* normalised url and published_at of the dated articles; an *)
              (* edited headline, or a tracking parameter, keeps the key   *)
  Undated,    (* articles without a date: each passage dates them anew     *)
  Kept,       (* articles that pass the filter and the transformer         *)
  MaxRetries, (* attempts of a fetch: 3                                    *)
  Faults      (* whether Redis, the commit and the process may fail        *)

ASSUME CollectionAssumption ==
  /\ Feeds \subseteq Seq(Articles) /\ Feeds # {}
  /\ Undated \subseteq Articles /\ Kept \subseteq Articles
  /\ MaxRetries \in Nat \ {0}
  /\ Faults \in BOOLEAN

VARIABLES
  feed,     (* what the source serves now                                  *)
  redisUp,
  marks,    (* the Redis set t:{tenant}:dedup:{source}                     *)
  rows,     (* committed items of each article, counted 0, 1, Many         *)
  stage,    (* where the run is                                            *)
  attempt,  (* attempts of the fetch under way                             *)
  todo,     (* collected entries the processor chain has not taken yet     *)
  passed,   (* results of the chain, not yet added                         *)
  session,  (* items added to the session of the run                       *)
  told,     (* item_update messages Redis took, counted 0, 1, Many         *)
  lapsed,   (* history: articles whose mark was lost or not consulted      *)
  hit       (* history: articles in a batch that was rolled back or died   *)

runVars == <<stage, attempt, todo, passed, session>>
outVars == <<rows, told>>
history == <<lapsed, hit>>
vars == <<feed, redisUp, marks, runVars, outVars, history>>

Many == 2  \* stands for every number above one
More(n) == IF n = Many THEN Many ELSE n + 1

Elems(s) == {s[i] : i \in DOMAIN s}
Dated(a) == a \notin Undated

Init ==
  /\ feed \in Feeds
  /\ redisUp = TRUE
  /\ marks = {}
  /\ rows = [a \in Articles |-> 0]
  /\ stage = "idle" /\ attempt = 0
  /\ todo = <<>> /\ passed = <<>> /\ session = <<>>
  /\ told = [a \in Articles |-> 0]
  /\ lapsed = {} /\ hit = {}

-----------------------------------------------------------------------------
(* Fetching: collect and _collect_with_retry.                              *)

FeedChanges ==
  /\ \E f \in Feeds \ {feed} : feed' = f
  /\ UNCHANGED <<redisUp, marks, runVars, outVars, history>>

RunStart ==
  /\ stage = "idle"
  /\ stage' = "fetching" /\ attempt' = 1
  /\ UNCHANGED <<feed, redisUp, marks, todo, passed, session, outVars, history>>

(* A run without entries ends here.                                        *)
FetchOk ==
  /\ stage = "fetching"
  /\ todo' = feed
  /\ stage' = IF feed = <<>> THEN "idle" ELSE "processing"
  /\ attempt' = 0
  /\ UNCHANGED <<feed, redisUp, marks, passed, session, outVars, history>>

(* Mutant: one attempt too many.                                           *)
FetchFails_onceMore ==
  /\ stage = "fetching"
  /\ IF attempt <= MaxRetries THEN attempt' = attempt + 1 /\ UNCHANGED stage
     ELSE stage' = "idle" /\ attempt' = 0
  /\ UNCHANGED <<feed, redisUp, marks, todo, passed, session, outVars, history>>

(* fetch_data raises: the next attempt, or the run has failed.             *)
FetchFails ==
  /\ stage = "fetching"
  /\ IF attempt < MaxRetries THEN attempt' = attempt + 1 /\ UNCHANGED stage
     ELSE stage' = "idle" /\ attempt' = 0
  /\ UNCHANGED <<feed, redisUp, marks, todo, passed, session, outVars, history>>

(* parse_data or validate_data raises: no second attempt.                  *)
ParseFails ==
  /\ stage = "fetching"
  /\ stage' = "idle" /\ attempt' = 0
  /\ UNCHANGED <<feed, redisUp, marks, todo, passed, session, outVars, history>>

-----------------------------------------------------------------------------
(* The processor chain.  Filter, categorizer and transformer await nothing *)
(* and follow the de-duplication of their entry at once.                   *)

PassOn ==
  /\ todo' = Tail(todo)
  /\ passed' = IF Head(todo) \in Kept THEN Append(passed, Head(todo)) ELSE passed
  /\ stage' = "processing"

(* Mutant: without Redis, every entry counts as a duplicate.               *)
DedupCheck_closed ==
  /\ stage = "processing" /\ todo # <<>>
  /\ IF redisUp /\ Head(todo) \notin marks
     THEN stage' = "marking" /\ UNCHANGED <<todo, passed, lapsed>>
     ELSE todo' = Tail(todo) /\ UNCHANGED <<stage, passed, lapsed>>
  /\ UNCHANGED <<feed, redisUp, marks, attempt, session, outVars, hit>>

(* SISMEMBER; an error lets the entry pass.                                *)
DedupCheck ==
  /\ stage = "processing" /\ todo # <<>>
  /\ \/ /\ redisUp /\ Head(todo) \in marks
        /\ todo' = Tail(todo)
        /\ UNCHANGED <<stage, passed, lapsed>>
     \/ /\ redisUp /\ Head(todo) \notin marks
        /\ stage' = "marking"
        /\ UNCHANGED <<todo, passed, lapsed>>
     \/ /\ ~redisUp
        /\ PassOn
        /\ lapsed' = lapsed \cup {Head(todo)}
  /\ UNCHANGED <<feed, redisUp, marks, attempt, session, outVars, hit>>

(* Mutant: the mark is left to the end of a run that never sets it.        *)
DedupMark_later ==
  /\ stage = "marking"
  /\ PassOn
  /\ UNCHANGED <<feed, redisUp, marks, attempt, session, outVars, history>>

(* SADD and EXPIRE; if they raise the entry passes, marked or not.         *)
DedupMark ==
  /\ stage = "marking"
  /\ PassOn
  /\ \/ marks' = marks \cup {Head(todo)} /\ UNCHANGED lapsed
     \/ ~redisUp /\ UNCHANGED marks /\ lapsed' = lapsed \cup {Head(todo)}
  /\ UNCHANGED <<feed, redisUp, attempt, session, outVars, hit>>

-----------------------------------------------------------------------------
(* Store, announce, commit.                                                *)

Chained == stage = "processing" /\ todo = <<>>

(* Mutant: the announcement goes first, and its failure skips the item.    *)
StoreNext_announceFirst ==
  /\ Chained /\ passed # <<>>
  /\ passed' = Tail(passed)
  /\ session' = IF redisUp THEN Append(session, Head(passed)) ELSE session
  /\ told' = IF redisUp THEN [told EXCEPT ![Head(passed)] = More(@)] ELSE told
  /\ UNCHANGED <<feed, redisUp, marks, rows, stage, attempt, todo, history>>

(* session.add, then push_event, which swallows a failing publication.     *)
StoreNext ==
  /\ Chained /\ passed # <<>>
  /\ passed' = Tail(passed)
  /\ session' = Append(session, Head(passed))
  /\ told' = IF redisUp THEN [told EXCEPT ![Head(passed)] = More(@)] ELSE told
  /\ UNCHANGED <<feed, redisUp, marks, rows, stage, attempt, todo, history>>

(* Mutant: uq_items_dedup compares the new rows with the table only.       *)
Refused_tableOnly(s) ==
  \E a \in Elems(s), b \in Articles :
    Dated(a) /\ Dated(b) /\ KeyOf[a] = KeyOf[b] /\ rows[b] > 0

(* uq_items_dedup refuses the batch as a whole: a row is in the table, or  *)
(* two rows of the batch are the same.                                     *)
Refused(s) ==
  \/ \E a \in Elems(s), b \in Articles :
       Dated(a) /\ Dated(b) /\ KeyOf[a] = KeyOf[b] /\ rows[b] > 0
  \/ \E i, j \in DOMAIN s :
       i # j /\ Dated(s[i]) /\ Dated(s[j]) /\ KeyOf[s[i]] = KeyOf[s[j]]

Stored(s, a) ==
  LET places == {i \in DOMAIN s : s[i] = a} IN
  IF places = {} THEN rows[a]
  ELSE IF \E i, j \in places : i # j THEN Many ELSE More(rows[a])

EndRun == stage' = "idle" /\ session' = <<>>

CommitOk ==
  /\ Chained /\ passed = <<>>
  /\ ~Refused(session)
  /\ rows' = [a \in Articles |-> Stored(session, a)]
  /\ EndRun
  /\ UNCHANGED <<feed, redisUp, marks, attempt, todo, passed, told, history>>

(* A refused row (also one with a title over 500 characters) or a failing  *)
(* database rolls the session back; marks and messages stay.               *)
CommitFails ==
  /\ Chained /\ passed = <<>>
  /\ Refused(session) \/ Faults
  /\ hit' = hit \cup Elems(session)
  /\ EndRun
  /\ UNCHANGED <<feed, redisUp, marks, attempt, todo, passed, outVars, lapsed>>

-----------------------------------------------------------------------------
(* Failures.                                                               *)

(* The process dies; an SADD it had sent may have been carried out.        *)
Crash ==
  /\ Faults /\ stage # "idle"
  /\ LET sent == IF stage = "marking" THEN {Head(todo)} ELSE {} IN
     /\ \E m \in {{}, sent} : marks' = marks \cup m
     /\ hit' = hit \cup Elems(passed) \cup Elems(session) \cup sent
  /\ EndRun
  /\ attempt' = 0 /\ todo' = <<>> /\ passed' = <<>>
  /\ UNCHANGED <<feed, redisUp, outVars, lapsed>>

(* The set expires 24 hours after its last write, which no run outlasts,   *)
(* or Redis evicts it (allkeys-lru) or restarts without it.                *)
MarksLapse ==
  /\ marks # {}
  /\ Faults \/ stage \in {"idle", "fetching"}
  /\ marks' = {}
  /\ lapsed' = lapsed \cup marks
  /\ UNCHANGED <<feed, redisUp, runVars, outVars, hit>>

RedisFails ==
  /\ Faults /\ redisUp
  /\ redisUp' = FALSE
  /\ UNCHANGED <<feed, marks, runVars, outVars, history>>

RedisRecovers ==
  /\ ~redisUp
  /\ redisUp' = TRUE
  /\ UNCHANGED <<feed, marks, runVars, outVars, history>>

-----------------------------------------------------------------------------
Fetch == RunStart \/ FetchOk \/ FetchFails \/ ParseFails
Process == DedupCheck \/ DedupMark \/ StoreNext \/ CommitOk \/ CommitFails

Next ==
  \/ FeedChanges
  \/ Fetch \/ Process
  \/ Crash \/ MarksLapse \/ RedisFails \/ RedisRecovers

Spec == Init /\ [][Next]_vars

(* Triggers fire and a started run goes on.  Redis need not come back.     *)
FairSpec == Spec /\ WF_vars(Fetch \/ Process)

-----------------------------------------------------------------------------
(* Properties.                                                             *)

TypeOK ==
  /\ feed \in Feeds
  /\ redisUp \in BOOLEAN
  /\ marks \subseteq Articles
  /\ rows \in [Articles -> 0..Many]
  /\ stage \in {"idle", "fetching", "processing", "marking"}
  /\ attempt \in 0..MaxRetries
  /\ todo \in Seq(Articles) /\ passed \in Seq(Kept) /\ session \in Seq(Kept)
  /\ stage = "marking" => todo # <<>>
  /\ told \in [Articles -> 0..Many]
  /\ lapsed \subseteq Articles /\ hit \subseteq Articles

(* However often the marks lapse, no two rows of the source have the same  *)
(* url and date (uq_items_dedup, models/item.py 56-63).                    *)
StoredOnce ==
  \A a, b \in Articles :
    Dated(a) /\ Dated(b) /\ KeyOf[a] = KeyOf[b] /\ rows[a] > 0 /\ rows[b] > 0
      => a = b /\ rows[a] = 1

(* An article is announced or, if undated, stored again only after its     *)
(* mark was lost or could not be consulted (dedup.py 31-39), whatever      *)
(* retries, crashes and lost batches come between.                         *)
RepeatsNeedLapse ==
  \A a \in Articles : told[a] = Many \/ rows[a] = Many => a \in lapsed

(* Between runs, an article that is marked, and so will not be looked at   *)
(* again, is in the table, unless it was in a batch that was rolled back   *)
(* or died (manager.py 445-501): nothing else loses an article.            *)
LossesAreNamed ==
  stage = "idle" => \A a \in marks \cap Kept : rows[a] > 0 \/ a \in hit

(* The pipeline keeps the ledger's promises at every step, an article      *)
(* being excused when its mark was lost or could not be consulted          *)
(* (dedup.py 31-39, manager.py 445-501, models/item.py 56-63).             *)
Ledger == INSTANCE ItemLedger WITH excused <- lapsed
ImplementsLedger == Ledger!Spec

(* An article that stays in the feed is stored, by runs that in the end    *)
(* stop failing, also when Redis stays down (dedup.py 38 lets entries      *)
(* pass), unless a batch with it was lost.                                 *)
EventuallyStored ==
  \A a \in Kept :
    /\ <>[](a \in Elems(feed))
    /\ [](a \notin hit)
    /\ <>[][~FetchFails /\ ~ParseFails /\ ~Crash]_vars
    => <>(rows[a] > 0)

(* "INSERT items, SADD, PUBLISH" (data-flow.md 619-621): between runs,     *)
(* every article that was announced is in the table.                       *)
AnnouncedIsStored ==
  stage = "idle" => \A a \in Articles : told[a] > 0 => rows[a] > 0

=============================================================================
