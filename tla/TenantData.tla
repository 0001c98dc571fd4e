----------------------------- MODULE TenantData -----------------------------
(***************************************************************************)
(* Requests of one tenant on its rows, each request one transaction of     *)
(* READ COMMITTED: services/category.py, services/source.py (create and    *)
(* delete), services/item.py, services/tenant.py, the watchlist of         *)
(* services/finance.py and api/v1/admin.py.  Every await between reading   *)
(* and writing lets another request of the event loop, or of another       *)
(* process, commit in between.                                             *)
(* What the worker makes of a created source is module WorkerSync.         *)
(***************************************************************************)
EXTENDS Naturals, Sequences, FiniteSets

CONSTANTS
  Requests,      (* API calls, each made once                              *)
  Workloads,     (* which calls are made together: [Requests -> Ops]       *)
  OwnSeeds,      (* categories the tenant had before                       *)
  SystemSeeds,   (* predefined categories of the system tenant             *)
  SlugOfSeed,    (* their slugs                                            *)
  Slugs,
  Tags,
  ItemTags,      (* topic_tags the item was collected with: any number     *)
  Symbols,
  Watched,       (* the watchlist before, in its order: a sequence         *)
  MaxCategories, (* max_categories of each tenant                          *)
  MaxSources,    (* max_sources of the tenant                              *)
  MaxWatched,    (* MAX_WATCHLIST_ITEMS: 512                               *)
  MaxTags,       (* MAX_ITEM_TAGS: 20                                      *)
  None           (* no slug, no position, no symbol                        *)

Seeds == OwnSeeds \cup SystemSeeds
Categories == Requests \cup Seeds     \* a new row is named for its request
Tenants == {"own", "system"}

Ops ==
  [kind : {"newCategory"}, by : Tenants, slug : Slugs] \cup
  [kind : {"editCategory"}, category : Categories, slug : Slugs] \cup
  [kind : {"dropCategory"}, category : Categories] \cup
  [kind : {"newSource"}, category : Categories] \cup
  [kind : {"dropSource"}, source : Requests] \cup
  [kind : {"addTag", "removeTag"}, tag : Tags] \cup
  [kind : {"reclassify"}, tags : SUBSET Tags] \cup
  [kind : {"override"}, slugs : SUBSET Slugs] \cup
  [kind : {"watch", "unwatch"}, symbol : Symbols] \cup
  [kind : {"reorder"}, order : Seq(Symbols)] \cup
  [kind : {"editTenant"}, max : Nat]

ASSUME TenantDataAssumption ==
  /\ IsFiniteSet(Requests) /\ IsFiniteSet(Seeds) /\ IsFiniteSet(Symbols)
  /\ Requests \cap Seeds = {} /\ OwnSeeds \cap SystemSeeds = {}
  /\ Workloads \in SUBSET [Requests -> Ops]
  /\ SlugOfSeed \in [Seeds -> Slugs]
  /\ \A c, d \in Seeds : c # d => SlugOfSeed[c] # SlugOfSeed[d]  \* no clash at the start
  /\ Watched \in Seq(Symbols)
  /\ MaxCategories \in [Tenants -> Nat]
  /\ ItemTags \subseteq Tags /\ IsFiniteSet(ItemTags)    \* lists are finite
  /\ \A w \in Workloads, r \in Requests :
       w[r].kind = "reclassify" => IsFiniteSet(w[r].tags)
  /\ MaxSources \in Nat /\ MaxWatched \in Nat /\ MaxTags \in Nat
  /\ None \notin Slugs \cup Nat \cup Symbols
  /\ Cardinality(OwnSeeds) <= MaxCategories["own"]       \* no limit is passed
  /\ Cardinality(SystemSeeds) <= MaxCategories["system"] \* at the start
  /\ Cardinality({s \in Symbols : \E i \in DOMAIN Watched : Watched[i] = s}) <= MaxWatched

VARIABLES
  op,         (* what each request asks                                    *)
  at,         (* how far its handler is                                    *)
  held,       (* rows and index keys its transaction has locked            *)
  slugOf,     (* slug of each category; None: no such row                  *)
  sources,    (* committed sources                                         *)
  tags,       (* topic_tags of one item of the tenant                      *)
  overrides,  (* slugs with an override in tenants.settings                *)
  pos,        (* display_order of the watched symbols; None: not watched   *)
  maxSources, (* max_sources of the tenant row                             *)
  seen,       (* topic_tags a tag request works on                         *)
  next,       (* entries of its list a reorder has read                    *)
  dirty,      (* the entry it has set and not flushed                      *)
  overtook    (* history: <<q, r>>, q committed between r's first read and *)
              (* the end of r                                              *)

rows == <<slugOf, sources, tags, overrides, pos, maxSources>>
local == <<seen, next, dirty>>
vars == <<op, at, held, rows, local, overtook>>

Place(s) == CHOOSE i \in DOMAIN Watched : Watched[i] = s
IsWatched(s) == \E i \in DOMAIN Watched : Watched[i] = s

Init ==
  /\ op \in Workloads
  /\ at = [r \in Requests |-> "new"]
  /\ held = [r \in Requests |-> {}]
  /\ slugOf = [c \in Categories |-> IF c \in Seeds THEN SlugOfSeed[c] ELSE None]
  /\ sources = {} /\ tags = ItemTags /\ overrides = {}
  /\ pos = [s \in Symbols |-> IF IsWatched(s) THEN Place(s) ELSE None]
  /\ maxSources = MaxSources
  /\ seen = [r \in Requests |-> {}] /\ next = [r \in Requests |-> 0]
  /\ dirty = [r \in Requests |-> None]
  /\ overtook = {}

Owner(c) == IF c \in Requests THEN op[c].by
            ELSE IF c \in OwnSeeds THEN "own" ELSE "system"
Live == {c \in Categories : slugOf[c] # None}
Owned(t) == {c \in Live : Owner(c) = t}
(* Categories a tenant sees with this slug: its own and the predefined.    *)
Clashing(t, slug) == {c \in Owned(t) \cup Owned("system") : slugOf[c] = slug}
(* What the list of categories shows the tenant.                           *)
Listed == Owned("own") \cup Owned("system")
WatchedNow == {s \in Symbols : pos[s] # None}

-----------------------------------------------------------------------------
(* Steps of a transaction.                                                 *)

(* A read of committed rows; a check that fails ends the request.          *)
Advance(r, from, ok, to) ==
  /\ at[r] = from
  /\ at' = [at EXCEPT ![r] = IF ok THEN to ELSE "failed"]
  /\ UNCHANGED <<op, held, rows, overtook>>

(* A flush waits for the transactions that hold one of its locks; then the *)
(* database, or the count of matched rows, refuses what is no longer valid.*)
Free(r, locks) == \A q \in Requests \ {r} : held[q] \cap locks = {}

Write(r, from, locks, ok) ==
  /\ at[r] = from /\ Free(r, locks)
  /\ at' = [at EXCEPT ![r] = IF ok THEN "written" ELSE "failed"]
  /\ held' = [held EXCEPT ![r] = IF ok THEN locks ELSE {}]
  /\ UNCHANGED <<op, rows, local, overtook>>

UnderWay(r) == at[r] \in {"read", "checked", "written"}

(* The transaction becomes visible and its locks are gone.                 *)
Commit(r) ==
  /\ at[r] = "written"
  /\ at' = [at EXCEPT ![r] = "done"]
  /\ held' = [held EXCEPT ![r] = {}]
  /\ overtook' = overtook \cup {<<r, q>> : q \in {x \in Requests \ {r} : UnderWay(x)}}
  /\ UNCHANGED <<op, local>>

(* An error of the database or Redis, or the end of the process: the       *)
(* session is closed and the transaction rolled back.                      *)
Abort(r) ==
  /\ UnderWay(r)
  /\ at' = [at EXCEPT ![r] = "failed"]
  /\ held' = [held EXCEPT ![r] = {}]
  /\ UNCHANGED <<op, rows, local, overtook>>

SlugKey(t, slug) == <<"slug", t, slug>>
RowLock(c) == <<"row", c>>
(* A foreign key shares the row it points to with other inserts, not with  *)
(* a delete or a change of the slug.                                       *)
KeyShare(c, r) == <<"share", c, r>>
Exclusive(c) == {RowLock(c), SlugKey("own", slugOf[c])} \cup
                {KeyShare(c, q) : q \in Requests}

-----------------------------------------------------------------------------
(* Categories.                                                             *)

(* Mutant: the slug is compared with the tenant's own categories only.     *)
CreateCategory_ownOnly(r, o) ==
  \/ /\ Advance(r, "new", Cardinality(Owned(o.by)) < MaxCategories[o.by], "read")
     /\ UNCHANGED local
  \/ /\ Advance(r, "read", \A c \in Owned(o.by) : slugOf[c] # o.slug, "checked")
     /\ UNCHANGED local
  \/ Write(r, "checked", {SlugKey(o.by, o.slug)},
           \A c \in Owned(o.by) : slugOf[c] # o.slug)
  \/ /\ Commit(r)
     /\ slugOf' = [slugOf EXCEPT ![r] = o.slug]
     /\ UNCHANGED <<sources, tags, overrides, pos, maxSources>>

(* Count, look for the slug among the visible categories, insert.  Two     *)
(* rows with it are an error like one (scalar_one_or_none raises).         *)
CreateCategory(r, o) ==
  \/ /\ Advance(r, "new", Cardinality(Owned(o.by)) < MaxCategories[o.by], "read")
     /\ UNCHANGED local
  \/ /\ Advance(r, "read", Clashing(o.by, o.slug) = {}, "checked")
     /\ UNCHANGED local
  \/ Write(r, "checked", {SlugKey(o.by, o.slug)},
           \A c \in Owned(o.by) : slugOf[c] # o.slug)
  \/ /\ Commit(r)
     /\ slugOf' = [slugOf EXCEPT ![r] = o.slug]
     /\ UNCHANGED <<sources, tags, overrides, pos, maxSources>>

(* Only the slug is shared with other rows.  The UPDATE of a row deleted   *)
(* meanwhile matches nothing, which is an error.                           *)
UpdateCategory(r, o) ==
  \/ Advance(r, "new", o.category \in Owned("own"), "read") /\ UNCHANGED local
  \/ /\ Advance(r, "read", Clashing("own", o.slug) \subseteq {o.category}, "checked")
     /\ UNCHANGED local
  \/ Write(r, "checked", Exclusive(o.category) \cup {SlugKey("own", o.slug)},
           /\ o.category \in Live
           /\ \A c \in Owned("own") \ {o.category} : slugOf[c] # o.slug)
  \/ /\ Commit(r)
     /\ slugOf' = [c \in Categories |->
                     IF c = o.category /\ slugOf[c] # None THEN o.slug ELSE slugOf[c]]
     /\ UNCHANGED <<sources, tags, overrides, pos, maxSources>>

SourcesIn(c) == {s \in sources : op[s].category = c}

(* Mutant: the sources are not counted.                                    *)
DeleteCategory_uncounted(r, o) ==
  \/ Advance(r, "new", o.category \in Owned("own"), "read") /\ UNCHANGED local
  \/ Advance(r, "read", TRUE, "checked") /\ UNCHANGED local
  \/ Write(r, "checked", Exclusive(o.category), TRUE)
  \/ /\ Commit(r)
     /\ slugOf' = [slugOf EXCEPT ![o.category] = None]
     /\ sources' = sources \ SourcesIn(o.category)
     /\ UNCHANGED <<tags, overrides, pos, maxSources>>

(* Get, count the sources, delete.  The foreign key of the sources cascades.*)
DeleteCategory(r, o) ==
  \/ Advance(r, "new", o.category \in Owned("own"), "read") /\ UNCHANGED local
  \/ Advance(r, "read", SourcesIn(o.category) = {}, "checked") /\ UNCHANGED local
  \/ Write(r, "checked", Exclusive(o.category), TRUE)
  \/ /\ Commit(r)
     /\ slugOf' = [slugOf EXCEPT ![o.category] = None]
     /\ sources' = sources \ SourcesIn(o.category)
     /\ UNCHANGED <<tags, overrides, pos, maxSources>>

-----------------------------------------------------------------------------
(* Sources.                                                                *)

(* Mutant: one source beyond the limit is accepted.                        *)
CreateSource_offByOne(r, o) ==
  \/ Advance(r, "new", Cardinality(sources) <= maxSources, "read") /\ UNCHANGED local
  \/ Advance(r, "read", o.category \in Live, "checked") /\ UNCHANGED local
  \/ Write(r, "checked", {KeyShare(o.category, r)}, o.category \in Live)
  \/ /\ Commit(r)
     /\ sources' = sources \cup {r}
     /\ UNCHANGED <<slugOf, tags, overrides, pos, maxSources>>

(* Count, get the category, insert.  The announcement before the commit is *)
(* left to WorkerSync; an error in it is an Abort.                         *)
CreateSource(r, o) ==
  \/ Advance(r, "new", Cardinality(sources) < maxSources, "read") /\ UNCHANGED local
  \/ Advance(r, "read", o.category \in Live, "checked") /\ UNCHANGED local
  \/ Write(r, "checked", {KeyShare(o.category, r)}, o.category \in Live)
  \/ /\ Commit(r)
     /\ sources' = sources \cup {r}
     /\ UNCHANGED <<slugOf, tags, overrides, pos, maxSources>>

DeleteSource(r, o) ==
  \/ Advance(r, "new", o.source \in sources, "read") /\ UNCHANGED local
  \/ Write(r, "read", {<<"source", o.source>>}, TRUE)
  \/ /\ Commit(r)
     /\ sources' = sources \ {o.source}
     /\ UNCHANGED <<slugOf, tags, overrides, pos, maxSources>>

(* update_tenant flushes and nothing commits: the session is closed and    *)
(* the change is gone when the answer has been sent.                       *)
EditTenant(r, o) ==
  \/ Advance(r, "new", TRUE, "read") /\ UNCHANGED local
  \/ Write(r, "read", {<<"tenant">>}, TRUE)
  \/ /\ Commit(r)
     /\ UNCHANGED rows

-----------------------------------------------------------------------------
(* Tags of an item, and the overrides: the column is read, changed and     *)
(* written back as a whole.                                                *)

ReadTags(r, ok) ==
  /\ Advance(r, "new", ok, "read")
  /\ seen' = [seen EXCEPT ![r] = tags]
  /\ UNCHANGED <<next, dirty>>

(* A list that did not change is not written: nothing is locked.           *)
WriteTags(r, new) ==
  \/ /\ new # seen[r]
     /\ Write(r, "read", {<<"item">>}, TRUE)
  \/ /\ new = seen[r]
     /\ Advance(r, "read", TRUE, "written") /\ UNCHANGED local
  \/ /\ Commit(r)
     /\ tags' = IF held[r] = {} THEN tags ELSE new
     /\ UNCHANGED <<slugOf, sources, overrides, pos, maxSources>>

(* Mutant: one tag beyond the limit is accepted.                           *)
AddTag_offByOne(r, o) ==
  \/ ReadTags(r, o.tag \in tags \/ Cardinality(tags) <= MaxTags)
  \/ WriteTags(r, seen[r] \cup {o.tag})

(* A tag that is there is no error, also in a list beyond the limit.       *)
AddTag(r, o) ==
  \/ ReadTags(r, o.tag \in tags \/ Cardinality(tags) < MaxTags)
  \/ WriteTags(r, seen[r] \cup {o.tag})

(* Mutant: every other tag goes with it.                                   *)
RemoveTag_clear(r, o) ==
  \/ ReadTags(r, o.tag \in tags)
  \/ WriteTags(r, {})

RemoveTag(r, o) ==
  \/ ReadTags(r, o.tag \in tags)
  \/ WriteTags(r, seen[r] \ {o.tag})

(* The tags the rules give for the title replace the list, manual ones too;*)
(* nothing limits how many they are.                                       *)
Reclassify(r, o) ==
  \/ ReadTags(r, TRUE)
  \/ WriteTags(r, o.tags)

VisibleSlugs == {slugOf[c] : c \in Owned("own") \cup Owned("system")}

UpdateOverrides(r, o) ==
  \/ Advance(r, "new", TRUE, "read") /\ UNCHANGED local
  \/ Advance(r, "read", o.slugs \subseteq VisibleSlugs, "checked") /\ UNCHANGED local
  \/ Write(r, "checked", {<<"tenant">>}, TRUE)
  \/ /\ Commit(r)
     /\ overrides' = o.slugs
     /\ UNCHANGED <<slugOf, sources, tags, pos, maxSources>>

-----------------------------------------------------------------------------
(* The watchlist.                                                          *)

(* Count, look for the symbol, insert; the request model gives 0 for a     *)
(* display_order the client leaves out, so the computed one is never used. *)
AddToWatchlist(r, o) ==
  \/ Advance(r, "new", Cardinality(WatchedNow) < MaxWatched, "read") /\ UNCHANGED local
  \/ Advance(r, "read", pos[o.symbol] = None, "checked") /\ UNCHANGED local
  \/ Write(r, "checked", {<<"watch", o.symbol>>}, pos[o.symbol] = None)
  \/ /\ Commit(r)
     /\ pos' = [pos EXCEPT ![o.symbol] = 0]
     /\ UNCHANGED <<slugOf, sources, tags, overrides, maxSources>>

RemoveFromWatchlist(r, o) ==
  \/ Advance(r, "new", pos[o.symbol] # None, "read") /\ UNCHANGED local
  \/ Write(r, "read", {<<"watch", o.symbol>>}, TRUE)
  \/ /\ Commit(r)
     /\ pos' = [pos EXCEPT ![o.symbol] = None]
     /\ UNCHANGED <<slugOf, sources, tags, overrides, maxSources>>

(* A reorder numbers the entries of its list from one, entry by entry.     *)
NewPos(o, s) == CHOOSE i \in DOMAIN o.order : o.order[i] = s

(* The SELECT of an entry flushes the one before (autoflush); an entry     *)
(* that has its number already, or is gone, is left alone.                 *)
ReorderSelect(r, o) ==
  /\ at[r] \in {"new", "read"} /\ dirty[r] = None /\ next[r] < Len(o.order)
  /\ LET s == o.order[next[r] + 1] IN
       dirty' = [dirty EXCEPT ![r] =
                   IF pos[s] \in {None, NewPos(o, s)} THEN None ELSE s]
  /\ next' = [next EXCEPT ![r] = @ + 1]
  /\ at' = [at EXCEPT ![r] = "read"]
  /\ UNCHANGED <<op, held, rows, seen, overtook>>

ReorderFlush(r) ==
  /\ at[r] = "read" /\ dirty[r] # None
  /\ LET lock == <<"watch", dirty[r]>>
         ok == pos[dirty[r]] # None IN
     /\ Free(r, {lock})
     /\ at' = [at EXCEPT ![r] = IF ok THEN "read" ELSE "failed"]
     /\ held' = [held EXCEPT ![r] = IF ok THEN @ \cup {lock} ELSE {}]
  /\ dirty' = [dirty EXCEPT ![r] = None]
  /\ UNCHANGED <<op, rows, seen, next, overtook>>

(* Two reorders that wait for each other: the database aborts one.         *)
Waits(r, q) == dirty[r] # None /\ at[r] = "read" /\ <<"watch", dirty[r]>> \in held[q]

(* Mutant: the session of the aborted request is not closed.               *)
Deadlocked_leak(r) ==
  /\ \E q \in Requests \ {r} : Waits(r, q) /\ Waits(q, r)
  /\ at' = [at EXCEPT ![r] = "failed"]
  /\ UNCHANGED <<op, held, rows, local, overtook>>

Deadlocked(r) ==
  /\ \E q \in Requests \ {r} : Waits(r, q) /\ Waits(q, r)
  /\ Abort(r)

(* Mutant: each entry is committed when it is written.                     *)
ReorderWatchlist_perRow(r, o) ==
  \/ ReorderSelect(r, o)
  \/ /\ at[r] = "read" /\ dirty[r] # None /\ Free(r, {<<"watch", dirty[r]>>})
     /\ pos' = [pos EXCEPT ![dirty[r]] = IF @ = None THEN @ ELSE NewPos(o, dirty[r])]
     /\ dirty' = [dirty EXCEPT ![r] = None]
     /\ UNCHANGED <<op, at, held, slugOf, sources, tags, overrides, maxSources,
                    seen, next, overtook>>
  \/ /\ next[r] = Len(o.order) /\ dirty[r] = None
     /\ Advance(r, "read", TRUE, "written") /\ UNCHANGED local
  \/ Commit(r) /\ UNCHANGED rows

ReorderWatchlist(r, o) ==
  \/ ReorderSelect(r, o)
  \/ ReorderFlush(r)
  \/ Deadlocked(r)
  \/ /\ next[r] = Len(o.order) /\ dirty[r] = None
     /\ Advance(r, "read", TRUE, "written") /\ UNCHANGED local
  \/ /\ Commit(r)
     /\ pos' = [s \in Symbols |->
                  IF <<"watch", s>> \in held[r] /\ pos[s] # None THEN NewPos(o, s)
                  ELSE pos[s]]
     /\ UNCHANGED <<slugOf, sources, tags, overrides, maxSources>>

-----------------------------------------------------------------------------
Handler(r) ==
  LET o == op[r] IN
  \/ o.kind = "newCategory" /\ CreateCategory(r, o)
  \/ o.kind = "editCategory" /\ UpdateCategory(r, o)
  \/ o.kind = "dropCategory" /\ DeleteCategory(r, o)
  \/ o.kind = "newSource" /\ CreateSource(r, o)
  \/ o.kind = "dropSource" /\ DeleteSource(r, o)
  \/ o.kind = "editTenant" /\ EditTenant(r, o)
  \/ o.kind = "addTag" /\ AddTag(r, o)
  \/ o.kind = "removeTag" /\ RemoveTag(r, o)
  \/ o.kind = "reclassify" /\ Reclassify(r, o)
  \/ o.kind = "override" /\ UpdateOverrides(r, o)
  \/ o.kind = "watch" /\ AddToWatchlist(r, o)
  \/ o.kind = "unwatch" /\ RemoveFromWatchlist(r, o)
  \/ o.kind = "reorder" /\ ReorderWatchlist(r, o)

Next == \E r \in Requests : Handler(r) \/ Abort(r)

Spec == Init /\ [][Next]_vars

(* A handler that can take a step takes it: the event loop and the         *)
(* database go on.  Nothing is assumed of errors.                          *)
FairSpec == Spec /\ \A r \in Requests : WF_vars(Handler(r))

-----------------------------------------------------------------------------
(* Properties.                                                             *)

Locks ==
  {SlugKey(t, s) : t \in Tenants, s \in Slugs \cup {None}} \cup
  {RowLock(c) : c \in Categories} \cup
  {KeyShare(c, r) : c \in Categories, r \in Requests} \cup
  {<<"source", r>> : r \in Requests} \cup {<<"tenant">>, <<"item">>} \cup
  {<<"watch", s>> : s \in Symbols}

Stages == {"new", "read", "checked", "written", "done", "failed"}

(* The types; and no lock is held by two transactions, or by a request     *)
(* that has ended.                                                         *)
TypeOK ==
  /\ op \in [Requests -> Ops]
  /\ at \in [Requests -> Stages]
  /\ held \in [Requests -> SUBSET Locks]
  /\ slugOf \in [Categories -> Slugs \cup {None}]
  /\ sources \subseteq Requests
  /\ tags \subseteq Tags
  /\ overrides \subseteq Slugs
  /\ pos \in [Symbols -> Nat \cup {None}]
  /\ maxSources \in Nat
  /\ seen \in [Requests -> SUBSET Tags]
  /\ next \in [Requests -> Nat]
  /\ dirty \in [Requests -> Symbols \cup {None}]
  /\ overtook \subseteq Requests \X Requests
  /\ \A r \in Requests : held[r] # {} => UnderWay(r) /\ Free(r, held[r])

Done(r, kind) == at[r] = "done" /\ op[r].kind = kind

(* The requests that add a row of each counted kind, the rows, the limit.  *)
Tables == {"own", "system", "source", "watch"}
Adds(r, k) ==
  \/ k \in Tenants /\ op[r].kind = "newCategory" /\ op[r].by = k
  \/ k = "source" /\ op[r].kind = "newSource"
  \/ k = "watch" /\ op[r].kind = "watch"
Rows(k) == IF k \in Tenants THEN Owned(k)
           ELSE IF k = "source" THEN sources ELSE WatchedNow
Limit(k) == IF k \in Tenants THEN MaxCategories[k]
            ELSE IF k = "source" THEN MaxSources ELSE MaxWatched
(* Those that were overtaken by another of their kind before they committed.*)
Overtaken(k) ==
  {r \in Requests : /\ Adds(r, k) /\ at[r] = "done"
                    /\ \E q \in Requests : Adds(q, k) /\ <<q, r>> \in overtook}

(* A tenant has no more categories, sources or watched symbols than its    *)
(* limit allows, but for one for each request that counted before another  *)
(* one committed (category.py create_category, source.py create_source and *)
(* finance.py add_to_watchlist count first and insert later).              *)
LimitsHold ==
  \A k \in Tables : Cardinality(Rows(k)) <= Limit(k) + Cardinality(Overtaken(k))

(* What users add never takes the tags of an item beyond their limit,      *)
(* whatever lists other requests write in between: it is passed only by    *)
(* tags of the collection, or of a reclassification, less those removed    *)
(* since (item.py add_tag writes the list it counted; categorizer.py       *)
(* 201-221 and category.py 381-388 count nothing).                         *)
TagsLimited ==
  \/ Cardinality(tags) <= MaxTags
  \/ tags \subseteq ItemTags
  \/ \E r \in Requests : Done(r, "reclassify") /\ tags \subseteq op[r].tags

(* A source that was created is there until it is deleted, unless it was   *)
(* committed after a delete of its category had counted the sources        *)
(* (category.py delete_category 327-336: the cascade is not announced).    *)
CascadesNamed ==
  \A r \in Requests :
    Done(r, "newSource") /\ r \notin sources =>
      \/ \E q \in Requests : Done(q, "dropSource") /\ op[q].source = r
      \/ \E q \in Requests : /\ Done(q, "dropCategory")
                             /\ op[q].category = op[r].category
                             /\ <<r, q>> \in overtook

(* A tag the user added is lost, or one he removed is back, only through a *)
(* request for that, a reclassification, or a request that overlapped this *)
(* one (item.py writes back the whole list it read).                       *)
Rewrites(q, r) ==
  at[q] = "done" /\ (op[q].kind = "reclassify" \/ {<<r, q>>, <<q, r>>} \cap overtook # {})
TagsKept ==
  \A r \in Requests :
    /\ Done(r, "addTag") /\ op[r].tag \notin tags =>
         \E q \in Requests \ {r} :
           Rewrites(q, r) \/ (Done(q, "removeTag") /\ op[q].tag = op[r].tag)
    /\ Done(r, "removeTag") /\ op[r].tag \in tags =>
         \E q \in Requests \ {r} :
           Rewrites(q, r) \/ (Done(q, "addTag") /\ op[q].tag = op[r].tag)

(* Two entries of the watchlist share a place a reorder gave only if two   *)
(* reorders overlapped (finance.py reorder_watchlist writes only entries   *)
(* whose number it saw to be another), or one left an entry out.           *)
PlacesDistinct ==
  \A s, t \in WatchedNow :
    s # t /\ pos[s] = pos[t] /\ pos[s] # 0 =>
      \E q, r \in Requests :
        /\ Done(q, "reorder") /\ Done(r, "reorder")
        /\ <<q, r>> \in overtook \/ ~({s, t} \subseteq {op[r].order[i] : i \in DOMAIN op[r].order})

(* A tenant sees two categories with one slug only if a system category    *)
(* was added at run time, by an admin of the system tenant, whose check    *)
(* looks at system categories alone (category.py 224-230); a predefined    *)
(* slug is never taken.                                                    *)
SlugClashes ==
  \A c, d \in Listed :
    c # d /\ slugOf[c] = slugOf[d] =>
      /\ {Owner(c), Owner(d)} = Tenants
      /\ (IF Owner(c) = "system" THEN c ELSE d) \in Requests

(* Every request ends, whatever locks the others hold; of two reorders in  *)
(* opposite order the database aborts one.                                 *)
RequestsEnd == \A r \in Requests : at[r] = "new" ~> at[r] \in {"done", "failed"}
=============================================================================
