------------------------- MODULE TenantData_proofs -------------------------
(***************************************************************************)
(* Proofs about TenantData, for any number of requests, any mix of calls   *)
(* and any limits.                                                         *)
(***************************************************************************)
EXTENDS TenantData, FiniteSetTheorems, TLAPS

(* What the proof needs to know of the types.                              *)
Typed ==
  /\ op \in Workloads
  /\ at \in [Requests -> Stages]
  /\ slugOf = [c \in Categories |-> slugOf[c]]
  /\ sources \subseteq Requests
  /\ pos = [s \in Symbols |-> pos[s]]
  /\ tags \subseteq Tags
  /\ seen \in [Requests -> SUBSET Tags]
  /\ maxSources = MaxSources

(* A request that will add a row and has not been overtaken by another of  *)
(* its kind since it counted: there is still room.                         *)
RoomLeft ==
  \A k \in Tables, r \in Requests :
    /\ Adds(r, k) /\ UnderWay(r)
    /\ \A q \in Requests : Adds(q, k) => <<q, r>> \notin overtook
    => Cardinality(Rows(k)) < Limit(k)

RowsBounded ==
  \A k \in Tables : Cardinality(Rows(k)) <= Limit(k) + Cardinality(Overtaken(k))

(* The list a tag request is about to write.                               *)
NewTags(r) ==
  IF op[r].kind = "addTag" THEN seen[r] \cup {op[r].tag}
  ELSE IF op[r].kind = "removeTag" THEN seen[r] \ {op[r].tag} ELSE op[r].tags

(* A list within the limit, or one whose every tag is from the collection  *)
(* or from one reclassification.                                           *)
Reclassified == {q \in Requests : Done(q, "reclassify")}
Accounted(S) ==
  /\ IsFiniteSet(S)
  /\ \/ Cardinality(S) <= MaxTags
     \/ S \subseteq ItemTags
     \/ \E q \in Reclassified : S \subseteq op[q].tags

(* The list of the item is one, and so is every list a user's request is   *)
(* about to write: it was counted when it was read.                        *)
TagsBounded ==
  /\ Accounted(tags)
  /\ \A r \in Requests :
       op[r].kind \in {"addTag", "removeTag"} /\ UnderWay(r) => Accounted(NewTags(r))

Inv == Typed /\ RoomLeft /\ RowsBounded /\ TagsBounded

-----------------------------------------------------------------------------
(* Steps.                                                                  *)

(* The handler of r moves from one stage to another and shows nothing.     *)
Quiet(r) ==
  /\ UNCHANGED <<op, slugOf, sources, tags, pos, maxSources, overtook>>
  /\ at[r] \in {"new", "read", "checked", "written"}
  /\ \E s \in Stages \ {"done"} : at' = [at EXCEPT ![r] = s]

(* It commits.                                                             *)
Shows(r) ==
  /\ UNCHANGED <<op, seen, maxSources>>
  /\ at[r] = "written" /\ at' = [at EXCEPT ![r] = "done"]
  /\ overtook' = overtook \cup {<<r, q>> : q \in {x \in Requests \ {r} : UnderWay(x)}}

LEMMA Advances ==
  ASSUME Typed, NEW r \in Requests, NEW from \in Stages \ {"done", "failed"}, NEW ok,
         NEW to \in Stages \ {"done"}, Advance(r, from, ok, to)
  PROVE  Quiet(r) /\ ((at[r] = "new" /\ at'[r] # "failed") => ok)
<1>1. at' = [at EXCEPT ![r] = IF ok THEN to ELSE "failed"] /\ at[r] = from
  BY DEF Advance
<1>2. (IF ok THEN to ELSE "failed") \in Stages \ {"done"}
  BY DEF Stages
<1>3. UNCHANGED <<op, slugOf, sources, tags, pos, maxSources, overtook>>
  BY DEF Advance, rows
<1>4. ~ok => at'[r] = "failed"
  BY <1>1 DEF Typed
<1>5. QED
  BY <1>1, <1>2, <1>3, <1>4 DEF Quiet, Stages

LEMMA Writes ==
  ASSUME Typed, NEW r \in Requests, NEW from \in {"read", "checked"}, NEW locks, NEW ok,
         Write(r, from, locks, ok)
  PROVE  Quiet(r) /\ at[r] # "new" /\ UNCHANGED seen
<1>1. (IF ok THEN "written" ELSE "failed") \in Stages \ {"done"}
  BY DEF Stages
<1>2. QED
  BY <1>1 DEF Write, Quiet, rows, local

LEMMA Aborts ==
  ASSUME Typed, NEW r \in Requests, Abort(r)
  PROVE  Quiet(r) /\ at[r] # "new" /\ UNCHANGED seen
<1>1. "failed" \in Stages \ {"done"}
  BY DEF Stages
<1>2. QED
  BY <1>1 DEF Abort, Quiet, UnderWay, rows, local

LEMMA Commits ==
  ASSUME NEW r \in Requests, Commit(r), maxSources' = maxSources
  PROVE  Shows(r)
BY DEF Commit, Shows, local

-----------------------------------------------------------------------------
(* Calls.                                                                  *)

(* A call of each kind has what the kind needs.                            *)
LEMMA CallTyped ==
  ASSUME Typed, NEW r \in Requests
  PROVE  /\ op[r].kind = "newCategory" => op[r].by \in Tenants /\ op[r].slug \in Slugs
         /\ op[r].kind = "editCategory" => op[r].slug \in Slugs
         /\ op[r].kind = "watch" => op[r].symbol \in Symbols
         /\ op[r].kind \in {"addTag", "removeTag"} => op[r].tag \in Tags
         /\ op[r].kind = "reclassify" => IsFiniteSet(op[r].tags) /\ op[r].tags \subseteq Tags
<1>1. op[r] \in Ops
  BY TenantDataAssumption DEF Typed
<1>2. op[r].kind = "newCategory" => op[r].by \in Tenants /\ op[r].slug \in Slugs
  BY <1>1 DEF Ops
<1>3. op[r].kind = "editCategory" => op[r].slug \in Slugs
  BY <1>1 DEF Ops
<1>4. op[r].kind = "watch" => op[r].symbol \in Symbols
  BY <1>1 DEF Ops
<1>5. op[r].kind \in {"addTag", "removeTag"} => op[r].tag \in Tags
  BY <1>1 DEF Ops
<1>6. op[r].kind = "reclassify" => IsFiniteSet(op[r].tags) /\ op[r].tags \subseteq Tags
  <2>1. op[r].kind = "reclassify" => op[r].tags \subseteq Tags
    BY <1>1 DEF Ops
  <2>2. op[r].kind = "reclassify" => IsFiniteSet(op[r].tags)
    BY TenantDataAssumption DEF Typed
  <2>3. QED
    BY <2>1, <2>2
<1>7. QED
  BY <1>2, <1>3, <1>4, <1>5, <1>6

(* The rows of every counted kind are few: sets of requests, seeds and     *)
(* symbols.                                                                *)
LEMMA RowsFinite ==
  ASSUME NEW k \in Tables, sources \subseteq Requests
  PROVE  IsFiniteSet(Rows(k))
<1>1. IsFiniteSet(Categories)
  BY TenantDataAssumption, FS_Union DEF Categories
<1>2. Owned(k) \subseteq Categories /\ WatchedNow \subseteq Symbols
  BY DEF Owned, Live, WatchedNow
<1>3. QED
  BY <1>1, <1>2, FS_Subset, TenantDataAssumption DEF Rows

(* What a step may do to the counted rows: take some away or, if it        *)
(* commits a request that adds one, add one.                               *)
SameRows == \A k \in Tables : Rows(k)' \subseteq Rows(k)

OneRow(r) ==
  \A k \in Tables :
    \/ Rows(k)' \subseteq Rows(k)
    \/ Adds(r, k) /\ \E x : Rows(k)' \subseteq Rows(k) \cup {x}

LEMMA QuietRows ==
  ASSUME UNCHANGED <<op, slugOf, sources, pos>>
  PROVE  SameRows
BY DEF SameRows, Rows, Owned, Live, Owner, WatchedNow

(* Deletes and changes of slugs or places add nothing.                     *)
LEMMA FewerRows ==
  ASSUME op' = op, sources' \subseteq sources,
         \A c \in Categories : slugOf'[c] # None => slugOf[c] # None,
         \A s \in Symbols : pos'[s] # None => pos[s] # None
  PROVE  SameRows
BY DEF SameRows, Rows, Owned, Live, Owner, WatchedNow

(* Whether there is room when a request that adds a row counts.            *)
Counts(r) ==
  at[r] = "new" /\ at'[r] # "failed" =>
    \A k \in Tables : Adds(r, k) => Cardinality(Rows(k)) < Limit(k)

TagStep(r) ==
  \/ seen' = seen /\ (op[r].kind \in {"addTag", "removeTag", "reclassify"} => at[r] # "new")
  \/ /\ op[r].kind \in {"addTag", "removeTag", "reclassify"} /\ at[r] = "new"
     /\ seen' = [seen EXCEPT ![r] = tags]
     /\ op[r].kind = "addTag" /\ at'[r] # "failed" =>
          op[r].tag \in tags \/ Cardinality(tags) < MaxTags
  \/ op[r].kind \notin {"addTag", "removeTag", "reclassify"} /\ seen' = seen

Waiting(r) == Quiet(r) /\ Counts(r) /\ TagStep(r)

Showing(r) ==
  /\ Shows(r) /\ OneRow(r)
  /\ tags' = tags \/ (op[r].kind \in {"addTag", "removeTag", "reclassify"} /\ tags' = NewTags(r))

LEMMA CategoryCalls ==
  ASSUME Typed, NEW r \in Requests,
         \/ op[r].kind = "newCategory" /\ CreateCategory(r, op[r])
         \/ op[r].kind = "editCategory" /\ UpdateCategory(r, op[r])
         \/ op[r].kind = "dropCategory" /\ DeleteCategory(r, op[r])
  PROVE  Waiting(r) \/ Showing(r)
<1> USE DEF Stages
<1>1. CASE op[r].kind = "newCategory" /\ CreateCategory(r, op[r])
  <2> DEFINE t == op[r].by
  <2>1. t \in Tenants /\ op[r].slug \in Slugs
    BY <1>1, CallTyped
  <2>2. \A k \in Tables : Adds(r, k) => k = t /\ Rows(k) = Owned(t) /\ Limit(k) = MaxCategories[t]
    BY <1>1, <2>1 DEF Adds, Tables, Tenants, Rows, Limit
  <2>3. CASE Advance(r, "new", Cardinality(Owned(t)) < MaxCategories[t], "read") /\ UNCHANGED local
    <3> DEFINE ok == Cardinality(Owned(t)) < MaxCategories[t]
    <3>1. Quiet(r) /\ (at[r] = "new" /\ at'[r] # "failed" => ok)
      <4> HIDE DEF ok
      <4>1. Advance(r, "new", ok, "read")
        BY <2>3 DEF ok
      <4>2. QED
        BY <4>1, Advances
    <3>2. Counts(r)
      BY <2>2, <3>1 DEF Counts
    <3>3. QED
      BY <1>1, <2>3, <3>1, <3>2 DEF Waiting, TagStep, local
  <2>4. CASE Advance(r, "read", Clashing(t, op[r].slug) = {}, "checked") /\ UNCHANGED local
    BY <1>1, <2>4, Advances DEF Waiting, Counts, TagStep, local, Advance
  <2>5. CASE Write(r, "checked", {SlugKey(t, op[r].slug)}, \A c \in Owned(t) : slugOf[c] # op[r].slug)
    BY <1>1, <2>5, Writes DEF Waiting, Counts, TagStep
  <2>6. CASE /\ Commit(r)
             /\ slugOf' = [slugOf EXCEPT ![r] = op[r].slug]
             /\ UNCHANGED <<sources, tags, overrides, pos, maxSources>>
    <3>1. op' = op
      BY <2>6 DEF Commit
    <3>2. \A c \in Categories \ {r} : slugOf'[c] = slugOf[c]
      BY <2>6 DEF Typed
    <3>3. Owner(r) = t
      BY DEF Owner
    <3>4. ASSUME NEW k \in Tables, k \in Tenants
          PROVE  Owned(k)' \subseteq Owned(k) \/ (k = t /\ Owned(k)' \subseteq Owned(k) \cup {r})
      BY <3>1, <3>2, <3>3 DEF Owned, Live, Owner
    <3>5. ASSUME NEW k \in Tables, k \notin Tenants PROVE Rows(k)' = Rows(k)
      BY <2>6, <3>5 DEF Rows, WatchedNow
    <3>6. OneRow(r)
      <4> SUFFICES ASSUME NEW k \in Tables
                   PROVE  \/ Rows(k)' \subseteq Rows(k)
                          \/ Adds(r, k) /\ \E x : Rows(k)' \subseteq Rows(k) \cup {x}
        BY DEF OneRow
      <4>1. CASE k \in Tenants
        <5>1. Rows(k) = Owned(k) /\ Rows(k)' = Owned(k)'
          BY <4>1 DEF Rows
        <5>2. k = t => Adds(r, k)
          BY <1>1, <4>1 DEF Adds
        <5>3. QED
          BY <3>4, <4>1, <5>1, <5>2
      <4>2. CASE k \notin Tenants
        BY <3>5, <4>2
      <4>3. QED
        BY <4>1, <4>2
    <3>7. QED
      BY <2>6, <3>6, Commits DEF Showing
  <2>7. QED
    BY <1>1, <2>3, <2>4, <2>5, <2>6 DEF CreateCategory
<1>2. CASE op[r].kind = "editCategory" /\ UpdateCategory(r, op[r])
  <2>1. \A k \in Tables : ~Adds(r, k)
    BY <1>2 DEF Adds
  <2>2. CASE Advance(r, "new", op[r].category \in Owned("own"), "read") /\ UNCHANGED local
    BY <1>2, <2>1, <2>2, Advances DEF Waiting, Counts, TagStep, local
  <2>3. CASE /\ Advance(r, "read", Clashing("own", op[r].slug) \subseteq {op[r].category}, "checked")
             /\ UNCHANGED local
    BY <1>2, <2>1, <2>3, Advances DEF Waiting, Counts, TagStep, local
  <2>4. CASE Write(r, "checked", Exclusive(op[r].category) \cup {SlugKey("own", op[r].slug)},
                   /\ op[r].category \in Live
                   /\ \A c \in Owned("own") \ {op[r].category} : slugOf[c] # op[r].slug)
    BY <1>2, <2>1, <2>4, Writes DEF Waiting, Counts, TagStep
  <2>5. CASE /\ Commit(r)
             /\ slugOf' = [c \in Categories |->
                  IF c = op[r].category /\ slugOf[c] # None THEN op[r].slug ELSE slugOf[c]]
             /\ UNCHANGED <<sources, tags, overrides, pos, maxSources>>
    <3>1. SameRows
      BY <2>5, FewerRows DEF Commit
    <3>2. QED
      BY <2>5, <3>1, Commits DEF Showing, OneRow, SameRows
  <2>6. QED
    BY <1>2, <2>2, <2>3, <2>4, <2>5 DEF UpdateCategory
<1>3. CASE op[r].kind = "dropCategory" /\ DeleteCategory(r, op[r])
  <2>1. \A k \in Tables : ~Adds(r, k)
    BY <1>3 DEF Adds
  <2>2. CASE Advance(r, "new", op[r].category \in Owned("own"), "read") /\ UNCHANGED local
    BY <1>3, <2>1, <2>2, Advances DEF Waiting, Counts, TagStep, local
  <2>3. CASE Advance(r, "read", SourcesIn(op[r].category) = {}, "checked") /\ UNCHANGED local
    BY <1>3, <2>1, <2>3, Advances DEF Waiting, Counts, TagStep, local
  <2>4. CASE Write(r, "checked", Exclusive(op[r].category), TRUE)
    BY <1>3, <2>1, <2>4, Writes DEF Waiting, Counts, TagStep
  <2>5. CASE /\ Commit(r)
             /\ slugOf' = [slugOf EXCEPT ![op[r].category] = None]
             /\ sources' = sources \ SourcesIn(op[r].category)
             /\ UNCHANGED <<tags, overrides, pos, maxSources>>
    <3>1. SameRows
      BY <2>5, FewerRows DEF Commit, Typed
    <3>2. QED
      BY <2>5, <3>1, Commits DEF Showing, OneRow, SameRows
  <2>6. QED
    BY <1>3, <2>2, <2>3, <2>4, <2>5 DEF DeleteCategory
<1>4. QED
  BY <1>1, <1>2, <1>3

LEMMA SourceCalls ==
  ASSUME Typed, NEW r \in Requests,
         \/ op[r].kind = "newSource" /\ CreateSource(r, op[r])
         \/ op[r].kind = "dropSource" /\ DeleteSource(r, op[r])
         \/ op[r].kind = "editTenant" /\ EditTenant(r, op[r])
  PROVE  Waiting(r) \/ Showing(r)
<1> USE DEF Stages
<1>1. CASE op[r].kind = "newSource" /\ CreateSource(r, op[r])
  <2>1. \A k \in Tables : Adds(r, k) => k = "source"
    BY <1>1 DEF Adds, Tables, Tenants
  <2>2. /\ Adds(r, "source") /\ Rows("source") = sources /\ Rows("source")' = sources'
        /\ Limit("source") = MaxSources
    BY <1>1 DEF Adds, Tenants, Rows, Limit
  <2>3. CASE Advance(r, "new", Cardinality(sources) < maxSources, "read") /\ UNCHANGED local
    <3> DEFINE ok == Cardinality(sources) < maxSources
    <3>1. Quiet(r) /\ (at[r] = "new" /\ at'[r] # "failed" => ok)
      <4> HIDE DEF ok
      <4>1. Advance(r, "new", ok, "read")
        BY <2>3 DEF ok
      <4>2. QED
        BY <4>1, Advances
    <3>2. Counts(r)
      BY <2>1, <2>2, <3>1 DEF Counts, Typed
    <3>3. QED
      BY <1>1, <2>3, <3>1, <3>2 DEF Waiting, TagStep, local
  <2>4. CASE Advance(r, "read", op[r].category \in Live, "checked") /\ UNCHANGED local
    BY <1>1, <2>4, Advances DEF Waiting, Counts, TagStep, local, Advance
  <2>5. CASE Write(r, "checked", {KeyShare(op[r].category, r)}, op[r].category \in Live)
    BY <1>1, <2>5, Writes DEF Waiting, Counts, TagStep
  <2>6. CASE /\ Commit(r)
             /\ sources' = sources \cup {r}
             /\ UNCHANGED <<slugOf, tags, overrides, pos, maxSources>>
    <3>1. op' = op
      BY <2>6 DEF Commit
    <3>2. ASSUME NEW k \in Tables, k # "source" PROVE Rows(k)' = Rows(k)
      BY <2>6, <3>1, <3>2 DEF Rows, Owned, Live, Owner, WatchedNow
    <3>3. OneRow(r)
      BY <2>2, <2>6, <3>2 DEF OneRow
    <3>4. QED
      BY <2>6, <3>3, Commits DEF Showing
  <2>7. QED
    BY <1>1, <2>3, <2>4, <2>5, <2>6 DEF CreateSource
<1>2. CASE op[r].kind = "dropSource" /\ DeleteSource(r, op[r])
  <2>1. \A k \in Tables : ~Adds(r, k)
    BY <1>2 DEF Adds
  <2>2. CASE Advance(r, "new", op[r].source \in sources, "read") /\ UNCHANGED local
    BY <1>2, <2>1, <2>2, Advances DEF Waiting, Counts, TagStep, local
  <2>3. CASE Write(r, "read", {<<"source", op[r].source>>}, TRUE)
    BY <1>2, <2>1, <2>3, Writes DEF Waiting, Counts, TagStep
  <2>4. CASE /\ Commit(r)
             /\ sources' = sources \ {op[r].source}
             /\ UNCHANGED <<slugOf, tags, overrides, pos, maxSources>>
    <3>1. SameRows
      BY <2>4, FewerRows DEF Commit
    <3>2. QED
      BY <2>4, <3>1, Commits DEF Showing, OneRow, SameRows
  <2>5. QED
    BY <1>2, <2>2, <2>3, <2>4 DEF DeleteSource
<1>3. CASE op[r].kind = "editTenant" /\ EditTenant(r, op[r])
  <2>1. \A k \in Tables : ~Adds(r, k)
    BY <1>3 DEF Adds
  <2>2. CASE Advance(r, "new", TRUE, "read") /\ UNCHANGED local
    BY <1>3, <2>1, <2>2, Advances DEF Waiting, Counts, TagStep, local
  <2>3. CASE Write(r, "read", {<<"tenant">>}, TRUE)
    BY <1>3, <2>1, <2>3, Writes DEF Waiting, Counts, TagStep
  <2>4. CASE Commit(r) /\ UNCHANGED rows
    <3>1. SameRows
      BY <2>4, QuietRows DEF Commit, rows
    <3>2. QED
      BY <2>4, <3>1, Commits DEF Showing, OneRow, SameRows, rows
  <2>5. QED
    BY <1>3, <2>2, <2>3, <2>4 DEF EditTenant
<1>4. QED
  BY <1>1, <1>2, <1>3

-----------------------------------------------------------------------------
(* Tags.                                                                   *)

TagKinds == {"addTag", "removeTag", "reclassify"}

LEMMA TagsRead ==
  ASSUME Typed, NEW r \in Requests, op[r].kind \in TagKinds, NEW ok, ReadTags(r, ok),
         op[r].kind = "addTag" /\ ok => op[r].tag \in tags \/ Cardinality(tags) < MaxTags
  PROVE  Waiting(r)
<1>1. Advance(r, "new", ok, "read") /\ seen' = [seen EXCEPT ![r] = tags] /\ at[r] = "new"
  BY DEF ReadTags, Advance
<1>2. Quiet(r) /\ (at'[r] # "failed" => ok)
  BY <1>1, Advances DEF Stages
<1>3. Counts(r)
  BY DEF Counts, Adds, TagKinds
<1>4. QED
  BY <1>1, <1>2, <1>3 DEF Waiting, TagStep, TagKinds

LEMMA TagsWritten ==
  ASSUME Typed, NEW r \in Requests, op[r].kind \in TagKinds, WriteTags(r, NewTags(r))
  PROVE  Waiting(r) \/ Showing(r)
<1>1. Counts(r)
  BY DEF Counts, Adds, TagKinds
<1>2. CASE Write(r, "read", {<<"item">>}, TRUE)
  BY <1>1, <1>2, Writes DEF Waiting, TagStep
<1>3. CASE Advance(r, "read", TRUE, "written") /\ UNCHANGED local
  BY <1>1, <1>3, Advances DEF Waiting, TagStep, local, Advance, Stages
<1>4. CASE /\ Commit(r)
           /\ tags' = IF held[r] = {} THEN tags ELSE NewTags(r)
           /\ UNCHANGED <<slugOf, sources, overrides, pos, maxSources>>
  <2>1. SameRows
    BY <1>4, QuietRows DEF Commit
  <2>2. QED
    BY <1>4, <2>1, Commits DEF Showing, OneRow, SameRows, TagKinds
<1>5. QED
  BY <1>2, <1>3, <1>4 DEF WriteTags

LEMMA TagCalls ==
  ASSUME Typed, NEW r \in Requests,
         \/ op[r].kind = "addTag" /\ AddTag(r, op[r])
         \/ op[r].kind = "removeTag" /\ RemoveTag(r, op[r])
         \/ op[r].kind = "reclassify" /\ Reclassify(r, op[r])
  PROVE  Waiting(r) \/ Showing(r)
<1>1. CASE op[r].kind = "addTag" /\ AddTag(r, op[r])
  BY <1>1, TagsRead, TagsWritten DEF AddTag, NewTags, TagKinds
<1>2. CASE op[r].kind = "removeTag" /\ RemoveTag(r, op[r])
  BY <1>2, TagsRead, TagsWritten DEF RemoveTag, NewTags, TagKinds
<1>3. CASE op[r].kind = "reclassify" /\ Reclassify(r, op[r])
  BY <1>3, TagsRead, TagsWritten DEF Reclassify, NewTags, TagKinds
<1>4. QED
  BY <1>1, <1>2, <1>3

LEMMA OverrideCalls ==
  ASSUME Typed, NEW r \in Requests, op[r].kind = "override", UpdateOverrides(r, op[r])
  PROVE  Waiting(r) \/ Showing(r)
<1> USE DEF Stages
<1>1. \A k \in Tables : ~Adds(r, k)
  BY DEF Adds
<1>2. CASE Advance(r, "new", TRUE, "read") /\ UNCHANGED local
  BY <1>1, <1>2, Advances DEF Waiting, Counts, TagStep, local
<1>3. CASE Advance(r, "read", op[r].slugs \subseteq VisibleSlugs, "checked") /\ UNCHANGED local
  BY <1>1, <1>3, Advances DEF Waiting, Counts, TagStep, local
<1>4. CASE Write(r, "checked", {<<"tenant">>}, TRUE)
  BY <1>1, <1>4, Writes DEF Waiting, Counts, TagStep
<1>5. CASE /\ Commit(r)
           /\ overrides' = op[r].slugs
           /\ UNCHANGED <<slugOf, sources, tags, pos, maxSources>>
  <2>1. SameRows
    BY <1>5, QuietRows DEF Commit
  <2>2. QED
    BY <1>5, <2>1, Commits DEF Showing, OneRow, SameRows
<1>6. QED
  BY <1>2, <1>3, <1>4, <1>5 DEF UpdateOverrides

-----------------------------------------------------------------------------
(* The watchlist.                                                          *)

LEMMA WatchCalls ==
  ASSUME Typed, NEW r \in Requests,
         \/ op[r].kind = "watch" /\ AddToWatchlist(r, op[r])
         \/ op[r].kind = "unwatch" /\ RemoveFromWatchlist(r, op[r])
  PROVE  Waiting(r) \/ Showing(r)
<1> USE DEF Stages
<1>1. CASE op[r].kind = "watch" /\ AddToWatchlist(r, op[r])
  <2> DEFINE s == op[r].symbol
  <2>1. \A k \in Tables : Adds(r, k) => k = "watch"
    BY <1>1 DEF Adds, Tables, Tenants
  <2>2. /\ Adds(r, "watch") /\ Rows("watch") = WatchedNow /\ Rows("watch")' = WatchedNow'
        /\ Limit("watch") = MaxWatched
    BY <1>1 DEF Adds, Tenants, Rows, Limit
  <2>3. CASE Advance(r, "new", Cardinality(WatchedNow) < MaxWatched, "read") /\ UNCHANGED local
    <3> DEFINE ok == Cardinality(WatchedNow) < MaxWatched
    <3>1. Quiet(r) /\ (at[r] = "new" /\ at'[r] # "failed" => ok)
      <4> HIDE DEF ok
      <4>1. Advance(r, "new", ok, "read")
        BY <2>3 DEF ok
      <4>2. QED
        BY <4>1, Advances
    <3>2. Counts(r)
      BY <2>1, <2>2, <3>1 DEF Counts
    <3>3. QED
      BY <1>1, <2>3, <3>1, <3>2 DEF Waiting, TagStep, local
  <2>4. CASE Advance(r, "read", pos[s] = None, "checked") /\ UNCHANGED local
    BY <1>1, <2>4, Advances DEF Waiting, Counts, TagStep, local, Advance
  <2>5. CASE Write(r, "checked", {<<"watch", s>>}, pos[s] = None)
    BY <1>1, <2>5, Writes DEF Waiting, Counts, TagStep
  <2>6. CASE /\ Commit(r)
             /\ pos' = [pos EXCEPT ![s] = 0]
             /\ UNCHANGED <<slugOf, sources, tags, overrides, maxSources>>
    <3>1. op' = op
      BY <2>6 DEF Commit
    <3>2. ASSUME NEW k \in Tables, k # "watch" PROVE Rows(k)' = Rows(k)
      BY <2>6, <3>1, <3>2 DEF Rows, Owned, Live, Owner, Tables, Tenants
    <3>3. WatchedNow' \subseteq WatchedNow \cup {s}
      <4>1. \A t \in Symbols \ {s} : pos'[t] = pos[t]
        BY <2>6 DEF Typed
      <4>2. QED
        BY <4>1 DEF WatchedNow
    <3>4. OneRow(r)
      BY <2>2, <3>2, <3>3 DEF OneRow
    <3>5. QED
      BY <2>6, <3>4, Commits DEF Showing
  <2>7. QED
    BY <1>1, <2>3, <2>4, <2>5, <2>6 DEF AddToWatchlist
<1>2. CASE op[r].kind = "unwatch" /\ RemoveFromWatchlist(r, op[r])
  <2>1. \A k \in Tables : ~Adds(r, k)
    BY <1>2 DEF Adds
  <2>2. CASE Advance(r, "new", pos[op[r].symbol] # None, "read") /\ UNCHANGED local
    BY <1>2, <2>1, <2>2, Advances DEF Waiting, Counts, TagStep, local
  <2>3. CASE Write(r, "read", {<<"watch", op[r].symbol>>}, TRUE)
    BY <1>2, <2>1, <2>3, Writes DEF Waiting, Counts, TagStep
  <2>4. CASE /\ Commit(r)
             /\ pos' = [pos EXCEPT ![op[r].symbol] = None]
             /\ UNCHANGED <<slugOf, sources, tags, overrides, maxSources>>
    <3>1. SameRows
      BY <2>4, FewerRows DEF Commit, Typed
    <3>2. QED
      BY <2>4, <3>1, Commits DEF Showing, OneRow, SameRows
  <2>5. QED
    BY <1>2, <2>2, <2>3, <2>4 DEF RemoveFromWatchlist
<1>3. QED
  BY <1>1, <1>2

LEMMA ReorderCalls ==
  ASSUME Typed, NEW r \in Requests, op[r].kind = "reorder", ReorderWatchlist(r, op[r])
  PROVE  Waiting(r) \/ Showing(r)
<1> USE DEF Stages
<1>1. \A k \in Tables : ~Adds(r, k)
  BY DEF Adds
<1>2. CASE ReorderSelect(r, op[r])
  BY <1>1, <1>2 DEF ReorderSelect, rows, Waiting, Quiet, Counts, TagStep
<1>3. CASE ReorderFlush(r)
  <2>1. (IF pos[dirty[r]] # None THEN "read" ELSE "failed") \in Stages \ {"done"}
    OBVIOUS
  <2>2. QED
    BY <1>1, <1>3, <2>1 DEF ReorderFlush, rows, Waiting, Quiet, Counts, TagStep
<1>4. CASE Deadlocked(r)
  BY <1>1, <1>4, Aborts DEF Deadlocked, Waiting, Counts, TagStep
<1>5. CASE /\ next[r] = Len(op[r].order) /\ dirty[r] = None
           /\ Advance(r, "read", TRUE, "written") /\ UNCHANGED local
  BY <1>1, <1>5, Advances DEF Waiting, Counts, TagStep, local
<1>6. CASE /\ Commit(r)
           /\ pos' = [s \in Symbols |->
                IF <<"watch", s>> \in held[r] /\ pos[s] # None THEN NewPos(op[r], s) ELSE pos[s]]
           /\ UNCHANGED <<slugOf, sources, tags, overrides, maxSources>>
  <2>1. SameRows
    BY <1>6, FewerRows DEF Commit
  <2>2. QED
    BY <1>6, <2>1, Commits DEF Showing, OneRow, SameRows
<1>7. QED
  BY <1>2, <1>3, <1>4, <1>5, <1>6 DEF ReorderWatchlist

(* Every step waits, or shows the one thing its request asked for.         *)
LEMMA StepShape ==
  ASSUME Typed, NEW r \in Requests, Handler(r) \/ Abort(r)
  PROVE  Waiting(r) \/ Showing(r)
<1>1. CASE Abort(r)
  BY <1>1, Aborts DEF Waiting, Counts, TagStep
<1>2. CASE Handler(r)
  BY <1>2, CategoryCalls, SourceCalls, TagCalls, OverrideCalls, WatchCalls, ReorderCalls
  DEF Handler
<1>3. QED
  BY <1>1, <1>2

-----------------------------------------------------------------------------
(* The invariant.                                                          *)

LEMMA RowsTyped ==
  ASSUME Typed, NEW r \in Requests, Handler(r) \/ Abort(r)
  PROVE  /\ slugOf' = [c \in Categories |-> slugOf'[c]]
         /\ pos' = [s \in Symbols |-> pos'[s]]
         /\ sources' \subseteq Requests
<1> USE DEF Typed, Commit, Advance, Write, rows
<1>1. CASE Abort(r)
  BY <1>1 DEF Abort
<1>2. CASE CreateCategory(r, op[r])
  BY <1>2 DEF CreateCategory
<1>3. CASE UpdateCategory(r, op[r])
  BY <1>3 DEF UpdateCategory
<1>4. CASE DeleteCategory(r, op[r])
  BY <1>4 DEF DeleteCategory
<1>5. CASE CreateSource(r, op[r])
  BY <1>5 DEF CreateSource
<1>6. CASE DeleteSource(r, op[r])
  BY <1>6 DEF DeleteSource
<1>7. CASE EditTenant(r, op[r])
  BY <1>7 DEF EditTenant
<1>8. ASSUME NEW new, WriteTags(r, new) PROVE UNCHANGED <<slugOf, pos, sources>>
  BY <1>8 DEF WriteTags
<1>9. ASSUME NEW ok, ReadTags(r, ok) PROVE UNCHANGED <<slugOf, pos, sources>>
  BY <1>9 DEF ReadTags
<1>10. CASE AddTag(r, op[r]) \/ RemoveTag(r, op[r]) \/ Reclassify(r, op[r])
  BY <1>8, <1>9, <1>10 DEF AddTag, RemoveTag, Reclassify
<1>11. CASE UpdateOverrides(r, op[r])
  BY <1>11 DEF UpdateOverrides
<1>12. CASE AddToWatchlist(r, op[r])
  BY <1>12 DEF AddToWatchlist
<1>13. CASE RemoveFromWatchlist(r, op[r])
  BY <1>13 DEF RemoveFromWatchlist
<1>14. CASE ReorderWatchlist(r, op[r])
  BY <1>14 DEF ReorderWatchlist, ReorderSelect, ReorderFlush, Deadlocked, Abort
<1>15. QED
  BY <1>1, <1>2, <1>3, <1>4, <1>5, <1>6, <1>7, <1>10, <1>11, <1>12, <1>13, <1>14 DEF Handler

LEMMA TypedStep ==
  ASSUME Typed, NEW r \in Requests, Handler(r) \/ Abort(r)
  PROVE  Typed'
<1>1. CASE Waiting(r)
  <2>1. at' \in [Requests -> Stages] /\ op' = op /\ tags' = tags /\ maxSources' = maxSources
    BY <1>1 DEF Waiting, Quiet, Typed
  <2>2. seen' \in [Requests -> SUBSET Tags]
    BY <1>1 DEF Waiting, TagStep, Typed
  <2>3. QED
    BY <2>1, <2>2, RowsTyped DEF Typed
<1>2. CASE Showing(r)
  <2>1. at' \in [Requests -> Stages] /\ op' = op /\ seen' = seen /\ maxSources' = maxSources
    BY <1>2 DEF Showing, Shows, Typed, Stages
  <2>2. op[r].kind \in TagKinds => NewTags(r) \subseteq Tags
    BY CallTyped DEF NewTags, TagKinds, Typed
  <2>3. tags' \subseteq Tags
    BY <1>2, <2>2 DEF Showing, Typed, TagKinds
  <2>4. QED
    BY <2>1, <2>3, RowsTyped DEF Typed
<1>3. QED
  BY <1>1, <1>2, StepShape

LEMMA OneMore ==
  ASSUME NEW S, NEW x, IsFiniteSet(S)
  PROVE  /\ IsFiniteSet(S \cup {x})
         /\ Cardinality(S) \in Nat /\ Cardinality(S \cup {x}) \in Nat
         /\ Cardinality(S \cup {x}) <= Cardinality(S) + 1
         /\ x \notin S => Cardinality(S \cup {x}) = Cardinality(S) + 1
<1>1. /\ IsFiniteSet(S \cup {x})
      /\ Cardinality(S \cup {x}) = IF x \in S THEN Cardinality(S) ELSE Cardinality(S) + 1
  BY FS_AddElement
<1>2. Cardinality(S) \in Nat /\ Cardinality(S \cup {x}) \in Nat
  BY <1>1, FS_CardinalityType
<1>3. QED
  BY <1>1, <1>2

(* Rows come one at a time.                                                *)
LEMMA RowsStep ==
  ASSUME Typed, Typed', NEW r \in Requests, Waiting(r) \/ Showing(r), NEW k \in Tables
  PROVE  /\ Cardinality(Rows(k)) \in Nat /\ Cardinality(Rows(k)') \in Nat
         /\ Waiting(r) \/ ~Adds(r, k) => Cardinality(Rows(k)') <= Cardinality(Rows(k))
         /\ Cardinality(Rows(k)') <= Cardinality(Rows(k)) + 1
<1>1. IsFiniteSet(Rows(k)) /\ Cardinality(Rows(k)) \in Nat
  BY RowsFinite, FS_CardinalityType DEF Typed
<1>2. ASSUME Rows(k)' \subseteq Rows(k)
      PROVE  Cardinality(Rows(k)') \in Nat /\ Cardinality(Rows(k)') <= Cardinality(Rows(k))
  BY <1>1, <1>2, FS_Subset, FS_CardinalityType
<1>3. ASSUME NEW x, Rows(k)' \subseteq Rows(k) \cup {x}
      PROVE  Cardinality(Rows(k)') \in Nat /\ Cardinality(Rows(k)') <= Cardinality(Rows(k)) + 1
  <2>1. /\ IsFiniteSet(Rows(k) \cup {x})
        /\ Cardinality(Rows(k) \cup {x}) <= Cardinality(Rows(k)) + 1
    BY <1>1, OneMore
  <2>2. Cardinality(Rows(k) \cup {x}) \in Nat
    BY <2>1, FS_CardinalityType
  <2>3. Cardinality(Rows(k)') <= Cardinality(Rows(k) \cup {x}) /\ Cardinality(Rows(k)') \in Nat
    BY <1>3, <2>1, FS_Subset, FS_CardinalityType
  <2>4. QED
    BY <1>1, <2>1, <2>2, <2>3
<1>4. Waiting(r) => Rows(k)' \subseteq Rows(k)
  BY QuietRows DEF Waiting, Quiet, SameRows
<1>5. CASE Rows(k)' \subseteq Rows(k)
  BY <1>1, <1>2, <1>5
<1>6. CASE ~(Rows(k)' \subseteq Rows(k))
  <2>1. Adds(r, k) /\ \E x : Rows(k)' \subseteq Rows(k) \cup {x}
    BY <1>4, <1>6 DEF Showing, OneRow
  <2>2. QED
    BY <1>1, <1>3, <1>4, <1>6, <2>1
<1>7. QED
  BY <1>5, <1>6

LEMMA OvertakenFinite == \A k : IsFiniteSet(Overtaken(k)) /\ Cardinality(Overtaken(k)) \in Nat
<1> SUFFICES ASSUME NEW k PROVE IsFiniteSet(Overtaken(k)) /\ Cardinality(Overtaken(k)) \in Nat
  OBVIOUS
<1>1. Overtaken(k) \subseteq Requests
  BY DEF Overtaken
<1>2. QED
  BY <1>1, FS_Subset, FS_CardinalityType, TenantDataAssumption

LEMMA LimitNat == \A k \in Tables : Limit(k) \in Nat
BY TenantDataAssumption DEF Limit, Tables, Tenants

(* Those that were overtaken stay so.                                      *)
LEMMA OvertakenGrows ==
  ASSUME Typed, NEW r \in Requests, Waiting(r) \/ Showing(r), NEW k
  PROVE  Overtaken(k) \subseteq Overtaken(k)'
<1>1. op' = op /\ overtook \subseteq overtook'
  BY DEF Waiting, Showing, Quiet, Shows
<1>2. \A q \in Requests : at[q] = "done" => at'[q] = "done"
  BY DEF Waiting, Showing, Quiet, Shows, Typed
<1>3. QED
  BY <1>1, <1>2 DEF Overtaken, Adds

LEMMA RoomStep ==
  ASSUME Inv, Typed', NEW r \in Requests, Waiting(r) \/ Showing(r)
  PROVE  RoomLeft'
<1> SUFFICES ASSUME NEW k \in Tables, NEW p \in Requests, Adds(p, k)', UnderWay(p)',
                    \A q \in Requests : Adds(q, k)' => <<q, p>> \notin overtook'
             PROVE  Cardinality(Rows(k)') < Limit(k)
  BY DEF RoomLeft, Limit
<1>1. /\ op' = op /\ overtook \subseteq overtook' /\ Adds(p, k) /\ Typed
      /\ \A q \in Requests : Adds(q, k) => <<q, p>> \notin overtook
  BY DEF Waiting, Showing, Quiet, Shows, Adds, Inv
<1>2. /\ Cardinality(Rows(k)) \in Nat /\ Cardinality(Rows(k)') \in Nat /\ Limit(k) \in Nat
      /\ Waiting(r) \/ ~Adds(r, k) => Cardinality(Rows(k)') <= Cardinality(Rows(k))
  BY <1>1, RowsStep, LimitNat
<1>3. CASE UnderWay(p) /\ (Waiting(r) \/ ~Adds(r, k))
  <2>1. Cardinality(Rows(k)) < Limit(k)
    BY <1>1, <1>3 DEF Inv, RoomLeft
  <2>2. QED
    BY <1>2, <1>3, <2>1
<1>4. CASE UnderWay(p) /\ Showing(r) /\ Adds(r, k)
  <2>1. p # r
    BY <1>1, <1>4 DEF Showing, Shows, UnderWay, Typed
  <2>2. <<r, p>> \in overtook'
    BY <1>4, <2>1 DEF Showing, Shows
  <2>3. QED
    BY <1>1, <1>4, <2>2 DEF Adds
<1>5. CASE ~UnderWay(p)
  <2>1. Waiting(r) /\ p = r
    BY <1>1, <1>5 DEF Waiting, Showing, Quiet, Shows, UnderWay, Typed
  <2>2. at[r] = "new" /\ at'[r] # "failed"
    BY <1>1, <1>5, <2>1 DEF Waiting, Quiet, UnderWay
  <2>3. Cardinality(Rows(k)) < Limit(k)
    BY <1>1, <2>1, <2>2 DEF Waiting, Counts
  <2>4. QED
    BY <1>2, <2>1, <2>3
<1>6. QED
  BY <1>3, <1>4, <1>5

LEMMA BoundStep ==
  ASSUME Inv, Typed', NEW r \in Requests, Waiting(r) \/ Showing(r)
  PROVE  RowsBounded'
<1> SUFFICES ASSUME NEW k \in Tables
             PROVE  Cardinality(Rows(k)') <= Limit(k) + Cardinality(Overtaken(k)')
  BY DEF RowsBounded, Limit
<1> DEFINE over == Overtaken(k)
<1>1. /\ Cardinality(Rows(k)) \in Nat /\ Cardinality(Rows(k)') \in Nat /\ Limit(k) \in Nat
      /\ Waiting(r) \/ ~Adds(r, k) => Cardinality(Rows(k)') <= Cardinality(Rows(k))
      /\ Cardinality(Rows(k)') <= Cardinality(Rows(k)) + 1
  BY RowsStep, LimitNat DEF Inv
<1>2. Cardinality(Rows(k)) <= Limit(k) + Cardinality(over)
  BY DEF Inv, RowsBounded
<1>3. /\ IsFiniteSet(over) /\ Cardinality(over) \in Nat
      /\ IsFiniteSet(over') /\ Cardinality(over') \in Nat
      /\ over \subseteq over' /\ Cardinality(over) <= Cardinality(over')
  <2>1. IsFiniteSet(over) /\ Cardinality(over) \in Nat
    BY OvertakenFinite
  <2>2. over' \subseteq Requests
    BY DEF Overtaken
  <2>3. IsFiniteSet(over') /\ Cardinality(over') \in Nat
    BY <2>2, FS_Subset, FS_CardinalityType, TenantDataAssumption
  <2>4. over \subseteq over'
    BY OvertakenGrows DEF Inv
  <2>5. QED
    BY <2>1, <2>3, <2>4, FS_Subset
<1>4. CASE Waiting(r) \/ ~Adds(r, k)
  BY <1>1, <1>2, <1>3, <1>4
<1>5. CASE Showing(r) /\ Adds(r, k) /\ \E q \in Requests : Adds(q, k) /\ <<q, r>> \in overtook
  <2>1. r \notin over /\ r \in over'
    <3>1. at[r] = "written" /\ at'[r] = "done" /\ op' = op /\ overtook \subseteq overtook'
      BY <1>5 DEF Showing, Shows, Inv, Typed
    <3>2. QED
      BY <1>5, <3>1 DEF Overtaken, Adds
  <2>2. Cardinality(over \cup {r}) = Cardinality(over) + 1
    BY <1>3, <2>1, OneMore
  <2>3. Cardinality(over \cup {r}) <= Cardinality(over')
    BY <1>3, <2>1, FS_Subset
  <2>4. QED
    BY <1>1, <1>2, <1>3, <2>2, <2>3
<1>6. CASE Showing(r) /\ Adds(r, k) /\ \A q \in Requests : Adds(q, k) => <<q, r>> \notin overtook
  <2>1. UnderWay(r)
    BY <1>6 DEF Showing, Shows, UnderWay
  <2>2. Cardinality(Rows(k)) < Limit(k)
    BY <1>6, <2>1 DEF Inv, RoomLeft
  <2>3. QED
    BY <1>1, <1>3, <2>2
<1>7. QED
  BY <1>4, <1>5, <1>6

(* No reclassification that is done is ever undone.                        *)
LEMMA ReclassifiedStay ==
  ASSUME Typed, NEW r \in Requests, Waiting(r) \/ Showing(r)
  PROVE  /\ Reclassified \subseteq Reclassified'
         /\ op[r].kind = "reclassify" /\ Showing(r) => r \in Reclassified'
BY DEF Waiting, Showing, Quiet, Shows, Reclassified, Done, Typed

(* The list a user's request writes back is accounted for if the list it   *)
(* read was: an added tag is in the list, or there was room for it.        *)
LEMMA TagStepBounded ==
  ASSUME Inv, NEW r \in Requests, Waiting(r), op[r].kind \in {"addTag", "removeTag"},
         at[r] = "new", at'[r] # "failed"
  PROVE  Accounted(NewTags(r))'
<1>1. /\ op' = op /\ Typed /\ Accounted(tags) /\ MaxTags \in Nat
      /\ Cardinality(tags) \in Nat /\ IsFiniteSet(tags)
      /\ Reclassified \subseteq Reclassified'
  BY TenantDataAssumption, FS_CardinalityType, ReclassifiedStay
  DEF Waiting, Quiet, Inv, TagsBounded, Accounted
<1>2. seen'[r] = tags
  BY <1>1 DEF Waiting, TagStep, TagKinds, Typed
<1>3. ASSUME NewTags(r)' \subseteq tags
      PROVE  Accounted(NewTags(r))'
  <2>1. /\ IsFiniteSet(NewTags(r)') /\ Cardinality(NewTags(r)') \in Nat
        /\ Cardinality(NewTags(r)') <= Cardinality(tags)
    BY <1>1, <1>3, FS_Subset, FS_CardinalityType
  <2>2. \/ Cardinality(NewTags(r)') <= MaxTags
        \/ NewTags(r)' \subseteq ItemTags
        \/ \E q \in Reclassified' : NewTags(r)' \subseteq op'[q].tags
    <3>1. CASE Cardinality(tags) <= MaxTags
      BY <1>1, <2>1, <3>1
    <3>2. CASE tags \subseteq ItemTags
      BY <1>3, <3>2
    <3>3. CASE \E q \in Reclassified : tags \subseteq op[q].tags
      BY <1>1, <1>3, <3>3
    <3>4. QED
      BY <1>1, <3>1, <3>2, <3>3 DEF Accounted
  <2>3. QED
    BY <2>1, <2>2 DEF Accounted
<1>4. CASE op[r].kind = "addTag"
  <2>1. op[r].tag \in tags \/ Cardinality(tags) < MaxTags
    BY <1>4 DEF Waiting, TagStep
  <2>2. NewTags(r)' = tags \cup {op[r].tag}
    BY <1>1, <1>2, <1>4 DEF NewTags
  <2>3. CASE op[r].tag \in tags
    BY <1>3, <2>2, <2>3
  <2>4. CASE Cardinality(tags) < MaxTags
    <3> DEFINE more == tags \cup {op[r].tag}
    <3>1. /\ IsFiniteSet(more) /\ Cardinality(more) \in Nat
          /\ Cardinality(more) <= Cardinality(tags) + 1
      BY <1>1, OneMore
    <3>2. Cardinality(more) <= MaxTags
      BY <1>1, <2>4, <3>1
    <3>3. QED
      BY <2>2, <3>1, <3>2 DEF Accounted
  <2>5. QED
    BY <2>1, <2>3, <2>4
<1>5. CASE op[r].kind = "removeTag"
  <2>1. NewTags(r)' \subseteq tags
    BY <1>1, <1>2, <1>5 DEF NewTags
  <2>2. QED
    BY <1>3, <2>1
<1>6. QED
  BY <1>4, <1>5

LEMMA TagsStep ==
  ASSUME Inv, NEW r \in Requests, Waiting(r) \/ Showing(r)
  PROVE  TagsBounded'
<1>1. op' = op /\ Typed /\ Reclassified \subseteq Reclassified'
  BY ReclassifiedStay DEF Waiting, Showing, Quiet, Shows, Inv
<1>2. Accounted(tags)'
  <2>1. CASE tags' = tags
    BY <1>1, <2>1 DEF Inv, TagsBounded, Accounted
  <2>2. CASE op[r].kind \in {"addTag", "removeTag"} /\ UnderWay(r) /\ tags' = NewTags(r)
    BY <1>1, <2>2 DEF Inv, TagsBounded, Accounted
  <2>3. CASE op[r].kind = "reclassify" /\ Showing(r) /\ tags' = NewTags(r)
    <3>1. r \in Reclassified' /\ tags' = op'[r].tags /\ IsFiniteSet(tags')
      BY <1>1, <2>3, ReclassifiedStay, CallTyped DEF NewTags
    <3>2. QED
      BY <3>1 DEF Accounted
  <2>4. QED
    BY <2>1, <2>2, <2>3 DEF Waiting, Showing, Quiet, Shows, UnderWay
<1>3. ASSUME NEW p \in Requests, op[p].kind \in {"addTag", "removeTag"}, UnderWay(p)'
      PROVE  Accounted(NewTags(p))'
  <2>1. CASE UnderWay(p) /\ seen'[p] = seen[p]
    <3>1. NewTags(p)' = NewTags(p)
      BY <1>1, <2>1 DEF NewTags
    <3>2. Accounted(NewTags(p))
      BY <1>3, <2>1 DEF Inv, TagsBounded
    <3>3. QED
      BY <1>1, <3>1, <3>2 DEF Accounted
  <2>2. CASE ~(UnderWay(p) /\ seen'[p] = seen[p])
    <3>1. p = r /\ Waiting(r) /\ at[r] = "new" /\ at'[r] # "failed"
      BY <1>1, <1>3, <2>2
      DEF Waiting, Showing, Quiet, Shows, TagStep, UnderWay, TagKinds, Typed
    <3>2. QED
      BY <1>3, <3>1, TagStepBounded
  <2>3. QED
    BY <2>1, <2>2
<1>4. QED
  BY <1>1, <1>2, <1>3 DEF TagsBounded

(* What is there at the start is within the limits.                        *)
LEMMA SeedsFit ==
  ASSUME Init, NEW k \in Tables
  PROVE  Cardinality(Rows(k)) <= Limit(k) /\ Cardinality(Rows(k)) \in Nat
<1>1. IsFiniteSet(OwnSeeds) /\ IsFiniteSet(SystemSeeds) /\ IsFiniteSet(Rows(k))
  BY TenantDataAssumption, RowsFinite, FS_Subset DEF Init, Seeds
<1> DEFINE listed == {s \in Symbols : \E i \in DOMAIN Watched : Watched[i] = s}
<1>2. IsFiniteSet(listed)
  BY TenantDataAssumption, FS_Subset
<1>3. Rows(k) \subseteq IF k = "own" THEN OwnSeeds ELSE IF k = "system" THEN SystemSeeds
                        ELSE IF k = "source" THEN {} ELSE listed
  <2>1. Live \subseteq Seeds
    BY DEF Init, Live, Categories
  <2>2. \A c \in Seeds : Owner(c) = IF c \in OwnSeeds THEN "own" ELSE "system"
    BY TenantDataAssumption DEF Owner
  <2>3. Owned("own") \subseteq OwnSeeds /\ Owned("system") \subseteq SystemSeeds
    BY <2>1, <2>2 DEF Owned, Seeds
  <2>4. WatchedNow \subseteq listed
    BY DEF Init, WatchedNow, IsWatched
  <2>5. sources = {}
    BY DEF Init
  <2>6. QED
    BY <2>3, <2>4, <2>5 DEF Rows, Tables, Tenants
<1>4. Limit(k) \in Nat /\ Cardinality({}) = 0 /\ IsFiniteSet({})
  BY LimitNat, FS_EmptySet
<1>5. /\ Cardinality(OwnSeeds) \in Nat /\ Cardinality(SystemSeeds) \in Nat
      /\ Cardinality(listed) \in Nat /\ Cardinality(Rows(k)) \in Nat
  BY <1>1, <1>2, FS_CardinalityType
<1>6. CASE k = "own"
  BY <1>1, <1>3, <1>4, <1>5, <1>6, FS_Subset, TenantDataAssumption DEF Limit, Tenants
<1>7. CASE k = "system"
  BY <1>1, <1>3, <1>4, <1>5, <1>7, FS_Subset, TenantDataAssumption DEF Limit, Tenants
<1>8. CASE k = "source"
  <2>1. Rows(k) = {}
    BY <1>3, <1>8
  <2>2. QED
    BY <1>4, <1>5, <2>1
<1>9. CASE k = "watch"
  <2>1. Rows(k) \subseteq listed
    BY <1>3, <1>9
  <2>2. Cardinality(Rows(k)) <= Cardinality(listed)
    BY <1>2, <2>1, FS_Subset
  <2>3. Cardinality(listed) <= MaxWatched /\ Limit(k) = MaxWatched
    BY <1>9, TenantDataAssumption DEF Limit, Tenants
  <2>4. QED
    BY <1>4, <1>5, <2>2, <2>3
<1>10. QED
  BY <1>6, <1>7, <1>8, <1>9 DEF Tables, Tenants

LEMMA InvInit == Init => Inv
<1> SUFFICES ASSUME Init PROVE Inv
  OBVIOUS
<1>1. \A r \in Requests : ~UnderWay(r)
  BY DEF Init, UnderWay
<1>2. Typed
  BY TenantDataAssumption DEF Init, Typed, Stages
<1>3. RoomLeft
  BY <1>1 DEF RoomLeft
<1>4. RowsBounded
  <2> SUFFICES ASSUME NEW k \in Tables
               PROVE  Cardinality(Rows(k)) <= Limit(k) + Cardinality(Overtaken(k))
    BY DEF RowsBounded
  <2>1. Cardinality(Rows(k)) <= Limit(k) /\ Cardinality(Rows(k)) \in Nat
    BY SeedsFit
  <2>2. Limit(k) \in Nat /\ Cardinality(Overtaken(k)) \in Nat
    BY LimitNat, OvertakenFinite
  <2>3. QED
    BY <2>1, <2>2
<1>5. Accounted(tags)
  BY TenantDataAssumption DEF Init, Accounted
<1>6. QED
  BY <1>1, <1>2, <1>3, <1>4, <1>5 DEF Inv, TagsBounded

LEMMA InvStep == Inv /\ [Next]_vars => Inv'
<1> SUFFICES ASSUME Inv, [Next]_vars PROVE Inv'
  OBVIOUS
<1>1. CASE Next
  <2>1. PICK r \in Requests : Handler(r) \/ Abort(r)
    BY <1>1 DEF Next
  <2>2. (Waiting(r) \/ Showing(r)) /\ Typed'
    BY <2>1, StepShape, TypedStep DEF Inv
  <2>3. QED
    BY <2>2, RoomStep, BoundStep, TagsStep DEF Inv
<1>2. CASE UNCHANGED vars
  <2> USE <1>2 DEF vars, rows, local
  <2>1. Typed'
    BY DEF Inv, Typed
  <2>2. \A k : /\ Rows(k)' = Rows(k) /\ Limit(k)' = Limit(k) /\ Overtaken(k)' = Overtaken(k)
               /\ \A r : Adds(r, k)' <=> Adds(r, k)
    BY DEF Rows, Owned, Live, Owner, WatchedNow, Limit, Overtaken, Adds
  <2>3. RoomLeft'
    BY <2>2 DEF Inv, RoomLeft, UnderWay
  <2>4. RowsBounded'
    BY <2>2 DEF Inv, RowsBounded
  <2>5. TagsBounded'
    BY DEF Inv, TagsBounded, Accounted, Reclassified, Done, NewTags, UnderWay
  <2>6. QED
    BY <2>1, <2>3, <2>4, <2>5 DEF Inv
<1>3. QED
  BY <1>1, <1>2

(* A tenant passes a limit on categories, sources or watched symbols by at *)
(* most one row for each request that counted before another of its kind   *)
(* committed (create_category, create_source, add_to_watchlist: count,     *)
(* then write).                                                            *)
THEOREM LimitsKept == Spec => []LimitsHold
<1>1. Inv => LimitsHold
  BY DEF Inv, RowsBounded, LimitsHold
<1>2. QED
  BY <1>1, InvInit, InvStep, PTL DEF Spec

(* Whatever requests overlap, an item has more tags than the limit only as *)
(* the collection or a reclassification left them: no add_tag of a user    *)
(* takes the list there (item.py 68-86).                                   *)
THEOREM TagLimitKept == Spec => []TagsLimited
<1>1. Inv => TagsLimited
  BY DEF Inv, TagsBounded, Accounted, Reclassified, TagsLimited
<1>2. QED
  BY <1>1, InvInit, InvStep, PTL DEF Spec

-----------------------------------------------------------------------------
(* What the handlers hold and keep for themselves.                         *)

LocksApart == \A p, q \in Requests : p # q => held[p] \cap held[q] = {}

Kept ==
  /\ Typed
  /\ held = [r \in Requests |-> held[r]]
  /\ next = [r \in Requests |-> next[r]]
  /\ dirty = [r \in Requests |-> dirty[r]]
  /\ LocksApart

(* A step takes free locks, keeps its locks or gives them up.              *)
Holds(r) ==
  \/ held' = held
  \/ \E locks : Free(r, locks) /\ held' = [held EXCEPT ![r] = locks]
  \/ \E locks : Free(r, locks) /\ held' = [held EXCEPT ![r] = @ \cup locks]

LEMMA HoldsBasic ==
  ASSUME NEW r \in Requests
  PROVE  /\ \A from, ok, to : Advance(r, from, ok, to) => Holds(r)
         /\ \A from, locks, ok : Write(r, from, locks, ok) => Holds(r) /\ UNCHANGED local
         /\ Commit(r) => Holds(r) /\ UNCHANGED local
         /\ Abort(r) => Holds(r) /\ UNCHANGED local
<1>1. \A from, ok, to : Advance(r, from, ok, to) => Holds(r)
  BY DEF Advance, Holds
<1>2. Free(r, {})
  BY DEF Free
<1>3. ASSUME NEW from, NEW locks, NEW ok, Write(r, from, locks, ok)
      PROVE  Holds(r) /\ UNCHANGED local
  <2>1. CASE ok
    BY <1>3, <2>1 DEF Write, Holds
  <2>2. CASE ~ok
    BY <1>2, <1>3, <2>2 DEF Write, Holds
  <2>3. QED
    BY <2>1, <2>2
<1>4. Commit(r) => Holds(r) /\ UNCHANGED local
  BY <1>2 DEF Commit, Holds
<1>5. Abort(r) => Holds(r) /\ UNCHANGED local
  BY <1>2 DEF Abort, Holds
<1>6. QED
  BY <1>1, <1>3, <1>4, <1>5

(* What the step of r leaves of the other requests.                        *)
Locally(r) ==
  /\ \E x : seen' = [seen EXCEPT ![r] = x]
  /\ \E x : next' = [next EXCEPT ![r] = x]
  /\ \E x : dirty' = [dirty EXCEPT ![r] = x]

LEMMA LocalSame ==
  ASSUME Kept, NEW r \in Requests, UNCHANGED local
  PROVE  Locally(r)
<1>1. seen' = [seen EXCEPT ![r] = seen[r]]
  BY DEF Kept, Typed, local
<1>2. next' = [next EXCEPT ![r] = next[r]]
  BY DEF Kept, local
<1>3. dirty' = [dirty EXCEPT ![r] = dirty[r]]
  BY DEF Kept, local
<1>4. QED
  BY <1>1, <1>2, <1>3 DEF Locally

LEMMA StepHolds ==
  ASSUME Kept, NEW r \in Requests, Handler(r) \/ Abort(r)
  PROVE  Holds(r) /\ Locally(r)
<1> USE HoldsBasic, LocalSame
<1>1. CASE Abort(r)
  BY <1>1
<1>2. CASE CreateCategory(r, op[r])
  BY <1>2 DEF CreateCategory
<1>3. CASE UpdateCategory(r, op[r])
  BY <1>3 DEF UpdateCategory
<1>4. CASE DeleteCategory(r, op[r])
  BY <1>4 DEF DeleteCategory
<1>5. CASE CreateSource(r, op[r])
  BY <1>5 DEF CreateSource
<1>6. CASE DeleteSource(r, op[r])
  BY <1>6 DEF DeleteSource
<1>7. CASE EditTenant(r, op[r])
  BY <1>7 DEF EditTenant
<1>8. ASSUME NEW new, WriteTags(r, new) PROVE Holds(r) /\ Locally(r)
  BY <1>8 DEF WriteTags
<1>9. ASSUME NEW ok, ReadTags(r, ok) PROVE Holds(r) /\ Locally(r)
  <2>1. Holds(r) /\ seen' = [seen EXCEPT ![r] = tags]
    BY <1>9 DEF ReadTags
  <2>2. next' = [next EXCEPT ![r] = next[r]] /\ dirty' = [dirty EXCEPT ![r] = dirty[r]]
    BY <1>9 DEF ReadTags, Kept
  <2>3. QED
    BY <2>1, <2>2 DEF Locally
<1>10. CASE AddTag(r, op[r]) \/ RemoveTag(r, op[r]) \/ Reclassify(r, op[r])
  BY <1>8, <1>9, <1>10 DEF AddTag, RemoveTag, Reclassify
<1>11. CASE UpdateOverrides(r, op[r])
  BY <1>11 DEF UpdateOverrides
<1>12. CASE AddToWatchlist(r, op[r])
  BY <1>12 DEF AddToWatchlist
<1>13. CASE RemoveFromWatchlist(r, op[r])
  BY <1>13 DEF RemoveFromWatchlist
<1>14. CASE ReorderSelect(r, op[r])
  <2>1. Holds(r) /\ seen' = [seen EXCEPT ![r] = seen[r]]
    BY <1>14 DEF ReorderSelect, Holds, Kept, Typed
  <2>2. (\E x : next' = [next EXCEPT ![r] = x]) /\ (\E x : dirty' = [dirty EXCEPT ![r] = x])
    BY <1>14 DEF ReorderSelect
  <2>3. QED
    BY <2>1, <2>2 DEF Locally
<1>15. CASE ReorderFlush(r)
  <2>1. Holds(r)
    <3>1. Free(r, {}) /\ Free(r, {<<"watch", dirty[r]>>})
      BY <1>15 DEF ReorderFlush, Free
    <3>2. CASE pos[dirty[r]] # None
      BY <1>15, <3>1, <3>2 DEF ReorderFlush, Holds
    <3>3. CASE pos[dirty[r]] = None
      BY <1>15, <3>1, <3>3 DEF ReorderFlush, Holds
    <3>4. QED
      BY <3>2, <3>3
  <2>2. seen' = [seen EXCEPT ![r] = seen[r]] /\ next' = [next EXCEPT ![r] = next[r]]
    BY <1>15 DEF ReorderFlush, Kept, Typed
  <2>3. QED
    BY <1>15, <2>1, <2>2 DEF Locally, ReorderFlush
<1>16. CASE ReorderWatchlist(r, op[r])
  BY <1>14, <1>15, <1>16 DEF ReorderWatchlist, Deadlocked
<1>17. QED
  BY <1>1, <1>2, <1>3, <1>4, <1>5, <1>6, <1>7, <1>10, <1>11, <1>12, <1>13, <1>16 DEF Handler

(* The other requests keep what they have.                                 *)
Alone(r) ==
  \A q \in Requests \ {r} :
    /\ at'[q] = at[q] /\ held'[q] = held[q] /\ seen'[q] = seen[q]
    /\ next'[q] = next[q] /\ dirty'[q] = dirty[q]

LEMMA KeptStep ==
  ASSUME Kept, NEW r \in Requests, Handler(r) \/ Abort(r)
  PROVE  Kept' /\ Alone(r) /\ (Waiting(r) \/ Showing(r)) /\ op' = op /\ overtook \subseteq overtook'
<1>1. Typed' /\ (Waiting(r) \/ Showing(r)) /\ Holds(r) /\ Locally(r)
  BY StepShape, TypedStep, StepHolds DEF Kept
<1>2. op' = op /\ overtook \subseteq overtook'
  BY <1>1 DEF Waiting, Showing, Quiet, Shows
<1>3. /\ next' = [q \in Requests |-> next'[q]] /\ dirty' = [q \in Requests |-> dirty'[q]]
      /\ \A q \in Requests \ {r} : next'[q] = next[q] /\ dirty'[q] = dirty[q] /\ seen'[q] = seen[q]
  BY <1>1 DEF Locally, Kept, Typed
<1>4. \A q \in Requests \ {r} : at'[q] = at[q]
  BY <1>1 DEF Waiting, Showing, Quiet, Shows, Kept, Typed
<1>5. /\ held' = [q \in Requests |-> held'[q]]
      /\ \A q \in Requests \ {r} : held'[q] = held[q] /\ held[q] \cap held'[r] = {}
  <2>1. CASE held' = held
    BY <2>1 DEF Kept, LocksApart
  <2>2. CASE \E locks : Free(r, locks) /\ held' = [held EXCEPT ![r] = locks]
    BY <2>2 DEF Kept, Free
  <2>3. CASE \E locks : Free(r, locks) /\ held' = [held EXCEPT ![r] = @ \cup locks]
    <3>1. PICK locks : Free(r, locks) /\ held' = [held EXCEPT ![r] = @ \cup locks]
      BY <2>3
    <3>2. held'[r] = held[r] \cup locks /\ \A q \in Requests \ {r} : held'[q] = held[q]
      BY <3>1 DEF Kept
    <3>3. \A q \in Requests \ {r} : held[q] \cap held[r] = {} /\ held[q] \cap locks = {}
      BY <3>1 DEF Kept, LocksApart, Free
    <3>4. QED
      BY <3>1, <3>2, <3>3 DEF Kept
  <2>4. QED
    BY <1>1, <2>1, <2>2, <2>3 DEF Holds
<1>6. LocksApart'
  BY <1>5 DEF Kept, LocksApart
<1>7. QED
  BY <1>1, <1>2, <1>3, <1>4, <1>5, <1>6 DEF Kept, Alone

-----------------------------------------------------------------------------
(* What a commit makes of the rows.                                        *)

Effect(r) ==
  LET o == op[r] IN
  /\ slugOf' = IF o.kind = "newCategory" THEN [slugOf EXCEPT ![r] = o.slug]
               ELSE IF o.kind = "editCategory"
                 THEN [c \in Categories |->
                         IF c = o.category /\ slugOf[c] # None THEN o.slug ELSE slugOf[c]]
               ELSE IF o.kind = "dropCategory" THEN [slugOf EXCEPT ![o.category] = None]
               ELSE slugOf
  /\ sources' = IF o.kind = "newSource" THEN sources \cup {r}
                ELSE IF o.kind = "dropSource" THEN sources \ {o.source}
                ELSE IF o.kind = "dropCategory" THEN sources \ SourcesIn(o.category)
                ELSE sources
  /\ tags' = IF o.kind \in TagKinds /\ held[r] # {} THEN NewTags(r) ELSE tags
  /\ pos' = IF o.kind = "watch" THEN [pos EXCEPT ![o.symbol] = 0]
            ELSE IF o.kind = "unwatch" THEN [pos EXCEPT ![o.symbol] = None]
            ELSE IF o.kind = "reorder"
              THEN [s \in Symbols |-> IF <<"watch", s>> \in held[r] /\ pos[s] # None
                                      THEN NewPos(o, s) ELSE pos[s]]
            ELSE pos

LEMMA Effects ==
  ASSUME NEW r \in Requests, Handler(r), at[r] = "written", at'[r] = "done"
  PROVE  Effect(r)
<1> USE DEF Effect, TagKinds, Advance, Write
<1>1. CASE op[r].kind = "newCategory" /\ CreateCategory(r, op[r])
  BY <1>1 DEF CreateCategory
<1>2. CASE op[r].kind = "editCategory" /\ UpdateCategory(r, op[r])
  BY <1>2 DEF UpdateCategory
<1>3. CASE op[r].kind = "dropCategory" /\ DeleteCategory(r, op[r])
  BY <1>3 DEF DeleteCategory
<1>4. CASE op[r].kind = "newSource" /\ CreateSource(r, op[r])
  BY <1>4 DEF CreateSource
<1>5. CASE op[r].kind = "dropSource" /\ DeleteSource(r, op[r])
  BY <1>5 DEF DeleteSource
<1>6. CASE op[r].kind = "editTenant" /\ EditTenant(r, op[r])
  BY <1>6 DEF EditTenant, rows
<1>7. ASSUME op[r].kind \in TagKinds, WriteTags(r, NewTags(r))
      PROVE  Effect(r)
  BY <1>7 DEF WriteTags
<1>8. \A ok : ~ReadTags(r, ok)
  BY DEF ReadTags
<1>9. CASE op[r].kind = "addTag" /\ AddTag(r, op[r])
  BY <1>7, <1>8, <1>9 DEF AddTag, NewTags
<1>10. CASE op[r].kind = "removeTag" /\ RemoveTag(r, op[r])
  BY <1>7, <1>8, <1>10 DEF RemoveTag, NewTags
<1>11. CASE op[r].kind = "reclassify" /\ Reclassify(r, op[r])
  BY <1>7, <1>8, <1>11 DEF Reclassify, NewTags
<1>12. CASE op[r].kind = "override" /\ UpdateOverrides(r, op[r])
  BY <1>12 DEF UpdateOverrides
<1>13. CASE op[r].kind = "watch" /\ AddToWatchlist(r, op[r])
  BY <1>13 DEF AddToWatchlist
<1>14. CASE op[r].kind = "unwatch" /\ RemoveFromWatchlist(r, op[r])
  BY <1>14 DEF RemoveFromWatchlist
<1>15. CASE op[r].kind = "reorder" /\ ReorderWatchlist(r, op[r])
  <2>1. ~ReorderSelect(r, op[r]) /\ ~ReorderFlush(r)
    BY DEF ReorderSelect, ReorderFlush
  <2>2. CASE Deadlocked(r)
    BY <2>2 DEF Deadlocked, Waits, Abort
  <2>3. QED
    BY <1>15, <2>1, <2>2 DEF ReorderWatchlist
<1>16. QED
  BY <1>1, <1>2, <1>3, <1>4, <1>5, <1>6, <1>9, <1>10, <1>11, <1>12, <1>13, <1>14, <1>15
  DEF Handler

(* A step shows nothing, or is a commit with its effect.                   *)
LEMMA StepEffect ==
  ASSUME Kept, NEW r \in Requests, Handler(r) \/ Abort(r)
  PROVE  Quiet(r) \/ (Handler(r) /\ Shows(r) /\ Effect(r))
<1>1. Waiting(r) \/ Showing(r)
  BY KeptStep
<1>2. ASSUME Showing(r) PROVE Shows(r) /\ at[r] = "written" /\ at'[r] = "done"
  BY <1>2 DEF Showing, Shows, Kept, Typed
<1>3. ASSUME Showing(r) PROVE Handler(r)
  BY <1>2, <1>3 DEF Abort, Kept, Typed
<1>4. QED
  BY <1>1, <1>2, <1>3, Effects DEF Waiting

LEMMA KeptInit == Init => Kept
BY InvInit DEF Inv, Kept, Init, LocksApart

LEMMA KeptStutter == Kept /\ UNCHANGED vars => Kept'
BY DEF Kept, Typed, LocksApart, vars, rows, local

-----------------------------------------------------------------------------
(* Sources and the cascade.  A delete that found its category empty is     *)
(* followed only by sources that were committed behind it.                 *)

Cascading ==
  /\ \A r \in sources : Done(r, "newSource")
  /\ \A r \in sources, q \in Requests :
       /\ op[q].kind = "dropCategory" /\ at[q] \in {"checked", "written"}
       /\ op[q].category = op[r].category
       => <<r, q>> \in overtook

CascadeInv == Kept /\ Cascading /\ CascadesNamed

(* A delete of a category goes on only if it counted no source.            *)
LEMMA DropCounts ==
  ASSUME Typed, NEW q \in Requests, Handler(q) \/ Abort(q), op[q].kind = "dropCategory",
         at'[q] \in {"checked", "written"}
  PROVE  at[q] = "checked" \/ SourcesIn(op[q].category) = {}
<1>1. CASE Abort(q)
  BY <1>1 DEF Abort, Typed
<1>2. CASE Handler(q)
  <2>1. DeleteCategory(q, op[q])
    BY <1>2 DEF Handler
  <2>2. QED
    BY <2>1 DEF DeleteCategory, Advance, Write, Commit, Typed
<1>3. QED
  BY <1>1, <1>2

LEMMA CascadingStep ==
  ASSUME CascadeInv, NEW p \in Requests, Handler(p) \/ Abort(p)
  PROVE  Cascading'
<1>1. /\ Kept /\ Kept' /\ Alone(p) /\ op' = op /\ overtook \subseteq overtook'
      /\ (Quiet(p) \/ (Shows(p) /\ Effect(p))) /\ Cascading /\ Typed
  BY KeptStep, StepEffect DEF CascadeInv, Kept
<1>2. \A r \in sources : Done(r, "newSource")'
  BY <1>1 DEF Cascading, Done, Alone, Quiet, Shows, Typed
<1>3. \A r \in sources' : r \in sources \/ (r = p /\ op[p].kind = "newSource" /\ Shows(p))
  BY <1>1 DEF Quiet, Effect
<1>4. \A r \in sources' : Done(r, "newSource")'
  BY <1>1, <1>2, <1>3 DEF Done, Shows, Typed
<1>5. ASSUME NEW r \in sources', NEW q \in Requests, op[q].kind = "dropCategory",
             at'[q] \in {"checked", "written"}, op[q].category = op[r].category
      PROVE  <<r, q>> \in overtook'
  <2>1. CASE r \in sources /\ q = p
    <3>1. at[p] = "checked" \/ SourcesIn(op[p].category) = {}
      BY <1>1, <1>5, <2>1, DropCounts
    <3>2. r \in SourcesIn(op[p].category)
      BY <1>5, <2>1 DEF SourcesIn
    <3>3. QED
      BY <1>1, <1>5, <2>1, <3>1, <3>2 DEF Cascading
  <2>2. CASE r \in sources /\ q # p
    BY <1>1, <1>5, <2>2 DEF Cascading, Alone
  <2>3. CASE r \notin sources
    <3>1. r = p /\ op[p].kind = "newSource" /\ Shows(p)
      BY <1>3, <1>5, <2>3
    <3>2. q # p /\ UnderWay(q)
      BY <1>1, <1>5, <3>1 DEF Alone, UnderWay
    <3>3. QED
      BY <3>1, <3>2 DEF Shows
  <2>4. QED
    BY <2>1, <2>2, <2>3
<1>6. QED
  BY <1>1, <1>4, <1>5 DEF Cascading

LEMMA CascadesStep ==
  ASSUME CascadeInv, NEW p \in Requests, Handler(p) \/ Abort(p)
  PROVE  CascadesNamed'
<1>1. /\ Kept /\ Alone(p) /\ op' = op /\ overtook \subseteq overtook'
      /\ (Quiet(p) \/ (Shows(p) /\ Effect(p))) /\ Cascading /\ Typed
  BY KeptStep, StepEffect DEF CascadeInv, Kept
<1>2. \A kind : \A q \in Requests : Done(q, kind) => Done(q, kind)'
  BY <1>1 DEF Done, Alone, Quiet, Shows, Typed
<1> SUFFICES ASSUME NEW r \in Requests, Done(r, "newSource")', r \notin sources'
             PROVE  \/ \E q \in Requests : Done(q, "dropSource")' /\ op[q].source = r
                    \/ \E q \in Requests : /\ Done(q, "dropCategory")'
                                           /\ op[q].category = op[r].category
                                           /\ <<r, q>> \in overtook'
  BY <1>1 DEF CascadesNamed
<1>3. CASE r \in sources
  <2>1. Shows(p) /\ Effect(p)
    BY <1>1, <1>3 DEF Quiet
  <2>2. at[p] = "written" /\ at'[p] = "done"
    BY <1>1, <2>1 DEF Shows, Typed
  <2>3. CASE op[p].kind = "dropSource"
    BY <1>1, <1>3, <2>1, <2>2, <2>3 DEF Effect, Done
  <2>4. CASE op[p].kind = "dropCategory"
    <3>1. op[r].category = op[p].category
      BY <1>3, <2>1, <2>4 DEF Effect, SourcesIn
    <3>2. <<r, p>> \in overtook
      BY <1>1, <1>3, <2>2, <2>4, <3>1 DEF Cascading
    <3>3. QED
      BY <1>1, <2>2, <2>4, <3>1, <3>2 DEF Done
  <2>5. QED
    BY <1>3, <2>1, <2>3, <2>4 DEF Effect
<1>4. CASE r \notin sources
  <2>1. Done(r, "newSource")
    <3>1. CASE r = p
      BY <1>1, <1>4, <3>1 DEF Done, Quiet, Shows, Effect, Typed, Stages
    <3>2. CASE r # p
      BY <1>1, <3>2 DEF Done, Alone
    <3>3. QED
      BY <3>1, <3>2
  <2>2. QED
    BY <1>1, <1>2, <1>4, <2>1 DEF CascadeInv, CascadesNamed
<1>5. QED
  BY <1>3, <1>4

(* A source that was created is gone only through a delete of it, or       *)
(* through a delete of its category that had counted the sources before it *)
(* was committed (delete_category 327-336).                                *)
THEOREM CascadesKnown == Spec => []CascadesNamed
<1>1. Init => CascadeInv
  BY KeptInit DEF CascadeInv, Init, Cascading, CascadesNamed, Done
<1>2. CascadeInv /\ [Next]_vars => CascadeInv'
  <2> SUFFICES ASSUME CascadeInv, [Next]_vars PROVE CascadeInv'
    OBVIOUS
  <2>1. CASE Next
    BY <2>1, CascadingStep, CascadesStep, KeptStep DEF Next, CascadeInv
  <2>2. CASE UNCHANGED vars
    <3>1. Kept'
      BY <2>2, KeptStutter DEF CascadeInv
    <3>2. Cascading' /\ CascadesNamed'
      BY <2>2 DEF CascadeInv, Cascading, CascadesNamed, Done, vars, rows
    <3>3. QED
      BY <3>1, <3>2 DEF CascadeInv
  <2>3. QED
    BY <2>1, <2>2
<1>3. CascadeInv => CascadesNamed
  BY DEF CascadeInv
<1>4. QED
  BY <1>1, <1>2, <1>3, PTL DEF Spec

-----------------------------------------------------------------------------
(* Tags.  A request for one tag sees to it that the list it writes has the *)
(* tag, or has it not.                                                     *)

AsksTag(r) == op[r].kind \in {"addTag", "removeTag"}
Shown(r, S) == IF op[r].kind = "addTag" THEN op[r].tag \in S ELSE op[r].tag \notin S
Opposite(r) == IF op[r].kind = "addTag" THEN "removeTag" ELSE "addTag"

Excused(r) ==
  \E q \in Requests \ {r} :
    Rewrites(q, r) \/ (Done(q, Opposite(r)) /\ op[q].tag = op[r].tag)

TagsShown ==
  \A r \in Requests : AsksTag(r) /\ at[r] = "done" => Shown(r, tags) \/ Excused(r)

(* A list that was read before r committed is written back over it; one    *)
(* read later has what r asked for.                                        *)
ListsRead ==
  \A r \in Requests, q \in Requests :
    /\ q # r /\ AsksTag(r) /\ at[r] = "done" /\ op[q].kind \in TagKinds /\ UnderWay(q)
    => Shown(r, seen[q]) \/ <<r, q>> \in overtook \/ Excused(r)

(* A list is as it was read, or a request overtook the reader.             *)
ListsStale ==
  \A r \in Requests :
    op[r].kind \in TagKinds /\ UnderWay(r) =>
      seen[r] = tags \/ \E q \in Requests \ {r} : at[q] = "done" /\ <<q, r>> \in overtook

(* What is not locked is not changed.                                      *)
Unwritten ==
  \A r \in Requests :
    op[r].kind \in TagKinds /\ at[r] = "written" /\ held[r] = {} => NewTags(r) = seen[r]

TagInv == Kept /\ TagsShown /\ ListsRead /\ ListsStale /\ Unwritten

LEMMA TagHolds ==
  ASSUME Kept, NEW r \in Requests, Handler(r) \/ Abort(r), op[r].kind \in TagKinds,
         at'[r] = "written"
  PROVE  seen' = seen /\ (held'[r] = {} => NewTags(r) = seen[r])
<1>1. ~Abort(r) /\ ~Commit(r)
  BY DEF Abort, Commit, Kept, Typed
<1>2. \A ok : ~ReadTags(r, ok)
  BY DEF ReadTags, Advance, Kept, Typed
<1>3. WriteTags(r, NewTags(r))
  <2>1. CASE op[r].kind = "addTag"
    BY <1>1, <1>2, <2>1 DEF Handler, AddTag, NewTags
  <2>2. CASE op[r].kind = "removeTag"
    BY <1>1, <1>2, <2>2 DEF Handler, RemoveTag, NewTags
  <2>3. CASE op[r].kind = "reclassify"
    BY <1>1, <1>2, <2>3 DEF Handler, Reclassify, NewTags
  <2>4. QED
    BY <2>1, <2>2, <2>3 DEF TagKinds
<1>4. CASE Write(r, "read", {<<"item">>}, TRUE)
  BY <1>4 DEF Write, local, Kept
<1>5. CASE NewTags(r) = seen[r] /\ UNCHANGED local
  BY <1>5 DEF local
<1>6. QED
  BY <1>1, <1>3, <1>4, <1>5 DEF WriteTags

(* What a step is for the tags: it reads the list, or leaves what was read *)
(* alone; and only a commit that holds a lock changes the list.            *)
LEMMA TagMoves ==
  ASSUME Kept, NEW p \in Requests, Handler(p) \/ Abort(p)
  PROVE  /\ \A q \in Requests : op[q].kind \in TagKinds /\ UnderWay(q)' =>
              \/ UnderWay(q) /\ seen'[q] = seen[q]
              \/ q = p /\ seen'[q] = tags /\ tags' = tags
         /\ tags' # tags =>
              Shows(p) /\ op[p].kind \in TagKinds /\ held[p] # {} /\ tags' = NewTags(p)
         /\ \A q \in Requests : at[q] = "done" => at'[q] = "done"
         /\ \A q \in Requests : at'[q] = "done" => at[q] = "done" \/ (q = p /\ Shows(p) /\ Effect(p))
<1>1. /\ Waiting(p) \/ Showing(p)
      /\ Alone(p) /\ op' = op /\ (Quiet(p) \/ (Shows(p) /\ Effect(p))) /\ Typed
  BY KeptStep, StepEffect DEF Kept
<1>2. ASSUME NEW q \in Requests, op[q].kind \in TagKinds, UnderWay(q)'
      PROVE  \/ UnderWay(q) /\ seen'[q] = seen[q]
             \/ q = p /\ seen'[q] = tags /\ tags' = tags
  <2>1. CASE q # p
    BY <1>1, <1>2, <2>1 DEF Alone, UnderWay
  <2>2. CASE q = p
    <3>1. Waiting(p) /\ tags' = tags
      BY <1>1, <1>2, <2>2 DEF Showing, Shows, Waiting, Quiet, UnderWay, Typed
    <3>2. CASE at[p] = "new"
      BY <1>1, <1>2, <2>2, <3>1, <3>2 DEF Waiting, TagStep, TagKinds, Typed
    <3>3. CASE at[p] # "new"
      BY <1>1, <1>2, <2>2, <3>1, <3>3 DEF Waiting, TagStep, Quiet, UnderWay, Typed
    <3>4. QED
      BY <3>2, <3>3
  <2>3. QED
    BY <2>1, <2>2
<1>3. tags' # tags => Shows(p) /\ op[p].kind \in TagKinds /\ held[p] # {} /\ tags' = NewTags(p)
  BY <1>1 DEF Quiet, Effect
<1>4. \A q \in Requests : at[q] = "done" => at'[q] = "done"
  BY <1>1 DEF Alone, Quiet, Shows, Typed
<1>5. \A q \in Requests : at'[q] = "done" => at[q] = "done" \/ (q = p /\ Shows(p) /\ Effect(p))
  BY <1>1 DEF Alone, Quiet, Typed
<1>6. QED
  BY <1>2, <1>3, <1>4, <1>5

LEMMA ExcusesStay ==
  ASSUME Kept, NEW p \in Requests, Handler(p) \/ Abort(p), NEW r \in Requests, Excused(r)
  PROVE  Excused(r)'
<1>1. op' = op /\ overtook \subseteq overtook' /\ \A q \in Requests : at[q] = "done" => at'[q] = "done"
  BY KeptStep, TagMoves
<1>2. PICK q \in Requests \ {r} :
        Rewrites(q, r) \/ (Done(q, Opposite(r)) /\ op[q].tag = op[r].tag)
  BY DEF Excused
<1>3. Rewrites(q, r)' \/ (Done(q, Opposite(r))' /\ op'[q].tag = op'[r].tag)
  BY <1>1, <1>2 DEF Rewrites, Done, Opposite
<1>4. QED
  BY <1>2, <1>3 DEF Excused

(* A commit changes the list and r stands against it: it asks for the      *)
(* opposite, gives a list of its own, or had read the list before r.       *)
LEMMA TagsShownStep ==
  ASSUME TagInv, NEW p \in Requests, Handler(p) \/ Abort(p)
  PROVE  TagsShown'
<1> SUFFICES ASSUME NEW r \in Requests, AsksTag(r)', at'[r] = "done", ~Shown(r, tags)'
             PROVE  Excused(r)'
  BY DEF TagsShown
<1>1. /\ Kept /\ Typed /\ op' = op /\ overtook \subseteq overtook'
      /\ AsksTag(r) /\ ~Shown(r, tags')
  BY KeptStep DEF TagInv, Kept, AsksTag, Shown
<1>2. CASE Excused(r)
  BY <1>1, <1>2, ExcusesStay
<1>3. CASE at[r] = "done" /\ Shown(r, tags)
  <2>1. /\ Shows(p) /\ op[p].kind \in TagKinds /\ tags' = NewTags(p)
    BY <1>1, <1>3, TagMoves
  <2>2. p # r /\ at'[p] = "done" /\ UnderWay(p)
    BY <1>1, <1>3, <2>1 DEF Shows, UnderWay, Typed
  <2>3. CASE op[p].kind = "reclassify"
    BY <1>1, <2>2, <2>3 DEF Excused, Rewrites
  <2>4. CASE op[p].kind = Opposite(r) /\ op[p].tag = op[r].tag
    BY <1>1, <2>2, <2>4 DEF Excused, Done, Opposite
  <2>5. CASE op[p].kind # "reclassify" /\ ~(op[p].kind = Opposite(r) /\ op[p].tag = op[r].tag)
    <3>1. ~Shown(r, seen[p])
      BY <1>1, <2>1, <2>5 DEF NewTags, Shown, Opposite, TagKinds, AsksTag
    <3>2. <<r, p>> \in overtook \/ Excused(r)
      BY <1>1, <1>3, <2>1, <2>2, <3>1 DEF TagInv, ListsRead
    <3>3. CASE <<r, p>> \in overtook
      BY <1>1, <2>2, <3>3 DEF Excused, Rewrites
    <3>4. QED
      BY <1>2, <3>2, <3>3
  <2>6. QED
    BY <2>3, <2>4, <2>5
<1>4. CASE at[r] # "done"
  <2>1. r = p /\ Shows(p) /\ Effect(p)
    BY <1>1, <1>4, TagMoves
  <2>2. op[r].kind \in TagKinds /\ at[r] = "written" /\ UnderWay(r)
    BY <1>1, <2>1 DEF AsksTag, TagKinds, Shows, UnderWay
  <2>3. Shown(r, NewTags(r))
    BY <1>1 DEF Shown, NewTags, AsksTag
  <2>4. held[r] = {} /\ tags' = tags
    BY <1>1, <2>1, <2>2, <2>3 DEF Effect
  <2>5. seen[r] # tags
    BY <1>1, <2>2, <2>3, <2>4 DEF TagInv, Unwritten
  <2>6. PICK q \in Requests \ {r} : at[q] = "done" /\ <<q, r>> \in overtook
    BY <1>1, <2>2, <2>5 DEF TagInv, ListsStale
  <2>7. at'[q] = "done"
    BY <1>1, <2>6, TagMoves
  <2>8. QED
    BY <1>1, <2>6, <2>7 DEF Excused, Rewrites
<1>5. QED
  BY <1>1, <1>2, <1>3, <1>4 DEF TagInv, TagsShown

LEMMA ListsReadStep ==
  ASSUME TagInv, NEW p \in Requests, Handler(p) \/ Abort(p)
  PROVE  ListsRead'
<1>1. Kept /\ Typed /\ op' = op /\ overtook \subseteq overtook'
  BY KeptStep DEF TagInv, Kept
<1> SUFFICES ASSUME NEW r \in Requests, NEW q \in Requests, q # r, AsksTag(r), at'[r] = "done",
                    op[q].kind \in TagKinds, UnderWay(q)'
             PROVE  Shown(r, seen'[q]) \/ <<r, q>> \in overtook' \/ Excused(r)'
  BY <1>1 DEF ListsRead, AsksTag, Shown
<1>2. CASE Excused(r)
  BY <1>1, <1>2, ExcusesStay
<1>3. CASE at[r] = "done" /\ UnderWay(q) /\ seen'[q] = seen[q]
  <2>1. Shown(r, seen[q]) \/ <<r, q>> \in overtook \/ Excused(r)
    BY <1>3 DEF TagInv, ListsRead
  <2>2. QED
    BY <1>1, <1>2, <1>3, <2>1
<1>4. CASE at[r] = "done" /\ seen'[q] = tags
  <2>1. Shown(r, tags) \/ Excused(r)
    BY <1>4 DEF TagInv, TagsShown
  <2>2. QED
    BY <1>2, <1>4, <2>1
<1>5. CASE at[r] # "done"
  <2>1. r = p /\ Shows(p)
    BY <1>1, <1>5, TagMoves
  <2>2. UnderWay(q)
    BY <1>1, <2>1, KeptStep DEF Alone, UnderWay
  <2>3. QED
    BY <2>1, <2>2 DEF Shows
<1>6. QED
  BY <1>1, <1>3, <1>4, <1>5, TagMoves

LEMMA ListsStaleStep ==
  ASSUME TagInv, NEW p \in Requests, Handler(p) \/ Abort(p)
  PROVE  ListsStale' /\ Unwritten'
<1>1. Kept /\ Typed /\ op' = op /\ overtook \subseteq overtook' /\ Alone(p)
  BY KeptStep DEF TagInv, Kept
<1>2. ASSUME NEW r \in Requests, op[r].kind \in TagKinds, UnderWay(r)'
      PROVE  seen'[r] = tags' \/ \E q \in Requests \ {r} : at'[q] = "done" /\ <<q, r>> \in overtook'
  <2>1. CASE seen'[r] = tags /\ tags' = tags
    BY <2>1
  <2>2. CASE UnderWay(r) /\ seen'[r] = seen[r] /\ tags' = tags
    <3>1. seen[r] = tags \/ \E q \in Requests \ {r} : at[q] = "done" /\ <<q, r>> \in overtook
      BY <1>2, <2>2 DEF TagInv, ListsStale
    <3>2. QED
      BY <1>1, <2>2, <3>1, TagMoves
  <2>3. CASE UnderWay(r) /\ tags' # tags
    <3>1. Shows(p)
      BY <1>1, <2>3, TagMoves
    <3>2. p # r /\ at'[p] = "done"
      BY <1>1, <1>2, <3>1 DEF Shows, UnderWay, Typed
    <3>3. <<p, r>> \in overtook'
      BY <2>3, <3>1, <3>2 DEF Shows
    <3>4. QED
      BY <3>2, <3>3
  <2>4. QED
    BY <1>1, <1>2, <2>1, <2>2, <2>3, TagMoves
<1>3. ASSUME NEW r \in Requests, op[r].kind \in TagKinds, at'[r] = "written", held'[r] = {}
      PROVE  NewTags(r)' = seen'[r]
  <2>1. CASE r = p
    <3>1. seen' = seen /\ NewTags(r) = seen[r]
      BY <1>1, <1>3, <2>1, TagHolds
    <3>2. QED
      BY <1>1, <3>1 DEF NewTags
  <2>2. CASE r # p
    <3>1. at[r] = "written" /\ held[r] = {} /\ seen'[r] = seen[r]
      BY <1>1, <1>3, <2>2 DEF Alone
    <3>2. NewTags(r) = seen[r]
      BY <1>3, <3>1 DEF TagInv, Unwritten
    <3>3. QED
      BY <1>1, <3>1, <3>2 DEF NewTags
  <2>3. QED
    BY <2>1, <2>2
<1>4. QED
  BY <1>1, <1>2, <1>3 DEF ListsStale, Unwritten

LEMMA TagInvInit == Init => TagInv
<1> SUFFICES ASSUME Init PROVE TagInv
  OBVIOUS
<1>1. \A r \in Requests : at[r] = "new" /\ ~UnderWay(r)
  BY DEF Init, UnderWay
<1>2. QED
  BY <1>1, KeptInit DEF TagInv, TagsShown, ListsRead, ListsStale, Unwritten

LEMMA TagInvStep == TagInv /\ [Next]_vars => TagInv'
<1> SUFFICES ASSUME TagInv, [Next]_vars PROVE TagInv'
  OBVIOUS
<1>1. CASE Next
  <2>1. PICK p \in Requests : Handler(p) \/ Abort(p)
    BY <1>1 DEF Next
  <2>2. Kept'
    BY <2>1, KeptStep DEF TagInv
  <2>3. QED
    BY <2>1, <2>2, TagsShownStep, ListsReadStep, ListsStaleStep DEF TagInv
<1>2. CASE UNCHANGED vars
  <2> USE <1>2 DEF vars, rows, local
  <2>1. Kept'
    BY KeptStutter DEF TagInv
  <2>2. \A r : /\ Excused(r)' <=> Excused(r)
               /\ NewTags(r)' = NewTags(r) /\ (UnderWay(r)' <=> UnderWay(r))
    BY DEF Excused, Rewrites, Done, Opposite, NewTags, UnderWay
  <2>3. TagsShown' /\ ListsRead'
    BY <2>2 DEF TagInv, TagsShown, ListsRead, AsksTag, Shown
  <2>4. ListsStale' /\ Unwritten'
    BY <2>2 DEF TagInv, ListsStale, Unwritten
  <2>5. QED
    BY <2>1, <2>3, <2>4 DEF TagInv
<1>3. QED
  BY <1>1, <1>2

(* A tag a user added is lost, or one he removed is back, only through a   *)
(* request for that, a reclassification, or a request that overlapped his  *)
(* (add_tag and remove_tag write back the whole list they read).           *)
THEOREM TagsStay == Spec => []TagsKept
<1>1. TagInv => TagsKept
  BY DEF TagInv, TagsShown, TagsKept, Shown, AsksTag, Excused, Opposite, Done
<1>2. QED
  BY <1>1, TagInvInit, TagInvStep, PTL DEF Spec

-----------------------------------------------------------------------------
(* The watchlist.  A reorder has the places it gives in its list, holds    *)
(* the lock of an entry it changed, or was overtaken by another reorder.   *)

Entries(o) == {o.order[i] : i \in DOMAIN o.order}
Fits(r, s) == pos[s] \in {None, 0, NewPos(op[r], s)}
Overtook(r) == \E q \in Requests : Done(q, "reorder") /\ <<q, r>> \in overtook

(* The entries r has read are as it wants them, or will be at its commit.  *)
Ordered(r) ==
  \A i \in 1..next[r] :
    \/ Fits(r, op[r].order[i])
    \/ dirty[r] = op[r].order[i]
    \/ <<"watch", op[r].order[i]>> \in held[r]

Reordering ==
  \A r \in Requests : op[r].kind = "reorder" =>
    /\ at[r] = "new" => next[r] = 0
    /\ at[r] = "written" => next[r] = Len(op[r].order) /\ dirty[r] = None
    /\ at[r] \in {"read", "written"} => /\ next[r] \in 0..Len(op[r].order)
                                        /\ Overtook(r) \/ Ordered(r)
    /\ at[r] # "checked"

Reordered == {r \in Requests : Done(r, "reorder")}

(* Before any reorder the places are those of the start; after reorders    *)
(* that did not overlap they are those of the last one.                    *)
Placed ==
  /\ Reordered = {} =>
       \A s \in Symbols : pos[s] \in {None, 0} \/ (IsWatched(s) /\ pos[s] = Place(s))
  /\ Reordered # {} =>
       \/ \E q, r \in Reordered : <<q, r>> \in overtook
       \/ \E r \in Reordered : \A s \in Entries(op[r]) : Fits(r, s)

PlaceInv == Kept /\ Reordering /\ Placed

LEMMA OrderTyped ==
  ASSUME Typed, NEW r \in Requests
  PROVE  /\ op[r].kind = "reorder" => op[r].order \in Seq(Symbols)
         /\ op[r].kind \in {"watch", "unwatch"} => op[r].symbol \in Symbols
<1>1. op[r] \in Ops
  BY TenantDataAssumption DEF Typed
<1>2. op[r].kind = "reorder" => op[r].order \in Seq(Symbols)
  BY <1>1 DEF Ops
<1>3. op[r].kind \in {"watch", "unwatch"} => op[r].symbol \in Symbols
  BY <1>1 DEF Ops
<1>4. QED
  BY <1>2, <1>3

(* Places change by a reorder, to 0 or to no place.                        *)
LEMMA PlaceMoves ==
  ASSUME Kept, NEW p \in Requests, Handler(p) \/ Abort(p)
  PROVE  \/ pos' = pos /\ ~(Shows(p) /\ op[p].kind = "reorder")
         \/ /\ Shows(p) /\ op[p].kind # "reorder"
            /\ \A s \in Symbols : pos'[s] \in {pos[s], 0, None}
         \/ /\ Shows(p) /\ op[p].kind = "reorder"
            /\ \A s \in Symbols :
                 pos'[s] = IF <<"watch", s>> \in held[p] /\ pos[s] # None
                           THEN NewPos(op[p], s) ELSE pos[s]
<1>1. (Quiet(p) \/ (Shows(p) /\ Effect(p))) /\ Typed
  BY StepEffect DEF Kept
<1>2. CASE Quiet(p) /\ ~Shows(p)
  BY <1>2 DEF Quiet
<1>3. CASE Quiet(p) /\ Shows(p)
  BY <1>1, <1>3 DEF Quiet, Shows, Typed
<1>4. CASE Shows(p) /\ Effect(p) /\ op[p].kind = "reorder"
  BY <1>4 DEF Effect
<1>5. CASE Shows(p) /\ Effect(p) /\ op[p].kind # "reorder"
  <2>1. \A s \in Symbols : pos'[s] \in {pos[s], 0, None}
    BY <1>1, <1>5 DEF Effect, Typed
  <2>2. QED
    BY <1>5, <2>1
<1>6. QED
  BY <1>1, <1>2, <1>3, <1>4, <1>5

(* What a reorder does by itself before its commit.                        *)
LEMMA ReorderSteps ==
  ASSUME Kept, NEW p \in Requests, Handler(p) \/ Abort(p), op[p].kind = "reorder",
         at'[p] \in {"new", "read", "checked", "written"}
  PROVE  \/ ReorderSelect(p, op[p])
         \/ ReorderFlush(p)
         \/ /\ next[p] = Len(op[p].order) /\ dirty[p] = None
            /\ Advance(p, "read", TRUE, "written") /\ UNCHANGED local
<1>1. ~Abort(p) /\ ~Commit(p)
  BY DEF Abort, Commit, Kept, Typed
<1>2. ReorderWatchlist(p, op[p])
  BY <1>1 DEF Handler
<1>3. QED
  BY <1>1, <1>2 DEF ReorderWatchlist, Deadlocked

LEMMA OvertookStays ==
  ASSUME Kept, NEW p \in Requests, Handler(p) \/ Abort(p), NEW r \in Requests, Overtook(r)
  PROVE  Overtook(r)'
BY KeptStep, TagMoves DEF Overtook, Done

LEMMA OrderedStep ==
  ASSUME Kept, NEW p \in Requests, Handler(p) \/ Abort(p), op[p].kind = "reorder",
         at'[p] \in {"read", "written"}, at[p] \in {"new", "read"},
         next[p] \in 0..Len(op[p].order), Ordered(p)
  PROVE  next'[p] \in 0..Len(op[p].order) /\ Ordered(p)'
<1>1. op' = op /\ Typed /\ op[p].order \in Seq(Symbols)
  BY KeptStep, OrderTyped DEF Kept
<1>2. CASE ReorderSelect(p, op[p])
  <2>1. /\ next'[p] = next[p] + 1 /\ next[p] < Len(op[p].order)
        /\ dirty[p] = None /\ held' = held /\ pos' = pos
    BY <1>2 DEF ReorderSelect, rows, Kept
  <2> DEFINE new == op[p].order[next[p] + 1]
  <2>2. dirty'[p] = IF pos[new] \in {None, NewPos(op[p], new)} THEN None ELSE new
    BY <1>2 DEF ReorderSelect, Kept
  <2>3. ASSUME NEW i \in 1..next[p]
        PROVE  Fits(p, op[p].order[i]) \/ <<"watch", op[p].order[i]>> \in held[p]
    <3>1. op[p].order[i] \in Symbols
      BY <1>1, <2>1
    <3>2. op[p].order[i] # None
      BY <3>1, TenantDataAssumption
    <3>3. QED
      BY <2>1, <3>2 DEF Ordered
  <2>4. Fits(p, new) \/ dirty'[p] = new
    BY <2>2 DEF Fits
  <2>5. \A s : Fits(p, s)' <=> Fits(p, s)
    BY <1>1, <2>1 DEF Fits
  <2>6. \A i \in 1..(next[p] + 1) : i \in 1..next[p] \/ i = next[p] + 1
    OBVIOUS
  <2>7. ASSUME NEW i \in 1..next'[p], NEW s, s = op[p].order[i]
        PROVE  Fits(p, s)' \/ dirty'[p] = s \/ <<"watch", s>> \in held'[p]
    <3>1. CASE i \in 1..next[p]
      BY <2>1, <2>3, <2>5, <2>7, <3>1
    <3>2. CASE i = next[p] + 1
      BY <2>4, <2>5, <2>7, <3>2
    <3>3. QED
      BY <2>1, <2>6, <3>1, <3>2
  <2>8. Ordered(p)'
    BY <1>1, <2>7 DEF Ordered
  <2>9. next'[p] \in 0..Len(op[p].order)
    BY <1>1, <2>1
  <2>10. QED
    BY <2>8, <2>9
<1>3. CASE ReorderFlush(p)
  <2>1. /\ next' = next /\ pos' = pos /\ pos[dirty[p]] # None
        /\ held'[p] = held[p] \cup {<<"watch", dirty[p]>>}
    BY <1>3 DEF ReorderFlush, rows, Kept, Typed
  <2>2. \A s : Fits(p, s)' <=> Fits(p, s)
    BY <1>1, <2>1 DEF Fits
  <2>3. QED
    BY <1>1, <2>1, <2>2 DEF Ordered
<1>4. CASE Advance(p, "read", TRUE, "written") /\ UNCHANGED local
  BY <1>1, <1>4 DEF Advance, local, rows, Ordered, Fits
<1>5. QED
  BY <1>2, <1>3, <1>4, ReorderSteps

LEMMA ReorderingStep ==
  ASSUME PlaceInv, NEW p \in Requests, Handler(p) \/ Abort(p)
  PROVE  Reordering'
<1>1. Kept /\ Typed /\ op' = op /\ Alone(p) /\ (Quiet(p) \/ Shows(p)) /\ Reordering
  BY KeptStep, StepEffect DEF PlaceInv, Kept
<1> SUFFICES ASSUME NEW r \in Requests, op[r].kind = "reorder"
             PROVE  /\ at'[r] = "new" => next'[r] = 0
                    /\ at'[r] = "written" => next'[r] = Len(op[r].order) /\ dirty'[r] = None
                    /\ at'[r] \in {"read", "written"} =>
                         next'[r] \in 0..Len(op[r].order) /\ (Overtook(r)' \/ Ordered(r)')
                    /\ at'[r] # "checked"
  BY <1>1 DEF Reordering
<1>2. CASE r = p /\ at'[p] \in {"new", "read", "checked", "written"}
  <2>1. at[p] \in {"new", "read"}
    BY <1>1, <1>2, ReorderSteps DEF ReorderSelect, ReorderFlush, Advance
  <2>2. at'[p] \in {"read", "written"}
    BY <1>1, <1>2, ReorderSteps DEF ReorderSelect, ReorderFlush, Advance, Typed
  <2>3. at'[p] = "written" => next'[p] = Len(op[p].order) /\ dirty'[p] = None
    BY <1>1, <1>2, ReorderSteps DEF ReorderSelect, ReorderFlush, Advance, Typed, local
  <2>4. next[p] \in 0..Len(op[p].order) /\ (Overtook(p) \/ Ordered(p))
    <3>1. CASE at[p] = "new"
      <4>1. next[p] = 0 /\ Len(op[p].order) \in Nat
        BY <1>1, <1>2, <3>1, OrderTyped DEF Reordering
      <4>2. QED
        BY <4>1 DEF Ordered
    <3>2. CASE at[p] = "read"
      BY <1>1, <1>2, <3>2 DEF Reordering
    <3>3. QED
      BY <2>1, <3>1, <3>2
  <2>5. CASE Ordered(p)
    BY <1>1, <1>2, <2>1, <2>2, <2>3, <2>4, <2>5, OrderedStep
  <2>6. CASE Overtook(p)
    <3>1. Overtook(p)'
      BY <1>1, <2>6, OvertookStays
    <3>2. Len(op[p].order) \in Nat
      BY <1>1, <1>2, OrderTyped
    <3>3. next'[p] = next[p] \/ (next[p] < Len(op[p].order) /\ next'[p] = next[p] + 1)
      BY <1>1, <1>2, ReorderSteps DEF ReorderSelect, ReorderFlush, local, Kept
    <3>4. next'[p] \in 0..Len(op[p].order)
      BY <2>4, <3>2, <3>3
    <3>5. QED
      BY <1>2, <2>2, <2>3, <3>1, <3>4
  <2>7. QED
    BY <2>4, <2>5, <2>6
<1>3. CASE r # p
  <2>1. at'[r] = at[r] /\ next'[r] = next[r] /\ dirty'[r] = dirty[r] /\ held'[r] = held[r]
    BY <1>1, <1>3 DEF Alone
  <2>2. ASSUME at[r] \in {"read", "written"}
        PROVE  next[r] \in 0..Len(op[r].order) /\ (Overtook(r)' \/ Ordered(r)')
    <3>1. next[r] \in 0..Len(op[r].order) /\ (Overtook(r) \/ Ordered(r))
      BY <1>1, <2>2 DEF Reordering
    <3>2. CASE Overtook(r)
      BY <1>1, <3>1, <3>2, OvertookStays
    <3>3. CASE Shows(p) /\ op[p].kind = "reorder"
      <4>1. <<p, r>> \in overtook'
        BY <1>3, <2>2, <3>3 DEF Shows, UnderWay
      <4>2. Done(p, "reorder")'
        BY <1>1, <3>3 DEF Done, Shows, Typed
      <4>3. QED
        BY <3>1, <4>1, <4>2 DEF Overtook
    <3>4. CASE Ordered(r) /\ ~(Shows(p) /\ op[p].kind = "reorder")
      <4>1. \A s \in Symbols : pos'[s] \in {pos[s], 0, None}
        BY <1>1, <3>4, PlaceMoves
      <4>2. \A s \in Symbols : Fits(r, s) => Fits(r, s)'
        BY <1>1, <4>1 DEF Fits
      <4>3. op[r].order \in Seq(Symbols)
        BY <1>1, OrderTyped
      <4>4. \A i \in 1..next[r] : op[r].order[i] \in Symbols
        BY <3>1, <4>3
      <4>5. Ordered(r)'
        BY <1>1, <2>1, <3>4, <4>2, <4>4 DEF Ordered
      <4>6. QED
        BY <3>1, <4>5
    <3>5. QED
      BY <3>1, <3>2, <3>3, <3>4
  <2>3. QED
    BY <1>1, <2>1, <2>2 DEF Reordering
<1>4. CASE r = p /\ at'[p] \notin {"new", "read", "checked", "written"}
  BY <1>4
<1>5. QED
  BY <1>2, <1>3, <1>4

(* A number belongs to one entry of a list.                                *)
LEMMA PlaceOfEntry ==
  ASSUME NEW o, o.order \in Seq(Symbols), NEW s \in Entries(o)
  PROVE  NewPos(o, s) \in DOMAIN o.order /\ o.order[NewPos(o, s)] = s
<1>1. \E i \in DOMAIN o.order : o.order[i] = s
  BY DEF Entries
<1>2. QED
  BY <1>1 DEF NewPos

(* The reorder that commits, if no other overtook it, has its places.      *)
LEMMA PlacesSet ==
  ASSUME PlaceInv, NEW p \in Requests, Handler(p) \/ Abort(p), Shows(p),
         op[p].kind = "reorder", ~Overtook(p)
  PROVE  \A s \in Entries(op[p]) : Fits(p, s)'
<1>1. Kept /\ Typed /\ op' = op /\ op[p].order \in Seq(Symbols)
  BY KeptStep, OrderTyped DEF PlaceInv, Kept
<1>2. next[p] = Len(op[p].order) /\ dirty[p] = None /\ Ordered(p)
  BY <1>1 DEF PlaceInv, Reordering, Shows
<1>3. \A s \in Symbols : pos'[s] = IF <<"watch", s>> \in held[p] /\ pos[s] # None
                                   THEN NewPos(op[p], s) ELSE pos[s]
  BY <1>1, PlaceMoves
<1> SUFFICES ASSUME NEW s \in Entries(op[p]) PROVE Fits(p, s)'
  OBVIOUS
<1>4. PICK i \in 1..Len(op[p].order) : s = op[p].order[i]
  BY <1>1 DEF Entries
<1>5. s \in Symbols /\ s # None
  BY <1>1, <1>4, TenantDataAssumption
<1>6. Fits(p, s) \/ <<"watch", s>> \in held[p]
  BY <1>2, <1>4, <1>5 DEF Ordered
<1>7. QED
  BY <1>1, <1>3, <1>5, <1>6 DEF Fits

LEMMA PlacedStep ==
  ASSUME PlaceInv, NEW p \in Requests, Handler(p) \/ Abort(p)
  PROVE  Placed'
<1>1. /\ Kept /\ Typed /\ op' = op /\ overtook \subseteq overtook' /\ Placed
      /\ \A q \in Requests : at[q] = "done" => at'[q] = "done"
      /\ \A q \in Requests : at'[q] = "done" => at[q] = "done" \/ (q = p /\ Shows(p))
  BY KeptStep, TagMoves DEF PlaceInv, Kept
<1>2. CASE Shows(p) /\ op[p].kind = "reorder"
  <2>1. p \in Reordered'
    BY <1>1, <1>2 DEF Reordered, Done, Shows, Typed
  <2>2. CASE Overtook(p)
    <3>1. PICK q \in Requests : Done(q, "reorder") /\ <<q, p>> \in overtook
      BY <2>2 DEF Overtook
    <3>2. q \in Reordered' /\ <<q, p>> \in overtook'
      BY <1>1, <3>1 DEF Reordered, Done
    <3>3. QED
      BY <2>1, <3>2 DEF Placed
  <2>3. CASE ~Overtook(p)
    <3>1. \A s \in Entries(op[p]) : Fits(p, s)'
      BY <1>2, <2>3, PlacesSet
    <3>2. QED
      BY <1>1, <2>1, <3>1 DEF Placed
  <2>4. QED
    BY <2>2, <2>3
<1>3. CASE ~(Shows(p) /\ op[p].kind = "reorder")
  <2>1. Reordered' = Reordered
    BY <1>1, <1>3 DEF Reordered, Done
  <2>2. \A s \in Symbols : pos'[s] \in {pos[s], 0, None}
    BY <1>1, <1>3, PlaceMoves
  <2>3. Reordered = {} =>
          \A s \in Symbols : pos'[s] \in {None, 0} \/ (IsWatched(s) /\ pos'[s] = Place(s))
    BY <1>1, <2>2 DEF Placed
  <2>4. ASSUME NEW r \in Reordered, \A s \in Entries(op[r]) : Fits(r, s)
        PROVE  \A s \in Entries(op[r]) : Fits(r, s)'
    <3>1. r \in Requests /\ op[r].kind = "reorder"
      BY DEF Reordered, Done
    <3>2. op[r].order \in Seq(Symbols)
      BY <1>1, <3>1, OrderTyped
    <3>3. Entries(op[r]) \subseteq Symbols
      BY <3>2 DEF Entries
    <3>4. QED
      BY <1>1, <2>2, <2>4, <3>3 DEF Fits
  <2>5. Reordered # {} =>
          \/ \E q, r \in Reordered : <<q, r>> \in overtook'
          \/ \E r \in Reordered : \A s \in Entries(op[r]) : Fits(r, s)'
    BY <1>1, <2>4 DEF Placed
  <2>6. QED
    BY <1>1, <2>1, <2>3, <2>5 DEF Placed, IsWatched, Place
<1>4. QED
  BY <1>2, <1>3

LEMMA PlaceInvInit == Init => PlaceInv
<1> SUFFICES ASSUME Init PROVE PlaceInv
  OBVIOUS
<1>1. Reordered = {}
  BY DEF Init, Reordered, Done
<1>2. Placed
  BY <1>1 DEF Init, Placed
<1>3. Reordering
  BY DEF Init, Reordering
<1>4. QED
  BY <1>2, <1>3, KeptInit DEF PlaceInv

LEMMA PlaceInvStep == PlaceInv /\ [Next]_vars => PlaceInv'
<1> SUFFICES ASSUME PlaceInv, [Next]_vars PROVE PlaceInv'
  OBVIOUS
<1>1. CASE Next
  <2>1. PICK p \in Requests : Handler(p) \/ Abort(p)
    BY <1>1 DEF Next
  <2>2. Kept'
    BY <2>1, KeptStep DEF PlaceInv
  <2>3. QED
    BY <2>1, <2>2, ReorderingStep, PlacedStep DEF PlaceInv
<1>2. CASE UNCHANGED vars
  <2> USE <1>2 DEF vars, rows, local
  <2>1. Kept'
    BY KeptStutter DEF PlaceInv
  <2>2. \A r, s : Fits(r, s)' <=> Fits(r, s)
    BY DEF Fits
  <2>3. \A r : (Overtook(r)' <=> Overtook(r)) /\ (Ordered(r)' <=> Ordered(r))
    BY DEF Overtook, Done, Ordered, Fits
  <2>4. Reordering'
    BY <2>3 DEF PlaceInv, Reordering
  <2>5. Reordered' = Reordered
    BY DEF Reordered, Done
  <2>6. Placed'
    BY <2>2, <2>5 DEF PlaceInv, Placed, Place, IsWatched
  <2>7. QED
    BY <2>1, <2>4, <2>6 DEF PlaceInv
<1>3. QED
  BY <1>1, <1>2

LEMMA PlacesApart == PlaceInv => PlacesDistinct
<1> SUFFICES ASSUME PlaceInv, NEW s \in WatchedNow, NEW t \in WatchedNow, s # t,
                    pos[s] = pos[t], pos[s] # 0
             PROVE  \E q, r \in Requests :
                      /\ Done(q, "reorder") /\ Done(r, "reorder")
                      /\ \/ <<q, r>> \in overtook
                         \/ ~({s, t} \subseteq {op[r].order[i] : i \in DOMAIN op[r].order})
  BY DEF PlacesDistinct
<1> SUFFICES ASSUME \A q, r \in Reordered :
                      <<q, r>> \notin overtook /\ {s, t} \subseteq Entries(op[r])
             PROVE  FALSE
  BY DEF Reordered, Entries
<1>1. s \in Symbols /\ t \in Symbols /\ pos[s] # None /\ pos[t] # None
  BY DEF WatchedNow
<1>2. CASE Reordered = {}
  <2>1. IsWatched(s) /\ IsWatched(t) /\ Place(s) = Place(t)
    BY <1>1, <1>2 DEF PlaceInv, Placed
  <2>2. Watched[Place(s)] = s /\ Watched[Place(t)] = t
    BY <2>1 DEF IsWatched, Place
  <2>3. QED
    BY <2>1, <2>2
<1>3. CASE Reordered # {}
  <2>1. PICK r \in Reordered : \A x \in Entries(op[r]) : Fits(r, x)
    BY <1>3 DEF PlaceInv, Placed
  <2>2. s \in Entries(op[r]) /\ t \in Entries(op[r])
    OBVIOUS
  <2>3. NewPos(op[r], s) = NewPos(op[r], t)
    BY <1>1, <2>1, <2>2 DEF Fits
  <2>4. op[r].order \in Seq(Symbols)
    BY OrderTyped DEF PlaceInv, Kept, Reordered, Done
  <2>5. QED
    BY <2>2, <2>3, <2>4, PlaceOfEntry
<1>4. QED
  BY <1>2, <1>3

(* Two watched symbols share a place that is not 0 only if two reorders    *)
(* overlapped, or one left one of them out (reorder_watchlist writes only  *)
(* the entries whose number it saw to be another).                         *)
THEOREM PlacesKept == Spec => []PlacesDistinct
BY PlaceInvInit, PlaceInvStep, PlacesApart, PTL DEF Spec

-----------------------------------------------------------------------------
(* Slugs.  The tenant's own slugs are none of the predefined ones, and a   *)
(* transaction about to take a slug holds its key.                         *)

SystemSlugs == {SlugOfSeed[c] : c \in SystemSeeds}

SlugsApart ==
  /\ \A c \in SystemSeeds : slugOf[c] = SlugOfSeed[c]
  /\ \A c, d \in Live : c # d /\ Owner(c) = Owner(d) => slugOf[c] # slugOf[d]
  /\ \A c \in Owned("own") : slugOf[c] \notin SystemSlugs

Slugging(r) ==
  LET o == op[r] IN
  /\ o.kind \in {"editCategory", "dropCategory"} /\ UnderWay(r) => Owner(o.category) = "own"
  /\ /\ o.kind = "editCategory" \/ (o.kind = "newCategory" /\ o.by = "own")
     /\ at[r] \in {"checked", "written"}
     => o.slug \notin SystemSlugs
  /\ o.kind = "newCategory" /\ at[r] = "written" =>
       /\ SlugKey(o.by, o.slug) \in held[r]
       /\ \A c \in Owned(o.by) : slugOf[c] # o.slug
  /\ o.kind = "editCategory" /\ at[r] = "written" =>
       /\ SlugKey("own", o.slug) \in held[r]
       /\ \A c \in Owned("own") \ {o.category} : slugOf[c] # o.slug

SlugInv == Kept /\ SlugsApart /\ \A r \in Requests : Slugging(r)

LEMMA CategoryTyped ==
  ASSUME Typed, NEW r \in Requests
  PROVE  /\ op[r].kind \in {"editCategory", "dropCategory"} => op[r].category \in Categories
         /\ op[r].kind \in {"newCategory", "editCategory"} => op[r].slug # None
<1>1. op[r] \in Ops
  BY TenantDataAssumption DEF Typed
<1>2. op[r].kind \in {"editCategory", "dropCategory"} => op[r].category \in Categories
  BY <1>1 DEF Ops
<1>3. op[r].kind \in {"newCategory", "editCategory"} => op[r].slug # None
  BY CallTyped, TenantDataAssumption
<1>4. QED
  BY <1>2, <1>3

LEMMA SeedOwners ==
  \A c \in SystemSeeds : c \in Categories /\ c \notin Requests /\ Owner(c) = "system"
BY TenantDataAssumption DEF Categories, Seeds, Owner

(* The predefined categories are always there, so the check of a slug      *)
(* meets theirs.                                                           *)
LEMMA SystemSlugsSeen ==
  ASSUME SlugsApart, NEW t, NEW slug, NEW c, Owner(c) = "own" \/ c \notin Categories,
         Clashing(t, slug) \subseteq {c}
  PROVE  slug \notin SystemSlugs
<1> SUFFICES ASSUME NEW d \in SystemSeeds, slug = SlugOfSeed[d] PROVE FALSE
  BY DEF SystemSlugs
<1>1. d \in Categories /\ Owner(d) = "system" /\ slugOf[d] = slug
  BY SeedOwners DEF SlugsApart
<1>2. slug # None
  BY TenantDataAssumption DEF Seeds
<1>3. d \in Clashing(t, slug)
  BY <1>1, <1>2 DEF Clashing, Owned, Live
<1>4. QED
  BY <1>1, <1>3

(* Takes(p, c): the commit of p gives category c a slug that no other      *)
(* category of the same owner has.                                         *)
Takes(p, c) ==
  /\ slugOf'[c] = op[p].slug
  /\ SlugKey(Owner(c), op[p].slug) \in held[p]
  /\ \A d \in Owned(Owner(c)) \ {c} : slugOf[d] # op[p].slug
  /\ Owner(c) = "own" => op[p].slug \notin SystemSlugs

LEMMA SlugMoves ==
  ASSUME SlugInv, NEW p \in Requests, Handler(p) \/ Abort(p)
  PROVE  \/ slugOf' = slugOf
         \/ /\ Shows(p)
            /\ \E c \in Categories \ SystemSeeds :
                 /\ \A d \in Categories \ {c} : slugOf'[d] = slugOf[d]
                 /\ slugOf'[c] = None \/ Takes(p, c)
<1>1. (Quiet(p) \/ (Shows(p) /\ Effect(p))) /\ Typed /\ Slugging(p)
  BY StepEffect DEF SlugInv, Kept
<1>2. CASE Quiet(p)
  BY <1>2 DEF Quiet
<1>3. CASE Shows(p) /\ Effect(p)
  <2> USE <1>3
  <2>1. at[p] = "written" /\ UnderWay(p)
    BY DEF Shows, UnderWay
  <2>2. CASE op[p].kind = "newCategory"
    <3>1. slugOf' = [slugOf EXCEPT ![p] = op[p].slug]
      BY <2>2 DEF Effect
    <3>2. p \in Categories /\ p \notin SystemSeeds
      BY SeedOwners DEF Categories
    <3>3. slugOf'[p] = op[p].slug /\ \A d \in Categories \ {p} : slugOf'[d] = slugOf[d]
      BY <1>1, <3>1, <3>2 DEF Typed
    <3>4. Owner(p) = op[p].by
      BY DEF Owner
    <3>5. Takes(p, p)
      BY <1>1, <2>1, <2>2, <3>3, <3>4 DEF Slugging, Takes
    <3>6. QED
      BY <3>2, <3>3, <3>5
  <2>3. CASE op[p].kind = "editCategory"
    <3> DEFINE c == op[p].category
    <3>1. slugOf' = [d \in Categories |-> IF d = c /\ slugOf[d] # None THEN op[p].slug ELSE slugOf[d]]
      BY <2>3 DEF Effect
    <3>2. c \in Categories /\ Owner(c) = "own"
      BY <1>1, <2>1, <2>3, CategoryTyped DEF Slugging
    <3>3. c \notin SystemSeeds
      BY <3>2, SeedOwners
    <3>4. \A d \in Categories \ {c} : slugOf'[d] = slugOf[d]
      BY <3>1
    <3>5. slugOf'[c] = None \/ slugOf'[c] = op[p].slug
      BY <3>1, <3>2
    <3>6. slugOf'[c] = op[p].slug => Takes(p, c)
      BY <1>1, <2>1, <2>3, <3>2 DEF Slugging, Takes
    <3>7. QED
      BY <3>2, <3>3, <3>4, <3>5, <3>6
  <2>4. CASE op[p].kind = "dropCategory"
    <3> DEFINE c == op[p].category
    <3>1. slugOf' = [slugOf EXCEPT ![c] = None]
      BY <2>4 DEF Effect
    <3>2. c \in Categories /\ Owner(c) = "own"
      BY <1>1, <2>1, <2>4, CategoryTyped DEF Slugging
    <3>3. c \notin SystemSeeds
      BY <3>2, SeedOwners
    <3>4. slugOf'[c] = None /\ \A d \in Categories \ {c} : slugOf'[d] = slugOf[d]
      BY <1>1, <3>1, <3>2 DEF Typed
    <3>5. QED
      BY <3>2, <3>3, <3>4
  <2>5. CASE op[p].kind \notin {"newCategory", "editCategory", "dropCategory"}
    BY <2>5 DEF Effect
  <2>6. QED
    BY <2>2, <2>3, <2>4, <2>5
<1>4. QED
  BY <1>1, <1>2, <1>3

(* What the handlers check before they write.                              *)
LEMMA SlugChecks ==
  ASSUME SlugInv, NEW p \in Requests, Handler(p) \/ Abort(p), at'[p] # "failed"
  PROVE  LET o == op[p] IN
         /\ o.kind \in {"editCategory", "dropCategory"} /\ at[p] = "new" => Owner(o.category) = "own"
         /\ o.kind \in {"editCategory", "newCategory"} => at'[p] # "new"
         /\ o.kind = "newCategory" /\ at'[p] = "checked" => Clashing(o.by, o.slug) = {}
         /\ o.kind = "editCategory" /\ at'[p] = "checked" =>
              at[p] = "read" /\ Clashing("own", o.slug) \subseteq {o.category}
         /\ o.kind = "newCategory" /\ at'[p] = "written" =>
              /\ at[p] = "checked" /\ SlugKey(o.by, o.slug) \in held'[p]
              /\ \A c \in Owned(o.by) : slugOf[c] # o.slug
         /\ o.kind = "editCategory" /\ at'[p] = "written" =>
              /\ at[p] = "checked" /\ SlugKey("own", o.slug) \in held'[p]
              /\ \A c \in Owned("own") \ {o.category} : slugOf[c] # o.slug
<1>1. Handler(p) /\ Typed /\ held = [r \in Requests |-> held[r]]
  BY DEF Abort, SlugInv, Kept, Typed
<1> USE DEF Typed, Advance, Commit
<1>2. CASE op[p].kind = "newCategory"
  <2>1. CreateCategory(p, op[p])
    BY <1>1, <1>2 DEF Handler
  <2>2. CASE Write(p, "checked", {SlugKey(op[p].by, op[p].slug)},
                   \A c \in Owned(op[p].by) : slugOf[c] # op[p].slug)
    BY <1>1, <1>2, <2>2 DEF Write
  <2>3. CASE ~Write(p, "checked", {SlugKey(op[p].by, op[p].slug)},
                    \A c \in Owned(op[p].by) : slugOf[c] # op[p].slug)
    BY <1>1, <1>2, <2>1, <2>3 DEF CreateCategory
  <2>4. QED
    BY <2>2, <2>3
<1>3. CASE op[p].kind = "editCategory"
  <2> DEFINE locks == Exclusive(op[p].category) \cup {SlugKey("own", op[p].slug)}
             ok == /\ op[p].category \in Live
                   /\ \A c \in Owned("own") \ {op[p].category} : slugOf[c] # op[p].slug
  <2>1. UpdateCategory(p, op[p])
    BY <1>1, <1>3 DEF Handler
  <2>2. CASE Write(p, "checked", locks, ok)
    <3> HIDE DEF locks, ok
    <3>1. at[p] = "checked" /\ ok /\ at'[p] = "written" /\ held'[p] = locks
      BY <1>1, <2>2 DEF Write
    <3>2. SlugKey("own", op[p].slug) \in locks
      BY DEF locks
    <3>3. QED
      BY <1>3, <3>1, <3>2 DEF ok
  <2>3. CASE ~Write(p, "checked", locks, ok)
    BY <1>1, <1>3, <2>1, <2>3 DEF UpdateCategory, Owned
  <2>4. QED
    BY <2>2, <2>3
<1>4. CASE op[p].kind = "dropCategory"
  <2>1. DeleteCategory(p, op[p])
    BY <1>1, <1>4 DEF Handler
  <2>2. at[p] = "new" => op[p].category \in Owned("own")
    BY <1>1, <2>1 DEF DeleteCategory, Write
  <2>3. QED
    BY <1>4, <2>2 DEF Owned
<1>5. QED
  BY <1>2, <1>3, <1>4

LEMMA SlugsApartStep ==
  ASSUME SlugInv, NEW p \in Requests, Handler(p) \/ Abort(p)
  PROVE  SlugsApart'
<1>1. op' = op /\ SlugsApart
  BY KeptStep DEF SlugInv
<1>2. \A c : Owner(c)' = Owner(c)
  BY <1>1 DEF Owner
<1>3. CASE slugOf' = slugOf
  BY <1>1, <1>2, <1>3 DEF SlugsApart, Live, Owned
<1>4. CASE slugOf' # slugOf
  <2>1. PICK c \in Categories \ SystemSeeds :
          /\ \A d \in Categories \ {c} : slugOf'[d] = slugOf[d]
          /\ slugOf'[c] = None \/ Takes(p, c)
    BY <1>4, SlugMoves
  <2>2. \A d \in SystemSeeds : slugOf'[d] = SlugOfSeed[d]
    BY <1>1, <2>1, SeedOwners DEF SlugsApart
  <2>3. \A d \in Live' \ {c} : d \in Live /\ slugOf'[d] = slugOf[d]
    BY <2>1 DEF Live
  <2>4. \A d \in Live' \ {c} : c \in Live' /\ Owner(c) = Owner(d) => slugOf'[c] # slugOf'[d]
    BY <2>1, <2>3 DEF Takes, Owned, Live
  <2>5. \A b, d \in Live' : b # d /\ Owner(b) = Owner(d) => slugOf'[b] # slugOf'[d]
    BY <1>1, <2>3, <2>4 DEF SlugsApart
  <2>6. \A d \in Live' : Owner(d) = "own" => slugOf'[d] \notin SystemSlugs
    <3>1. c \in Live' /\ Owner(c) = "own" => slugOf'[c] \notin SystemSlugs
      BY <2>1 DEF Takes, Live
    <3>2. \A d \in Live' \ {c} : Owner(d) = "own" => slugOf'[d] \notin SystemSlugs
      BY <1>1, <2>3 DEF SlugsApart, Owned
    <3>3. QED
      BY <3>1, <3>2
  <2>7. QED
    BY <1>2, <2>2, <2>5, <2>6 DEF SlugsApart, Owned, SystemSlugs
<1>5. QED
  BY <1>3, <1>4

(* A slug whose key r holds is not taken by another transaction.           *)
LEMMA SlugStaysFree ==
  ASSUME SlugInv, NEW p \in Requests, Handler(p) \/ Abort(p), NEW r \in Requests \ {p},
         NEW t, NEW slug, slug # None, SlugKey(t, slug) \in held[r],
         NEW e, \A c \in Owned(t) \ {e} : slugOf[c] # slug
  PROVE  \A c \in Live' \ {e} : Owner(c) = t => slugOf'[c] # slug
<1>1. op' = op /\ LocksApart
  BY KeptStep DEF SlugInv, Kept
<1> SUFFICES ASSUME NEW c \in Live' \ {e}, Owner(c) = t, slugOf'[c] = slug PROVE FALSE
  OBVIOUS
<1>2. c \in Categories /\ Owner(c) = t
  BY DEF Live
<1>3. slugOf[c] # slug
  BY <1>2 DEF Owned, Live
<1>4. Takes(p, c)
  BY <1>2, <1>3, SlugMoves
<1>5. SlugKey(t, slug) \in held[p]
  BY <1>2, <1>4 DEF Takes
<1>6. QED
  BY <1>1, <1>5 DEF LocksApart

LEMMA SluggingOwn ==
  ASSUME SlugInv, NEW p \in Requests, Handler(p) \/ Abort(p), at'[p] # "failed"
  PROVE  Slugging(p)'
<1> DEFINE o == op[p]
<1>1. /\ Typed /\ op' = op /\ SlugsApart /\ Slugging(p)
      /\ (Quiet(p) /\ at'[p] # "done") \/ (at[p] = "written" /\ at'[p] = "done")
  BY KeptStep, StepEffect DEF SlugInv, Kept, Quiet, Shows, Typed
<1>2. ASSUME o.kind \in {"editCategory", "dropCategory"}, UnderWay(p)'
      PROVE  Owner(o.category) = "own"
  <2>1. CASE at[p] = "new"
    BY <1>2, <2>1, SlugChecks
  <2>2. CASE at[p] # "new"
    <3>1. UnderWay(p)
      BY <1>1, <2>2 DEF Quiet, UnderWay
    <3>2. QED
      BY <1>1, <1>2, <3>1 DEF Slugging
  <2>3. QED
    BY <2>1, <2>2
<1>3. ASSUME o.kind = "editCategory" \/ (o.kind = "newCategory" /\ o.by = "own"),
             at'[p] \in {"checked", "written"}
      PROVE  o.slug \notin SystemSlugs
  <2>1. CASE at'[p] = "checked" /\ o.kind = "newCategory"
    <3>1. Clashing("own", o.slug) = {}
      BY <1>3, <2>1, SlugChecks
    <3> DEFINE e == CHOOSE x : x \notin Categories
    <3>2. e \notin Categories
      BY NoSetContainsEverything
    <3>3. QED
      BY <1>1, <3>1, <3>2, SystemSlugsSeen
  <2>2. CASE at'[p] = "checked" /\ o.kind = "editCategory"
    <3>1. at[p] = "read" /\ Clashing("own", o.slug) \subseteq {o.category}
      BY <2>2, SlugChecks
    <3>2. Owner(o.category) = "own"
      BY <1>1, <2>2, <3>1 DEF Slugging, UnderWay
    <3>3. QED
      BY <1>1, <3>1, <3>2, SystemSlugsSeen
  <2>3. CASE at'[p] = "written"
    <3>1. at[p] = "checked"
      BY <1>3, <2>3, SlugChecks
    <3>2. QED
      BY <1>1, <1>3, <3>1 DEF Slugging
  <2>4. QED
    BY <1>3, <2>1, <2>2, <2>3
<1>4. ASSUME at'[p] = "written"
      PROVE  /\ o.kind = "newCategory" =>
                  /\ SlugKey(o.by, o.slug) \in held'[p]
                  /\ \A c \in Live' : Owner(c) = o.by => slugOf'[c] # o.slug
             /\ o.kind = "editCategory" =>
                  /\ SlugKey("own", o.slug) \in held'[p]
                  /\ \A c \in Live' \ {o.category} : Owner(c) = "own" => slugOf'[c] # o.slug
  <2>1. slugOf' = slugOf
    BY <1>1, <1>4 DEF Quiet
  <2>2. Live' = Live
    BY <2>1 DEF Live
  <2>3. QED
    BY <1>4, <2>1, <2>2, SlugChecks DEF Owned
<1>5. \A c : Owner(c)' = Owner(c)
  BY <1>1 DEF Owner
<1>6. QED
  BY <1>1, <1>2, <1>3, <1>4, <1>5 DEF Slugging, SystemSlugs, SlugKey, Owned

LEMMA SluggingStep ==
  ASSUME SlugInv, NEW p \in Requests, Handler(p) \/ Abort(p), NEW r \in Requests
  PROVE  Slugging(r)'
<1> DEFINE o == op[r]
<1>1. Typed /\ op' = op /\ Alone(p) /\ Slugging(r)
  BY KeptStep DEF SlugInv, Kept
<1>2. CASE r = p /\ at'[p] # "failed"
  BY <1>2, SluggingOwn
<1>3. CASE r = p /\ at'[p] = "failed"
  BY <1>3 DEF Slugging, UnderWay
<1>4. CASE r # p
  <2>1. at'[r] = at[r] /\ held'[r] = held[r]
    BY <1>1, <1>4 DEF Alone
  <2>2. \A c : Owner(c)' = Owner(c)
    BY <1>1 DEF Owner
  <2>3. ASSUME at[r] = "written", o.kind = "newCategory"
        PROVE  \A c \in Live' : Owner(c) = o.by => slugOf'[c] # o.slug
    <3>1. SlugKey(o.by, o.slug) \in held[r] /\ \A c \in Owned(o.by) : slugOf[c] # o.slug
      BY <1>1, <2>3 DEF Slugging
    <3>2. o.slug # None
      BY <1>1, <2>3, CategoryTyped
    <3> DEFINE e == CHOOSE x : x \notin Categories
    <3>3. e \notin Categories
      BY NoSetContainsEverything
    <3>4. \A c \in Live' \ {e} : Owner(c) = o.by => slugOf'[c] # o.slug
      <4>1. \A c \in Owned(o.by) \ {e} : slugOf[c] # o.slug
        BY <3>1
      <4>2. QED
        BY <1>4, <3>1, <3>2, <4>1, SlugStaysFree
    <3>5. e \notin Live'
      BY <3>3 DEF Live
    <3>6. QED
      BY <3>4, <3>5
  <2>4. ASSUME at[r] = "written", o.kind = "editCategory"
        PROVE  \A c \in Live' \ {o.category} : Owner(c) = "own" => slugOf'[c] # o.slug
    <3>1. /\ SlugKey("own", o.slug) \in held[r]
          /\ \A c \in Owned("own") \ {o.category} : slugOf[c] # o.slug
      BY <1>1, <2>4 DEF Slugging
    <3>2. o.slug # None
      BY <1>1, <2>4, CategoryTyped
    <3>3. QED
      BY <1>4, <3>1, <3>2, SlugStaysFree
  <2>5. QED
    BY <1>1, <2>1, <2>2, <2>3, <2>4
    DEF Slugging, UnderWay, SystemSlugs, SlugKey, Owned
<1>5. QED
  BY <1>2, <1>3, <1>4

LEMMA SlugInvInit == Init => SlugInv
<1> SUFFICES ASSUME Init PROVE SlugInv
  OBVIOUS
<1>1. \A c \in Live : c \in Seeds /\ slugOf[c] = SlugOfSeed[c]
  BY DEF Init, Live, Categories
<1>2. \A c \in SystemSeeds : slugOf[c] = SlugOfSeed[c]
  BY SeedOwners DEF Init, Seeds
<1>3. \A c, d \in Live : c # d => slugOf[c] # slugOf[d]
  BY <1>1, TenantDataAssumption
<1>4. \A c \in Owned("own") : slugOf[c] \notin SystemSlugs
  <2> SUFFICES ASSUME NEW c \in Live, Owner(c) = "own", NEW d \in SystemSeeds,
                      slugOf[c] = SlugOfSeed[d]
               PROVE  FALSE
    BY DEF Owned, SystemSlugs
  <2>1. c # d /\ c \in Seeds /\ d \in Seeds /\ SlugOfSeed[c] = SlugOfSeed[d]
    BY <1>1, SeedOwners DEF Seeds
  <2>2. QED
    BY <2>1, TenantDataAssumption
<1>5. \A r \in Requests : Slugging(r)
  BY DEF Init, Slugging, UnderWay
<1>6. QED
  BY <1>2, <1>3, <1>4, <1>5, KeptInit DEF SlugInv, SlugsApart

LEMMA SlugInvStep == SlugInv /\ [Next]_vars => SlugInv'
<1> SUFFICES ASSUME SlugInv, [Next]_vars PROVE SlugInv'
  OBVIOUS
<1>1. CASE Next
  <2>1. PICK p \in Requests : Handler(p) \/ Abort(p)
    BY <1>1 DEF Next
  <2>2. Kept'
    BY <2>1, KeptStep DEF SlugInv
  <2>3. QED
    BY <2>1, <2>2, SlugsApartStep, SluggingStep DEF SlugInv
<1>2. CASE UNCHANGED vars
  <2> USE <1>2 DEF vars, rows, local
  <2>1. Kept'
    BY KeptStutter DEF SlugInv
  <2>2. \A t : Owned(t)' = Owned(t) /\ \A c : Owner(c)' = Owner(c)
    BY DEF Owned, Live, Owner
  <2>3. SlugsApart'
    BY <2>2 DEF SlugInv, SlugsApart, Live, SystemSlugs
  <2>4. ASSUME NEW r \in Requests PROVE Slugging(r)'
    BY <2>2 DEF SlugInv, Slugging, UnderWay, SlugKey, SystemSlugs
  <2>5. QED
    BY <2>1, <2>3, <2>4 DEF SlugInv
<1>3. QED
  BY <1>1, <1>2

LEMMA ClashesKnown == SlugInv => SlugClashes
<1> SUFFICES ASSUME SlugInv, NEW c \in Listed, NEW d \in Listed, c # d, slugOf[c] = slugOf[d]
             PROVE  /\ {Owner(c), Owner(d)} = Tenants
                    /\ (IF Owner(c) = "system" THEN c ELSE d) \in Requests
  BY DEF SlugClashes
<1>1. c \in Live /\ d \in Live /\ Owner(c) \in Tenants /\ Owner(d) \in Tenants
  BY DEF Listed, Owned, Tenants
<1>2. Owner(c) # Owner(d)
  BY <1>1 DEF SlugInv, SlugsApart
<1>3. ASSUME NEW x \in Live, NEW y \in Live, Owner(x) = "own", Owner(y) = "system",
             slugOf[x] = slugOf[y]
      PROVE  y \in Requests
  <2>1. slugOf[x] \notin SystemSlugs
    BY <1>3 DEF SlugInv, SlugsApart, Owned
  <2>2. y \notin SystemSeeds
    BY <1>3, <2>1 DEF SlugInv, SlugsApart, SystemSlugs
  <2>3. y \notin OwnSeeds
    BY <1>3, TenantDataAssumption DEF Owner, Seeds
  <2>4. QED
    BY <2>2, <2>3 DEF Live, Categories, Seeds
<1>4. QED
  BY <1>1, <1>2, <1>3 DEF Tenants

(* A tenant sees one slug twice only if one of the two is a system         *)
(* category added at run time; a predefined slug is never taken, and no    *)
(* tenant has one twice (create_category and update_category look among    *)
(* the visible categories; the unique key settles who was first).          *)
THEOREM SlugsKnown == Spec => []SlugClashes
BY SlugInvInit, SlugInvStep, ClashesKnown, PTL DEF Spec

-----------------------------------------------------------------------------
(* The types, and the locks: a transaction holds locks only while it is    *)
(* under way, a reorder those of entries of its list, and none that        *)
(* another holds.                                                          *)

LocksOf(r) ==
  /\ held[r] \subseteq Locks
  /\ held[r] # {} => at[r] = "written" \/ (at[r] = "read" /\ op[r].kind = "reorder")
  /\ op[r].kind = "reorder" =>
       /\ held[r] \subseteq {<<"watch", s>> : s \in Entries(op[r])}
       /\ dirty[r] \in Entries(op[r]) \cup {None}

Columns ==
  /\ slugOf \in [Categories -> Slugs \cup {None}]
  /\ pos \in [Symbols -> Nat \cup {None}]
  /\ overrides \subseteq Slugs
  /\ overtook \subseteq Requests \X Requests

TypesInv ==
  /\ Kept /\ Columns
  /\ next \in [Requests -> Nat]
  /\ \A r \in Requests : dirty[r] \in Symbols \cup {None} /\ LocksOf(r)

LEMMA CallLocks ==
  ASSUME Typed, NEW r \in Requests
  PROVE  /\ op[r].kind \in {"editCategory", "dropCategory", "newSource"} =>
              op[r].category \in Categories
         /\ op[r].kind = "dropSource" => op[r].source \in Requests
         /\ op[r].kind = "override" => op[r].slugs \subseteq Slugs
<1>1. op[r] \in Ops
  BY TenantDataAssumption DEF Typed
<1>2. op[r].kind \in {"editCategory", "dropCategory", "newSource"} => op[r].category \in Categories
  BY <1>1 DEF Ops
<1>3. op[r].kind = "dropSource" => op[r].source \in Requests
  BY <1>1 DEF Ops
<1>4. op[r].kind = "override" => op[r].slugs \subseteq Slugs
  BY <1>1 DEF Ops
<1>5. QED
  BY <1>2, <1>3, <1>4

(* The list of a reorder and the places it gives.                          *)
LEMMA EntryTyped ==
  ASSUME Typed, NEW r \in Requests, op[r].kind = "reorder"
  PROVE  /\ op[r].order \in Seq(Symbols) /\ Entries(op[r]) \subseteq Symbols
         /\ \A s \in Entries(op[r]) : NewPos(op[r], s) \in Nat
<1>1. op[r].order \in Seq(Symbols)
  BY OrderTyped
<1>2. Entries(op[r]) \subseteq Symbols
  BY <1>1 DEF Entries
<1>3. ASSUME NEW s \in Entries(op[r]) PROVE NewPos(op[r], s) \in Nat
  <2>1. \E i \in DOMAIN op[r].order : op[r].order[i] = s
    BY DEF Entries
  <2>2. NewPos(op[r], s) \in DOMAIN op[r].order
    BY <2>1 DEF NewPos
  <2>3. QED
    BY <1>1, <2>2
<1>4. QED
  BY <1>1, <1>2, <1>3

(* What the steps of the other requests leave of the locks of r.           *)
Lawful(r) == held'[r] \subseteq Locks /\ (held'[r] # {} => at'[r] = "written")

LEMMA LawfulSteps ==
  ASSUME Kept, NEW r \in Requests, LocksOf(r), op[r].kind # "reorder"
  PROVE  /\ \A from \in {"new", "read", "checked"} : \A ok, to : Advance(r, from, ok, to) => Lawful(r)
         /\ \A from, ok : \A locks \in SUBSET Locks : Write(r, from, locks, ok) => Lawful(r)
         /\ Commit(r) => Lawful(r)
         /\ Abort(r) => Lawful(r)
<1> USE DEF Kept, Typed, Lawful
<1>1. ASSUME NEW from \in {"new", "read", "checked"}, NEW ok, NEW to, Advance(r, from, ok, to)
      PROVE  Lawful(r)
  BY <1>1 DEF Advance, LocksOf
<1>2. ASSUME NEW from, NEW ok, NEW locks \in SUBSET Locks, Write(r, from, locks, ok)
      PROVE  Lawful(r)
  <2>1. CASE ok
    BY <1>2, <2>1 DEF Write
  <2>2. CASE ~ok
    BY <1>2, <2>2 DEF Write
  <2>3. QED
    BY <2>1, <2>2
<1>3. Commit(r) => Lawful(r)
  BY DEF Commit
<1>4. Abort(r) => Lawful(r)
  BY DEF Abort
<1>5. QED
  BY <1>1, <1>2, <1>3, <1>4

LEMMA ExclusiveLocks ==
  ASSUME Columns, NEW c \in Categories
  PROVE  Exclusive(c) \subseteq Locks
<1>1. slugOf[c] \in Slugs \cup {None} /\ "own" \in Tenants
  BY DEF Columns, Tenants
<1>2. RowLock(c) \in Locks /\ SlugKey("own", slugOf[c]) \in Locks
  BY <1>1 DEF Locks
<1>3. \A q \in Requests : KeyShare(c, q) \in Locks
  BY DEF Locks
<1>4. QED
  BY <1>2, <1>3 DEF Exclusive

(* The locks of every kind of request but the reorder.                     *)
LEMMA LocksKept ==
  ASSUME TypesInv, NEW r \in Requests, Handler(r), op[r].kind # "reorder"
  PROVE  Lawful(r)
<1> DEFINE o == op[r]
<1>1. Typed /\ Kept /\ LocksOf(r) /\ Columns
  BY DEF TypesInv, Kept
<1> HIDE DEF o
<1>2. op[r] = o
  BY DEF o
<1>3. /\ \A from \in {"new", "read", "checked"} : \A ok, to : Advance(r, from, ok, to) => Lawful(r)
      /\ \A from, ok : \A locks \in SUBSET Locks : Write(r, from, locks, ok) => Lawful(r)
      /\ Commit(r) => Lawful(r)
  BY <1>1, LawfulSteps
<1>4. CASE o.kind = "newCategory" /\ CreateCategory(r, o)
  <2>1. o.by \in Tenants /\ o.slug \in Slugs
    BY <1>1, <1>2, <1>4, CallTyped
  <2>2. {SlugKey(o.by, o.slug)} \in SUBSET Locks
    BY <2>1 DEF Locks
  <2>3. QED
    BY <1>3, <1>4, <2>2 DEF CreateCategory
<1>5. CASE o.kind = "editCategory" /\ UpdateCategory(r, o)
  <2>1. o.category \in Categories /\ o.slug \in Slugs /\ "own" \in Tenants
    BY <1>1, <1>2, <1>5, CallTyped, CallLocks DEF Tenants
  <2>2. SlugKey("own", o.slug) \in Locks
    BY <2>1 DEF Locks
  <2>3. Exclusive(o.category) \cup {SlugKey("own", o.slug)} \in SUBSET Locks
    BY <1>1, <2>1, <2>2, ExclusiveLocks
  <2>4. QED
    BY <1>3, <1>5, <2>3 DEF UpdateCategory
<1>6. CASE o.kind = "dropCategory" /\ DeleteCategory(r, o)
  <2>1. Exclusive(o.category) \in SUBSET Locks
    BY <1>1, <1>2, <1>6, CallLocks, ExclusiveLocks
  <2>2. QED
    BY <1>3, <1>6, <2>1 DEF DeleteCategory
<1>7. CASE o.kind = "newSource" /\ CreateSource(r, o)
  <2>1. o.category \in Categories
    BY <1>1, <1>2, <1>7, CallLocks
  <2>2. {KeyShare(o.category, r)} \in SUBSET Locks
    BY <2>1 DEF Locks
  <2>3. QED
    BY <1>3, <1>7, <2>2 DEF CreateSource
<1>8. CASE o.kind = "dropSource" /\ DeleteSource(r, o)
  <2>1. o.source \in Requests
    BY <1>1, <1>2, <1>8, CallLocks
  <2>2. {<<"source", o.source>>} \in SUBSET Locks
    BY <2>1 DEF Locks
  <2>3. QED
    BY <1>3, <1>8, <2>2 DEF DeleteSource
<1>9. {<<"tenant">>} \in SUBSET Locks /\ {<<"item">>} \in SUBSET Locks
  BY DEF Locks
<1>10. CASE EditTenant(r, o)
  BY <1>3, <1>9, <1>10 DEF EditTenant
<1>11. ASSUME NEW new, WriteTags(r, new) PROVE Lawful(r)
  BY <1>3, <1>9, <1>11 DEF WriteTags
<1>12. ASSUME NEW ok, ReadTags(r, ok) PROVE Lawful(r)
  BY <1>3, <1>12 DEF ReadTags
<1>13. CASE AddTag(r, o) \/ RemoveTag(r, o) \/ Reclassify(r, o)
  BY <1>11, <1>12, <1>13 DEF AddTag, RemoveTag, Reclassify
<1>14. CASE UpdateOverrides(r, o)
  BY <1>3, <1>9, <1>14 DEF UpdateOverrides
<1>15. ASSUME o.kind \in {"watch", "unwatch"} PROVE {<<"watch", o.symbol>>} \in SUBSET Locks
  <2>1. o.symbol \in Symbols
    BY <1>1, <1>2, <1>15, OrderTyped
  <2>2. QED
    BY <2>1 DEF Locks
<1>16. CASE o.kind = "watch" /\ AddToWatchlist(r, o)
  BY <1>3, <1>15, <1>16 DEF AddToWatchlist
<1>17. CASE o.kind = "unwatch" /\ RemoveFromWatchlist(r, o)
  BY <1>3, <1>15, <1>17 DEF RemoveFromWatchlist
<1>18. QED
  BY <1>2, <1>4, <1>5, <1>6, <1>7, <1>8, <1>10, <1>13, <1>14, <1>16, <1>17 DEF Handler

(* A reorder alone has entries in hand.                                    *)
LEMMA ListKept ==
  ASSUME TypesInv, NEW r \in Requests, Handler(r), op[r].kind # "reorder"
  PROVE  next' = next /\ dirty' = dirty
<1> USE DEF local, Write, Commit
<1>1. ASSUME NEW new, WriteTags(r, new) PROVE next' = next /\ dirty' = dirty
  BY <1>1 DEF WriteTags
<1>2. ASSUME NEW ok, ReadTags(r, ok) PROVE next' = next /\ dirty' = dirty
  BY <1>2 DEF ReadTags
<1>3. CASE CreateCategory(r, op[r]) \/ UpdateCategory(r, op[r]) \/ DeleteCategory(r, op[r])
  BY <1>3 DEF CreateCategory, UpdateCategory, DeleteCategory
<1>4. CASE CreateSource(r, op[r]) \/ DeleteSource(r, op[r]) \/ EditTenant(r, op[r])
  BY <1>4 DEF CreateSource, DeleteSource, EditTenant
<1>5. CASE AddTag(r, op[r]) \/ RemoveTag(r, op[r]) \/ Reclassify(r, op[r])
  BY <1>1, <1>2, <1>5 DEF AddTag, RemoveTag, Reclassify
<1>6. CASE \/ UpdateOverrides(r, op[r]) \/ AddToWatchlist(r, op[r])
           \/ RemoveFromWatchlist(r, op[r])
  BY <1>6 DEF UpdateOverrides, AddToWatchlist, RemoveFromWatchlist
<1>7. QED
  BY <1>3, <1>4, <1>5, <1>6 DEF Handler

(* The locks and the list of a reorder.                                    *)
LEMMA ReorderKept ==
  ASSUME TypesInv, NEW r \in Requests, Handler(r), op[r].kind = "reorder"
  PROVE  LocksOf(r)' /\ next'[r] \in Nat
<1> DEFINE mine == {<<"watch", s>> : s \in Entries(op[r])}
<1>1. /\ Kept /\ Typed /\ op' = op /\ LocksOf(r) /\ next[r] \in Nat
      /\ held[r] \subseteq mine /\ dirty[r] \in Entries(op[r]) \cup {None}
  BY KeptStep DEF TypesInv, Kept, LocksOf
<1>2. op[r].order \in Seq(Symbols) /\ mine \subseteq Locks
  BY <1>1, EntryTyped DEF Locks
<1>3. Entries(op[r])' = Entries(op[r])
  BY <1>1 DEF Entries
<1>4. ASSUME held'[r] = {}, dirty'[r] = dirty[r] \/ dirty'[r] = None PROVE LocksOf(r)'
  BY <1>1, <1>3, <1>4 DEF LocksOf
<1>5. CASE ReorderSelect(r, op[r])
  <2> DEFINE s == op[r].order[next[r] + 1]
  <2>1. /\ held' = held /\ at'[r] = "read" /\ next'[r] = next[r] + 1 /\ next[r] < Len(op[r].order)
        /\ dirty'[r] \in {None, s}
    BY <1>1, <1>5 DEF ReorderSelect, Kept, Typed
  <2>2. next[r] + 1 \in DOMAIN op[r].order
    BY <1>1, <1>2, <2>1
  <2>3. s \in Entries(op[r])
    BY <2>2 DEF Entries
  <2> HIDE DEF s
  <2>4. QED
    BY <1>1, <1>2, <1>3, <2>1, <2>3 DEF LocksOf
<1>6. CASE ReorderFlush(r)
  <2> DEFINE lock == <<"watch", dirty[r]>>
             ok == pos[dirty[r]] # None
  <2>1. /\ dirty'[r] = None /\ next' = next /\ lock \in mine
    BY <1>1, <1>6 DEF ReorderFlush, Kept
  <2>2. CASE ok
    <3>1. held'[r] = held[r] \cup {lock} /\ at'[r] = "read"
      BY <1>1, <1>6, <2>2 DEF ReorderFlush, Kept, Typed
    <3> HIDE DEF lock
    <3>2. QED
      BY <1>1, <1>2, <1>3, <2>1, <3>1 DEF LocksOf
  <2>3. CASE ~ok
    <3>1. held'[r] = {}
      BY <1>1, <1>6, <2>3 DEF ReorderFlush, Kept
    <3>2. QED
      BY <1>1, <1>4, <2>1, <3>1
  <2>4. QED
    BY <2>2, <2>3
<1>7. CASE Deadlocked(r) \/ Commit(r)
  <2>1. held'[r] = {} /\ dirty' = dirty /\ next' = next
    BY <1>1, <1>7 DEF Deadlocked, Abort, Commit, local, Kept
  <2>2. QED
    BY <1>1, <1>4, <2>1
<1>8. CASE Advance(r, "read", TRUE, "written") /\ UNCHANGED local
  <2>1. held' = held /\ at'[r] = "written" /\ next' = next /\ dirty' = dirty
    BY <1>1, <1>8 DEF Advance, local, Typed
  <2>2. QED
    BY <1>1, <1>3, <2>1 DEF LocksOf
<1>9. QED
  BY <1>5, <1>6, <1>7, <1>8 DEF Handler, ReorderWatchlist

LEMMA OverridesMove ==
  ASSUME Typed, NEW r \in Requests, Handler(r) \/ Abort(r)
  PROVE  overrides' \subseteq overrides \cup Slugs
<1> USE DEF rows, Advance, Write
<1>1. CASE Abort(r)
  BY <1>1 DEF Abort
<1>2. ASSUME NEW new, WriteTags(r, new) PROVE overrides' = overrides
  BY <1>2 DEF WriteTags
<1>3. ASSUME NEW ok, ReadTags(r, ok) PROVE overrides' = overrides
  BY <1>3 DEF ReadTags
<1>4. CASE CreateCategory(r, op[r]) \/ UpdateCategory(r, op[r]) \/ DeleteCategory(r, op[r])
  BY <1>4 DEF CreateCategory, UpdateCategory, DeleteCategory
<1>5. CASE CreateSource(r, op[r]) \/ DeleteSource(r, op[r]) \/ EditTenant(r, op[r])
  BY <1>5 DEF CreateSource, DeleteSource, EditTenant
<1>6. CASE AddTag(r, op[r]) \/ RemoveTag(r, op[r]) \/ Reclassify(r, op[r])
  BY <1>2, <1>3, <1>6 DEF AddTag, RemoveTag, Reclassify
<1>7. CASE op[r].kind = "override" /\ UpdateOverrides(r, op[r])
  BY <1>7, CallLocks DEF UpdateOverrides
<1>8. CASE AddToWatchlist(r, op[r]) \/ RemoveFromWatchlist(r, op[r])
  BY <1>8 DEF AddToWatchlist, RemoveFromWatchlist
<1>9. CASE ReorderWatchlist(r, op[r])
  BY <1>9 DEF ReorderWatchlist, ReorderSelect, ReorderFlush, Deadlocked, Abort
<1>10. QED
  BY <1>1, <1>4, <1>5, <1>6, <1>7, <1>8, <1>9 DEF Handler

LEMMA ColumnsStep ==
  ASSUME TypesInv, NEW r \in Requests, Handler(r) \/ Abort(r)
  PROVE  Columns'
<1>1. Quiet(r) \/ (Shows(r) /\ Effect(r))
  BY StepEffect DEF TypesInv
<1>2. Typed /\ Columns /\ LocksOf(r)
  BY DEF TypesInv, Kept
<1>3. overrides' \subseteq Slugs
  BY <1>2, OverridesMove DEF Columns
<1>4. overtook' \subseteq Requests \X Requests
  BY <1>1, <1>2 DEF Quiet, Shows, Columns
<1>5. CASE Quiet(r)
  BY <1>2, <1>3, <1>4, <1>5 DEF Quiet, Columns
<1>6. CASE Shows(r) /\ Effect(r)
  <2>1. slugOf' \in [Categories -> Slugs \cup {None}]
    <3>1. op[r].kind \in {"newCategory", "editCategory"} => op[r].slug \in Slugs
      BY <1>2, CallTyped
    <3>2. QED
      BY <1>2, <1>6, <3>1 DEF Effect, Columns
  <2>2. CASE op[r].kind = "reorder"
    <3>1. pos' = [s \in Symbols |-> IF <<"watch", s>> \in held[r] /\ pos[s] # None
                                    THEN NewPos(op[r], s) ELSE pos[s]]
      BY <1>6, <2>2 DEF Effect
    <3>2. \A s \in Symbols : <<"watch", s>> \in held[r] => NewPos(op[r], s) \in Nat
      BY <1>2, <2>2, EntryTyped DEF LocksOf
    <3>3. pos' \in [Symbols -> Nat \cup {None}]
      BY <1>2, <3>1, <3>2 DEF Columns
    <3>4. QED
      BY <1>3, <1>4, <2>1, <3>3 DEF Columns
  <2>3. CASE op[r].kind # "reorder"
    <3>1. pos' \in [Symbols -> Nat \cup {None}]
      BY <1>2, <1>6, <2>3 DEF Effect, Columns
    <3>2. QED
      BY <1>3, <1>4, <2>1, <3>1 DEF Columns
  <2>4. QED
    BY <2>2, <2>3
<1>7. QED
  BY <1>1, <1>5, <1>6

LEMMA TypesStep ==
  ASSUME TypesInv, NEW p \in Requests, Handler(p) \/ Abort(p)
  PROVE  TypesInv'
<1>1. Kept' /\ Alone(p) /\ op' = op
  BY KeptStep DEF TypesInv
<1>2. Columns'
  BY ColumnsStep
<1>3. Entries(op[p])' = Entries(op[p])
  BY <1>1 DEF Entries
<1>4. LocksOf(p)' /\ next'[p] \in Nat /\ dirty'[p] \in Symbols \cup {None}
  <2>1. Typed /\ LocksOf(p) /\ next[p] \in Nat /\ dirty[p] \in Symbols \cup {None}
    BY DEF TypesInv, Kept
  <2>2. CASE Abort(p)
    <3>1. held'[p] = {} /\ dirty' = dirty /\ next' = next
      BY <2>2 DEF Abort, local, TypesInv, Kept
    <3>2. QED
      BY <1>1, <1>3, <2>1, <3>1 DEF LocksOf
  <2>3. CASE Handler(p) /\ op[p].kind = "reorder"
    <3>1. LocksOf(p)' /\ next'[p] \in Nat
      BY <2>3, ReorderKept
    <3>2. dirty'[p] \in Entries(op[p]) \cup {None}
      BY <1>1, <1>3, <2>3, <3>1 DEF LocksOf
    <3>3. QED
      BY <2>1, <2>3, <3>1, <3>2, EntryTyped
  <2>4. CASE Handler(p) /\ op[p].kind # "reorder"
    <3>1. Lawful(p) /\ next' = next /\ dirty' = dirty
      BY <2>4, LocksKept, ListKept
    <3>2. QED
      BY <1>1, <2>1, <2>4, <3>1 DEF Lawful, LocksOf
  <2>5. QED
    BY <2>2, <2>3, <2>4
<1>5. ASSUME NEW r \in Requests, r # p
      PROVE  LocksOf(r)' /\ next'[r] \in Nat /\ dirty'[r] \in Symbols \cup {None}
  BY <1>1, <1>5 DEF TypesInv, Alone, LocksOf, Entries
<1>6. next' \in [Requests -> Nat]
  <2>1. next' = [r \in Requests |-> next'[r]] /\ \A r \in Requests : next'[r] \in Nat
    BY <1>1, <1>4, <1>5 DEF Kept
  <2>2. QED
    BY <2>1
<1>7. QED
  BY <1>1, <1>2, <1>4, <1>5, <1>6 DEF TypesInv

LEMMA TypesInit == Init => TypesInv
<1> SUFFICES ASSUME Init PROVE TypesInv
  OBVIOUS
<1>1. Kept
  BY KeptInit
<1>2. \A s \in Symbols : IsWatched(s) => Place(s) \in Nat
  <2> SUFFICES ASSUME NEW s \in Symbols, IsWatched(s) PROVE Place(s) \in Nat
    OBVIOUS
  <2>1. Place(s) \in DOMAIN Watched
    BY DEF IsWatched, Place
  <2>2. QED
    BY <2>1, TenantDataAssumption
<1>3. Columns
  <2>1. slugOf \in [Categories -> Slugs \cup {None}]
    BY TenantDataAssumption DEF Init
  <2>2. pos \in [Symbols -> Nat \cup {None}]
    BY <1>2 DEF Init
  <2>3. QED
    BY <2>1, <2>2 DEF Init, Columns
<1>4. \A r \in Requests : dirty[r] \in Symbols \cup {None} /\ LocksOf(r)
  BY DEF Init, LocksOf
<1>5. next \in [Requests -> Nat]
  BY DEF Init
<1>6. QED
  BY <1>1, <1>3, <1>4, <1>5 DEF TypesInv

LEMMA TypesInvStep == TypesInv /\ [Next]_vars => TypesInv'
<1> SUFFICES ASSUME TypesInv, [Next]_vars PROVE TypesInv'
  OBVIOUS
<1>1. CASE Next
  BY <1>1, TypesStep DEF Next
<1>2. CASE UNCHANGED vars
  <2> USE <1>2 DEF vars, rows, local
  <2>1. Kept'
    BY KeptStutter DEF TypesInv
  <2>2. \A r \in Requests : LocksOf(r)'
    BY DEF TypesInv, LocksOf, Entries
  <2>3. QED
    BY <2>1, <2>2 DEF TypesInv, Columns
<1>3. QED
  BY <1>1, <1>2

(* Types for any number of requests; and no lock of a row or of an index   *)
(* key is held by two transactions, or by one that has ended.              *)
THEOREM TypeCorrect == Spec => []TypeOK
<1>1. TypesInv => TypeOK
  <2> SUFFICES ASSUME TypesInv PROVE TypeOK
    OBVIOUS
  <2>1. Kept /\ Typed /\ Columns
    BY DEF TypesInv, Kept
  <2>2. op \in [Requests -> Ops]
    BY <2>1, TenantDataAssumption DEF Typed
  <2>3. held \in [Requests -> SUBSET Locks] /\ dirty \in [Requests -> Symbols \cup {None}]
    <3>1. \A r \in Requests : held[r] \in SUBSET Locks /\ dirty[r] \in Symbols \cup {None}
      BY DEF TypesInv, LocksOf
    <3>2. held = [r \in Requests |-> held[r]] /\ dirty = [r \in Requests |-> dirty[r]]
      BY <2>1 DEF Kept
    <3>3. QED
      BY <3>1, <3>2
  <2>4. \A r \in Requests : held[r] # {} => UnderWay(r) /\ Free(r, held[r])
    BY <2>1 DEF TypesInv, LocksOf, UnderWay, Free, Kept, LocksApart
  <2>5. maxSources \in Nat
    BY <2>1, TenantDataAssumption DEF Typed
  <2>6. QED
    BY <2>1, <2>2, <2>3, <2>4, <2>5 DEF Typed, Columns, TypesInv, TypeOK
<1>2. QED
  BY <1>1, TypesInit, TypesInvStep, PTL DEF Spec
=============================================================================
