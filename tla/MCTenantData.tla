---------------------------- MODULE MCTenantData ----------------------------
(* Calls that touch the same rows, three at a time: new categories and     *)
(* renames around one slug, sources around the delete of their category,   *)
(* tags of one item that has too many of them at first, and a watchlist of *)
(* two symbols with one more to add.                                       *)
EXTENDS TenantData, TLC

CONSTANTS p, q, r, k, sys, s1, s2, s3, t1, t2, t3, t4, a, b, c

MCSlugOfSeed == (k :> s1) @@ (sys :> s2)
MCMaxCategories == ("own" :> 2) @@ ("system" :> 3)
MCWatched == <<a, b>>

NewCategory(by, slug) == [kind |-> "newCategory", by |-> by, slug |-> slug]
Rename(cat, slug) == [kind |-> "editCategory", category |-> cat, slug |-> slug]
Drop(cat) == [kind |-> "dropCategory", category |-> cat]
NewSource == [kind |-> "newSource", category |-> k]
DropSource(s) == [kind |-> "dropSource", source |-> s]
Tag(kind, t) == [kind |-> kind, tag |-> t]
Reclass(ts) == [kind |-> "reclassify", tags |-> ts]
Override(ss) == [kind |-> "override", slugs |-> ss]
Watch(kind, s) == [kind |-> kind, symbol |-> s]
Reorder(o) == [kind |-> "reorder", order |-> o]

Mix(P, Q, R) ==
  {(p :> x) @@ (q :> y) @@ (r :> z) : x \in P, y \in Q, z \in R}

CategoryCalls ==
  {NewCategory("own", s2), NewCategory("own", s3), NewCategory("system", s3),
   NewCategory("system", s1), Rename(k, s3), Rename(k, s2), Rename(p, s3), Drop(k),
   Drop(p), Override({s1, s3})}
SourceCalls ==
  {NewSource, DropSource(p), Drop(k), Rename(k, s3), [kind |-> "editTenant", max |-> 2]}
TagCalls ==
  {Tag("addTag", t1), Tag("addTag", t4), Tag("removeTag", t1), Tag("removeTag", t2),
   Reclass({t2}), Reclass({t1, t2, t4})}
WatchCalls ==
  {Watch("watch", c), Watch("unwatch", a), Reorder(<<b, a>>), Reorder(<<a, b>>),
   Reorder(<<c, a, b>>)}

MCWorkloads ==
  Mix({NewCategory("own", s3), NewCategory("own", s1), NewCategory("own", s2)},
      CategoryCalls, CategoryCalls)
  \cup Mix({NewSource}, SourceCalls, SourceCalls)
  \cup Mix(TagCalls, TagCalls, TagCalls)
  \cup Mix(WatchCalls, WatchCalls, WatchCalls)
=============================================================================
