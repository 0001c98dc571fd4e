---------------------------- MODULE MCSseRouter ----------------------------
(* Small instances of SseRouter.  c1 follows one channel, c2 the "all"     *)
(* stream of the same tenant, c3 two channels of another tenant.           *)
EXTENDS SseRouter, TLC

CONSTANTS c1, c2, c3, ta, tb, p1, p2

MCTenants == {ta, tb}
MCTenant == (c1 :> ta) @@ (c2 :> ta) @@ (c3 :> tb)
MCCats == (c1 :> {"finance"}) @@ (c2 :> {AllChannel}) @@ (c3 :> {"finance", "tech"})

MCTenantOf == [c \in Clients |-> MCTenant[c]]
MCCatsOf == [c \in Clients |-> MCCats[c]]
=============================================================================
