---------------------------- MODULE MCCollection ----------------------------
(* Small feeds: a and its edited headline e share url and date, b has its  *)
(* own, u has no date, and x is filtered out.                              *)
EXTENDS Collection, TLC

CONSTANTS a, e, b, u, x

MCFeeds == {<<a, a>>, <<e, u>>}
MCNews == {<<a, b>>, <<a, a, x, u>>, <<e, b, u>>}
MCKeyOf == (a :> "k1") @@ (e :> "k1") @@ (b :> "k2") @@ (x :> "k3")
=============================================================================
