------------------------------ MODULE MCLogins ------------------------------
(* Two handlers; the admin's email in the form, and that or none with two  *)
(* SSO identities; locks at 2 and 3 failures for 5 and 20.                 *)
EXTENDS Logins, TLC

MCThreshold == [email |-> 2, ip |-> 3]
MCIdentities == {<<"google", 1>>, <<"github", 2>>}
MCPlaceholder == (<<"google", 1>> :> "google_1") @@ (<<"github", 2>> :> "github_2")
Symmetry == Permutations(Handlers)
=============================================================================
