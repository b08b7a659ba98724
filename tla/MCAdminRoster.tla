---------------------------- MODULE MCAdminRoster ----------------------------
(***************************************************************************)
(* Small instances of AdminRoster: users and requests are interchangeable. *)
(***************************************************************************)
EXTENDS AdminRoster, TLC

Symmetry == Permutations(Users) \cup Permutations(Requests)
=============================================================================
