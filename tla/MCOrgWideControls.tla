---------------------------- MODULE MCOrgWideControls ----------------------------
(***************************************************************************)
(* Small instances of OrgWideControls: one meta sub-function and one other *)
(* one, and an entry that is re-curated to change its rows and then to     *)
(* lose the meta one.                                                      *)
(***************************************************************************)
EXTENDS OrgWideControls, TLC
CONSTANTS meta, other
MCContents == {meta :> 1 @@ other :> 1, meta :> 2 @@ other :> 1, meta :> Nothing @@ other :> 1}
MCStandings == {<<"active", TRUE>>, <<"active", FALSE>>, <<"deleted", TRUE>>}
MCEntry == <<meta :> 1 @@ other :> 1, meta :> 2 @@ other :> 1, meta :> Nothing @@ other :> 1>>
Symmetry == Permutations(Requests)
=============================================================================
