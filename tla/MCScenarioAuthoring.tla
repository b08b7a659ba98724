------------------------ MODULE MCScenarioAuthoring ------------------------
(***************************************************************************)
(* Small instances of ScenarioAuthoring: ids and requests are              *)
(* interchangeable.                                                        *)
(***************************************************************************)
EXTENDS ScenarioAuthoring, TLC
\* An imported register row, and one adopted from the library before the
\* threat communities were migrated.
MCFound ==
    {[status |-> "draft", ver |-> 1, rev |-> 1, framing |-> "legacy_residual",
      review |-> FALSE, loss |-> "plain", linked |-> FALSE],
     [status |-> "active", ver |-> 1, rev |-> 1, framing |-> "inherent",
      review |-> TRUE, loss |-> "library", linked |-> TRUE]}
Symmetry ==
     Permutations(Drafts) \cup Permutations(Requests)
=============================================================================
