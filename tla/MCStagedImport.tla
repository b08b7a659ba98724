--------------------------- MODULE MCStagedImport ---------------------------
(***************************************************************************)
(* Small instances of StagedImport: files that repeat a name, share names  *)
(* with each other, or move a name to another row, and a register with the *)
(* columns of a scenario file.                                             *)
(***************************************************************************)
EXTENDS StagedImport, TLC

CONSTANTS n1, n2, o1

MCFiles ==
    {[flow |-> "register", form |-> "scenarios", rows |-> <<n1, n1>>, content |-> "a"],
     [flow |-> "register", form |-> "other", rows |-> <<n2, n1>>, content |-> "a"],
     [flow |-> "scenarios", form |-> "scenarios", rows |-> <<Unusable, n1>>, content |-> "a"],
     [flow |-> "overlays", form |-> "overlays", rows |-> <<o1>>, content |-> "a"]}

\* The band is read by conversions only and overlays by overlay imports only: a behaviour
\* that has changed the one does not edit or deactivate the other.
Bounded == Len(views) = 1 \/ \A tag \in Tags : overlays[tag] \in {NoOverlay, Seeded}

Symmetry == Permutations(Requests) \cup Permutations(Tokens)
=============================================================================
