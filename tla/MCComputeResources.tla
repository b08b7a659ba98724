------------------------- MODULE MCComputeResources -------------------------
(* Three processes of any kind: more than connections and more than threads. *)
EXTENDS ComputeResources
=============================================================================
