----------------------------- MODULE MCSecondFactor -----------------------------
(***************************************************************************)
(* Small instances of SecondFactor: requests, passkeys and challenges are  *)
(* interchangeable.                                                        *)
(***************************************************************************)
EXTENDS SecondFactor, TLC
Symmetry ==
    Permutations(Requests) \cup Permutations(Passkeys) \cup Permutations(Challenges)
=============================================================================
