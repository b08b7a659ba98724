-------------------------------- MODULE MCSignIn --------------------------------
(***************************************************************************)
(* Small instances of SignIn: requests and sessions are interchangeable.   *)
(***************************************************************************)
EXTENDS SignIn, TLC
Symmetry == Permutations(Requests) \cup Permutations(Sessions)
=============================================================================
