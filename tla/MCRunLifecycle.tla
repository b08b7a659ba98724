--------------------------- MODULE MCRunLifecycle ---------------------------
(***************************************************************************)
(* Small instances of RunLifecycle.  Runs are model values; the sets that  *)
(* classify them are chosen by the configuration.                          *)
(***************************************************************************)
EXTENDS RunLifecycle, TLC

\* Requests are interchangeable, and so are the runs of one class.
Symmetry == Permutations(Requests)
ClassSymmetry == UNION {Permutations(S) : S \in {Requests, HighRuns, BackgroundRuns}}

\* The log and the kept degradations decide nothing: runs that check no audit
\* property fold the states that differ in them alone.
Unlogged == <<status, results, samples, age, scenario, task, registry, req,
              reaper, retention, up, faults>>
=============================================================================
