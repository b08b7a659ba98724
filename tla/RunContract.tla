---------------------------- MODULE RunContract ----------------------------
(***************************************************************************)
(* What the run subsystem promises of each row, with the handlers, the     *)
(* requests, the registry and the audit log abstracted away.  The phase of *)
(* a run says who may write its verdict: nobody yet, the task that has     *)
(* read the row QUEUED and will start it, the task that owns it, or - once *)
(* the task is over - the reaper.  A step may move several rows at once.   *)
(***************************************************************************)
CONSTANT Runs

VARIABLES status, results, phase

contractVars == <<status, results, phase>>

Live == {"queued", "running", "completed", "failed", "cancelled"}

ContractInit ==
    /\ status = [r \in Runs |-> "absent"]
    /\ results = [r \in Runs |-> FALSE]
    /\ phase = [r \in Runs |-> "unborn"]

Row(r) == <<status[r], results[r], phase[r]>>
Moves(r, st, res, ph) == status'[r] = st /\ results'[r] = res /\ phase'[r] = ph

Inserted(r) == Row(r) = <<"absent", FALSE, "unborn">> /\ Moves(r, "queued", FALSE, "waiting")

\* The task reads the row: QUEUED, and it goes on, or anything else.
Read(r) ==
    /\ phase[r] = "waiting" /\ status[r] = "queued"
    /\ Moves(r, status[r], results[r], "loaded")

\* The one window the code leaves open: what the row has become since the read
\* is overwritten by RUNNING, or by FAILED when the plan cannot be built.
Started(r) ==
    /\ phase[r] = "loaded" /\ status[r] \in Live
    /\ \/ Moves(r, "running", results[r], "owned")
       \/ Moves(r, "failed", results[r], "over")

\* The owner's verdict: COMPLETED with results, or FAILED without.
Decided(r) ==
    /\ phase[r] = "owned" /\ status[r] = "running"
    /\ Moves(r, "completed", TRUE, "over") \/ Moves(r, "failed", results[r], "over")

\* The task ends, or dies, without a verdict.
Lost(r) ==
    /\ phase[r] \in {"waiting", "loaded", "owned"}
    /\ Moves(r, status[r], results[r], "over")

\* The reaper: a row that waits unclaimed, or that its task has left behind.
Orphaned(r) ==
    /\ \/ status[r] = "queued" /\ phase[r] # "owned"
       \/ status[r] = "running" /\ phase[r] = "over"
    /\ Moves(r, "failed", results[r], phase[r])

Cancelled(r) == status[r] \in Live /\ Moves(r, "cancelled", results[r], phase[r])

Removed(r) == status[r] # "absent" /\ Moves(r, "deleted", FALSE, phase[r])

RowMoves(r) ==
    \/ Moves(r, status[r], results[r], phase[r])
    \/ Inserted(r) \/ Read(r) \/ Started(r) \/ Decided(r) \/ Lost(r)
    \/ Orphaned(r) \/ Cancelled(r) \/ Removed(r)

ContractNext == \A r \in Runs : RowMoves(r)

ContractSpec == ContractInit /\ [][ContractNext]_contractVars
=============================================================================
