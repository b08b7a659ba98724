---------------------------- MODULE RunLifecycle ----------------------------
(***************************************************************************)
(* The life of the rows of risk_analysis_runs: the dispatcher              *)
(* (RunService.create_and_dispatch), the executor task (execute_run), the  *)
(* user's cancel, delete, purge and scenario-delete requests, the orphan   *)
(* reaper, the retention sweep, and a crash and restart of the one server  *)
(* process.                                                                *)
(*                                                                         *)
(* The database is SQLite in WAL mode behind SQLAlchemy: a SELECT takes no *)
(* lock and leaves no snapshot behind, the first INSERT, UPDATE or DELETE  *)
(* takes the single write lock, and COMMIT releases it.  So a handler is   *)
(* one step for what it reads and decides, and one later step for          *)
(* everything from its first write to its commit.  Between the two any     *)
(* other handler may run: every await is a scheduling point.               *)
(***************************************************************************)
EXTENDS Naturals, FiniteSets

CONSTANTS
    Runs,            \* run ids (uuid4, never reused)
    HighRuns,        \* iterations x scenarios at or over the high-fidelity threshold
    BackgroundRuns,  \* standard runs of 1000 iterations or more: background dispatch
    Siblings,        \* SINGLE runs of the one scenario that may be deleted
    Requests,        \* HTTP requests in progress at once
    UserOps,         \* the operations the users issue
    RetentionPhases, \* which retention windows are configured: "purge", "delete"
    MaxHigh,         \* max_concurrent_high_fidelity_runs
    MaxStandard,     \* max_concurrent_standard_runs
    MaxFaults,       \* bound on crashes, lost dispatches and failed transactions
    SlowCompute      \* TRUE: a computation may outlast a retention window (days)

\* Config bounds the caps from below (config.py, Field(ge=1)); a run is either
\* high-fidelity, standard in the background, or standard inline.
ASSUME LifecycleAssumption ==
    /\ IsFiniteSet(Runs) /\ IsFiniteSet(Requests) /\ Requests # {}
    /\ HighRuns \subseteq Runs /\ BackgroundRuns \subseteq Runs \ HighRuns
    /\ Siblings \subseteq Runs
    /\ MaxHigh \in Nat \ {0} /\ MaxStandard \in Nat \ {0} /\ MaxFaults \in Nat
    /\ SlowCompute \in BOOLEAN

VARIABLES
    status,     \* the row's status; "absent" before the INSERT, "deleted" after
    results,    \* the row's simulation_results is not NULL
    samples,    \* the run_samples row exists
    age,        \* 0 fresh, 1 past a threshold, 2 past the longer retention window
    scenario,   \* the scenario of the Siblings exists
    audit,      \* audit_log rows per run and action
    task,       \* where the run's execute_run task is
    degraded,   \* runs whose task holds unwritten _terminal_audit_rows
    registry,   \* _ACTIVE_RUNS
    req,        \* what each request has read and is about to commit
    reaper,     \* the candidates of the reaper's SELECT with the status it saw
    retention,  \* the retention sweep: its phase and its candidates
    up,         \* the process is running
    faults      \* infrastructure failures so far

rowVars == <<status, results, samples, age, scenario, audit>>
taskVars == <<task, degraded, registry>>
sweepVars == <<reaper, retention>>
vars == <<rowVars, taskVars, req, sweepVars, up, faults>>

-----------------------------------------------------------------------------
InFlight == {"queued", "running"}                  \* _ORPHANABLE
Terminal == {"completed", "failed", "cancelled"}   \* _RETAINABLE
Statuses == {"absent", "deleted"} \cup InFlight \cup Terminal

AuditActions == {"start", "complete", "fail", "reap", "cancel",
                 "degrade", "purge", "delete"}

\* The task's position.  Holding: the body has read a QUEUED row and not yet
\* returned, so it owns its arrays; Registered adds the entry and the finally.
Started == {"started", "computing", "computed", "attributing", "flipping", "raised"}
Holding == {"loaded"} \cup Started
Registered == {"entered", "exiting"} \cup Holding
TaskStates == {"absent", "pending", "done"} \cup Registered

Ops == {"create", "cancel", "delete", "force_delete", "purge", "delete_scenario"}
Idle == [op |-> "idle", runs |-> {}]
NoSweep == [phase |-> "idle", runs |-> {}]

Present(r) == status[r] \notin {"absent", "deleted"}
Existing(rs) == {r \in rs : Present(r)}

\* What the admission query counts: rows in flight, or owned by a live task.
\* Bug: the database status alone.
CountedByStatus == {r \in Runs : status[r] \in InFlight}
Counted == {r \in Runs : Present(r) /\ (status[r] \in InFlight \/ r \in registry)}

Logged(log, rs, action) ==
    [r \in Runs |-> IF r \in rs THEN [log[r] EXCEPT ![action] = @ + 1] ELSE log[r]]

\* An UPDATE of the status of the rows rs, with the timestamp the age is from.
Flip(rs, new) ==
    /\ status' = [r \in Runs |-> IF r \in rs THEN new ELSE status[r]]
    /\ age' = [r \in Runs |-> IF r \in rs THEN 0 ELSE age[r]]

Fault == faults < MaxFaults /\ faults' = faults + 1

Init ==
    /\ status = [r \in Runs |-> "absent"]
    /\ results = [r \in Runs |-> FALSE]
    /\ samples = [r \in Runs |-> FALSE]
    /\ age = [r \in Runs |-> 0]
    /\ scenario = TRUE
    /\ audit = [r \in Runs |-> [a \in AuditActions |-> 0]]
    /\ task = [r \in Runs |-> "absent"]
    /\ degraded = {}
    /\ registry = {}
    /\ req = [q \in Requests |-> Idle]
    /\ reaper = [r \in Runs |-> "none"]
    /\ retention = NoSweep
    /\ up = TRUE
    /\ faults = 0

-----------------------------------------------------------------------------
(* create_and_dispatch.  The capacity query runs for a high-fidelity run    *)
(* and for a standard run dispatched in the background; an inline standard  *)
(* run is not gated.  The INSERT, its audit row and the commit come later.  *)
HasCapacity(r) ==
    /\ r \in HighRuns => Cardinality(Counted \cap HighRuns) < MaxHigh
    /\ r \in BackgroundRuns => Cardinality(Counted \ HighRuns) < MaxStandard

Reserved == UNION {req[q].runs : q \in {p \in Requests : req[p].op = "create"}}

Admit(q, r) ==
    /\ up /\ "create" \in UserOps /\ req[q] = Idle
    /\ status[r] = "absent" /\ r \notin Reserved
    /\ r \in Siblings => scenario
    /\ HasCapacity(r)
    /\ req' = [req EXCEPT ![q] = [op |-> "create", runs |-> {r}]]
    /\ UNCHANGED <<rowVars, taskVars, sweepVars, up, faults>>

\* The foreign key refuses the row of a scenario deleted in between.
CreateCommit(q) ==
    /\ req[q].op = "create"
    /\ \E r \in req[q].runs :
        /\ r \in Siblings => scenario
        /\ Flip({r}, "queued")
        /\ task' = [task EXCEPT ![r] = "pending"]
    /\ req' = [req EXCEPT ![q] = Idle]
    /\ UNCHANGED <<results, samples, scenario, audit, degraded, registry,
                   sweepVars, up, faults>>

\* A background task is lost with its response: the row stays QUEUED.
LoseDispatch(r) ==
    /\ Fault
    /\ task[r] = "pending" /\ r \in HighRuns \cup BackgroundRuns
    /\ task' = [task EXCEPT ![r] = "done"]
    /\ UNCHANGED <<rowVars, degraded, registry, req, sweepVars, up>>

-----------------------------------------------------------------------------
(* execute_run and _execute_run_body                                       *)

Goto(r, pc) == task' = [task EXCEPT ![r] = pc]

Register(r) ==
    /\ task[r] = "pending"
    /\ registry' = registry \cup {r}
    /\ Goto(r, "entered")
    /\ UNCHANGED <<rowVars, degraded, req, sweepVars, up, faults>>

LoadRow(r) ==
    /\ task[r] = "entered"
    /\ Goto(r, IF status[r] = "queued" THEN "loaded" ELSE "exiting")
    /\ UNCHANGED <<rowVars, degraded, registry, req, sweepVars, up, faults>>

\* The control plan cannot be built: an ORM write by primary key, whatever the
\* row's status is by now.  A vanished row raises StaleDataError instead.
PlanFails(r) ==
    /\ task[r] = "loaded"
    /\ Goto(r, "exiting")
    /\ Flip(Existing({r}), "failed")
    /\ audit' = Logged(audit, Existing({r}), "fail")
    /\ UNCHANGED <<results, samples, scenario, degraded, registry, req, sweepVars, up, faults>>

\* The RUNNING flip, started_at and the audit row in one commit, also an ORM
\* write by primary key.
Start(r) ==
    /\ task[r] = "loaded"
    /\ Goto(r, IF Present(r) THEN "started" ELSE "exiting")
    /\ Flip(Existing({r}), "running")
    /\ audit' = Logged(audit, Existing({r}), "start")
    /\ UNCHANGED <<results, samples, scenario, degraded, registry, req, sweepVars, up, faults>>

\* Phase 1 sits outside the try: a failed read or commit ends the task.
PhaseOneError(r) ==
    /\ Fault
    /\ task[r] = "loaded"
    /\ Goto(r, "exiting")
    /\ UNCHANGED <<rowVars, degraded, registry, req, sweepVars, up>>

\* _check_cancelled_or_continue, before the engine call and after it.
Check(r) ==
    /\ task[r] \in {"started", "computed"}
    /\ Goto(r, CASE status[r] # "running" -> "exiting"
                 [] task[r] = "started" -> "computing"
                 [] OTHER -> "attributing")
    /\ UNCHANGED <<rowVars, degraded, registry, req, sweepVars, up, faults>>

\* The Monte-Carlo to_thread returns; no connection is held meanwhile.
ComputeEnds(r) ==
    /\ task[r] = "computing"
    /\ Goto(r, "computed")
    /\ UNCHANGED <<rowVars, degraded, registry, req, sweepVars, up, faults>>

\* Attribution ends, maybe with degradations that _log_terminal_audit keeps
\* for the terminal transaction; the ensemble path checks for a cancel again.
AttributionEnds(r) ==
    /\ task[r] = "attributing"
    /\ \/ /\ Goto(r, "flipping")
          /\ degraded' \in {degraded, degraded \cup {r}}
       \/ /\ status[r] # "running"
          /\ Goto(r, "exiting")
          /\ UNCHANGED degraded
    /\ UNCHANGED <<rowVars, registry, req, sweepVars, up, faults>>

\* Any exception inside the try: scenario load, engine, encoder, commit.  The
\* handler rolls back first, so nothing of the failed transaction remains.
Raise(r) ==
    /\ task[r] \in Started \ {"raised"}
    /\ Goto(r, "raised")
    /\ UNCHANGED <<rowVars, degraded, registry, req, sweepVars, up, faults>>

\* The rows UPDATE ... WHERE id AND status = RUNNING matches.  Bug: an ORM write.
UnguardedMatch(r) == Existing({r})
Matched(r) == {r} \cap {x \in Runs : status[x] = "running"}

\* Arrays and kept audit rows are written after a match only (rowcount # 0).
\* Bug: the early return is missing.
ArraysAnyway(r) == {r}
ArraysFor(r) == Matched(r)
ReplayedAnyway(r) == {r} \cap degraded
Replayed(r) == Matched(r) \cap degraded

\* The verdict, the results, the arrays (a degenerate run has none) and the
\* audit rows in one commit.
CompleteFlip(r) ==
    /\ task[r] = "flipping"
    /\ Goto(r, "exiting")
    /\ degraded' = degraded \ {r}
    /\ Flip(Matched(r), "completed")
    /\ results' = [x \in Runs |-> results[x] \/ x \in Matched(r)]
    /\ \E arrays \in SUBSET ArraysFor(r) :
         samples' = [x \in Runs |-> samples[x] \/ x \in arrays]
    /\ audit' = Logged(Logged(audit, Matched(r), "complete"), Replayed(r), "degrade")
    /\ UNCHANGED <<scenario, registry, req, sweepVars, up, faults>>

\* The guarded FAILED flip.  Re-logging the kept rows may fail; then the flip
\* goes ahead without them.
FailFlip(r) ==
    /\ task[r] = "raised"
    /\ Goto(r, "exiting")
    /\ degraded' = degraded \ {r}
    /\ Flip(Matched(r), "failed")
    /\ \E relogged \in SUBSET Replayed(r) :
         audit' = Logged(Logged(audit, Matched(r), "fail"), relogged, "degrade")
    /\ UNCHANGED <<results, samples, scenario, registry, req, sweepVars, up, faults>>

\* The FAILED transaction itself fails: the row stays RUNNING, without a task.
FailFlipError(r) ==
    /\ Fault
    /\ task[r] = "raised"
    /\ Goto(r, "exiting")
    /\ degraded' = degraded \ {r}
    /\ UNCHANGED <<rowVars, registry, req, sweepVars, up>>

\* execute_run's finally, on every path out of the body.
Unregister(r) ==
    /\ task[r] = "exiting"
    /\ registry' = registry \ {r}
    /\ Goto(r, "done")
    /\ UNCHANGED <<rowVars, degraded, req, sweepVars, up, faults>>

Executor(r) ==
    \/ Register(r) \/ LoadRow(r) \/ PlanFails(r) \/ Start(r) \/ Check(r)
    \/ ComputeEnds(r) \/ AttributionEnds(r) \/ Raise(r)
    \/ CompleteFlip(r) \/ FailFlip(r) \/ Unregister(r)

-----------------------------------------------------------------------------
(* The users' requests: what each reads and decides, then what it commits. *)

Ready(q, op) == up /\ op \in UserOps /\ req[q] = Idle
Decide(q, op, rs) ==
    /\ req' = [req EXCEPT ![q] = [op |-> op, runs |-> rs]]
    /\ UNCHANGED <<rowVars, taskVars, sweepVars, up, faults>>

\* RunService.cancel returns a terminal run unchanged.
CancelRead(q, r) ==
    /\ Ready(q, "cancel") /\ status[r] \in InFlight
    /\ Decide(q, "cancel", {r})

\* It then writes by primary key whatever the row's status has become; a row
\* deleted in between makes the flush raise and nothing is written.
CancelCommit(q) ==
    /\ req[q].op = "cancel"
    /\ req' = [req EXCEPT ![q] = Idle]
    /\ Flip(Existing(req[q].runs), "cancelled")
    /\ audit' = Logged(audit, Existing(req[q].runs), "cancel")
    /\ UNCHANGED <<results, samples, scenario, taskVars, sweepVars, up, faults>>

\* RunService.delete_run: never a registered run; one in flight only by force.
DeleteRead(q, r, op) ==
    /\ op \in {"delete", "force_delete"} /\ Ready(q, op)
    /\ Present(r) /\ r \notin registry
    /\ status[r] \in InFlight => op = "force_delete"
    /\ Decide(q, op, {r})

Deleted(rs) ==
    /\ status' = [r \in Runs |-> IF r \in rs THEN "deleted" ELSE status[r]]
    /\ results' = [r \in Runs |-> r \notin rs /\ results[r]]
    /\ samples' = [r \in Runs |-> r \notin rs /\ samples[r]]   \* ON DELETE CASCADE
    /\ audit' = Logged(audit, rs, "delete")
    /\ UNCHANGED age

DeleteCommit(q) ==
    /\ req[q].op \in {"delete", "force_delete"}
    /\ req' = [req EXCEPT ![q] = Idle]
    /\ Deleted(req[q].runs)
    /\ UNCHANGED <<scenario, taskVars, sweepVars, up, faults>>

\* RunService.purge_samples: nothing to do, and no audit, without a samples row.
PurgeRead(q, r) ==
    /\ Ready(q, "purge") /\ Present(r) /\ samples[r]
    /\ Decide(q, "purge", {r})

PurgeCommit(q) ==
    /\ req[q].op = "purge"
    /\ req' = [req EXCEPT ![q] = Idle]
    /\ samples' = [r \in Runs |-> r \notin req[q].runs /\ samples[r]]
    /\ audit' = Logged(audit, req[q].runs, "purge")
    /\ UNCHANGED <<status, results, age, scenario, taskVars, sweepVars, up, faults>>

\* ScenarioService.delete with cascade_runs: refused while a SINGLE run of the
\* scenario is in flight; the active-run registry is not consulted.
ScenarioDeleteRead(q) ==
    /\ Ready(q, "delete_scenario") /\ scenario
    /\ \A r \in Siblings : status[r] \notin InFlight
    /\ Decide(q, "delete_scenario", {r \in Siblings : Present(r)})

\* A run created since then is still referenced: RESTRICT fails the commit.
ScenarioDeleteCommit(q) ==
    /\ req[q].op = "delete_scenario"
    /\ {r \in Siblings : Present(r)} \subseteq req[q].runs
    /\ req' = [req EXCEPT ![q] = Idle]
    /\ Deleted(req[q].runs)
    /\ scenario' = FALSE
    /\ UNCHANGED <<taskVars, sweepVars, up, faults>>

\* The request's transaction fails, or the client's request is refused.
Abort(q) ==
    /\ req[q] # Idle
    /\ req' = [req EXCEPT ![q] = Idle]
    /\ UNCHANGED <<rowVars, taskVars, sweepVars, up, faults>>

UserRead(q) ==
    \/ ScenarioDeleteRead(q)
    \/ \E r \in Runs : \/ Admit(q, r) \/ CancelRead(q, r) \/ PurgeRead(q, r)
                       \/ \E op \in Ops : DeleteRead(q, r, op)

UserCommit(q) ==
    \/ CreateCommit(q) \/ CancelCommit(q) \/ DeleteCommit(q)
    \/ PurgeCommit(q) \/ ScenarioDeleteCommit(q) \/ Abort(q)

-----------------------------------------------------------------------------
(* reap_orphaned_runs, from the periodic loop.  The SELECT leaves out the   *)
(* rows of a registry snapshot; each UPDATE re-validates the status seen.   *)

\* Bugs: no status filter; RUNNING rows only.
AnyOld == {r \in Runs : Present(r) /\ age[r] > 0 /\ r \notin registry}
RunningOrphans == {r \in Runs : status[r] = "running" /\ age[r] > 0 /\ r \notin registry}
Orphans == {r \in Runs : status[r] \in InFlight /\ age[r] > 0 /\ r \notin registry}

ReapSelect ==
    /\ up /\ Orphans # {} /\ \A r \in Runs : reaper[r] = "none"
    /\ reaper' = [r \in Runs |-> IF r \in Orphans THEN status[r] ELSE "none"]
    /\ UNCHANGED <<rowVars, taskVars, req, retention, up, faults>>

\* Bug: the UPDATE accepts any orphanable status, not the one the SELECT saw.
ReapableLoosely == {r \in Runs : reaper[r] # "none" /\ status[r] \in InFlight}
Reapable == {r \in Runs : reaper[r] # "none" /\ status[r] = reaper[r]}

\* Bug: the audit row per flipped row is missing.
ReapedSilently(rs) == Flip(rs, "failed") /\ UNCHANGED <<results, samples, scenario, audit>>
Reaped(rs) ==
    /\ Flip(rs, "failed")
    /\ audit' = Logged(audit, rs, "reap")
    /\ UNCHANGED <<results, samples, scenario>>

ReapCommit ==
    /\ \E r \in Runs : reaper[r] # "none"
    /\ Reaped(Reapable)
    /\ reaper' = [r \in Runs |-> "none"]
    /\ UNCHANGED <<taskVars, req, retention, up, faults>>

ReapError ==
    /\ Fault
    /\ \E r \in Runs : reaper[r] # "none"
    /\ reaper' = [r \in Runs |-> "none"]
    /\ UNCHANGED <<rowVars, taskVars, req, retention, up>>

-----------------------------------------------------------------------------
(* sweep_retention: first the samples of old terminal runs, then the rows  *)
(* of older ones; each phase selects and then writes in one transaction.   *)

Expired(phase) ==
    {r \in Runs : /\ phase \in RetentionPhases /\ status[r] \in Terminal
                  /\ IF phase = "purge" THEN age[r] > 0 /\ samples[r] ELSE age[r] > 1}

Sweeping(phase, rs) == retention' = [phase |-> phase, runs |-> rs]

SweepSelectPurge ==
    /\ up /\ retention = NoSweep
    /\ Expired("purge") \cup Expired("delete") # {}
    /\ Sweeping("purge", Expired("purge"))
    /\ UNCHANGED <<rowVars, taskVars, req, reaper, up, faults>>

\* One audit row per candidate, whether its samples are still there or not.
SweepPurge ==
    /\ retention.phase = "purge"
    /\ samples' = [r \in Runs |-> r \notin retention.runs /\ samples[r]]
    /\ audit' = Logged(audit, retention.runs, "purge")
    /\ Sweeping("purged", {})
    /\ UNCHANGED <<status, results, age, scenario, taskVars, req, reaper, up, faults>>

SweepSelectDelete ==
    /\ retention.phase = "purged"
    /\ Sweeping("delete", Expired("delete"))
    /\ UNCHANGED <<rowVars, taskVars, req, reaper, up, faults>>

SweepDelete ==
    /\ retention.phase = "delete"
    /\ Deleted(retention.runs)
    /\ retention' = NoSweep
    /\ UNCHANGED <<scenario, taskVars, req, reaper, up, faults>>

SweepError ==
    /\ Fault
    /\ retention # NoSweep
    /\ retention' = NoSweep
    /\ UNCHANGED <<rowVars, taskVars, req, reaper, up>>

Sweep == SweepSelectPurge \/ SweepPurge \/ SweepSelectDelete \/ SweepDelete

-----------------------------------------------------------------------------
(* The process and the clock.                                              *)

\* SIGKILL, OOM or shutdown: everything in memory is gone.
Crash ==
    /\ Fault /\ up
    /\ up' = FALSE
    /\ task' = [r \in Runs |-> IF task[r] = "absent" THEN "absent" ELSE "done"]
    /\ degraded' = {}
    /\ registry' = {}
    /\ req' = [q \in Requests |-> Idle]
    /\ reaper' = [r \in Runs |-> "none"]
    /\ retention' = NoSweep
    /\ UNCHANGED rowVars

\* _lifespan: the boot sweep runs before any request, and a failure of it is
\* logged and swallowed.
Boot ==
    /\ ~up
    /\ up' = TRUE
    /\ \E rs \in {Orphans, {}} : Reaped(rs)
    /\ UNCHANGED <<taskVars, req, sweepVars, faults>>

\* A row in flight grows past run_orphan_threshold_seconds, a terminal one past
\* the retention windows.
GrowOld(r) ==
    /\ \/ status[r] \in InFlight /\ age[r] = 0
       \/ status[r] \in Terminal /\ age[r] < 2 /\ (SlowCompute \/ task[r] \notin Holding)
    /\ age' = [age EXCEPT ![r] = @ + 1]
    /\ UNCHANGED <<status, results, samples, scenario, audit, taskVars, req, sweepVars, up, faults>>

Next ==
    \/ \E q \in Requests : UserRead(q) \/ UserCommit(q)
    \/ \E r \in Runs : \/ Executor(r) \/ GrowOld(r)
                       \/ LoseDispatch(r) \/ PhaseOneError(r) \/ FailFlipError(r)
    \/ ReapSelect \/ ReapCommit \/ ReapError
    \/ Sweep \/ SweepError
    \/ Crash \/ Boot

Spec == Init /\ [][Next]_vars

\* The event loop runs every ready task, the worker threads return, the process
\* is restarted, the periodic reaper is on, and a row that stays in flight grows
\* old.  Users owe nothing, and a sweep may stop at any retention phase.
FairSpec ==
    /\ Spec
    /\ \A r \in Runs : /\ WF_vars(Executor(r))
                       /\ WF_vars(GrowOld(r) /\ status[r] \in InFlight)
    /\ WF_vars(ReapSelect) /\ WF_vars(ReapCommit) /\ WF_vars(Boot)

-----------------------------------------------------------------------------
(* Properties                                                              *)

\* Every variable has its type; the log counts, never negative.
TypeOK ==
    /\ status \in [Runs -> Statuses]
    /\ results \in [Runs -> BOOLEAN] /\ samples \in [Runs -> BOOLEAN]
    /\ age \in [Runs -> Nat] /\ scenario \in BOOLEAN
    /\ audit \in [Runs -> [AuditActions -> Nat]]
    /\ task \in [Runs -> TaskStates]
    /\ degraded \in SUBSET Runs /\ registry \in SUBSET Runs
    /\ req \in [Requests -> [op : Ops \cup {"idle"}, runs : SUBSET Runs]]
    /\ reaper \in [Runs -> InFlight \cup {"none"}]
    /\ retention \in [phase : {"idle", "purge", "purged", "delete"}, runs : SUBSET Runs]
    /\ up \in BOOLEAN /\ faults \in Nat

\* A samples row exists only beside the results of a flip that matched: when a
\* cancel wins the race, the executor leaves neither behind.
ResultsIntegrity ==
    \A r \in Runs :
        /\ samples[r] => results[r]
        /\ status[r] = "completed" => results[r]
        /\ results[r] => status[r] \in {"completed", "cancelled"}

\* No executor or reaper write moves a terminal row, except for the one window
\* of phase 1 between reading QUEUED and the unguarded write; outside it only a
\* late cancel or a delete does.
TerminalStands ==
    [][\A r \in Runs :
         (status[r] \in Terminal /\ status'[r] # status[r]) =>
            \/ status'[r] \in {"cancelled", "deleted"}
            \/ task[r] = "loaded"]_vars

\* The reaper never fails a RUNNING row whose task is alive, however old the
\* row is and whenever the task started: only the task's own step does.
ReaperSparesLive ==
    [][\A r \in Runs :
         (status[r] = "running" /\ task[r] \in Holding /\ status'[r] = "failed")
            => task'[r] # task[r]]_vars

\* Each status was announced by its audit row, and a task announces at most one
\* verdict, however its transactions failed and were retried.  The rows it kept
\* about its attribution ride that flip: they never land on the log of a run
\* that another actor terminated.
AuditExplainsStatus ==
    \A r \in Runs :
        /\ status[r] = "running" => audit[r]["start"] = 1
        /\ results[r] => audit[r]["complete"] = 1
        /\ status[r] = "failed" => audit[r]["fail"] + audit[r]["reap"] > 0
        /\ status[r] = "cancelled" => audit[r]["cancel"] > 0
        /\ audit[r]["complete"] + audit[r]["fail"] < 2
        /\ audit[r]["degrade"] <= audit[r]["complete"] + audit[r]["fail"]

\* The runs that hold memory or will: in flight, or with a task past its load.
Committed == {r \in Runs : status[r] \in InFlight \/ task[r] \in Holding}

\* The documented check-then-act of the admission query costs at most one run
\* per other request in progress; with one request the caps are exact, a
\* cancelled run that still computes included.
CapBound ==
    /\ Cardinality(Committed \cap HighRuns) < MaxHigh + Cardinality(Requests)
    /\ Cardinality(Committed \cap BackgroundRuns) < MaxStandard + Cardinality(Requests)

\* Every run settles: no row stays in flight and no task stays registered, be it
\* after a crash, a lost dispatch or a failed transaction of the handler itself.
Settles ==
    \A r \in Runs : (status[r] \in InFlight \/ r \in registry)
                        ~> (status[r] \notin InFlight /\ r \notin registry)

\* What the subsystem promises of each row: RunContract with the task's position
\* read as the right to write the row's verdict.
Phase ==
    [r \in Runs |-> CASE task[r] = "absent" -> "unborn"
                      [] task[r] \in {"pending", "entered"} -> "waiting"
                      [] task[r] = "loaded" -> "loaded"
                      [] task[r] \in Started -> "owned"
                      [] OTHER -> "over"]
Contract == INSTANCE RunContract WITH phase <- Phase
KeepsContract == Contract!ContractSpec

\* The model's comment: simulation_results is populated on COMPLETED only.
ResultsOnlyOnCompleted == \A r \in Runs : results[r] => status[r] = "completed"

\* A CANCELLED another session committed is never overwritten by the executor.
CancelledIsFinal ==
    [][\A r \in Runs : status[r] = "cancelled" => status'[r] \in {"cancelled", "deleted"}]_vars

\* delete_run: the row of a run whose task is live is never deleted, not even
\* by force.
LiveRunNotDeleted == \A r \in Runs : status[r] = "deleted" => task[r] \notin Started

\* purge_samples: no audit row without a state change.
PurgeAuditsAChange ==
    [][\A r \in Runs : audit'[r]["purge"] > audit[r]["purge"] => samples[r] /\ ~samples'[r]]_vars
=============================================================================
