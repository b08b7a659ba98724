------------------------- MODULE RunLifecycleProofs -------------------------
(***************************************************************************)
(* Proofs about RunLifecycle for every set of runs and requests, every     *)
(* classification of the runs, every cap and every number of faults: their *)
(* types, results and moves, their audit log, and the memory they may take. *)
(***************************************************************************)
EXTENDS RunLifecycle, FiniteSetTheorems, TLAPS

\* A log grown by Logged is a log, and it never loses an entry.
LEMMA LoggedType ==
    ASSUME NEW log \in [Runs -> [AuditActions -> Nat]], NEW rs, NEW a \in AuditActions
    PROVE  Logged(log, rs, a) \in [Runs -> [AuditActions -> Nat]]
BY DEF Logged

\* The type invariant is inductive on its own: every handler writes statuses,
\* positions and candidate sets of the declared kinds.
THEOREM TypeCorrect == Spec => []TypeOK
<1> USE DEF TypeOK, rowVars, taskVars, sweepVars, vars, Statuses, InFlight, Terminal,
            TaskStates, Registered, Holding, Started, Ops, Idle, NoSweep
<1>1. Init => TypeOK
  BY LifecycleAssumption DEF Init
<1>2. ASSUME TypeOK, [Next]_vars
      PROVE  TypeOK'
  <2> USE <1>2
  <2>1. ASSUME NEW q \in Requests, UserRead(q) PROVE TypeOK'
    <3>1. CASE ScenarioDeleteRead(q)
      BY <3>1, LifecycleAssumption DEF ScenarioDeleteRead, Ready, Decide
    <3>2. ASSUME NEW r \in Runs, Admit(q, r) PROVE TypeOK'
      BY <3>2 DEF Admit
    <3>3. ASSUME NEW r \in Runs, CancelRead(q, r) PROVE TypeOK'
      BY <3>3 DEF CancelRead, Ready, Decide
    <3>4. ASSUME NEW r \in Runs, PurgeRead(q, r) PROVE TypeOK'
      BY <3>4 DEF PurgeRead, Ready, Decide
    <3>5. ASSUME NEW r \in Runs, NEW op \in Ops, DeleteRead(q, r, op) PROVE TypeOK'
      BY <3>5 DEF DeleteRead, Ready, Decide
    <3> QED BY <2>1, <3>1, <3>2, <3>3, <3>4, <3>5 DEF UserRead
  <2>2. ASSUME NEW q \in Requests, UserCommit(q) PROVE TypeOK'
    <3>1. CASE CreateCommit(q)
      BY <3>1 DEF CreateCommit, Flip
    <3>2. CASE CancelCommit(q)
      BY <3>2, LoggedType DEF CancelCommit, Flip, AuditActions
    <3>3. CASE DeleteCommit(q)
      BY <3>3, LoggedType DEF DeleteCommit, Deleted, AuditActions
    <3>4. CASE PurgeCommit(q)
      BY <3>4, LoggedType DEF PurgeCommit, AuditActions
    <3>5. CASE ScenarioDeleteCommit(q)
      BY <3>5, LoggedType DEF ScenarioDeleteCommit, Deleted, AuditActions
    <3>6. CASE Abort(q)
      BY <3>6 DEF Abort
    <3> QED BY <2>2, <3>1, <3>2, <3>3, <3>4, <3>5, <3>6 DEF UserCommit
  <2>3. ASSUME NEW r \in Runs, Executor(r) PROVE TypeOK'
    <3>1. CASE Register(r) BY <3>1 DEF Register, Goto
    <3>2. CASE LoadRow(r) BY <3>2 DEF LoadRow, Goto
    <3>3. CASE PlanFails(r) BY <3>3, LoggedType DEF PlanFails, Goto, Flip, AuditActions
    <3>4. CASE Start(r) BY <3>4, LoggedType DEF Start, Goto, Flip, AuditActions
    <3>5. CASE Check(r) BY <3>5 DEF Check, Goto
    <3>6. CASE ComputeEnds(r) BY <3>6 DEF ComputeEnds, Goto
    <3>7. CASE AttributionEnds(r) BY <3>7 DEF AttributionEnds, Goto
    <3>8. CASE Raise(r) BY <3>8 DEF Raise, Goto
    <3>9. CASE CompleteFlip(r)
      <4>1. audit' \in [Runs -> [AuditActions -> Nat]]
        <5>1. Logged(audit, Matched(r), "complete") \in [Runs -> [AuditActions -> Nat]]
          BY LoggedType DEF AuditActions
        <5> QED BY <3>9, <5>1, LoggedType DEF CompleteFlip, AuditActions
      <4> QED BY <3>9, <4>1 DEF CompleteFlip, Goto, Flip
    <3>10. CASE FailFlip(r)
      <4>1. audit' \in [Runs -> [AuditActions -> Nat]]
        <5>1. Logged(audit, Matched(r), "fail") \in [Runs -> [AuditActions -> Nat]]
          BY LoggedType DEF AuditActions
        <5>2. \A rs : Logged(Logged(audit, Matched(r), "fail"), rs, "degrade")
                        \in [Runs -> [AuditActions -> Nat]]
          BY <5>1, LoggedType DEF AuditActions
        <5> QED BY <3>10, <5>2 DEF FailFlip
      <4> QED BY <3>10, <4>1 DEF FailFlip, Goto, Flip
    <3>11. CASE Unregister(r) BY <3>11 DEF Unregister, Goto
    <3> QED BY <2>3, <3>1, <3>2, <3>3, <3>4, <3>5, <3>6, <3>7, <3>8, <3>9, <3>10, <3>11
            DEF Executor
  <2>4. ASSUME NEW r \in Runs,
               GrowOld(r) \/ LoseDispatch(r) \/ PhaseOneError(r) \/ FailFlipError(r)
        PROVE  TypeOK'
    <3>1. CASE GrowOld(r)
      BY <3>1 DEF GrowOld
    <3>2. CASE LoseDispatch(r)
      BY <3>2 DEF LoseDispatch, Fault
    <3>3. CASE PhaseOneError(r)
      BY <3>3 DEF PhaseOneError, Goto, Fault
    <3>4. CASE FailFlipError(r)
      BY <3>4 DEF FailFlipError, Goto, Fault
    <3> QED BY <2>4, <3>1, <3>2, <3>3, <3>4
  <2>5. ASSUME ReapSelect \/ ReapError PROVE TypeOK'
    <3>1. reaper' \in [Runs -> InFlight \cup {"none"}]
      BY <2>5 DEF ReapSelect, ReapError, Orphans
    <3> QED BY <2>5, <3>1 DEF ReapSelect, ReapError, Fault
  <2>6. ASSUME ReapCommit PROVE TypeOK'
    BY <2>6, LoggedType DEF ReapCommit, Reaped, Flip, AuditActions
  <2>7. ASSUME Sweep \/ SweepError PROVE TypeOK'
    <3>1. CASE SweepSelectPurge
      BY <3>1 DEF SweepSelectPurge, Sweeping, Expired
    <3>2. CASE SweepPurge
      BY <3>2, LoggedType DEF SweepPurge, Sweeping, AuditActions
    <3>3. CASE SweepSelectDelete
      BY <3>3 DEF SweepSelectDelete, Sweeping, Expired
    <3>4. CASE SweepDelete
      BY <3>4, LoggedType DEF SweepDelete, Deleted, AuditActions
    <3>5. CASE SweepError
      BY <3>5 DEF SweepError, Fault
    <3> QED BY <2>7, <3>1, <3>2, <3>3, <3>4, <3>5 DEF Sweep
  <2>8. ASSUME Crash PROVE TypeOK'
    <3>1. req' \in [Requests -> [op : Ops \cup {"idle"}, runs : SUBSET Runs]]
      BY <2>8 DEF Crash
    <3>2. task' \in [Runs -> TaskStates] /\ reaper' \in [Runs -> InFlight \cup {"none"}]
      BY <2>8 DEF Crash
    <3>3. retention' \in [phase : {"idle", "purge", "purged", "delete"}, runs : SUBSET Runs]
      BY <2>8 DEF Crash
    <3>4. degraded' \in SUBSET Runs /\ registry' \in SUBSET Runs /\ up' \in BOOLEAN
      BY <2>8 DEF Crash
    <3>5. faults' \in Nat /\ UNCHANGED rowVars
      BY <2>8 DEF Crash, Fault
    <3> QED BY <3>1, <3>2, <3>3, <3>4, <3>5
  <2>9. ASSUME Boot PROVE TypeOK'
    <3>1. PICK rs : Reaped(rs)
      BY <2>9 DEF Boot
    <3>2. status' \in [Runs -> Statuses] /\ age' \in [Runs -> Nat]
      BY <3>1 DEF Reaped, Flip
    <3>3. audit' \in [Runs -> [AuditActions -> Nat]]
      BY <3>1, LoggedType DEF Reaped, AuditActions
    <3> QED BY <2>9, <3>1, <3>2, <3>3 DEF Boot, Reaped
  <2>10. CASE UNCHANGED vars
    BY <2>10
  <2> QED BY <2>1, <2>2, <2>3, <2>4, <2>5, <2>6, <2>7, <2>8, <2>9, <2>10 DEF Next
<1> QED BY <1>1, <1>2, PTL DEF Spec

-----------------------------------------------------------------------------
(* The inductive invariant.  The properties of a row are not inductive by  *)
(* themselves: what protects them is that a task owns its row from Start   *)
(* to its exit, that the registry tells exactly which tasks live, that the *)
(* reaper's candidates are therefore orphans, and that a create request    *)
(* holds a fresh id.                                                       *)

BeforeStart == {"absent", "pending", "entered", "loaded"}
Over == {"exiting", "done"}

RegistryExact == registry = {r \in Runs : task[r] \in Registered}

TaskOwnsRow ==
    \A r \in Runs :
        /\ (status[r] = "absent") <=> (task[r] = "absent")
        /\ task[r] \in BeforeStart => status[r] \notin {"running", "completed"}
        /\ task[r] \in Started => status[r] # "queued"
        /\ results[r] => task[r] \in Over

OrphansOnly == \A r \in Runs : reaper[r] = "running" => task[r] = "done"

FreshIds ==
    /\ \A q \in Requests : \A r \in req[q].runs :
          (status[r] = "absent") <=> (req[q].op = "create")
    /\ \A p, q \in Requests : \A r \in req[p].runs \cap req[q].runs :
          (status[r] = "absent") => (p = q)
    /\ \A r \in retention.runs : status[r] # "absent"

IInv ==
    /\ TypeOK /\ RegistryExact /\ TaskOwnsRow /\ OrphansOnly /\ FreshIds
    /\ ResultsIntegrity

\* The registry holds the run ids of the live tasks and no other: every path
\* out of the body passes the finally, and a crash empties both.
LEMMA RegistryExactStep ==
    ASSUME IInv, [Next]_vars PROVE RegistryExact'
<1> USE DEF IInv, TypeOK, RegistryExact, Registered, Holding, Started, taskVars, Goto
<1>1. ASSUME NEW q \in Requests, UserRead(q) PROVE RegistryExact'
  BY <1>1 DEF UserRead, ScenarioDeleteRead, Admit, CancelRead, PurgeRead, DeleteRead, Decide
<1>2. ASSUME NEW q \in Requests, UserCommit(q) PROVE RegistryExact'
  <2>1. CASE CreateCommit(q)
    BY <2>1 DEF CreateCommit, FreshIds, TaskOwnsRow
  <2> QED BY <1>2, <2>1 DEF UserCommit, CancelCommit, DeleteCommit, PurgeCommit,
             ScenarioDeleteCommit, Abort
<1>3. ASSUME NEW r \in Runs, Executor(r) PROVE RegistryExact'
  <2>1. CASE Register(r)
    BY <2>1 DEF Register
  <2>2. CASE Unregister(r)
    BY <2>2 DEF Unregister
  <2>3. CASE Check(r)
    BY <2>3 DEF Check
  <2>4. CASE LoadRow(r) \/ PlanFails(r) \/ Start(r) \/ ComputeEnds(r)
    BY <2>4 DEF LoadRow, PlanFails, Start, ComputeEnds
  <2>5. CASE AttributionEnds(r) \/ Raise(r) \/ CompleteFlip(r) \/ FailFlip(r)
    BY <2>5 DEF AttributionEnds, Raise, CompleteFlip, FailFlip
  <2> QED BY <1>3, <2>1, <2>2, <2>3, <2>4, <2>5 DEF Executor
<1>4. ASSUME NEW r \in Runs,
             GrowOld(r) \/ LoseDispatch(r) \/ PhaseOneError(r) \/ FailFlipError(r)
      PROVE  RegistryExact'
  BY <1>4 DEF GrowOld, LoseDispatch, PhaseOneError, FailFlipError
<1>5. CASE ReapSelect \/ ReapCommit \/ ReapError \/ Sweep \/ SweepError \/ Boot
  BY <1>5 DEF ReapSelect, ReapCommit, ReapError, Sweep, SweepSelectPurge, SweepPurge,
     SweepSelectDelete, SweepDelete, SweepError, Boot
<1>6. CASE Crash
  BY <1>6 DEF Crash
<1>7. CASE UNCHANGED vars
  BY <1>7 DEF vars
<1> QED BY <1>1, <1>2, <1>3, <1>4, <1>5, <1>6, <1>7 DEF Next

\* The reaper's candidates that it saw RUNNING have lost their task for good:
\* the registry spared the others, and a run id never gets a second task.
LEMMA OrphansOnlyStep ==
    ASSUME IInv, [Next]_vars PROVE OrphansOnly'
<1> USE DEF IInv, TypeOK, OrphansOnly, taskVars, sweepVars, Goto
<1>1. ASSUME NEW q \in Requests, UserRead(q) PROVE OrphansOnly'
  BY <1>1 DEF UserRead, ScenarioDeleteRead, Admit, CancelRead, PurgeRead, DeleteRead, Decide
<1>2. ASSUME NEW q \in Requests, UserCommit(q) PROVE OrphansOnly'
  <2>1. CASE CreateCommit(q)
    BY <2>1 DEF CreateCommit, FreshIds, TaskOwnsRow
  <2> QED BY <1>2, <2>1 DEF UserCommit, CancelCommit, DeleteCommit, PurgeCommit,
             ScenarioDeleteCommit, Abort
<1>3. ASSUME NEW r \in Runs, Executor(r) PROVE OrphansOnly'
  BY <1>3 DEF Executor, Register, LoadRow, PlanFails, Start, Check, ComputeEnds,
     AttributionEnds, Raise, CompleteFlip, FailFlip, Unregister, Started
<1>4. ASSUME NEW r \in Runs,
             GrowOld(r) \/ LoseDispatch(r) \/ PhaseOneError(r) \/ FailFlipError(r)
      PROVE  OrphansOnly'
  BY <1>4 DEF GrowOld, LoseDispatch, PhaseOneError, FailFlipError
<1>5. CASE ReapSelect
  BY <1>5 DEF ReapSelect, Orphans, RegistryExact, TaskOwnsRow, TaskStates, BeforeStart, InFlight
<1>6. CASE ReapCommit \/ ReapError
  BY <1>6 DEF ReapCommit, ReapError
<1>7. CASE Sweep \/ SweepError \/ Boot
  BY <1>7 DEF Sweep, SweepSelectPurge, SweepPurge, SweepSelectDelete, SweepDelete,
     SweepError, Boot
<1>8. CASE Crash
  BY <1>8 DEF Crash
<1>9. CASE UNCHANGED vars
  BY <1>9 DEF vars
<1> QED BY <1>1, <1>2, <1>3, <1>4, <1>5, <1>6, <1>7, <1>8, <1>9 DEF Next

\* A step that inserts no row and only ends requests keeps the claims.
LEMMA FreshIdsKept ==
    ASSUME FreshIds, TypeOK,
           \A r \in Runs : (status'[r] = "absent") <=> (status[r] = "absent"),
           \A q \in Requests : req'[q] \in {req[q], Idle},
           \A r \in retention'.runs : status'[r] # "absent"
    PROVE  FreshIds'
<1>1. \A q \in Requests : req[q].runs \subseteq Runs /\ Idle.runs = {}
  BY DEF TypeOK, Idle
<1>2. \A q \in Requests : \A r \in req'[q].runs : r \in req[q].runs /\ req'[q] = req[q]
  BY <1>1
<1> QED BY <1>1, <1>2 DEF FreshIds

\* An id that a create request holds is fresh and held by that request alone,
\* until its own commit inserts the row; the ids of other requests are not.
LEMMA FreshIdsStep ==
    ASSUME IInv, TypeOK', [Next]_vars PROVE FreshIds'
<1>0. /\ TypeOK /\ FreshIds
      /\ status \in [Runs -> Statuses] /\ status' \in [Runs -> Statuses]
      /\ req \in [Requests -> [op : Ops \cup {"idle"}, runs : SUBSET Runs]]
      /\ retention.runs \subseteq Runs
      /\ \A r \in retention.runs : status[r] # "absent"
  BY DEF IInv, TypeOK, FreshIds
<1> USE <1>0 DEF rowVars, sweepVars
<1> DEFINE Ended == \A q \in Requests : req'[q] \in {req[q], Idle}
           SameAbsent == \A r \in Runs : (status'[r] = "absent") <=> (status[r] = "absent")
<1>1. ASSUME NEW q \in Requests, UserRead(q) PROVE FreshIds'
  <2>1. ASSUME NEW r \in Runs, Admit(q, r) PROVE FreshIds'
    <3>1. \A p \in Requests : r \in req[p].runs => req[p].op # "create"
      BY <2>1 DEF Admit, Reserved
    <3>2. \A p \in Requests : r \notin req[p].runs
      BY <2>1, <3>1 DEF Admit, FreshIds
    <3>3. /\ req'[q] = [op |-> "create", runs |-> {r}]
          /\ \A p \in Requests \ {q} : req'[p] = req[p]
      BY <2>1 DEF Admit
    <3> QED BY <2>1, <3>2, <3>3 DEF Admit, FreshIds
  <2>2. ASSUME NEW op \in Ops \ {"create"}, NEW rs \in SUBSET Runs, Decide(q, op, rs),
               \A r \in rs : status[r] # "absent"
        PROVE  FreshIds'
    <3>1. /\ req'[q] = [op |-> op, runs |-> rs]
          /\ \A p \in Requests \ {q} : req'[p] = req[p]
      BY <2>2 DEF Decide
    <3> QED BY <2>2, <3>1 DEF Decide, FreshIds
  <2>3. ASSUME NEW r \in Runs, CancelRead(q, r) PROVE FreshIds'
    BY <2>2, <2>3 DEF CancelRead, InFlight, Ops
  <2>4. ASSUME NEW r \in Runs, PurgeRead(q, r) PROVE FreshIds'
    BY <2>2, <2>4 DEF PurgeRead, Present, Ops
  <2>5. ASSUME NEW r \in Runs, NEW op \in Ops, DeleteRead(q, r, op) PROVE FreshIds'
    BY <2>2, <2>5 DEF DeleteRead, Present, Ops
  <2>6. CASE ScenarioDeleteRead(q)
    BY <2>2, <2>6, LifecycleAssumption DEF ScenarioDeleteRead, Present, Ops
  <2> QED BY <1>1, <2>1, <2>3, <2>4, <2>5, <2>6 DEF UserRead
<1>2. ASSUME NEW q \in Requests, UserCommit(q) PROVE FreshIds'
  <2>1. req' = [req EXCEPT ![q] = Idle] /\ retention' = retention
    BY <1>2 DEF UserCommit, CreateCommit, CancelCommit, DeleteCommit, PurgeCommit,
       ScenarioDeleteCommit, Abort
  <2>2. Ended
    BY <2>1
  <2>3. CASE CreateCommit(q)
    <3>1. PICK r \in req[q].runs : Flip({r}, "queued")
      BY <2>3 DEF CreateCommit
    <3>2. /\ status'[r] = "queued" /\ \A x \in Runs \ {r} : status'[x] = status[x]
          /\ r \in Runs
      BY <3>1 DEF Flip
    <3>3. \A p \in Requests \ {q} : r \notin req[p].runs
      BY <2>3, <3>1 DEF CreateCommit, FreshIds
    <3>4. /\ req'[q].runs = {} /\ \A p \in Requests \ {q} : req'[p] = req[p]
      BY <2>1 DEF Idle
    <3> QED BY <2>1, <3>2, <3>3, <3>4 DEF FreshIds
  <2>4. CASE CancelCommit(q)
    BY <2>1, <2>2, <2>4, FreshIdsKept DEF CancelCommit, Flip, Existing, Present
  <2>5. CASE DeleteCommit(q) \/ ScenarioDeleteCommit(q)
    <3>1. \A r \in req[q].runs : status[r] # "absent"
      BY <2>5 DEF DeleteCommit, ScenarioDeleteCommit, FreshIds
    <3>2. SameAbsent
      BY <2>5, <3>1 DEF DeleteCommit, ScenarioDeleteCommit, Deleted
    <3> QED BY <2>1, <2>2, <3>2, FreshIdsKept
  <2>6. CASE PurgeCommit(q) \/ Abort(q)
    BY <2>1, <2>2, <2>6, FreshIdsKept DEF PurgeCommit, Abort
  <2> QED BY <1>2, <2>3, <2>4, <2>5, <2>6 DEF UserCommit
<1>3. ASSUME NEW r \in Runs, Executor(r) PROVE FreshIds'
  <2>1. Ended /\ retention' = retention
    BY <1>3 DEF Executor, Register, LoadRow, PlanFails, Start, Check, ComputeEnds,
       AttributionEnds, Raise, CompleteFlip, FailFlip, Unregister
  <2>2. CASE PlanFails(r) \/ Start(r) \/ CompleteFlip(r) \/ FailFlip(r)
    BY <2>1, <2>2, FreshIdsKept
    DEF PlanFails, Start, CompleteFlip, FailFlip, Flip, Existing, Present, Matched
  <2> QED BY <1>3, <2>1, <2>2, FreshIdsKept
          DEF Executor, Register, LoadRow, Check, ComputeEnds, AttributionEnds, Raise, Unregister
<1>4. ASSUME NEW r \in Runs,
             GrowOld(r) \/ LoseDispatch(r) \/ PhaseOneError(r) \/ FailFlipError(r)
      PROVE  FreshIds'
  BY <1>4, FreshIdsKept DEF GrowOld, LoseDispatch, PhaseOneError, FailFlipError
<1>5. CASE ReapSelect \/ ReapError
  BY <1>5, FreshIdsKept DEF ReapSelect, ReapError
<1>6. CASE ReapCommit
  <2>1. \A r \in Reapable : status[r] # "absent"
    BY DEF Reapable, TypeOK, InFlight
  <2>2. SameAbsent
    BY <1>6, <2>1 DEF ReapCommit, Reaped, Flip
  <2> QED BY <1>6, <2>2, FreshIdsKept DEF ReapCommit
<1>7. CASE Sweep \/ SweepError
  <2>1. CASE SweepSelectPurge \/ SweepSelectDelete
    BY <2>1, FreshIdsKept DEF SweepSelectPurge, SweepSelectDelete, Sweeping, Expired, Terminal
  <2>2. CASE SweepPurge \/ SweepError
    BY <2>2, FreshIdsKept DEF SweepPurge, SweepError, Sweeping, NoSweep
  <2>3. CASE SweepDelete
    BY <2>3, FreshIdsKept DEF SweepDelete, Deleted, NoSweep
  <2> QED BY <1>7, <2>1, <2>2, <2>3 DEF Sweep
<1>8. CASE Crash
  <2>1. Ended /\ SameAbsent
    BY <1>8 DEF Crash
  <2>2. retention'.runs = {}
    BY <1>8 DEF Crash, NoSweep
  <2> QED BY <2>1, <2>2, FreshIdsKept
<1>9. CASE Boot
  <2>1. PICK rs \in {Orphans, {}} : Reaped(rs)
    BY <1>9 DEF Boot
  <2>2. \A r \in rs : r \in Runs => status[r] # "absent"
    BY <2>1 DEF Orphans, InFlight
  <2>3. SameAbsent
    BY <2>1, <2>2 DEF Reaped, Flip
  <2> QED BY <1>9, <2>3, FreshIdsKept DEF Boot
<1>10. CASE UNCHANGED vars
  BY <1>10, FreshIdsKept DEF vars
<1> QED BY <1>1, <1>2, <1>3, <1>4, <1>5, <1>6, <1>7, <1>8, <1>9, <1>10 DEF Next

\* A row exists from its insert on, is RUNNING or COMPLETED only once its task
\* has started it, and carries results only when that task is over.
LEMMA TaskOwnsRowStep ==
    ASSUME IInv, TypeOK', [Next]_vars PROVE TaskOwnsRow'
<1>0. /\ TaskOwnsRow /\ FreshIds
      /\ status \in [Runs -> Statuses] /\ status' \in [Runs -> Statuses]
      /\ results \in [Runs -> BOOLEAN] /\ results' \in [Runs -> BOOLEAN]
      /\ task \in [Runs -> TaskStates] /\ task' \in [Runs -> TaskStates]
      /\ \A q \in Requests : req[q].runs \subseteq Runs
      /\ retention.runs \subseteq Runs
  BY DEF IInv, TypeOK
<1> USE <1>0 DEF rowVars, taskVars, Started
<1>1. ASSUME UNCHANGED <<status, results, task>> PROVE TaskOwnsRow'
  BY <1>1 DEF TaskOwnsRow
<1>2. ASSUME NEW q \in Requests, UserRead(q) PROVE TaskOwnsRow'
  BY <1>1, <1>2 DEF UserRead, ScenarioDeleteRead, Admit, CancelRead, PurgeRead, DeleteRead, Decide
<1>3. ASSUME NEW q \in Requests, UserCommit(q) PROVE TaskOwnsRow'
  <2>1. CASE CreateCommit(q)
    BY <2>1 DEF CreateCommit, Flip, FreshIds, TaskOwnsRow, BeforeStart, Over
  <2>2. CASE CancelCommit(q)
    BY <2>2 DEF CancelCommit, Flip, Existing, Present, TaskOwnsRow
  <2>3. CASE DeleteCommit(q) \/ ScenarioDeleteCommit(q)
    <3>1. \A r \in req[q].runs : status[r] # "absent"
      BY <2>3 DEF DeleteCommit, ScenarioDeleteCommit, FreshIds
    <3> QED BY <2>3, <3>1 DEF DeleteCommit, ScenarioDeleteCommit, Deleted, TaskOwnsRow
  <2>4. CASE PurgeCommit(q) \/ Abort(q)
    BY <1>1, <2>4 DEF PurgeCommit, Abort
  <2> QED BY <1>3, <2>1, <2>2, <2>3, <2>4 DEF UserCommit
<1>4. ASSUME NEW r \in Runs, Executor(r) PROVE TaskOwnsRow'
  <2>1. CASE Register(r)
    BY <2>1 DEF Register, Goto, TaskOwnsRow, BeforeStart, Over
  <2>2. CASE LoadRow(r)
    BY <2>2 DEF LoadRow, Goto, TaskOwnsRow, BeforeStart, Over
  <2>3. CASE PlanFails(r)
    BY <2>3 DEF PlanFails, Goto, Flip, Existing, Present, TaskOwnsRow, BeforeStart, Over
  <2>4. CASE Start(r)
    BY <2>4 DEF Start, Goto, Flip, Existing, Present, TaskOwnsRow, BeforeStart, Over
  <2>5. CASE Check(r) \/ ComputeEnds(r) \/ AttributionEnds(r) \/ Raise(r)
    BY <2>5 DEF Check, ComputeEnds, AttributionEnds, Raise, Goto, TaskOwnsRow, BeforeStart,
       Over
  <2>6. CASE CompleteFlip(r)
    BY <2>6 DEF CompleteFlip, Goto, Flip, Matched, TaskOwnsRow, BeforeStart, Over
  <2>7. CASE FailFlip(r)
    BY <2>7 DEF FailFlip, Goto, Flip, Matched, TaskOwnsRow, BeforeStart, Over
  <2>8. CASE Unregister(r)
    BY <2>8 DEF Unregister, Goto, TaskOwnsRow, BeforeStart, Over
  <2> QED BY <1>4, <2>1, <2>2, <2>3, <2>4, <2>5, <2>6, <2>7, <2>8 DEF Executor
<1>5. ASSUME NEW r \in Runs,
             GrowOld(r) \/ LoseDispatch(r) \/ PhaseOneError(r) \/ FailFlipError(r)
      PROVE  TaskOwnsRow'
  BY <1>1, <1>5 DEF GrowOld, LoseDispatch, PhaseOneError, FailFlipError, Goto, TaskOwnsRow,
     BeforeStart, Over
<1>6. ASSUME NEW rs \in SUBSET {r \in Runs : status[r] \in InFlight}, Reaped(rs),
             UNCHANGED task
      PROVE  TaskOwnsRow'
  BY <1>6 DEF Reaped, Flip, InFlight, TaskOwnsRow
<1>7. CASE ReapSelect \/ ReapError
  BY <1>1, <1>7 DEF ReapSelect, ReapError
<1>8. CASE ReapCommit
  <2>1. Reapable \subseteq {r \in Runs : status[r] \in InFlight}
    BY DEF Reapable, IInv, TypeOK, InFlight
  <2> QED BY <1>6, <1>8, <2>1 DEF ReapCommit
<1>9. CASE Boot
  BY <1>6, <1>9 DEF Boot, Orphans
<1>10. CASE Sweep \/ SweepError
  <2>1. CASE SweepDelete
    BY <2>1 DEF SweepDelete, Deleted, FreshIds, TaskOwnsRow
  <2> QED BY <1>1, <1>10, <2>1
          DEF Sweep, SweepSelectPurge, SweepPurge, SweepSelectDelete, SweepError
<1>11. CASE Crash
  BY <1>11 DEF Crash, TaskOwnsRow, BeforeStart, Over
<1>12. CASE UNCHANGED vars
  BY <1>1, <1>12 DEF vars
<1> QED BY <1>2, <1>3, <1>4, <1>5, <1>7, <1>8, <1>9, <1>10, <1>11, <1>12 DEF Next

\* Results appear only with the COMPLETED flip that matched, samples only
\* beside results, and the reaper and the failure paths find neither.
LEMMA ResultsIntegrityStep ==
    ASSUME IInv, TypeOK', [Next]_vars PROVE ResultsIntegrity'
<1>0. /\ ResultsIntegrity /\ TaskOwnsRow /\ FreshIds
      /\ status \in [Runs -> Statuses] /\ status' \in [Runs -> Statuses]
      /\ results \in [Runs -> BOOLEAN] /\ results' \in [Runs -> BOOLEAN]
      /\ samples \in [Runs -> BOOLEAN] /\ samples' \in [Runs -> BOOLEAN]
      /\ \A q \in Requests : req[q].runs \subseteq Runs
      /\ retention.runs \subseteq Runs
  BY DEF IInv, TypeOK
<1> USE <1>0 DEF rowVars
<1>1. ASSUME UNCHANGED <<status, results, samples>> PROVE ResultsIntegrity'
  BY <1>1 DEF ResultsIntegrity
<1>2. ASSUME NEW q \in Requests, UserRead(q) PROVE ResultsIntegrity'
  BY <1>1, <1>2 DEF UserRead, ScenarioDeleteRead, Admit, CancelRead, PurgeRead, DeleteRead, Decide
<1>3. ASSUME NEW rs, Deleted(rs) PROVE ResultsIntegrity'
  BY <1>3 DEF Deleted, ResultsIntegrity
<1>4. ASSUME NEW q \in Requests, UserCommit(q) PROVE ResultsIntegrity'
  <2>1. CASE CreateCommit(q)
    BY <2>1 DEF CreateCommit, Flip, FreshIds, ResultsIntegrity
  <2>2. CASE CancelCommit(q)
    BY <2>2 DEF CancelCommit, Flip, Existing, ResultsIntegrity
  <2>3. CASE DeleteCommit(q) \/ ScenarioDeleteCommit(q)
    BY <1>3, <2>3 DEF DeleteCommit, ScenarioDeleteCommit
  <2>4. CASE PurgeCommit(q)
    BY <2>4 DEF PurgeCommit, ResultsIntegrity
  <2>5. CASE Abort(q)
    BY <1>1, <2>5 DEF Abort
  <2> QED BY <1>4, <2>1, <2>2, <2>3, <2>4, <2>5 DEF UserCommit
<1>5. ASSUME NEW r \in Runs, Executor(r) PROVE ResultsIntegrity'
  <2>1. CASE PlanFails(r) \/ Start(r)
    <3>1. ~results[r]
      BY <2>1 DEF PlanFails, Start, TaskOwnsRow, Over
    <3> QED BY <2>1, <3>1 DEF PlanFails, Start, Flip, Existing, ResultsIntegrity
  <2>2. CASE CompleteFlip(r)
    BY <2>2 DEF CompleteFlip, Flip, Matched, ArraysFor, ResultsIntegrity
  <2>3. CASE FailFlip(r)
    BY <2>3 DEF FailFlip, Flip, Matched, ResultsIntegrity
  <2> QED BY <1>1, <1>5, <2>1, <2>2, <2>3 DEF Executor, Register, LoadRow, Check, ComputeEnds,
             AttributionEnds, Raise, Unregister
<1>6. ASSUME NEW r \in Runs,
             GrowOld(r) \/ LoseDispatch(r) \/ PhaseOneError(r) \/ FailFlipError(r)
      PROVE  ResultsIntegrity'
  BY <1>1, <1>6 DEF GrowOld, LoseDispatch, PhaseOneError, FailFlipError
<1>7. ASSUME NEW rs \in SUBSET {r \in Runs : status[r] \in InFlight}, Reaped(rs)
      PROVE  ResultsIntegrity'
  BY <1>7 DEF Reaped, Flip, InFlight, ResultsIntegrity
<1>8. CASE ReapSelect \/ ReapError
  BY <1>1, <1>8 DEF ReapSelect, ReapError
<1>9. CASE ReapCommit
  <2>1. Reapable \subseteq {r \in Runs : status[r] \in InFlight}
    BY DEF Reapable, IInv, TypeOK, InFlight
  <2> QED BY <1>7, <1>9, <2>1 DEF ReapCommit
<1>10. CASE Boot
  BY <1>7, <1>10 DEF Boot, Orphans
<1>11. CASE Sweep \/ SweepError
  <2>1. CASE SweepPurge
    BY <2>1 DEF SweepPurge, ResultsIntegrity
  <2>2. CASE SweepDelete
    BY <1>3, <2>2 DEF SweepDelete
  <2> QED BY <1>1, <1>11, <2>1, <2>2
          DEF Sweep, SweepSelectPurge, SweepSelectDelete, SweepError
<1>12. CASE Crash
  BY <1>1, <1>12 DEF Crash
<1>13. CASE UNCHANGED vars
  BY <1>1, <1>13 DEF vars
<1> QED BY <1>2, <1>4, <1>5, <1>6, <1>8, <1>9, <1>10, <1>11, <1>12, <1>13 DEF Next

\* Before the first request there is no row, no task and no claim.
LEMMA InitIInv == Init => IInv
BY LifecycleAssumption
DEF Init, IInv, TypeOK, RegistryExact, TaskOwnsRow, OrphansOnly, FreshIds, ResultsIntegrity,
    BeforeStart, Over, Registered, Holding, Started, Idle, NoSweep, Statuses, InFlight,
    TaskStates, AuditActions, Ops

\* The inductive invariant holds of every reachable state.
THEOREM Invariance == Spec => []IInv
<1>1. Init => IInv
  BY InitIInv
<1>2. IInv /\ TypeOK' /\ [Next]_vars => IInv'
  <2> SUFFICES ASSUME IInv, TypeOK', [Next]_vars PROVE IInv'
    OBVIOUS
  <2>1. RegistryExact'
    BY RegistryExactStep
  <2>2. TaskOwnsRow'
    BY TaskOwnsRowStep
  <2>3. OrphansOnly'
    BY OrphansOnlyStep
  <2>4. FreshIds'
    BY FreshIdsStep
  <2>5. ResultsIntegrity'
    BY ResultsIntegrityStep
  <2> QED BY <2>1, <2>2, <2>3, <2>4, <2>5 DEF IInv
<1> QED BY <1>1, <1>2, TypeCorrect, PTL DEF Spec

\* Whatever cancels, crashes, reaps, deletes and sweeps happen around a task,
\* its row never keeps a samples row without results, nor results beside a
\* verdict other than its own COMPLETED or a later CANCELLED.
THEOREM ResultsAreWhole == Spec => []ResultsIntegrity
<1>1. IInv => ResultsIntegrity
  BY DEF IInv
<1> QED BY <1>1, Invariance, PTL

-----------------------------------------------------------------------------
(* Every step moves every row as the contract allows.  The step of one     *)
(* handler is a move of the rows it writes and a stutter of the others.    *)

\* How a step that leaves the tasks alone shows in the contract.
LEMMA PhaseSame ==
    ASSUME UNCHANGED task PROVE Phase' = Phase
BY DEF Phase

\* A row whose status, results and task do not change has not moved.
LEMMA RowStutters ==
    ASSUME NEW r \in Runs, status'[r] = status[r], results'[r] = results[r],
           task'[r] = task[r]
    PROVE  Contract!RowMoves(r)
BY DEF Contract!RowMoves, Contract!Moves, Phase

\* A row whose task moves on within its phase, or ends, with nothing written.
LEMMA RowAdvances ==
    ASSUME NEW r \in Runs, status'[r] = status[r], results'[r] = results[r],
           \/ task[r] = "pending" /\ task'[r] = "entered"
           \/ task[r] = "entered" /\ status[r] = "queued" /\ task'[r] = "loaded"
           \/ task[r] \in Started /\ task'[r] \in Started
           \/ task[r] \in Over \cup {"pending"} \cup Registered /\ task'[r] \in Over
    PROVE  Contract!RowMoves(r)
BY DEF Contract!RowMoves, Contract!Moves, Contract!Read, Contract!Lost, Phase, Started, Over,
   Registered, Holding

\* Every step of every handler moves each row as the contract allows: the
\* handlers differ in how many rows they move, never in what a move is.
LEMMA EveryRowMoves ==
    ASSUME IInv, TypeOK', [Next]_vars, NEW r \in Runs PROVE Contract!RowMoves(r)
<1>0. /\ RegistryExact /\ TaskOwnsRow /\ OrphansOnly /\ FreshIds /\ ResultsIntegrity
      /\ status \in [Runs -> Statuses] /\ results \in [Runs -> BOOLEAN]
      /\ task \in [Runs -> TaskStates] /\ task' \in [Runs -> TaskStates]
      /\ \A x \in Runs : reaper[x] \in InFlight \cup {"none"}
      /\ \A q \in Requests : req[q].runs \subseteq Runs
      /\ retention.runs \subseteq Runs
  BY DEF IInv, TypeOK
<1> USE <1>0 DEF rowVars, taskVars
<1>1. ASSUME UNCHANGED <<status, results, task>> PROVE Contract!RowMoves(r)
  BY <1>1, RowStutters
<1>2. ASSUME NEW q \in Requests, UserRead(q) PROVE Contract!RowMoves(r)
  BY <1>1, <1>2 DEF UserRead, ScenarioDeleteRead, Admit, CancelRead, PurgeRead, DeleteRead, Decide
<1>3. ASSUME NEW rs, Deleted(rs), UNCHANGED task, r \in rs => status[r] # "absent"
      PROVE  Contract!RowMoves(r)
  <2>1. CASE r \in rs
    BY <1>3, <2>1, PhaseSame DEF Deleted, Contract!RowMoves, Contract!Removed, Contract!Moves
  <2> QED BY <1>3, <2>1, RowStutters DEF Deleted
<1>4. ASSUME NEW q \in Requests, UserCommit(q) PROVE Contract!RowMoves(r)
  <2>1. CASE CreateCommit(q)
    <3>1. PICK x \in req[q].runs : Flip({x}, "queued") /\ task' = [task EXCEPT ![x] = "pending"]
      BY <2>1 DEF CreateCommit
    <3>2. CASE r = x
      <4>1. status[r] = "absent" /\ task[r] = "absent" /\ ~results[r]
        BY <2>1, <3>2 DEF CreateCommit, FreshIds, TaskOwnsRow, Over
      <4>2. status'[r] = "queued" /\ task'[r] = "pending" /\ results'[r] = results[r]
        BY <2>1, <3>1, <3>2 DEF CreateCommit, Flip
      <4>3. Phase[r] = "unborn" /\ Phase'[r] = "waiting"
        BY <4>1, <4>2 DEF Phase, Started
      <4> QED BY <4>1, <4>2, <4>3
              DEF Contract!RowMoves, Contract!Inserted, Contract!Row, Contract!Moves
    <3> QED BY <2>1, <3>1, <3>2, RowStutters DEF CreateCommit, Flip
  <2>2. CASE CancelCommit(q)
    <3>1. CASE r \in Existing(req[q].runs)
      BY <2>2, <3>1, PhaseSame DEF CancelCommit, Flip, Existing, Present, Statuses, InFlight,
         Terminal, Contract!RowMoves, Contract!Cancelled, Contract!Live, Contract!Moves
    <3> QED BY <2>2, <3>1, RowStutters DEF CancelCommit, Flip
  <2>3. CASE DeleteCommit(q) \/ ScenarioDeleteCommit(q)
    <3>1. \A x \in req[q].runs : status[x] # "absent"
      BY <2>3 DEF DeleteCommit, ScenarioDeleteCommit, FreshIds
    <3> QED BY <1>3, <2>3, <3>1 DEF DeleteCommit, ScenarioDeleteCommit
  <2>4. CASE PurgeCommit(q) \/ Abort(q)
    BY <1>1, <2>4 DEF PurgeCommit, Abort
  <2> QED BY <1>4, <2>1, <2>2, <2>3, <2>4 DEF UserCommit
<1>5. ASSUME NEW x \in Runs, Executor(x) PROVE Contract!RowMoves(r)
  <2>1. CASE r # x
    <3>1. task'[r] = task[r]
      BY <1>5, <2>1 DEF Executor, Register, LoadRow, PlanFails, Start, Check, ComputeEnds,
         AttributionEnds, Raise, CompleteFlip, FailFlip, Unregister, Goto
    <3>2. status'[r] = status[r] /\ results'[r] = results[r]
      BY <1>5, <2>1 DEF Executor, Register, LoadRow, PlanFails, Start, Check, ComputeEnds,
         AttributionEnds, Raise, CompleteFlip, FailFlip, Unregister, Flip, Existing, Matched
    <3> QED BY <3>1, <3>2, RowStutters
  <2>2. CASE r = x /\ (PlanFails(r) \/ Start(r))
    <3>1. CASE Present(r)
      <4>1. status[r] \in Contract!Live
        BY <3>1 DEF Present, Statuses, InFlight, Terminal, Contract!Live
      <4>2. \/ status'[r] = "running" /\ results'[r] = results[r] /\ Phase'[r] = "owned"
            \/ status'[r] = "failed" /\ results'[r] = results[r] /\ Phase'[r] = "over"
        BY <2>2, <3>1 DEF PlanFails, Start, Goto, Flip, Existing, Present, Phase, Started, Statuses
      <4>3. Phase[r] = "loaded"
        BY <2>2 DEF PlanFails, Start, Phase, Started
      <4> QED
        BY <4>1, <4>2, <4>3 DEF Contract!RowMoves, Contract!Started, Contract!Moves
    <3>2. CASE ~Present(r)
      BY <2>2, <3>2, RowAdvances DEF PlanFails, Start, Goto, Flip, Existing, Over, Registered,
         Holding
    <3> QED BY <3>1, <3>2
  <2>3. CASE r = x /\ (CompleteFlip(r) \/ FailFlip(r))
    <3>1. CASE status[r] = "running"
      <4>1. Phase[r] = "owned" /\ Phase'[r] = "over"
        BY <2>3 DEF CompleteFlip, FailFlip, Goto, Phase, Started
      <4>2. \/ status'[r] = "completed" /\ results'[r] = TRUE
            \/ status'[r] = "failed" /\ results'[r] = results[r]
        BY <2>3, <3>1 DEF CompleteFlip, FailFlip, Flip, Matched
      <4> QED
        BY <3>1, <4>1, <4>2 DEF Contract!RowMoves, Contract!Decided, Contract!Moves
    <3>2. CASE status[r] # "running"
      BY <2>3, <3>2, RowAdvances DEF CompleteFlip, FailFlip, Goto, Flip, Matched, Over,
         Registered, Holding, Started
    <3> QED BY <3>1, <3>2
  <2>4. CASE r = x /\ (Register(r) \/ LoadRow(r) \/ Check(r) \/ ComputeEnds(r)
                          \/ AttributionEnds(r) \/ Raise(r) \/ Unregister(r))
    BY <2>4, RowAdvances DEF Register, LoadRow, Check, ComputeEnds, AttributionEnds, Raise,
       Unregister, Goto, Started, Over, Registered, Holding
  <2> QED BY <1>5, <2>1, <2>2, <2>3, <2>4 DEF Executor
<1>6. ASSUME NEW x \in Runs,
             GrowOld(x) \/ LoseDispatch(x) \/ PhaseOneError(x) \/ FailFlipError(x)
      PROVE  Contract!RowMoves(r)
  <2>1. CASE r = x /\ ~GrowOld(x)
    BY <1>6, <2>1, RowAdvances DEF LoseDispatch, PhaseOneError, FailFlipError, Goto, Over,
       Registered, Holding, Started
  <2> QED BY <1>1, <1>6, <2>1, RowStutters
          DEF GrowOld, LoseDispatch, PhaseOneError, FailFlipError, Goto
<1>7. ASSUME NEW rs, Reaped(rs), UNCHANGED task,
             r \in rs => \/ status[r] = "queued"
                         \/ status[r] = "running" /\ task[r] = "done"
      PROVE  Contract!RowMoves(r)
  <2>1. CASE r \in rs
    <3>1. status'[r] = "failed" /\ results'[r] = results[r] /\ Phase'[r] = Phase[r]
      BY <1>7, <2>1, PhaseSame DEF Reaped, Flip
    <3>2. status[r] = "queued" => Phase[r] # "owned"
      BY DEF TaskOwnsRow, Phase, Started
    <3>3. task[r] = "done" => Phase[r] = "over"
      BY DEF Phase, Started
    <3> QED BY <1>7, <2>1, <3>1, <3>2, <3>3
            DEF Contract!RowMoves, Contract!Orphaned, Contract!Moves
  <2> QED BY <1>7, <2>1, RowStutters DEF Reaped, Flip
<1>8. CASE ReapCommit
  BY <1>7, <1>8 DEF ReapCommit, Reapable, OrphansOnly, InFlight
<1>9. CASE Boot
  <2>1. ASSUME NEW x \in Orphans
        PROVE  status[x] = "queued" \/ (status[x] = "running" /\ task[x] = "done")
    <3>1. x \in Runs /\ status[x] \in {"queued", "running"} /\ task[x] \notin Registered
      BY DEF Orphans, InFlight, RegistryExact
    <3>2. task[x] \in {"absent", "pending", "done"}
      BY <3>1 DEF TaskStates
    <3>3. status[x] = "running" => task[x] \notin {"absent", "pending"}
      BY <3>1 DEF TaskOwnsRow, BeforeStart
    <3> QED BY <3>1, <3>2, <3>3
  <2> QED BY <1>7, <1>9, <2>1 DEF Boot
<1>10. CASE Sweep
  <2>1. CASE SweepDelete
    BY <1>3, <2>1 DEF SweepDelete, FreshIds
  <2> QED BY <1>1, <1>10, <2>1 DEF Sweep, SweepSelectPurge, SweepPurge, SweepSelectDelete
<1>11. CASE Crash
  <2>1. CASE task[r] = "absent"
    BY <1>11, <2>1, RowStutters DEF Crash
  <2> QED BY <1>11, <2>1, RowAdvances DEF Crash, TaskStates, Over
<1>12. CASE ReapSelect \/ ReapError \/ SweepError
  BY <1>1, <1>12 DEF ReapSelect, ReapError, SweepError
<1>13. CASE UNCHANGED vars
  BY <1>1, <1>13 DEF vars
<1> QED BY <1>2, <1>4, <1>5, <1>6, <1>8, <1>9, <1>10, <1>11, <1>12, <1>13 DEF Next

\* The run subsystem implements its contract: its initial state is one of the
\* contract's, and each of its steps is a contract step or a stutter.
THEOREM ImplementsContract == Spec => KeepsContract
<1>1. Init => Contract!ContractInit
  BY DEF Init, Contract!ContractInit, Phase, Started
<1>2. IInv /\ TypeOK' /\ [Next]_vars => [Contract!ContractNext]_(Contract!contractVars)
  BY EveryRowMoves DEF Contract!ContractNext
<1> QED BY <1>1, <1>2, Invariance, TypeCorrect, PTL
        DEF Spec, KeepsContract, Contract!ContractSpec

\* The reaper and the boot sweep never fail the RUNNING row of a live task.
THEOREM LiveRunsAreSpared == Spec => ReaperSparesLive
<1> DEFINE Spared(r) == (status[r] = "running" /\ task[r] \in Holding /\ status'[r] = "failed")
                            => task'[r] # task[r]
<1>1. ASSUME IInv, TypeOK', [Next]_vars, NEW r \in Runs PROVE Spared(r)
  <2>1. task[r] \in Holding /\ status[r] = "running" => Phase[r] = "owned"
    BY <1>1 DEF IInv, TaskOwnsRow, BeforeStart, Holding, Started, Phase
  <2>2. task'[r] = task[r] => Phase'[r] = Phase[r]
    BY DEF Phase
  <2>3. Contract!RowMoves(r)
    BY <1>1, EveryRowMoves
  <2> QED BY <2>1, <2>2, <2>3
          DEF Contract!RowMoves, Contract!Moves, Contract!Row, Contract!Inserted, Contract!Read,
              Contract!Started, Contract!Decided, Contract!Lost, Contract!Orphaned,
              Contract!Cancelled, Contract!Removed
<1>2. IInv /\ TypeOK' /\ [Next]_vars => [\A r \in Runs : Spared(r)]_vars
  BY <1>1
<1> QED BY <1>2, Invariance, TypeCorrect, PTL DEF Spec, ReaperSparesLive

\* A terminal row stays as it is, but for a late cancel, a delete, and the one
\* window between a task's read of QUEUED and its unguarded write.
THEOREM TerminalRowsStand == Spec => TerminalStands
<1> DEFINE Stands(r) == (status[r] \in Terminal /\ status'[r] # status[r])
                            => \/ status'[r] \in {"cancelled", "deleted"}
                               \/ task[r] = "loaded"
<1>1. ASSUME IInv, TypeOK', [Next]_vars, NEW r \in Runs PROVE Stands(r)
  <2>1. Phase[r] = "loaded" => task[r] = "loaded"
    BY DEF Phase
  <2>2. Contract!RowMoves(r)
    BY <1>1, EveryRowMoves
  <2> QED BY <2>1, <2>2
          DEF Terminal, Contract!RowMoves, Contract!Moves, Contract!Row, Contract!Inserted,
              Contract!Read, Contract!Started, Contract!Decided, Contract!Lost,
              Contract!Orphaned, Contract!Cancelled, Contract!Removed
<1>2. IInv /\ TypeOK' /\ [Next]_vars => [\A r \in Runs : Stands(r)]_vars
  BY <1>1
<1> QED BY <1>2, Invariance, TypeCorrect, PTL DEF Spec, TerminalStands

-----------------------------------------------------------------------------
(* The audit log: each status was announced, a task announces one verdict, *)
(* and what it kept rides that verdict.                                    *)

\* Logging adds one to one count of each of the rows.
LEMMA Counts ==
    ASSUME NEW log \in [Runs -> [AuditActions -> Nat]], NEW rs, NEW a \in AuditActions,
           NEW r \in Runs, NEW b \in AuditActions
    PROVE  Logged(log, rs, a)[r][b] = IF r \in rs /\ a = b THEN log[r][b] + 1 ELSE log[r][b]
  BY DEF Logged

\* A task starts its row once and gives one verdict, as it ends; what is in the
\* log before tells how far it is.
Announced(r) ==
    /\ task[r] \in BeforeStart => audit[r]["start"] = 0
    /\ task[r] \notin Over =>
          audit[r]["complete"] = 0 /\ audit[r]["fail"] = 0 /\ audit[r]["degrade"] = 0
    /\ audit[r]["complete"] + audit[r]["fail"] < 2
    /\ audit[r]["degrade"] <= audit[r]["complete"] + audit[r]["fail"]
    /\ status[r] = "running" => audit[r]["start"] = 1
    /\ results[r] => audit[r]["complete"] = 1
    /\ status[r] = "failed" => audit[r]["fail"] + audit[r]["reap"] > 0
    /\ status[r] = "cancelled" => audit[r]["cancel"] > 0

AllAnnounced == \A r \in Runs : Announced(r)

LEMMA CountsTyped ==
    ASSUME TypeOK, NEW r \in Runs, NEW a \in AuditActions
    PROVE  audit[r][a] \in Nat
  BY DEF TypeOK

\* A task that moves on without a word.
LEMMA SilentStep ==
    ASSUME AllAnnounced, NEW r \in Runs,
           status'[r] = status[r] /\ results'[r] = results[r] /\ audit'[r] = audit[r],
           task'[r] \in BeforeStart => task[r] \in BeforeStart,
           task'[r] \notin Over => task[r] \notin Over
    PROVE  Announced(r)'
  BY DEF AllAnnounced, Announced

\* One count of the row grows by one, and its status changes to what is announced.
LEMMA OtherStep ==
    ASSUME TypeOK, AllAnnounced, NEW r \in Runs, NEW rs, NEW new,
           NEW a \in {"reap", "cancel", "purge", "delete"},
           audit' = Logged(audit, rs, a),
           status'[r] = (IF r \in rs THEN new ELSE status[r]),
           results'[r] => results[r],
           task'[r] = task[r],
           r \in rs => \/ new = "failed" /\ a = "reap"
                       \/ new = "cancelled" /\ a = "cancel"
                       \/ new \in {status[r], "deleted"}
    PROVE  Announced(r)'
  <1>1. \A b \in AuditActions :
          /\ audit'[r][b] = IF r \in rs /\ a = b THEN audit[r][b] + 1 ELSE audit[r][b]
          /\ audit[r][b] \in Nat
    <2>1. audit \in [Runs -> [AuditActions -> Nat]] /\ a \in AuditActions
      BY DEF TypeOK, AuditActions
    <2>2. \A b \in AuditActions :
            Logged(audit, rs, a)[r][b] = IF r \in rs /\ a = b THEN audit[r][b] + 1 ELSE audit[r][b]
      BY <2>1, Counts
    <2>3. \A b \in AuditActions : audit[r][b] \in Nat
      BY CountsTyped
    <2> QED
      BY <2>2, <2>3
  <1>2. Announced(r)
    BY DEF AllAnnounced
  <1>3. {"start", "complete", "fail", "reap", "cancel", "degrade"} \subseteq AuditActions
    BY DEF AuditActions
  <1>4. \A b \in {"start", "complete", "fail", "degrade"} : audit'[r][b] = audit[r][b]
    BY <1>1, <1>3
  <1>5. CASE r \notin rs
    <2>1. audit'[r]["reap"] = audit[r]["reap"] /\ audit'[r]["cancel"] = audit[r]["cancel"]
      BY <1>1, <1>3, <1>5
    <2> QED
      BY <1>2, <1>4, <1>5, <2>1 DEF Announced
  <1>6. CASE r \in rs
    <2>1. /\ audit[r]["fail"] \in Nat /\ audit[r]["reap"] \in Nat /\ audit[r]["cancel"] \in Nat
          /\ audit'[r]["reap"] = audit[r]["reap"] + (IF a = "reap" THEN 1 ELSE 0)
          /\ audit'[r]["cancel"] = audit[r]["cancel"] + (IF a = "cancel" THEN 1 ELSE 0)
      BY <1>1, <1>3, <1>6
    <2>2. status'[r] = "running" => status[r] = "running"
      BY <1>6
    <2>3. status'[r] = "failed" => audit'[r]["fail"] + audit'[r]["reap"] > 0
      BY <1>2, <1>4, <1>6, <2>1 DEF Announced
    <2>4. status'[r] = "cancelled" => audit'[r]["cancel"] > 0
      BY <1>2, <1>6, <2>1 DEF Announced
    <2> QED
      BY <1>2, <1>4, <2>2, <2>3, <2>4 DEF Announced
  <1> QED
    BY <1>5, <1>6

LEMMA ExecutorAnnounces ==
    ASSUME IInv, TypeOK', AllAnnounced, NEW x \in Runs, Executor(x), NEW r \in Runs
    PROVE  Announced(r)'
  <1>0. /\ TypeOK /\ TaskOwnsRow /\ task \in [Runs -> TaskStates]
        /\ audit \in [Runs -> [AuditActions -> Nat]]
        /\ \A b \in AuditActions : audit[r][b] \in Nat
        /\ {"start", "complete", "fail", "reap", "cancel", "degrade"} \subseteq AuditActions
    BY CountsTyped DEF IInv, TypeOK, AuditActions
  <1>1. CASE r # x
    <2>1. task'[r] = task[r]
      BY <1>0, <1>1 DEF Executor, Register, LoadRow, PlanFails, Start, Check, ComputeEnds,
         AttributionEnds, Raise, CompleteFlip, FailFlip, Unregister, Goto, taskVars
    <2>2. status'[r] = status[r] /\ results'[r] = results[r]
      <3>1. CASE CompleteFlip(x)
        BY <1>0, <1>1, <3>1 DEF CompleteFlip, Flip, Matched, TypeOK
      <3> QED
        BY <1>0, <1>1, <3>1 DEF Executor, Register, LoadRow, PlanFails, Start, Check, ComputeEnds,
           AttributionEnds, Raise, FailFlip, Unregister, Flip, Existing, Matched, rowVars
    <2>3. audit'[r] = audit[r]
      <3>1. CASE PlanFails(x) \/ Start(x) \/ CompleteFlip(x) \/ FailFlip(x)
        BY <1>0, <1>1, <3>1 DEF PlanFails, Start, CompleteFlip, FailFlip, Logged, Existing,
           Matched, Replayed
      <3>2. CASE ~(PlanFails(x) \/ Start(x) \/ CompleteFlip(x) \/ FailFlip(x))
        BY <3>2 DEF Executor, Register, LoadRow, Check, ComputeEnds, AttributionEnds, Raise,
           Unregister, rowVars
      <3> QED
        BY <3>1, <3>2
    <2> QED
      BY <2>1, <2>2, <2>3, SilentStep
  <1>2. CASE r = x /\ (Register(r) \/ LoadRow(r) \/ Check(r) \/ ComputeEnds(r)
                         \/ AttributionEnds(r) \/ Raise(r) \/ Unregister(r))
    <2>1. status' = status /\ results' = results /\ audit' = audit
      BY <1>2 DEF Register, LoadRow, Check, ComputeEnds, AttributionEnds, Raise, Unregister, rowVars
    <2>2. /\ task'[r] \in BeforeStart => task[r] \in BeforeStart
          /\ task'[r] \notin Over => task[r] \notin Over
      BY <1>0, <1>2 DEF Register, LoadRow, Check, ComputeEnds, AttributionEnds, Raise, Unregister,
         Goto, BeforeStart, Over, Started
    <2> QED
      BY <2>1, <2>2, SilentStep
  <1>3. CASE r = x /\ PlanFails(r)
    <2> DEFINE there == Existing({r})
    <2>1. /\ task[r] = "loaded" /\ task'[r] = "exiting" /\ results' = results
          /\ status'[r] = IF r \in there THEN "failed" ELSE status[r]
          /\ audit' = Logged(audit, there, "fail")
      BY <1>0, <1>3 DEF PlanFails, Goto, Flip
    <2> HIDE DEF there
    <2>2. \A b \in AuditActions :
            audit'[r][b] = IF r \in there /\ b = "fail" THEN audit[r][b] + 1 ELSE audit[r][b]
      BY <1>0, <2>1, Counts
    <2>3. /\ audit'[r]["start"] = audit[r]["start"]
          /\ audit'[r]["complete"] = audit[r]["complete"]
          /\ audit'[r]["fail"] = audit[r]["fail"] + IF r \in there THEN 1 ELSE 0
          /\ audit'[r]["reap"] = audit[r]["reap"]
          /\ audit'[r]["cancel"] = audit[r]["cancel"]
          /\ audit'[r]["degrade"] = audit[r]["degrade"]
      BY <1>0, <2>2
    <2> QED
      BY <1>0, <2>1, <2>3 DEF AllAnnounced, Announced, BeforeStart, Over
  <1>4. CASE r = x /\ Start(r)
    <2> DEFINE there == Existing({r})
    <2>1. /\ task[r] = "loaded" /\ results' = results
          /\ task'[r] = IF r \in there THEN "started" ELSE "exiting"
          /\ status'[r] = IF r \in there THEN "running" ELSE status[r]
          /\ audit' = Logged(audit, there, "start")
      BY <1>0, <1>4 DEF Start, Goto, Flip, Existing
    <2> HIDE DEF there
    <2>2. \A b \in AuditActions :
            audit'[r][b] = IF r \in there /\ b = "start" THEN audit[r][b] + 1 ELSE audit[r][b]
      BY <1>0, <2>1, Counts
    <2>3. /\ audit'[r]["start"] = audit[r]["start"] + IF r \in there THEN 1 ELSE 0
          /\ audit'[r]["complete"] = audit[r]["complete"]
          /\ audit'[r]["fail"] = audit[r]["fail"]
          /\ audit'[r]["reap"] = audit[r]["reap"]
          /\ audit'[r]["cancel"] = audit[r]["cancel"]
          /\ audit'[r]["degrade"] = audit[r]["degrade"]
      BY <1>0, <2>2
    <2> QED
      BY <1>0, <2>1, <2>3 DEF AllAnnounced, Announced, BeforeStart, Over
  <1>5. CASE r = x /\ CompleteFlip(r)
    <2>1. /\ task[r] = "flipping" /\ task'[r] = "exiting"
          /\ status'[r] = IF r \in Matched(r) THEN "completed" ELSE status[r]
          /\ results'[r] => results[r] \/ r \in Matched(r)
          /\ audit' = Logged(Logged(audit, Matched(r), "complete"), Replayed(r), "degrade")
      BY <1>0, <1>5 DEF CompleteFlip, Goto, Flip
    <2>2. Logged(audit, Matched(r), "complete") \in [Runs -> [AuditActions -> Nat]]
      BY <1>0, LoggedType
    <2>3. \A b \in AuditActions :
            audit'[r][b] = audit[r][b] + (IF r \in Matched(r) /\ b = "complete" THEN 1 ELSE 0)
                                       + (IF r \in Replayed(r) /\ b = "degrade" THEN 1 ELSE 0)
      BY <1>0, <2>1, <2>2, Counts
    <2>4. /\ audit'[r]["start"] = audit[r]["start"]
          /\ audit'[r]["complete"] = audit[r]["complete"] + IF r \in Matched(r) THEN 1 ELSE 0
          /\ audit'[r]["fail"] = audit[r]["fail"]
          /\ audit'[r]["reap"] = audit[r]["reap"]
          /\ audit'[r]["cancel"] = audit[r]["cancel"]
          /\ audit'[r]["degrade"] = audit[r]["degrade"] + IF r \in Replayed(r) THEN 1 ELSE 0
      BY <1>0, <2>3
    <2>5. /\ audit[r]["complete"] = 0 /\ audit[r]["fail"] = 0 /\ audit[r]["degrade"] = 0
          /\ ~results[r] /\ (r \in Replayed(r) => r \in Matched(r))
      BY <2>1 DEF AllAnnounced, Announced, Over, Replayed
    <2> QED
      BY <1>0, <2>1, <2>4, <2>5 DEF AllAnnounced, Announced, BeforeStart, Over
  <1>6. CASE r = x /\ FailFlip(r)
    <2>1. PICK relogged \in SUBSET Replayed(r) :
            audit' = Logged(Logged(audit, Matched(r), "fail"), relogged, "degrade")
      BY <1>6 DEF FailFlip
    <2>2. /\ task[r] = "raised" /\ task'[r] = "exiting" /\ results' = results
          /\ status'[r] = IF r \in Matched(r) THEN "failed" ELSE status[r]
      BY <1>0, <1>6 DEF FailFlip, Goto, Flip
    <2>3. Logged(audit, Matched(r), "fail") \in [Runs -> [AuditActions -> Nat]]
      BY <1>0, LoggedType
    <2>4. \A b \in AuditActions :
            audit'[r][b] = audit[r][b] + (IF r \in Matched(r) /\ b = "fail" THEN 1 ELSE 0)
                                       + (IF r \in relogged /\ b = "degrade" THEN 1 ELSE 0)
      BY <1>0, <2>1, <2>3, Counts
    <2>5. /\ audit'[r]["start"] = audit[r]["start"]
          /\ audit'[r]["complete"] = audit[r]["complete"]
          /\ audit'[r]["fail"] = audit[r]["fail"] + IF r \in Matched(r) THEN 1 ELSE 0
          /\ audit'[r]["reap"] = audit[r]["reap"]
          /\ audit'[r]["cancel"] = audit[r]["cancel"]
          /\ audit'[r]["degrade"] = audit[r]["degrade"] + IF r \in relogged THEN 1 ELSE 0
      BY <1>0, <2>4
    <2> QED
      BY <1>0, <2>1, <2>2, <2>5 DEF AllAnnounced, Announced, BeforeStart, Over, Replayed
  <1> QED
    BY <1>1, <1>2, <1>3, <1>4, <1>5, <1>6 DEF Executor

LEMMA AnnouncedStep ==
    ASSUME IInv, TypeOK', AllAnnounced, [Next]_vars, NEW r \in Runs
    PROVE  Announced(r)'
  <1>0. TypeOK /\ FreshIds /\ TaskOwnsRow
    BY DEF IInv
  <1>1. ASSUME UNCHANGED <<status, results, audit, task>>
        PROVE  Announced(r)'
    BY <1>1, SilentStep
  <1>2. ASSUME NEW rs, Deleted(rs), UNCHANGED task
        PROVE  Announced(r)'
    BY <1>0, <1>2, OtherStep DEF Deleted
  <1>3. ASSUME NEW rs, Reaped(rs), UNCHANGED task
        PROVE  Announced(r)'
    BY <1>0, <1>3, OtherStep DEF Reaped, Flip
  <1>4. ASSUME NEW q \in Requests, UserRead(q)
        PROVE  Announced(r)'
    BY <1>1, <1>4 DEF UserRead, ScenarioDeleteRead, Admit, CancelRead, PurgeRead, DeleteRead,
       Decide, rowVars, taskVars
  <1>5. ASSUME NEW q \in Requests, UserCommit(q)
        PROVE  Announced(r)'
    <2>1. CASE CreateCommit(q)
      <3>1. PICK x \in req[q].runs : Flip({x}, "queued") /\ task' = [task EXCEPT ![x] = "pending"]
        BY <2>1 DEF CreateCommit
      <3>2. task[x] = "absent"
        BY <1>0, <2>1, <3>1 DEF CreateCommit, FreshIds, TaskOwnsRow, TypeOK
      <3>3. audit' = audit /\ results' = results
        BY <2>1 DEF CreateCommit
      <3>4. CASE r = x
        <4>1. status'[r] = "queued" /\ task[r] = "absent"
          BY <3>1, <3>2, <3>4 DEF Flip
        <4> QED
          BY <3>3, <4>1 DEF AllAnnounced, Announced, BeforeStart, Over
      <3>5. CASE r # x
        BY <1>0, <3>1, <3>3, <3>5, SilentStep DEF Flip, TypeOK
      <3> QED
        BY <3>4, <3>5
    <2>2. CASE CancelCommit(q)
      BY <1>0, <2>2, OtherStep DEF CancelCommit, Flip, taskVars
    <2>3. CASE DeleteCommit(q) \/ ScenarioDeleteCommit(q)
      BY <1>2, <2>3 DEF DeleteCommit, ScenarioDeleteCommit, taskVars
    <2>4. CASE PurgeCommit(q)
      <3>1. audit' = Logged(audit, req[q].runs, "purge") /\ UNCHANGED <<status, results, task>>
        BY <2>4 DEF PurgeCommit, taskVars
      <3> QED
        BY <1>0, <3>1, OtherStep
    <2>5. CASE Abort(q)
      BY <1>1, <2>5 DEF Abort, rowVars, taskVars
    <2> QED
      BY <1>5, <2>1, <2>2, <2>3, <2>4, <2>5 DEF UserCommit
  <1>6. ASSUME NEW x \in Runs, Executor(x)
        PROVE  Announced(r)'
    BY <1>6, ExecutorAnnounces
  <1>7. ASSUME NEW x \in Runs,
               GrowOld(x) \/ LoseDispatch(x) \/ PhaseOneError(x) \/ FailFlipError(x)
        PROVE  Announced(r)'
    <2>1. status' = status /\ results' = results /\ audit' = audit
      BY <1>7 DEF GrowOld, LoseDispatch, PhaseOneError, FailFlipError, rowVars
    <2>2. task'[r] = task[r] \/ task'[r] \in Over
      BY <1>0, <1>7 DEF GrowOld, LoseDispatch, PhaseOneError, FailFlipError, Goto, taskVars, Over, TypeOK
    <2> QED
      BY <2>1, <2>2, SilentStep DEF Over, BeforeStart
  <1>8. CASE ReapCommit \/ Boot
    BY <1>3, <1>8 DEF ReapCommit, Boot, taskVars
  <1>9. CASE Sweep
    <2>1. CASE SweepPurge
      <3>1. audit' = Logged(audit, retention.runs, "purge") /\ UNCHANGED <<status, results, task>>
        BY <2>1 DEF SweepPurge, taskVars
      <3> QED
        BY <1>0, <3>1, OtherStep
    <2>2. CASE SweepDelete
      BY <1>2, <2>2 DEF SweepDelete, taskVars
    <2> QED
      BY <1>1, <1>9, <2>1, <2>2 DEF Sweep, SweepSelectPurge, SweepSelectDelete, rowVars, taskVars
  <1>10. CASE Crash
    <2>1. status' = status /\ results' = results /\ audit' = audit
      BY <1>10 DEF Crash, rowVars
    <2>2. task'[r] = IF task[r] = "absent" THEN "absent" ELSE "done"
      BY <1>10 DEF Crash
    <2> QED
      BY <2>1, <2>2, SilentStep DEF Over, BeforeStart
  <1>11. CASE ReapSelect \/ ReapError \/ SweepError \/ UNCHANGED vars
    BY <1>1, <1>11 DEF ReapSelect, ReapError, SweepError, vars, rowVars, taskVars
  <1> QED
    BY <1>4, <1>5, <1>6, <1>7, <1>8, <1>9, <1>10, <1>11 DEF Next

LEMMA AnnouncedInvariant == Spec => []AllAnnounced
  <1>1. Init => AllAnnounced
    BY DEF Init, AllAnnounced, Announced, AuditActions
  <1>2. IInv /\ TypeOK' /\ AllAnnounced /\ [Next]_vars => AllAnnounced'
    BY AnnouncedStep DEF AllAnnounced
  <1> QED
    BY <1>1, <1>2, Invariance, TypeCorrect, PTL DEF Spec

\* Each status was announced by its audit row, a task gives one verdict, and
\* what it kept for the log is there only beside that verdict.
THEOREM StatusesAnnounced == Spec => []AuditExplainsStatus
  <1>1. AllAnnounced => AuditExplainsStatus
    BY DEF AllAnnounced, Announced, AuditExplainsStatus
  <1> QED
    BY <1>1, AnnouncedInvariant, PTL

-----------------------------------------------------------------------------
(***************************************************************************)
(* The memory bound of the run dispatcher, for any number of runs and      *)
(* requests: the runs that hold arrays, or will, exceed a cap by less than *)
(* the number of requests in progress.  The admission query bounds the     *)
(* runs committed when it is asked; the requests it has admitted since are *)
(* the slack, and a commit trades its claim for its run.                   *)
(***************************************************************************)

\* The deletes wait for the task: no force-delete, no cascading scenario
\* delete, and no computation that outlasts a retention window.
PatientDeletes ==
    /\ UserOps \cap {"force_delete", "delete_scenario"} = {}
    /\ SlowCompute = FALSE

\* A settled row has its verdict and no task that will ever load it.
Settled(r) == status[r] \in Terminal \cup {"deleted"} /\ task[r] \notin Holding

DeletesSettled ==
    /\ \A r \in Runs : (status[r] \in Terminal /\ age[r] > 0) => task[r] \notin Holding
    /\ \A r \in Runs : task[r] \in Holding => Present(r)
    /\ \A q \in Requests : req[q].op \notin {"force_delete", "delete_scenario"}
    /\ \A q \in Requests : req[q].op = "delete" => \A r \in req[q].runs : Settled(r)
    /\ retention.phase = "delete" => \A r \in retention.runs : Settled(r)

\* The create requests admitted for a run of the class S.
Claims(S) == {q \in Requests : req[q].op = "create" /\ req[q].runs \cap S # {}}
Within(S, cap) == Cardinality(Committed \cap S) + Cardinality(Claims(S)) < cap + Cardinality(Requests)

CapInv ==
    /\ IInv /\ DeletesSettled
    /\ Within(HighRuns, MaxHigh) /\ Within(BackgroundRuns, MaxStandard)

\* Only its own insert makes a run committed: a task that starts or loads its
\* row was committed before.
LEMMA CommittedGrows ==
    ASSUME IInv, TypeOK', [Next]_vars, NEW r \in Committed'
    PROVE  r \in Runs /\ (r \in Committed \/ Contract!Inserted(r))
<1>1. r \in Runs /\ Contract!RowMoves(r)
  BY EveryRowMoves DEF Committed
<1>2. task[r] \in Holding <=> Phase[r] \in {"loaded", "owned"}
  BY <1>1 DEF Holding, Started, Phase
<1>3. task'[r] \in Holding <=> Phase'[r] \in {"loaded", "owned"}
  BY <1>1 DEF Holding, Started, Phase
<1> QED BY <1>1, <1>2, <1>3
        DEF Committed, InFlight, Contract!RowMoves, Contract!Moves, Contract!Row,
            Contract!Inserted, Contract!Read, Contract!Started, Contract!Decided,
            Contract!Lost, Contract!Orphaned, Contract!Cancelled, Contract!Removed

\* Nothing unsettles a settled row.
LEMMA SettledStays ==
    ASSUME IInv, TypeOK', [Next]_vars, NEW r \in Runs, Settled(r)
    PROVE  Settled(r)'
<1>1. Contract!RowMoves(r)
  BY EveryRowMoves
<1>2. task[r] \in Holding <=> Phase[r] \in {"loaded", "owned"}
  BY DEF Holding, Started, Phase
<1>3. task'[r] \in Holding <=> Phase'[r] \in {"loaded", "owned"}
  BY DEF Holding, Started, Phase
<1> QED BY <1>1, <1>2, <1>3
        DEF Settled, Terminal, Contract!RowMoves, Contract!Moves, Contract!Row,
            Contract!Inserted, Contract!Read, Contract!Started, Contract!Decided,
            Contract!Lost, Contract!Orphaned, Contract!Cancelled, Contract!Removed

\* The sets that are counted are finite.
LEMMA Finite ==
    /\ \A S : IsFiniteSet(Committed \cap S) /\ Cardinality(Committed \cap S) \in Nat
    /\ \A S : IsFiniteSet(Claims(S)) /\ Cardinality(Claims(S)) \in Nat
    /\ Cardinality(Requests) \in Nat
<1>1. IsFiniteSet(Runs) /\ IsFiniteSet(Requests)
  BY LifecycleAssumption
<1>2. \A S : IsFiniteSet(Committed \cap S)
  BY <1>1, FS_Subset DEF Committed
<1>3. \A S : IsFiniteSet(Claims(S))
  BY <1>1, FS_Subset DEF Claims
<1> QED BY <1>1, <1>2, <1>3, FS_CardinalityType

\* A step that commits no run of the class and admits no request for one.
LEMMA WithinKept ==
    ASSUME NEW S, NEW cap \in Nat, Within(S, cap),
           Committed' \cap S \subseteq Committed, Claims(S)' \subseteq Claims(S)
    PROVE  Within(S, cap)'
<1>1. Cardinality(Committed' \cap S) <= Cardinality(Committed \cap S)
  BY Finite, FS_Subset, Committed' \cap S \subseteq Committed \cap S
<1>2. Cardinality(Claims(S)') <= Cardinality(Claims(S))
  BY Finite, FS_Subset
<1>3. Cardinality(Committed' \cap S) \in Nat /\ Cardinality(Claims(S)') \in Nat
  BY Finite, FS_Subset, FS_CardinalityType, Committed' \cap S \subseteq Committed \cap S
<1> QED BY <1>1, <1>2, <1>3, Finite DEF Within

\* Admission: the query has just bounded the runs, and the claims are at most
\* one per request.
LEMMA WithinAdmit ==
    ASSUME IInv, TypeOK', NEW q \in Requests, NEW r \in Runs, Admit(q, r),
           NEW S, NEW cap \in Nat, Within(S, cap),
           r \in S => Cardinality(Committed \cap S) < cap
    PROVE  Within(S, cap)'
<1>1. Committed' = Committed
  BY DEF Admit, Committed, rowVars, taskVars
<1>2. CASE r \in S
  <2>1. IsFiniteSet(Requests)
    BY LifecycleAssumption
  <2>2. Claims(S)' \in SUBSET Requests
    BY DEF Claims
  <2>3. Cardinality(Claims(S)') <= Cardinality(Requests) /\ Cardinality(Claims(S)') \in Nat
    BY <2>1, <2>2, FS_Subset, FS_CardinalityType
  <2>4. /\ Cardinality(Committed \cap S) \in Nat /\ Cardinality(Requests) \in Nat
        /\ Cardinality(Committed' \cap S) = Cardinality(Committed \cap S)
    BY <1>1, Finite
  <2> QED BY <1>2, <2>3, <2>4 DEF Within
<1>3. CASE r \notin S
  <2>1. req' = [req EXCEPT ![q] = [op |-> "create", runs |-> {r}]]
    BY DEF Admit
  <2>2. req'[q].runs = {r} /\ \A p \in Requests \ {q} : req'[p] = req[p]
    BY <2>1 DEF IInv, TypeOK
  <2>3. Claims(S)' \subseteq Claims(S)
    BY <1>3, <2>2 DEF Claims
  <2> QED BY <1>1, <2>3, WithinKept
<1> QED BY <1>2, <1>3

\* The commit of a create request trades its claim for its run.
LEMMA WithinCreate ==
    ASSUME IInv, TypeOK', NEW q \in Requests, CreateCommit(q), [Next]_vars,
           NEW S, NEW cap \in Nat, Within(S, cap)
    PROVE  Within(S, cap)'
<1>1. PICK r \in req[q].runs : Flip({r}, "queued") /\ task' = [task EXCEPT ![r] = "pending"]
  BY DEF CreateCommit
<1>2. r \in Runs /\ status \in [Runs -> Statuses]
  BY <1>1 DEF IInv, TypeOK
<1>3. Committed' \subseteq Committed \cup {r}
  <2>1. \A x \in Runs \ {r} : status'[x] = status[x] /\ task'[x] = task[x]
    BY <1>1, <1>2 DEF Flip, IInv, TypeOK
  <2> QED BY <2>1 DEF Committed
<1>4. req'[q] = Idle /\ \A p \in Requests \ {q} : req'[p] = req[p]
  BY DEF CreateCommit, IInv, TypeOK
<1>5. Claims(S)' \subseteq Claims(S) \ {q}
  BY <1>4 DEF Claims, Idle
<1>6. CASE r \notin S
  BY <1>3, <1>5, <1>6, WithinKept
<1>7. CASE r \in S
  <2>1. q \in Claims(S)
    BY <1>1, <1>7 DEF Claims, CreateCommit
  <2>2. /\ Cardinality(Claims(S)') <= Cardinality(Claims(S)) - 1
        /\ Cardinality(Claims(S)') \in Nat
    BY <1>5, <2>1, Finite, FS_RemoveElement, FS_Subset, FS_CardinalityType
  <2>3. Committed' \cap S \in SUBSET ((Committed \cap S) \cup {r})
    BY <1>3, <1>7
  <2>4. /\ Cardinality(Committed' \cap S) <= Cardinality(Committed \cap S) + 1
        /\ Cardinality(Committed' \cap S) \in Nat
    <3>1. IsFiniteSet(Committed \cap S) /\ Cardinality(Committed \cap S) \in Nat
      BY Finite
    <3>2. /\ IsFiniteSet((Committed \cap S) \cup {r})
          /\ Cardinality((Committed \cap S) \cup {r}) <= Cardinality(Committed \cap S) + 1
      <4> DEFINE C == Committed \cap S
      <4>1. IsFiniteSet(C) /\ Cardinality(C) \in Nat
        BY <3>1
      <4> HIDE DEF C
      <4>2. /\ IsFiniteSet(C \cup {r})
            /\ Cardinality(C \cup {r}) = IF r \in C THEN Cardinality(C) ELSE Cardinality(C) + 1
        BY <4>1, FS_AddElement
      <4>3. IsFiniteSet(C \cup {r}) /\ Cardinality(C \cup {r}) <= Cardinality(C) + 1
        BY <4>1, <4>2
      <4> QED BY <4>3 DEF C
    <3>3. Cardinality((Committed \cap S) \cup {r}) \in Nat
      BY <3>2, FS_CardinalityType
    <3>4. /\ Cardinality(Committed' \cap S) <= Cardinality((Committed \cap S) \cup {r})
          /\ IsFiniteSet(Committed' \cap S)
      BY <2>3, <3>2, FS_Subset
    <3>5. Cardinality(Committed' \cap S) \in Nat
      BY <3>4, FS_CardinalityType
    <3> QED BY <3>1, <3>2, <3>3, <3>4, <3>5
  <2>5. /\ Cardinality(Committed \cap S) \in Nat /\ Cardinality(Claims(S)) \in Nat
        /\ Cardinality(Requests) \in Nat
    BY Finite
  <2> QED BY <2>2, <2>4, <2>5 DEF Within
<1> QED BY <1>6, <1>7

\* Every other step inserts no row and admits no request.
LEMMA WithinElse ==
    ASSUME IInv, TypeOK', [Next]_vars, \A q \in Requests : ~CreateCommit(q),
           \A q \in Requests, r \in Runs : ~Admit(q, r),
           NEW S, NEW cap \in Nat, Within(S, cap)
    PROVE  Within(S, cap)'
<1> DEFINE NoClaim == \A p \in Requests : req'[p].op = "create" => req'[p] = req[p]
           NoBirth == \A x \in Runs : task[x] = "absent" => task'[x] \in {"absent", "done"}
<1>0. task \in [Runs -> TaskStates] /\ req \in [Requests -> [op : Ops \cup {"idle"}, runs : SUBSET Runs]]
  BY DEF IInv, TypeOK
<1> USE <1>0 DEF taskVars, Idle
<1>1. NoClaim /\ NoBirth
  <2>1. ASSUME NEW q \in Requests, UserRead(q) PROVE NoClaim /\ NoBirth
    <3>1. ASSUME NEW op \in Ops \ {"create"}, NEW rs, Decide(q, op, rs) PROVE NoClaim /\ NoBirth
      BY <3>1 DEF Decide
    <3> QED BY <2>1, <3>1 DEF UserRead, ScenarioDeleteRead, CancelRead, PurgeRead, DeleteRead, Ops
  <2>2. ASSUME NEW q \in Requests, UserCommit(q) PROVE NoClaim /\ NoBirth
    BY <2>2 DEF UserCommit, CancelCommit, DeleteCommit, PurgeCommit, ScenarioDeleteCommit, Abort
  <2>3. ASSUME NEW r \in Runs, Executor(r) PROVE NoClaim /\ NoBirth
    <3>1. task[r] # "absent" /\ \A x \in Runs \ {r} : task'[x] = task[x]
      BY <2>3 DEF Executor, Register, LoadRow, PlanFails, Start, Check, ComputeEnds, Goto,
         AttributionEnds, Raise, CompleteFlip, FailFlip, Unregister, Started
    <3>2. req' = req
      BY <2>3 DEF Executor, Register, LoadRow, PlanFails, Start, Check, ComputeEnds,
         AttributionEnds, Raise, CompleteFlip, FailFlip, Unregister
    <3> QED BY <3>1, <3>2
  <2>4. ASSUME NEW r \in Runs,
               GrowOld(r) \/ LoseDispatch(r) \/ PhaseOneError(r) \/ FailFlipError(r)
        PROVE  NoClaim /\ NoBirth
    BY <2>4 DEF GrowOld, LoseDispatch, PhaseOneError, FailFlipError, Goto
  <2>5. CASE ReapSelect \/ ReapCommit \/ ReapError \/ Sweep \/ SweepError \/ Boot
    BY <2>5 DEF ReapSelect, ReapCommit, ReapError, Sweep, SweepSelectPurge, SweepPurge,
       SweepSelectDelete, SweepDelete, SweepError, Boot
  <2>6. CASE Crash
    BY <2>6 DEF Crash
  <2>7. CASE UNCHANGED vars
    BY <2>7 DEF vars
  <2> QED BY <2>1, <2>2, <2>3, <2>4, <2>5, <2>6, <2>7 DEF Next
<1>2. Claims(S)' \subseteq Claims(S)
  BY <1>1 DEF Claims
<1>3. \A r \in Runs : ~Contract!Inserted(r)
  <2> SUFFICES ASSUME NEW r \in Runs, Contract!Inserted(r)
               PROVE  FALSE
    OBVIOUS
  <2>1. Phase[r] = "unborn" /\ Phase'[r] = "waiting"
    BY DEF Contract!Inserted, Contract!Row, Contract!Moves
  <2>2. task[r] = "absent"
    BY <2>1 DEF Phase
  <2>3. task'[r] \in {"pending", "entered"}
    BY <2>1 DEF Phase
  <2> QED
    BY <1>1, <2>2, <2>3
<1>4. Committed' \subseteq Committed
  BY <1>3, CommittedGrows
<1> QED BY <1>2, <1>4, WithinKept

\* A row grows old only by the clock: whatever writes its status resets its age.
LEMMA AgeMoves ==
    ASSUME IInv, [Next]_vars, NEW r \in Runs
    PROVE  \/ age'[r] = 0
           \/ status'[r] = "deleted"
           \/ status'[r] = status[r] /\ age'[r] = age[r]
           \/ status'[r] = status[r] /\ (status[r] \in InFlight \/ SlowCompute \/ task[r] \notin Holding)
<1> DEFINE Aged == \/ age'[r] = 0
                   \/ status'[r] = "deleted"
                   \/ status'[r] = status[r] /\ age'[r] = age[r]
                   \/ /\ status'[r] = status[r]
                      /\ status[r] \in InFlight \/ SlowCompute \/ task[r] \notin Holding
<1>1. ASSUME UNCHANGED <<status, age>> PROVE Aged
  BY <1>1
<1>2. ASSUME NEW rs, NEW new, Flip(rs, new) PROVE Aged
  BY <1>2 DEF Flip
<1>3. ASSUME NEW rs, Deleted(rs) PROVE Aged
  BY <1>3 DEF Deleted
<1>4. ASSUME NEW q \in Requests, UserRead(q) PROVE Aged
  BY <1>1, <1>4 DEF UserRead, ScenarioDeleteRead, Admit, CancelRead, PurgeRead, DeleteRead,
     Decide, rowVars
<1>5. ASSUME NEW q \in Requests, UserCommit(q) PROVE Aged
  BY <1>1, <1>2, <1>3, <1>5 DEF UserCommit, CreateCommit, CancelCommit, DeleteCommit,
     PurgeCommit, ScenarioDeleteCommit, Abort, rowVars
<1>6. ASSUME NEW x \in Runs, Executor(x) PROVE Aged
  BY <1>1, <1>2, <1>6 DEF Executor, Register, LoadRow, PlanFails, Start, Check, ComputeEnds,
     AttributionEnds, Raise, CompleteFlip, FailFlip, Unregister, rowVars
<1>7. ASSUME NEW x \in Runs, LoseDispatch(x) \/ PhaseOneError(x) \/ FailFlipError(x) PROVE Aged
  BY <1>1, <1>7 DEF LoseDispatch, PhaseOneError, FailFlipError, rowVars
<1>8. ASSUME NEW x \in Runs, GrowOld(x) PROVE Aged
  <2>1. age \in [Runs -> Nat] /\ status' = status /\ age' = [age EXCEPT ![x] = @ + 1]
    BY <1>8 DEF GrowOld, IInv, TypeOK
  <2>2. CASE r = x
    BY <1>8, <2>1, <2>2 DEF GrowOld
  <2> QED BY <2>1, <2>2
<1>9. CASE ReapCommit \/ Boot
  BY <1>2, <1>9 DEF ReapCommit, Boot, Reaped
<1>10. CASE SweepDelete
  BY <1>3, <1>10 DEF SweepDelete
<1>11. CASE ReapSelect \/ ReapError \/ SweepError \/ Crash \/ SweepSelectPurge \/ SweepPurge
              \/ SweepSelectDelete
  BY <1>1, <1>11 DEF ReapSelect, ReapError, SweepError, Crash, SweepSelectPurge, SweepPurge,
     SweepSelectDelete, rowVars
<1>12. CASE UNCHANGED vars
  BY <1>1, <1>12 DEF vars, rowVars
<1> QED BY <1>4, <1>5, <1>6, <1>7, <1>8, <1>9, <1>10, <1>11, <1>12 DEF Next, Sweep

\* Patient deletes: a request or a sweep decides to delete settled rows only,
\* and only settled rows are deleted.
LEMMA DeletesDecided ==
    ASSUME PatientDeletes, IInv, DeletesSettled, [Next]_vars
    PROVE  /\ \A q \in Requests :
                \/ req'[q] \in {req[q], Idle}
                \/ req'[q].op \in {"create", "cancel", "purge"}
                \/ req'[q].op = "delete" /\ \A r \in req'[q].runs : r \in Runs => Settled(r)
           /\ \/ retention' = retention
              \/ retention'.phase # "delete"
              \/ \A r \in retention'.runs : r \in Runs => Settled(r)
           /\ \A r \in Runs : status'[r] = "deleted" => status[r] = "deleted" \/ Settled(r)
<1> DEFINE ReqOK == \A q \in Requests :
                       \/ req'[q] \in {req[q], Idle}
                       \/ req'[q].op \in {"create", "cancel", "purge"}
                       \/ req'[q].op = "delete" /\ \A r \in req'[q].runs : r \in Runs => Settled(r)
           RetOK == \/ retention' = retention
                    \/ retention'.phase # "delete"
                    \/ \A r \in retention'.runs : r \in Runs => Settled(r)
           DelOK == \A r \in Runs : status'[r] = "deleted" => status[r] = "deleted" \/ Settled(r)
           Goal == ReqOK /\ RetOK /\ DelOK
<1>0. /\ status \in [Runs -> Statuses]
      /\ req \in [Requests -> [op : Ops \cup {"idle"}, runs : SUBSET Runs]]
      /\ RegistryExact /\ DeletesSettled
  BY DEF IInv, TypeOK
<1> USE <1>0 DEF rowVars, sweepVars
<1>1. ASSUME UNCHANGED <<status, retention>>, ReqOK PROVE Goal
  BY <1>1
<1>2. ASSUME UNCHANGED <<req, retention>>, NEW rs, NEW new \in Statuses \ {"deleted"}, Flip(rs, new)
      PROVE  Goal
  BY <1>2 DEF Flip
<1>3. ASSUME NEW q \in Requests, UserRead(q) PROVE Goal
  <2>1. ASSUME NEW op, NEW rs, req' = [req EXCEPT ![q] = [op |-> op, runs |-> rs]],
               op \in {"create", "cancel", "purge"} \/ (op = "delete" /\ \A r \in rs : Settled(r))
        PROVE  ReqOK
    <3>1. req'[q] = [op |-> op, runs |-> rs] /\ \A p \in Requests \ {q} : req'[p] = req[p]
      BY <2>1
    <3> QED BY <2>1, <3>1
  <2>2. ASSUME NEW r \in Runs, Admit(q, r) PROVE Goal
    BY <1>1, <2>1, <2>2 DEF Admit
  <2>3. ASSUME NEW r \in Runs, CancelRead(q, r) \/ PurgeRead(q, r) PROVE Goal
    BY <1>1, <2>1, <2>3 DEF CancelRead, PurgeRead, Decide
  <2>4. ASSUME NEW r \in Runs, NEW op \in Ops, DeleteRead(q, r, op) PROVE Goal
    <3>1. op = "delete"
      BY <2>4 DEF DeleteRead, Ready, PatientDeletes
    <3>2. status[r] \in Terminal
      BY <2>4, <3>1 DEF DeleteRead, Present, Statuses, InFlight, Terminal
    <3>3. task[r] \notin Holding
      BY <2>4 DEF DeleteRead, RegistryExact, Registered
    <3>4. Settled(r)
      BY <3>2, <3>3 DEF Settled
    <3> QED BY <1>1, <2>1, <2>4, <3>1, <3>4 DEF DeleteRead, Decide
  <2>5. ~ScenarioDeleteRead(q)
    BY DEF ScenarioDeleteRead, Ready, PatientDeletes
  <2> QED BY <1>3, <2>2, <2>3, <2>4, <2>5 DEF UserRead
<1>4. ASSUME NEW q \in Requests, UserCommit(q) PROVE Goal
  <2>1. ReqOK
    BY <1>4 DEF UserCommit, CreateCommit, CancelCommit, DeleteCommit, PurgeCommit,
       ScenarioDeleteCommit, Abort
  <2>2. CASE CreateCommit(q) \/ CancelCommit(q)
    BY <2>1, <2>2 DEF CreateCommit, CancelCommit, Flip
  <2>3. CASE DeleteCommit(q)
    <3>1. \A r \in req[q].runs : Settled(r)
      BY <2>3 DEF DeleteCommit, DeletesSettled
    <3> QED BY <2>1, <2>3, <3>1 DEF DeleteCommit, Deleted
  <2>4. CASE PurgeCommit(q) \/ Abort(q)
    BY <1>1, <2>1, <2>4 DEF PurgeCommit, Abort
  <2>5. ~ScenarioDeleteCommit(q)
    BY DEF ScenarioDeleteCommit, DeletesSettled
  <2> QED BY <1>4, <2>2, <2>3, <2>4, <2>5 DEF UserCommit
<1>5. ASSUME NEW x \in Runs, Executor(x) PROVE Goal
  BY <1>1, <1>2, <1>5 DEF Executor, Register, LoadRow, PlanFails, Start, Check, ComputeEnds,
     AttributionEnds, Raise, CompleteFlip, FailFlip, Unregister, Statuses, InFlight, Terminal
<1>6. ASSUME NEW x \in Runs,
             GrowOld(x) \/ LoseDispatch(x) \/ PhaseOneError(x) \/ FailFlipError(x)
      PROVE  Goal
  BY <1>1, <1>6 DEF GrowOld, LoseDispatch, PhaseOneError, FailFlipError
<1>7. CASE ReapCommit \/ Boot
  BY <1>2, <1>7 DEF ReapCommit, Boot, Reaped, Statuses, Terminal
<1>8. CASE SweepSelectDelete
  <2>1. \A r \in Expired("delete") : Settled(r)
    <3>1. \A r \in Expired("delete") : r \in Runs /\ status[r] \in Terminal /\ age[r] > 1
      BY DEF Expired
    <3>2. age \in [Runs -> Nat]
      BY DEF IInv, TypeOK
    <3> QED BY <3>1, <3>2 DEF DeletesSettled, Settled
  <2> QED BY <1>8, <2>1 DEF SweepSelectDelete, Sweeping
<1>9. CASE SweepDelete
  <2>1. \A r \in retention.runs : Settled(r)
    BY <1>9 DEF SweepDelete, DeletesSettled
  <2> QED BY <1>9, <2>1 DEF SweepDelete, Deleted, NoSweep
<1>10. CASE ReapSelect \/ ReapError \/ SweepSelectPurge \/ SweepPurge \/ SweepError
  BY <1>10 DEF ReapSelect, ReapError, SweepSelectPurge, SweepPurge, SweepError, Sweeping, NoSweep
<1>11. CASE Crash
  BY <1>11 DEF Crash, NoSweep
<1>12. CASE UNCHANGED vars
  BY <1>1, <1>12 DEF vars
<1> QED BY <1>3, <1>4, <1>5, <1>6, <1>7, <1>8, <1>9, <1>10, <1>11, <1>12 DEF Next, Sweep

\* Rows are deleted only after their task has settled them, so a live task's
\* row is there to be counted.
LEMMA DeletesSettledStep ==
    ASSUME PatientDeletes, IInv, TypeOK', DeletesSettled, [Next]_vars
    PROVE  DeletesSettled'
<1>0. /\ status \in [Runs -> Statuses] /\ status' \in [Runs -> Statuses]
      /\ task \in [Runs -> TaskStates] /\ age \in [Runs -> Nat]
      /\ \A q \in Requests : req[q].runs \subseteq Runs /\ req'[q].runs \subseteq Runs
      /\ retention.runs \subseteq Runs /\ retention'.runs \subseteq Runs
  BY DEF IInv, TypeOK
<1> USE <1>0
<1>1. \A r \in Runs : Settled(r) => Settled(r)'
  BY SettledStays
<1>2. ASSUME NEW r \in Runs, status'[r] \in Terminal, age'[r] > 0 PROVE task'[r] \notin Holding
  <2>1. status'[r] = status[r]
    BY <1>2, AgeMoves DEF Terminal
  <2>2. task[r] \notin Holding
    BY <1>2, <2>1, AgeMoves DEF DeletesSettled, PatientDeletes, Terminal, InFlight
  <2> QED BY <1>1, <1>2, <2>1, <2>2 DEF Settled
<1>3. ASSUME NEW r \in Runs, task'[r] \in Holding PROVE Present(r)'
  <2>1. Contract!RowMoves(r)
    BY EveryRowMoves
  <2>2. Phase'[r] \in {"loaded", "owned"}
    BY <1>3 DEF Holding, Started, Phase
  <2>3. Phase[r] \in {"loaded", "owned"} => status[r] \notin {"absent", "deleted"}
    BY DEF DeletesSettled, Present, Holding, Started, Phase
  <2>4. status'[r] # "deleted"
    <3>1. CASE Settled(r)
      BY <1>1, <1>3, <3>1 DEF Settled
    <3>2. CASE status[r] = "deleted"
      BY <2>1, <2>2, <2>3, <3>2 DEF Contract!RowMoves, Contract!Moves, Contract!Row,
         Contract!Inserted, Contract!Read, Contract!Started, Contract!Decided, Contract!Lost,
         Contract!Orphaned, Contract!Cancelled, Contract!Removed, Contract!Live
    <3> QED BY <3>1, <3>2, DeletesDecided
  <2> QED BY <2>1, <2>2, <2>3, <2>4 DEF Present, Contract!RowMoves, Contract!Moves, Contract!Row,
         Contract!Inserted, Contract!Read, Contract!Started, Contract!Decided, Contract!Lost,
         Contract!Orphaned, Contract!Cancelled, Contract!Removed, Contract!Live
<1>4. ASSUME NEW q \in Requests
      PROVE  /\ req'[q].op \notin {"force_delete", "delete_scenario"}
             /\ req'[q].op = "delete" => \A r \in req'[q].runs : Settled(r)'
  BY <1>1, DeletesDecided DEF DeletesSettled, Idle
<1>5. retention'.phase = "delete" => \A r \in retention'.runs : Settled(r)'
  BY <1>1, DeletesDecided DEF DeletesSettled
<1> QED BY <1>2, <1>3, <1>4, <1>5 DEF DeletesSettled

\* The committed runs are among the counted ones: what the admission query of
\* create_and_dispatch bounds is all there is.
LEMMA CommittedCounted ==
    ASSUME IInv, DeletesSettled PROVE Committed \subseteq Counted
BY DEF IInv, RegistryExact, DeletesSettled, Committed, Counted, Present, Registered, InFlight

\* The bound on committed runs and claims is kept by every step: admission
\* checks it, an insert trades a claim for a run, all else only lets go.
LEMMA WithinStep ==
    ASSUME CapInv, TypeOK', [Next]_vars
    PROVE  Within(HighRuns, MaxHigh)' /\ Within(BackgroundRuns, MaxStandard)'
<1>0. /\ MaxHigh \in Nat /\ MaxStandard \in Nat /\ BackgroundRuns \cap HighRuns = {}
      /\ IInv /\ Within(HighRuns, MaxHigh) /\ Within(BackgroundRuns, MaxStandard)
  BY LifecycleAssumption DEF CapInv
<1> USE <1>0
<1>1. ASSUME NEW q \in Requests, NEW r \in Runs, Admit(q, r)
      PROVE  Within(HighRuns, MaxHigh)' /\ Within(BackgroundRuns, MaxStandard)'
  <2>1. IsFiniteSet(Counted)
    BY LifecycleAssumption, FS_Subset DEF Counted
  <2>2. Committed \subseteq Counted
    BY CommittedCounted DEF CapInv
  <2>3. r \in HighRuns => Cardinality(Committed \cap HighRuns) < MaxHigh
    <3>1. /\ IsFiniteSet(Counted \cap HighRuns)
          /\ Committed \cap HighRuns \in SUBSET (Counted \cap HighRuns)
      BY <2>1, <2>2, FS_Subset, Counted \cap HighRuns \in SUBSET Counted
    <3>2. /\ Cardinality(Committed \cap HighRuns) <= Cardinality(Counted \cap HighRuns)
          /\ Cardinality(Committed \cap HighRuns) \in Nat
          /\ Cardinality(Counted \cap HighRuns) \in Nat
      BY <3>1, FS_Subset, FS_CardinalityType
    <3> QED BY <1>1, <3>2 DEF Admit, HasCapacity
  <2>4. r \in BackgroundRuns => Cardinality(Committed \cap BackgroundRuns) < MaxStandard
    <3>1. /\ IsFiniteSet(Counted \ HighRuns)
          /\ Committed \cap BackgroundRuns \in SUBSET (Counted \ HighRuns)
      BY <2>1, <2>2, FS_Subset, Counted \ HighRuns \in SUBSET Counted
    <3>2. /\ Cardinality(Committed \cap BackgroundRuns) <= Cardinality(Counted \ HighRuns)
          /\ Cardinality(Committed \cap BackgroundRuns) \in Nat
          /\ Cardinality(Counted \ HighRuns) \in Nat
      BY <3>1, FS_Subset, FS_CardinalityType
    <3> QED BY <1>1, <3>2 DEF Admit, HasCapacity
  <2> QED BY <1>1, <2>3, <2>4, WithinAdmit
<1>2. ASSUME NEW q \in Requests, CreateCommit(q)
      PROVE  Within(HighRuns, MaxHigh)' /\ Within(BackgroundRuns, MaxStandard)'
  BY <1>2, WithinCreate
<1> QED BY <1>1, <1>2, WithinElse

\* The memory caps: with patient deletes the runs that hold arrays or will are
\* fewer than the cap plus the number of requests in progress, a cancelled run
\* that still computes included; with one request the caps are exact.
THEOREM CapsHold == ASSUME PatientDeletes PROVE Spec => []CapBound
<1>1. Init => CapInv
  <2> SUFFICES ASSUME Init PROVE CapInv
    OBVIOUS
  <2>1. IInv
    BY InitIInv
  <2>2. DeletesSettled
    BY DEF Init, DeletesSettled, Idle, NoSweep, Holding, Started, Terminal
  <2>3. Committed = {} /\ \A S : Claims(S) = {}
    BY DEF Init, Committed, Claims, Holding, Started, InFlight, Idle
  <2>4. Cardinality(Requests) \in Nat \ {0} /\ MaxHigh \in Nat /\ MaxStandard \in Nat
    BY LifecycleAssumption, FS_EmptySet, FS_CardinalityType
  <2>5. Cardinality({}) = 0
    BY FS_EmptySet
  <2>6. \A S : Cardinality(Committed \cap S) = 0 /\ Cardinality(Claims(S)) = 0
    BY <2>3, <2>5, \A S : {} \cap S = {}
  <2> QED BY <2>1, <2>2, <2>4, <2>6 DEF CapInv, Within
<1>2. CapInv /\ IInv' /\ [Next]_vars => CapInv'
  <2> SUFFICES ASSUME CapInv, IInv', [Next]_vars PROVE CapInv'
    OBVIOUS
  <2>1. TypeOK'
    BY DEF IInv
  <2>2. DeletesSettled'
    BY <2>1, DeletesSettledStep DEF CapInv
  <2> QED BY <2>1, <2>2, WithinStep DEF CapInv
<1>3. CapInv => CapBound
  <2>1. \A S : Cardinality(Committed \cap S) \in Nat /\ Cardinality(Claims(S)) \in Nat
    BY Finite
  <2>2. MaxHigh \in Nat /\ MaxStandard \in Nat /\ Cardinality(Requests) \in Nat
    BY LifecycleAssumption, Finite
  <2> QED BY <2>1, <2>2 DEF CapInv, Within, CapBound
<1> QED BY <1>1, <1>2, <1>3, Invariance, PTL DEF Spec
=============================================================================
