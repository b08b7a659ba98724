# Idraa in TLA+

Idraa is a web application for quantitative cyber-risk analysis: FastAPI and
SQLAlchemy over SQLite in WAL mode, one server process, one event loop. Users
keep scenarios and controls, start Monte-Carlo runs of them, and read reports.
This directory holds TLA+ models of the parts whose correctness depends on who
moves when, TLC configurations that check them, and proofs of their main
properties for every value of the constants. Paths below are relative to the
repository root.

## The system and its hard parts

| Component | State it keeps | Operations | What must be right |
|---|---|---|---|
| Run service (`src/idraa/services/runs.py`) | rows of `risk_analysis_runs`, `run_samples` | dispatch, cancel, delete, purge | caps on concurrent work; a request never undoes a verdict |
| Run executor (`services/run_executor.py`) | one task per run, results in memory | load, start, compute, attribute, complete, fail | one verdict per run, written with its results, arrays and audit rows or not at all |
| Registry and reaper (`services/run_reaper.py`) | `_ACTIVE_RUNS`, in memory | register, unregister, periodic and boot sweep | an orphan is failed in the end, a live run never |
| Retention (`services/retention.py`) | `system_state` claim | purge samples, delete old rows | only settled rows; one sweep per interval |
| Audit log (`services/audit.py`) | `audit_log` | append in the caller's transaction | every change has its row, no row without its change |
| Scenario service, loss pinning (`services/scenarios.py`, `loss_pinning.py`) | `scenarios.row_version` | create, edit, confirm, promote, pin, delete | no lost update; no run deleted while it computes |
| Wizard (`services/wizard_state.py`, `wizard_finalize.py`) | `wizard_drafts.version_token` | step, finalize, clear, TTL sweep | one draft becomes one scenario |
| Controls and re-sync (`services/controls.py`, `control_resync.py`, `control_library.py`) | controls, assignments, `is_stale` | edit, re-sync, org-wide flag | a result of outdated controls is flagged |
| Users (`services/users.py`, `routes/users.py`) | roles, active flags | invite, edit, toggle, delete | an active admin always remains |
| Sign-in (`services/auth.py`, `second_factor.py`, `webauthn_challenge.py`, `login_throttle.py`) | counters, claims, sessions | login, verify, step-up, sweeps | each claim is used once, each failure counts |
| Compute resources (`run_executor.py`, `db.py`) | attribution lock, connection pool, caches | acquire, release, evict | nobody waits while holding what others need |
| Staged import (`services/register_import.py`, `scenario_import.py`, `overlays_importer.py`, `qualitative_converter.py`) | `csv_import_preview` rows, imported scenarios with their provenance | upload, map, bind, apply a profile, confirm, TTL sweep | a file is imported once; what was converted says from what |
| Overlays and bands (`services/overlays.py`, `qualitative_bands.py`) | overlay rows, their revisions, band rows | create, edit, deactivate, delete | the history of a row is complete |
| Engine (`fair_cam/`) | none | pure numeric functions | not a concurrency question |
| Reports, exports, templates, middleware, migrations | none of their own | rendering, wiring | not modelled |

Components meet in the database and, for runs, in the registry. What makes them
hard is the same everywhere: a handler selects, decides in Python, awaits, and
writes later. On SQLite a SELECT takes no lock and `FOR UPDATE` is ignored, so
between the decision and the write any other handler may commit. Some writes
re-validate what was read in their WHERE clause; some are ORM writes by primary
key and do not. The models keep that difference and nothing else about SQL.

A handler is therefore modelled as one step for what it reads and decides, and
one later step for everything from its first write to its commit (the first
write takes SQLite's only write lock, so that part is atomic). Where an
exception rolls the transaction back, there is a step that writes nothing.

## Modules

`RunLifecycle.tla` is the core: dispatcher, executor task, cancel, delete,
purge, scenario delete with cascade, reaper, retention sweep, crash and restart.

| Variable | Code |
|---|---|
| `status`, `results`, `samples` | the row's `status`, `simulation_results is not NULL`, the existence of its `run_samples` row |
| `age` | how far `COALESCE(started_at / completed_at, created_at)` lies back: 0 fresh, 1 past the orphan or the purge threshold, 2 past the longer retention window |
| `scenario` | the scenario that the `Siblings` reference with a RESTRICT key |
| `audit` | committed `audit_log` rows by run and action |
| `task` | where `execute_run` stands: `pending` (queued with the response), `entered` (registered), `loaded` (has read QUEUED), `started` ... `flipping`, `raised` (in the except branch), `exiting` (before the finally), `done` |
| `degraded` | tasks with rows in `_terminal_audit_rows` |
| `registry` | `_ACTIVE_RUNS` |
| `req` | per request, the operation and the rows it has decided to write |
| `reaper`, `retention` | candidates between the sweep's SELECT and its writes |
| `up`, `faults` | whether the process runs; how often the infrastructure has failed |

| Action | Code |
|---|---|
| `Admit`, `CreateCommit`, `LoseDispatch` | `create_and_dispatch`: capacity query; INSERT, audit, commit, hand-over; a background task lost with its response |
| `Register`, `LoadRow`, `PlanFails`, `Start`, `PhaseOneError`, `Unregister` | `execute_run` and phase 1 of its body |
| `Check`, `ComputeEnds`, `AttributionEnds`, `Raise` | the try block up to the terminal transaction |
| `CompleteFlip`, `FailFlip`, `FailFlipError` | the guarded terminal transactions and their own failure |
| `CancelRead/Commit`, `DeleteRead/Commit`, `PurgeRead/Commit`, `ScenarioDeleteRead/Commit`, `Abort` | the users' requests |
| `ReapSelect`, `ReapCommit`, `ReapError` | `reap_orphaned_runs` from the periodic loop |
| `SweepSelectPurge`, `SweepPurge`, `SweepSelectDelete`, `SweepDelete`, `SweepError` | the two phases of `sweep_retention` |
| `Crash`, `Boot`, `GrowOld` | SIGKILL, `_lifespan`, the clock |

Two writes are unguarded in the code and in the model: phase 1's RUNNING (or
plan-failure) write and the user's cancel. All the others carry the status they
saw. `Matched`, `Reapable` and `Existing` name the three kinds of WHERE clause.

`RunContract.tla` is the abstract specification: per row, who may write the
verdict, and which moves exist. `RunLifecycle!Contract` instantiates it with the
task's position read as that right, and `KeepsContract` is the claim.

`MCRunLifecycle.tla` holds what TLC needs: symmetry sets and a view that leaves
out the audit log where no property reads it.

`RunLifecycleProofs.tla` holds the proofs.

Abstractions of `RunLifecycle` worth knowing. Iterations and scenario counts appear only as the
class of a run: high-fidelity, standard in the background, standard inline. The
batch limits of the sweeps are ignored (a smaller batch is a sweep that selects
less, and the next one continues). The registry snapshot and the SELECT of the
reaper are one step: a row cannot age past 300 seconds between the two. The
stale-control path of aggregate runs commits an audit row of its own and then
raises; it is `Raise`. Retention sweeps one at a time: the once-per-interval
claim is one conditional UPDATE of one row and is what this assumes; a sweep that
is skipped or repeated harms nothing. `SlowCompute` says whether a computation may
outlast a retention window of at least a day.

`AdminRoster.tla` is the second component: the users of the organization and the
admin requests that change them, on SQLite and on Postgres, which the code names
as its migration target and writes its lock for.

| Variable | Code |
|---|---|
| `row` | the committed `users` row: `role` and `is_active`, or not invited yet, or deleted |
| `disarms` | audit rows `update` that take an active admin's access away, per user |
| `pc`, `plan` | how far a request is; its actor, its target, the target as loaded, the row the form asks for |
| `want`, `lock` | what `SELECT ... FOR UPDATE` found; who holds each row (Postgres) |
| `backend` | the database, fixed in the initial state |

| Action | Code |
|---|---|
| `Authorize` | the session middleware's load of the actor and `require_role` |
| `Invite` | `invite_post` and `invite_user` |
| `ReadTarget` | the first part of `edit_post`, `set_active_post` and `delete_user`: load, self guard, choice of the write |
| `CheckCount` | the count of active admins, a statement of its own |
| `SelectAdmins`, `TakeLocks` | `_lock_active_admin_rows`: the statement starts; it has its locks |
| `EvaluateGuard`, `WriteGuarded` | the conditional UPDATE or DELETE: it evaluates its WHERE; it reaches its row |
| `WritePlain` | the ORM's UPDATE or DELETE by primary key |
| `Commit`, `GiveUp` | commit with the audit row; refusal or rollback |

The toggle of the users list is an edit that keeps the role, with the same guards
and the same write, so the two share `ReadTarget`. On SQLite a write statement
takes the one write lock until its commit and `FOR UPDATE` does nothing. On
Postgres (READ COMMITTED) a statement evaluates its WHERE on what is committed
when it starts; if it must wait for a row it tests that row again, not the
subquery. That is why one conditional write is two steps here. Left out: session
rows (whoever is active can sign in, so they decide nothing in this module), the
factor reset and the unlock (they change no role or flag), and on Postgres the
share locks that the audit rows' foreign keys take on the actor's row.

`RosterContract.tla` is what the guarded requests promise together: the roster as
one value per user (not invited, active admin, other, deleted), in which taking an
active admin's access is one step that needs another active admin.
`AdminRoster!Roster` instantiates it, `KeepsRoster` is the claim.

`MCAdminRoster.tla` adds the symmetry sets, `AdminRosterProofs.tla` the proofs.
Each module below has an `MC` module and a `Proofs` module.

`ScenarioAuthoring.tla` is the writing of scenarios: the requests on a scenario's
row, guarded by `row_version`, and the wizard, guarded by `version_token`. They
are one module because finalize writes both. Again on SQLite and on Postgres.

| Variable | Code |
|---|---|
| `row`, `minted` | `scenarios` rows (status, framing, review flag, loss, pin, `row_version` as `ver`); ids given out |
| `draft` | `wizard_drafts` rows: token, content, the scenario and version they re-estimate |
| `edits`, `saved` | contents written to drafts; those made into a scenario |
| `blind` | the first operation that committed over a commit it had not seen |
| `pc`, `job` | how far a request is; its page and the copy it has read |

| Action | Code |
|---|---|
| `OpenPage`, `ReadForEdit`, `CommitEdit` | the edit page, `update_scenario` up to its await, the rest of it with `ScenarioService.update` |
| `PostDelete`, `PostPin`, `PostUnpin`, `PostRefresh`, `PostFraming`, `PostCommunity`, `PostPromote`, `CommitLocked` | the handlers that lock at their first read; their write |
| `CreateScenario`, `StartDraft` | `create`; the wizard's first page, also for a re-estimate |
| `LoadStep`, `SelectAgain`, `WriteStep` | a step POST: `load`, the second SELECT in `advance_step`, its blind write |
| `CancelDraft`, `SweepDraft` | `clear`, the TTL sweep |
| `OpenReview`, `LoadDraft`, `Claim`, `Save`, `Reject` | `finalize_wizard`: review page, locked load, CAS, save with the draft's deletion, a 4xx with its rollback |

`SignIn.tla` is one account: password, code and passkey logins, step-up, the
account lock, the per-source throttle, and sessions. Which codes are right is
`SecondFactor`'s subject. A miss is counted by `SET n = n + 1`; a reset is an ORM
write of the columns that differ from the copy the request has read
(`KeepThrottle`, `ResetThrottle`), which is what makes the lock worth a proof.

| Variable | Code |
|---|---|
| `account` | `failed_login_count`, `locked_until` |
| `strong`, `active` | has a second factor; `is_active` |
| `session`, `pending` | `sessions` rows with a fresh or a stale `reauthenticated_at`; the `rf_mfa_pending` cookie |
| `source` | the `login_attempt` row of the requests' address |
| `owed`, `early` | misses since the last full authentication; requests older than the running lock |
| `overtaken` | password sign-ins that found no factor before one was enrolled |

Actions: `OpenLogin`, `MissUnknown`, `WrongPassword`, `DenyLocked`, `AskFactor`,
`FindNoFactor`, `SignInByPassword` (`login_post`); `OpenCode`, `WrongCode`, `SignInByCode`
(`login_mfa_post`); `WrongPasskey`, `SignInByPasskey` (`login_passkey_verify`);
`OpenStepUp`, `OpenPasskeyStepUp`, `WrongStepUp`, `StepUp` (`routes/step_up.py`); `EndSession`, `Deactivate`,
`Activate`, `ResetFactors`, `Enrol`, `OpenUnlock`, `Unlock`; `SweepSource`,
`GrowStale`, `PendingExpires`, `Tick`. That no factor is due is found before further
awaits and not asked again (`FindNoFactor`, `SignInByPassword`).

`SecondFactor.tla` is what is good for one use - a TOTP step, a recovery code, a
WebAuthn challenge - and the enrolment it belongs to.

| Variable | Code |
|---|---|
| `totp`, `code`, `passkey`, `enrolled` | `user_totp` (secret, `last_used_step`), `mfa_recovery_codes`, `webauthn_credentials`, `mfa_enrolled_at` |
| `minted`, `claim`, `audits` | challenge cookies, `webauthn_challenge_consumed`, the replay audit rows |
| `accepted`, `reused`, `replayed` | proofs whose claim was won once, again, refused |
| `stale`, `overtaken` | whether an enrolment request committed on a copy that another had changed |

Actions: a request matches (`OpenTotp`, `OpenRecovery`, `OpenAssertion`,
`OpenRegistration`) and claims later (`ClaimTotp`, `ClaimRecovery`,
`AcceptAssertion`, `RegisterPasskey`, `RefuseReplay`); `SweepClaim`; and
`EnrolTotp`, `GenerateCodes`, `DeletePasskey`, `ResetFactors` read and write the
enrolment. The TOTP claim is addressed by user and guarded by the step; the code
claim by row and `used_at IS NULL`; the challenge claim is an INSERT on a key.

`ChallengeContract.tla` is what the ceremonies promise of one challenge: minted,
then accepted by one of them, and only then refused as a replay, the first time with
an audit row. It knows no claim row, no retention and no requests. `Standing` maps the
state of `SecondFactor` to it - a challenge accepted again would have the standing
"twice", which no step of the contract reaches - and `KeepsChallenges` is the claim.

Passkeys may have been registered before; without codes they do not enrol.

`OrgWideControls.tla` is the controls that every scenario inherits, their derived
row, the library entry they were adopted from, and the runs that use them.

| Variable | Code |
|---|---|
| `control` | status, stage, `org_wide_meta`, the pinned version, assignment rows and the derived row by id |
| `entry` | the version of the library entry |
| `run` | frozen control ids, what was loaded for them, `is_stale` |
| `job`, `overtaken` | the copy each request decides on; whether it is outdated |
| `excused`, `torn`, `refused` | runs in flight at a change; controls written by an overtaken save; constraint violations of saves nobody overtook |

Actions: `Create`, `Adopt`, `Open`, `SaveEdit` (`ControlService.update` with its
merge by sub-function, the order of the flushes and the sweep), `Delete`,
`Resync`, `Curate`; `Freeze`, `Load`, `Complete` of a run. A row's three numbers
are one value. `RowIds` are primary keys; a new row gets any that is free, since a
fresh uuid may sort before or after the ones that are there.

`ComputeResources.tla` is what the handlers of one worker share: pooled
connections, the default executor's threads, the attribution slot, the finalize
semaphore and the samples-export guard. What a handler computes is left out; its
program is the sequence of what it takes and gives back, translated from the
awaits of the code (`SingleRun`, `AggregateRun`, `InlineRun`, `Report`,
`Finalize`, `Readout`, `Export`). Any statement or computation may raise; `Unwind`
is what `async with`, `finally` and the session's teardown then give back. Both
orders of teardown and streaming are modelled: the comment at
`src/idraa/routes/runs.py:483` and the framework's present behaviour differ.
The permit of an export has two owners, one after the other: until the response
body is built it is the handler, whose `except` releases (`ReleaseUnbuilt`); from
then on it is the body, of which `hooks` counts the callbacks that may still
release (generator's `finally`, background task, finalizer). The finalizer runs
whatever else happens, but not while the request still uses the body: `Hook` waits
for the stream.

`StagedImport.tla` is the three imports that stage a file under a token and apply
it with a second request, and the other writers of what they read.

| Variable | Code |
|---|---|
| `preview` | `csv_import_preview` rows: the file, and how far a register's `state_json` has come |
| `scenarios` | scenarios by name, with the register row and the band version in `conversion_metadata` |
| `band`, `views` | the last `qualitative_mapping_org_bands` row of one label; the versions that were effective |
| `overlays`, `revisions` | `overlay_definitions` per tag, `overlay_definition_revisions` |
| `pc`, `job` | how far a request is; what it has read |
| `clock`, `confirms` | commits; when each confirmation read its preview and when it ended |

| Action | Code |
|---|---|
| `Upload`, `SetColumnMap`, `SetValueBindings`, `ApplyProfile` | the staging posts of `RegisterImportService`; an upload of the other kinds is complete at once |
| `Expire` | `sweep_expired_previews`, and the read paths that delete what has expired |
| `StartConvert`, `MappingVersions`, `ClassifyRows`, `LoadValues`, `Convert` | `build_bound_rows`, then `convert`: the versions, the classification and the values, each with its own read of the bands, and the commit |
| `StartScenarioImport`, `CheckNames`, `ApplyScenarios` | `scenario_import.py`: the preview, the names, the commit |
| `StartOverlayImport`, `CheckTags`, `ApplyOverlays` | `overlays_importer.py`: the preview, the overlays of the tags, the commit |
| `HardStop` | both: a file that is not of the format creates nothing and ends its token |
| `CreateOverlay`, `EditOverlay`, `SaveOverlay`, `DeactivateOverlay` | `OverlayService` with the form's version check |
| `CreateOrgBand`, `LoadOrgBand`, `UpdateOrgBand`, `DeleteOrgBand` | `qualitative_bands.py` |
| `Fail` | anything that ends a request without a commit |

A file has a `flow`, the page it was uploaded to, and a `form`, whose columns its
header has. Only the register's posts ask for the flow (`get_staged`); the other two
confirmations take any token that has not expired, and what keeps a register out of
the overlays, or overlays out of the scenarios, is the header (`ScenarioFile`,
`OverlayFile`). A register that happens to have the columns of a scenario file can be
confirmed as one. The overlay importer ignores further columns, the scenario importer
refuses them, so no file is both.

No request here holds a row lock between its reads and its writes. A confirmation
ends by deleting its preview row, and a DELETE that finds none only warns, so two
confirmations that overlap both commit; the properties say what survives that.
The label in the model is one that only the organisation defines: a canonical
band is always effective, so its deletion is never met.

## Runs

| Run | Configuration | Shows |
|---|---|---|
| `one_row` | `RunOneRow.cfg` | one row, two requests of every kind, both retention phases, two faults, fairness: results, samples, audit rows and status agree, the row moves as the contract allows, the reaper spares live runs, and a row in flight settles |
| `caps_overshoot` | `RunCapsOvershoot.cfg` | three background runs, two simultaneous requests: the accepted race costs one run per other request, no more |
| `authoring` | `Authoring.cfg` | one scenario, one draft, two requests of any kind, both databases: versions count commits, only the edit form overwrites the unseen, a draft is saved once, promotions stand |
| `sign_in` | `SignIn.cfg` | one account, one session, two requests: the limit of misses leaves a lock, a running lock is extended by older requests only, a revoked session is gone |
| `second_factor` | `SecondFactor.cfg` | two requests, one passkey, one challenge, two batches: each proof is accepted once, each challenge moves as `ChallengeContract` allows, the stamp and the codes follow the factors |
| `org_wide` | `OrgWide.cfg` | one control, two requests, an entry of three versions, one run: unflagged completed runs are fresh, the flag keeps an inheritable row, frozen runs build, no lone save is refused |
| `resources` | `Resources.cfg` | three processes, two connections, one thread: runs and reports never starve the pool, one process at a time attributes, fits or holds a decoded export, and everyone ends with empty hands |
| `roster_disarms` | `RosterDisarms.cfg` | three users, two overlapping requests, both databases, every initial roster with an active admin: the roster changes as if every disarm were one step under the cover of another admin, guarded writes take turns |
| `staged_import` | `StagedImport.cfg` | four files, one of them a register with the columns of a scenario file, two tokens, two requests, one overlay, one band: a confirmation repeats nothing it could have seen, a consumed token is dead for whoever reads it after, recorded band versions are of the conversion's time, overlay histories are whole |
| `late_cancel` | `RunLateCancel.cfg` | violated: a cancel overwrites COMPLETED, leaving results on a CANCELLED row |
| `scenario_delete` | `RunScenarioDelete.cfg` | violated: deleting a scenario with its cancelled, still computing run frees its cap slot |
| `roster_stale_edit` | `RosterStaleEdit.cfg` | violated: a target read without admin access is promoted, its promoter disarmed, and the stale unguarded write removes the last admin |

The violations are disagreements between the code and what its comments say;
PROJECT.json quotes them.

Divergences that the modules state and no run repeats, each seen in a
counterexample: phase 1 overwrites a cancel and the run completes
(`CancelledIsFinal`, `run_executor.py:2295`); a forced delete removes the row of
a live task (`LiveRunNotDeleted`, `runs.py:515`); two overlapping purges of one
run write two audit rows (`PurgeAuditsAChange`, `runs.py:556`); finalize saves
what a step POST wrote after the review page was shown, when the token agrees
(`SavesWhatWasReviewed`, `wizard_state.py:288`); the edit form of a scenario
(`routes/scenarios.py:1199`) loads the row without a lock and awaits before it
compares versions, so it overwrites a commit it has not shown although the row's
docstring calls the version the primary concurrency primitive
(`OnlyEditsOverwrite` is what holds: no other form does, given row locks).

Divergences of the imports, each reached by TLC and left room for by the
properties: a token of one flow can be confirmed at the route of another, although
`register_import.py:358` says that a scenario token is rejected there "just as a
register-import token would be rejected by `services/scenario_import.py`" - that and
the overlays' importer fetch the preview by id and check its organization and expiry
only (`scenario_import.py:748`, `overlays_importer.py:564`); `FlowsApart` states the
docstring's claim and fails, and what holds is that a file of the wrong form creates
nothing (`TypeOK`) while its token is spent; two overlapping confirmations of one token, or of two uploads of one
file, both create their rows, while `register_import.py:769` calls the token
single-use ("a re-POST of `convert` on the same token 409s") and
`overlays_importer.py:719` says that it must not replay once consumed - this
holds for a confirmation that begins later (`TokenSpent`); the band version kept
with a converted scenario may be older than the values it was given, as the
bands are read three times (`ProvenanceInTime` bounds it to the conversion's own
own
time); and the values values are not sure to agree with the classification, as
`qualitative_converter.py:503` has it: a band deleted between the two makes
`convert` raise, and the whole batch is rolled back.

Others that the properties leave room for, because the code does too: two
enrolment requests that overlap decide on copies of `mfa_enrolled_at` and may
leave the stamp without a factor, and two overlapping regenerations leave two
batches of codes (`stale`); two overlapping saves of a control may leave the
org-wide flag without an inheritable row, which fails every run of the
organization until it is corrected, and may miss a staleness sweep (`torn`,
`excused`); a run in flight at a change of its controls completes unflagged
(`excused`); a login in flight may mint a session after all sessions were
revoked; a sign-in by password that has found no second factor
(`routes/auth.py:232`) resets the count and mints its session
(`routes/auth.py:249`) after one has been enrolled meanwhile (`overtaken`); step-4 pages that hold every connection while they queue for the
finalize semaphore, and a finalize that waits for a connection, wait for each
other until the pool's 30 seconds end (`PoolServes` names this as the only case,
`EveryoneEnds` shows that they get out of it).

### Bounds

The run subsystem: one row suffices for the per-row properties, as no handler relates two
rows except the caps, the cascade and the batch commits, and the theorems cover
any number. Two requests give every race of two requests with the executor and
the sweeps; three concurrent requests on one row add no new kind of write. Two
faults let a recovery fail once. `MaxFaults` bounds only failures of the
infrastructure, so that liveness is not refuted by a machine that fails for ever.

The roster needs two requests for a race of two disarms and a third user to be
invited, or to be the cover, in between. `Gains`
is FALSE in `roster_disarms`: requests there only take access away (and invite),
which is the case the guard is written for and `RosterContract` describes. `roster_stale_edit` sets it TRUE and
shows what the guard leaves open. `LogCap` bounds the count of audit
rows; the property allows one, the bound is two.

Authoring: `MaxRev` = 3 commits on the row and `MaxEdits` = 3 draft contents let
one request commit between another's page, read and write, and once more after.
Initially the scenario is absent or one of the two rows of `MCFound`. Sign-in: a
limit of two misses, a lock of three ticks and a latency of one keep the code's
order (the lock lasts longer than two requests; 900 s against seconds);
`MaxClock` lets a lock expire. `MaxMisses` = 3 is one past the limit. Second
factor: a step of two ticks, a cookie life, slack and latency of one, a clock of
three: long enough for a claim to be swept while a slow request holds its cookie.
Org-wide: `MaxWrites` = 3 changes, two values per row, four ids, so that a new row
may sort before or after an old one. Resources: two connections and one thread
are fewer than three processes, so each can be exhausted; the real 15
connections change only how many pages it takes. Import: two tokens and two
requests give a file that is uploaded twice and a token that is confirmed twice;
`MaxCommits` = 2 lets a second confirmation follow or overlap a first;
`MaxVersions` = 2 is one edit of a seeded overlay; `MaxViews` = 2 is one change of
the band, and a conversion is disturbed by the first already. The files repeat a
name, share names with each other, and move a name to another row. `Bounded` leaves
out behaviours that both change the band and edit or deactivate an overlay: no
request reads both, and each is there with all the imports.

Deadlock checking is on for the roster, whose users always come back, and says no
more than that: any request may give up, so requests that wait for each other are no
deadlock there. In the code they can be: the lock's SELECT names no order
(`users.py:155`), so two that lock the same rows crosswise wait until Postgres fails
one of them, which the model has as `GiveUp`. Elsewhere the check is off, since a
system whose bounded counters are used up, or whose users have left, may stop; what
must not stop is stated as liveness (`Settles`, `EveryoneEnds`).

### Fairness

`RunLifecycle!FairSpec`: the event loop runs every ready task and the worker
threads return (WF of `Executor(r)`), time passes (WF of `GrowOld` for rows in
flight), the reaper loop is on, which is the default (`run_reaper_interval_seconds`
is 300; 0 disables it), and the process is restarted by its supervisor. Users
and the retention sweep owe nothing. `ComputeResources!Spec`: WF of each process's
`Step`: the loop serves whoever is ready, threads end, and the pool's clock runs;
raising and arriving are not fair. No strong fairness is assumed anywhere: the
slot and the semaphore are FIFO (`asyncio.Lock`, `asyncio.Semaphore`).

## Proofs

Every theorem is about `Spec` with arbitrary constants, from the named
assumption of its module alone, unless it says otherwise.

Runs (`RunLifecycleProofs`;
`LifecycleAssumption`: finite sets, positive caps, as `config.py` enforces):

- `TypeCorrect`: `TypeOK` is inductive by itself.
- `Invariance`: `IInv` is inductive. `ResultsIntegrity` alone is not: that a
  COMPLETED flip finds no results yet needs to know that the row's one task has
  not finished before (`TaskOwnsRow`), which needs that run ids are inserted
  once (`FreshIds`). That the reaper spares live runs needs that the registry is
  exactly the live tasks (`RegistryExact`) and that a candidate seen RUNNING has
  lost its task (`OrphansOnly`).
- `ResultsAreWhole`, `LiveRunsAreSpared`, `TerminalRowsStand`: consequences of
  `IInv` for states and steps.
- `ImplementsContract`: `Spec` implies `KeepsContract`, one case per action.
- `StatusesAnnounced`: over `IInv`, the invariant `AllAnnounced`: a task starts
  its row once and gives one verdict as it ends, with the rows it kept.
- `CapsHold`: under `PatientDeletes` - no forced
  delete, no scenario delete, no computation longer than a retention window -
  the committed runs of each class and the admitted requests together stay
  below cap + requests. The argument adds to `IInv` that deletes hit settled
  rows only, so a live task's row is there to be counted. `scenario_delete`
  shows that the hypothesis is needed.

Roster (`AdminRosterProofs`, `RosterAssumption`):

- `TypeCorrect` needs `WriteInv`: a commit changes attributes of a row that still
  exists only because it holds the row's lock (Postgres) or the write lock
  (SQLite).
- `AnAdminRemains`, `DisarmsTakeTurns`, `EachDisarmOnce` and `ImplementsRoster`
  assume `Gains = FALSE` and follow from `RosterInv`. The guard's subquery does not see uncommitted
  writes, so that its answer still holds at the commit rests on the locks:
  `Held` says a request past its locks holds every admin it found who still is
  one; `Ordered` says that of two disarms, the one that selected later found the
  target of the earlier. So both had to lock that row and `Exclusion` follows,
  even when admins are invited between the two selections. `NoRise` says that
  what was read of a target bounds what it has: with promotions this fails, and
  so do the theorems.
- `ImplementsRoster`: each step of a request is a step of `RosterContract` or a
  stutter. Only an invitation and a commit write a row, and one row (`OneRow`);
  that the cover found by the WHERE is still there at the commit is `Covered`, and
  that a row once deleted is never written back by an UPDATE is `WriteInv`.

Authoring (`ScenarioAuthoringProofs`): `SavedContentGone` from `RevsApart`
(contents in drafts are distinct from each other and from the saved ones, and a
finalize past its CAS holds the draft it will delete). `VersionsCount` from
`Versions`, which extends `VersionCountsCommits` to every copy a request holds
(`CopyCounts`): a copy whose version is the row's shows the row. `OthersSee` and
`PinsSpared` from `LocksHold`: a handler that locked at its first read sees the
row as it is until it commits, one holder per row. `PromotedStays` and
`RejectKeepsToken` are steps over these.

Sign-in (`SignInProofs`): `EnoughMissesLock` from `OwedCounted` - the stored
count and the misses owed differ only by what a reset of an older copy erased,
and then a lock is there. `LockNotExtended` from `LockHeld`: the lock lasts
longer than two requests (`LockFor > 2 * Latency`), so a request that starts
under it sees it, and the ones that may miss it are the early ones.
`FullAuthResets` needs `LookedBefore`: a sign-in by password that is past its look
for a factor while the account has one is in `overtaken`. `GoneForGood` is a step
over the types.

Second factor (`SecondFactorProofs`): `CodesOneUse` from `CodesOnce`: an accepted
step is at most the stored `last_used_step` of its secret, an accepted code is
not unused. `ChallengesOneUse` and `ReplaysAudited` from `ChallengesOnce`: a claim
is kept until no cookie can be alive and no request that checked one can still be
running, which needs `Latency <= Slack`. `ImplementsChallenges` is the same
invariant read as steps of `ChallengeContract`: a claim that is won finds its
challenge minted and not accepted (`ConsumeMoves`), a refusal finds it accepted,
since a claim row is there only for such a one, and is the first exactly when the
row's flag is unset (`ReplayMoves`); mints move, everything else stutters, the sweep
of a claim included. `StampNeedsFactor` and `BatchReplaced`
from `EnrolmentOnce`: what an un-overtaken request has read still holds.

Org-wide controls (`OrgWideControlsProofs`): each request is reduced to one of
`Arrives`, `Saves`, `Leaves`. `NoLoneRefusal` and `FlagNeedsMeta` from `Base`;
`FlaggedOnInheritance`, `FlaggedOnCuration` and `FrozenRunsBuild` from
`RunsKnow`: what an unexcused run has frozen or loaded is what it would freeze
or load now. `SomeIdFree` - a fresh primary key exists - is why the assumption
asks for more ids than requests.

Staged import (`StagedImportProofs`): one invariant per kind of knowledge that a
request carries over an await. `TokenInv`: it read its preview before any
confirmation of its token committed (`ReadBefore`), and a preview once gone stays
gone; `TokensDie` is the case of the later of two. `NameInv`: what it chose
differs from all that was there at the clock reading of its look
(`ChosenFresh`), and whatever commits later has a later reading. `ProvInv`: the
version it holds was effective since its first read (`PinInTime`), the history
only growing. `HistInv`: its copy of an overlay is not ahead of the row
(`NotAhead`), so that the unique key on (overlay, version) admits a write from the
present version only: that is why whole histories need no lock. The lemmas
`Shape` and `ImportsMove` reduce each step to what the four need. `TypeCorrect` says
that scenarios have names and revisions have tags: the importers get there by the
header of the file alone (`StopsHard`), not by the flow of its token.

Compute resources (`ComputeResourcesProofs`, `SizesAssumption`: any number of
processes, connections and threads). A process's state is the rest of its program,
so the invariant is a relation between two things: `Hands` says that what a process
holds is what the rest of its program gives back (a connection: a `free` is ahead,
and for a run or a report it is next; the slot: a `leave` follows with nothing but
computations before it; the semaphore: an `unsem`), and `Permit` says who owes the
guard a release, handler or body. That each rest of a program is written so is not
read off the scripts one by one: the pieces have the property, and joining two
programs (`Joined` and its kin) and dropping the first operation (`RestOf`) keep it.
`ProgramsClosed` gives the same for the type.

- `TypeCorrect`: also that pool, executor and guard never give out more than they
  have; it uses that nobody stands in a queue twice (`WithoutQueue`).
- `PoolIsServed`, `NothingIsKept`, `WaitersAreEmptyHanded`, `TurnsAreExclusive`:
  consequences of `Hands` and `Permit`; the head of a queue is its only member that
  has gone past the take.
- `NoCircleOfWaiters`: the safety half of `EveryoneEnds`, which TLC checks: while
  anyone is under way, someone has what it needs next. A thread holder computes,
  so the threads come back; then a slot holder, who only computes, can go on; then a
  connection holder, unless all are slow, in which case the pool's clock runs; then
  the semaphore's holder.

Ten theorems state properties that no passing run repeats. Seven follow step by
step from what the runs check: `AnAdminRemains` (every state of `RosterContract` has
an active admin; `roster_stale_edit` shows what it is without its hypothesis),
`ReplaysAudited` (every state of `ChallengeContract` has a replay row exactly for the
challenges that stand as replayed), `TerminalRowsStand`, `EachDisarmOnce`,
`FullAuthResets` (with `LookedBefore`), `PinsSpared` and `RejectKeepsToken`. Three are
about states that `EveryoneEnds`
passes through: `NothingIsKept`, `WaitersAreEmptyHanded` and `NoCircleOfWaiters`.

Only model-checked: `Settles` and `EveryoneEnds` (liveness is out of the prover's
reach) and the three violations.

## Not modelled

- The engine (`fair_cam/`), Shapley, robustness and composition: floating point,
  which TLC does not have, in functions without state; what runs share of it, the
  slot, is in `ComputeResources`.
- Reports, PDF and workbook exports, view models, templates, form parsing: they
  render committed rows. They are a large part of the code by lines and none of
  its state.
- The organisation's overrides of library entries: the compare-then-write of the
  scenario form on a row of its own, whose version nothing else reads. Of the
  imports: parsing, sheets, the saving of mapping profiles, currencies, technique
  mappings, and the control CSV, which creates what it can in one transaction.
- Middleware, settings, migrations: `get_session`'s commit-or-rollback and the
  bounds of the settings enter the modules as guards and assumptions.
- The once-per-interval claim of retention and its VACUUM gate; the redaction and
  export throttling of the audit log; the confirmation stamps of controls; cookie
  signatures and passkey sign counts.
