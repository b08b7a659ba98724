----------------------------- MODULE AdminRoster -----------------------------
(***************************************************************************)
(* The users of the organization and the admin requests that change them:  *)
(* invite, edit, activate or deactivate, delete (routes/users.py and       *)
(* services/users.py).  A request authenticates its actor, reads its       *)
(* target, checks a count, and writes much later: every await lets another *)
(* request run.                                                            *)
(*                                                                         *)
(* Two backends.  SQLite ignores FOR UPDATE; the first write statement     *)
(* takes the one write lock and keeps it to the commit.  Postgres (READ    *)
(* COMMITTED) locks rows: a statement reads the rows committed when it     *)
(* starts, waits for the locks of the rows it wants, and then looks at     *)
(* those rows, and only those, again.                                      *)
(*                                                                         *)
(* Session rows are left out.  The middleware admits whoever is active now *)
(* and holds a session, and an active user can sign in at any time, so a   *)
(* session, kept or revoked, decides nothing here.                         *)
(***************************************************************************)
EXTENDS Naturals, FiniteSets

CONSTANTS
    Users,     \* user ids (uuid4, never reused)
    Roles,     \* the roles compared: "admin" and some of the others
    Requests,  \* admin requests in progress at once
    NoUser,    \* no user chosen
    NoReq,     \* the holder of a free row
    Backends,  \* among "sqlite" and "postgres"
    Gains,     \* TRUE: a request may ask for access its target does not have
    LogCap     \* the audit rows per user are counted up to this bound

ASSUME RosterAssumption ==
    /\ IsFiniteSet(Users) /\ NoUser \notin Users
    /\ "admin" \in Roles /\ Roles \cap {"unborn", "gone"} = {}
    /\ NoReq \notin Requests
    /\ Backends \subseteq {"sqlite", "postgres"}
    /\ Gains \in BOOLEAN
    /\ LogCap \in Nat \ {0, 1}

VARIABLES
    backend,   \* which database runs; it never changes
    row,       \* the committed row of each user
    disarms,   \* audit rows "update" that take an active admin's access away
    pc,        \* how far each request is
    plan,      \* its actor; its target, what it saw of it, what it will write
    want,      \* the active admins its SELECT ... FOR UPDATE found
    lock       \* Postgres: the request that holds each users row

vars == <<backend, row, disarms, pc, plan, want, lock>>

-----------------------------------------------------------------------------
Rows == [role : Roles, active : BOOLEAN]
Unborn == [role |-> "unborn", active |-> FALSE]  \* not invited yet
Gone == [role |-> "gone", active |-> FALSE]      \* deleted

IsActiveAdmin(x) == x.role = "admin" /\ x.active

ActiveAdmins == {u \in Users : IsActiveAdmin(row[u])}

NoPlan == [actor |-> NoUser, target |-> NoUser, seen |-> Unborn, new |-> Unborn]

\* loaded: owes the count check.  cleared: passed it, or never owed it.
\* locked: has run _lock_active_admin_rows.  guarded: its conditional write has
\* evaluated its WHERE.  written: owes only the commit.
Places == {"idle", "authorized", "loaded", "cleared", "locking", "locked",
           "guarded", "written"}
Planned == Places \ {"idle", "authorized"}

Target(r) == plan[r].target
Sees(r) == plan[r].seen
Writes(r) == plan[r].new

\* The guarded write is chosen by what was SEEN of the target.
Disarms(seen, new) == IsActiveAdmin(seen) /\ ~IsActiveAdmin(new)
Guarded(r) == Disarms(Sees(r), Writes(r))

\* Promotion or reactivation.
Raises(seen, new) ==
    \/ new.role = "admin" /\ seen.role # "admin"
    \/ new.active /\ ~seen.active

-----------------------------------------------------------------------------
\* SQLite's write lock is taken by the first write statement and freed by the
\* commit; Postgres has none.
WriteLockFree(r) ==
    backend = "sqlite" => \A q \in Requests \ {r} : pc[q] \notin {"guarded", "written"}

RowFree(r, u) == backend = "postgres" => lock[u] \in {NoReq, r}

TakeRows(r, rows) ==
    lock' = IF backend = "postgres"
            THEN [u \in Users |-> IF u \in rows THEN r ELSE lock[u]]
            ELSE lock

Goto(r, place) == pc' = [pc EXCEPT ![r] = place]

\* A request that ends, well or not, frees its rows.
End(r) ==
    /\ Goto(r, "idle")
    /\ plan' = [plan EXCEPT ![r] = NoPlan]
    /\ want' = [want EXCEPT ![r] = {}]
    /\ lock' = [u \in Users |-> IF lock[u] = r THEN NoReq ELSE lock[u]]

Continue(r, place) == Goto(r, place) /\ UNCHANGED <<plan, want, lock>>

-----------------------------------------------------------------------------
\* The session middleware loads the actor; require_role looks at that copy for
\* the rest of the request.
Authorize(r, u) ==
    /\ pc[r] = "idle"
    /\ IsActiveAdmin(row[u])
    /\ Goto(r, "authorized")
    /\ plan' = [plan EXCEPT ![r].actor = u]
    /\ UNCHANGED <<row, disarms, want, lock>>

\* The new row is one INSERT; nobody can have read it before.
Invite(r, u, role) ==
    /\ pc[r] = "authorized"
    /\ row[u] = Unborn
    /\ WriteLockFree(r)
    /\ row' = [row EXCEPT ![u] = [role |-> role, active |-> TRUE]]
    /\ End(r)
    /\ UNCHANGED disarms

\* get_user filters by id and organization: 404 for an id that has no row.
\* Bug: no 404.
AnyId(u) == TRUE
Found(u) == row[u] \notin {Unborn, Gone}

\* Nobody takes their own access away, nor deletes themselves.
OwnAccess(r, u, new) ==
    /\ plan[r].actor = u
    /\ \/ new = Gone
       \/ row[u].role = "admin" /\ new.role # "admin"
       \/ row[u].active /\ ~new.active

\* The friendly check: the target is an admin (active or not) and would lose
\* something.
OwesCount(seen, new) ==
    /\ seen.role = "admin"
    /\ new = Gone \/ new.role # "admin" \/ (seen.active /\ ~new.active)

\* The target is read and the form decides: an edit (new role and flag), the
\* list's toggle (the role stays) or a delete.  Without a change nothing is
\* written, and a user with history is not deleted: such a request may end here.
ReadTarget(r, u, new) ==
    /\ pc[r] = "authorized"
    /\ Found(u)
    /\ ~OwnAccess(r, u, new)
    /\ new # row[u]
    /\ Gains \/ ~Raises(row[u], new)
    /\ plan' = [plan EXCEPT ![r] = [actor |-> NoUser, target |-> u,
                                    seen |-> row[u], new |-> new]]
    /\ Goto(r, IF OwesCount(row[u], new) THEN "loaded" ELSE "cleared")
    /\ UNCHANGED <<row, disarms, want, lock>>

\* The count is another statement: it may be newer than the target's copy, and
\* older than the write.
CheckCount(r) ==
    /\ pc[r] = "loaded"
    /\ IF Cardinality(ActiveAdmins) <= 1 THEN End(r) ELSE Continue(r, "cleared")
    /\ UNCHANGED <<row, disarms>>

-----------------------------------------------------------------------------
(* guarded_admin_disarm, and the conditional DELETE of delete_user         *)

\* SELECT ... FOR UPDATE starts: these are the rows it will lock.
SelectAdmins(r) ==
    /\ pc[r] = "cleared" /\ Guarded(r)
    /\ want' = [want EXCEPT ![r] = ActiveAdmins]
    /\ Goto(r, "locking")
    /\ UNCHANGED <<row, disarms, plan, lock>>

\* It has waited for all of them; the rows that no longer qualify are skipped.  The
\* SELECT names no order: two that lock the same rows crosswise are a cycle that Postgres
\* ends by failing one, which is GiveUp, so the rows may be taken in one step here.
\* Bug: the result is discarded, so the SELECT was removed.
NoRows(r) == {}
RowsToLock(r) == want[r] \cap ActiveAdmins

TakeLocks(r) ==
    /\ pc[r] = "locking"
    /\ \A u \in want[r] : RowFree(r, u)
    /\ TakeRows(r, RowsToLock(r))
    /\ Goto(r, "locked")
    /\ UNCHANGED <<row, disarms, plan, want>>

\* The row test of the WHERE: the UPDATE insists on an active admin, the DELETE
\* on the id.
Matches(r) ==
    /\ row[Target(r)] \notin {Unborn, Gone}
    /\ Writes(r) # Gone => IsActiveAdmin(row[Target(r)])

\* _other_active_admins_remain.  Bug: the target counts as its own cover.
AnyAdminRemains(r) == ActiveAdmins # {}
OthersRemain(r) == ActiveAdmins \ {Target(r)} # {}

\* The conditional statement starts: one snapshot for the row and the subquery.
EvaluateGuard(r) ==
    /\ pc[r] = "locked"
    /\ WriteLockFree(r)
    /\ IF Matches(r) /\ OthersRemain(r) THEN Continue(r, "guarded") ELSE End(r)
    /\ UNCHANGED <<row, disarms>>

\* It reaches the row.  After a wait Postgres tests the row again, not the
\* subquery.
WriteGuarded(r) ==
    /\ pc[r] = "guarded"
    /\ RowFree(r, Target(r))
    /\ IF Matches(r)
       THEN /\ Goto(r, "written")
            /\ TakeRows(r, {Target(r)})
            /\ UNCHANGED <<plan, want>>
       ELSE End(r)
    /\ UNCHANGED <<row, disarms>>

-----------------------------------------------------------------------------
\* The ORM's UPDATE or DELETE, by primary key, at flush.  An UPDATE that finds
\* no row raises StaleDataError; a DELETE that finds none is only a warning.
WritePlain(r) ==
    /\ pc[r] = "cleared" /\ ~Guarded(r)
    /\ WriteLockFree(r)
    /\ RowFree(r, Target(r))
    /\ IF Writes(r) # Gone /\ row[Target(r)] = Gone
       THEN End(r)
       ELSE /\ Goto(r, "written")
            /\ TakeRows(r, {Target(r)})
            /\ UNCHANGED <<plan, want>>
    /\ UNCHANGED <<row, disarms>>

\* The ORM writes the attributes that differ from what it loaded; the guarded
\* UPDATE writes both.
Changed(r, current) ==
    [role |-> IF Writes(r).role # Sees(r).role THEN Writes(r).role ELSE current.role,
     active |-> IF Writes(r).active # Sees(r).active THEN Writes(r).active
                                                     ELSE current.active]

Result(r) ==
    IF Guarded(r) \/ Writes(r) = Gone THEN Writes(r) ELSE Changed(r, row[Target(r)])

\* The write and its audit row, in one transaction.
Commit(r) ==
    /\ pc[r] = "written"
    /\ row' = [row EXCEPT ![Target(r)] = Result(r)]
    /\ disarms' = IF Guarded(r) /\ Writes(r) # Gone /\ disarms[Target(r)] < LogCap
                  THEN [disarms EXCEPT ![Target(r)] = @ + 1]
                  ELSE disarms
    /\ End(r)

\* A refusal that needs no state of its own (no change, an unknown id, one's own
\* access, a user with history), or an exception: get_session rolls back.
GiveUp(r) ==
    /\ pc[r] # "idle"
    /\ End(r)
    /\ UNCHANGED <<row, disarms>>

-----------------------------------------------------------------------------
\* Setup creates one active admin and the guards keep one, so any roster that
\* has one may be found when the requests begin.
Init ==
    /\ backend \in Backends
    /\ row \in [Users -> Rows \cup {Unborn}]
    /\ ActiveAdmins # {}
    /\ disarms = [u \in Users |-> 0]
    /\ pc = [r \in Requests |-> "idle"]
    /\ plan = [r \in Requests |-> NoPlan]
    /\ want = [r \in Requests |-> {}]
    /\ lock = [u \in Users |-> NoReq]

RequestStep(r) ==
    \/ \E u \in Users : Authorize(r, u)
    \/ \E u \in Users, role \in Roles : Invite(r, u, role)
    \/ \E u \in Users, new \in Rows \cup {Gone} : ReadTarget(r, u, new)
    \/ CheckCount(r)
    \/ SelectAdmins(r)
    \/ TakeLocks(r)
    \/ EvaluateGuard(r)
    \/ WriteGuarded(r)
    \/ WritePlain(r)
    \/ Commit(r)
    \/ GiveUp(r)

Next == UNCHANGED backend /\ \E r \in Requests : RequestStep(r)

Spec == Init /\ [][Next]_vars

-----------------------------------------------------------------------------
\* Every variable has its type, and a request past its read has a target that
\* had a row.
TypeOK ==
    /\ backend \in Backends
    /\ row \in [Users -> Rows \cup {Unborn, Gone}]
    /\ disarms \in [Users -> 0 .. LogCap]
    /\ pc \in [Requests -> Places]
    /\ plan \in [Requests -> [actor : Users \cup {NoUser}, target : Users \cup {NoUser},
                              seen : Rows \cup {Unborn}, new : Rows \cup {Unborn, Gone}]]
    /\ \A r \in Requests : pc[r] \in Planned =>
          /\ Target(r) \in Users
          /\ Sees(r) \in Rows
          /\ Writes(r) \in Rows \cup {Gone}
    /\ want \in [Requests -> SUBSET Users]
    /\ lock \in [Users -> Requests \cup {NoReq}]

\* "A stale pre-check count can no longer produce a zero-admin lockout"
\* (_other_active_admins_remain): whatever requests overlap, an active admin
\* remains.
AdminRemains == ActiveAdmins # {}

\* "Serialize concurrent admin-disarm writes on row-locking backends"
\* (_lock_active_admin_rows): two conditional writes that would each take away
\* an active admin are never past their WHERE together, on either backend.
Disarming(r) ==
    /\ pc[r] \in {"guarded", "written"} /\ Guarded(r)
    /\ IsActiveAdmin(row[Target(r)])
DisarmsSerialized ==
    \A p, q \in Requests : Disarming(p) /\ Disarming(q) => p = q

\* guarded_admin_disarm refuses when "the target stopped being an active admin
\* concurrently": an admin's access is taken away, and audited, once.
DisarmedOnce ==
    \A u \in Users : disarms[u] <= 1 /\ (disarms[u] = 1 => ~IsActiveAdmin(row[u]))

\* "The last-admin invariant is re-verified atomically WITH the write"
\* (_other_active_admins_remain): requests that only take access away, read, count,
\* lock and write in whatever order, change the roster as if each took its
\* target's access in one step, under the cover of another active admin.
Access ==
    [u \in Users |-> CASE row[u] = Unborn -> "unborn"
                       [] row[u] = Gone -> "gone"
                       [] IsActiveAdmin(row[u]) -> "admin"
                       [] OTHER -> "other"]
Roster == INSTANCE RosterContract WITH access <- Access
KeepsRoster == Roster!RosterSpec
=============================================================================
