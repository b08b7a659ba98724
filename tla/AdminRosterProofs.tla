-------------------------- MODULE AdminRosterProofs --------------------------
(***************************************************************************)
(* Proofs about AdminRoster, for any users and any number of overlapping   *)
(* requests, on either backend.                                            *)
(***************************************************************************)
EXTENDS AdminRoster, TLAPS

-----------------------------------------------------------------------------
(* What one step of request r leaves alone                                 *)

OthersKept(r) ==
    \A q \in Requests \ {r} :
        pc'[q] = pc[q] /\ plan'[q] = plan[q] /\ want'[q] = want[q]

LocksKept(r) ==
    \A u \in Users :
        \/ lock'[u] = lock[u]
        \/ lock[u] = r /\ lock'[u] = NoReq
        \/ backend = "postgres" /\ lock[u] \in {NoReq, r} /\ lock'[u] = r

RowsKept(r) ==
    \A u \in Users :
        \/ row'[u] = row[u]
        \/ row[u] = Unborn /\ row'[u] \in Rows
        \/ pc[r] = "written" /\ u = Target(r) /\ row'[u] = Result(r)

\* What the type correctness of a commit rests on: who may be writing.
WriteInv ==
    /\ backend = "sqlite" => \A p, q \in Requests :
          pc[p] \in {"guarded", "written"} /\ pc[q] \in {"guarded", "written"} => p = q
    /\ backend = "postgres" => \A r \in Requests :
          pc[r] = "written" => lock[Target(r)] = r
    /\ \A r \in Requests : pc[r] \in Planned => row[Target(r)] # Unborn
    /\ \A r \in Requests :
          pc[r] = "written" /\ Writes(r) # Gone => row[Target(r)] \in Rows

TypeInv == TypeOK /\ WriteInv

\* The end of a request touches nothing of the others.
LEMMA EndFrame ==
    ASSUME TypeOK, NEW r \in Requests, End(r)
    PROVE  /\ OthersKept(r) /\ LocksKept(r)
           /\ pc' = [pc EXCEPT ![r] = "idle"] /\ pc'[r] = "idle"
           /\ plan'[r] = NoPlan /\ want'[r] = {}
  BY DEF TypeOK, End, Goto, OthersKept, LocksKept

\* A request changes only its own place, plan and wanted rows, takes only rows
\* that are free, and changes a users row by an INSERT or by its commit.
LEMMA StepFrame ==
    ASSUME TypeOK, NEW r \in Requests, RequestStep(r)
    PROVE  OthersKept(r) /\ LocksKept(r) /\ RowsKept(r)
  <1>1. ASSUME NEW u \in Users, Authorize(r, u)
        PROVE  OthersKept(r) /\ LocksKept(r) /\ RowsKept(r)
    BY <1>1 DEF TypeOK, Authorize, Goto, OthersKept, LocksKept, RowsKept
  <1>2. ASSUME NEW u \in Users, NEW role \in Roles, Invite(r, u, role)
        PROVE  OthersKept(r) /\ LocksKept(r) /\ RowsKept(r)
    <2>1. RowsKept(r)
      BY <1>2 DEF TypeOK, Invite, RowsKept, Rows
    <2> QED
      BY <1>2, <2>1, EndFrame DEF Invite
  <1>3. ASSUME NEW u \in Users, NEW new \in Rows \cup {Gone}, ReadTarget(r, u, new)
        PROVE  OthersKept(r) /\ LocksKept(r) /\ RowsKept(r)
    BY <1>3 DEF TypeOK, ReadTarget, Goto, OthersKept, LocksKept, RowsKept
  <1>4. CASE CheckCount(r)
    <2>1. RowsKept(r)
      BY <1>4 DEF CheckCount, RowsKept
    <2>2. CASE End(r)
      BY <2>1, <2>2, EndFrame
    <2>3. CASE Continue(r, "cleared")
      BY <2>1, <2>3 DEF TypeOK, Continue, Goto, OthersKept, LocksKept
    <2> QED
      BY <1>4, <2>2, <2>3 DEF CheckCount
  <1>5. CASE SelectAdmins(r)
    BY <1>5 DEF TypeOK, SelectAdmins, Goto, OthersKept, LocksKept, RowsKept
  <1>6. CASE TakeLocks(r)
    <2>1. OthersKept(r) /\ RowsKept(r)
      BY <1>6 DEF TypeOK, TakeLocks, Goto, OthersKept, RowsKept
    <2>2. LocksKept(r)
      BY <1>6 DEF TypeOK, TakeLocks, TakeRows, RowsToLock, RowFree, LocksKept
    <2> QED
      BY <2>1, <2>2
  <1>7. CASE EvaluateGuard(r)
    <2>1. RowsKept(r)
      BY <1>7 DEF EvaluateGuard, RowsKept
    <2>2. CASE End(r)
      BY <2>1, <2>2, EndFrame
    <2>3. CASE Continue(r, "guarded")
      BY <2>1, <2>3 DEF TypeOK, Continue, Goto, OthersKept, LocksKept
    <2> QED
      BY <1>7, <2>2, <2>3 DEF EvaluateGuard
  <1>8. CASE WriteGuarded(r) \/ WritePlain(r)
    <2>1. RowsKept(r)
      BY <1>8 DEF WriteGuarded, WritePlain, RowsKept
    <2>2. CASE End(r)
      BY <2>1, <2>2, EndFrame
    <2>3. CASE /\ Goto(r, "written") /\ TakeRows(r, {Target(r)})
               /\ UNCHANGED <<plan, want>> /\ RowFree(r, Target(r))
      BY <2>1, <2>3 DEF TypeOK, Goto, TakeRows, RowFree, OthersKept, LocksKept
    <2> QED
      BY <1>8, <2>2, <2>3 DEF WriteGuarded, WritePlain
  <1>9. CASE Commit(r)
    <2>1. RowsKept(r)
      BY <1>9 DEF TypeOK, Commit, RowsKept
    <2> QED
      BY <1>9, <2>1, EndFrame DEF Commit
  <1>10. CASE GiveUp(r)
    BY <1>10, EndFrame DEF GiveUp, RowsKept
  <1> QED
    BY <1>1, <1>2, <1>3, <1>4, <1>5, <1>6, <1>7, <1>8, <1>9, <1>10 DEF RequestStep

-----------------------------------------------------------------------------
(* Types                                                                   *)

LEMMA TypeInit == Init => TypeInv
  BY RosterAssumption
     DEF Init, TypeInv, TypeOK, WriteInv, Places, Planned, NoPlan, Rows

\* A commit writes a row: a plain UPDATE changes attributes of a row that is
\* still there.
LEMMA ResultType ==
    ASSUME TypeInv, NEW r \in Requests, pc[r] = "written"
    PROVE  Result(r) \in Rows \cup {Gone} /\ (Writes(r) # Gone => Result(r) \in Rows)
  <1>1. Target(r) \in Users /\ Sees(r) \in Rows /\ Writes(r) \in Rows \cup {Gone}
    BY DEF TypeInv, TypeOK, Planned, Places
  <1>2. CASE Guarded(r) \/ Writes(r) = Gone
    BY <1>1, <1>2 DEF Result
  <1>3. CASE ~Guarded(r) /\ Writes(r) # Gone
    <2>1. row[Target(r)] \in Rows /\ Writes(r) \in Rows
      BY <1>1, <1>3 DEF TypeInv, WriteInv
    <2>2. Changed(r, row[Target(r)]) \in Rows
      BY <2>1 DEF Changed, Rows
    <2> QED
      BY <1>3, <2>2 DEF Result
  <1> QED
    BY <1>2, <1>3

\* A request that ends owes nothing.
LEMMA IdleType ==
    ASSUME TypeOK, NEW r \in Requests, End(r)
    PROVE  /\ pc' \in [Requests -> Places]
           /\ plan' \in [Requests -> [actor : Users \cup {NoUser}, target : Users \cup {NoUser},
                                       seen : Rows \cup {Unborn}, new : Rows \cup {Unborn, Gone}]]
           /\ want' \in [Requests -> SUBSET Users]
           /\ lock' \in [Users -> Requests \cup {NoReq}]
  BY DEF TypeOK, End, Goto, NoPlan, Places

PlanTyped(r) ==
    pc[r] \in Planned => /\ Target(r) \in Users
                         /\ Sees(r) \in Rows
                         /\ Writes(r) \in Rows \cup {Gone}

LEMMA TypeStep ==
    ASSUME TypeInv, Next
    PROVE  TypeOK'
  <1>1. PICK r \in Requests : RequestStep(r)
    BY DEF Next
  <1>2. OthersKept(r)
    BY <1>1, StepFrame DEF TypeInv
  <1> DEFINE Plans == [actor : Users \cup {NoUser}, target : Users \cup {NoUser},
                       seen : Rows \cup {Unborn}, new : Rows \cup {Unborn, Gone}]
             Moved == /\ pc' \in [Requests -> Places] /\ plan' \in [Requests -> Plans]
                      /\ want' \in [Requests -> SUBSET Users]
                      /\ lock' \in [Users -> Requests \cup {NoReq}]
             Kept == row' \in [Users -> Rows \cup {Unborn, Gone}]
                     /\ disarms' \in [Users -> 0 .. LogCap]
  <1>3. Moved /\ Kept /\ PlanTyped(r)'
    <2>0. TypeOK /\ PlanTyped(r)
      BY DEF TypeInv, TypeOK, PlanTyped
    <2>E. End(r) => Moved /\ PlanTyped(r)'
      <3>1. ASSUME End(r) PROVE pc'[r] = "idle"
        BY <2>0, <3>1, EndFrame
      <3> QED
        BY <2>0, <3>1, IdleType DEF PlanTyped, Planned
    <2>U. row' = row /\ disarms' = disarms => Kept
      BY <2>0 DEF TypeOK
    <2>W. ASSUME Goto(r, "written") /\ TakeRows(r, {Target(r)}) /\ UNCHANGED <<plan, want>>,
                 pc[r] \in Planned
          PROVE  Moved /\ PlanTyped(r)'
      BY <2>0, <2>W DEF TypeOK, Goto, TakeRows, PlanTyped, Places, Planned, Target, Sees, Writes
    <2>1. ASSUME NEW u \in Users, Authorize(r, u) PROVE Moved /\ Kept /\ PlanTyped(r)'
      <3>1. plan'[r] = [plan[r] EXCEPT !.actor = u] /\ pc'[r] = "authorized"
        BY <2>0, <2>1, SMT DEF TypeOK, Authorize, Goto
      <3> QED
        BY <2>0, <2>1, <2>U, <3>1, SMT DEF TypeOK, Authorize, Goto, Places, PlanTyped, Planned
    <2>2. ASSUME NEW u \in Users, NEW role \in Roles, Invite(r, u, role)
          PROVE  Moved /\ Kept /\ PlanTyped(r)'
      BY <2>0, <2>2, <2>E DEF TypeOK, Invite, Rows
    <2>3. ASSUME NEW u \in Users, NEW new \in Rows \cup {Gone}, ReadTarget(r, u, new)
          PROVE  Moved /\ Kept /\ PlanTyped(r)'
      <3>1. row[u] \in Rows
        BY <2>0, <2>3 DEF TypeOK, ReadTarget, Found
      <3>2. pc' \in [Requests -> Places] /\ pc'[r] \in {"loaded", "cleared"}
        BY <2>0, <2>3 DEF TypeOK, ReadTarget, Goto, Places
      <3>3. plan'[r] = [actor |-> NoUser, target |-> u, seen |-> row[u], new |-> new]
        BY <2>0, <2>3 DEF TypeOK, ReadTarget
      <3>4. plan' \in [Requests -> Plans]
        BY <2>0, <2>3, <3>1 DEF TypeOK, ReadTarget
      <3> QED
        BY <2>0, <2>3, <2>U, <3>1, <3>2, <3>3, <3>4
           DEF TypeOK, ReadTarget, PlanTyped, Target, Sees, Writes
    <2>4. CASE CheckCount(r)
      <3>1. CASE Continue(r, "cleared")
        BY <2>0, <2>4, <2>U, <3>1
           DEF TypeOK, CheckCount, Continue, Goto, Places, PlanTyped, Planned, Target, Sees, Writes
      <3> QED
        BY <2>4, <2>E, <2>U, <3>1 DEF CheckCount
    <2>5. CASE SelectAdmins(r)
      BY <2>0, <2>5, <2>U DEF TypeOK, SelectAdmins, ActiveAdmins, Goto, Places, PlanTyped, Planned,
                              Target, Sees, Writes
    <2>6. CASE TakeLocks(r)
      BY <2>0, <2>6, <2>U DEF TypeOK, TakeLocks, TakeRows, Goto, Places, PlanTyped, Planned,
                              Target, Sees, Writes
    <2>7. CASE EvaluateGuard(r)
      <3>1. CASE Continue(r, "guarded")
        BY <2>0, <2>7, <2>U, <3>1
           DEF TypeOK, EvaluateGuard, Continue, Goto, Places, PlanTyped, Planned, Target, Sees, Writes
      <3> QED
        BY <2>7, <2>E, <2>U, <3>1 DEF EvaluateGuard
    <2>8. CASE WriteGuarded(r)
      BY <2>8, <2>E, <2>U, <2>W DEF WriteGuarded, Planned, Places
    <2>9. CASE WritePlain(r)
      BY <2>9, <2>E, <2>U, <2>W DEF WritePlain, Planned, Places
    <2>10. CASE Commit(r)
      <3>1. Result(r) \in Rows \cup {Gone}
        BY <2>10, ResultType DEF Commit
      <3>2. row' \in [Users -> Rows \cup {Unborn, Gone}]
        BY <2>0, <2>10, <3>1 DEF TypeOK, Commit
      <3>3. disarms' \in [Users -> 0 .. LogCap]
        <4>1. LogCap \in Nat /\ disarms \in [Users -> 0 .. LogCap]
          BY <2>0, RosterAssumption DEF TypeOK
        <4>2. CASE disarms' = disarms
          BY <4>1, <4>2
        <4>3. CASE /\ disarms[Target(r)] < LogCap
                   /\ disarms' = [disarms EXCEPT ![Target(r)] = @ + 1]
          <5>1. Target(r) \in Users
            BY <2>0, <2>10 DEF TypeOK, Commit, Planned, Places
          <5>2. disarms[Target(r)] + 1 \in 0 .. LogCap
            BY <4>1, <4>3, <5>1
          <5> QED
            BY <4>1, <4>3, <5>2
        <4> QED
          BY <2>10, <4>2, <4>3 DEF Commit
      <3> QED
        BY <2>10, <2>E, <3>2, <3>3 DEF Commit
    <2>11. CASE GiveUp(r)
      BY <2>11, <2>E, <2>U DEF GiveUp
    <2> QED
      BY <1>1, <2>1, <2>2, <2>3, <2>4, <2>5, <2>6, <2>7, <2>8, <2>9, <2>10, <2>11 DEF RequestStep
  <1>4. \A q \in Requests : PlanTyped(q)'
    <2> TAKE q \in Requests
    <2>1. CASE q = r
      BY <1>3, <2>1
    <2>2. CASE q # r
      BY <1>2, <2>2 DEF OthersKept, TypeInv, TypeOK, PlanTyped, Target, Sees, Writes
    <2> QED
      BY <2>1, <2>2
  <1>5. backend' \in Backends
    BY DEF Next, TypeInv, TypeOK
  <1> QED
    BY <1>3, <1>4, <1>5 DEF TypeOK, PlanTyped

\* Nobody gets past its write without the lock that its backend asks for.
LEMMA WriteStep ==
    ASSUME TypeInv, Next
    PROVE  WriteInv'
  <1>1. PICK r \in Requests : RequestStep(r)
    BY DEF Next
  <1>2. OthersKept(r) /\ LocksKept(r) /\ RowsKept(r)
    BY <1>1, StepFrame DEF TypeInv
  <1>3. TypeOK /\ TypeOK' /\ WriteInv /\ UNCHANGED backend
    BY TypeStep DEF TypeInv, Next
  \* How r itself may have come where it is.
  <1> DEFINE Arrived ==
        /\ pc'[r] \in {"guarded", "written"} => WriteLockFree(r) \/ pc[r] \in {"guarded", "written"}
        /\ pc'[r] = "written" /\ backend = "postgres" => lock'[Target(r)] = r
        /\ pc'[r] = "written" => /\ row' = row /\ plan' = plan /\ pc[r] \in Planned
                                 /\ Writes(r) # Gone => row[Target(r)] \in Rows
        /\ pc'[r] \in Planned => row'[Target(r)'] # Unborn
  <1>4. Arrived
    <2>E. End(r) => pc'[r] = "idle"
      BY <1>3, EndFrame
    <2>P. pc[r] \in Planned => /\ Target(r) \in Users /\ row[Target(r)] # Unborn
                               /\ Writes(r) \in Rows \cup {Gone}
      BY <1>3 DEF TypeOK, WriteInv
    <2>W. ASSUME Goto(r, "written"), TakeRows(r, {Target(r)}), UNCHANGED <<row, plan>>,
                 pc[r] \in Planned,
                 Writes(r) # Gone => row[Target(r)] # Gone,
                 WriteLockFree(r) \/ pc[r] = "guarded"
          PROVE  Arrived
      <3>1. pc'[r] = "written" /\ Target(r)' = Target(r)
        BY <1>3, <2>W DEF TypeOK, Goto, Target
      <3>2. Writes(r) # Gone => row[Target(r)] \in Rows
        BY <1>3, <2>P, <2>W DEF TypeOK
      <3>3. backend = "postgres" => lock'[Target(r)] = r
        BY <1>3, <2>P, <2>W DEF TypeOK, TakeRows
      <3> QED
        BY <2>P, <2>W, <3>1, <3>2, <3>3
    <2>1. ASSUME NEW u \in Users, Authorize(r, u) PROVE Arrived
      BY <1>3, <2>1 DEF TypeOK, Authorize, Goto, Planned, Places
    <2>2. ASSUME NEW u \in Users, NEW role \in Roles, Invite(r, u, role) PROVE Arrived
      BY <2>2, <2>E DEF Invite, Planned, Places
    <2>3. ASSUME NEW u \in Users, NEW new \in Rows \cup {Gone}, ReadTarget(r, u, new)
          PROVE Arrived
      <3>1. plan'[r] = [actor |-> NoUser, target |-> u, seen |-> row[u], new |-> new]
        BY <1>3, <2>3 DEF TypeOK, ReadTarget
      <3>2. pc'[r] \in {"loaded", "cleared"} /\ row' = row /\ row[u] # Unborn
        BY <1>3, <2>3 DEF TypeOK, ReadTarget, Goto, Found
      <3> QED
        BY <3>1, <3>2 DEF Target
    <2>4. CASE CheckCount(r)
      BY <1>3, <2>4, <2>E, <2>P DEF TypeOK, CheckCount, Continue, Goto, Planned, Places, Target
    <2>5. CASE SelectAdmins(r)
      BY <1>3, <2>5, <2>P DEF TypeOK, SelectAdmins, Goto, Planned, Places, Target
    <2>6. CASE TakeLocks(r)
      BY <1>3, <2>6, <2>P DEF TypeOK, TakeLocks, Goto, Planned, Places, Target
    <2>7. CASE EvaluateGuard(r)
      BY <1>3, <2>7, <2>E, <2>P DEF TypeOK, EvaluateGuard, Continue, Goto, Planned, Places, Target
    <2>8. CASE WriteGuarded(r)
      BY <2>8, <2>E, <2>W DEF WriteGuarded, Matches, Planned, Places
    <2>9. CASE WritePlain(r)
      BY <2>9, <2>E, <2>W DEF WritePlain, Planned, Places
    <2>10. CASE Commit(r)
      BY <2>10, <2>E DEF Commit, Planned, Places
    <2>11. CASE GiveUp(r)
      BY <2>11, <2>E DEF GiveUp, Planned, Places
    <2> QED
      BY <1>1, <2>1, <2>2, <2>3, <2>4, <2>5, <2>6, <2>7, <2>8, <2>9, <2>10, <2>11 DEF RequestStep
  <1>5. ASSUME backend' = "sqlite", NEW p \in Requests, NEW q \in Requests,
               pc'[p] \in {"guarded", "written"}, pc'[q] \in {"guarded", "written"}
        PROVE  p = q
    BY <1>2, <1>3, <1>4, <1>5 DEF OthersKept, WriteInv, WriteLockFree
  <1>6. ASSUME backend' = "postgres", NEW q \in Requests, pc'[q] = "written"
        PROVE  lock'[Target(q)'] = q
    <2>1. CASE q = r
      BY <1>3, <1>4, <1>6, <2>1 DEF Target
    <2>2. CASE q # r
      <3>1. Target(q)' = Target(q) /\ lock[Target(q)] = q /\ Target(q) \in Users
        BY <1>2, <1>3, <1>6, <2>2 DEF OthersKept, WriteInv, TypeOK, Target, Planned, Places
      <3> QED
        BY <1>2, <2>2, <3>1, RosterAssumption DEF LocksKept
    <2> QED
      BY <2>1, <2>2
  <1>7. ASSUME NEW q \in Requests, pc'[q] \in Planned
        PROVE  row'[Target(q)'] # Unborn
    <2>1. CASE q # r
      <3>1. Target(q)' = Target(q) /\ row[Target(q)] # Unborn /\ Target(q) \in Users
        BY <1>2, <1>3, <1>7, <2>1 DEF OthersKept, WriteInv, TypeOK, Target
      <3>2. pc[r] = "written" => Result(r) # Unborn
        BY ResultType, RosterAssumption DEF Rows, Unborn, Gone
      <3> QED
        BY <1>2, <3>1, <3>2 DEF RowsKept
    <2> QED
      BY <1>4, <1>7, <2>1
  <1>8. ASSUME NEW q \in Requests, pc'[q] = "written", Writes(q)' # Gone
        PROVE  row'[Target(q)'] \in Rows
    <2>1. CASE q = r
      BY <1>4, <1>8, <2>1 DEF Writes, Target
    <2>2. CASE q # r
      <3>1. /\ pc[q] = "written" /\ Target(q)' = Target(q) /\ Target(q) \in Users
            /\ row[Target(q)] \in Rows
        BY <1>2, <1>3, <1>8, <2>2 DEF OthersKept, WriteInv, TypeOK, Target, Writes, Planned, Places
      <3>2. ~(pc[r] = "written" /\ Target(q) = Target(r))
        BY <1>3, <2>2, <3>1, RosterAssumption DEF WriteInv, TypeOK
      <3>3. row[Target(q)] # Unborn
        BY <3>1, RosterAssumption DEF Rows, Unborn
      <3> QED
        BY <1>2, <3>1, <3>2, <3>3 DEF RowsKept
    <2> QED
      BY <2>1, <2>2
  <1> QED
    BY <1>5, <1>6, <1>7, <1>8 DEF WriteInv

LEMMA TypeStutter == TypeInv /\ UNCHANGED vars => TypeInv'
  BY DEF TypeInv, TypeOK, WriteInv, vars, Target, Sees, Writes

\* Every request keeps the variables within their types, whatever overlaps.
THEOREM TypeCorrect == Spec => []TypeOK
  <1>1. TypeInv /\ [Next]_vars => TypeInv'
    BY TypeStep, WriteStep, TypeStutter DEF TypeInv
  <1>2. TypeInv => TypeOK
    BY DEF TypeInv
  <1> QED
    BY <1>1, <1>2, TypeInit, PTL DEF Spec

-----------------------------------------------------------------------------
(* An active admin remains, when no request gives access back.             *)

\* What a request read of its target only shrinks, and it asks for less still.
NoRise ==
    \A r \in Requests : pc[r] \in Planned =>
        /\ ~Raises(Sees(r), Writes(r))
        /\ IsActiveAdmin(row[Target(r)]) => IsActiveAdmin(Sees(r))

\* A request that has its locks holds every admin it found who is still one.
Held ==
    /\ \A r \in Requests : \A u \in want[r] : row[u] # Unborn
    /\ backend = "postgres" => \A r \in Requests :
          pc[r] \in {"locked", "guarded", "written"} /\ Guarded(r) =>
              \A u \in want[r] : IsActiveAdmin(row[u]) => lock[u] = r

\* Of two disarms, the one that selected later found the target of the earlier:
\* both must lock that row, however many admins were invited in between.
Selected(r) ==
    /\ pc[r] \in {"locking", "locked", "guarded", "written"} /\ Guarded(r)
    /\ IsActiveAdmin(row[Target(r)])
Ordered ==
    \A p, q \in Requests : Selected(p) /\ Selected(q) =>
        Target(p) \in want[q] \/ Target(q) \in want[p]

\* The WHERE a request has evaluated stays true until its commit.
Covered == \A r \in Requests : Disarming(r) => OthersRemain(r)

Logged ==
    /\ DisarmedOnce
    /\ \A u \in Users : disarms[u] > 0 => row[u] # Unborn
    /\ \A r \in Requests :
          pc[r] = "written" /\ Guarded(r) /\ Writes(r) # Gone => IsActiveAdmin(row[Target(r)])

RosterInv ==
    /\ TypeInv /\ NoRise /\ Held /\ Ordered /\ Covered /\ Logged
    /\ AdminRemains

LEMMA RosterInit == Init => RosterInv
  BY TypeInit, RosterAssumption
     DEF Init, RosterInv, NoRise, Held, Ordered, Selected, Covered, Disarming, Logged,
         DisarmedOnce, AdminRemains, Planned, Places

\* Where a request is says which step brought it there.
LEMMA ByPlace ==
    ASSUME TypeOK, NEW r \in Requests, RequestStep(r), pc'[r] \in Planned
    PROVE  /\ row' = row /\ disarms' = disarms
           /\ pc[r] = "authorized" => pc'[r] \notin {"locking", "locked", "guarded", "written"}
           /\ \/ \E u \in Users, new \in Rows \cup {Gone} : ReadTarget(r, u, new)
              \/ plan'[r] = plan[r] /\ pc[r] \in Planned /\ (want' = want \/ SelectAdmins(r))
           /\ pc'[r] = "locking" => SelectAdmins(r)
           /\ pc'[r] = "locked" => TakeLocks(r)
           /\ pc'[r] = "guarded" => EvaluateGuard(r) /\ Matches(r) /\ OthersRemain(r)
           /\ pc'[r] = "written" => (WriteGuarded(r) /\ Matches(r)) \/ WritePlain(r)
  <1> DEFINE Here ==
           /\ row' = row /\ disarms' = disarms
           /\ pc[r] = "authorized" => pc'[r] \notin {"locking", "locked", "guarded", "written"}
           /\ \/ \E u \in Users, new \in Rows \cup {Gone} : ReadTarget(r, u, new)
              \/ plan'[r] = plan[r] /\ pc[r] \in Planned /\ (want' = want \/ SelectAdmins(r))
           /\ pc'[r] = "locking" => SelectAdmins(r)
           /\ pc'[r] = "locked" => TakeLocks(r)
           /\ pc'[r] = "guarded" => EvaluateGuard(r) /\ Matches(r) /\ OthersRemain(r)
           /\ pc'[r] = "written" => (WriteGuarded(r) /\ Matches(r)) \/ WritePlain(r)
  <1>E. ~End(r)
    BY EndFrame DEF Planned, Places
  <1>1. ASSUME NEW u \in Users, Authorize(r, u) PROVE Here
    BY <1>1 DEF TypeOK, Authorize, Goto, Planned, Places
  <1>2. ASSUME NEW u \in Users, NEW role \in Roles, Invite(r, u, role) PROVE Here
    BY <1>2, <1>E DEF Invite
  <1>3. ASSUME NEW u \in Users, NEW new \in Rows \cup {Gone}, ReadTarget(r, u, new) PROVE Here
    <2>1. pc'[r] \in {"loaded", "cleared"} /\ row' = row /\ disarms' = disarms
      BY <1>3 DEF TypeOK, ReadTarget, Goto
    <2> QED
      BY <1>3, <2>1
  <1>4. CASE CheckCount(r)
    BY <1>4, <1>E DEF TypeOK, CheckCount, Continue, Goto, Planned, Places
  <1>5. CASE SelectAdmins(r)
    BY <1>5 DEF TypeOK, SelectAdmins, Goto, Planned, Places
  <1>6. CASE TakeLocks(r)
    BY <1>6 DEF TypeOK, TakeLocks, Goto, Planned, Places
  <1>7. CASE EvaluateGuard(r)
    BY <1>7, <1>E DEF TypeOK, EvaluateGuard, Continue, Goto, Planned, Places
  <1>8. CASE WriteGuarded(r)
    BY <1>8, <1>E DEF TypeOK, WriteGuarded, Goto, Planned, Places
  <1>9. CASE WritePlain(r)
    BY <1>9, <1>E DEF TypeOK, WritePlain, Goto, Planned, Places
  <1>10. CASE Commit(r)
    BY <1>10, <1>E DEF Commit
  <1>11. CASE GiveUp(r)
    BY <1>11, <1>E DEF GiveUp
  <1> QED
    BY <1>1, <1>2, <1>3, <1>4, <1>5, <1>6, <1>7, <1>8, <1>9, <1>10, <1>11 DEF RequestStep

\* Two disarms of active admins are never past their locks together: each holds
\* the row that both had to lock.
LEMMA Exclusion ==
    ASSUME RosterInv, NEW p \in Requests, NEW q \in Requests, Disarming(p), Disarming(q)
    PROVE  p = q
  <1>1. backend \in {"sqlite", "postgres"}
    BY RosterAssumption DEF RosterInv, TypeInv, TypeOK
  <1>2. CASE backend = "sqlite"
    BY <1>2 DEF RosterInv, TypeInv, WriteInv, Disarming
  <1>3. CASE backend = "postgres"
    <2>1. Selected(p) /\ Selected(q)
      BY DEF Disarming, Selected
    <2>2. /\ Target(p) \in want[q] \/ Target(q) \in want[p]
          /\ Target(p) \in want[p] /\ Target(q) \in want[q]
      BY <2>1 DEF RosterInv, Ordered
    <2>3. /\ \A u \in want[p] : IsActiveAdmin(row[u]) => lock[u] = p
          /\ \A u \in want[q] : IsActiveAdmin(row[u]) => lock[u] = q
      BY <1>3 DEF RosterInv, Held, Disarming
    <2> QED
      BY <2>2, <2>3 DEF Disarming
  <1> QED
    BY <1>1, <1>2, <1>3

\* Nobody becomes an active admin but by an invitation.
LEMMA NoneRises ==
    ASSUME RosterInv, NEW r \in Requests, RequestStep(r), NEW u \in Users,
           IsActiveAdmin(row'[u])
    PROVE  IsActiveAdmin(row[u]) \/ row[u] = Unborn
  <1>1. RowsKept(r)
    BY StepFrame DEF RosterInv, TypeInv
  <1>2. SUFFICES ASSUME pc[r] = "written", u = Target(r), row'[u] = Result(r)
                 PROVE  IsActiveAdmin(row[u])
    BY <1>1 DEF RowsKept
  <1>3. ~Raises(Sees(r), Writes(r)) /\ Sees(r) \in Rows
    BY <1>2 DEF RosterInv, NoRise, TypeInv, TypeOK, Planned, Places
  <1>4. CASE Guarded(r) \/ Writes(r) = Gone
    BY <1>2, <1>4 DEF Result, Guarded, Disarms, IsActiveAdmin, Gone
  <1>5. CASE ~Guarded(r) /\ Writes(r) # Gone
    <2>1. row'[u] = Changed(r, row[u])
      BY <1>2, <1>5 DEF Result
    <2>2. Writes(r) \in Rows
      BY <1>2, <1>5 DEF RosterInv, TypeInv, TypeOK, Planned, Places
    <2> QED
      BY <1>3, <2>1, <2>2 DEF Changed, Raises, IsActiveAdmin, Rows
  <1> QED
    BY <1>4, <1>5

\* An active admin stops being one only by the commit of a guarded write.
LEMMA WhoFalls ==
    ASSUME RosterInv, NEW r \in Requests, RequestStep(r), NEW u \in Users,
           IsActiveAdmin(row[u]), ~IsActiveAdmin(row'[u])
    PROVE  pc[r] = "written" /\ u = Target(r) /\ Disarming(r)
  <1>1. RowsKept(r)
    BY StepFrame DEF RosterInv, TypeInv
  <1>2. pc[r] = "written" /\ u = Target(r) /\ row'[u] = Result(r)
    BY <1>1 DEF RowsKept, IsActiveAdmin, Unborn
  <1>3. IsActiveAdmin(Sees(r)) /\ Sees(r) \in Rows /\ Writes(r) \in Rows \cup {Gone}
    BY <1>2 DEF RosterInv, NoRise, TypeInv, TypeOK, Planned, Places
  <1>4. ASSUME ~Guarded(r) PROVE FALSE
    <2>1. IsActiveAdmin(Writes(r)) /\ Writes(r) # Gone
      BY <1>3, <1>4 DEF Guarded, Disarms, IsActiveAdmin, Gone
    <2>2. row'[u] = Changed(r, row[u])
      BY <1>2, <1>4, <2>1 DEF Result
    <2> QED
      BY <1>3, <2>1, <2>2 DEF Changed, IsActiveAdmin, Rows
  <1> QED
    BY <1>2, <1>4 DEF Disarming

\* A row, once invited, is never uninvited.
LEMMA StaysInvited ==
    ASSUME RosterInv, NEW r \in Requests, RequestStep(r), NEW u \in Users, row[u] # Unborn
    PROVE  row'[u] # Unborn
  <1>1. pc[r] = "written" => Result(r) # Unborn
    BY ResultType, RosterAssumption DEF RosterInv, Rows, Unborn, Gone
  <1> QED
    BY <1>1, StepFrame DEF RosterInv, TypeInv, RowsKept

\* What a request read is still an upper bound of its target's access.
LEMMA NoRiseStep ==
    ASSUME Gains = FALSE, RosterInv, NEW r \in Requests, RequestStep(r)
    PROVE  NoRise'
  <1>1. TypeOK /\ OthersKept(r)
    BY StepFrame DEF RosterInv, TypeInv
  <1> SUFFICES ASSUME NEW q \in Requests, pc'[q] \in Planned
               PROVE  /\ ~Raises(Sees(q), Writes(q))'
                      /\ IsActiveAdmin(row[Target(q)])' => IsActiveAdmin(Sees(q))'
    BY DEF NoRise
  <1>2. ASSUME pc[q] \in Planned, plan'[q] = plan[q]
        PROVE  /\ ~Raises(Sees(q), Writes(q))'
               /\ IsActiveAdmin(row[Target(q)])' => IsActiveAdmin(Sees(q))'
    <2>1. /\ ~Raises(Sees(q), Writes(q)) /\ Target(q) \in Users /\ row[Target(q)] # Unborn
          /\ IsActiveAdmin(row[Target(q)]) => IsActiveAdmin(Sees(q))
      BY <1>1, <1>2 DEF RosterInv, NoRise, TypeInv, WriteInv, TypeOK
    <2>2. Sees(q)' = Sees(q) /\ Writes(q)' = Writes(q) /\ Target(q)' = Target(q)
      BY <1>2 DEF Sees, Writes, Target
    <2>3. IsActiveAdmin(row'[Target(q)]) => IsActiveAdmin(row[Target(q)])
      BY <2>1, NoneRises
    <2> QED
      BY <2>1, <2>2, <2>3 DEF Raises, IsActiveAdmin
  <1>3. ASSUME q = r, NEW u \in Users, NEW new \in Rows \cup {Gone}, ReadTarget(r, u, new)
        PROVE  /\ ~Raises(Sees(q), Writes(q))'
               /\ IsActiveAdmin(row[Target(q)])' => IsActiveAdmin(Sees(q))'
    <2>1. plan'[r] = [actor |-> NoUser, target |-> u, seen |-> row[u], new |-> new]
      BY <1>1, <1>3 DEF TypeOK, ReadTarget
    <2>2. ~Raises(row[u], new) /\ row' = row
      BY <1>3 DEF ReadTarget
    <2> QED
      BY <1>3, <2>1, <2>2 DEF Sees, Writes, Target, Raises, IsActiveAdmin
  <1> QED
    BY <1>1, <1>2, <1>3, ByPlace DEF OthersKept

\* Locks are kept until the commit, and the rows they protect do not rise.
LEMMA HeldStep ==
    ASSUME RosterInv, TypeOK', NEW r \in Requests, RequestStep(r), UNCHANGED backend
    PROVE  Held'
  <1>1. TypeOK /\ OthersKept(r) /\ LocksKept(r) /\ RowsKept(r)
    BY StepFrame DEF RosterInv, TypeInv
  <1>2. ASSUME NEW u \in Users, row[u] # Unborn PROVE row'[u] # Unborn
    BY <1>2, StaysInvited
  <1>3. ASSUME NEW q \in Requests, NEW u \in want'[q] PROVE row'[u] # Unborn
    <2>1. u \in Users
      BY <1>3 DEF TypeOK
    <2>2. CASE u \in want[q]
      BY <1>2, <2>1, <2>2 DEF RosterInv, Held
    <2>3. CASE u \notin want[q]
      <3>1. q = r /\ ~(want' = want)
        BY <1>1, <1>3, <2>3 DEF OthersKept
      <3>2. ~End(r)
        BY <1>1, <1>3, <3>1, EndFrame
      <3>3. SelectAdmins(r)
        BY <3>1, <3>2 DEF RequestStep, Authorize, Invite, ReadTarget, CheckCount, Continue,
              TakeLocks, EvaluateGuard, WriteGuarded, WritePlain, Commit, GiveUp
      <3>4. u \in ActiveAdmins /\ row' = row
        BY <1>1, <1>3, <2>3, <3>1, <3>3 DEF SelectAdmins, TypeOK
      <3> QED
        BY <3>4 DEF ActiveAdmins, IsActiveAdmin, Unborn
    <2> QED
      BY <2>2, <2>3
  <1>4. ASSUME backend = "postgres", NEW q \in Requests,
               pc'[q] \in {"locked", "guarded", "written"}, Guarded(q)',
               NEW u \in want'[q], IsActiveAdmin(row'[u])
        PROVE  lock'[u] = q
    <2>0. u \in Users
      BY <1>4 DEF TypeOK
    <2>1. CASE q # r
      <3>1. /\ u \in want[q] /\ row[u] # Unborn /\ Guarded(q)
            /\ pc[q] \in {"locked", "guarded", "written"}
        BY <1>1, <1>4, <2>1 DEF OthersKept, RosterInv, Held, Guarded, Sees, Writes
      <3>2. lock[u] = q
        BY <1>4, <2>0, <3>1, NoneRises DEF RosterInv, Held
      <3> QED
        BY <1>1, <2>0, <2>1, <3>2, RosterAssumption DEF LocksKept
    <2>2. CASE q = r
      <3>1. pc'[r] \in Planned
        BY <1>4, <2>2 DEF Planned, Places
      <3>2. row' = row
        BY <1>1, <3>1, ByPlace
      <3>3. CASE TakeLocks(r)
        BY <1>1, <1>4, <2>0, <2>2, <3>2, <3>3
           DEF TakeLocks, TakeRows, RowsToLock, ActiveAdmins, TypeOK
      <3>4. CASE EvaluateGuard(r) \/ WriteGuarded(r)
        <4>1. ~End(r)
          BY <1>1, <3>1, EndFrame DEF Planned, Places
        <4>2. /\ pc[r] \in {"locked", "guarded"} /\ want' = want /\ plan' = plan
          BY <3>4, <4>1 DEF EvaluateGuard, WriteGuarded, Continue
        <4>3. lock[u] = r
          BY <1>4, <2>2, <3>2, <4>2 DEF RosterInv, Held, Guarded, Sees, Writes
        <4> QED
          BY <1>1, <2>0, <2>2, <3>4, <4>1, <4>3, RosterAssumption
             DEF EvaluateGuard, WriteGuarded, Continue, TakeRows
      <3>5. CASE WritePlain(r)
        <4>1. plan' = plan
          BY <1>1, <3>1, <3>5, EndFrame DEF WritePlain, Planned, Places
        <4> QED
          BY <1>4, <2>2, <3>5, <4>1 DEF WritePlain, Guarded, Sees, Writes
      <3> QED
        BY <1>1, <1>4, <2>2, <3>1, <3>3, <3>4, <3>5, ByPlace
    <2> QED
      BY <2>1, <2>2
  <1> QED
    BY <1>3, <1>4 DEF Held

\* A disarm that has selected the admins had selected them before, or does now.
LEMMA SelectedBefore ==
    ASSUME RosterInv, NEW r \in Requests, RequestStep(r), NEW q \in Requests, Selected(q)'
    PROVE  /\ Target(q)' = Target(q) /\ Target(q) \in Users
           /\ IsActiveAdmin(row[Target(q)])
           /\ \/ Selected(q) /\ want'[q] = want[q]
              \/ q = r /\ want'[q] = ActiveAdmins
  <1>1. TypeOK /\ OthersKept(r)
    BY StepFrame DEF RosterInv, TypeInv
  <1>2. CASE q # r
    <2>1. /\ pc'[q] = pc[q] /\ want'[q] = want[q]
          /\ Target(q)' = Target(q) /\ Sees(q)' = Sees(q) /\ Writes(q)' = Writes(q)
      BY <1>1, <1>2 DEF OthersKept, Target, Sees, Writes
    <2>2. pc[q] \in Planned
      BY <2>1 DEF Selected, Planned, Places
    <2>3. Target(q) \in Users /\ row[Target(q)] # Unborn
      BY <1>1, <2>2 DEF RosterInv, TypeInv, WriteInv, TypeOK
    <2>4. IsActiveAdmin(row'[Target(q)])
      BY <2>1 DEF Selected
    <2>5. IsActiveAdmin(row[Target(q)])
      BY <2>3, <2>4, NoneRises
    <2> QED
      BY <2>1, <2>3, <2>5 DEF Selected, Guarded
  <1>3. CASE q = r
    <2>1. pc'[r] \in {"locking", "locked", "guarded", "written"} /\ pc'[r] \in Planned
      BY <1>3 DEF Selected, Planned, Places
    <2>2. row' = row /\ ~End(r)
      BY <1>1, <2>1, ByPlace, EndFrame
    <2>3. SelectAdmins(r) \/ TakeLocks(r) \/ EvaluateGuard(r) \/ WriteGuarded(r) \/ WritePlain(r)
      BY <1>1, <2>1, ByPlace
    <2>4. plan' = plan /\ pc[r] \in Planned
      BY <2>2, <2>3 DEF SelectAdmins, TakeLocks, EvaluateGuard, WriteGuarded, WritePlain, Continue,
                        Planned, Places
    <2>5. /\ Target(r)' = Target(r) /\ Guarded(r)' = Guarded(r) /\ Target(r) \in Users
          /\ IsActiveAdmin(row[Target(r)]) /\ Guarded(r)
      BY <1>1, <1>3, <2>2, <2>4 DEF Selected, Target, Guarded, Sees, Writes, TypeOK
    <2>6. CASE SelectAdmins(r)
      BY <1>1, <1>3, <2>5, <2>6 DEF SelectAdmins, TypeOK
    <2>7. CASE TakeLocks(r) \/ EvaluateGuard(r) \/ WriteGuarded(r)
      BY <1>3, <2>2, <2>5, <2>7 DEF TakeLocks, EvaluateGuard, WriteGuarded, Continue, Selected
    <2> QED
      BY <2>3, <2>5, <2>6, <2>7 DEF WritePlain
  <1> QED
    BY <1>2, <1>3

LEMMA OrderedStep ==
    ASSUME RosterInv, NEW r \in Requests, RequestStep(r)
    PROVE  Ordered'
  <1> SUFFICES ASSUME NEW p \in Requests, NEW q \in Requests, Selected(p)', Selected(q)'
               PROVE  Target(p)' \in want'[q] \/ Target(q)' \in want'[p]
    BY DEF Ordered
  <1>1. /\ Target(p)' = Target(p) /\ Target(p) \in ActiveAdmins
        /\ Target(q)' = Target(q) /\ Target(q) \in ActiveAdmins
    BY SelectedBefore DEF ActiveAdmins
  <1>2. CASE Selected(p) /\ want'[p] = want[p] /\ Selected(q) /\ want'[q] = want[q]
    BY <1>1, <1>2 DEF RosterInv, Ordered
  <1>3. CASE want'[p] = ActiveAdmins \/ want'[q] = ActiveAdmins
    BY <1>1, <1>3
  <1> QED
    BY <1>2, <1>3, SelectedBefore

\* The cover of a disarm can fall only by another disarm, which Exclusion
\* forbids.
LEMMA CoveredStep ==
    ASSUME RosterInv, NEW r \in Requests, RequestStep(r)
    PROVE  Covered'
  <1>1. TypeOK /\ OthersKept(r)
    BY StepFrame DEF RosterInv, TypeInv
  <1> SUFFICES ASSUME NEW q \in Requests, Disarming(q)'
               PROVE  OthersRemain(q)'
    BY DEF Covered
  <1>2. /\ Selected(q)' /\ pc'[q] \in {"guarded", "written"} /\ pc'[q] \in Planned
    BY DEF Disarming, Selected, Planned, Places
  <1>3. Target(q)' = Target(q) /\ Target(q) \in Users
    BY <1>2, SelectedBefore
  <1>4. CASE q # r
    <2>1. Disarming(q)
      <3>1. pc[q] = pc'[q] /\ Guarded(q)' = Guarded(q)
        BY <1>1, <1>4 DEF OthersKept, Guarded, Sees, Writes
      <3> QED
        BY <1>2, <3>1, SelectedBefore DEF Disarming
    <2>2. PICK v \in Users \ {Target(q)} : IsActiveAdmin(row[v])
      BY <2>1 DEF RosterInv, Covered, OthersRemain, ActiveAdmins
    <2>3. IsActiveAdmin(row'[v])
      BY <1>4, <2>1, <2>2, WhoFalls, Exclusion
    <2> QED
      BY <1>3, <2>2, <2>3 DEF OthersRemain, ActiveAdmins
  <1>5. CASE q = r
    <2>1. row' = row
      BY <1>1, <1>2, <1>5, ByPlace
    <2>2. OthersRemain(r)
      <3>1. CASE pc'[r] = "guarded"
        BY <1>1, <1>2, <1>5, <3>1, ByPlace
      <3>2. CASE pc'[r] = "written"
        <4>1. WriteGuarded(r) \/ WritePlain(r)
          BY <1>1, <1>2, <1>5, <3>2, ByPlace
        <4>2. plan' = plan
          BY <1>1, <3>2, <4>1, EndFrame DEF WriteGuarded, WritePlain
        <4>3. Guarded(r) /\ IsActiveAdmin(row[Target(r)])
          BY <1>3, <1>5, <2>1, <4>2 DEF Disarming, Guarded, Sees, Writes
        <4> QED
          BY <4>1, <4>3 DEF WriteGuarded, WritePlain, Disarming, RosterInv, Covered
      <3> QED
        BY <1>2, <1>5, <3>1, <3>2
    <2> QED
      BY <1>3, <1>5, <2>1, <2>2 DEF OthersRemain, ActiveAdmins
  <1> QED
    BY <1>4, <1>5

\* The last one is not taken: the commit of a disarm leaves its cover.
LEMMA AdminStep ==
    ASSUME RosterInv, NEW r \in Requests, RequestStep(r)
    PROVE  AdminRemains'
  <1>1. PICK u \in Users : IsActiveAdmin(row[u])
    BY DEF RosterInv, AdminRemains, ActiveAdmins
  <1>2. CASE IsActiveAdmin(row'[u])
    BY <1>2 DEF AdminRemains, ActiveAdmins
  <1>3. CASE ~IsActiveAdmin(row'[u])
    <2>1. Disarming(r) /\ u = Target(r)
      BY <1>1, <1>3, WhoFalls
    <2>2. PICK v \in Users \ {u} : IsActiveAdmin(row[v])
      BY <2>1 DEF RosterInv, Covered, OthersRemain, ActiveAdmins
    <2>3. IsActiveAdmin(row'[v])
      BY <2>1, <2>2, WhoFalls
    <2> QED
      BY <2>2, <2>3 DEF AdminRemains, ActiveAdmins
  <1> QED
    BY <1>2, <1>3

LEMMA LoggedStep ==
    ASSUME RosterInv, NEW r \in Requests, RequestStep(r)
    PROVE  Logged'
  <1>1. TypeOK /\ OthersKept(r) /\ Logged
    BY StepFrame DEF RosterInv, TypeInv
  <1>2. ASSUME NEW u \in Users
        PROVE  \/ disarms'[u] = disarms[u]
               \/ /\ IsActiveAdmin(row[u]) /\ disarms'[u] = disarms[u] + 1
                  /\ ~IsActiveAdmin(row'[u]) /\ row'[u] # Unborn
    <2>1. CASE disarms' = disarms
      BY <2>1
    <2>2. CASE Commit(r) /\ Guarded(r) /\ Writes(r) # Gone
      <3>1. Target(r) \in Users /\ IsActiveAdmin(row[Target(r)]) /\ Writes(r) \in Rows
        BY <1>1, <2>2 DEF TypeOK, Logged, Commit, Planned, Places
      <3>2. row' = [row EXCEPT ![Target(r)] = Writes(r)] /\ ~IsActiveAdmin(Writes(r))
        BY <2>2 DEF Commit, Result, Guarded, Disarms
      <3>3. row'[Target(r)] = Writes(r) /\ Writes(r) # Unborn
        BY <1>1, <3>1, <3>2, RosterAssumption DEF TypeOK, Rows, Unborn
      <3> QED
        BY <1>1, <2>2, <3>1, <3>2, <3>3 DEF TypeOK, Commit
    <2> QED
      BY <2>1, <2>2 DEF RequestStep, Authorize, Invite, ReadTarget, CheckCount, SelectAdmins,
            TakeLocks, EvaluateGuard, WriteGuarded, WritePlain, Commit, GiveUp
  <1>3. ASSUME NEW u \in Users
        PROVE  /\ disarms'[u] <= 1
               /\ disarms'[u] = 1 => ~IsActiveAdmin(row'[u])
               /\ disarms'[u] > 0 => row'[u] # Unborn
    <2>1. /\ disarms[u] <= 1 /\ disarms[u] \in Nat
          /\ disarms[u] = 1 => ~IsActiveAdmin(row[u])
          /\ disarms[u] > 0 => row[u] # Unborn
      BY <1>1, RosterAssumption DEF TypeOK, Logged, DisarmedOnce
    <2>2. CASE disarms'[u] = disarms[u]
      BY <2>1, <2>2, NoneRises, StaysInvited
    <2>3. CASE /\ IsActiveAdmin(row[u]) /\ disarms'[u] = disarms[u] + 1
               /\ ~IsActiveAdmin(row'[u]) /\ row'[u] # Unborn
      BY <2>1, <2>3
    <2> QED
      BY <1>2, <2>2, <2>3
  <1>4. ASSUME NEW q \in Requests, pc'[q] = "written", Guarded(q)', Writes(q)' # Gone
        PROVE  IsActiveAdmin(row'[Target(q)'])
    <2>1. CASE q # r
      <3>1. /\ pc[q] = "written" /\ Guarded(q) /\ Writes(q) # Gone
            /\ Target(q)' = Target(q) /\ Target(q) \in Users
        BY <1>1, <1>4, <2>1 DEF OthersKept, Guarded, Sees, Writes, Target, TypeOK, Planned, Places
      <3>2. IsActiveAdmin(row[Target(q)]) /\ Disarming(q)
        BY <1>1, <3>1 DEF Logged, Disarming
      <3> QED
        BY <2>1, <3>1, <3>2, WhoFalls, Exclusion
    <2>2. CASE q = r
      <3>1. /\ row' = row /\ ~End(r)
            /\ (WriteGuarded(r) /\ Matches(r)) \/ WritePlain(r)
        BY <1>1, <1>4, <2>2, ByPlace, EndFrame DEF Planned, Places
      <3>2. plan' = plan
        BY <3>1 DEF WriteGuarded, WritePlain
      <3> QED
        BY <1>4, <2>2, <3>1, <3>2 DEF WritePlain, Matches, Guarded, Sees, Writes, Target
    <2> QED
      BY <2>1, <2>2
  <1> QED
    BY <1>3, <1>4 DEF Logged, DisarmedOnce

LEMMA RosterStutter == RosterInv /\ UNCHANGED vars => RosterInv'
  BY TypeStutter
     DEF vars, RosterInv, NoRise, Held, Ordered, Selected, Covered, Disarming, OthersRemain, Logged,
         DisarmedOnce, AdminRemains, ActiveAdmins, Guarded, Target, Sees, Writes

LEMMA RosterStep ==
    ASSUME Gains = FALSE, RosterInv, [Next]_vars
    PROVE  RosterInv'
  <1>1. CASE UNCHANGED vars
    BY <1>1, RosterStutter
  <1>2. CASE Next
    <2>1. PICK r \in Requests : RequestStep(r) /\ UNCHANGED backend
      BY <1>2 DEF Next
    <2>2. TypeInv'
      BY <1>2, TypeStep, WriteStep DEF RosterInv, TypeInv
    <2> QED
      BY <2>1, <2>2, NoRiseStep, HeldStep, OrderedStep, CoveredStep, LoggedStep, AdminStep
         DEF RosterInv, TypeInv
  <1> QED
    BY <1>1, <1>2

-----------------------------------------------------------------------------
(* Requests that only take access away, in any number and order            *)

\* The guard in the WHERE, its lock and the commit keep an active admin,
\* whatever disarms, deletes and invitations overlap, on SQLite and Postgres.
THEOREM AnAdminRemains ==
    ASSUME Gains = FALSE
    PROVE  Spec => []AdminRemains
  <1>1. RosterInv => AdminRemains
    BY DEF RosterInv
  <1> QED
    BY <1>1, RosterInit, RosterStep, PTL DEF Spec

\* Two guarded writes against active admins never overlap: the second waits for
\* the write lock on SQLite, for a row of the first on Postgres.
THEOREM DisarmsTakeTurns ==
    ASSUME Gains = FALSE
    PROVE  Spec => []DisarmsSerialized
  <1>1. RosterInv => DisarmsSerialized
    BY Exclusion DEF DisarmsSerialized
  <1> QED
    BY <1>1, RosterInit, RosterStep, PTL DEF Spec

\* One request takes a given admin's access away, and the log says it once.
THEOREM EachDisarmOnce ==
    ASSUME Gains = FALSE
    PROVE  Spec => []DisarmedOnce
  <1>1. RosterInv => DisarmedOnce
    BY DEF RosterInv, Logged
  <1> QED
    BY <1>1, RosterInit, RosterStep, PTL DEF Spec

-----------------------------------------------------------------------------
(* The overlapping requests implement the atomic roster.                   *)

\* The access of a user, case by case.
LEMMA AccessOf ==
    ASSUME TypeOK, NEW u \in Users
    PROVE  /\ Access[u] \in {"unborn", "gone", "admin", "other"}
           /\ Access[u] = "unborn" <=> row[u] = Unborn
           /\ Access[u] = "gone" <=> row[u] = Gone
           /\ Access[u] = "admin" <=> IsActiveAdmin(row[u])
  <1>1. Unborn # Gone /\ ~IsActiveAdmin(Unborn) /\ ~IsActiveAdmin(Gone)
    BY DEF Unborn, Gone, IsActiveAdmin
  <1> QED
    BY <1>1 DEF Access

\* The same after a step.
LEMMA AccessNext ==
    ASSUME TypeOK', NEW u \in Users
    PROVE  /\ Access'[u] \in {"unborn", "gone", "admin", "other"}
           /\ Access'[u] = "unborn" <=> row'[u] = Unborn
           /\ Access'[u] = "gone" <=> row'[u] = Gone
           /\ Access'[u] = "admin" <=> IsActiveAdmin(row'[u])
  <1>1. Unborn # Gone /\ ~IsActiveAdmin(Unborn) /\ ~IsActiveAdmin(Gone)
    BY DEF Unborn, Gone, IsActiveAdmin
  <1> QED
    BY <1>1 DEF Access

\* A step writes one row at most: that of an invited user, or the target's.
LEMMA OneRow ==
    ASSUME TypeInv, NEW r \in Requests, RequestStep(r), row' # row
    PROVE  \E u \in Users :
             /\ \A v \in Users \ {u} : row'[v] = row[v]
             /\ \/ row[u] = Unborn /\ row'[u] \in Rows
                \/ pc[r] = "written" /\ u = Target(r) /\ row'[u] = Result(r)
  <1>1. CASE \E u \in Users, role \in Roles : Invite(r, u, role)
    <2>1. PICK u \in Users, role \in Roles : Invite(r, u, role)
      BY <1>1
    <2>2. row[u] = Unborn /\ row' = [row EXCEPT ![u] = [role |-> role, active |-> TRUE]]
      BY <2>1 DEF Invite
    <2> QED
      BY <2>2 DEF TypeInv, TypeOK, Rows
  <1>2. CASE Commit(r)
    <2>1. Target(r) \in Users /\ row' = [row EXCEPT ![Target(r)] = Result(r)]
      BY <1>2 DEF Commit, TypeInv, TypeOK, Planned, Places
    <2> QED
      BY <1>2, <2>1 DEF Commit, TypeInv, TypeOK
  <1> QED
    BY <1>1, <1>2 DEF RequestStep, Authorize, ReadTarget, CheckCount, SelectAdmins, TakeLocks,
                      EvaluateGuard, WriteGuarded, WritePlain, GiveUp

\* What is deleted stays deleted: an UPDATE never brings a row back.
LEMMA StaysGone ==
    ASSUME RosterInv, NEW r \in Requests, RequestStep(r), NEW u \in Users, row[u] = Gone
    PROVE  row'[u] = Gone
  <1>1. Gone \notin Rows /\ Gone # Unborn
    BY RosterAssumption DEF Rows, Gone, Unborn
  <1>2. CASE pc[r] = "written" /\ u = Target(r) /\ row'[u] = Result(r)
    <2>1. Writes(r) = Gone
      BY <1>1, <1>2 DEF RosterInv, TypeInv, WriteInv
    <2> QED
      BY <1>2, <2>1 DEF Result
  <1> QED
    BY <1>1, <1>2, StepFrame DEF RosterInv, TypeInv, RowsKept

\* Nobody is the target of a write before being invited, so the first change is
\* an invitation.
LEMMA NeverTarget ==
    ASSUME RosterInv, NEW r \in Requests, pc[r] = "written"
    PROVE  row[Target(r)] # Unborn
  BY DEF RosterInv, TypeInv, WriteInv, Planned, Places

\* What a step writes, as a move of the roster: an active admin falls under
\* the cover that the WHERE of the write has found.
LEMMA RosterMoves ==
    ASSUME RosterInv, TypeOK', NEW r \in Requests, RequestStep(r)
    PROVE  Roster!RosterNext \/ Access' = Access
  <1>1. CASE row' = row
    BY <1>1 DEF Access
  <1>2. CASE row' # row
    <2>1. PICK u \in Users :
            /\ \A v \in Users \ {u} : row'[v] = row[v]
            /\ \/ row[u] = Unborn /\ row'[u] \in Rows
               \/ pc[r] = "written" /\ u = Target(r) /\ row'[u] = Result(r)
      BY <1>2, OneRow DEF RosterInv
    <2>2. /\ Access[u] \in {"unborn", "gone", "admin", "other"}
          /\ Access[u] = "unborn" <=> row[u] = Unborn
          /\ Access[u] = "gone" <=> row[u] = Gone
          /\ \A v \in Users : Access[v] = "admin" <=> IsActiveAdmin(row[v])
      BY AccessOf DEF RosterInv, TypeInv
    <2>3. /\ Access'[u] \in {"unborn", "gone", "admin", "other"}
          /\ Access'[u] = "unborn" <=> row'[u] = Unborn
          /\ Access'[u] = "gone" <=> row'[u] = Gone
          /\ Access'[u] = "admin" <=> IsActiveAdmin(row'[u])
      BY AccessNext
    <2>4. Roster!Becomes(u, Access'[u])
      <3>1. \A v \in Users \ {u} : Access'[v] = Access[v]
        BY <2>1 DEF Access
      <3>2. /\ Access = [v \in Users |-> Access[v]]
            /\ Access' = [v \in Users |-> Access'[v]]
        BY DEF Access
      <3> QED
        BY <3>1, <3>2 DEF Roster!Becomes
    <2>5. CASE Access'[u] = Access[u]
      <3>1. Access' = Access
        BY <2>1, <2>5 DEF Access
      <3> QED
        BY <3>1
    <2>6. CASE Access[u] = "unborn" /\ Access'[u] # "unborn"
      <3>1. row'[u] # Gone
        BY <2>1, <2>2, <2>6, NeverTarget, RosterAssumption DEF Rows, Gone
      <3>2. Access'[u] \in {"admin", "other"}
        BY <2>3, <2>6, <3>1
      <3> QED
        BY <2>4, <2>6, <3>2 DEF Roster!RosterNext, Roster!Join
    <2>7. CASE Access[u] = "gone"
      BY <2>2, <2>3, <2>5, <2>7, StaysGone
    <2>8. CASE Access[u] = "other" /\ Access'[u] # "other"
      <3>1. Access'[u] = "gone"
        BY <2>2, <2>3, <2>8, NoneRises, StaysInvited
      <3> QED
        BY <2>4, <2>8, <3>1 DEF Roster!RosterNext, Roster!Leave
    <2>9. CASE Access[u] = "admin" /\ Access'[u] # "admin"
      <3>1. Disarming(r) /\ u = Target(r)
        BY <2>2, <2>3, <2>9, WhoFalls
      <3>2. PICK v \in Users \ {u} : IsActiveAdmin(row[v])
        BY <3>1 DEF RosterInv, Covered, OthersRemain, ActiveAdmins
      <3>3. Access[v] = "admin"
        BY <2>2, <3>2
      <3>4. Access'[u] \in {"other", "gone"}
        BY <2>2, <2>3, <2>9, StaysInvited
      <3> QED
        BY <2>4, <2>9, <3>2, <3>3, <3>4 DEF Roster!RosterNext, Roster!Disarm
    <2> QED
      BY <2>2, <2>5, <2>6, <2>7, <2>8, <2>9
  <1> QED
    BY <1>1, <1>2

\* Requests that only take access away, however they interleave, implement the
\* contract: every write with its guard counts as one step.
THEOREM ImplementsRoster ==
    ASSUME Gains = FALSE
    PROVE  Spec => KeepsRoster
  <1>1. Init => Roster!RosterInit
    <2> SUFFICES ASSUME Init
                 PROVE  Roster!RosterInit
      OBVIOUS
    <2>1. TypeOK /\ row \in [Users -> Rows \cup {Unborn}] /\ ActiveAdmins # {}
      BY TypeInit DEF Init, TypeInv
    <2>2. \A u \in Users : row[u] # Gone
      BY <2>1, RosterAssumption DEF Rows, Unborn, Gone
    <2>3. \A u \in Users : Access[u] \in {"unborn", "admin", "other"}
      BY <2>1, <2>2, AccessOf
    <2>4. Access \in [Users -> {"unborn", "admin", "other"}]
      BY <2>3 DEF Access
    <2>5. \E u \in Users : Access[u] = "admin"
      BY <2>1, AccessOf DEF ActiveAdmins
    <2> QED
      BY <2>4, <2>5 DEF Roster!RosterInit
  <1>2. RosterInv /\ TypeOK' /\ [Next]_vars => [Roster!RosterNext]_Access
    <2>1. UNCHANGED vars => Access' = Access
      BY DEF vars, Access
    <2> QED
      BY <2>1, RosterMoves DEF Next
  <1>3. RosterInv => TypeOK
    BY DEF RosterInv, TypeInv
  <1> QED
    BY <1>1, <1>2, <1>3, RosterInit, RosterStep, PTL
       DEF Spec, KeepsRoster, Roster!RosterSpec
=============================================================================
