-------------------------- MODULE ComputeResources --------------------------
(***************************************************************************)
(* The process-wide resources that runs and requests of one worker share:  *)
(* the pooled database connections, the threads of the default executor,   *)
(* the attribution slot, the finalize semaphore and the samples-export     *)
(* guard.  What a handler computes is left out; what it takes, in which    *)
(* order, and what it gives back when it raises, is its program.           *)
(*                                                                         *)
(* An operation of a program:                                              *)
(*   "db"    a statement: checks a connection out if the session has none  *)
(*   "free"  commit, rollback or close: the connection goes back           *)
(*   "cpu"   await asyncio.to_thread                                       *)
(*   "enter" / "leave"   async with _attribution_slot()                    *)
(*   "sem" / "unsem"     async with _FINALIZE_SEMAPHORE                    *)
(*   "fit"   run_in_threadpool: a thread of its own, larger pool           *)
(*   "guard" the non-blocking acquire of the samples export                *)
(*   "stream" the body of the samples export                               *)
(***************************************************************************)
EXTENDS Naturals, FiniteSets, Sequences, SequencesExt

CONSTANTS Arrivals,  \* background runs and requests that arrive
          PoolSize,  \* connections: size 5 and overflow 10
          Workers    \* threads of the default executor

ASSUME SizesAssumption ==
  Arrivals \in Nat /\ PoolSize \in Nat \ {0} /\ Workers \in Nat \ {0}

\* Numbered in the order in which they begin.
Procs == 1..Arrivals

VARIABLES kind,     \* what a process is, once it has started
          todo,     \* the rest of its program
          conns,    \* who holds a pooled connection
          workers,  \* who has a thread of the default executor
          slot,     \* the attribution slot: its holder, then the queue
          sem,      \* the finalize semaphore: its holder, then the queue
          permits,  \* free permits of the samples-export guard
          hold,     \* per export: does it owe the guard a release?
          hooks     \* how many of its release hooks may still run

guardVars == <<permits, hold, hooks>>
vars == <<kind, todo, conns, workers, slot, sem, permits, hold, hooks>>

-----------------------------------------------------------------------------
(* Programs.                                                               *)

Statement == <<"db", "free">>

\* Bug: no release between the check and the thread.
RunHolding(rest) == Statement \o <<"db", "cpu", "free">> \o Statement \o rest

\* Phase 1, the cancel check, the Monte Carlo, then what follows it.
RunWith(rest) == Statement \o Statement \o <<"cpu">> \o Statement \o rest

\* The ensemble is the whole attribution of a SINGLE run.
SingleRun == RunWith(<<"enter", "cpu", "leave">> \o Statement)

\* Canonical attribution, several threads one after the other, then the
\* ensemble in a turn of its own, one more check and the terminal UPDATE.
AggregateRun ==
  RunWith(<<"enter", "cpu", "cpu", "leave", "enter", "cpu", "leave">>
          \o Statement \o Statement)

\* A small run is awaited by the request that created it.
InlineRun == Statement \o SingleRun \o Statement

\* Counts the export and commits, reads the report's data and closes the session,
\* renders, and audits the download in a session of its own.
Report == Statement \o Statement \o <<"cpu">> \o Statement

Finalize == <<"sem", "db", "fit", "free", "unsem">>

\* The step-4 page has read its draft when it queues for the semaphore.
Readout == <<"db", "sem", "fit", "unsem", "free">>

\* The session's last "free" is FastAPI's teardown: after the body, or before.
Export(teardown) ==
  <<"db", "guard", "db", "free", "db", "fit">> \o
    (IF teardown = "early" THEN <<"free", "stream">> ELSE <<"stream", "free">>)

Kinds == {"run", "report", "finalize", "readout", "export"}

Scripts ==
  [run |-> {SingleRun, AggregateRun, InlineRun}, report |-> {Report},
   finalize |-> {Finalize}, readout |-> {Readout},
   export |-> {Export("early"), Export("late")}]

\* A run that fails rolls back and writes its FAILED row; when that raises
\* too, its session closes.
Handler(k) == IF k = "run" THEN <<"free">> \o Statement ELSE <<"free">>

-----------------------------------------------------------------------------
(* Who holds what.                                                         *)

At(p, op) == todo[p] # <<>> /\ Head(todo[p]) = op

Ended(p) == todo[p] = <<>>

Holds(queue, p) == queue # <<>> /\ Head(queue) = p

\* Nobody stands in a queue twice.
Without(queue, p) ==
  IF Contains(queue, p)
  THEN RemoveAt(queue, CHOOSE i \in DOMAIN queue : queue[i] = p)
  ELSE queue

\* A statement is over in milliseconds; these are not.
Slow(p) == \E op \in {"cpu", "enter", "sem", "fit", "stream"} : At(p, op)

\* Whoever waits for a connection now may wait for the pool's 30 seconds.
Starved == Cardinality(conns) = PoolSize /\ \A p \in conns : Slow(p)

Holder(p) == p \in conns \/ p \in workers \/ Contains(slot, p) \/ Contains(sem, p)

-----------------------------------------------------------------------------
(* Steps of a program.                                                     *)

Advance(p) == todo' = [todo EXCEPT ![p] = Tail(@)]

Begin(p, k) ==
  /\ kind[p] = "none" /\ \A q \in 1..(p - 1) : kind[q] # "none"
  /\ kind' = [kind EXCEPT ![p] = k]
  /\ \E s \in Scripts[k] : todo' = [todo EXCEPT ![p] = s]
  /\ UNCHANGED <<conns, workers, slot, sem, guardVars>>

Connect(p) ==
  /\ At(p, "db") /\ p \notin conns
  /\ Cardinality(conns) < PoolSize
  /\ conns' = conns \cup {p}
  /\ Advance(p)
  /\ UNCHANGED <<kind, workers, slot, sem, guardVars>>

\* The session still has its connection.
Execute(p) ==
  /\ At(p, "db") /\ p \in conns
  /\ Advance(p)
  /\ UNCHANGED <<kind, conns, workers, slot, sem, guardVars>>

Free(p) ==
  /\ At(p, "free")
  /\ conns' = conns \ {p}
  /\ Advance(p)
  /\ UNCHANGED <<kind, workers, slot, sem, guardVars>>

\* A queued call parks no thread: it waits until the executor has one for it.
TakeThread(p) ==
  /\ At(p, "cpu") /\ p \notin workers
  /\ Cardinality(workers) < Workers
  /\ workers' = workers \cup {p}
  /\ UNCHANGED <<kind, todo, conns, slot, sem, guardVars>>

Computed(p) ==
  /\ At(p, "cpu") /\ p \in workers
  /\ workers' = workers \ {p}
  /\ Advance(p)
  /\ UNCHANGED <<kind, conns, slot, sem, guardVars>>

\* asyncio's Lock and Semaphore serve their waiters in order.
Queue(p) ==
  /\ \/ At(p, "enter") /\ ~Contains(slot, p) /\ slot' = Append(slot, p) /\ UNCHANGED sem
     \/ At(p, "sem") /\ ~Contains(sem, p) /\ sem' = Append(sem, p) /\ UNCHANGED slot
  /\ UNCHANGED <<kind, todo, conns, workers, guardVars>>

\* Bug: a lock of its own for each caller.
TakeTurnAlone(p) ==
  /\ \/ At(p, "enter") /\ Contains(slot, p)
     \/ At(p, "sem") /\ Holds(sem, p)
  /\ Advance(p)
  /\ UNCHANGED <<kind, conns, workers, slot, sem, guardVars>>

TakeTurn(p) ==
  /\ \/ At(p, "enter") /\ Holds(slot, p)
     \/ At(p, "sem") /\ Holds(sem, p)
  /\ Advance(p)
  /\ UNCHANGED <<kind, conns, workers, slot, sem, guardVars>>

EndTurn(p) ==
  /\ \/ At(p, "leave") /\ slot' = Without(slot, p) /\ UNCHANGED sem
     \/ At(p, "unsem") /\ sem' = Without(sem, p) /\ UNCHANGED slot
  /\ Advance(p)
  /\ UNCHANGED <<kind, conns, workers, guardVars>>

\* An export has built its body when its arrays are decoded: from then on only
\* a hook of the body gives the guard back, its finalizer at the latest.
Fitted(p) ==
  /\ At(p, "fit")
  /\ hooks' = [hooks EXCEPT ![p] = IF kind[p] = "export" THEN 1 ELSE @]
  /\ Advance(p)
  /\ UNCHANGED <<kind, conns, workers, slot, sem, permits, hold>>

-----------------------------------------------------------------------------
(* The samples-export guard.                                               *)

\* Bug: every hook releases.
OwesAlways(p) == TRUE

\* release_slot is one-shot.
Owes(p) == hold[p] = "held"

Release(p) ==
  /\ permits' = IF Owes(p) THEN permits + 1 ELSE permits
  /\ hold' = [hold EXCEPT ![p] = IF Owes(p) THEN "released" ELSE @]

Acquire(p) ==
  /\ At(p, "guard") /\ permits > 0
  /\ permits' = permits - 1
  /\ hold' = [hold EXCEPT ![p] = "held"]
  /\ Advance(p)
  /\ UNCHANGED <<kind, conns, workers, slot, sem, hooks>>

\* 429, try again shortly.
Refuse(p) ==
  /\ At(p, "guard") /\ permits = 0
  /\ todo' = [todo EXCEPT ![p] = <<"free">>]
  /\ UNCHANGED <<kind, conns, workers, slot, sem, guardVars>>

\* Dropped before its first byte, when the generator's own finally never runs,
\* dropped on the way, or sent to the end, when the background task runs too.
Stream(p) ==
  /\ At(p, "stream")
  /\ \E more \in 0..2 : hooks' = [hooks EXCEPT ![p] = @ + more]
  /\ Advance(p)
  /\ UNCHANGED <<kind, conns, workers, slot, sem, permits, hold>>

\* A body lives until it is sent or its request is over.
Hook(p) ==
  /\ todo[p] \in {<<>>, <<"free">>}
  /\ hooks[p] > 0 /\ hooks' = [hooks EXCEPT ![p] = @ - 1]
  /\ Release(p)
  /\ UNCHANGED <<kind, todo, conns, workers, slot, sem>>

-----------------------------------------------------------------------------
(* Exceptions.                                                             *)

\* The export's own except releases; once its body is built, only the hooks do.
ReleaseUnbuilt(p) ==
  IF hooks[p] = 0 THEN Release(p) ELSE UNCHANGED <<permits, hold>>

\* Bug: the slot is given back after a normal end only.
UnwindHolding(p) ==
  /\ todo' = [todo EXCEPT ![p] = Handler(kind[p])]
  /\ kind' = [kind EXCEPT ![p] = "failed"]
  /\ workers' = workers \ {p}
  /\ sem' = Without(sem, p)
  /\ ReleaseUnbuilt(p)
  /\ UNCHANGED <<conns, slot, hooks>>

\* An exception unwinds to the handler: async with gives the slot and the
\* semaphore back, and the thread is done.
Unwind(p) ==
  /\ todo' = [todo EXCEPT ![p] = Handler(kind[p])]
  /\ kind' = [kind EXCEPT ![p] = "failed"]
  /\ workers' = workers \ {p}
  /\ slot' = Without(slot, p)
  /\ sem' = Without(sem, p)
  /\ ReleaseUnbuilt(p)
  /\ UNCHANGED <<conns, hooks>>

\* QueuePool limit reached: the statement raises.
TimeOut(p) ==
  /\ At(p, "db") /\ p \notin conns
  /\ Starved
  /\ Unwind(p)

\* A statement or the commit raises, or what was computed does; a readout
\* swallows what its own computation raises.
Raise(p) ==
  /\ \/ At(p, "free") /\ p \in conns
     \/ At(p, "cpu") /\ p \in workers
     \/ At(p, "fit") /\ kind[p] # "readout"
  /\ Unwind(p)

-----------------------------------------------------------------------------
Step(p) ==
  \/ Connect(p) \/ Execute(p) \/ Free(p)
  \/ TakeThread(p) \/ Computed(p)
  \/ Queue(p) \/ TakeTurn(p) \/ EndTurn(p) \/ Fitted(p)
  \/ Acquire(p) \/ Refuse(p) \/ Stream(p) \/ Hook(p)
  \/ TimeOut(p)

Init ==
  /\ kind = [p \in Procs |-> "none"]
  /\ todo = [p \in Procs |-> <<>>]
  /\ conns = {} /\ workers = {}
  /\ slot = <<>> /\ sem = <<>>
  /\ permits = 1
  /\ hold = [p \in Procs |-> "none"]
  /\ hooks = [p \in Procs |-> 0]

Next ==
  \E p \in Procs : Step(p) \/ Raise(p) \/ \E k \in Kinds : Begin(p, k)

\* A process that can go on does: the loop serves it, its thread ends, the
\* pool's clock runs.  Nothing has to begin and nothing has to raise.
Spec == Init /\ [][Next]_vars /\ \A p \in Procs : WF_vars(Step(p))

-----------------------------------------------------------------------------
(* Properties.                                                             *)

Programs ==
  UNION {Suffixes(s) : s \in UNION {Scripts[k] \cup {Handler(k)} : k \in Kinds}}

\* The variables keep their types: the pool, the executor and the guard never
\* give out more than they have, and the guard is never released twice.
TypeOK ==
  /\ kind \in [Procs -> Kinds \cup {"none", "failed"}]
  /\ todo \in [Procs -> Programs]
  /\ conns \in SUBSET Procs /\ Cardinality(conns) <= PoolSize
  /\ workers \in SUBSET Procs /\ Cardinality(workers) <= Workers
  /\ \A queue \in {slot, sem} : queue \in Seq(Procs) /\ IsInjective(queue)
  /\ permits \in Nat /\ permits = 1 - Cardinality({p \in Procs : hold[p] = "held"})
  /\ hold \in [Procs -> {"none", "held", "released"}]
  /\ hooks \in [Procs -> Nat]

\* A burst of runs and reports never starves the pool (run_executor.py, A1):
\* when every connection is held through a slow phase, the holders are pages
\* and exports, and when not even those compute, they all queue for the
\* semaphore of a finalize that waits for a connection.
PoolServes ==
  Starved =>
    /\ \A p \in conns : kind[p] \notin {"run", "report"}
    /\ \/ \E p \in conns : At(p, "fit") \/ At(p, "stream")
       \/ \A p \in conns : At(p, "sem")

\* Whoever has ended has nothing in hand: the permit of an export is given back,
\* or one of its hooks still will.
NothingKept ==
  \A p \in Procs : Ended(p) => ~Holder(p) /\ (Owes(p) => hooks[p] > 0)

\* A run waits for the attribution slot with empty hands: no connection and no
\* thread (run_executor.py, at _attribution_slot).
WaitersHoldNothing ==
  \A p \in Procs : At(p, "enter") => p \notin conns /\ p \notin workers

\* What a process does next, up to the operation that ends its turn.
Within(s, give, ops) ==
  \E i \in DOMAIN s : s[i] = give /\ \A j \in 1..(i - 1) : s[j] \in ops

Attributes(p) == Within(todo[p], "leave", {"cpu"})
Fits(p) == Within(todo[p], "unsem", {"db", "fit", "free"})
Decodes(p) == kind[p] = "export" /\ (At(p, "fit") \/ At(p, "stream"))

\* One attribution at a time, one fit of the wizard, and one decoded export.
TurnsExclude ==
  \A p, q \in Procs :
    \/ Attributes(p) /\ Attributes(q)
    \/ Fits(p) /\ Fits(q)
    \/ Decodes(p) /\ Decodes(q)
    => p = q

\* What p needs for its next step is there.
CanGo(p) ==
  \/ At(p, "db") /\ (p \in conns \/ Cardinality(conns) < PoolSize \/ Starved)
  \/ At(p, "cpu") /\ (p \in workers \/ Cardinality(workers) < Workers)
  \/ At(p, "enter") /\ (~Contains(slot, p) \/ Holds(slot, p))
  \/ At(p, "sem") /\ (~Contains(sem, p) \/ Holds(sem, p))
  \/ \E op \in {"free", "leave", "unsem", "fit", "guard", "stream"} : At(p, op)

\* No circle of waiters: while anyone is under way, someone can go on.
NoCircle == (\E p \in Procs : ~Ended(p)) => \E p \in Procs : CanGo(p)

\* Everyone is served: again and again, whatever has started has ended, with
\* nothing left in its hands and the permit of its export given back, whatever
\* it waited for and whoever raised.
EveryoneEnds ==
  []<>(\A p \in Procs :
         kind[p] # "none" => Ended(p) /\ ~Holder(p) /\ ~Owes(p))
=============================================================================
