----------------------------- MODULE OrgWideControls -----------------------------
(***************************************************************************)
(* Controls that every scenario inherits, the derived row inside them, the *)
(* library entry they were adopted from, and the staleness flag of the     *)
(* runs that used them (services/controls.py, control_resync.py,           *)
(* control_library.py, routes/controls.py, the freeze of services/runs.py  *)
(* and phase 1 of run_executor.py).                                        *)
(*                                                                         *)
(* A request reads the control with its rows, awaits, and then writes and  *)
(* commits; the ORM writes the columns that differ from its copy and       *)
(* addresses rows by id, so a request that another has overtaken decides   *)
(* on values that are gone.  A run freezes the ids it will use, loads the  *)
(* controls later and completes later still.                               *)
(*                                                                         *)
(* A row's three numbers are one value.  Confirmation stamps, the other    *)
(* columns and the audit rows are left out; duplicates and imported        *)
(* controls are never org-wide and change nothing here.                    *)
(***************************************************************************)
EXTENDS Naturals, Sequences, FiniteSets

CONSTANTS
    Controls,     \* control ids
    Runs,         \* run ids
    Requests,     \* requests in progress at once
    Nothing,      \* NULL, no row
    Meta,         \* VMC and DSC sub-functions: inherited when org-wide
    Other,        \* the rest (LEC)
    Values,       \* of a row's three numbers
    Contents,     \* the rows an analyst may submit: at least one
    Standings,    \* the status and whether the stage is active, as submitted
    RowIds,       \* primary keys: one is always free
    MaxWrites,    \* bound: changes of controls
    Entry         \* the rows of each version of the library entry

SubFns == Meta \cup Other
Sources == SubFns \cup {Nothing}
Row == [id : RowIds, val : Values]
LinkRow == [id : RowIds, to : SubFns]

ASSUME OrgWideAssumption ==
    /\ Meta \cap Other = {}
    /\ Contents \subseteq [SubFns -> Values \cup {Nothing}]
    /\ \A content \in Contents : \E f \in SubFns : content[f] # Nothing
    /\ Standings \subseteq {"draft", "active", "deleted"} \X BOOLEAN
    /\ Entry \in Seq(Contents) /\ Len(Entry) > 0
    /\ MaxWrites \in Nat
    /\ IsFiniteSet(Requests)
    /\ IsFiniteSet(RowIds) => Cardinality(RowIds) > Cardinality(Requests) + 1
    /\ Nothing \notin Values \cup SubFns \cup Controls
    /\ Nothing \notin Row \cup LinkRow

VARIABLES
    control,    \* the control with its assignment rows and its derived row
    entry,      \* the version of the library entry
    run,        \* what each run froze, loaded and is
    job,        \* the control each request is about, as it has read it
    overtaken,  \* the requests during which their control has changed
    excused,    \* runs in flight at a change, or there at a save that was overtaken
    torn,       \* controls that such a save has written
    refused,    \* requests that were refused by a constraint, not overtaken
    writes      \* changes of controls so far

vars == <<control, entry, run, job, overtaken, excused, torn, refused, writes>>

Status == {"absent", "draft", "active", "deleted"}
ControlRows ==
    [status : Status, stage : BOOLEAN, flag : BOOLEAN, pin : Nat,
     rows : [SubFns -> Row \cup {Nothing}], link : LinkRow \cup {Nothing}]
Views ==
    [rows : [Meta -> Values \cup {Nothing}], link : Meta \cup {Nothing}]
RunRows ==
    [state : {"none", "queued", "running", "completed", "unbuildable"},
     links : SUBSET Controls, inherits : SUBSET Controls, ids : SUBSET Controls,
     stale : BOOLEAN, view : [Controls -> Views \cup {Nothing}], pin : [Controls -> Nat]]
Jobs == [on : Controls \cup {Nothing}, seen : ControlRows \cup {Nothing}]

NoControl ==
    [status |-> "absent", stage |-> FALSE, flag |-> FALSE, pin |-> 0,
     rows |-> [f \in SubFns |-> Nothing], link |-> Nothing]
NoRun == [state |-> "none", links |-> {}, inherits |-> {}, ids |-> {}, stale |-> FALSE,
          view |-> [c \in Controls |-> Nothing], pin |-> [c \in Controls |-> 0]]
NoJob == [on |-> Nothing, seen |-> Nothing]

Present(k) == {f \in SubFns : k.rows[f] # Nothing}
Filled(content) == {f \in SubFns : content[f] # Nothing}
LinkOf(k) == IF k.link = Nothing THEN Nothing ELSE k.link.to

\* "The ONE predicate for 'this control is inherited right now'".
Effective(k) == k.flag /\ k.status = "active" /\ k.stage

\* has_meta_assignment, of a set of sub-functions.
HasMeta(fns) == fns \cap Meta # {}

\* The meta-filtered variant: a derived row only with its source.
Inherited(k) ==
    [rows |-> [f \in Meta |-> IF k.rows[f] = Nothing THEN Nothing ELSE k.rows[f].val],
     link |-> IF LinkOf(k) \in Meta THEN LinkOf(k) ELSE Nothing]

\* A primary key that no row and no copy has.
FreshRow(c, f) ==
    CHOOSE i \in RowIds :
        /\ control[c].rows[f] # Nothing => control[c].rows[f].id # i
        /\ \A r \in Requests :
              job[r].on = c /\ job[r].seen.rows[f] # Nothing => job[r].seen.rows[f].id # i
FreshLink(c) ==
    CHOOSE i \in RowIds :
        /\ control[c].link # Nothing => control[c].link.id # i
        /\ \A r \in Requests :
              job[r].on = c /\ job[r].seen.link # Nothing => job[r].seen.link.id # i

NewRows(c, content) ==
    [f \in SubFns |-> IF content[f] = Nothing THEN Nothing
                      ELSE [id |-> FreshRow(c, f), val |-> content[f]]]
NewLink(c, to) == IF to = Nothing THEN Nothing ELSE [id |-> FreshLink(c), to |-> to]

-----------------------------------------------------------------------------
(* The sweeps, and the end of a request                                    *)

\* Only COMPLETED runs are selected.
Flagged(rs) ==
    [r \in Runs |-> IF r \in rs /\ run[r].state = "completed"
                    THEN [run[r] EXCEPT !.stale = TRUE] ELSE run[r]]
FlagOrg == Flagged(Runs)
FlagUsers(c) == Flagged({r \in Runs : c \in run[r].ids})

Flying == {r \in Runs : run[r].state \in {"queued", "running"}}
Known == {r \in Runs : run[r].state # "none"}

\* An edit, a deletion or a re-sync: they begin alike.
Open(r, c) ==
    /\ job[r] = NoJob
    /\ control[c].status \notin {"absent", "deleted"}
    /\ job' = [job EXCEPT ![r] = [on |-> c, seen |-> control[c]]]
    /\ UNCHANGED <<control, entry, run, overtaken, excused, torn, refused, writes>>

End(r) == job' = [job EXCEPT ![r] = NoJob]

More == writes < MaxWrites
Count == writes' = writes + 1

Write(r, c, k) ==
    /\ control' = [control EXCEPT ![c] = k]
    /\ overtaken' = (overtaken \cup {q \in Requests : job[q].on = c}) \ {r}
    /\ excused' = excused \cup (IF r \in overtaken THEN Known ELSE Flying)
    /\ torn' = IF r \in overtaken THEN torn \cup {c} ELSE torn
    /\ Count
    /\ End(r)
    /\ UNCHANGED <<entry, refused>>

\* A statement violates a constraint or matches no row: all is rolled back.
Refuse(r) ==
    /\ refused' = IF r \in overtaken THEN refused ELSE refused \cup {r}
    /\ overtaken' = overtaken \ {r}
    /\ End(r)
    /\ UNCHANGED <<control, entry, run, excused, torn, writes>>

-----------------------------------------------------------------------------
(* Creation                                                                *)

Eligible(flag, content) == flag => HasMeta(Filled(content))

\* validate_dsc_corr_link
LinkValid(content, source) == source = Nothing \/ source \in Filled(content)

Create(c) ==
    /\ More /\ control[c].status = "absent"
    /\ \E flag \in BOOLEAN, at \in Standings, content \in Contents, source \in Sources :
        /\ Eligible(flag, content) /\ LinkValid(content, source)
        /\ LET k == [status |-> at[1], stage |-> at[2], flag |-> flag, pin |-> 0,
                     rows |-> NewRows(c, content), link |-> NewLink(c, source)]
           IN  /\ control' = [control EXCEPT ![c] = k]
               /\ run' = IF Effective(k) THEN FlagOrg ELSE run
    /\ excused' = excused \cup Flying
    /\ Count
    /\ UNCHANGED <<entry, job, overtaken, torn, refused>>

\* The stage is the model's default, and the analyst confirms by an edit.
Adopt(c) ==
    /\ More /\ control[c].status = "absent"
    /\ control' = [control EXCEPT ![c] =
          [NoControl EXCEPT !.status = "active", !.stage = TRUE, !.pin = entry,
                            !.rows = NewRows(c, Entry[entry])]]
    /\ Count
    /\ UNCHANGED <<entry, run, job, overtaken, excused, torn, refused>>

-----------------------------------------------------------------------------
(* Edit                                                                    *)

\* The derived row goes before the merge.  Bug: only when the link is cleared.
OnlyWhenCleared(before, source, content) == before # Nothing /\ source = Nothing
DropsFirst(before, source, content) ==
    before # Nothing /\ (source = Nothing \/ before \notin Filled(content))

\* assignments_changed.  Bug: a change of the link alone is missed.
RowsChanged(seen, before, content, source) ==
    \/ DropsFirst(before, source, content)
    \/ \E f \in SubFns : content[f] # (IF seen.rows[f] = Nothing THEN Nothing
                                       ELSE seen.rows[f].val)
AssignmentsChanged(seen, before, content, source) ==
    RowsChanged(seen, before, content, source) \/ before # source

Sweeps(seen, form, changed) ==
    Effective(seen) # Effective(form) \/ (Effective(form) /\ changed)

\* A row the copy has and the form keeps is updated, and must be there.
Lost(k, seen, content) ==
    \E f \in Present(seen) \cap Filled(content) :
        k.rows[f] = Nothing \/ k.rows[f].id # seen.rows[f].id
\* One it does not have is inserted: uq_cfa_control_sub_function.
Clash(k, seen, content) == (Filled(content) \ Present(seen)) \cap Present(k) # {}

\* The rows whose DELETE finds them.
Deleted(k, seen, content) ==
    {f \in (Present(seen) \ Filled(content)) \cap Present(k) :
        k.rows[f].id = seen.rows[f].id}

\* ON DELETE SET NULL against ck_cfa_virtual_requires_derived.  Bug: no foreign keys.
Unenforced(link, deleted) == FALSE
Dangles(link, deleted) == link # Nothing /\ link.to \in deleted

Column(now, copy, form) == IF form = copy THEN now ELSE form

MergedRows(c, seen, content) ==
    [f \in SubFns |->
        IF f \in Deleted(control[c], seen, content) THEN Nothing
        ELSE IF content[f] = Nothing THEN control[c].rows[f]
        ELSE IF seen.rows[f] = Nothing THEN [id |-> FreshRow(c, f), val |-> content[f]]
        ELSE [control[c].rows[f] EXCEPT !.val = Column(@, seen.rows[f].val, content[f])]]

\* _sync_derived_row: what it finds it points to the source.
SyncedLink(c, seen, link, source) ==
    IF source = Nothing THEN link
    ELSE IF link = Nothing THEN NewLink(c, source)
    ELSE [link EXCEPT !.to = IF seen.link = link THEN source
                             ELSE Column(@, LinkOf(seen), source)]

\* The link is asked for by a query of its own, early or late.
SaveEdit(r) ==
    LET c == job[r].on
        seen == job[r].seen
        k == control[c]
    IN
    /\ More /\ job[r] # NoJob
    /\ \E flag \in BOOLEAN, at \in Standings, content \in Contents,
          source \in Sources, asked \in {seen, k} :
        LET form == [seen EXCEPT !.flag = flag, !.status = at[1], !.stage = at[2]]
            drops == DropsFirst(LinkOf(asked), source, content)
            link == IF drops /\ k.link # Nothing /\ k.link.id = asked.link.id
                    THEN Nothing ELSE k.link
            changed == AssignmentsChanged(seen, LinkOf(asked), content, source)
        IN
        /\ Eligible(flag, content) /\ LinkValid(content, source)
        /\ IF Lost(k, seen, content) \/ Clash(k, seen, content)
              \/ Dangles(link, Deleted(k, seen, content))
           THEN Refuse(r)
           ELSE /\ Write(r, c,
                     [k EXCEPT !.flag = Column(@, seen.flag, flag),
                               !.status = Column(@, seen.status, at[1]),
                               !.stage = Column(@, seen.stage, at[2]),
                               !.rows = MergedRows(c, seen, content),
                               !.link = SyncedLink(c, seen, link, source)])
                /\ run' = IF Sweeps(seen, form, changed) THEN FlagOrg ELSE run

Delete(r) ==
    LET c == job[r].on IN
    /\ More /\ job[r] # NoJob
    /\ Write(r, c, [control[c] EXCEPT !.status = "deleted"])
    /\ run' = IF Effective(job[r].seen) THEN FlagOrg ELSE run

-----------------------------------------------------------------------------
(* Re-sync                                                                 *)

\* The library is re-seeded with a new version of the entry.
Curate ==
    /\ entry < Len(Entry)
    /\ entry' = entry + 1
    /\ UNCHANGED <<control, run, job, overtaken, excused, torn, refused, writes>>

\* Bug: the rows are replaced whatever they hold.
AnyEntry(flag, content) == TRUE
ResyncAllowed(flag, content) == Eligible(flag, content)

\* Bug: the runs of a control that is not org-wide keep their flag.
SweepNone(c, seen) == IF Effective(seen) THEN FlagOrg ELSE run
ResyncSweep(c, seen) == IF Effective(seen) THEN FlagOrg ELSE FlagUsers(c)

Resync(r) ==
    LET c == job[r].on
        seen == job[r].seen
        k == control[c]
        source == LinkOf(k)
    IN
    /\ More /\ job[r] # NoJob
    /\ seen.pin # 0 /\ entry > seen.pin
    /\ ResyncAllowed(seen.flag, Entry[entry])
    /\ Write(r, c,
         [k EXCEPT !.pin = entry,
                   !.rows = NewRows(c, Entry[entry]),
                   !.link = IF source \in Filled(Entry[entry])
                            THEN NewLink(c, source) ELSE Nothing])
    /\ run' = ResyncSweep(c, seen)

\* A refusal, or the client is gone.
GiveUp(r) ==
    /\ job[r] # NoJob
    /\ overtaken' = overtaken \ {r}
    /\ End(r)
    /\ UNCHANGED <<control, entry, run, excused, torn, refused, writes>>

-----------------------------------------------------------------------------
(* Runs                                                                    *)

OrgWide == {c \in Controls : Effective(control[c])}

\* Bug: an org-wide control without an inheritable row is frozen too.
FreezesAll == TRUE
Freezable == \A c \in OrgWide : HasMeta(Present(control[c]))

\* create_and_dispatch, for a scenario with these links: explicit ids by the stage alone, and the rest inherited.
Freeze(r, links) ==
    LET linked == {c \in links : control[c].stage}
        inherits == OrgWide \ links
    IN
    /\ \A c \in links : control[c].status # "absent"
    /\ run[r].state = "none"
    /\ Freezable
    /\ run' = [run EXCEPT ![r] = [@ EXCEPT !.state = "queued", !.links = links, !.inherits = inherits,
                                           !.ids = linked \cup inherits]]
    /\ UNCHANGED <<control, entry, job, overtaken, excused, torn, refused, writes>>

Buildable(r) == \A c \in run[r].inherits : HasMeta(Present(control[c]))

\* Phase 1: the controls are loaded, or their variant cannot be built.
Load(r) ==
    /\ run[r].state = "queued"
    /\ run' = [run EXCEPT ![r] =
          IF Buildable(r)
          THEN [@ EXCEPT !.state = "running",
                         !.view = [c \in Controls |-> IF c \in run[r].inherits
                                     THEN Inherited(control[c]) ELSE Nothing],
                         !.pin = [c \in Controls |-> control[c].pin]]
          ELSE [@ EXCEPT !.state = "unbuildable"]]
    /\ UNCHANGED <<control, entry, job, overtaken, excused, torn, refused, writes>>

Complete(r) ==
    /\ run[r].state = "running"
    /\ run' = [run EXCEPT ![r].state = "completed"]
    /\ UNCHANGED <<control, entry, job, overtaken, excused, torn, refused, writes>>

Init ==
    /\ control = [c \in Controls |-> NoControl]
    /\ entry = 1
    /\ run = [r \in Runs |-> NoRun]
    /\ job = [r \in Requests |-> NoJob]
    /\ overtaken = {} /\ excused = {} /\ torn = {} /\ refused = {}
    /\ writes = 0

Next ==
    \/ \E c \in Controls : Create(c) \/ Adopt(c)
    \/ \E r \in Requests, c \in Controls : Open(r, c)
    \/ \E r \in Requests : SaveEdit(r) \/ Delete(r) \/ Resync(r) \/ GiveUp(r)
    \/ Curate
    \/ \E r \in Runs, links \in SUBSET Controls : Freeze(r, links)
    \/ \E r \in Runs : Load(r) \/ Complete(r)

Spec == Init /\ [][Next]_vars
-----------------------------------------------------------------------------
\* Every variable has its type, and the rows keep the schema's constraints: a
\* derived row links a row that is there.
TypeOK ==
    /\ control \in [Controls -> ControlRows]
    /\ \A c \in Controls : LinkOf(control[c]) \in Present(control[c]) \cup {Nothing}
    /\ entry \in 1 .. Len(Entry)
    /\ run \in [Runs -> RunRows]
    /\ \A r \in Runs : run[r].inherits \subseteq run[r].ids
    /\ job \in [Requests -> Jobs]
    /\ \A r \in Requests : job[r] # NoJob => job[r].on \in Controls /\ job[r].seen \in ControlRows
    /\ overtaken \subseteq Requests /\ refused \subseteq Requests
    /\ excused \subseteq Runs /\ torn \subseteq Controls
    /\ writes \in 0 .. MaxWrites

\* "any change to the EFFECTIVE org-wide set ... changes the composition of every
\* scenario in the org" (flag_runs_stale_for_org): a completed run that is not
\* flagged inherited what its scenario would inherit now, whichever edit, link,
\* stage, status, deletion or re-sync came after.  Not so of a run in flight at
\* the change, or when the save had been overtaken and compared with old values.
InheritanceFresh ==
    \A r \in Runs \ excused :
        run[r].state = "completed" /\ ~run[r].stale =>
            run[r].view = [c \in Controls |-> IF c \in OrgWide \ run[r].links
                                              THEN Inherited(control[c]) ELSE Nothing]

\* "flag affected COMPLETED runs stale" (apply_resync): with the same exceptions,
\* a run that is not flagged used every control at the curation it has now.
CurationFresh ==
    \A r \in Runs \ excused :
        run[r].state = "completed" /\ ~run[r].stale =>
            \A c \in run[r].ids : run[r].pin[c] = control[c].pin

\* "org_wide_meta=True requires at least one inheritable VMC/DSC assignment",
\* through edits and re-syncs: only an overtaken save can clear the last one.
OrgWideEligible ==
    \A c \in Controls \ torn : control[c].flag => HasMeta(Present(control[c]))

\* "the eligibility invariant ... should have prevented this" (meta_assignments):
\* a frozen run fails to build its variants only if a control changed meanwhile.
FrozenBuilds == \A r \in Runs \ excused : run[r].state # "unbuildable"

\* "a surviving derived row's ON DELETE SET NULL violates the CHECK": because the
\* derived row goes first, no save that nobody overtook is refused.
AloneSaves == refused = {}
=============================================================================
