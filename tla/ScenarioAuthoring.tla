-------------------------- MODULE ScenarioAuthoring --------------------------
(***************************************************************************)
(* The two ways to write a scenario.  Requests on the scenario's own row:  *)
(* the edit form, the confirmations, promote, delete, pin, unpin and       *)
(* refresh of its losses (routes/scenarios.py, services/scenarios.py,      *)
(* services/loss_pinning.py), guarded by row_version.  And the wizard: a   *)
(* draft row advanced by step POSTs and saved by finalize, guarded by      *)
(* version_token (services/wizard_state.py).                               *)
(*                                                                         *)
(* A request shows a page, reads, and writes much later; the write and the *)
(* commit are one step unless others can look in between.  SQLite ignores  *)
(* FOR UPDATE and has one write lock; Postgres locks rows.  An ORM UPDATE  *)
(* names the primary key and the changed columns only.                     *)
(*                                                                         *)
(* Content is a number: rev counts the commits on a row, and every write   *)
(* of a draft brings content nobody has seen.  ATT&CK mappings, SME rows   *)
(* and the texts of the form are left out.                                 *)
(***************************************************************************)
EXTENDS Naturals, FiniteSets

CONSTANTS
    Scenarios,  \* scenario ids (uuid4, never reused)
    Drafts,     \* wizard transactions (uuid4, never reused)
    Requests,   \* requests in progress at once, a displayed page included
    Nothing,    \* no row, no draft, nothing read
    Backends,   \* among "sqlite" and "postgres"
    Sweeps,     \* TRUE: the TTL sweep runs
    Found,      \* the scenario rows that may be there when the requests begin
    MaxRev,     \* commits per scenario row
    MaxEdits    \* writes of drafts, all drafts together

ASSUME AuthoringAssumption ==
    /\ Backends \subseteq {"sqlite", "postgres"}
    /\ Sweeps \in BOOLEAN
    /\ MaxRev \in Nat \ {0} /\ MaxEdits \in Nat
    /\ Nothing \notin Scenarios \cup Drafts

Rows == [status : {"draft", "active"}, ver : Nat \ {0}, rev : Nat \ {0},
         framing : {"legacy_residual", "inherent"},
         review : BOOLEAN,                        \* threat_community_needs_review
         loss : {"plain", "library", "pinned"},   \* pinned: the analyst_pin stamp
         linked : BOOLEAN]                        \* has a library_pin
DraftRows == [token : Nat, rev : 1 .. MaxEdits, target : Scenarios \cup {Nothing},
              basever : Nat, baserev : Nat]

\* What a page says about the row or the draft it shows.
Stamps == [ver : Nat, rev : Nat]
Shown(x) == [ver |-> x.ver, rev |-> x.rev]
Reviewed(x) == [ver |-> x.token, rev |-> x.rev]

ASSUME FoundAssumption ==
    /\ Found \subseteq {x \in Rows : x.ver = 1 /\ x.rev = 1}
    /\ Nothing \notin Rows \cup DraftRows \cup Stamps

Paged == {"edit", "delete", "pin", "unpin", "refresh"}  \* the form carries row_version
Direct == {"frame", "community", "promote"}             \* it does not
Ops == Paged \cup Direct \cup {"page", "step", "finalize"}

VARIABLES
    backend,   \* which database runs; it never changes
    row,       \* the committed scenario rows
    minted,    \* the scenario and draft ids given out, deleted ones included
    draft,     \* the committed wizard_drafts rows
    edits,     \* contents written to drafts so far
    saved,     \* the contents a finalize has made a scenario of
    blind,     \* the first operation that committed over a commit it had not seen
    pc, job    \* how far each request is, and what it carries

vars == <<backend, row, minted, draft, edits, saved, blind, pc, job>>

-----------------------------------------------------------------------------
\* op, the row or draft it is about, the page it answers, what it has read.
NoJob == [op |-> "none", on |-> Nothing, page |-> Nothing, seen |-> Nothing]
Jobs == [op : Ops \cup {"none"}, on : Scenarios \cup Drafts \cup {Nothing},
         page : Stamps \cup DraftRows \cup {Nothing},
         seen : Rows \cup Stamps \cup DraftRows \cup {Nothing}]

\* form: a page is displayed.  read: the handler has its unlocked copy.
\* locked: it has its SELECT ... FOR UPDATE copy.  selected: a step POST has
\* repeated its SELECT.  claimed: finalize has run the CAS and holds its locks.
Places == {"idle", "form", "read", "locked", "selected", "claimed"}

JobOK(r) ==
    \/ pc[r] = "idle" /\ job[r] = NoJob
    \/ /\ job[r].op \in Paged \cup Direct \cup {"page"} /\ job[r].on \in Scenarios
       /\ \/ pc[r] = "form" /\ job[r].op = "page" /\ job[r].page \in Stamps
          \/ /\ pc[r] = "read" /\ job[r].op = "edit"
             /\ job[r].page \in Stamps /\ job[r].seen \in Rows
          \/ /\ pc[r] = "locked" /\ job[r].op \notin {"page", "edit"}
             /\ job[r].page \in Stamps /\ job[r].seen \in Stamps
    \/ /\ job[r].op = "step" /\ job[r].on \in Drafts /\ job[r].seen \in DraftRows
       /\ \/ pc[r] = "read"
          \/ pc[r] = "selected" /\ job[r].page \in DraftRows \cup {Nothing}
    \/ /\ job[r].op = "finalize" /\ job[r].on \in Drafts /\ job[r].page \in Stamps
       /\ \/ pc[r] = "form"
          \/ pc[r] \in {"locked", "claimed"} /\ job[r].seen \in DraftRows

On(r) == job[r].on
Page(r) == job[r].page
Seen(r) == job[r].seen

End(r) == /\ pc' = [pc EXCEPT ![r] = "idle"]
          /\ job' = [job EXCEPT ![r] = NoJob]

Goto(r, place, j) == /\ pc' = [pc EXCEPT ![r] = place]
                     /\ job' = [job EXCEPT ![r] = j]

\* SQLite's write lock, held from a finalize's CAS to its commit.
WriteLockFree == backend = "sqlite" => \A q \in Requests : pc[q] # "claimed"

HoldsRow(q, s) ==
    \/ pc[q] = "locked" /\ job[q].op \in Paged \cup Direct /\ On(q) = s
    \/ pc[q] = "claimed" /\ Seen(q).target = s

HoldsDraft(q, d) ==
    pc[q] \in {"locked", "claimed"} /\ job[q].op = "finalize" /\ On(q) = d

RowFree(s) == backend = "postgres" => \A q \in Requests : ~HoldsRow(q, s)
DraftFree(d) == backend = "postgres" => \A q \in Requests : ~HoldsDraft(q, d)

ScenarioUnchanged == UNCHANGED <<row, minted, blind>>
DraftUnchanged == UNCHANGED <<draft, edits, saved>>

-----------------------------------------------------------------------------
(* The scenario's own row                                                  *)

\* A page whose forms carry the row's row_version.
OpenPage(r, s) ==
    /\ pc[r] = "idle"
    /\ row[s] # Nothing
    /\ Goto(r, "form", [op |-> "page", on |-> s, page |-> Shown(row[s]), seen |-> Nothing])
    /\ ScenarioUnchanged /\ DraftUnchanged

\* update_scenario reads the row without a lock and keeps the instance: the
\* locked SELECT of ScenarioService.update returns this same copy.
ReadForEdit(r) ==
    /\ pc[r] = "form" /\ job[r].op = "page"
    /\ row[On(r)] # Nothing
    /\ Goto(r, "read", [job[r] EXCEPT !.op = "edit", !.seen = row[On(r)]])
    /\ ScenarioUnchanged /\ DraftUnchanged

\* The other handlers lock at their first read; pin, unpin, refresh and delete
\* compare the version of the form there.
VersionMatches(page, seen) == page.ver = seen.ver

\* The refusals of each handler, by the copy it has read.
\* Bug: promote does not look at the framing.
AllowedUnconfirmed(op, seen) ==
    /\ op = "frame" => seen.framing # "inherent"
    /\ op = "community" => seen.review
    /\ op = "promote" => seen.status = "draft"
    /\ op = "unpin" => seen.loss = "pinned"
    /\ op = "refresh" => seen.linked /\ seen.loss # "pinned"
Allowed(op, seen) ==
    /\ op = "frame" => seen.framing # "inherent"
    /\ op = "community" => seen.review
    /\ op = "promote" => seen.status = "draft" /\ seen.framing # "legacy_residual"
    /\ op = "unpin" => seen.loss = "pinned"
    /\ op = "refresh" => seen.linked /\ seen.loss # "pinned"

Lock(r, s, op, basis) ==
    /\ row[s] # Nothing /\ RowFree(s)
    /\ Allowed(op, row[s])
    /\ Goto(r, "locked", [op |-> op, on |-> s, page |-> basis, seen |-> Shown(row[s])])
    /\ ScenarioUnchanged /\ DraftUnchanged

PostForm(r, op) ==
    /\ pc[r] = "form" /\ job[r].op = "page"
    /\ Lock(r, On(r), op, Page(r))
    /\ VersionMatches(Page(r), row[On(r)])

PostDelete(r) == PostForm(r, "delete")
PostPin(r) == PostForm(r, "pin")
PostUnpin(r) == PostForm(r, "unpin")
PostRefresh(r) == PostForm(r, "refresh")

\* What such a request believes the row to be is its own locked copy.
PostDirect(r, s, op) ==
    /\ pc[r] = "idle"
    /\ Lock(r, s, op, Shown(row[s]))

PostFraming(r, s) == PostDirect(r, s, "frame")
PostCommunity(r, s) == PostDirect(r, s, "community")
PostPromote(r, s) == PostDirect(r, s, "promote")

\* confirm_vuln_framing, confirm_threat_community, promote, pin_loss, unpin_loss
\* and refresh_loss_from_library write these columns of the current row.
Framed(c) == [c EXCEPT !.framing = "inherent"]
Assigned(c) == [c EXCEPT !.review = FALSE]
Promoted(c) == [c EXCEPT !.status = "active"]
Pinned(c) == [c EXCEPT !.loss = "pinned"]
Unpinned(c) == [c EXCEPT !.loss = "plain"]
Refreshed(c) == [c EXCEPT !.loss = "library"]

\* The version comes from the copy.
Bumped(seen, c) == [c EXCEPT !.ver = seen.ver + 1, !.rev = @ + 1]

Written(op, seen, c) ==
    LET next == Bumped(seen, c)
    IN  CASE op = "frame"     -> Framed(next)
          [] op = "community" -> Assigned(next)
          [] op = "promote"   -> Promoted(next)
          [] op = "pin"       -> Pinned(next)
          [] op = "unpin"     -> Unpinned(next)
          [] op = "refresh"   -> Refreshed(next)
          [] op = "delete"    -> Nothing

MarkBlind(op, basis, s) ==
    blind' = IF blind = "none" /\ row[s].rev # basis.rev THEN op ELSE blind

\* A row deleted meanwhile: the UPDATE matches nothing and raises (GiveUp).
CommitLocked(r) ==
    LET s == On(r)
        op == job[r].op
    IN  /\ pc[r] = "locked" /\ op \in Paged \cup Direct
        /\ WriteLockFree
        /\ row[s] # Nothing /\ row[s].rev < MaxRev
        /\ row' = [row EXCEPT ![s] = Written(op, Seen(r), row[s])]
        /\ MarkBlind(op, Page(r), s)
        /\ End(r)
        /\ UNCHANGED minted /\ DraftUnchanged

\* A form that changes only the controls bumps the version too, one that changes
\* nothing writes nothing.  Bug: the controls are saved without the bump.
ControlsUnversioned(seen, c) == [c EXCEPT !.rev = @ + 1]
ControlsChanged(seen, c) == Bumped(seen, c)

\* The loss dicts of a form carry no stamp, so they differ from pinned ones; the
\* chosen community ends a review; a changed vulnerability makes the framing
\* inherent.
EditChanges(seen, c) ==
    LET x == IF seen.review THEN Assigned(Bumped(seen, c)) ELSE Bumped(seen, c)
        fields == {Unpinned(x)} \cup (IF seen.loss = "pinned" THEN {} ELSE {x})
    IN  fields \cup {Framed(y) : y \in fields}
          \cup (IF seen.review \/ seen.loss = "pinned" THEN {}
                ELSE {ControlsChanged(seen, c)})

\* The comparison uses the unlocked copy; the write waits for the row.
CommitEdit(r) ==
    LET s == On(r) IN
    /\ pc[r] = "read" /\ job[r].op = "edit"
    /\ WriteLockFree /\ RowFree(s)
    /\ row[s] # Nothing /\ row[s].rev < MaxRev
    /\ VersionMatches(Page(r), Seen(r))
    /\ \E new \in EditChanges(Seen(r), row[s]) : row' = [row EXCEPT ![s] = new]
    /\ MarkBlind("edit", Page(r), s)
    /\ End(r)
    /\ UNCHANGED minted /\ DraftUnchanged

\* The create form and the wizard: ScenarioForm's status defaults to ACTIVE.
\* Bug: versions start at 0.
UnversionedRow(linked) ==
    [status |-> "active", ver |-> 0, rev |-> 1, framing |-> "inherent",
     review |-> FALSE, loss |-> IF linked THEN "library" ELSE "plain",
     linked |-> linked]
NewRow(linked) ==
    [status |-> "active", ver |-> 1, rev |-> 1, framing |-> "inherent",
     review |-> FALSE, loss |-> IF linked THEN "library" ELSE "plain",
     linked |-> linked]

Create(s, linked) ==
    /\ s \notin minted
    /\ row' = [row EXCEPT ![s] = NewRow(linked)]
    /\ minted' = minted \cup {s}
    /\ UNCHANGED blind

CreateScenario(s) ==
    /\ WriteLockFree
    /\ Create(s, FALSE)
    /\ UNCHANGED <<pc, job>> /\ DraftUnchanged

-----------------------------------------------------------------------------
(* Wizard drafts                                                           *)

Fresh == edits + 1

\* get_or_create mints a row with token 0; start_reestimate_wizard advances it
\* once more in the same transaction, with the row_version it has read.
StartDraft(d, s) ==
    /\ d \notin minted /\ edits < MaxEdits
    /\ WriteLockFree
    /\ s # Nothing => row[s] # Nothing
    /\ draft' = [draft EXCEPT ![d] =
                    IF s = Nothing
                    THEN [token |-> 0, rev |-> Fresh, target |-> Nothing,
                          basever |-> 0, baserev |-> 0]
                    ELSE [token |-> 1, rev |-> Fresh, target |-> s,
                          basever |-> row[s].ver, baserev |-> row[s].rev]]
    /\ edits' = Fresh
    /\ minted' = minted \cup {d}
    /\ UNCHANGED <<row, blind, saved, pc, job>>

\* A step handler (a POST, a prefill, an overlay, the seeding GET) loads the
\* state ...
LoadStep(r, d) ==
    /\ pc[r] = "idle"
    /\ draft[d] # Nothing
    /\ Goto(r, "read", [op |-> "step", on |-> d, page |-> Nothing, seen |-> draft[d]])
    /\ ScenarioUnchanged /\ DraftUnchanged

\* ... and advance_step, called without a token, selects the row again.
SelectAgain(r) ==
    /\ pc[r] = "read" /\ job[r].op = "step"
    /\ Goto(r, "selected", [job[r] EXCEPT !.page = draft[On(r)]])
    /\ ScenarioUnchanged /\ DraftUnchanged

\* It writes its state over whatever is there; a row that was gone is inserted.
\* A row that came or went since the SELECT makes the statement fail (GiveUp).
NextToken(seen, again) == (IF again = Nothing THEN seen.token ELSE again.token) + 1

WriteStep(r) ==
    LET d == On(r)
        again == Page(r)
    IN  /\ pc[r] = "selected" /\ edits < MaxEdits
        /\ WriteLockFree /\ DraftFree(d)
        /\ (draft[d] = Nothing) <=> (again = Nothing)
        /\ draft' = [draft EXCEPT ![d] =
                        [Seen(r) EXCEPT !.token = NextToken(Seen(r), again), !.rev = Fresh]]
        /\ edits' = Fresh
        /\ End(r)
        /\ UNCHANGED saved /\ ScenarioUnchanged

\* The wizard's cancel, and the sweep of drafts past their TTL (their age is
\* left out).
DropDraft(d) ==
    /\ draft[d] # Nothing
    /\ WriteLockFree /\ DraftFree(d)
    /\ draft' = [draft EXCEPT ![d] = Nothing]
    /\ UNCHANGED <<edits, saved, pc, job>> /\ ScenarioUnchanged

CancelDraft(d) == DropDraft(d)
SweepDraft(d) == Sweeps /\ DropDraft(d)

-----------------------------------------------------------------------------
(* Finalize                                                                *)

\* The review page shows the draft and carries its token.
OpenReview(r, d) ==
    /\ pc[r] = "idle"
    /\ draft[d] # Nothing
    /\ Goto(r, "form", [op |-> "finalize", on |-> d, page |-> Reviewed(draft[d]), seen |-> Nothing])
    /\ ScenarioUnchanged /\ DraftUnchanged

\* _FINALIZE_SEMAPHORE admits one finalize per process; SQLite has one process.
SemaphoreFree ==
    backend = "sqlite" =>
        \A q \in Requests : ~(pc[q] \in {"locked", "claimed"} /\ job[q].op = "finalize")

LoadDraft(r) ==
    LET d == On(r) IN
    /\ pc[r] = "form" /\ job[r].op = "finalize"
    /\ SemaphoreFree
    /\ draft[d] # Nothing /\ DraftFree(d)
    /\ Goto(r, "locked", [job[r] EXCEPT !.seen = draft[d]])
    /\ ScenarioUnchanged /\ DraftUnchanged

\* UPDATE ... WHERE version_token = :expected; no row is a 409 (GiveUp).  Then
\* the locked read of the target, if there is one and it still exists.
TokenMatches(r) == draft[On(r)] # Nothing /\ draft[On(r)].token = Page(r).ver

Claim(r) ==
    /\ pc[r] = "locked" /\ job[r].op = "finalize"
    /\ WriteLockFree
    /\ TokenMatches(r)
    /\ Seen(r).target # Nothing => RowFree(Seen(r).target)
    /\ Goto(r, "claimed", job[r])
    /\ ScenarioUnchanged /\ DraftUnchanged

\* update_from_wizard.  Bug: it does not compare the version.
AnyTarget(base) == row[base.target] # Nothing
TargetMatches(base) ==
    row[base.target] # Nothing /\ row[base.target].ver = base.basever

Reestimated(c) ==
    [Unpinned(Assigned(Framed(Bumped(c, c)))) EXCEPT !.linked = FALSE]

SaveOver(base) ==
    LET s == base.target IN
    /\ TargetMatches(base)
    /\ row[s].rev < MaxRev
    /\ row' = [row EXCEPT ![s] = Reestimated(@)]
    /\ blind' = IF blind = "none" /\ row[s].rev # base.baserev THEN "finalize" ELSE blind
    /\ UNCHANGED minted

\* The scenario, and the draft's deletion, in one transaction.
\* Bug: the draft stays.
Kept(x) == x
Consumed(x) == Nothing

Save(r) ==
    /\ pc[r] = "claimed"
    /\ IF Seen(r).target # Nothing
       THEN SaveOver(Seen(r))
       ELSE \E s \in Scenarios, linked \in BOOLEAN : Create(s, linked)
    /\ draft' = [draft EXCEPT ![On(r)] = Consumed(@)]
    /\ saved' = saved \cup {Seen(r).rev}
    /\ End(r)
    /\ UNCHANGED edits

\* Gone or changed target, no revenue for the cap, a fit that fails, a
\* distribution refused: each path rolls the CAS back.
Reject(r) ==
    /\ pc[r] = "claimed"
    /\ End(r)
    /\ ScenarioUnchanged /\ DraftUnchanged

-----------------------------------------------------------------------------
\* A page that is closed, a refusal (404, 409, 422), an edit that changes
\* nothing, a statement that fails: nothing is written.
GiveUp(r) ==
    /\ pc[r] \notin {"idle", "claimed"}
    /\ End(r)
    /\ ScenarioUnchanged /\ DraftUnchanged

Init ==
    /\ backend \in Backends
    /\ row \in [Scenarios -> Found \cup {Nothing}]
    /\ minted = {s \in Scenarios : row[s] # Nothing}
    /\ draft = [d \in Drafts |-> Nothing]
    /\ edits = 0
    /\ saved = {}
    /\ blind = "none"
    /\ pc = [r \in Requests |-> "idle"]
    /\ job = [r \in Requests |-> NoJob]

RequestStep(r) ==
    \/ \E s \in Scenarios : OpenPage(r, s)
    \/ ReadForEdit(r)
    \/ PostDelete(r) \/ PostPin(r) \/ PostUnpin(r) \/ PostRefresh(r)
    \/ \E s \in Scenarios : PostFraming(r, s) \/ PostCommunity(r, s) \/ PostPromote(r, s)
    \/ CommitLocked(r)
    \/ CommitEdit(r)
    \/ \E d \in Drafts : LoadStep(r, d) \/ OpenReview(r, d)
    \/ SelectAgain(r)
    \/ WriteStep(r)
    \/ LoadDraft(r)
    \/ Claim(r)
    \/ Save(r)
    \/ Reject(r)
    \/ GiveUp(r)

Next ==
    /\ UNCHANGED backend
    /\ \/ \E r \in Requests : RequestStep(r)
       \/ \E s \in Scenarios : CreateScenario(s)
       \/ \E d \in Drafts, s \in Scenarios \cup {Nothing} : StartDraft(d, s)
       \/ \E d \in Drafts : CancelDraft(d) \/ SweepDraft(d)

Spec == Init /\ [][Next]_vars

-----------------------------------------------------------------------------
\* Every variable has its type, and a request carries what its place says.
TypeOK ==
    /\ backend \in Backends
    /\ row \in [Scenarios -> Rows \cup {Nothing}]
    /\ minted \subseteq Scenarios \cup Drafts
    /\ \A s \in Scenarios : row[s] # Nothing => s \in minted
    /\ draft \in [Drafts -> DraftRows \cup {Nothing}]
    /\ edits \in 0 .. MaxEdits
    /\ saved \subseteq 1 .. MaxEdits
    /\ blind \in Ops \cup {"none"}
    /\ pc \in [Requests -> Places]
    /\ job \in [Requests -> Jobs]
    /\ \A r \in Requests : JobOK(r)

\* "expected_row_version ... is the primary concurrency primitive" (ScenarioRepo):
\* as long as nothing was overwritten unseen, the version counts the commits,
\* those that change only the controls included, so that a form whose version
\* matches has shown the row as it is.
VersionCountsCommits ==
    blind = "none" =>
        /\ \A s \in Scenarios : row[s] # Nothing => row[s].ver = row[s].rev
        /\ \A d \in Drafts : draft[d] # Nothing => draft[d].basever = draft[d].baserev

\* "lock=True at the FIRST read closes the stale-read window" (finalize_wizard):
\* with row locks no handler that locks at its first read is ever the first to
\* commit over a change it has not seen, and a re-estimate never is, on either
\* backend: its read follows the CAS, which holds SQLite's write lock.
OnlyEditsOverwrite ==
    /\ blind # "finalize"
    /\ backend = "postgres" => blind \in {"none", "edit"}

\* "status transitions go ONLY through the audited promote flow" and promote
\* refuses an unconfirmed framing: whatever forms and drafts older than the
\* promotion are saved later, ACTIVE stays and was inherent when it came.
PromotionStands ==
    [][\A s \in Scenarios : row[s] # Nothing /\ row'[s] # Nothing =>
        /\ row[s].status = "active" => row'[s].status = "active"
        /\ row[s].status # row'[s].status => row[s].framing = "inherent"
        /\ row[s].framing = "inherent" => row'[s].framing = "inherent"]_vars

\* D23 "refuses outright on ANY analyst-pinned loss field": with row locks a
\* refresh never replaces a pin that was committed while it was on its way.
RefreshSparesPins ==
    [][\A s \in Scenarios :
        (/\ backend = "postgres" /\ row[s] # Nothing /\ row'[s] # Nothing
         /\ row[s].loss = "pinned")
        => row'[s].loss # "library"]_vars

\* "db.delete(draft) BEFORE db.commit(), inside the FOR UPDATE-locked
\* transaction": a content that was saved is in no draft any more, so that a
\* second finalize, however it overlaps, never saves it twice.
SavedOnce == \A d \in Drafts : draft[d] # Nothing => draft[d].rev \notin saved

\* "a rejected finalize does NOT consume the token" (A-I3): a draft that keeps
\* its content keeps its token, so the page that was refused can be sent again.
TokenStandsOnReject ==
    [][\A d \in Drafts :
        (draft[d] # Nothing /\ draft'[d] # Nothing /\ draft'[d].rev = draft[d].rev)
        => draft'[d] = draft[d]]_vars

\* A claim the code does not keep.

\* "409: Draft modified in another session; reload" (finalize_wizard): what is
\* saved is what the review page has shown.
SavesWhatWasReviewed ==
    \A r \in Requests : pc[r] = "claimed" => Seen(r).rev = Page(r).rev
=============================================================================
