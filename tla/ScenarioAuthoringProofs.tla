------------------------- MODULE ScenarioAuthoringProofs -------------------------
(***************************************************************************)
(* Proofs about ScenarioAuthoring, for any number of scenarios, drafts and *)
(* overlapping requests, on either database.                               *)
(***************************************************************************)
EXTENDS ScenarioAuthoring, TLAPS

-----------------------------------------------------------------------------
(* What a write makes of a row                                             *)

\* The version comes from the copy, the count of commits from the row.
LEMMA BumpedRow ==
    ASSUME NEW seen \in Rows \cup Stamps, NEW c \in Rows
    PROVE  /\ Bumped(seen, c) \in Rows
           /\ Bumped(seen, c).ver = seen.ver + 1 /\ Bumped(seen, c).rev = c.rev + 1
           /\ Bumped(seen, c).status = c.status /\ Bumped(seen, c).framing = c.framing
           /\ Bumped(seen, c).loss = c.loss
  <1>1. seen.ver \in Nat
    BY DEF Rows, Stamps
  <1>2. c.rev + 1 \in Nat \ {0} /\ seen.ver + 1 \in Nat \ {0}
    BY <1>1 DEF Rows
  <1> QED
    BY <1>2 DEF Bumped, Rows

\* Each column write leaves the version, the count and the other columns alone.
LEMMA ColumnRow ==
    ASSUME NEW c \in Rows
    PROVE  /\ \A w \in {Framed(c), Assigned(c), Promoted(c), Pinned(c), Unpinned(c), Refreshed(c)} :
                w \in Rows /\ w.ver = c.ver /\ w.rev = c.rev
           /\ Framed(c).status = c.status /\ Framed(c).loss = c.loss
           /\ Framed(c).framing = "inherent"
           /\ Promoted(c).status = "active" /\ Promoted(c).loss = c.loss
           /\ Promoted(c).framing = c.framing
           /\ Assigned(c).loss = c.loss
           /\ \A w \in {Assigned(c), Pinned(c), Unpinned(c), Refreshed(c)} :
                w.status = c.status /\ w.framing = c.framing
           /\ Pinned(c).loss = "pinned" /\ Unpinned(c).loss = "plain"
  <1> USE DEF Rows
  <1>1. /\ Framed(c) \in Rows /\ Framed(c).ver = c.ver /\ Framed(c).rev = c.rev
        /\ Framed(c).status = c.status /\ Framed(c).loss = c.loss
        /\ Framed(c).framing = "inherent"
    BY DEF Framed
  <1>2. /\ Assigned(c) \in Rows /\ Assigned(c).ver = c.ver /\ Assigned(c).rev = c.rev
        /\ Assigned(c).status = c.status /\ Assigned(c).loss = c.loss
        /\ Assigned(c).framing = c.framing
    BY DEF Assigned
  <1>3. /\ Promoted(c) \in Rows /\ Promoted(c).ver = c.ver /\ Promoted(c).rev = c.rev
        /\ Promoted(c).status = "active" /\ Promoted(c).loss = c.loss
        /\ Promoted(c).framing = c.framing
    BY DEF Promoted
  <1>4. \A w \in {Pinned(c), Unpinned(c), Refreshed(c)} :
           /\ w \in Rows /\ w.ver = c.ver /\ w.rev = c.rev
           /\ w.status = c.status /\ w.framing = c.framing
    BY DEF Pinned, Unpinned, Refreshed
  <1>5. Pinned(c).loss = "pinned" /\ Unpinned(c).loss = "plain"
    BY DEF Pinned, Unpinned
  <1> HIDE DEF Rows
  <1> QED
    BY <1>1, <1>2, <1>3, <1>4, <1>5

\* What every commit over a row keeps: ACTIVE, an inherent framing, and, but for
\* a refresh, a pin from becoming the library's.
Follows(c, w) ==
    /\ w \in Rows /\ w.rev = c.rev + 1
    /\ c.status = "active" => w.status = "active"
    /\ c.framing = "inherent" => w.framing = "inherent"

LEMMA WrittenRow ==
    ASSUME NEW op \in (Paged \cup Direct) \ {"delete", "edit"}, NEW seen \in Stamps, NEW c \in Rows
    PROVE  /\ Follows(c, Written(op, seen, c))
           /\ Written(op, seen, c).ver = seen.ver + 1
           /\ Written(op, seen, c).status # c.status => op = "promote"
           /\ c.loss = "pinned" /\ op # "refresh" => Written(op, seen, c).loss # "library"
  <1> DEFINE next == Bumped(seen, c)
  <1>1. /\ next \in Rows /\ next.ver = seen.ver + 1 /\ next.rev = c.rev + 1
        /\ next.status = c.status /\ next.framing = c.framing /\ next.loss = c.loss
    BY BumpedRow
  <1> HIDE DEF next
  <1>2. Written(op, seen, c) =
          CASE op = "frame"     -> Framed(next)
            [] op = "community" -> Assigned(next)
            [] op = "promote"   -> Promoted(next)
            [] op = "pin"       -> Pinned(next)
            [] op = "unpin"     -> Unpinned(next)
            [] op = "refresh"   -> Refreshed(next)
            [] op = "delete"    -> Nothing
    BY DEF Written, next
  <1>3. CASE op = "frame"
    BY <1>1, <1>2, <1>3, ColumnRow DEF Follows
  <1>4. CASE op = "community"
    BY <1>1, <1>2, <1>4, ColumnRow DEF Follows
  <1>5. CASE op = "promote"
    BY <1>1, <1>2, <1>5, ColumnRow DEF Follows
  <1>6. CASE op = "pin"
    BY <1>1, <1>2, <1>6, ColumnRow DEF Follows
  <1>7. CASE op = "unpin"
    BY <1>1, <1>2, <1>7, ColumnRow DEF Follows
  <1>8. CASE op = "refresh"
    BY <1>1, <1>2, <1>8, ColumnRow DEF Follows
  <1> QED
    BY <1>3, <1>4, <1>5, <1>6, <1>7, <1>8 DEF Paged, Direct

LEMMA EditedRow ==
    ASSUME NEW seen \in Rows, NEW c \in Rows, NEW w \in EditChanges(seen, c)
    PROVE  /\ Follows(c, w)
           /\ w.ver = seen.ver + 1
           /\ w.status = c.status
           /\ c.loss = "pinned" => w.loss # "library"
  <1> DEFINE x == IF seen.review THEN Assigned(Bumped(seen, c)) ELSE Bumped(seen, c)
             fields == {Unpinned(x)} \cup (IF seen.loss = "pinned" THEN {} ELSE {x})
  <1>1. /\ x \in Rows /\ x.ver = seen.ver + 1 /\ x.rev = c.rev + 1
        /\ x.status = c.status /\ x.framing = c.framing /\ x.loss = c.loss
    BY BumpedRow, ColumnRow
  <1>2. \A y \in fields :
           /\ y \in Rows /\ y.ver = seen.ver + 1 /\ y.rev = c.rev + 1
           /\ y.status = c.status /\ y.framing = c.framing
           /\ c.loss = "pinned" => y.loss # "library"
    <2> HIDE DEF x
    <2> QED
      BY <1>1, ColumnRow
  <1>3. \/ w \in fields \/ (\E y \in fields : w = Framed(y))
        \/ w = ControlsChanged(seen, c)
    BY DEF EditChanges
  <1> HIDE DEF fields
  <1>4. CASE w \in fields
    BY <1>2, <1>4 DEF Follows
  <1>5. CASE \E y \in fields : w = Framed(y)
    BY <1>2, <1>5, ColumnRow DEF Follows
  <1>6. CASE w = ControlsChanged(seen, c)
    BY <1>6, BumpedRow DEF Follows, ControlsChanged
  <1> QED
    BY <1>3, <1>4, <1>5, <1>6

LEMMA ReestimatedRow ==
    ASSUME NEW c \in Rows
    PROVE  /\ Follows(c, Reestimated(c))
           /\ Reestimated(c).ver = c.ver + 1
           /\ Reestimated(c).status = c.status
           /\ Reestimated(c).loss = "plain"
  <1> DEFINE x == Bumped(c, c)
             w == Unpinned(Assigned(Framed(x)))
  <1>0. x \in Rows /\ x.ver = c.ver + 1 /\ x.rev = c.rev + 1 /\ x.status = c.status
    BY BumpedRow
  <1>1. /\ w \in Rows /\ w.ver = c.ver + 1 /\ w.rev = c.rev + 1
        /\ w.status = c.status /\ w.framing = "inherent" /\ w.loss = "plain"
    <2> HIDE DEF x
    <2>1. Framed(x) \in Rows
      BY <1>0, ColumnRow
    <2>2. Assigned(Framed(x)) \in Rows
      BY <2>1, ColumnRow
    <2> QED
      BY <1>0, <2>1, <2>2, ColumnRow
  <1>2. Reestimated(c) = [w EXCEPT !.linked = FALSE]
    BY DEF Reestimated
  <1> HIDE DEF w
  <1> QED
    BY <1>1, <1>2 DEF Follows, Rows

LEMMA CreatedRow ==
    ASSUME NEW linked \in BOOLEAN
    PROVE  NewRow(linked) \in Rows /\ NewRow(linked).ver = 1 /\ NewRow(linked).rev = 1
  BY DEF NewRow, Rows

-----------------------------------------------------------------------------
(* Types                                                                   *)

\* What is in the database and the counters beside it.
DataTyped ==
    /\ row \in [Scenarios -> Rows \cup {Nothing}]
    /\ minted \subseteq Scenarios \cup Drafts
    /\ \A s \in Scenarios : row[s] # Nothing => s \in minted
    /\ draft \in [Drafts -> DraftRows \cup {Nothing}]
    /\ edits \in 0 .. MaxEdits
    /\ saved \subseteq 1 .. MaxEdits
    /\ blind \in Ops \cup {"none"}

LEMMA NothingElse == Nothing \notin Rows /\ Nothing \notin DraftRows /\ Nothing \notin Stamps
  BY FoundAssumption

\* What a request carries, by its place.
LEMMA Carries ==
    ASSUME TypeOK, NEW r \in Requests
    PROVE  /\ job[r].op \in Paged \cup Direct \cup {"page"} /\ pc[r] # "idle" =>
                On(r) \in Scenarios /\ Page(r) \in Stamps
           /\ pc[r] = "read" /\ job[r].op = "edit" => Seen(r) \in Rows
           /\ pc[r] = "locked" /\ job[r].op \in Paged \cup Direct =>
                Seen(r) \in Stamps /\ job[r].op # "edit"
           /\ job[r].op = "step" => On(r) \in Drafts /\ Seen(r) \in DraftRows
           /\ pc[r] = "selected" => job[r].op = "step" /\ Page(r) \in DraftRows \cup {Nothing}
           /\ job[r].op = "finalize" => On(r) \in Drafts /\ Page(r) \in Stamps
           /\ pc[r] = "locked" /\ job[r].op = "finalize" => Seen(r) \in DraftRows
           /\ pc[r] = "claimed" => job[r].op = "finalize" /\ Seen(r) \in DraftRows
           /\ pc[r] = "idle" <=> job[r].op = "none"
  BY DEF TypeOK, JobOK, NoJob, On, Page, Seen, Paged, Direct

LEMMA ShownTyped ==
    /\ \A x \in Rows : Shown(x) \in Stamps
    /\ \A x \in DraftRows : Reviewed(x) \in Stamps
  BY DEF Shown, Reviewed, Stamps, Rows, DraftRows

\* A request moves on without writing.
LEMMA GotoTyped ==
    ASSUME TypeOK, UNCHANGED backend, NEW r \in Requests, NEW place \in Places, NEW j \in Jobs,
           Goto(r, place, j), ScenarioUnchanged, DraftUnchanged, JobOK(r)'
    PROVE  TypeOK'
  <1>1. job' \in [Requests -> Jobs] /\ pc' \in [Requests -> Places]
    BY DEF Goto, TypeOK
  <1>2. ASSUME NEW q \in Requests
        PROVE  JobOK(q)'
    <2>1. CASE q # r
      BY <2>1 DEF Goto, TypeOK, JobOK
    <2> QED
      BY <2>1
  <1> QED
    BY <1>1, <1>2 DEF TypeOK, ScenarioUnchanged, DraftUnchanged

\* A request ends; what is left to show is what it has written.
LEMMA EndTyped ==
    ASSUME TypeOK, UNCHANGED backend, NEW r \in Requests, End(r), DataTyped'
    PROVE  TypeOK'
  <1>0. NoJob \in Jobs /\ "idle" \in Places
    BY DEF NoJob, Jobs, Places
  <1>1. job' \in [Requests -> Jobs] /\ pc' \in [Requests -> Places]
    BY <1>0 DEF End, TypeOK
  <1>2. ASSUME NEW q \in Requests
        PROVE  JobOK(q)'
    BY DEF End, TypeOK, JobOK
  <1> QED
    BY <1>1, <1>2 DEF TypeOK, DataTyped

\* The steps that read: a page, a lock, a load, the CAS.
LEMMA ReadTyped ==
    ASSUME TypeOK, UNCHANGED backend, NEW r \in Requests,
           \/ \E s \in Scenarios : OpenPage(r, s)
           \/ ReadForEdit(r)
           \/ \E d \in Drafts : LoadStep(r, d) \/ OpenReview(r, d)
           \/ SelectAgain(r) \/ LoadDraft(r) \/ Claim(r)
    PROVE  TypeOK'
  <1> USE NothingElse, ShownTyped, Carries
  <1>0. /\ row \in [Scenarios -> Rows \cup {Nothing}]
        /\ draft \in [Drafts -> DraftRows \cup {Nothing}]
        /\ job \in [Requests -> Jobs] /\ pc \in [Requests -> Places]
    BY DEF TypeOK
  <1>1. ASSUME NEW s \in Scenarios, OpenPage(r, s)
        PROVE  TypeOK'
    <2> DEFINE j == [op |-> "page", on |-> s, page |-> Shown(row[s]), seen |-> Nothing]
    <2>1. Shown(row[s]) \in Stamps
      BY <1>0, <1>1 DEF OpenPage
    <2>2. j \in Jobs /\ "form" \in Places
      BY <2>1 DEF Jobs, Ops, Places
    <2>3. JobOK(r)'
      BY <1>0, <1>1, <2>1 DEF OpenPage, Goto, JobOK
    <2> QED
      BY <1>1, <2>2, <2>3, GotoTyped DEF OpenPage
  <1>2. CASE ReadForEdit(r)
    <2> DEFINE j == [job[r] EXCEPT !.op = "edit", !.seen = row[On(r)]]
    <2>1. /\ pc[r] = "form" /\ job[r].op = "page" /\ On(r) \in Scenarios
          /\ Page(r) \in Stamps /\ row[On(r)] \in Rows
      BY <1>0, <1>2 DEF ReadForEdit
    <2>2. j \in Jobs /\ "read" \in Places
      BY <1>0, <2>1 DEF Jobs, Ops, Paged, Places
    <2>3. JobOK(r)'
      BY <1>0, <1>2, <2>1 DEF ReadForEdit, Goto, JobOK, On, Page, Paged, Jobs
    <2> QED
      BY <1>2, <2>2, <2>3, GotoTyped DEF ReadForEdit
  <1>3. ASSUME NEW d \in Drafts, LoadStep(r, d)
        PROVE  TypeOK'
    <2> DEFINE j == [op |-> "step", on |-> d, page |-> Nothing, seen |-> draft[d]]
    <2>1. draft[d] \in DraftRows
      BY <1>0, <1>3 DEF LoadStep
    <2>2. j \in Jobs /\ "read" \in Places
      BY <2>1 DEF Jobs, Ops, Places
    <2>3. JobOK(r)'
      BY <1>0, <1>3, <2>1 DEF LoadStep, Goto, JobOK
    <2> QED
      BY <1>3, <2>2, <2>3, GotoTyped DEF LoadStep
  <1>4. ASSUME NEW d \in Drafts, OpenReview(r, d)
        PROVE  TypeOK'
    <2> DEFINE j == [op |-> "finalize", on |-> d, page |-> Reviewed(draft[d]), seen |-> Nothing]
    <2>1. Reviewed(draft[d]) \in Stamps
      BY <1>0, <1>4 DEF OpenReview
    <2>2. j \in Jobs /\ "form" \in Places
      BY <2>1 DEF Jobs, Ops, Places
    <2>3. JobOK(r)'
      BY <1>0, <1>4, <2>1 DEF OpenReview, Goto, JobOK
    <2> QED
      BY <1>4, <2>2, <2>3, GotoTyped DEF OpenReview
  <1>5. CASE SelectAgain(r)
    <2> DEFINE j == [job[r] EXCEPT !.page = draft[On(r)]]
    <2>1. /\ pc[r] = "read" /\ job[r].op = "step" /\ On(r) \in Drafts
          /\ Seen(r) \in DraftRows /\ draft[On(r)] \in DraftRows \cup {Nothing}
      BY <1>0, <1>5 DEF SelectAgain
    <2>2. j \in Jobs /\ "selected" \in Places
      BY <1>0, <2>1 DEF Jobs, Places
    <2>3. JobOK(r)'
      BY <1>0, <1>5, <2>1 DEF SelectAgain, Goto, JobOK, On, Seen, Jobs
    <2> QED
      BY <1>5, <2>2, <2>3, GotoTyped DEF SelectAgain
  <1>6. CASE LoadDraft(r)
    <2> DEFINE j == [job[r] EXCEPT !.seen = draft[On(r)]]
    <2>1. /\ pc[r] = "form" /\ job[r].op = "finalize" /\ On(r) \in Drafts
          /\ Page(r) \in Stamps /\ draft[On(r)] \in DraftRows
      BY <1>0, <1>6 DEF LoadDraft
    <2>2. j \in Jobs /\ "locked" \in Places
      BY <1>0, <2>1 DEF Jobs, Places
    <2>3. JobOK(r)'
      BY <1>0, <1>6, <2>1 DEF LoadDraft, Goto, JobOK, On, Page, Jobs
    <2> QED
      BY <1>6, <2>2, <2>3, GotoTyped DEF LoadDraft
  <1>7. CASE Claim(r)
    <2>1. /\ pc[r] = "locked" /\ job[r].op = "finalize" /\ On(r) \in Drafts
          /\ Page(r) \in Stamps /\ Seen(r) \in DraftRows
      BY <1>7 DEF Claim
    <2>2. job[r] \in Jobs /\ "claimed" \in Places
      BY <1>0 DEF Places
    <2>3. JobOK(r)'
      BY <1>0, <1>7, <2>1 DEF Claim, Goto, JobOK, On, Page, Seen
    <2> QED
      BY <1>7, <2>2, <2>3, GotoTyped DEF Claim
  <1> QED
    BY <1>1, <1>2, <1>3, <1>4, <1>5, <1>6, <1>7

\* The handlers that lock the scenario's row at their first read.
LockAny(r, s, op) ==
    \/ op \in {"delete", "pin", "unpin", "refresh"} /\ s = On(r) /\ PostForm(r, op)
    \/ op \in Direct /\ PostDirect(r, s, op)

LEMMA LockTyped ==
    ASSUME TypeOK, UNCHANGED backend, NEW r \in Requests, NEW s \in Scenarios, NEW op,
           LockAny(r, s, op)
    PROVE  TypeOK'
  <1>0. /\ row \in [Scenarios -> Rows \cup {Nothing}]
        /\ job \in [Requests -> Jobs] /\ pc \in [Requests -> Places]
    BY DEF TypeOK
  <1>1. PICK basis \in Stamps : Lock(r, s, op, basis) /\ op \in (Paged \cup Direct) \ {"edit"}
    <2>1. CASE op \in Direct
      <3>1. Lock(r, s, op, Shown(row[s]))
        BY <2>1 DEF LockAny, PostDirect, Direct
      <3>2. Shown(row[s]) \in Stamps
        BY <1>0, <3>1, NothingElse, ShownTyped DEF Lock
      <3>3. op \in (Paged \cup Direct) \ {"edit"}
        BY <2>1 DEF Direct
      <3> QED
        BY <3>1, <3>2, <3>3
    <2>2. CASE op \notin Direct
      <3>1. Lock(r, On(r), op, Page(r)) /\ s = On(r) /\ pc[r] = "form" /\ job[r].op = "page"
        BY <2>2 DEF LockAny, PostForm
      <3>2. op \in (Paged \cup Direct) \ {"edit"}
        BY <2>2 DEF LockAny, Paged
      <3> QED
        BY <3>1, <3>2, Carries
    <2> QED
      BY <2>1, <2>2
  <1> DEFINE j == [op |-> op, on |-> s, page |-> basis, seen |-> Shown(row[s])]
  <1>2. Shown(row[s]) \in Stamps
    BY <1>0, <1>1, NothingElse, ShownTyped DEF Lock
  <1>3. j \in Jobs /\ "locked" \in Places
    BY <1>1, <1>2 DEF Jobs, Ops, Places
  <1>4. JobOK(r)'
    <2>1. op \notin {"page", "edit"}
      BY <1>1 DEF Paged, Direct
    <2> QED
      BY <1>0, <1>1, <1>2, <2>1 DEF Lock, Goto, JobOK
  <1> QED
    BY <1>1, <1>3, <1>4, GotoTyped DEF Lock

\* The steps that write the scenario's row.
LEMMA RowWriteTyped ==
    ASSUME TypeOK, NEW r \in Requests, CommitLocked(r) \/ CommitEdit(r)
    PROVE  DataTyped'
  <1>0. /\ row \in [Scenarios -> Rows \cup {Nothing}] /\ DataTyped
        /\ \A s \in Scenarios : row[s] # Nothing => row[s] \in Rows
    BY DEF TypeOK, DataTyped
  <1>1. CASE CommitLocked(r)
    <2> DEFINE s == On(r)
               op == job[r].op
    <2>1. /\ op \in (Paged \cup Direct) \ {"edit"} /\ s \in Scenarios /\ Seen(r) \in Stamps
          /\ row[s] # Nothing
      BY <1>1, Carries DEF CommitLocked
    <2>2. Written(op, Seen(r), row[s]) \in Rows \cup {Nothing}
      <3>1. CASE op = "delete"
        BY <3>1 DEF Written
      <3>2. CASE op # "delete"
        BY <1>0, <2>1, <3>2, WrittenRow DEF Follows
      <3> QED
        BY <3>1, <3>2
    <2>3. row' = [row EXCEPT ![s] = Written(op, Seen(r), row[s])]
      BY <1>1 DEF CommitLocked
    <2>4. blind' \in Ops \cup {"none"}
      BY <1>0, <1>1, <2>1 DEF CommitLocked, MarkBlind, DataTyped, Ops
    <2>5. UNCHANGED <<minted, draft, edits, saved>>
      BY <1>1 DEF CommitLocked, DraftUnchanged
    <2> HIDE DEF s, op
    <2> QED
      BY <1>0, <2>1, <2>2, <2>3, <2>4, <2>5 DEF DataTyped
  <1>2. CASE CommitEdit(r)
    <2> DEFINE s == On(r)
    <2>1. s \in Scenarios /\ Seen(r) \in Rows /\ row[s] # Nothing
      BY <1>2, Carries DEF CommitEdit, Paged
    <2>2. PICK new \in EditChanges(Seen(r), row[s]) : row' = [row EXCEPT ![s] = new]
      BY <1>2 DEF CommitEdit
    <2>3. new \in Rows
      BY <1>0, <2>1, EditedRow DEF Follows
    <2>4. blind' \in Ops \cup {"none"} /\ UNCHANGED <<minted, draft, edits, saved>>
      BY <1>0, <1>2 DEF CommitEdit, MarkBlind, DraftUnchanged, DataTyped, Ops, Paged
    <2> HIDE DEF s
    <2> QED
      BY <1>0, <2>1, <2>2, <2>3, <2>4 DEF DataTyped
  <1> QED
    BY <1>1, <1>2

\* A new row.
LEMMA CreateTyped ==
    ASSUME DataTyped, NEW s \in Scenarios, NEW linked \in BOOLEAN, Create(s, linked)
    PROVE  /\ row' \in [Scenarios -> Rows \cup {Nothing}]
           /\ minted' \subseteq Scenarios \cup Drafts
           /\ \A t \in Scenarios : row'[t] # Nothing => t \in minted'
           /\ blind' = blind
  <1>1. NewRow(linked) \in Rows
    BY CreatedRow
  <1> QED
    BY <1>1 DEF Create, DataTyped

\* The steps that write drafts, and a finalize's two ends.
LEMMA DraftWriteTyped ==
    ASSUME TypeOK, NEW r \in Requests, WriteStep(r) \/ Save(r) \/ Reject(r)
    PROVE  DataTyped'
  <1>0. /\ DataTyped /\ \A s \in Scenarios : row[s] # Nothing => row[s] \in Rows
        /\ row \in [Scenarios -> Rows \cup {Nothing}]
        /\ draft \in [Drafts -> DraftRows \cup {Nothing}] /\ edits \in 0 .. MaxEdits
    BY DEF TypeOK, DataTyped
  <1>1. CASE WriteStep(r)
    <2>1. On(r) \in Drafts /\ Seen(r) \in DraftRows /\ Page(r) \in DraftRows \cup {Nothing}
      BY <1>1, Carries DEF WriteStep
    <2>2. NextToken(Seen(r), Page(r)) \in Nat
      BY <2>1 DEF NextToken, DraftRows
    <2>3. Fresh \in 1 .. MaxEdits /\ edits' = Fresh
      BY <1>0, <1>1, AuthoringAssumption DEF WriteStep, Fresh
    <2>4. [Seen(r) EXCEPT !.token = NextToken(Seen(r), Page(r)), !.rev = Fresh] \in DraftRows
      BY <2>1, <2>2, <2>3 DEF DraftRows
    <2>5. draft' = [draft EXCEPT ![On(r)] =
             [Seen(r) EXCEPT !.token = NextToken(Seen(r), Page(r)), !.rev = Fresh]]
      BY <1>1 DEF WriteStep
    <2>6. UNCHANGED <<row, minted, blind, saved>>
      BY <1>1 DEF WriteStep, ScenarioUnchanged
    <2> QED
      BY <1>0, <2>1, <2>3, <2>4, <2>5, <2>6, AuthoringAssumption DEF DataTyped
  <1>2. CASE Save(r)
    <2>1. On(r) \in Drafts /\ Seen(r) \in DraftRows
      BY <1>2, Carries DEF Save
    <2>2. /\ draft' \in [Drafts -> DraftRows \cup {Nothing}]
          /\ edits' = edits /\ saved' \subseteq 1 .. MaxEdits
      BY <1>0, <1>2, <2>1 DEF Save, Consumed, DataTyped, DraftRows
    <2>3. /\ row' \in [Scenarios -> Rows \cup {Nothing}]
          /\ minted' \subseteq Scenarios \cup Drafts
          /\ \A s \in Scenarios : row'[s] # Nothing => s \in minted'
          /\ blind' \in Ops \cup {"none"}
      <3>1. CASE Seen(r).target = Nothing
        BY <1>0, <1>2, <3>1, CreateTyped DEF Save, DataTyped
      <3>2. CASE Seen(r).target # Nothing
        <4> DEFINE s == Seen(r).target
        <4>1. s \in Scenarios /\ SaveOver(Seen(r))
          BY <1>2, <2>1, <3>2 DEF Save, DraftRows
        <4>2. row[s] \in Rows /\ row' = [row EXCEPT ![s] = Reestimated(row[s])]
          BY <1>0, <4>1 DEF SaveOver, TargetMatches
        <4>3. Reestimated(row[s]) \in Rows
          BY <4>2, ReestimatedRow DEF Follows
        <4>4. minted' = minted /\ blind' \in Ops \cup {"none"} /\ row[s] # Nothing
          BY <1>0, <4>1 DEF SaveOver, TargetMatches, DataTyped, Ops
        <4> HIDE DEF s
        <4> QED
          BY <1>0, <4>1, <4>2, <4>3, <4>4 DEF DataTyped
      <3> QED
        BY <3>1, <3>2
    <2> QED
      BY <1>0, <2>2, <2>3 DEF DataTyped
  <1>3. CASE Reject(r)
    BY <1>0, <1>3 DEF Reject, ScenarioUnchanged, DraftUnchanged, DataTyped
  <1> QED
    BY <1>1, <1>2, <1>3

\* A new draft: empty, or over the row it has read.
LEMMA StartedDraft ==
    ASSUME TypeOK, NEW d \in Drafts, NEW s \in Scenarios \cup {Nothing}, StartDraft(d, s)
    PROVE  /\ Fresh \in 1 .. MaxEdits /\ edits' = Fresh
           /\ \E new \in DraftRows :
                /\ draft' = [draft EXCEPT ![d] = new] /\ new.rev = Fresh
                /\ \/ new.basever = new.baserev
                   \/ s \in Scenarios /\ row[s] # Nothing
                        /\ new.basever = row[s].ver /\ new.baserev = row[s].rev
  <1>1. Fresh \in 1 .. MaxEdits /\ edits' = Fresh
    BY AuthoringAssumption DEF StartDraft, Fresh, TypeOK
  <1>2. CASE s = Nothing
    <2> DEFINE new == [token |-> 0, rev |-> Fresh, target |-> Nothing,
                       basever |-> 0, baserev |-> 0]
    <2>1. draft' = [draft EXCEPT ![d] = new]
      BY <1>2 DEF StartDraft
    <2>2. new \in DraftRows /\ new.rev = Fresh /\ new.basever = new.baserev
      BY <1>1 DEF DraftRows
    <2> QED
      BY <1>1, <2>1, <2>2
  <1>3. CASE s # Nothing
    <2> DEFINE new == [token |-> 1, rev |-> Fresh, target |-> s,
                       basever |-> row[s].ver, baserev |-> row[s].rev]
    <2>1. draft' = [draft EXCEPT ![d] = new] /\ s \in Scenarios /\ row[s] # Nothing
      BY <1>3 DEF StartDraft
    <2>2. row[s] \in Rows
      BY <2>1 DEF TypeOK
    <2>3. /\ new \in DraftRows /\ new.rev = Fresh
          /\ new.basever = row[s].ver /\ new.baserev = row[s].rev
      BY <1>1, <2>1, <2>2 DEF DraftRows, Rows
    <2> QED
      BY <1>1, <2>1, <2>3
  <1> QED
    BY <1>2, <1>3

\* The steps that no request of the model takes.
LEMMA OutsideTyped ==
    ASSUME TypeOK,
           \/ \E s \in Scenarios : CreateScenario(s)
           \/ \E d \in Drafts, s \in Scenarios \cup {Nothing} : StartDraft(d, s)
           \/ \E d \in Drafts : CancelDraft(d) \/ SweepDraft(d)
    PROVE  DataTyped' /\ UNCHANGED <<pc, job>>
  <1>0. /\ DataTyped /\ edits \in 0 .. MaxEdits
        /\ row \in [Scenarios -> Rows \cup {Nothing}]
        /\ draft \in [Drafts -> DraftRows \cup {Nothing}]
    BY DEF TypeOK, DataTyped
  <1>1. ASSUME NEW s \in Scenarios, CreateScenario(s)
        PROVE  DataTyped' /\ UNCHANGED <<pc, job>>
    BY <1>0, <1>1, CreateTyped DEF CreateScenario, DraftUnchanged, DataTyped
  <1>2. ASSUME NEW d \in Drafts, NEW s \in Scenarios \cup {Nothing}, StartDraft(d, s)
        PROVE  DataTyped' /\ UNCHANGED <<pc, job>>
    <2>1. PICK new \in DraftRows : draft' = [draft EXCEPT ![d] = new]
      BY <1>2, StartedDraft
    <2>2. UNCHANGED <<row, blind, saved, pc, job>> /\ minted' = minted \cup {d}
      BY <1>2 DEF StartDraft
    <2>3. edits' \in 0 .. MaxEdits
      BY <1>0, <1>2, StartedDraft, AuthoringAssumption
    <2> QED
      BY <1>0, <2>1, <2>2, <2>3 DEF DataTyped
  <1>3. ASSUME NEW d \in Drafts, CancelDraft(d) \/ SweepDraft(d)
        PROVE  DataTyped' /\ UNCHANGED <<pc, job>>
    BY <1>0, <1>3 DEF CancelDraft, SweepDraft, DropDraft, ScenarioUnchanged, DataTyped
  <1> QED
    BY <1>1, <1>2, <1>3

\* The kinds of step a request takes.
ReadStep(r) ==
    \/ \E s \in Scenarios : OpenPage(r, s)
    \/ ReadForEdit(r)
    \/ \E d \in Drafts : LoadStep(r, d) \/ OpenReview(r, d)
    \/ SelectAgain(r) \/ LoadDraft(r) \/ Claim(r)

LEMMA RequestKinds ==
    ASSUME TypeOK, NEW r \in Requests, RequestStep(r)
    PROVE  \/ ReadStep(r)
           \/ \E s \in Scenarios, op \in Paged \cup Direct : LockAny(r, s, op)
           \/ (CommitLocked(r) \/ CommitEdit(r) \/ WriteStep(r) \/ Save(r) \/ Reject(r))
                /\ End(r)
           \/ GiveUp(r) /\ End(r) /\ ScenarioUnchanged /\ DraftUnchanged
  <1>1. CASE PostDelete(r) \/ PostPin(r) \/ PostUnpin(r) \/ PostRefresh(r)
    <2>1. On(r) \in Scenarios
      BY <1>1, Carries DEF PostDelete, PostPin, PostUnpin, PostRefresh, PostForm
    <2> QED
      BY <1>1, <2>1 DEF PostDelete, PostPin, PostUnpin, PostRefresh, LockAny, Paged
  <1>2. CASE \E s \in Scenarios : PostFraming(r, s) \/ PostCommunity(r, s) \/ PostPromote(r, s)
    BY <1>2 DEF PostFraming, PostCommunity, PostPromote, LockAny, Direct
  <1>3. CASE CommitLocked(r) \/ CommitEdit(r) \/ WriteStep(r) \/ Save(r) \/ Reject(r)
    BY <1>3 DEF CommitLocked, CommitEdit, WriteStep, Save, Reject
  <1>4. CASE GiveUp(r)
    BY <1>4 DEF GiveUp
  <1> QED
    BY <1>1, <1>2, <1>3, <1>4 DEF RequestStep, ReadStep

\* Every variable keeps its type.
THEOREM TypeCorrect == Spec => []TypeOK
  <1>1. ASSUME Init
        PROVE  TypeOK
    <2> USE <1>1 DEF Init
    <2>1. row \in [Scenarios -> Rows \cup {Nothing}]
      BY FoundAssumption
    <2>2. NoJob \in Jobs
      BY DEF NoJob, Jobs
    <2> QED
      BY <2>1, <2>2, AuthoringAssumption DEF TypeOK, JobOK, Places
  <1>2. ASSUME TypeOK, Next
        PROVE  TypeOK'
    <2>0. UNCHANGED backend
      BY <1>2 DEF Next
    <2>1. ASSUME NEW r \in Requests, RequestStep(r)
          PROVE  TypeOK'
      <3>1. CASE GiveUp(r)
        <4>1. DataTyped'
          BY <1>2, <3>1 DEF GiveUp, ScenarioUnchanged, DraftUnchanged, TypeOK, DataTyped
        <4> QED
          BY <1>2, <2>0, <3>1, <4>1, EndTyped DEF GiveUp
      <3> QED
        BY <1>2, <2>0, <2>1, <3>1, RequestKinds, ReadTyped, LockTyped, RowWriteTyped,
           DraftWriteTyped, EndTyped DEF ReadStep
    <2>2. CASE ~\E r \in Requests : RequestStep(r)
      <3>1. DataTyped' /\ UNCHANGED <<pc, job>>
        BY <1>2, <2>2, OutsideTyped DEF Next
      <3> QED
        BY <1>2, <2>0, <3>1 DEF TypeOK, DataTyped, JobOK
    <2> QED
      BY <2>1, <2>2
  <1>3. TypeOK /\ UNCHANGED vars => TypeOK'
    BY DEF TypeOK, vars, JobOK
  <1> QED
    BY <1>1, <1>2, <1>3, PTL DEF Spec

-----------------------------------------------------------------------------
(* What the drafts hold                                                    *)

Finalizing(r) == job[r].op = "finalize" /\ pc[r] \in {"locked", "claimed"}

\* Every content is in one draft at most, and neither a saved content nor the
\* one a finalize is about to save is in another.
RevsApart ==
    /\ saved \subseteq 1 .. edits
    /\ \A d \in Drafts : draft[d] # Nothing => draft[d].rev <= edits /\ draft[d].rev \notin saved
    /\ \A d, e \in Drafts :
          draft[d] # Nothing /\ draft[e] # Nothing /\ draft[d].rev = draft[e].rev => d = e
    /\ \A r \in Requests : Finalizing(r) =>
          /\ Seen(r).rev <= edits
          /\ \A d \in Drafts : draft[d] # Nothing /\ draft[d].rev = Seen(r).rev => d = On(r)

\* Steps that leave the drafts alone: a finalize goes on, or has just loaded.
LEMMA RevsUntouched ==
    ASSUME TypeOK, RevsApart, DraftUnchanged,
           \A q \in Requests : Finalizing(q)' =>
              \/ Finalizing(q) /\ job'[q] = job[q]
              \/ job'[q].on \in Drafts /\ draft[job'[q].on] # Nothing
                    /\ job'[q].seen = draft[job'[q].on]
    PROVE  RevsApart'
  BY DEF RevsApart, DraftUnchanged, Seen, On

\* A request that ends holds nothing, and the others hold what they held.
LEMMA EndLeaves ==
    ASSUME TypeOK, NEW r \in Requests, End(r)
    PROVE  /\ ~Finalizing(r)' /\ pc'[r] = "idle" /\ job'[r] = NoJob
           /\ \A q \in Requests \ {r} : pc'[q] = pc[q] /\ job'[q] = job[q]
  BY DEF End, TypeOK, Finalizing, NoJob

\* The job and the place of a request that moves on.
LEMMA GotoMoves ==
    ASSUME TypeOK, NEW r \in Requests, NEW place, NEW j, Goto(r, place, j)
    PROVE  /\ pc'[r] = place /\ job'[r] = j
           /\ \A q \in Requests \ {r} : pc'[q] = pc[q] /\ job'[q] = job[q]
  BY DEF Goto, TypeOK

\* What each reading step leaves in the request.
LEMMA ReadMoves ==
    ASSUME TypeOK, NEW r \in Requests, ReadStep(r)
    PROVE  /\ ScenarioUnchanged /\ DraftUnchanged
           /\ \A q \in Requests \ {r} : pc'[q] = pc[q] /\ job'[q] = job[q]
           /\ \/ /\ pc'[r] = "form" /\ job'[r].op = "page"
                 /\ \E s \in Scenarios : row[s] # Nothing /\ job'[r].page = Shown(row[s])
              \/ /\ pc'[r] = "read" /\ job'[r].op = "edit"
                 /\ job[r].op = "page" /\ pc[r] = "form"
                 /\ job'[r].page = Page(r) /\ On(r) \in Scenarios /\ row[On(r)] # Nothing
                 /\ job'[r].seen = row[On(r)] /\ job'[r].on = On(r)
              \/ /\ pc'[r] = "read" /\ job'[r].op = "step"
                 /\ \E d \in Drafts : draft[d] # Nothing /\ job'[r].seen = draft[d]
              \/ /\ pc'[r] = "selected" /\ job'[r].op = "step"
                 /\ job[r].op = "step" /\ job'[r].seen = Seen(r)
              \/ pc'[r] = "form" /\ job'[r].op = "finalize"
              \/ /\ pc'[r] = "locked" /\ job'[r].op = "finalize" /\ job'[r].on \in Drafts
                 /\ draft[job'[r].on] # Nothing /\ job'[r].seen = draft[job'[r].on]
              \/ pc'[r] = "claimed" /\ Claim(r) /\ job'[r] = job[r]
  <1> USE GotoMoves
  <1>0. job \in [Requests -> Jobs]
    BY DEF TypeOK
  <1>1. CASE \E s \in Scenarios : OpenPage(r, s)
    BY <1>1 DEF OpenPage
  <1>2. CASE ReadForEdit(r)
    <2>1. On(r) \in Scenarios
      BY <1>2, Carries DEF ReadForEdit
    <2>2. pc'[r] = "read" /\ job'[r] = [job[r] EXCEPT !.op = "edit", !.seen = row[On(r)]]
      BY <1>2 DEF ReadForEdit
    <2>3. /\ job'[r].op = "edit" /\ job'[r].seen = row[On(r)]
          /\ job'[r].page = Page(r) /\ job'[r].on = On(r)
      BY <1>0, <2>2 DEF On, Page, Jobs
    <2> QED
      BY <1>2, <2>1, <2>2, <2>3 DEF ReadForEdit
  <1>3. CASE \E d \in Drafts : LoadStep(r, d)
    BY <1>3 DEF LoadStep
  <1>4. CASE \E d \in Drafts : OpenReview(r, d)
    BY <1>4 DEF OpenReview
  <1>5. CASE SelectAgain(r)
    BY <1>0, <1>5 DEF SelectAgain, Seen, Jobs
  <1>6. CASE LoadDraft(r)
    <2>1. On(r) \in Drafts
      BY <1>6, Carries DEF LoadDraft
    <2> QED
      BY <1>0, <1>6, <2>1 DEF LoadDraft, On, Jobs
  <1>7. CASE Claim(r)
    BY <1>7 DEF Claim
  <1> QED
    BY <1>1, <1>2, <1>3, <1>4, <1>5, <1>6, <1>7 DEF ReadStep

\* What a lock leaves in the request.
LEMMA LockMoves ==
    ASSUME TypeOK, NEW r \in Requests, NEW s \in Scenarios, NEW op \in Paged \cup Direct,
           LockAny(r, s, op)
    PROVE  /\ ScenarioUnchanged /\ DraftUnchanged
           /\ \A q \in Requests \ {r} : pc'[q] = pc[q] /\ job'[q] = job[q]
           /\ pc'[r] = "locked" /\ job'[r].op = op /\ job'[r].on = s
           /\ row[s] # Nothing /\ RowFree(s) /\ Allowed(op, row[s])
           /\ job'[r].seen = Shown(row[s])
           /\ \/ job'[r].page = Shown(row[s])
              \/ /\ job'[r].page = Page(r) /\ VersionMatches(Page(r), row[s])
                 /\ pc[r] = "form" /\ job[r].op = "page"
  <1>1. CASE op \in Direct
    BY <1>1, GotoMoves DEF LockAny, PostDirect, Lock, Direct
  <1>2. CASE op \notin Direct
    BY <1>2, GotoMoves DEF LockAny, PostForm, Lock
  <1> QED
    BY <1>1, <1>2

\* A step or a new draft brings a content nobody has.
LEMMA FreshRevs ==
    ASSUME TypeOK, RevsApart, NEW d \in Drafts, NEW new \in DraftRows,
           new.rev = Fresh, draft' = [draft EXCEPT ![d] = new],
           edits' = Fresh, saved' = saved,
           \A q \in Requests : Finalizing(q)' => Finalizing(q) /\ job'[q] = job[q]
    PROVE  RevsApart'
  <1>0. /\ edits \in Nat /\ draft \in [Drafts -> DraftRows \cup {Nothing}]
        /\ \A e \in Drafts : draft[e] # Nothing => draft[e].rev \in Nat
        /\ \A q \in Requests : Finalizing(q) => Seen(q).rev \in Nat
    BY Carries, AuthoringAssumption DEF TypeOK, DraftRows, Finalizing
  <1>1. /\ saved' \subseteq 1 .. edits'
        /\ \A e \in Drafts : e # d => draft'[e] = draft[e]
        /\ draft'[d] = new /\ new.rev = edits + 1 /\ edits' = edits + 1
    BY <1>0 DEF RevsApart, Fresh
  <1>2. \A e \in Drafts : draft'[e] # Nothing => draft'[e].rev <= edits' /\ draft'[e].rev \notin saved'
    BY <1>0, <1>1 DEF RevsApart
  <1>3. \A e, f \in Drafts :
          draft'[e] # Nothing /\ draft'[f] # Nothing /\ draft'[e].rev = draft'[f].rev => e = f
    BY <1>0, <1>1 DEF RevsApart
  <1>4. ASSUME NEW q \in Requests, Finalizing(q)'
        PROVE  /\ Seen(q)'.rev <= edits'
               /\ \A e \in Drafts : draft'[e] # Nothing /\ draft'[e].rev = Seen(q)'.rev => e = On(q)'
    <2>1. Finalizing(q) /\ Seen(q)' = Seen(q) /\ On(q)' = On(q)
      BY <1>4 DEF Seen, On
    <2> QED
      BY <1>0, <1>1, <2>1 DEF RevsApart
  <1> QED
    BY <1>1, <1>2, <1>3, <1>4 DEF RevsApart

\* A draft goes; a finalize may have saved what it held.
LEMMA GoneRevs ==
    ASSUME TypeOK, RevsApart, NEW d \in Drafts, draft' = [draft EXCEPT ![d] = Nothing],
           edits' = edits,
           \/ saved' = saved
           \/ \E r \in Requests : Finalizing(r) /\ On(r) = d /\ saved' = saved \cup {Seen(r).rev},
           \A q \in Requests : Finalizing(q)' => Finalizing(q) /\ job'[q] = job[q]
    PROVE  RevsApart'
  <1>0. /\ draft \in [Drafts -> DraftRows \cup {Nothing}] /\ edits \in Nat
        /\ \A q \in Requests : Finalizing(q) => Seen(q).rev \in Nat \ {0}
    BY Carries, AuthoringAssumption DEF TypeOK, DraftRows, Finalizing
  <1>1. /\ \A e \in Drafts : e # d => draft'[e] = draft[e]
        /\ draft'[d] = Nothing
    BY <1>0
  <1>2. saved' \subseteq 1 .. edits'
    <2>1. ASSUME NEW r \in Requests, Finalizing(r)
          PROVE  Seen(r).rev \in 1 .. edits
      <3>1. Seen(r).rev \in Nat \ {0} /\ Seen(r).rev <= edits
        BY <1>0, <2>1 DEF RevsApart
      <3> QED
        BY <1>0, <3>1
    <2>2. saved \subseteq 1 .. edits
      BY DEF RevsApart
    <2> QED
      BY <2>1, <2>2
  <1>3. ASSUME NEW e \in Drafts, draft'[e] # Nothing
        PROVE  draft'[e].rev <= edits' /\ draft'[e].rev \notin saved'
    <2>1. e # d /\ draft'[e] = draft[e]
      BY <1>1, <1>3
    <2>2. draft[e].rev <= edits /\ draft[e].rev \notin saved
      BY <1>3, <2>1 DEF RevsApart
    <2>3. ASSUME NEW r \in Requests, Finalizing(r), On(r) = d
          PROVE  draft[e].rev # Seen(r).rev
      BY <1>3, <2>1, <2>3 DEF RevsApart
    <2> QED
      BY <2>1, <2>2, <2>3
  <1>4. ASSUME NEW q \in Requests, Finalizing(q)'
        PROVE  /\ Seen(q)'.rev <= edits'
               /\ \A e \in Drafts : draft'[e] # Nothing /\ draft'[e].rev = Seen(q)'.rev => e = On(q)'
    <2>1. Finalizing(q) /\ Seen(q)' = Seen(q) /\ On(q)' = On(q)
      BY <1>4 DEF Seen, On
    <2> QED
      BY <1>1, <2>1 DEF RevsApart
  <1> QED
    BY <1>1, <1>2, <1>3, <1>4 DEF RevsApart

LEMMA RevsStep ==
    ASSUME TypeOK, RevsApart, Next
    PROVE  RevsApart'
  <1>1. ASSUME NEW r \in Requests, RequestStep(r)
        PROVE  RevsApart'
    <2>1. CASE ReadStep(r)
      <3>1. \A q \in Requests : Finalizing(q)' =>
              \/ Finalizing(q) /\ job'[q] = job[q]
              \/ job'[q].on \in Drafts /\ draft[job'[q].on] # Nothing
                    /\ job'[q].seen = draft[job'[q].on]
        BY <2>1, ReadMoves DEF Finalizing, Claim
      <3> QED
        BY <2>1, <3>1, ReadMoves, RevsUntouched
    <2>2. CASE \E s \in Scenarios, op \in Paged \cup Direct : LockAny(r, s, op)
      <3>1. DraftUnchanged /\ \A q \in Requests : Finalizing(q)' => Finalizing(q) /\ job'[q] = job[q]
        BY <2>2, LockMoves DEF Finalizing, Paged, Direct
      <3> QED
        BY <3>1, RevsUntouched
    <2>3. CASE End(r) /\ ~ReadStep(r)
      <3>0. \A q \in Requests : Finalizing(q)' => Finalizing(q) /\ job'[q] = job[q]
        BY <2>3, EndLeaves DEF Finalizing
      <3>1. CASE CommitLocked(r) \/ CommitEdit(r) \/ GiveUp(r) \/ Reject(r)
        <4>1. DraftUnchanged
          BY <3>1 DEF CommitLocked, CommitEdit, GiveUp, Reject, DraftUnchanged, TypeOK
        <4> QED
          BY <3>0, <4>1, RevsUntouched
      <3>2. CASE WriteStep(r)
        <4> DEFINE new == [Seen(r) EXCEPT !.token = NextToken(Seen(r), Page(r)), !.rev = Fresh]
        <4>1. On(r) \in Drafts /\ Seen(r) \in DraftRows /\ Page(r) \in DraftRows \cup {Nothing}
          BY <3>2, Carries DEF WriteStep
        <4>2. Fresh \in 1 .. MaxEdits /\ NextToken(Seen(r), Page(r)) \in Nat
          BY <3>2, <4>1, AuthoringAssumption
          DEF WriteStep, Fresh, TypeOK, NextToken, DraftRows
        <4>3. new \in DraftRows /\ new.rev = Fresh
          BY <4>1, <4>2 DEF DraftRows
        <4>4. draft' = [draft EXCEPT ![On(r)] = new] /\ edits' = Fresh /\ saved' = saved
          BY <3>2 DEF WriteStep
        <4> HIDE DEF new
        <4> QED
          BY <3>0, <4>1, <4>3, <4>4, FreshRevs
      <3>3. CASE Save(r)
        <4>1. On(r) \in Drafts /\ Finalizing(r)
          BY <3>3, Carries DEF Save, Finalizing
        <4>2. /\ draft' = [draft EXCEPT ![On(r)] = Nothing] /\ edits' = edits
              /\ saved' = saved \cup {Seen(r).rev}
          BY <3>3 DEF Save, Consumed
        <4> QED
          BY <3>0, <4>1, <4>2, GoneRevs
      <3> QED
        BY <1>1, <2>3, <3>1, <3>2, <3>3, RequestKinds, LockMoves, EndLeaves DEF Paged, Direct
    <2> QED
      BY <1>1, <2>1, <2>2, <2>3, RequestKinds
  <1>2. CASE ~\E r \in Requests : RequestStep(r)
    <2>1. \A q \in Requests : Finalizing(q)' => Finalizing(q) /\ job'[q] = job[q]
      BY <1>2, OutsideTyped DEF Next, Finalizing
    <2>2. ASSUME NEW s \in Scenarios, CreateScenario(s)
          PROVE  RevsApart'
      BY <2>1, <2>2, RevsUntouched DEF CreateScenario
    <2>3. ASSUME NEW d \in Drafts, NEW s \in Scenarios \cup {Nothing}, StartDraft(d, s)
          PROVE  RevsApart'
      <3>1. PICK new \in DraftRows : draft' = [draft EXCEPT ![d] = new] /\ new.rev = Fresh
        BY <2>3, StartedDraft
      <3>2. edits' = Fresh /\ saved' = saved
        BY <2>3 DEF StartDraft
      <3> QED
        BY <2>1, <3>1, <3>2, FreshRevs
    <2>4. ASSUME NEW d \in Drafts, CancelDraft(d) \/ SweepDraft(d)
          PROVE  RevsApart'
      <3>1. draft' = [draft EXCEPT ![d] = Nothing] /\ edits' = edits /\ saved' = saved
        BY <2>4 DEF CancelDraft, SweepDraft, DropDraft
      <3> QED
        BY <2>1, <3>1, GoneRevs
    <2> QED
      BY <1>2, <2>2, <2>3, <2>4 DEF Next
  <1> QED
    BY <1>1, <1>2

LEMMA RevsInvariant == Spec => []RevsApart
  <1>1. Init => RevsApart
    BY DEF Init, RevsApart, Finalizing, NoJob
  <1>2. RevsApart /\ UNCHANGED vars => RevsApart'
    BY DEF RevsApart, vars, Finalizing, Seen, On
  <1> QED
    BY <1>1, <1>2, RevsStep, TypeCorrect, PTL DEF Spec

\* A saved content is in no draft: no second finalize saves it again.
THEOREM SavedContentGone == Spec => []SavedOnce
  <1>1. RevsApart => SavedOnce
    BY DEF RevsApart, SavedOnce
  <1> QED
    BY <1>1, RevsInvariant, PTL

\* How a step may change the drafts.
LEMMA DraftKinds ==
    ASSUME TypeOK, Next
    PROVE  \/ draft' = draft
           \/ \E d \in Drafts : draft' = [draft EXCEPT ![d] = Nothing]
           \/ \E d \in Drafts, new \in DraftRows :
                /\ draft' = [draft EXCEPT ![d] = new] /\ new.rev = Fresh
                /\ \/ new.basever = new.baserev
                   \/ \E s \in Scenarios : /\ row[s] # Nothing
                        /\ new.basever = row[s].ver /\ new.baserev = row[s].rev
                   \/ \E r \in Requests : /\ job[r].op = "step"
                        /\ new.basever = Seen(r).basever /\ new.baserev = Seen(r).baserev
  <1>1. ASSUME NEW r \in Requests, WriteStep(r)
        PROVE  \E d \in Drafts, new \in DraftRows :
                /\ draft' = [draft EXCEPT ![d] = new] /\ new.rev = Fresh /\ job[r].op = "step"
                /\ new.basever = Seen(r).basever /\ new.baserev = Seen(r).baserev
    <2> DEFINE new == [Seen(r) EXCEPT !.token = NextToken(Seen(r), Page(r)), !.rev = Fresh]
    <2>1. /\ On(r) \in Drafts /\ Seen(r) \in DraftRows /\ Page(r) \in DraftRows \cup {Nothing}
          /\ job[r].op = "step"
      BY <1>1, Carries DEF WriteStep
    <2>2. Fresh \in 1 .. MaxEdits /\ NextToken(Seen(r), Page(r)) \in Nat
      BY <1>1, <2>1, AuthoringAssumption DEF WriteStep, Fresh, TypeOK, NextToken, DraftRows
    <2>3. /\ new \in DraftRows /\ new.rev = Fresh
          /\ new.basever = Seen(r).basever /\ new.baserev = Seen(r).baserev
      BY <2>1, <2>2 DEF DraftRows
    <2>4. draft' = [draft EXCEPT ![On(r)] = new]
      BY <1>1 DEF WriteStep
    <2> HIDE DEF new
    <2> QED
      BY <2>1, <2>3, <2>4
  <1>2. ASSUME NEW r \in Requests, Save(r)
        PROVE  \E d \in Drafts : draft' = [draft EXCEPT ![d] = Nothing]
    BY <1>2, Carries DEF Save, Consumed
  <1>3. ASSUME NEW r \in Requests, RequestStep(r), ~WriteStep(r), ~Save(r)
        PROVE  draft' = draft
    <2>1. CASE Reject(r)
      BY <2>1 DEF Reject, DraftUnchanged, TypeOK
    <2>2. CASE ~Reject(r)
      BY <1>3, <2>2, RequestKinds, ReadMoves, LockMoves
      DEF CommitLocked, CommitEdit, DraftUnchanged
    <2> QED
      BY <2>1, <2>2
  <1>4. ASSUME NEW d \in Drafts, CancelDraft(d) \/ SweepDraft(d)
        PROVE  draft' = [draft EXCEPT ![d] = Nothing]
    BY <1>4 DEF CancelDraft, SweepDraft, DropDraft
  <1>5. ASSUME NEW s \in Scenarios, CreateScenario(s)
        PROVE  draft' = draft
    BY <1>5 DEF CreateScenario, DraftUnchanged
  <1> QED
    BY <1>1, <1>2, <1>3, <1>4, <1>5, StartedDraft DEF Next

\* A draft that keeps its content keeps its token.
THEOREM RejectKeepsToken == Spec => TokenStandsOnReject
  <1>1. TypeOK /\ RevsApart /\ [Next]_vars =>
          [\A d \in Drafts :
             (draft[d] # Nothing /\ draft'[d] # Nothing /\ draft'[d].rev = draft[d].rev)
             => draft'[d] = draft[d]]_vars
    <2> SUFFICES ASSUME TypeOK, RevsApart, Next, NEW d \in Drafts,
                        draft[d] # Nothing, draft'[d] # Nothing, draft'[d].rev = draft[d].rev
                 PROVE  draft'[d] = draft[d]
      OBVIOUS
    <2>1. /\ draft \in [Drafts -> DraftRows \cup {Nothing}] /\ edits \in Nat
          /\ draft[d].rev \in Nat /\ draft[d].rev <= edits
      BY AuthoringAssumption DEF TypeOK, RevsApart, DraftRows
    <2>2. draft'[d] = draft[d] \/ draft'[d] = Nothing \/ draft'[d].rev = Fresh
      BY <2>1, DraftKinds
    <2> QED
      BY <2>1, <2>2 DEF Fresh
  <1> QED
    BY <1>1, RevsInvariant, TypeCorrect, PTL DEF Spec, TokenStandsOnReject

-----------------------------------------------------------------------------
(* How a step may change the rows                                          *)

Holding(r) == pc[r] = "locked" /\ job[r].op \in Paged \cup Direct

Replaces(s, w) ==
    /\ s \in Scenarios /\ row[s] # Nothing /\ row[s] \in Rows
    /\ row' = [row EXCEPT ![s] = w] /\ minted' = minted
    /\ w = Nothing \/ Follows(row[s], w)

Marks(op, rev, s) ==
    blind' = IF blind = "none" /\ row[s].rev # rev THEN op ELSE blind

\* A commit under the handler's own lock.
LockedWrites(r, w) ==
    /\ Holding(r) /\ Replaces(On(r), w) /\ Marks(job[r].op, Page(r).rev, On(r))
    /\ w # Nothing =>
        /\ w.ver = Seen(r).ver + 1
        /\ w.status # row[On(r)].status => job[r].op = "promote"
        /\ row[On(r)].loss = "pinned" /\ job[r].op # "refresh" => w.loss # "library"

\* The edit form's.
EditWrites(r, w) ==
    /\ pc[r] = "read" /\ job[r].op = "edit" /\ RowFree(On(r))
    /\ w # Nothing /\ Replaces(On(r), w) /\ Marks("edit", Page(r).rev, On(r))
    /\ VersionMatches(Page(r), Seen(r))
    /\ w.ver = Seen(r).ver + 1
    /\ w.status = row[On(r)].status
    /\ row[On(r)].loss = "pinned" => w.loss # "library"

\* A re-estimate's.
SaveWrites(r, w) ==
    LET s == Seen(r).target IN
    /\ pc[r] = "claimed"
    /\ w # Nothing /\ Replaces(s, w) /\ Marks("finalize", Seen(r).baserev, s)
    /\ row[s].ver = Seen(r).basever
    /\ w.ver = row[s].ver + 1 /\ w.status = row[s].status /\ w.loss = "plain"

LEMMA CommitLockedWrites ==
    ASSUME TypeOK, NEW r \in Requests, CommitLocked(r)
    PROVE  \E w : LockedWrites(r, w)
  <1> DEFINE s == On(r)
             op == job[r].op
             w == Written(op, Seen(r), row[s])
  <1>1. /\ op \in (Paged \cup Direct) \ {"edit"} /\ s \in Scenarios /\ Seen(r) \in Stamps
        /\ row[s] # Nothing /\ row[s] \in Rows /\ Holding(r)
    BY Carries DEF CommitLocked, TypeOK, Holding
  <1>2. row' = [row EXCEPT ![s] = w] /\ minted' = minted /\ Marks(op, Page(r).rev, s)
    BY DEF CommitLocked, MarkBlind, Marks
  <1>3. CASE op = "delete"
    <2>1. w = Nothing
      BY <1>3 DEF Written
    <2> HIDE DEF w
    <2> QED
      BY <1>1, <1>2, <2>1 DEF LockedWrites, Replaces
  <1>4. CASE op # "delete"
    <2>1. /\ Follows(row[s], w) /\ w.ver = Seen(r).ver + 1
          /\ w.status # row[s].status => op = "promote"
          /\ row[s].loss = "pinned" /\ op # "refresh" => w.loss # "library"
      BY <1>1, <1>4, WrittenRow
    <2> HIDE DEF w
    <2> QED
      BY <1>1, <1>2, <2>1 DEF LockedWrites, Replaces
  <1> QED
    BY <1>3, <1>4

LEMMA CommitEditWrites ==
    ASSUME TypeOK, NEW r \in Requests, CommitEdit(r)
    PROVE  \E w : EditWrites(r, w)
  <1>1. /\ On(r) \in Scenarios /\ Seen(r) \in Rows /\ row[On(r)] # Nothing
        /\ row[On(r)] \in Rows /\ minted' = minted
        /\ pc[r] = "read" /\ job[r].op = "edit" /\ RowFree(On(r))
        /\ VersionMatches(Page(r), Seen(r)) /\ Marks("edit", Page(r).rev, On(r))
    BY Carries DEF CommitEdit, TypeOK, Paged, Marks, MarkBlind
  <1>2. PICK w \in EditChanges(Seen(r), row[On(r)]) : row' = [row EXCEPT ![On(r)] = w]
    BY DEF CommitEdit
  <1>3. /\ Follows(row[On(r)], w) /\ w.ver = Seen(r).ver + 1 /\ w.status = row[On(r)].status
        /\ row[On(r)].loss = "pinned" => w.loss # "library"
    BY <1>1, <1>2, EditedRow
  <1>4. w # Nothing
    BY <1>3, NothingElse DEF Follows
  <1> QED
    BY <1>1, <1>2, <1>3, <1>4 DEF EditWrites, Replaces

LEMMA SaveOverWrites ==
    ASSUME TypeOK, NEW r \in Requests, Save(r), Seen(r).target # Nothing
    PROVE  \E w : SaveWrites(r, w)
  <1> DEFINE s == Seen(r).target
             w == Reestimated(row[s])
  <1>1. s \in Scenarios /\ SaveOver(Seen(r)) /\ pc[r] = "claimed"
    BY Carries DEF Save, DraftRows
  <1>2. /\ row[s] # Nothing /\ row[s] \in Rows /\ row[s].ver = Seen(r).basever
        /\ row' = [row EXCEPT ![s] = w] /\ minted' = minted
        /\ Marks("finalize", Seen(r).baserev, s)
    BY <1>1 DEF SaveOver, TargetMatches, TypeOK, Marks
  <1>3. /\ Follows(row[s], w) /\ w.ver = row[s].ver + 1 /\ w.status = row[s].status
        /\ w.loss = "plain" /\ w # Nothing
    BY <1>2, ReestimatedRow, NothingElse DEF Follows
  <1> HIDE DEF w, s
  <1>4. s = Seen(r).target
    BY DEF s
  <1> QED
    BY <1>1, <1>2, <1>3, <1>4 DEF SaveWrites, Replaces

\* A row that was never there.
Creates(s, w) ==
    /\ s \in Scenarios \ minted /\ w \in Rows /\ w.ver = w.rev
    /\ row' = [row EXCEPT ![s] = w] /\ minted' = minted \cup {s} /\ blind' = blind

LEMMA CreateCreates ==
    ASSUME NEW s \in Scenarios, NEW linked \in BOOLEAN, Create(s, linked)
    PROVE  Creates(s, NewRow(linked))
  BY CreatedRow DEF Create, Creates

Keeps == row' = row /\ blind' = blind /\ minted \subseteq minted'

\* A request that ends after writing.
LEMMA EndWrites ==
    ASSUME TypeOK, NEW r \in Requests,
           CommitLocked(r) \/ CommitEdit(r) \/ WriteStep(r) \/ Save(r) \/ Reject(r) \/ GiveUp(r)
    PROVE  \/ Keeps
           \/ \E s \in Scenarios, w \in Rows : Creates(s, w)
           \/ \E w : LockedWrites(r, w) \/ EditWrites(r, w) \/ SaveWrites(r, w)
  <1>1. CASE WriteStep(r) \/ Reject(r) \/ GiveUp(r)
    BY <1>1 DEF WriteStep, Reject, GiveUp, ScenarioUnchanged, Keeps
  <1>2. CASE Save(r) /\ Seen(r).target = Nothing
    <2>1. PICK s \in Scenarios, linked \in BOOLEAN : Create(s, linked)
      BY <1>2 DEF Save
    <2> QED
      BY <2>1, CreateCreates DEF Creates
  <1> QED
    BY <1>1, <1>2, CommitLockedWrites, CommitEditWrites, SaveOverWrites

LEMMA OutsideWrites ==
    ASSUME TypeOK, Next, ~\E r \in Requests : RequestStep(r)
    PROVE  Keeps \/ \E s \in Scenarios, w \in Rows : Creates(s, w)
  <1>1. ASSUME NEW s \in Scenarios, CreateScenario(s)
        PROVE  \E t \in Scenarios, w \in Rows : Creates(t, w)
    BY <1>1, CreateCreates DEF CreateScenario, Creates
  <1>2. CASE \E d \in Drafts, s \in Scenarios \cup {Nothing} : StartDraft(d, s)
    BY <1>2 DEF StartDraft, Keeps
  <1>3. CASE \E d \in Drafts : CancelDraft(d) \/ SweepDraft(d)
    BY <1>3 DEF CancelDraft, SweepDraft, DropDraft, ScenarioUnchanged, Keeps
  <1> QED
    BY <1>1, <1>2, <1>3 DEF Next

-----------------------------------------------------------------------------
(* The row locks                                                           *)

\* A handler that locked at its first read decides on a row that cannot have
\* changed where rows are locked, and whose framing cannot have gone back at all.
Guarded(r) ==
    /\ On(r) \in minted
    /\ row[On(r)] # Nothing =>
        /\ job[r].op = "promote" => row[On(r)].framing = "inherent"
        /\ backend = "postgres" =>
            /\ Shown(row[On(r)]) = Seen(r)
            /\ job[r].op = "refresh" => row[On(r)].loss # "pinned"

OneHolder == \A q, r \in Requests, s \in Scenarios : HoldsRow(q, s) /\ HoldsRow(r, s) => q = r

LocksHold ==
    /\ \A r \in Requests : Holding(r) => Guarded(r)
    /\ backend = "postgres" => OneHolder

\* Nobody comes to hold a row: what changes a held row is its holder, who lets
\* go, or keeps what is guarded.
LEMMA LocksUntouched ==
    ASSUME TypeOK, LocksHold, backend' = backend, minted \subseteq minted',
           \A q \in Requests : Holding(q)' => Holding(q) /\ job'[q] = job[q],
           \A q \in Requests, s \in Scenarios : HoldsRow(q, s)' => HoldsRow(q, s),
           \A s \in Scenarios \cap minted :
              \/ row'[s] = row[s]
              \/ row'[s] = Nothing
              \/ /\ row[s] # Nothing /\ Follows(row[s], row'[s])
                 /\ backend = "postgres" => \A q \in Requests : ~HoldsRow(q, s)'
    PROVE  LocksHold'
  <1>1. ASSUME NEW q \in Requests, Holding(q)'
        PROVE  Guarded(q)'
    <2>1. Holding(q) /\ job'[q] = job[q] /\ Guarded(q) /\ On(q)' = On(q) /\ Seen(q)' = Seen(q)
      BY <1>1 DEF LocksHold, On, Seen
    <2>2. PICK s \in Scenarios \cap minted : On(q) = s
      BY <2>1, Carries DEF Holding, Guarded
    <2>3. HoldsRow(q, s)'
      BY <1>1, <2>1, <2>2 DEF HoldsRow, Holding
    <2>4. \/ row'[s] = row[s] \/ row'[s] = Nothing
          \/ row[s] # Nothing /\ Follows(row[s], row'[s]) /\ backend # "postgres"
      BY <2>2, <2>3
    <2> QED
      BY <2>1, <2>2, <2>4 DEF Guarded, Follows
  <1>2. backend' = "postgres" => OneHolder'
    BY DEF LocksHold, OneHolder
  <1> QED
    BY <1>1, <1>2 DEF LocksHold

\* A request takes a lock that nobody holds.
LEMMA LockTaken ==
    ASSUME TypeOK, LocksHold, backend' = backend, ScenarioUnchanged, NEW r \in Requests,
           \A q \in Requests \ {r} : pc'[q] = pc[q] /\ job'[q] = job[q],
           \A s \in Scenarios : HoldsRow(r, s)' => HoldsRow(r, s) \/ RowFree(s),
           Holding(r)' => Guarded(r)'
    PROVE  LocksHold'
  <1>0. \A q \in Requests \ {r} : /\ Holding(q)' <=> Holding(q)
                                  /\ \A s \in Scenarios : HoldsRow(q, s)' <=> HoldsRow(q, s)
                                  /\ On(q)' = On(q) /\ Seen(q)' = Seen(q)
    BY DEF Holding, HoldsRow, On, Seen
  <1>1. ASSUME NEW q \in Requests, Holding(q)'
        PROVE  Guarded(q)'
    <2>1. CASE q = r
      BY <1>1, <2>1
    <2>2. CASE q # r
      BY <1>0, <1>1, <2>2 DEF LocksHold, Guarded, ScenarioUnchanged
    <2> QED
      BY <2>1, <2>2
  <1>2. ASSUME backend' = "postgres", NEW q \in Requests, NEW t \in Requests, NEW s \in Scenarios,
               HoldsRow(q, s)', HoldsRow(t, s)'
        PROVE  q = t
    <2>1. backend = "postgres" /\ OneHolder
      BY <1>2 DEF LocksHold
    <2>2. \A u \in Requests : HoldsRow(u, s)' => HoldsRow(u, s) \/ (u = r /\ RowFree(s))
      BY <1>0
    <2>3. RowFree(s) => \A u \in Requests : ~HoldsRow(u, s)
      BY <2>1 DEF RowFree
    <2> QED
      BY <1>2, <2>1, <2>2, <2>3 DEF OneHolder
  <1> QED
    BY <1>1, <1>2 DEF LocksHold, OneHolder

\* A request that ends holds nothing.
LEMMA EndHolds ==
    ASSUME TypeOK, NEW r \in Requests, End(r)
    PROVE  /\ \A q \in Requests : Holding(q)' => q # r /\ Holding(q) /\ job'[q] = job[q]
           /\ \A q \in Requests, s \in Scenarios : HoldsRow(q, s)' => q # r /\ HoldsRow(q, s)
  BY EndLeaves DEF Holding, HoldsRow, On, Seen

\* A write comes from the row's holder, or finds the row free.
LEMMA WriterAlone ==
    ASSUME TypeOK, LocksHold, backend = "postgres", NEW r \in Requests, End(r), NEW w,
           LockedWrites(r, w) \/ EditWrites(r, w) \/ SaveWrites(r, w),
           NEW s \in Scenarios, Replaces(s, w),
           s = (IF pc[r] = "claimed" THEN Seen(r).target ELSE On(r))
    PROVE  \A q \in Requests : ~HoldsRow(q, s)'
  <1>1. HoldsRow(r, s) \/ RowFree(s)
    BY DEF LockedWrites, EditWrites, SaveWrites, Holding, HoldsRow
  <1>2. \A q \in Requests : HoldsRow(q, s)' => q # r /\ HoldsRow(q, s)
    BY EndHolds
  <1> QED
    BY <1>1, <1>2 DEF LocksHold, OneHolder, RowFree

LEMMA LocksStep ==
    ASSUME TypeOK, LocksHold, Next
    PROVE  LocksHold'
  <1>0. backend' = backend /\ row \in [Scenarios -> Rows \cup {Nothing}]
    BY DEF Next, TypeOK
  <1>1. ASSUME NEW r \in Requests, RequestStep(r)
        PROVE  LocksHold'
    <2>1. CASE ReadStep(r)
      <3>1. ~Holding(r)'
        BY <2>1, ReadMoves DEF Holding, Paged, Direct
      <3>2. ASSUME NEW s \in Scenarios, HoldsRow(r, s)'
            PROVE  RowFree(s)
        <4>1. pc'[r] = "claimed" /\ job'[r].seen.target = s
          BY <3>1, <3>2 DEF HoldsRow, Holding, Seen
        <4>2. Claim(r) /\ job'[r] = job[r]
          BY <2>1, <4>1, ReadMoves
        <4> QED
          BY <4>1, <4>2, AuthoringAssumption DEF Claim, Seen
      <3> QED
        BY <1>0, <2>1, <3>1, <3>2, ReadMoves, LockTaken
    <2>2. ASSUME NEW s \in Scenarios, NEW op \in Paged \cup Direct, LockAny(r, s, op)
          PROVE  LocksHold'
      <3>1. /\ ScenarioUnchanged /\ row[s] # Nothing /\ RowFree(s) /\ Allowed(op, row[s])
            /\ \A q \in Requests \ {r} : pc'[q] = pc[q] /\ job'[q] = job[q]
            /\ pc'[r] = "locked" /\ job'[r].op = op /\ job'[r].on = s
            /\ job'[r].seen = Shown(row[s])
        BY <2>2, LockMoves
      <3>2. row[s] \in Rows /\ s \in minted
        BY <1>0, <3>1 DEF TypeOK
      <3>3. Guarded(r)'
        <4>1. row' = row /\ minted' = minted
          BY <3>1 DEF ScenarioUnchanged
        <4>2. op = "promote" => row[s].framing = "inherent"
          BY <3>1, <3>2 DEF Allowed, Rows
        <4>3. op = "refresh" => row[s].loss # "pinned"
          BY <3>1 DEF Allowed
        <4> QED
          BY <3>1, <3>2, <4>1, <4>2, <4>3 DEF Guarded, On, Seen
      <3>4. \A t \in Scenarios : HoldsRow(r, t)' => RowFree(t)
        BY <3>1 DEF HoldsRow, On
      <3> QED
        BY <1>0, <3>1, <3>3, <3>4, LockTaken
    <2>3. CASE /\ CommitLocked(r) \/ CommitEdit(r) \/ WriteStep(r) \/ Save(r) \/ Reject(r) \/ GiveUp(r)
               /\ End(r)
      <3>1. CASE Keeps
        BY <1>0, <2>3, <3>1, EndHolds, LocksUntouched DEF Keeps
      <3>2. ASSUME NEW s \in Scenarios, NEW w \in Rows, Creates(s, w)
            PROVE  LocksHold'
        <4>1. minted \subseteq minted' /\ \A t \in Scenarios \cap minted : row'[t] = row[t]
          BY <1>0, <3>2 DEF Creates
        <4> QED
          BY <1>0, <2>3, <4>1, EndHolds, LocksUntouched
      <3>3. ASSUME NEW w, LockedWrites(r, w) \/ EditWrites(r, w) \/ SaveWrites(r, w)
            PROVE  LocksHold'
        <4>1. PICK s \in Scenarios :
                Replaces(s, w) /\ s = (IF pc[r] = "claimed" THEN Seen(r).target ELSE On(r))
          BY <3>3 DEF LockedWrites, EditWrites, SaveWrites, Holding, Replaces
        <4>2. backend = "postgres" => \A q \in Requests : ~HoldsRow(q, s)'
          BY <2>3, <3>3, <4>1, WriterAlone
        <4>4. \A t \in Scenarios \cap minted :
                \/ row'[t] = row[t]
                \/ row'[t] = Nothing
                \/ /\ row[t] # Nothing /\ Follows(row[t], row'[t])
                   /\ backend = "postgres" => \A q \in Requests : ~HoldsRow(q, t)'
          BY <1>0, <4>1, <4>2 DEF Replaces
        <4>5. minted \subseteq minted'
          BY <4>1 DEF Replaces
        <4> QED
          BY <1>0, <2>3, <4>4, <4>5, EndHolds, LocksUntouched
      <3> QED
        BY <2>3, <3>1, <3>2, <3>3, EndWrites
    <2> QED
      BY <1>1, <2>1, <2>2, <2>3, RequestKinds
  <1>2. CASE ~\E r \in Requests : RequestStep(r)
    <2>1. UNCHANGED <<pc, job>>
      BY <1>2, OutsideTyped DEF Next
    <2>2. /\ \A q \in Requests : Holding(q)' => Holding(q) /\ job'[q] = job[q]
          /\ \A q \in Requests, s \in Scenarios : HoldsRow(q, s)' => HoldsRow(q, s)
      BY <2>1 DEF Holding, HoldsRow, On, Seen
    <2>3. minted \subseteq minted' /\ \A t \in Scenarios \cap minted : row'[t] = row[t]
      BY <1>0, <1>2, OutsideWrites DEF Keeps, Creates
    <2> QED
      BY <1>0, <2>2, <2>3, LocksUntouched
  <1> QED
    BY <1>1, <1>2

LEMMA LocksInvariant == Spec => []LocksHold
  <1>1. Init => LocksHold
    BY DEF Init, LocksHold, Holding, OneHolder, HoldsRow
  <1>2. LocksHold /\ UNCHANGED vars => LocksHold'
    BY DEF LocksHold, vars, Holding, Guarded, OneHolder, HoldsRow, On, Seen
  <1> QED
    BY <1>1, <1>2, LocksStep, TypeCorrect, PTL DEF Spec

-----------------------------------------------------------------------------
(* Versions                                                                *)

\* As long as nothing was overwritten unseen, every copy's version counts the
\* commits it has seen, and what a handler saw at its lock is what it believes.
CopyCounts(r) ==
    /\ job[r].op \in Paged \cup Direct \cup {"page"} => Page(r).ver = Page(r).rev
    /\ Holding(r) => Seen(r).ver = Page(r).rev
    /\ job[r].op \in {"step", "finalize"} /\ pc[r] # "form" => Seen(r).basever = Seen(r).baserev

CopiesCount == blind = "none" => \A r \in Requests : CopyCounts(r)

Versions == VersionCountsCommits /\ CopiesCount

\* The rows after a step.
LEMMA RowsCount ==
    ASSUME TypeOK, Versions, blind' = "none",
           \/ Keeps
           \/ \E s \in Scenarios, w \in Rows : Creates(s, w)
           \/ \E r \in Requests : \E w : LockedWrites(r, w) \/ EditWrites(r, w) \/ SaveWrites(r, w)
    PROVE  /\ blind = "none"
           /\ \A s \in Scenarios : row'[s] # Nothing => row'[s].ver = row'[s].rev
  <1>0. row \in [Scenarios -> Rows \cup {Nothing}]
    BY DEF TypeOK
  <1>1. CASE Keeps
    BY <1>1 DEF Keeps, Versions, VersionCountsCommits
  <1>2. ASSUME NEW s \in Scenarios, NEW w \in Rows, Creates(s, w)
        PROVE  /\ blind = "none"
               /\ \A t \in Scenarios : row'[t] # Nothing => row'[t].ver = row'[t].rev
    BY <1>0, <1>2 DEF Creates, Versions, VersionCountsCommits
  <1>3. ASSUME NEW r \in Requests, NEW w, LockedWrites(r, w) \/ EditWrites(r, w) \/ SaveWrites(r, w)
        PROVE  /\ blind = "none"
               /\ \A t \in Scenarios : row'[t] # Nothing => row'[t].ver = row'[t].rev
    <2>1. PICK s \in Scenarios :
            /\ Replaces(s, w) /\ s = (IF pc[r] = "claimed" THEN Seen(r).target ELSE On(r))
      BY <1>3 DEF LockedWrites, EditWrites, SaveWrites, Holding, Replaces
    <2>2. blind = "none"
      BY <1>3, NothingElse DEF LockedWrites, EditWrites, SaveWrites, Marks
    <2>3. row[s] \in Rows /\ row[s].ver = row[s].rev /\ CopyCounts(r)
      BY <2>1, <2>2 DEF Replaces, Versions, VersionCountsCommits, CopiesCount
    <2>4. w # Nothing => w.ver = w.rev
      <3>1. CASE LockedWrites(r, w)
        <4>1. row[s].rev = Page(r).rev /\ s = On(r)
          BY <2>1, <2>2, <3>1 DEF LockedWrites, Marks, Holding, Ops, Paged, Direct
        <4>2. Seen(r).ver = Page(r).rev
          BY <2>3, <3>1 DEF LockedWrites, CopyCounts
        <4>3. w # Nothing => w.ver = Seen(r).ver + 1
          BY <3>1 DEF LockedWrites
        <4>4. w # Nothing => w.rev = row[s].rev + 1
          BY <2>1 DEF Replaces, Follows
        <4> QED
          BY <4>1, <4>2, <4>3, <4>4
      <3>2. CASE EditWrites(r, w)
        <4>1. row[s].rev = Page(r).rev /\ s = On(r) /\ job[r].op \in Paged
          BY <2>1, <2>2, <3>2 DEF EditWrites, Marks, Paged
        <4>2. Page(r).ver = Page(r).rev
          BY <2>3, <4>1 DEF CopyCounts
        <4>3. w # Nothing /\ w.ver = Page(r).ver + 1
          BY <3>2 DEF EditWrites, VersionMatches
        <4>4. w.rev = row[s].rev + 1
          BY <2>1, <4>3 DEF Replaces, Follows
        <4> QED
          BY <4>1, <4>2, <4>3, <4>4
      <3>3. CASE SaveWrites(r, w)
        BY <2>1, <2>3, <3>3 DEF SaveWrites, Replaces, Follows
      <3> QED
        BY <1>3, <3>1, <3>2, <3>3
    <2> QED
      BY <1>0, <2>1, <2>2, <2>3, <2>4 DEF Replaces, Versions, VersionCountsCommits
  <1> QED
    BY <1>1, <1>2, <1>3

LEMMA AnyWrites ==
    ASSUME TypeOK, Next
    PROVE  \/ Keeps
           \/ \E s \in Scenarios, w \in Rows : Creates(s, w)
           \/ \E r \in Requests : \E w : LockedWrites(r, w) \/ EditWrites(r, w) \/ SaveWrites(r, w)
  <1>1. ASSUME NEW r \in Requests, ReadStep(r)
        PROVE  Keeps
    BY <1>1, ReadMoves DEF ScenarioUnchanged, Keeps
  <1>2. ASSUME NEW r \in Requests, NEW s \in Scenarios, NEW op \in Paged \cup Direct, LockAny(r, s, op)
        PROVE  Keeps
    BY <1>2, LockMoves DEF ScenarioUnchanged, Keeps
  <1> QED
    BY <1>1, <1>2, RequestKinds, EndWrites, OutsideWrites

\* The copies after a step.
LEMMA CopiesStep ==
    ASSUME TypeOK, Versions, Next, blind = "none", NEW q \in Requests
    PROVE  CopyCounts(q)'
  <1>0. /\ CopyCounts(q)
        /\ \A s \in Scenarios : row[s] # Nothing => row[s].ver = row[s].rev
        /\ \A d \in Drafts : draft[d] # Nothing => draft[d].basever = draft[d].baserev
    BY DEF Versions, VersionCountsCommits, CopiesCount
  <1>1. CASE pc'[q] = pc[q] /\ job'[q] = job[q]
    BY <1>0, <1>1 DEF CopyCounts, Holding, Page, Seen
  <1>2. CASE ReadStep(q)
    <2>1. CASE pc'[q] = "form" /\ job'[q].op = "page"
      <3>1. PICK s \in Scenarios : row[s] # Nothing /\ job'[q].page = Shown(row[s])
        BY <1>2, <2>1, ReadMoves
      <3> QED
        BY <1>0, <2>1, <3>1 DEF CopyCounts, Holding, Page, Shown
    <2>2. CASE pc'[q] = "read" /\ job'[q].op = "edit"
      <3>1. job'[q].page = Page(q) /\ job[q].op = "page"
        BY <1>2, <2>2, ReadMoves
      <3> QED
        BY <1>0, <2>2, <3>1 DEF CopyCounts, Holding, Page
    <2>3. CASE pc'[q] = "read" /\ job'[q].op = "step"
      <3>1. PICK d \in Drafts : draft[d] # Nothing /\ job'[q].seen = draft[d]
        BY <1>2, <2>3, ReadMoves
      <3> QED
        BY <1>0, <2>3, <3>1 DEF CopyCounts, Holding, Seen, Paged, Direct
    <2>4. CASE pc'[q] = "selected" /\ job'[q].op = "step"
      <3>1. job[q].op = "step" /\ job'[q].seen = Seen(q) /\ pc[q] # "form"
        BY <1>2, <2>4, ReadMoves DEF TypeOK, JobOK, Paged, Direct
      <3> QED
        BY <1>0, <2>4, <3>1 DEF CopyCounts, Holding, Seen, Paged, Direct
    <2>5. CASE pc'[q] = "form" /\ job'[q].op = "finalize"
      BY <2>5 DEF CopyCounts, Holding, Paged, Direct
    <2>6. CASE pc'[q] = "locked" /\ job'[q].op = "finalize"
      <3>1. job'[q].on \in Drafts /\ draft[job'[q].on] # Nothing /\ job'[q].seen = draft[job'[q].on]
        BY <1>2, <2>6, ReadMoves
      <3> QED
        BY <1>0, <2>6, <3>1 DEF CopyCounts, Holding, Seen, Paged, Direct
    <2>7. CASE pc'[q] = "claimed"
      <3>1. job'[q] = job[q] /\ job[q].op = "finalize" /\ pc[q] = "locked"
        BY <1>2, <2>7, ReadMoves DEF Claim
      <3> QED
        BY <1>0, <2>7, <3>1 DEF CopyCounts, Holding, Seen, Paged, Direct
    <2> QED
      BY <1>2, <2>1, <2>2, <2>3, <2>4, <2>5, <2>6, <2>7, ReadMoves
  <1>3. ASSUME NEW s \in Scenarios, NEW op \in Paged \cup Direct, LockAny(q, s, op)
        PROVE  CopyCounts(q)'
    <2>1. /\ row[s] # Nothing /\ pc'[q] = "locked" /\ job'[q].op = op
          /\ job'[q].seen = Shown(row[s])
          /\ \/ job'[q].page = Shown(row[s])
             \/ /\ job'[q].page = Page(q) /\ VersionMatches(Page(q), row[s])
                /\ job[q].op = "page"
      BY <1>3, LockMoves
    <2>2. row[s].ver = row[s].rev
      BY <1>0, <2>1
    <2> QED
      BY <1>0, <2>1, <2>2
      DEF CopyCounts, Holding, Page, Seen, Shown, VersionMatches, Paged, Direct
  <1>4. CASE pc'[q] = "idle" /\ job'[q] = NoJob
    BY <1>4 DEF CopyCounts, Holding, NoJob, Paged, Direct
  <1>5. ASSUME NEW r \in Requests, RequestStep(r)
        PROVE  \/ pc'[q] = pc[q] /\ job'[q] = job[q]
               \/ pc'[q] = "idle" /\ job'[q] = NoJob
               \/ ReadStep(q)
               \/ \E s \in Scenarios, op \in Paged \cup Direct : LockAny(q, s, op)
    BY <1>5, RequestKinds, ReadMoves, LockMoves, EndLeaves
  <1> QED
    BY <1>1, <1>2, <1>3, <1>4, <1>5, OutsideTyped DEF Next

LEMMA VersionsStep ==
    ASSUME TypeOK, Versions, Next
    PROVE  Versions'
  <1> SUFFICES ASSUME blind' = "none"
               PROVE  /\ \A s \in Scenarios : row'[s] # Nothing => row'[s].ver = row'[s].rev
                      /\ \A d \in Drafts : draft'[d] # Nothing => draft'[d].basever = draft'[d].baserev
                      /\ \A q \in Requests : CopyCounts(q)'
    BY DEF Versions, VersionCountsCommits, CopiesCount
  <1>1. /\ blind = "none"
        /\ \A s \in Scenarios : row'[s] # Nothing => row'[s].ver = row'[s].rev
    BY AnyWrites, RowsCount
  <1>2. \A q \in Requests : CopyCounts(q)'
    BY <1>1, CopiesStep
  <1>3. ASSUME NEW d \in Drafts, draft'[d] # Nothing
        PROVE  draft'[d].basever = draft'[d].baserev
    <2>0. /\ draft \in [Drafts -> DraftRows \cup {Nothing}]
          /\ draft[d] # Nothing => draft[d].basever = draft[d].baserev
          /\ \A s \in Scenarios : row[s] # Nothing => row[s].ver = row[s].rev
      BY <1>1 DEF TypeOK, Versions, VersionCountsCommits
    <2>1. \A r \in Requests : job[r].op = "step" => Seen(r).basever = Seen(r).baserev
      BY <1>1 DEF Versions, CopiesCount, CopyCounts, TypeOK, JobOK, Paged, Direct
    <2> QED
      BY <1>3, <2>0, <2>1, DraftKinds
  <1> QED
    BY <1>1, <1>2, <1>3

LEMMA VersionsInvariant == Spec => []Versions
  <1>1. ASSUME Init
        PROVE  Versions
    <2>1. \A s \in Scenarios : row[s] # Nothing => row[s].ver = 1 /\ row[s].rev = 1
      BY <1>1, FoundAssumption DEF Init
    <2> QED
      BY <1>1, <2>1
      DEF Init, Versions, VersionCountsCommits, CopiesCount, CopyCounts, Holding, NoJob, Paged, Direct
  <1>2. Versions /\ UNCHANGED vars => Versions'
    BY DEF Versions, VersionCountsCommits, CopiesCount, vars, CopyCounts, Holding, Page, Seen
  <1> QED
    BY <1>1, <1>2, VersionsStep, TypeCorrect, PTL DEF Spec

\* As long as nothing was overwritten unseen, a version counts the commits.
THEOREM VersionsCount == Spec => []VersionCountsCommits
  <1>1. Versions => VersionCountsCommits
    BY DEF Versions
  <1> QED
    BY <1>1, VersionsInvariant, PTL

\* The first commit over one unseen is never a re-estimate's, and with row locks
\* it is the edit form's.
THEOREM OthersSee == Spec => []OnlyEditsOverwrite
  <1>1. Init => OnlyEditsOverwrite
    BY DEF Init, OnlyEditsOverwrite
  <1>2. ASSUME TypeOK, Versions, LocksHold, OnlyEditsOverwrite, Next
        PROVE  OnlyEditsOverwrite'
    <2>0. backend' = backend
      BY <1>2 DEF Next
    <2>1. CASE blind' = blind
      BY <1>2, <2>0, <2>1 DEF OnlyEditsOverwrite
    <2>2. CASE blind' # blind
      <3>0. PICK r \in Requests : \E w : LockedWrites(r, w) \/ EditWrites(r, w) \/ SaveWrites(r, w)
        BY <1>2, <2>2, AnyWrites DEF Keeps, Creates
      <3>1. PICK w : LockedWrites(r, w) \/ EditWrites(r, w) \/ SaveWrites(r, w)
        BY <3>0
      <3>2. CASE EditWrites(r, w)
        BY <1>2, <2>0, <3>2 DEF EditWrites, Marks, OnlyEditsOverwrite
      <3>3. CASE SaveWrites(r, w)
        <4>1. blind = "none" /\ row[Seen(r).target].rev # Seen(r).baserev
          BY <2>2, <3>3 DEF SaveWrites, Marks
        <4>2. /\ Seen(r).target \in Scenarios /\ row[Seen(r).target] # Nothing
              /\ row[Seen(r).target].ver = Seen(r).basever /\ pc[r] = "claimed"
          BY <3>3 DEF SaveWrites, Replaces
        <4>3. Seen(r).basever = Seen(r).baserev
          BY <1>2, <4>1, <4>2, Carries DEF Versions, CopiesCount, CopyCounts
        <4> QED
          BY <1>2, <4>1, <4>2, <4>3 DEF Versions, VersionCountsCommits
      <3>4. CASE LockedWrites(r, w)
        <4>1. /\ blind = "none" /\ row[On(r)].rev # Page(r).rev
              /\ blind' = job[r].op /\ job[r].op # "finalize"
          BY <2>2, <3>4 DEF LockedWrites, Marks, Holding, Paged, Direct
        <4>2. Holding(r) /\ On(r) \in Scenarios /\ row[On(r)] # Nothing
          BY <3>4 DEF LockedWrites, Replaces
        <4>3. row[On(r)].ver = row[On(r)].rev /\ Seen(r).ver = Page(r).rev
          BY <1>2, <4>1, <4>2
          DEF Versions, VersionCountsCommits, CopiesCount, CopyCounts
        <4>4. backend = "postgres" => row[On(r)].ver = Seen(r).ver
          BY <1>2, <4>2 DEF LocksHold, Guarded, Shown
        <4> QED
          BY <1>2, <2>0, <4>1, <4>3, <4>4 DEF OnlyEditsOverwrite
      <3> QED
        BY <3>1, <3>2, <3>3, <3>4
    <2> QED
      BY <2>1, <2>2
  <1>3. OnlyEditsOverwrite /\ UNCHANGED vars => OnlyEditsOverwrite'
    BY DEF OnlyEditsOverwrite, vars
  <1> QED
    BY <1>1, <1>2, <1>3, TypeCorrect, VersionsInvariant, LocksInvariant, PTL DEF Spec

-----------------------------------------------------------------------------
(* Promotion and pins                                                      *)

\* An active row stays active, and was inherent when it became so.
THEOREM PromotedStays == Spec => PromotionStands
  <1>1. TypeOK /\ LocksHold /\ [Next]_vars =>
          [\A s \in Scenarios : row[s] # Nothing /\ row'[s] # Nothing =>
             /\ row[s].status = "active" => row'[s].status = "active"
             /\ row[s].status # row'[s].status => row[s].framing = "inherent"
             /\ row[s].framing = "inherent" => row'[s].framing = "inherent"]_vars
    <2> SUFFICES ASSUME TypeOK, LocksHold, Next, NEW s \in Scenarios,
                        row[s] # Nothing, row'[s] # Nothing
                 PROVE  /\ row[s].status = "active" => row'[s].status = "active"
                        /\ row[s].status # row'[s].status => row[s].framing = "inherent"
                        /\ row[s].framing = "inherent" => row'[s].framing = "inherent"
      OBVIOUS
    <2>0. row \in [Scenarios -> Rows \cup {Nothing}] /\ s \in minted
      BY DEF TypeOK
    <2>1. CASE row'[s] = row[s]
      BY <2>1
    <2>2. CASE row'[s] # row[s]
      <3>0. PICK r \in Requests : \E w : LockedWrites(r, w) \/ EditWrites(r, w) \/ SaveWrites(r, w)
        BY <2>0, <2>2, AnyWrites DEF Keeps, Creates
      <3>1. PICK w : LockedWrites(r, w) \/ EditWrites(r, w) \/ SaveWrites(r, w)
        BY <3>0
      <3>2. Replaces(s, w) /\ row'[s] = w /\ s = (IF pc[r] = "claimed" THEN Seen(r).target ELSE On(r))
        BY <2>0, <2>2, <3>1 DEF LockedWrites, EditWrites, SaveWrites, Holding, Replaces
      <3>3. Follows(row[s], row'[s])
        BY <3>2 DEF Replaces
      <3>4. row[s].status # row'[s].status => row[s].framing = "inherent"
        <4>1. CASE LockedWrites(r, w)
          BY <3>2, <4>1 DEF LockedWrites, LocksHold, Guarded, Holding
        <4>2. CASE EditWrites(r, w) \/ SaveWrites(r, w)
          BY <3>2, <4>2 DEF EditWrites, SaveWrites
        <4> QED
          BY <3>1, <4>1, <4>2
      <3> QED
        BY <3>3, <3>4 DEF Follows
    <2> QED
      BY <2>1, <2>2
  <1> QED
    BY <1>1, TypeCorrect, LocksInvariant, PTL DEF Spec, PromotionStands

\* With row locks a refresh never replaces a pin.
THEOREM PinsSpared == Spec => RefreshSparesPins
  <1>1. TypeOK /\ LocksHold /\ [Next]_vars =>
          [\A s \in Scenarios :
             (/\ backend = "postgres" /\ row[s] # Nothing /\ row'[s] # Nothing
              /\ row[s].loss = "pinned")
             => row'[s].loss # "library"]_vars
    <2> SUFFICES ASSUME TypeOK, LocksHold, Next, NEW s \in Scenarios, backend = "postgres",
                        row[s] # Nothing, row'[s] # Nothing, row[s].loss = "pinned"
                 PROVE  row'[s].loss # "library"
      OBVIOUS
    <2>0. row \in [Scenarios -> Rows \cup {Nothing}] /\ s \in minted
      BY DEF TypeOK
    <2>1. CASE row'[s] = row[s]
      BY <2>1
    <2>2. CASE row'[s] # row[s]
      <3>0. PICK r \in Requests : \E w : LockedWrites(r, w) \/ EditWrites(r, w) \/ SaveWrites(r, w)
        BY <2>0, <2>2, AnyWrites DEF Keeps, Creates
      <3>1. PICK w : LockedWrites(r, w) \/ EditWrites(r, w) \/ SaveWrites(r, w)
        BY <3>0
      <3>2. row'[s] = w /\ s = (IF pc[r] = "claimed" THEN Seen(r).target ELSE On(r))
        BY <2>0, <2>2, <3>1 DEF LockedWrites, EditWrites, SaveWrites, Holding, Replaces
      <3>3. CASE LockedWrites(r, w)
        <4>1. Holding(r) /\ s = On(r) /\ Guarded(r)
          BY <3>2, <3>3 DEF LockedWrites, LocksHold, Holding
        <4>2. job[r].op # "refresh"
          BY <4>1 DEF Guarded
        <4> QED
          BY <3>2, <3>3, <4>1, <4>2 DEF LockedWrites
      <3>4. CASE EditWrites(r, w) \/ SaveWrites(r, w)
        BY <3>2, <3>4 DEF EditWrites, SaveWrites
      <3> QED
        BY <3>1, <3>3, <3>4
    <2> QED
      BY <2>1, <2>2
  <1> QED
    BY <1>1, TypeCorrect, LocksInvariant, PTL DEF Spec, RefreshSparesPins

=============================================================================
