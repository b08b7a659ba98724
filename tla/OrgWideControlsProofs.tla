--------------------------- MODULE OrgWideControlsProofs ---------------------------
(***************************************************************************)
(* Proofs about OrgWideControls, for any number of controls, runs and      *)
(* overlapping requests, and any contents and versions of the entry.       *)
(***************************************************************************)
EXTENDS OrgWideControls, FiniteSetTheorems, TLAPS

-----------------------------------------------------------------------------
(* New rows                                                                *)

\* Whatever ids the row and the copies of it have, one is free.
LEMMA SomeIdFree ==
    ASSUME NEW x, NEW g
    PROVE  \E i \in RowIds : i # x /\ \A r \in Requests : g[r] # i
  <1> DEFINE copies == {g[r] : r \in Requests}
             h == [r \in Requests |-> g[r]]
             used == copies \cup {x}
  <1>1. h \in Surjection(Requests, copies)
    BY DEF Surjection
  <1>2. IsFiniteSet(copies) /\ Cardinality(copies) <= Cardinality(Requests)
    BY <1>1, FS_Surjection, OrgWideAssumption
  <1>3. /\ Cardinality(copies) \in Nat /\ Cardinality(Requests) \in Nat
        /\ IsFiniteSet(used)
        /\ Cardinality(used) = IF x \in copies THEN Cardinality(copies) ELSE Cardinality(copies) + 1
    BY <1>2, FS_AddElement, FS_CardinalityType, OrgWideAssumption
  <1>4. ~(RowIds \subseteq used)
    <2> SUFFICES ASSUME RowIds \subseteq used
                 PROVE  FALSE
      OBVIOUS
    <2>1. IsFiniteSet(RowIds) /\ Cardinality(RowIds) <= Cardinality(used)
      BY <1>3, FS_Subset
    <2>2. Cardinality(RowIds) > Cardinality(Requests) + 1 /\ Cardinality(RowIds) \in Nat
      BY <2>1, FS_CardinalityType, OrgWideAssumption
    <2> HIDE DEF used, copies
    <2> QED
      BY <1>2, <1>3, <2>1, <2>2
  <1> QED
    BY <1>4

LEMMA FreshIds ==
    ASSUME NEW c \in Controls, NEW f \in SubFns
    PROVE  FreshRow(c, f) \in RowIds /\ FreshLink(c) \in RowIds
  <1>1. \E i \in RowIds : /\ i # control[c].rows[f].id
                          /\ \A r \in Requests : job[r].seen.rows[f].id # i
    <2> DEFINE g == [r \in Requests |-> job[r].seen.rows[f].id]
    <2> HIDE DEF g
    <2>1. \E i \in RowIds : i # control[c].rows[f].id /\ \A r \in Requests : g[r] # i
      BY SomeIdFree
    <2> QED
      BY <2>1 DEF g
  <1>2. \E i \in RowIds : /\ i # control[c].link.id
                          /\ \A r \in Requests : job[r].seen.link.id # i
    <2> DEFINE g == [r \in Requests |-> job[r].seen.link.id]
    <2> HIDE DEF g
    <2>1. \E i \in RowIds : i # control[c].link.id /\ \A r \in Requests : g[r] # i
      BY SomeIdFree
    <2> QED
      BY <2>1 DEF g
  <1> QED
    BY <1>1, <1>2 DEF FreshRow, FreshLink

RowMaps == [SubFns -> Row \cup {Nothing}]

LEMMA NewRowsTyped ==
    ASSUME NEW c \in Controls, NEW content \in Contents
    PROVE  /\ NewRows(c, content) \in RowMaps
           /\ \A f \in SubFns : /\ NewRows(c, content)[f] # Nothing <=> f \in Filled(content)
                                /\ f \in Filled(content) => NewRows(c, content)[f].val = content[f]
  <1>1. \A f \in Filled(content) : /\ [id |-> FreshRow(c, f), val |-> content[f]] \in Row
                                   /\ content[f] # Nothing /\ f \in SubFns
    BY FreshIds, OrgWideAssumption DEF Row, Filled
  <1>2. \A f \in SubFns : content[f] = Nothing <=> f \notin Filled(content)
    BY DEF Filled
  <1> QED
    BY <1>1, <1>2, OrgWideAssumption DEF NewRows, RowMaps

LEMMA NewLinkTyped ==
    ASSUME NEW c \in Controls, NEW to \in Sources
    PROVE  /\ NewLink(c, to) \in LinkRow \cup {Nothing}
           /\ NewLink(c, to) = Nothing <=> to = Nothing
           /\ to # Nothing => NewLink(c, to).to = to
  <1>1. CASE to = Nothing
    BY <1>1 DEF NewLink
  <1>2. CASE to # Nothing
    <2>1. [id |-> FreshLink(c), to |-> to] \in LinkRow
      BY <1>2, FreshIds DEF LinkRow, Sources
    <2> QED
      BY <1>2, <2>1, OrgWideAssumption DEF NewLink
  <1> QED
    BY <1>1, <1>2

-----------------------------------------------------------------------------
(* A save of a form                                                        *)

\* The rows afterwards.
LEMMA Merged ==
    ASSUME TypeOK, NEW c \in Controls, NEW seen \in ControlRows, NEW content \in Contents,
           ~Lost(control[c], seen, content)
    PROVE  /\ MergedRows(c, seen, content) \in RowMaps
           /\ \A f \in SubFns : MergedRows(c, seen, content)[f] # Nothing <=>
                \/ f \in Filled(content)
                \/ f \in Present(control[c]) /\ f \notin Deleted(control[c], seen, content)
  <1> DEFINE k == control[c]
             m == MergedRows(c, seen, content)
  <1>0. k.rows \in RowMaps /\ seen.rows \in RowMaps /\ content \in [SubFns -> Values \cup {Nothing}]
    BY OrgWideAssumption DEF TypeOK, ControlRows, RowMaps
  <1>1. ASSUME NEW f \in SubFns
        PROVE  /\ m[f] \in Row \cup {Nothing}
               /\ m[f] # Nothing <=> \/ f \in Filled(content)
                                     \/ f \in Present(k) /\ f \notin Deleted(k, seen, content)
    <2>1. CASE f \in Deleted(k, seen, content)
      BY <2>1 DEF MergedRows, Deleted
    <2>2. CASE f \notin Deleted(k, seen, content) /\ content[f] = Nothing
      BY <1>0, <2>2 DEF MergedRows, Filled, Present, RowMaps
    <2>3. CASE content[f] # Nothing /\ seen.rows[f] = Nothing
      <3>1. f \notin Deleted(k, seen, content)
        BY <2>3 DEF Deleted, Present
      <3>2. m[f] = [id |-> FreshRow(c, f), val |-> content[f]]
        BY <2>3, <3>1 DEF MergedRows
      <3>3. m[f] \in Row
        BY <1>0, <2>3, <3>2, FreshIds DEF Row
      <3> QED
        BY <2>3, <3>3, OrgWideAssumption DEF Filled
    <2>4. CASE content[f] # Nothing /\ seen.rows[f] # Nothing
      <3>1. f \notin Deleted(k, seen, content)
        BY <2>4 DEF Deleted, Filled
      <3>2. k.rows[f] # Nothing
        BY <2>4 DEF Lost, Present, Filled
      <3>3. m[f] = [k.rows[f] EXCEPT !.val = Column(@, seen.rows[f].val, content[f])]
        BY <2>4, <3>1 DEF MergedRows
      <3>4. m[f] \in Row
        BY <1>0, <2>4, <3>2, <3>3 DEF Row, RowMaps, Column
      <3> QED
        BY <2>4, <3>4, OrgWideAssumption DEF Filled
    <2> QED
      BY <2>1, <2>2, <2>3, <2>4
  <1>2. m = [f \in SubFns |-> m[f]]
    BY DEF MergedRows
  <1> HIDE DEF m
  <1>3. m \in RowMaps
    BY <1>1, <1>2 DEF RowMaps
  <1> QED
    BY <1>1, <1>3 DEF m

\* When nobody overtook the save, the rows are those of the form.
LEMMA MergedAlone ==
    ASSUME TypeOK, NEW c \in Controls, NEW content \in Contents
    PROVE  /\ ~Lost(control[c], control[c], content) /\ ~Clash(control[c], control[c], content)
           /\ \A f \in SubFns :
                LET m == MergedRows(c, control[c], content) IN
                IF content[f] = Nothing THEN m[f] = Nothing ELSE m[f].val = content[f]
  <1> DEFINE k == control[c]
             m == MergedRows(c, k, content)
  <1>0. k.rows \in RowMaps /\ content \in [SubFns -> Values \cup {Nothing}]
    BY OrgWideAssumption DEF TypeOK, ControlRows, RowMaps
  <1>1. ~Lost(k, k, content) /\ ~Clash(k, k, content)
    BY DEF Lost, Clash, Present
  <1>2. ASSUME NEW f \in SubFns
        PROVE  IF content[f] = Nothing THEN m[f] = Nothing ELSE m[f].val = content[f]
    <2>1. CASE content[f] = Nothing
      BY <1>0, <2>1 DEF MergedRows, Deleted, Present, Filled
    <2>2. CASE content[f] # Nothing /\ k.rows[f] = Nothing
      BY <2>2 DEF MergedRows, Deleted, Present, Filled
    <2>3. CASE content[f] # Nothing /\ k.rows[f] # Nothing
      <3>1. m[f] = [k.rows[f] EXCEPT !.val = Column(@, k.rows[f].val, content[f])]
        BY <2>3 DEF MergedRows, Deleted, Present, Filled
      <3> QED
        BY <1>0, <2>3, <3>1 DEF Column, Row, RowMaps
    <2> QED
      BY <2>1, <2>2, <2>3
  <1> QED
    BY <1>1, <1>2

\* The derived row afterwards links a row that is there.
LEMMA Synced ==
    ASSUME TypeOK, NEW c \in Controls, NEW seen \in ControlRows, NEW content \in Contents,
           NEW link \in LinkRow \cup {Nothing}, NEW source \in Sources,
           link # Nothing => link.to \in Present(control[c]),
           LinkValid(content, source), ~Lost(control[c], seen, content),
           ~Dangles(link, Deleted(control[c], seen, content))
    PROVE  LET new == SyncedLink(c, seen, link, source) IN
           /\ new \in LinkRow \cup {Nothing}
           /\ new # Nothing => /\ new.to \in SubFns
                               /\ MergedRows(c, seen, content)[new.to] # Nothing
  <1> DEFINE new == SyncedLink(c, seen, link, source)
             m == MergedRows(c, seen, content)
  <1>1. link # Nothing => link.to \in SubFns /\ m[link.to] # Nothing
    BY Merged DEF Dangles, Present
  <1>2. source # Nothing => source \in SubFns /\ m[source] # Nothing
    BY Merged DEF LinkValid, Filled, Sources
  <1>3. CASE source = Nothing
    BY <1>1, <1>3 DEF SyncedLink
  <1>4. CASE source # Nothing /\ link = Nothing
    BY <1>2, <1>4, NewLinkTyped DEF SyncedLink
  <1>5. CASE source # Nothing /\ link # Nothing
    <2>1. \E to \in {source, link.to} : new = [link EXCEPT !.to = to]
      BY <1>5 DEF SyncedLink, Column
    <2>2. PICK to \in {source, link.to} : new = [link EXCEPT !.to = to]
      BY <2>1
    <2>3. link \in LinkRow /\ to \in SubFns /\ m[to] # Nothing
      BY <1>1, <1>2, <1>5, <2>2
    <2>4. new \in LinkRow /\ new.to = to
      BY <2>2, <2>3 DEF LinkRow
    <2> QED
      BY <2>3, <2>4
  <1> QED
    BY <1>3, <1>4, <1>5
-----------------------------------------------------------------------------
(* What a change of a control does                                         *)

\* A request that nobody overtook has the control as it is.
Engaged ==
    \A r \in Requests : job[r] # NoJob =>
        /\ control[job[r].on].status # "absent"
        /\ r \notin overtaken => job[r].seen = control[job[r].on]

Sound(k) ==
    k \in ControlRows /\ k.status # "absent" /\ LinkOf(k) \in Present(k) \cup {Nothing}

\* One of the sweeps may follow.
MaySweep(c) == run' = run \/ run' = FlagOrg \/ run' = FlagUsers(c)

\* What the properties need of the new control, and of the sweep with it.
PinSwept(c, k) == k.pin = control[c].pin \/ run' = FlagOrg \/ run' = FlagUsers(c)
KeepsEligible(c, k) ==
    (control[c].flag => HasMeta(Present(control[c]))) => (k.flag => HasMeta(Present(k)))
SweptOrSame(c, k) ==
    \/ run' = FlagOrg
    \/ /\ Effective(k) <=> Effective(control[c])
       /\ Effective(k) => Inherited(k) = Inherited(control[c])

Saves(r, c, k) ==
    /\ Write(r, c, k) /\ Sound(k) /\ MaySweep(c) /\ More
    /\ PinSwept(c, k)
    /\ r \notin overtaken => KeepsEligible(c, k) /\ SweptOrSame(c, k)

\* "A surviving derived row": not there when the derived row goes first.
LEMMA NeverDangles ==
    ASSUME TypeOK, NEW c \in Controls, NEW content \in Contents, NEW source \in Sources,
           NEW link,
           link = IF DropsFirst(LinkOf(control[c]), source, content) /\ control[c].link # Nothing
                  THEN Nothing ELSE control[c].link
    PROVE  ~Dangles(link, Deleted(control[c], control[c], content))
  <1>1. CASE DropsFirst(LinkOf(control[c]), source, content)
    BY <1>1 DEF Dangles, DropsFirst, LinkOf
  <1>2. CASE ~DropsFirst(LinkOf(control[c]), source, content)
    <2>1. link = control[c].link /\ control[c].link \in LinkRow \cup {Nothing}
      BY <1>2 DEF TypeOK, ControlRows
    <2>2. link # Nothing => LinkOf(control[c]) = link.to /\ link.to # Nothing
      BY <2>1, OrgWideAssumption DEF LinkOf, LinkRow
    <2> QED
      BY <1>2, <2>1, <2>2 DEF Dangles, Deleted, DropsFirst
  <1> QED
    BY <1>1, <1>2

\* What a save that nobody overtook leaves as it was for the runs.
LEMMA UnchangedInherits ==
    ASSUME TypeOK, NEW c \in Controls, NEW content \in Contents, NEW source \in Sources,
           ~AssignmentsChanged(control[c], LinkOf(control[c]), content, source),
           NEW k, k.rows = MergedRows(c, control[c], content),
           k.link = SyncedLink(c, control[c], control[c].link, source)
    PROVE  Inherited(k) = Inherited(control[c])
  <1>0. /\ control[c].rows \in RowMaps /\ control[c].link \in LinkRow \cup {Nothing}
        /\ content \in [SubFns -> Values \cup {Nothing}]
    BY OrgWideAssumption DEF TypeOK, ControlRows, RowMaps
  <1>1. ASSUME NEW f \in Meta
        PROVE  (IF k.rows[f] = Nothing THEN Nothing ELSE k.rows[f].val)
               = (IF control[c].rows[f] = Nothing THEN Nothing ELSE control[c].rows[f].val)
    <2>1. content[f] = IF control[c].rows[f] = Nothing THEN Nothing ELSE control[c].rows[f].val
      BY DEF AssignmentsChanged, RowsChanged, SubFns
    <2>2. control[c].rows[f] # Nothing => control[c].rows[f].val # Nothing
      BY <1>0, OrgWideAssumption DEF RowMaps, Row, SubFns
    <2>3. k.rows[f] # Nothing <=> f \in Filled(content) \/ (f \in Present(control[c]) /\ f \notin Deleted(control[c], control[c], content))
      BY <1>0, Merged, MergedAlone DEF TypeOK, SubFns
    <2>4. k.rows[f] # Nothing <=> content[f] # Nothing
      BY <2>1, <2>2, <2>3 DEF Filled, Present, SubFns
    <2>5. content[f] # Nothing => k.rows[f].val = content[f]
      BY MergedAlone DEF SubFns
    <2> QED
      BY <2>1, <2>4, <2>5
  <1>2. LinkOf(k) = LinkOf(control[c])
    <2>1. LinkOf(control[c]) = source
      BY DEF AssignmentsChanged
    <2>2. CASE source = Nothing
      BY <2>1, <2>2 DEF SyncedLink, LinkOf
    <2>3. CASE source # Nothing
      <3>1. control[c].link \in LinkRow /\ control[c].link.to = source
        BY <1>0, <2>1, <2>3 DEF LinkOf
      <3>2. control[c].link # Nothing
        BY <3>1, OrgWideAssumption
      <3>3. k.link = [control[c].link EXCEPT !.to = source]
        BY <2>3, <3>2 DEF SyncedLink
      <3>4. k.link = control[c].link
        BY <3>1, <3>3 DEF LinkRow
      <3> QED
        BY <3>4 DEF LinkOf
    <2> QED
      BY <2>2, <2>3
  <1> QED
    BY <1>1, <1>2 DEF Inherited

LEMMA EditSound ==
    ASSUME TypeOK, Engaged, NEW r \in Requests, SaveEdit(r)
    PROVE  (Refuse(r) /\ r \in overtaken) \/ \E k : Saves(r, job[r].on, k)
  <1> DEFINE c == job[r].on
             seen == job[r].seen
             k == control[c]
  <1>1. c \in Controls /\ seen \in ControlRows /\ k \in ControlRows /\ k.status # "absent"
        /\ LinkOf(k) \in Present(k) \cup {Nothing} /\ More
        /\ (r \notin overtaken => seen = k)
    BY DEF SaveEdit, TypeOK, Engaged
  <1>2. PICK flag \in BOOLEAN, at \in Standings, content \in Contents,
             source \in Sources, asked \in {seen, k} :
        LET form == [seen EXCEPT !.flag = flag, !.status = at[1], !.stage = at[2]]
            drops == DropsFirst(LinkOf(asked), source, content)
            link == IF drops /\ k.link # Nothing /\ k.link.id = asked.link.id
                    THEN Nothing ELSE k.link
            changed == AssignmentsChanged(seen, LinkOf(asked), content, source)
        IN
        /\ Eligible(flag, content) /\ LinkValid(content, source)
        /\ IF Lost(k, seen, content) \/ Clash(k, seen, content)
              \/ Dangles(link, Deleted(k, seen, content))
           THEN Refuse(r)
           ELSE /\ Write(r, c,
                     [k EXCEPT !.flag = Column(@, seen.flag, flag),
                               !.status = Column(@, seen.status, at[1]),
                               !.stage = Column(@, seen.stage, at[2]),
                               !.rows = MergedRows(c, seen, content),
                               !.link = SyncedLink(c, seen, link, source)])
                /\ run' = IF Sweeps(seen, form, changed) THEN FlagOrg ELSE run
    BY DEF SaveEdit
  <1> DEFINE form == [seen EXCEPT !.flag = flag, !.status = at[1], !.stage = at[2]]
             drops == DropsFirst(LinkOf(asked), source, content)
             link == IF drops /\ k.link # Nothing /\ k.link.id = asked.link.id
                     THEN Nothing ELSE k.link
             changed == AssignmentsChanged(seen, LinkOf(asked), content, source)
             fails == Lost(k, seen, content) \/ Clash(k, seen, content)
                        \/ Dangles(link, Deleted(k, seen, content))
             new == [k EXCEPT !.flag = Column(@, seen.flag, flag),
                               !.status = Column(@, seen.status, at[1]),
                               !.stage = Column(@, seen.stage, at[2]),
                               !.rows = MergedRows(c, seen, content),
                               !.link = SyncedLink(c, seen, link, source)]
  <1>3. /\ Eligible(flag, content) /\ LinkValid(content, source)
        /\ fails => Refuse(r)
        /\ ~fails => Write(r, c, new) /\ run' = IF Sweeps(seen, form, changed) THEN FlagOrg ELSE run
    BY <1>2
  <1>4. CASE fails
    <2>1. SUFFICES ASSUME r \notin overtaken
                   PROVE  FALSE
      BY <1>3, <1>4
    <2>2. seen = k /\ asked = k
      BY <1>1, <2>1
    <2>3. ~Lost(k, k, content) /\ ~Clash(k, k, content)
      BY <1>1, MergedAlone
    <2>4. link = IF DropsFirst(LinkOf(k), source, content) /\ k.link # Nothing THEN Nothing ELSE k.link
      BY <2>2
    <2>5. ~Dangles(link, Deleted(k, k, content))
      <3> HIDE DEF link
      <3> QED
        BY <1>1, <2>4, NeverDangles
    <2> QED
      BY <1>4, <2>2, <2>3, <2>5
  <1>5. CASE ~fails
    <2>1. /\ at[1] \in {"draft", "active", "deleted"} /\ at[2] \in BOOLEAN
      BY OrgWideAssumption
    <2>2. /\ link \in LinkRow \cup {Nothing}
          /\ link # Nothing => link = k.link /\ link.to \in Present(k)
      BY <1>1, OrgWideAssumption DEF ControlRows, LinkOf, LinkRow
    <2>3. /\ SyncedLink(c, seen, link, source) \in LinkRow \cup {Nothing}
          /\ SyncedLink(c, seen, link, source) # Nothing =>
                /\ SyncedLink(c, seen, link, source).to \in SubFns
                /\ MergedRows(c, seen, content)[SyncedLink(c, seen, link, source).to] # Nothing
      <3> HIDE DEF link
      <3> QED
        BY <1>1, <1>3, <1>5, <2>2, Synced
    <2>4. MergedRows(c, seen, content) \in RowMaps
      BY <1>1, <1>5, Merged
    <2>5. /\ new.flag = Column(k.flag, seen.flag, flag)
          /\ new.status = Column(k.status, seen.status, at[1])
          /\ new.stage = Column(k.stage, seen.stage, at[2])
          /\ new.rows = MergedRows(c, seen, content)
          /\ new.link = SyncedLink(c, seen, link, source)
          /\ new.pin = k.pin
      <3> HIDE DEF link, c, seen
      <3> QED
        BY <1>1 DEF ControlRows
    <2>6. new \in ControlRows
      <3>1. /\ Column(k.flag, seen.flag, flag) \in BOOLEAN
            /\ Column(k.status, seen.status, at[1]) \in Status
            /\ Column(k.stage, seen.stage, at[2]) \in BOOLEAN
        BY <1>1, <2>1 DEF ControlRows, Status, Column
      <3> HIDE DEF link, c, seen
      <3> QED
        BY <1>1, <2>3, <2>4, <3>1 DEF ControlRows, RowMaps
    <2>7. new.status # "absent"
      BY <1>1, <2>1, <2>5 DEF Column
    <2> HIDE DEF new
    <2>8. LinkOf(new) \in Present(new) \cup {Nothing}
      BY <2>3, <2>5 DEF LinkOf, Present
    <2>9. ASSUME r \notin overtaken
          PROVE  KeepsEligible(c, new) /\ SweptOrSame(c, new)
      <3>1. seen = k /\ asked = k
        BY <1>1, <2>9
      <3>2. new.flag = flag /\ new.status = at[1] /\ new.stage = at[2]
        BY <2>5, <3>1 DEF Column
      <3>3. ASSUME new.flag
            PROVE  HasMeta(Present(new))
        <4>1. Filled(content) \cap Meta # {}
          BY <1>3, <3>2, <3>3 DEF Eligible, HasMeta
        <4>2. \A f \in Filled(content) : MergedRows(c, seen, content)[f] # Nothing
          BY <1>1, <1>5, Merged DEF Filled
        <4> QED
          BY <2>5, <4>1, <4>2 DEF HasMeta, Present, Filled
      <3>4. form.flag = flag /\ form.status = at[1] /\ form.stage = at[2]
        BY <1>1 DEF ControlRows
      <3>5. Effective(form) <=> Effective(new)
        BY <3>2, <3>4 DEF Effective
      <3>6. ASSUME ~Sweeps(seen, form, changed), Effective(new)
            PROVE  Inherited(new) = Inherited(k)
        <4>1. ~changed
          BY <3>5, <3>6 DEF Sweeps
        <4>2. ~DropsFirst(LinkOf(k), source, content)
          BY <3>1, <4>1 DEF AssignmentsChanged, RowsChanged
        <4>3. link = k.link
          BY <3>1, <4>2
        <4> QED
          BY <1>1, <2>5, <3>1, <4>1, <4>3, UnchangedInherits
      <3>7. SweptOrSame(c, new)
        BY <1>3, <1>5, <3>1, <3>5, <3>6 DEF SweptOrSame, Sweeps
      <3> QED
        BY <3>3, <3>7 DEF KeepsEligible
    <2>10. MaySweep(c)
      BY <1>3, <1>5 DEF MaySweep
    <2> QED
      BY <1>1, <1>3, <1>5, <2>5, <2>6, <2>7, <2>8, <2>9, <2>10 DEF Saves, Sound, PinSwept
  <1> QED
    BY <1>4, <1>5

LEMMA DeleteSound ==
    ASSUME TypeOK, Engaged, NEW r \in Requests, Delete(r)
    PROVE  \E k : Saves(r, job[r].on, k)
  <1> DEFINE c == job[r].on
             k == control[c]
             new == [k EXCEPT !.status = "deleted"]
  <1>1. /\ c \in Controls /\ k \in ControlRows /\ LinkOf(k) \in Present(k) \cup {Nothing}
        /\ r \notin overtaken => job[r].seen = k
    BY DEF Delete, TypeOK, Engaged
  <1>2. /\ Write(r, c, new) /\ More
        /\ run' = IF Effective(job[r].seen) THEN FlagOrg ELSE run
    BY DEF Delete
  <1>3. /\ new \in ControlRows /\ new.status = "deleted"
        /\ new.flag = k.flag /\ new.rows = k.rows /\ new.link = k.link /\ new.pin = k.pin
    BY <1>1 DEF ControlRows, Status
  <1> HIDE DEF new
  <1>4. Sound(new)
    BY <1>1, <1>3 DEF Sound, LinkOf, Present
  <1>5. KeepsEligible(c, new)
    BY <1>3 DEF KeepsEligible, Present
  <1>6. r \notin overtaken => SweptOrSame(c, new)
    BY <1>1, <1>2, <1>3 DEF SweptOrSame, Effective
  <1> QED
    BY <1>2, <1>3, <1>4, <1>5, <1>6 DEF Saves, MaySweep, PinSwept

LEMMA ResyncSound ==
    ASSUME TypeOK, Engaged, NEW r \in Requests, Resync(r)
    PROVE  \E k : Saves(r, job[r].on, k)
  <1> DEFINE c == job[r].on
             seen == job[r].seen
             k == control[c]
             content == Entry[entry]
             link == IF LinkOf(k) \in Filled(content) THEN NewLink(c, LinkOf(k)) ELSE Nothing
             new == [k EXCEPT !.pin = entry, !.rows = NewRows(c, content), !.link = link]
  <1>1. /\ c \in Controls /\ k \in ControlRows /\ k.status # "absent"
        /\ r \notin overtaken => seen = k
        /\ entry \in Nat
    BY DEF Resync, TypeOK, Engaged
  <1>2. content \in Contents
    BY OrgWideAssumption DEF TypeOK
  <1>3. /\ Write(r, c, new) /\ More
        /\ run' = IF Effective(seen) THEN FlagOrg ELSE FlagUsers(c)
        /\ seen.flag => HasMeta(Filled(content))
    BY DEF Resync, ResyncSweep, ResyncAllowed, Eligible
  <1>4. /\ link \in LinkRow \cup {Nothing}
        /\ link # Nothing => link.to \in Filled(content)
    BY <1>1, NewLinkTyped DEF Filled, Sources
  <1>5. NewRows(c, content) \in RowMaps
    BY <1>1, <1>2, NewRowsTyped
  <1> HIDE DEF content, link, c, seen
  <1>6. /\ new \in ControlRows /\ new.rows = NewRows(c, content) /\ new.link = link
        /\ new.flag = k.flag /\ new.status = k.status /\ new.stage = k.stage
    BY <1>1, <1>4, <1>5 DEF ControlRows, RowMaps
  <1> HIDE DEF new
  <1>7. Present(new) = Filled(content)
    BY <1>1, <1>2, <1>6, NewRowsTyped DEF Present, Filled
  <1>8. Sound(new)
    BY <1>1, <1>4, <1>6, <1>7 DEF Sound, LinkOf
  <1>9. r \notin overtaken => KeepsEligible(c, new) /\ SweptOrSame(c, new)
    BY <1>1, <1>3, <1>6, <1>7 DEF KeepsEligible, SweptOrSame, Effective
  <1>10. \E kk : Saves(r, c, kk)
    BY <1>3, <1>8, <1>9 DEF Saves, MaySweep, PinSwept
  <1> QED
    BY <1>10 DEF c
-----------------------------------------------------------------------------
(* The steps, by what they do                                              *)

\* A control is created or adopted.
Arrives(c, k) ==
    /\ control[c].status = "absent"
    /\ control' = [control EXCEPT ![c] = k]
    /\ Sound(k) /\ (k.flag => HasMeta(Present(k)))
    /\ run' = FlagOrg \/ (run' = run /\ ~Effective(k))
    /\ excused' = excused \cup Flying \/ (excused' = excused /\ ~Effective(k))
    /\ More /\ Count
    /\ UNCHANGED <<entry, job, overtaken, torn, refused>>

\* A request ends without having written.
Leaves(r) ==
    /\ overtaken' = overtaken \ {r}
    /\ End(r)
    /\ UNCHANGED <<control, entry, run, excused, torn, refused, writes>>

LEMMA CreateSound ==
    ASSUME TypeOK, NEW c \in Controls, Create(c)
    PROVE  \E k : Arrives(c, k)
  <1>1. PICK flag \in BOOLEAN, at \in Standings, content \in Contents, source \in Sources :
        /\ Eligible(flag, content) /\ LinkValid(content, source)
        /\ LET k == [status |-> at[1], stage |-> at[2], flag |-> flag, pin |-> 0,
                     rows |-> NewRows(c, content), link |-> NewLink(c, source)]
           IN  /\ control' = [control EXCEPT ![c] = k]
               /\ run' = IF Effective(k) THEN FlagOrg ELSE run
    BY DEF Create
  <1> DEFINE k == [status |-> at[1], stage |-> at[2], flag |-> flag, pin |-> 0,
                   rows |-> NewRows(c, content), link |-> NewLink(c, source)]
  <1>2. at[1] \in {"draft", "active", "deleted"} /\ at[2] \in BOOLEAN
    BY OrgWideAssumption
  <1>3. NewLink(c, source) \in LinkRow \cup {Nothing}
    BY NewLinkTyped
  <1>4. k \in ControlRows
    BY <1>2, <1>3, NewRowsTyped DEF ControlRows, Status, RowMaps
  <1>5. Present(k) = Filled(content)
    BY NewRowsTyped DEF Present, Filled
  <1>6. LinkOf(k) \in Filled(content) \cup {Nothing}
    BY <1>1, NewLinkTyped DEF LinkOf, LinkValid
  <1>7. Sound(k) /\ (k.flag => HasMeta(Present(k)))
    BY <1>1, <1>2, <1>4, <1>5, <1>6 DEF Sound, Eligible
  <1>8. control' = [control EXCEPT ![c] = k] /\ run' = IF Effective(k) THEN FlagOrg ELSE run
    BY <1>1
  <1> HIDE DEF k
  <1> QED
    BY <1>7, <1>8 DEF Create, Arrives

LEMMA AdoptSound ==
    ASSUME TypeOK, NEW c \in Controls, Adopt(c)
    PROVE  \E k : Arrives(c, k)
  <1> DEFINE k == [NoControl EXCEPT !.status = "active", !.stage = TRUE, !.pin = entry,
                                    !.rows = NewRows(c, Entry[entry])]
  <1>1. Entry[entry] \in Contents /\ entry \in Nat
    BY OrgWideAssumption DEF TypeOK
  <1>2. NewRows(c, Entry[entry]) \in RowMaps
    BY <1>1, NewRowsTyped
  <1>3. /\ k \in ControlRows /\ k.status = "active" /\ ~k.flag /\ k.link = Nothing
    BY <1>1, <1>2 DEF NoControl, ControlRows, Status, RowMaps
  <1>4. control' = [control EXCEPT ![c] = k]
    BY DEF Adopt
  <1> HIDE DEF k
  <1> QED
    BY <1>3, <1>4 DEF Adopt, Arrives, Sound, LinkOf, Effective

LEMMA Kinds ==
    ASSUME TypeOK, Engaged, Next
    PROVE  \/ \E c \in Controls : \E k : Arrives(c, k)
           \/ \E r \in Requests, c \in Controls : Open(r, c)
           \/ \E r \in Requests : \E k : job[r] # NoJob /\ Saves(r, job[r].on, k)
           \/ \E r \in Requests : Leaves(r)
           \/ Curate
           \/ \E r \in Runs, links \in SUBSET Controls : Freeze(r, links)
           \/ \E r \in Runs : Load(r) \/ Complete(r)
  <1>1. ASSUME NEW r \in Requests, SaveEdit(r) \/ Delete(r) \/ Resync(r)
        PROVE  \/ \E k : job[r] # NoJob /\ Saves(r, job[r].on, k)
               \/ Leaves(r)
    <2>1. job[r] # NoJob
      BY <1>1 DEF SaveEdit, Delete, Resync
    <2>2. (Refuse(r) /\ r \in overtaken) \/ \E k : Saves(r, job[r].on, k)
      BY <1>1, EditSound, DeleteSound, ResyncSound
    <2>3. Refuse(r) /\ r \in overtaken => Leaves(r)
      BY DEF Refuse, Leaves
    <2> QED
      BY <2>1, <2>2, <2>3
  <1>2. ASSUME NEW r \in Requests, GiveUp(r)
        PROVE  Leaves(r)
    BY <1>2 DEF GiveUp, Leaves
  <1> QED
    BY <1>1, <1>2, CreateSound, AdoptSound DEF Next

\* What the sweeps leave in the runs.
LEMMA Swept ==
    ASSUME TypeOK, NEW c, MaySweep(c)
    PROVE  /\ run' \in [Runs -> RunRows]
           /\ \A r \in Runs :
                /\ run'[r].state = run[r].state /\ run'[r].links = run[r].links
                /\ run'[r].inherits = run[r].inherits /\ run'[r].ids = run[r].ids
                /\ run'[r].view = run[r].view /\ run'[r].pin = run[r].pin
                /\ run[r].stale => run'[r].stale
                /\ run[r].state = "completed" =>
                     /\ run' = FlagOrg => run'[r].stale
                     /\ run' = FlagUsers(c) /\ c \in run[r].ids => run'[r].stale
  <1> DEFINE flagged(r) == [run[r] EXCEPT !.stale = TRUE]
  <1>1. ASSUME NEW r \in Runs
        PROVE  /\ flagged(r) \in RunRows /\ run[r] \in RunRows
               /\ flagged(r).state = run[r].state /\ flagged(r).links = run[r].links
               /\ flagged(r).inherits = run[r].inherits /\ flagged(r).ids = run[r].ids
               /\ flagged(r).view = run[r].view /\ flagged(r).pin = run[r].pin
               /\ flagged(r).stale
    BY DEF TypeOK, RunRows
  <1>2. \E S : run' = run \/ run' = [r \in Runs |-> IF r \in S /\ run[r].state = "completed"
                                                    THEN flagged(r) ELSE run[r]]
    BY DEF MaySweep, FlagOrg, FlagUsers, Flagged
  <1>3. \A r \in Runs : run'[r] \in {run[r], flagged(r)}
    BY <1>2
  <1>4. run' \in [Runs -> RunRows]
    BY <1>1, <1>2 DEF TypeOK
  <1>5. ASSUME NEW r \in Runs, run[r].state = "completed"
        PROVE  /\ run' = FlagOrg => run'[r] = flagged(r)
               /\ run' = FlagUsers(c) /\ c \in run[r].ids => run'[r] = flagged(r)
    BY <1>5 DEF FlagOrg, FlagUsers, Flagged
  <1> HIDE DEF flagged
  <1> QED
    BY <1>1, <1>3, <1>4, <1>5

-----------------------------------------------------------------------------
(* Types                                                                   *)

Base == TypeOK /\ Engaged

LEMMA ArrivesBase ==
    ASSUME Base, NEW c \in Controls, NEW k, Arrives(c, k)
    PROVE  Base'
  <1> USE DEF Base
  <1>1. MaySweep(c)
    BY DEF Arrives, MaySweep
  <1>2. /\ control' \in [Controls -> ControlRows]
        /\ \A d \in Controls : LinkOf(control'[d]) \in Present(control'[d]) \cup {Nothing}
    BY DEF Arrives, Sound, TypeOK
  <1>3. run' \in [Runs -> RunRows] /\ \A r \in Runs : run'[r].inherits \subseteq run'[r].ids
    BY <1>1, Swept DEF TypeOK
  <1>4. excused' \subseteq Runs /\ writes' \in 0 .. MaxWrites
    BY OrgWideAssumption DEF Arrives, TypeOK, Flying, Count, More
  <1>5. TypeOK'
    BY <1>2, <1>3, <1>4 DEF Arrives, TypeOK
  <1>6. Engaged'
    BY DEF Arrives, Engaged, TypeOK, Sound
  <1> QED
    BY <1>5, <1>6

LEMMA SavesBase ==
    ASSUME Base, NEW r \in Requests, NEW k, job[r] # NoJob, Saves(r, job[r].on, k)
    PROVE  Base'
  <1> USE DEF Base
  <1> DEFINE c == job[r].on
  <1>1. c \in Controls /\ MaySweep(c) /\ Sound(k) /\ Write(r, c, k) /\ More
    BY DEF TypeOK, Saves
  <1> HIDE DEF c
  <1>2. /\ control' \in [Controls -> ControlRows]
        /\ \A d \in Controls : LinkOf(control'[d]) \in Present(control'[d]) \cup {Nothing}
    BY <1>1 DEF Write, Sound, TypeOK
  <1>3. run' \in [Runs -> RunRows] /\ \A q \in Runs : run'[q].inherits \subseteq run'[q].ids
    BY <1>1, Swept DEF TypeOK
  <1>4. /\ excused' \subseteq Runs /\ writes' \in 0 .. MaxWrites
        /\ overtaken' \subseteq Requests /\ torn' \subseteq Controls
    BY <1>1, OrgWideAssumption DEF Write, TypeOK, Flying, Known, Count, More
  <1>5. /\ job' \in [Requests -> Jobs] /\ job'[r] = NoJob
        /\ \A q \in Requests \ {r} : job'[q] = job[q]
    BY <1>1 DEF Write, End, TypeOK, Jobs, NoJob
  <1>6. TypeOK'
    BY <1>1, <1>2, <1>3, <1>4, <1>5 DEF Write, TypeOK
  <1>7. ASSUME NEW q \in Requests, job'[q] # NoJob
        PROVE  /\ control'[job'[q].on].status # "absent"
               /\ q \notin overtaken' => job'[q].seen = control'[job'[q].on]
    <2>1. q # r /\ job'[q] = job[q] /\ job[q].on \in Controls
      BY <1>5, <1>7 DEF TypeOK
    <2>2. control'[c].status # "absent" /\ \A d \in Controls \ {c} : control'[d] = control[d]
      BY <1>1 DEF Write, Sound, TypeOK
    <2>3. q \notin overtaken' => q \notin overtaken /\ job[q].on # c
      BY <1>1, <2>1 DEF Write
    <2> QED
      BY <1>7, <2>1, <2>2, <2>3 DEF Engaged
  <1> QED
    BY <1>6, <1>7 DEF Engaged

LEMMA RequestBase ==
    ASSUME Base, NEW r \in Requests,
           Leaves(r) \/ \E c \in Controls : Open(r, c)
    PROVE  Base'
  <1> USE DEF Base
  <1>1. CASE Leaves(r)
    <2>1. /\ job' \in [Requests -> Jobs] /\ job'[r] = NoJob
          /\ \A q \in Requests \ {r} : job'[q] = job[q]
      BY <1>1 DEF Leaves, End, TypeOK, Jobs, NoJob
    <2> QED
      BY <1>1, <2>1 DEF Leaves, TypeOK, Engaged
  <1>2. ASSUME NEW c \in Controls, Open(r, c)
        PROVE  Base'
    <2>1. /\ job' \in [Requests -> Jobs] /\ job'[r] = [on |-> c, seen |-> control[c]]
          /\ \A q \in Requests \ {r} : job'[q] = job[q]
      BY <1>2 DEF Open, TypeOK, Jobs
    <2>2. job'[r].on = c /\ job'[r].seen = control[c] /\ control[c] \in ControlRows
      BY <2>1 DEF TypeOK
    <2>3. control[c].status # "absent"
      BY <1>2 DEF Open
    <2> QED
      BY <1>2, <2>1, <2>2, <2>3 DEF Open, TypeOK, Engaged
  <1> QED
    BY <1>1, <1>2

LEMMA InheritedTyped ==
    ASSUME NEW k \in ControlRows
    PROVE  Inherited(k) \in Views
  BY OrgWideAssumption DEF Inherited, Views, ControlRows, Row, LinkOf, SubFns

LEMMA RunTyped ==
    ASSUME TypeOK, NEW r \in Runs,
           Load(r) \/ Complete(r) \/ \E links \in SUBSET Controls : Freeze(r, links)
    PROVE  /\ run'[r] \in RunRows /\ run'[r].inherits \subseteq run'[r].ids
           /\ run' = [run EXCEPT ![r] = run'[r]]
           /\ UNCHANGED <<control, entry, job, overtaken, excused, torn, refused, writes>>
  <1>0. run[r] \in RunRows /\ run[r].inherits \subseteq run[r].ids
    BY DEF TypeOK
  <1>1. CASE Load(r)
    <2> DEFINE view == [c \in Controls |-> IF c \in run[r].inherits
                                           THEN Inherited(control[c]) ELSE Nothing]
               pin == [c \in Controls |-> control[c].pin]
    <2>1. view \in [Controls -> Views \cup {Nothing}] /\ pin \in [Controls -> Nat]
      BY InheritedTyped DEF TypeOK, ControlRows
    <2> HIDE DEF view, pin
    <2>2. run' = [run EXCEPT ![r] =
                    IF Buildable(r)
                    THEN [run[r] EXCEPT !.state = "running", !.view = view, !.pin = pin]
                    ELSE [run[r] EXCEPT !.state = "unbuildable"]]
      BY <1>1 DEF Load, view, pin
    <2>3. run'[r] = IF Buildable(r)
                    THEN [run[r] EXCEPT !.state = "running", !.view = view, !.pin = pin]
                    ELSE [run[r] EXCEPT !.state = "unbuildable"]
      BY <2>2 DEF TypeOK
    <2>4. /\ [run[r] EXCEPT !.state = "running", !.view = view, !.pin = pin] \in RunRows
          /\ [run[r] EXCEPT !.state = "unbuildable"] \in RunRows
      BY <1>0, <2>1 DEF RunRows
    <2>5. run'[r].inherits = run[r].inherits /\ run'[r].ids = run[r].ids
      <3>1. CASE Buildable(r)
        BY <1>0, <2>3, <3>1 DEF RunRows
      <3>2. CASE ~Buildable(r)
        BY <1>0, <2>3, <3>2 DEF RunRows
      <3> QED
        BY <3>1, <3>2
    <2> QED
      BY <1>0, <1>1, <2>2, <2>3, <2>4, <2>5 DEF Load
  <1>2. CASE Complete(r)
    <2>1. run' = [run EXCEPT ![r] = [run[r] EXCEPT !.state = "completed"]]
      BY <1>2 DEF Complete
    <2>2. run'[r] = [run[r] EXCEPT !.state = "completed"]
      BY <2>1 DEF TypeOK
    <2>3. run'[r] \in RunRows /\ run'[r].inherits = run[r].inherits /\ run'[r].ids = run[r].ids
      BY <1>0, <2>2 DEF RunRows
    <2> QED
      BY <1>0, <1>2, <2>1, <2>2, <2>3 DEF Complete
  <1>3. ASSUME NEW links \in SUBSET Controls, Freeze(r, links)
        PROVE  /\ run'[r] \in RunRows /\ run'[r].inherits \subseteq run'[r].ids
               /\ run' = [run EXCEPT ![r] = run'[r]]
    <2> DEFINE inherits == OrgWide \ links
               ids == {c \in links : control[c].stage} \cup inherits
    <2>1. inherits \in SUBSET Controls /\ ids \in SUBSET Controls /\ inherits \subseteq ids
      BY DEF OrgWide
    <2> HIDE DEF inherits, ids
    <2>2. run' = [run EXCEPT ![r] = [run[r] EXCEPT !.state = "queued", !.links = links,
                                                   !.inherits = inherits, !.ids = ids]]
      BY <1>3 DEF Freeze, inherits, ids
    <2>3. run'[r] = [run[r] EXCEPT !.state = "queued", !.links = links,
                                   !.inherits = inherits, !.ids = ids]
      BY <2>2 DEF TypeOK
    <2>4. run'[r] \in RunRows /\ run'[r].inherits = inherits /\ run'[r].ids = ids
      BY <1>0, <2>1, <2>3 DEF RunRows
    <2> QED
      BY <2>1, <2>2, <2>3, <2>4
  <1> QED
    BY <1>1, <1>2, <1>3 DEF Freeze

LEMMA RunBase ==
    ASSUME Base, NEW r \in Runs,
           Load(r) \/ Complete(r) \/ \E links \in SUBSET Controls : Freeze(r, links)
    PROVE  Base'
  <1> USE DEF Base
  <1>1. /\ run'[r] \in RunRows /\ run'[r].inherits \subseteq run'[r].ids
        /\ run' = [run EXCEPT ![r] = run'[r]]
        /\ UNCHANGED <<control, entry, job, overtaken, excused, torn, refused, writes>>
    BY RunTyped
  <1>2. run' \in [Runs -> RunRows] /\ \A q \in Runs : run'[q].inherits \subseteq run'[q].ids
    BY <1>1 DEF TypeOK
  <1> QED
    BY <1>1, <1>2 DEF TypeOK, Engaged

LEMMA BaseInvariant == Spec => []Base
  <1>1. Init => Base
    <2> SUFFICES ASSUME Init
                 PROVE  Base
      OBVIOUS
    <2>1. NoControl \in ControlRows /\ NoRun \in RunRows /\ NoJob \in Jobs
      BY DEF NoControl, ControlRows, Status, NoRun, RunRows, NoJob, Jobs
    <2>2. NoControl.link = Nothing /\ NoRun.inherits = {}
      BY DEF NoControl, NoRun
    <2> QED
      BY <2>1, <2>2, OrgWideAssumption DEF Init, Base, TypeOK, Engaged, LinkOf
  <1>2. ASSUME Base, Next
        PROVE  Base'
    <2>1. CASE Curate
      BY <1>2, <2>1, OrgWideAssumption DEF Curate, Base, TypeOK, Engaged
    <2> QED
      BY <1>2, <2>1, Kinds, ArrivesBase, SavesBase, RequestBase, RunBase DEF Base
  <1>3. Base /\ UNCHANGED vars => Base'
    BY DEF Base, TypeOK, Engaged, vars
  <1> QED
    BY <1>1, <1>2, <1>3, PTL DEF Spec

\* Every variable keeps its type, and a derived row links a row that is there.
THEOREM TypeCorrect == Spec => []TypeOK
  <1>1. Base => TypeOK
    BY DEF Base
  <1> QED
    BY <1>1, BaseInvariant, PTL
-----------------------------------------------------------------------------
(* Refusals and eligibility                                                *)

\* No save that nobody overtook violates a constraint.
THEOREM NoLoneRefusal == Spec => []AloneSaves
  <1>1. Init => AloneSaves
    BY DEF Init, AloneSaves
  <1>2. ASSUME Base, AloneSaves, Next
        PROVE  AloneSaves'
    <2>1. \A r \in Runs : Load(r) \/ Complete(r) \/ (\E links \in SUBSET Controls : Freeze(r, links))
                => refused' = refused
      BY DEF Load, Complete, Freeze
    <2> QED
      BY <1>2, <2>1, Kinds DEF Base, AloneSaves, Arrives, Open, Saves, Write, Leaves, Curate
  <1>3. AloneSaves /\ UNCHANGED vars => AloneSaves'
    BY DEF AloneSaves, vars
  <1> QED
    BY <1>1, <1>2, <1>3, BaseInvariant, PTL DEF Spec

\* A control that is org-wide keeps an inheritable row.
THEOREM FlagNeedsMeta == Spec => []OrgWideEligible
  <1>1. Init => OrgWideEligible
    BY DEF Init, OrgWideEligible, NoControl
  <1>2. ASSUME Base, OrgWideEligible, Next
        PROVE  OrgWideEligible'
    <2> USE <1>2 DEF Base
    <2>1. ASSUME NEW c \in Controls, NEW k, Arrives(c, k)
          PROVE  OrgWideEligible'
      BY <2>1 DEF Arrives, OrgWideEligible, TypeOK, Present
    <2>2. ASSUME NEW r \in Requests, NEW k, job[r] # NoJob, Saves(r, job[r].on, k)
          PROVE  OrgWideEligible'
      <3> DEFINE c == job[r].on
      <3>1. /\ c \in Controls
            /\ control'[c] = k /\ \A d \in Controls \ {c} : control'[d] = control[d]
            /\ torn' = IF r \in overtaken THEN torn \cup {c} ELSE torn
            /\ r \notin overtaken => KeepsEligible(c, k)
        BY <2>2 DEF Saves, Write, TypeOK
      <3> HIDE DEF c
      <3>2. ASSUME NEW d \in Controls \ torn', control'[d].flag
            PROVE  HasMeta(Present(control'[d]))
        <4>1. d \notin torn /\ (d = c => r \notin overtaken)
          BY <3>1, <3>2
        <4>2. CASE d = c
          BY <3>1, <3>2, <4>1, <4>2 DEF OrgWideEligible, KeepsEligible
        <4>3. CASE d # c
          BY <3>1, <3>2, <4>1, <4>3 DEF OrgWideEligible
        <4> QED
          BY <4>2, <4>3
      <3> QED
        BY <3>2 DEF OrgWideEligible, Present
    <2>3. \A r \in Runs : Load(r) \/ Complete(r) \/ (\E links \in SUBSET Controls : Freeze(r, links))
                => UNCHANGED <<control, torn>>
      BY DEF Load, Complete, Freeze
    <2>4. UNCHANGED <<control, torn>> => OrgWideEligible'
      BY DEF OrgWideEligible, Present
    <2> QED
      BY <2>1, <2>2, <2>3, <2>4, Kinds DEF Open, Leaves, Curate
  <1>3. OrgWideEligible /\ UNCHANGED vars => OrgWideEligible'
    BY DEF OrgWideEligible, Present, vars
  <1> QED
    BY <1>1, <1>2, <1>3, BaseInvariant, PTL DEF Spec

-----------------------------------------------------------------------------
(* What runs know of the controls                                          *)

\* What a run of a scenario with these links would inherit now.
InheritedNow(links) ==
    [c \in Controls |-> IF c \in OrgWide \ links THEN Inherited(control[c]) ELSE Nothing]

\* A run's controls are there; and unless a change excuses it, what it froze
\* and loaded is what it would freeze and load now.
RunKnows(r) ==
    /\ run[r].state # "none" => \A c \in run[r].ids : control[c].status # "absent"
    /\ r \notin excused =>
        /\ run[r].state = "queued" =>
              /\ run[r].inherits = OrgWide \ run[r].links
              /\ \A c \in run[r].inherits : HasMeta(Present(control[c]))
        /\ run[r].state = "running" \/ (run[r].state = "completed" /\ ~run[r].stale) =>
              /\ run[r].view = InheritedNow(run[r].links)
              /\ \A c \in run[r].ids : run[r].pin[c] = control[c].pin
        /\ run[r].state # "unbuildable"

RunsKnow == \A r \in Runs : RunKnows(r)

\* A change that leaves what is inherited from the control alone.
LEMMA SameInheritance ==
    ASSUME Base, NEW c \in Controls, NEW k, control' = [control EXCEPT ![c] = k],
           Effective(k) <=> Effective(control[c]),
           Effective(k) => Inherited(k) = Inherited(control[c])
    PROVE  OrgWide' = OrgWide /\ \A links : InheritedNow(links)' = InheritedNow(links)
  <1>1. control'[c] = k /\ \A d \in Controls \ {c} : control'[d] = control[d]
    BY DEF Base, TypeOK
  <1>2. OrgWide' = OrgWide
    BY <1>1 DEF OrgWide
  <1>3. \A d \in OrgWide : Inherited(control'[d]) = Inherited(control[d])
    BY <1>1 DEF OrgWide
  <1>4. ASSUME NEW links
        PROVE  InheritedNow(links)' = InheritedNow(links)
    BY <1>2, <1>3 DEF InheritedNow
  <1> QED
    BY <1>2, <1>4

LEMMA ArrivesKnown ==
    ASSUME Base, RunsKnow, NEW c \in Controls, NEW k, Arrives(c, k), NEW r \in Runs
    PROVE  RunKnows(r)'
  <1>1. MaySweep(c) /\ Sound(k) /\ control' = [control EXCEPT ![c] = k]
    BY DEF Arrives, MaySweep
  <1>2. control'[c] = k /\ \A d \in Controls \ {c} : control'[d] = control[d]
    BY <1>1 DEF Base, TypeOK
  <1>3. /\ run'[r].state = run[r].state /\ run'[r].links = run[r].links
        /\ run'[r].inherits = run[r].inherits /\ run'[r].ids = run[r].ids
        /\ run'[r].view = run[r].view /\ run'[r].pin = run[r].pin
        /\ run[r].stale => run'[r].stale
        /\ run[r].state = "completed" /\ run' = FlagOrg => run'[r].stale
        /\ run[r].inherits \subseteq run[r].ids /\ run[r].ids \subseteq Controls
    BY <1>1, Swept DEF Base, TypeOK, RunRows
  <1>4. ~Effective(control[c]) /\ control[c].status = "absent"
    BY DEF Arrives, Effective
  <1>5. run[r].state # "none" => c \notin run[r].ids
    BY <1>4 DEF RunsKnow, RunKnows
  <1>6. ~Effective(k) => OrgWide' = OrgWide /\ \A links : InheritedNow(links)' = InheritedNow(links)
    BY <1>1, <1>4, SameInheritance
  <1>7. run[r].state # "none" =>
          /\ \A d \in run[r].ids : control'[d] = control[d]
          /\ \A d \in run[r].inherits : control'[d] = control[d]
    BY <1>2, <1>3, <1>5
  <1>8. /\ r \notin excused' => r \notin excused
        /\ r \notin excused' /\ run[r].state \in {"queued", "running"} => ~Effective(k)
        /\ run[r].state = "completed" /\ ~run'[r].stale => ~Effective(k)
    BY <1>3 DEF Arrives, Flying
  <1>9. run'[r].state # "none" => \A d \in run'[r].ids : control'[d].status # "absent"
    BY <1>3, <1>7 DEF RunsKnow, RunKnows
  <1>10. ASSUME r \notin excused', run'[r].state = "queued"
         PROVE  /\ run'[r].inherits = OrgWide' \ run'[r].links
                /\ \A d \in run'[r].inherits : HasMeta(Present(control'[d]))
    BY <1>3, <1>6, <1>7, <1>8, <1>10 DEF RunsKnow, RunKnows
  <1>11. ASSUME r \notin excused',
                run'[r].state = "running" \/ (run'[r].state = "completed" /\ ~run'[r].stale)
         PROVE  /\ run'[r].view = InheritedNow(run[r].links)'
                /\ \A d \in run'[r].ids : run'[r].pin[d] = control'[d].pin
    BY <1>3, <1>6, <1>7, <1>8, <1>11 DEF RunsKnow, RunKnows
  <1>12. r \notin excused' => run'[r].state # "unbuildable"
    BY <1>3, <1>8 DEF RunsKnow, RunKnows
  <1>13. InheritedNow(run[r].links)' = [d \in Controls |->
            IF d \in OrgWide' \ run'[r].links THEN Inherited(control'[d]) ELSE Nothing]
    BY <1>3 DEF InheritedNow
  <1> QED
    BY <1>9, <1>10, <1>11, <1>12, <1>13 DEF RunKnows, InheritedNow, Present, Inherited, LinkOf

LEMMA SavesKnown ==
    ASSUME Base, RunsKnow, NEW q \in Requests, NEW k, job[q] # NoJob, Saves(q, job[q].on, k),
           NEW r \in Runs
    PROVE  RunKnows(r)'
  <1> DEFINE c == job[q].on
  <1>0. c \in Controls
    BY DEF Base, TypeOK
  <1>1. /\ MaySweep(c) /\ Sound(k) /\ control' = [control EXCEPT ![c] = k] /\ PinSwept(c, k)
        /\ q \notin overtaken => SweptOrSame(c, k)
        /\ excused' = excused \cup (IF q \in overtaken THEN Known ELSE Flying)
    BY DEF Saves, Write
  <1> HIDE DEF c
  <1>2. control'[c] = k /\ \A d \in Controls \ {c} : control'[d] = control[d]
    BY <1>0, <1>1 DEF Base, TypeOK
  <1>3. /\ run'[r].state = run[r].state /\ run'[r].links = run[r].links
        /\ run'[r].inherits = run[r].inherits /\ run'[r].ids = run[r].ids
        /\ run'[r].view = run[r].view /\ run'[r].pin = run[r].pin
        /\ run[r].stale => run'[r].stale
        /\ run[r].state = "completed" /\ run' = FlagOrg => run'[r].stale
        /\ run[r].state = "completed" /\ run' = FlagUsers(c) /\ c \in run[r].ids => run'[r].stale
        /\ run[r].inherits \subseteq run[r].ids /\ run[r].ids \subseteq Controls
    BY <1>1, Swept DEF Base, TypeOK, RunRows
  <1>4. run'[r].state # "none" => \A d \in run'[r].ids : control'[d].status # "absent"
    BY <1>1, <1>2, <1>3 DEF RunsKnow, RunKnows, Sound
  <1>5. r \notin excused' =>
          /\ r \notin excused
          /\ run[r].state \notin {"queued", "running", "unbuildable"}
          /\ run[r].state # "none" => q \notin overtaken
    BY <1>1 DEF Flying, Known, RunsKnow, RunKnows
  <1>6. ASSUME r \notin excused', run'[r].state = "completed", ~run'[r].stale
        PROVE  /\ run'[r].view = InheritedNow(run[r].links)'
               /\ \A d \in run'[r].ids : run'[r].pin[d] = control'[d].pin
    <2>1. run' # FlagOrg /\ (run' = FlagUsers(c) => c \notin run[r].ids)
      BY <1>3, <1>6
    <2>2. InheritedNow(run[r].links)' = InheritedNow(run[r].links)
      BY <1>0, <1>1, <1>3, <1>5, <1>6, <2>1, SameInheritance DEF SweptOrSame
    <2>3. \A d \in run[r].ids : control'[d].pin = control[d].pin
      BY <1>1, <1>2, <1>3, <2>1 DEF PinSwept
    <2> QED
      BY <1>3, <1>5, <1>6, <2>2, <2>3 DEF RunsKnow, RunKnows
  <1>7. InheritedNow(run[r].links)' = [d \in Controls |->
            IF d \in OrgWide' \ run'[r].links THEN Inherited(control'[d]) ELSE Nothing]
    BY <1>3 DEF InheritedNow
  <1> QED
    BY <1>3, <1>4, <1>5, <1>6, <1>7 DEF RunKnows, InheritedNow

\* A step that changes no control.
LEMMA SameControls ==
    ASSUME UNCHANGED control, NEW r \in Runs, run'[r].links = run[r].links
    PROVE  OrgWide' = OrgWide /\ InheritedNow(run[r].links)' = InheritedNow(run[r].links)
  <1>1. OrgWide' = OrgWide
    BY DEF OrgWide
  <1>2. InheritedNow(run[r].links)' = [c \in Controls |->
            IF c \in OrgWide' \ run'[r].links THEN Inherited(control'[c]) ELSE Nothing]
    BY DEF InheritedNow
  <1>3. InheritedNow(run[r].links)' = [c \in Controls |->
            IF c \in OrgWide \ run[r].links THEN Inherited(control[c]) ELSE Nothing]
    BY <1>1, <1>2
  <1> QED
    BY <1>1, <1>3 DEF InheritedNow

LEMMA RunStepKnown ==
    ASSUME Base, RunsKnow, NEW r \in Runs,
           Load(r) \/ Complete(r) \/ \E links \in SUBSET Controls : Freeze(r, links)
    PROVE  RunKnows(r)'
  <1>0. /\ run[r] \in RunRows /\ run[r].inherits \subseteq run[r].ids
        /\ UNCHANGED <<control, excused>> /\ OrgWide' = OrgWide
        /\ run'[r].links = run[r].links => InheritedNow(run[r].links)' = InheritedNow(run[r].links)
    <2>1. UNCHANGED <<control, excused>>
      BY RunTyped DEF Base
    <2>2. OrgWide' = OrgWide
      BY <2>1 DEF OrgWide
    <2> QED
      BY <2>1, <2>2, SameControls DEF Base, TypeOK
  <1>1. CASE Load(r) /\ Buildable(r)
    <2> DEFINE view == [c \in Controls |-> IF c \in run[r].inherits
                                           THEN Inherited(control[c]) ELSE Nothing]
               pin == [c \in Controls |-> control[c].pin]
    <2>1. run'[r] = [run[r] EXCEPT !.state = "running", !.view = view, !.pin = pin]
      BY <1>1 DEF Load, Base, TypeOK
    <2>2. run[r].state = "queued"
      BY <1>1 DEF Load
    <2>3. r \notin excused => view = InheritedNow(run[r].links)
      BY <2>2 DEF RunsKnow, RunKnows, InheritedNow
    <2>4. \A c \in run[r].ids : pin[c] = control[c].pin
      BY <1>0 DEF RunRows
    <2> HIDE DEF view, pin
    <2>5. /\ run'[r].state = "running" /\ run'[r].ids = run[r].ids /\ run'[r].links = run[r].links
          /\ run'[r].view = view /\ run'[r].pin = pin
      BY <1>0, <2>1 DEF RunRows
    <2>6. \A c \in run[r].ids : control[c].status # "absent"
      BY <2>2 DEF RunsKnow, RunKnows
    <2>7. r \notin excused => run'[r].view = InheritedNow(run[r].links)'
      BY <1>0, <2>3, <2>5
    <2> QED
      BY <1>0, <2>4, <2>5, <2>6, <2>7 DEF RunKnows
  <1>2. CASE Load(r) /\ ~Buildable(r)
    <2>1. run'[r] = [run[r] EXCEPT !.state = "unbuildable"] /\ run[r].state = "queued"
      BY <1>2 DEF Load, Base, TypeOK
    <2>2. run'[r].state = "unbuildable" /\ run'[r].ids = run[r].ids
      BY <1>0, <2>1 DEF RunRows
    <2>3. r \in excused
      BY <1>2, <2>1 DEF Buildable, RunsKnow, RunKnows
    <2> QED
      BY <1>0, <2>1, <2>2, <2>3 DEF RunKnows, RunsKnow
  <1>3. CASE Complete(r)
    <2>1. run'[r] = [run[r] EXCEPT !.state = "completed"] /\ run[r].state = "running"
      BY <1>3 DEF Complete, Base, TypeOK
    <2>2. /\ run'[r].state = "completed" /\ run'[r].ids = run[r].ids /\ run'[r].links = run[r].links
          /\ run'[r].view = run[r].view /\ run'[r].pin = run[r].pin
      BY <1>0, <2>1 DEF RunRows
    <2>3. InheritedNow(run[r].links)' = InheritedNow(run[r].links)
      BY <1>0, <2>2
    <2> QED
      BY <1>0, <2>1, <2>2, <2>3 DEF RunKnows, RunsKnow
  <1>4. ASSUME NEW links \in SUBSET Controls, Freeze(r, links)
        PROVE  RunKnows(r)'
    <2> DEFINE inherits == OrgWide \ links
               ids == {c \in links : control[c].stage} \cup inherits
    <2>1. /\ run'[r] = [run[r] EXCEPT !.state = "queued", !.links = links,
                                      !.inherits = inherits, !.ids = ids]
          /\ Freezable /\ \A c \in links : control[c].status # "absent"
      BY <1>4 DEF Freeze, Base, TypeOK
    <2>2. /\ \A c \in inherits : HasMeta(Present(control[c]))
          /\ \A c \in ids : control[c].status # "absent"
      BY <2>1 DEF Freezable, OrgWide, Effective
    <2>3. /\ run'[r].state = "queued" /\ run'[r].links = links
          /\ run'[r].inherits = inherits /\ run'[r].ids = ids
      <3> HIDE DEF inherits, ids
      <3> QED
        BY <1>0, <2>1 DEF RunRows
    <2> QED
      BY <1>0, <2>2, <2>3 DEF RunKnows
  <1> QED
    BY <1>1, <1>2, <1>3, <1>4

LEMMA RunsKnowInvariant == Spec => []RunsKnow
  <1>1. Init => RunsKnow
    BY DEF Init, RunsKnow, RunKnows, NoRun
  <1>2. ASSUME Base, RunsKnow, Next
        PROVE  RunsKnow'
    <2>1. UNCHANGED <<control, run, excused>> => RunsKnow'
      BY <1>2, SameControls DEF RunsKnow, RunKnows
    <2>2. ASSUME NEW r \in Runs,
                 Load(r) \/ Complete(r) \/ \E links \in SUBSET Controls : Freeze(r, links)
          PROVE  RunsKnow'
      <3>1. /\ \A q \in Runs \ {r} : run'[q] = run[q]
            /\ UNCHANGED <<control, excused>>
        BY <1>2, <2>2, RunTyped DEF Base, TypeOK
      <3>2. \A q \in Runs \ {r} : RunKnows(q)'
        BY <1>2, <3>1, SameControls DEF RunsKnow, RunKnows
      <3> QED
        BY <1>2, <2>2, <3>2, RunStepKnown DEF RunsKnow
    <2>3. ASSUME \/ \E r \in Requests, c \in Controls : Open(r, c)
                 \/ \E r \in Requests : Leaves(r)
                 \/ Curate
          PROVE  UNCHANGED <<control, run, excused>>
      BY <2>3 DEF Open, Leaves, Curate
    <2>4. ASSUME NEW c \in Controls, NEW k, Arrives(c, k)
          PROVE  RunsKnow'
      BY <1>2, <2>4, ArrivesKnown DEF RunsKnow
    <2>5. ASSUME NEW r \in Requests, NEW k, job[r] # NoJob, Saves(r, job[r].on, k)
          PROVE  RunsKnow'
      BY <1>2, <2>5, SavesKnown DEF RunsKnow
    <2> QED
      BY <1>2, <2>1, <2>2, <2>3, <2>4, <2>5, Kinds DEF Base
  <1>3. RunsKnow /\ UNCHANGED vars => RunsKnow'
    BY SameControls DEF RunsKnow, RunKnows, vars
  <1> QED
    BY <1>1, <1>2, <1>3, BaseInvariant, PTL DEF Spec

\* A completed run that is not flagged inherited what it would inherit now.
THEOREM FlaggedOnInheritance == Spec => []InheritanceFresh
  <1>1. RunsKnow => InheritanceFresh
    BY DEF RunsKnow, RunKnows, InheritedNow, InheritanceFresh
  <1> QED
    BY <1>1, RunsKnowInvariant, PTL

\* One that is not flagged used every control at its present curation.
THEOREM FlaggedOnCuration == Spec => []CurationFresh
  <1>1. RunsKnow => CurationFresh
    BY DEF RunsKnow, RunKnows, CurationFresh
  <1> QED
    BY <1>1, RunsKnowInvariant, PTL

\* A frozen run is built unless a control changed meanwhile.
THEOREM FrozenRunsBuild == Spec => []FrozenBuilds
  <1>1. RunsKnow => FrozenBuilds
    BY DEF RunsKnow, RunKnows, FrozenBuilds
  <1> QED
    BY <1>1, RunsKnowInvariant, PTL
=============================================================================
