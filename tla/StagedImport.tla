------------------------------ MODULE StagedImport ------------------------------
(***************************************************************************)
(* Two-step imports: a file is staged under a token, previewed, and        *)
(* applied by a second request (models/csv_import_preview.py).  The three  *)
(* flows on that table - risk registers (services/register_import.py,      *)
(* services/qualitative_converter.py), scenario files                      *)
(* (services/scenario_import.py) and overlays                              *)
(* (services/overlays_importer.py) - beside the other writers of the rows  *)
(* they read - the organisation's bands (services/qualitative_bands.py),    *)
(* the overlay pages (services/overlays.py) - and the sweep of the table.  *)
(*                                                                         *)
(* A request reads in one or more steps and commits in one.  There is no   *)
(* row lock: FOR UPDATE is ignored on SQLite, and the behaviours under it  *)
(* are among these.  One band label that only the organisation defines     *)
(* stands for all, so that it can cease to be effective.  The staging      *)
(* posts of one register belong to one user and are one step each.         *)
(* The routes that apply scenario files and overlays take any token: which *)
(* flow staged it is asked of registers only, and a file's columns decide. *)
(* Parsing, currencies, technique mappings and audit rows are left out.    *)
(***************************************************************************)
EXTENDS Naturals, Sequences, FiniteSets

CONSTANTS
    Requests,     \* requests in progress at once
    Tokens,       \* preview ids (random, never used twice)
    Names,        \* scenario names, casefolded
    Tags,         \* overlay tags
    Contents,     \* what an overlay says
    Unusable,     \* a row that is parked or has an error
    Nothing,      \* no file, no tag
    Files,        \* what may be uploaded: flow (the page it is uploaded to), form (whose
                  \* columns its header has), rows, content of overlay rows
    MaxCommits,   \* bound: commits that create scenarios or end an import
    MaxVersions,  \* bound: edits of one overlay
    MaxViews      \* bound: changes of the band

Flows == {"register", "scenarios", "overlays"}
Forms == {"scenarios", "overlays", "other"}

\* A register may have any columns; rows that are read as scenarios or as overlays hold
\* names or tags.

ASSUME StagedImportAssumption ==
    /\ {MaxCommits, MaxVersions, MaxViews} \subseteq Nat /\ MaxVersions > 0
    /\ Contents # {} /\ Unusable \notin Names
    /\ Files \subseteq [flow : Flows, form : Forms, rows : Seq(Names \cup Tags \cup {Unusable}),
                       content : Contents]
    /\ \A f \in Files : \A i \in DOMAIN f.rows : f.rows[i] # Unusable =>
         /\ f.flow = "register" \/ f.form = "scenarios" => f.rows[i] \in Names
         /\ f.form = "overlays" => f.rows[i] \in Tags
    /\ Nothing \notin Files \cup Tags \cup Tokens

VARIABLES
    preview,    \* the csv_import_preview row of each token: its file and state_json
    scenarios,  \* the scenarios that are there, with their conversion_metadata
    band,       \* the organisation's last band row of the label
    overlays,   \* per tag the overlay_definitions row (version 0: none)
    revisions,  \* overlay_definition_revisions
    pc, job,    \* what each request is doing, and what it has read
    clock,      \* commits so far
    confirms,   \* the confirmations that committed: when they read, when they ended
    views       \* the band versions that have been effective (0: no band)

vars == <<preview, scenarios, band, overlays, revisions, pc, job, clock, confirms, views>>

catalogue == <<overlays, revisions>>
bands == <<band, views>>
imports == <<preview, scenarios, clock, confirms>>

\* How far a register's state_json has come; another file is complete at once.
Stages == {"new", "uploaded", "mapped", "bound", "gone"}
Previews == [stage : Stages, file : Files \cup {Nothing}]
Overlays == [version : 0 .. MaxVersions, active : BOOLEAN, content : Contents]
Places == {"idle", "bound", "pinned", "classified", "valued", "scenarios", "named", "overlays",
           "tagged", "editing", "banding"}
Revisions == [tag : Tags, version : Nat, content : Contents]
Scenarios == [name : Names, row : Nat, at : Nat, seen : Nat, status : {"draft", "active"},
              pin : Nat, from : Nat, used : Nat]
Jobs == [token : Tokens \cup {Nothing}, file : Files \cup {Nothing}, read : Nat, seen : Nat, rows : SUBSET Nat, pin : Nat,
         from : Nat, used : Nat, tag : Tags \cup {Nothing}, saw : [Tags -> Overlays] \cup {Nothing}]
NoJob == [token |-> Nothing, file |-> Nothing, read |-> 0, seen |-> 0, rows |-> {}, pin |-> 0, from |-> 0,
          used |-> 0, tag |-> Nothing, saw |-> Nothing]

Begin(r, op, j) ==
    /\ pc[r] = "idle"
    /\ pc' = [pc EXCEPT ![r] = op]
    /\ job' = [job EXCEPT ![r] = j]

Continue(r, from, to, j) ==
    /\ pc[r] = from
    /\ pc' = [pc EXCEPT ![r] = to]
    /\ job' = [job EXCEPT ![r] = j]

End(r) == pc' = [pc EXCEPT ![r] = "idle"] /\ job' = [job EXCEPT ![r] = NoJob]

File(r) == job[r].file
Effective == band.live
Version == IF band.live THEN band.version ELSE 0
Changed == Len(views) < MaxViews
SetBand(b) == band' = b /\ views' = Append(views, IF b.live THEN b.version ELSE 0)

----------------------------------------------------------------------------
(* Staging.                                                                *)

Stage(t, stage, f) ==
    /\ preview' = [preview EXCEPT ![t] = [stage |-> stage, file |-> f]]
    /\ UNCHANGED <<scenarios, clock, confirms, pc, job, catalogue, bands>>

Upload(t, f) == preview[t].stage = "new" /\ Stage(t, "uploaded", f)

Staged(t) == preview[t].file # Nothing
Advance(t, stage) ==
    Staged(t) /\ preview[t].file.flow = "register" /\ Stage(t, stage, preview[t].file)

\* Value bindings made for other columns stay, and may cover the new ones.
SetColumnMap(t) == Advance(t, "mapped") \/ (preview[t].stage = "bound" /\ Advance(t, "bound"))

SetValueBindings(t) == preview[t].stage \in {"mapped", "bound"} /\ Effective /\ Advance(t, "bound")

\* A binding to a band that is gone is left out; an old profile may lack the columns.
ApplyProfile(t) ==
    \E mapped \in BOOLEAN :
        LET columns == mapped \/ preview[t].stage \in {"mapped", "bound"}
        IN  Advance(t, IF ~ columns THEN "uploaded" ELSE IF Effective THEN "bound" ELSE "mapped")

\* Past its TTL a row is deleted by the sweep, or by the request that meets it.  A request
\* that has loaded it before goes on.
Expire(t) == Staged(t) /\ Stage(t, "gone", Nothing)

----------------------------------------------------------------------------
(* Confirmation.  All of a file's rows, and the end of its token, commit    *)
(* together; a DELETE that matches no row only warns.                       *)

Reading(t) == [NoJob EXCEPT !.token = t, !.file = preview[t].file, !.read = clock]

\* Bug: the preview row stays.
KeepToken(r) ==
    /\ clock < MaxCommits
    /\ clock' = clock + 1
    /\ confirms' = confirms \cup {[token |-> job[r].token, read |-> job[r].read, at |-> clock + 1]}
    /\ End(r)
    /\ UNCHANGED preview
Consume(r) ==
    /\ clock < MaxCommits
    /\ clock' = clock + 1
    /\ preview' = [preview EXCEPT ![job[r].token] = [stage |-> "gone", file |-> Nothing]]
    /\ confirms' = confirms \cup {[token |-> job[r].token, read |-> job[r].read, at |-> clock + 1]}
    /\ End(r)

\* Bug: the names of ACTIVE scenarios only.
ActiveNames == {s.name : s \in {x \in scenarios : x.status = "active"}}
TakenNames == {s.name : s \in scenarios}
ConvertedRows == {s.row : s \in {x \in scenarios : x.from # 0}}

\* The rows to create: of usable rows with a free name, the first of each name.
FreshRows(file, taken, converted) ==
    LET Free == {i \in DOMAIN file.rows : file.rows[i] \notin taken \cup {Unusable} /\ i \notin converted}
    IN  {i \in Free : \A j \in Free : j < i => file.rows[j] # file.rows[i]}

NewScenario(r, i) ==
    [name |-> File(r).rows[i], row |-> i, at |-> clock + 1, seen |-> job[r].seen,
     status |-> "active", pin |-> 0, from |-> 0, used |-> 0]

\* With the row it came from and the band version in its conversion_metadata.
ConvertedScenario(r, i) ==
    [name |-> File(r).rows[i], row |-> i, at |-> clock + 1, seen |-> job[r].seen,
     status |-> "draft", pin |-> job[r].pin, from |-> job[r].from, used |-> job[r].used]

\* get_staged and build_bound_rows: every binding must name an effective band.
StartConvert(r, t) ==
    /\ preview[t].stage = "bound" /\ Effective
    /\ Begin(r, "bound", [Reading(t) EXCEPT !.from = Len(views)])
    /\ UNCHANGED <<imports, catalogue, bands>>

\* Bug: the canonical versions only.
CanonicalOnly(r) ==
    /\ Continue(r, "bound", "pinned", job[r])
    /\ UNCHANGED <<imports, catalogue, bands>>
MappingVersions(r) ==
    /\ Continue(r, "bound", "pinned", [job[r] EXCEPT !.pin = Version])
    /\ UNCHANGED <<imports, catalogue, bands>>

\* Without its band a row is an error.
ClassifyRows(r) ==
    /\ Continue(r, "pinned", "classified",
         [job[r] EXCEPT !.seen = clock,
             !.rows = IF Effective THEN FreshRows(File(r), TakenNames, ConvertedRows) ELSE {}])
    /\ UNCHANGED <<imports, catalogue, bands>>

\* The bands are read again, for their values; a label that has gone since raises (Fail).
LoadValues(r) ==
    /\ job[r].rows # {} => Effective
    /\ Continue(r, "classified", "valued", [job[r] EXCEPT !.used = Len(views)])
    /\ UNCHANGED <<imports, catalogue, bands>>

Convert(r) ==
    /\ pc[r] = "valued"
    /\ Consume(r)
    /\ \E saved \in SUBSET job[r].rows :     \* a row may fail in its savepoint
         scenarios' = scenarios \cup {ConvertedScenario(r, i) : i \in saved}
    /\ UNCHANGED <<catalogue, bands>>

\* Only the header tells a scenario file from another.  Bug: it is not looked at.
AnyColumns(f) == TRUE
ScenarioFile(f) == f.form = "scenarios"

\* Any token, whichever flow staged it.
StartScenarioImport(r, t) ==
    /\ Staged(t)
    /\ Begin(r, "scenarios", Reading(t))
    /\ UNCHANGED <<imports, catalogue, bands>>

CheckNames(r) ==
    /\ Continue(r, "scenarios", "named",
         [job[r] EXCEPT !.seen = clock, !.rows = FreshRows(File(r), TakenNames, {})])
    /\ ScenarioFile(File(r))
    /\ UNCHANGED <<imports, catalogue, bands>>

ApplyScenarios(r) ==
    /\ pc[r] = "named"
    /\ Consume(r)
    /\ \E saved \in SUBSET job[r].rows : scenarios' = scenarios \cup {NewScenario(r, i) : i \in saved}
    /\ UNCHANGED <<catalogue, bands>>

OverlayFile(f) == f.form = "overlays"

\* Any token here, too.
StartOverlayImport(r, t) ==
    /\ Staged(t)
    /\ Begin(r, "overlays", Reading(t))
    /\ UNCHANGED <<imports, catalogue, bands>>

CheckTags(r) ==
    /\ Continue(r, "overlays", "tagged", [job[r] EXCEPT !.saw = overlays])
    /\ OverlayFile(File(r))
    /\ UNCHANGED <<imports, catalogue, bands>>

\* A file that cannot be read creates nothing; its token is spent all the same.
HardStop(r) ==
    /\ \/ pc[r] = "scenarios" /\ ~ ScenarioFile(File(r))
       \/ pc[r] = "overlays" /\ ~ OverlayFile(File(r))
    /\ Consume(r)
    /\ UNCHANGED <<scenarios, catalogue, bands>>

\* Everything that ends a request without a commit: an exception, a lost connection, a crash.
Fail(r) ==
    /\ pc[r] # "idle"
    /\ End(r)
    /\ UNCHANGED <<imports, catalogue, bands>>

----------------------------------------------------------------------------
(* Overlays.  UPDATE writes the changed columns and the version by primary  *)
(* key; uq_overlay_revision refuses a second revision of one version, and   *)
(* uq_overlay_per_org_tag a second row of one tag.                          *)

\* Bug: no uq_overlay_revision.
NoConstraint(tag, v) == FALSE
HasRevision(tag, v) == \E rev \in revisions : rev.tag = tag /\ rev.version = v

\* The tags in write are new, or get the revision after the one in saw.
WriteOverlays(write, saw, content) ==
    /\ \A tag \in write : ~ HasRevision(tag, saw[tag].version + 1) /\ saw[tag].version < MaxVersions
    /\ overlays' = [tag \in Tags |->
         IF tag \notin write THEN overlays[tag]
         ELSE [version |-> saw[tag].version + 1, content |-> content,
               active |-> saw[tag].version = 0 \/ overlays[tag].active]]
    /\ revisions' = revisions \cup
         {[tag |-> tag, version |-> saw[tag].version + 1, content |-> content] : tag \in write}

\* Deactivated tags are row errors, rows without a difference write nothing.
ApplyOverlays(r) ==
    /\ pc[r] = "tagged"
    /\ Consume(r)
    /\ LET saw == job[r].saw
           content == File(r).content
       IN  WriteOverlays({tag \in {File(r).rows[i] : i \in DOMAIN File(r).rows} \ {Unusable} :
                             \/ saw[tag].version = 0
                             \/ saw[tag].active /\ saw[tag].content # content}, saw, content)
    /\ UNCHANGED <<scenarios, bands>>

CreateOverlay(tag, content) ==
    /\ overlays[tag].version = 0
    /\ WriteOverlays({tag}, overlays, content)
    /\ UNCHANGED <<imports, pc, job, bands>>

\* The version in the form is the one of the row that is loaded, else 409.
EditOverlay(r, tag) ==
    /\ overlays[tag].version > 0
    /\ Begin(r, "editing", [NoJob EXCEPT !.tag = tag, !.saw = overlays])
    /\ UNCHANGED <<imports, catalogue, bands>>

SaveOverlay(r, content) ==
    /\ pc[r] = "editing" /\ content # job[r].saw[job[r].tag].content
    /\ WriteOverlays({job[r].tag}, job[r].saw, content)
    /\ End(r)
    /\ UNCHANGED <<imports, bands>>

DeactivateOverlay(tag) ==
    /\ overlays[tag].active
    /\ overlays' = [overlays EXCEPT ![tag].active = FALSE]
    /\ UNCHANGED <<revisions, imports, pc, job, bands>>

----------------------------------------------------------------------------
(* The organisation's band.  An edit writes the row it has loaded, also one *)
(* that is tombstoned by now; a band made anew is another row.              *)

CreateOrgBand ==
    /\ ~ band.live /\ Changed
    /\ SetBand([live |-> TRUE, id |-> Len(views) + 1, version |-> 1])
    /\ UNCHANGED <<imports, pc, job, catalogue>>

LoadOrgBand(r) ==
    /\ band.live
    /\ Begin(r, "banding", [NoJob EXCEPT !.from = band.id, !.pin = band.version])
    /\ UNCHANGED <<imports, catalogue, bands>>

UpdateOrgBand(r) ==
    /\ pc[r] = "banding"
    /\ End(r)
    /\ \/ /\ band.live /\ band.id = job[r].from /\ Changed
          /\ SetBand([band EXCEPT !.version = job[r].pin + 1])
       \/ /\ ~ (band.live /\ band.id = job[r].from)
          /\ UNCHANGED bands
    /\ UNCHANGED <<imports, catalogue>>

DeleteOrgBand ==
    /\ band.live /\ Changed
    /\ SetBand([band EXCEPT !.live = FALSE])
    /\ UNCHANGED <<imports, pc, job, catalogue>>

----------------------------------------------------------------------------
\* The content of an overlay that is not there is of no account.
NoOverlay == [version |-> 0, active |-> FALSE, content |-> CHOOSE c \in Contents : TRUE]
Seeded == [version |-> 1, active |-> TRUE, content |-> NoOverlay.content]

Authored(n) ==
    [name |-> n, row |-> 0, at |-> 0, seen |-> 0, status |-> "draft", pin |-> 0, from |-> 0, used |-> 0]

\* The organisation may have scenarios, a band and seeded overlays before.
Init ==
    /\ preview = [t \in Tokens |-> [stage |-> "new", file |-> Nothing]]
    /\ \E known \in SUBSET Names : scenarios = {Authored(n) : n \in known}
    /\ clock = 0 /\ confirms = {}
    /\ \/ band = [live |-> FALSE, id |-> 0, version |-> 0] /\ views = <<0>>
       \/ band = [live |-> TRUE, id |-> 1, version |-> 1] /\ views = <<1>>
    /\ \E seeded \in {{}, Tags} :
         /\ overlays = [tag \in Tags |-> IF tag \in seeded THEN Seeded ELSE NoOverlay]
         /\ revisions = {[tag |-> tag, version |-> 1, content |-> Seeded.content] : tag \in seeded}
    /\ pc = [r \in Requests |-> "idle"]
    /\ job = [r \in Requests |-> NoJob]

Staging(t) ==
    \/ \E f \in Files : Upload(t, f)
    \/ SetColumnMap(t) \/ SetValueBindings(t) \/ ApplyProfile(t) \/ Expire(t)

Confirming(r) ==
    \/ \E t \in Tokens : StartConvert(r, t) \/ StartScenarioImport(r, t) \/ StartOverlayImport(r, t)
    \/ MappingVersions(r) \/ ClassifyRows(r) \/ LoadValues(r) \/ Convert(r)
    \/ CheckNames(r) \/ ApplyScenarios(r) \/ CheckTags(r) \/ ApplyOverlays(r)
    \/ HardStop(r) \/ Fail(r)

Editing ==
    \/ \E tag \in Tags : DeactivateOverlay(tag) \/ \E c \in Contents : CreateOverlay(tag, c)
    \/ \E r \in Requests :
         \/ \E tag \in Tags : EditOverlay(r, tag)
         \/ \E c \in Contents : SaveOverlay(r, c)
         \/ LoadOrgBand(r) \/ UpdateOrgBand(r)
    \/ CreateOrgBand \/ DeleteOrgBand

Next == (\E t \in Tokens : Staging(t)) \/ (\E r \in Requests : Confirming(r)) \/ Editing

Spec == Init /\ [][Next]_vars

----------------------------------------------------------------------------
(* Properties.                                                             *)

\* Every variable has its type: previews, scenarios, the band, overlays with their
\* revisions, and what each request has read.
TypeOK ==
    /\ preview \in [Tokens -> Previews]
    /\ scenarios \subseteq Scenarios
    /\ band \in [live : BOOLEAN, id : Nat, version : Nat]
    /\ overlays \in [Tags -> Overlays] /\ revisions \subseteq Revisions
    /\ pc \in [Requests -> Places] /\ job \in [Requests -> Jobs]
    /\ clock \in 0 .. MaxCommits /\ views \in Seq(Nat)
    /\ confirms \subseteq [token : Tokens, read : Nat, at : Nat]

\* An import repeats no name that was there, in any status, when it read the names, nor
\* one of its own file; and a register row is converted once, whatever it is called, in
\* whichever upload it comes again.  What remains is an import that overlaps another.
NoBlindDuplicate ==
    \A s, x \in scenarios :
        (s # x /\ (x.at <= s.seen \/ x.at = s.at) /\ s.seen < s.at) =>
            /\ s.name # x.name
            /\ s.from # 0 /\ x.from # 0 => s.row # x.row

\* A token is good for one confirmation: one that begins after another of the same
\* token has committed does nothing, whatever the file created.
TokenSpent ==
    \A c, d \in confirms : (c.token = d.token /\ c.at < d.at) => d.read < c.at

\* The band version kept with a converted scenario was the effective one at some moment
\* of its conversion, no later than the read of its values: these are of that moment or of
\* a later one.
ProvenanceInTime ==
    \A s \in scenarios : s.from # 0 => \E g \in s.from .. s.used : views[g] = s.pin

\* What get_staged says of the flows: "a register-import token would be rejected by
\* services/scenario_import.py".  It is not; no run checks this (see the README).
FlowsApart ==
    \A r \in Requests :
        /\ pc[r] \in {"scenarios", "named"} => File(r).flow = "scenarios"
        /\ pc[r] \in {"overlays", "tagged"} => File(r).flow = "overlays"

\* An overlay of version v has exactly the revisions 1 to v, and the last says what the
\* row says: edits and imports that overlap never lose a revision or share a number.
HistoryWhole ==
    \A tag \in Tags :
        LET mine == {rev \in revisions : rev.tag = tag}
        IN  /\ {rev.version : rev \in mine} = 1 .. overlays[tag].version
            /\ Cardinality(mine) = overlays[tag].version
            /\ overlays[tag].version > 0 =>
                 [tag |-> tag, version |-> overlays[tag].version, content |-> overlays[tag].content] \in mine
=============================================================================
