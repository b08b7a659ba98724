------------------------ MODULE StagedImportProofs ------------------------
(***************************************************************************)
(* Proofs about StagedImport for any files, names, tags, tokens, requests  *)
(* and bounds.  What a request has read stays true in one respect each: a  *)
(* consumed token was read before, a name was free at a clock reading, a   *)
(* version was effective at a point of the band's history, an overlay had  *)
(* at most its present version.  These are the parts of Inv.               *)
(***************************************************************************)
EXTENDS StagedImport, FiniteSetTheorems, TLAPS

Converting == {"bound", "pinned", "classified", "valued"}
Importing == {"scenarios", "named"}
Applying == {"overlays", "tagged"}
Reads == Converting \cup Importing \cup Applying

\* Rows that may be converted or imported are names.
NameFile(f) == f.flow = "register" \/ ScenarioFile(f)

\* A request in progress has a file, whatever it is at first; before it chooses rows, or
\* looks up tags, it is one that can be read so.
JobOK(r) ==
    /\ pc[r] \in Reads => job[r].token \in Tokens /\ File(r) \in Files
    /\ pc[r] \in Converting => File(r).flow = "register"
    /\ pc[r] = "named" => ScenarioFile(File(r))
    /\ pc[r] = "tagged" => OverlayFile(File(r))
    /\ pc[r] \in {"classified", "valued", "named"} =>
         \A i \in job[r].rows : i \in DOMAIN File(r).rows /\ File(r).rows[i] \in Names
    /\ pc[r] \in {"tagged", "editing"} => job[r].saw \in [Tags -> Overlays]
    /\ pc[r] = "editing" => job[r].tag \in Tags

\* Only a register is mapped and bound; a token without a row has no file.
PreviewOK(t) ==
    /\ preview[t].stage \in {"mapped", "bound"} => Staged(t) /\ preview[t].file.flow = "register"
    /\ preview[t].stage \in {"new", "gone"} => preview[t].file = Nothing

TypeInv ==
    /\ TypeOK
    /\ \A r \in Requests : JobOK(r)
    /\ \A t \in Tokens : PreviewOK(t)

\* A row of a file has a place in it, and says what its columns may say.
LEMMA FileFacts ==
    ASSUME NEW f \in Files
    PROVE  /\ f.content \in Contents
           /\ DOMAIN f.rows \subseteq Nat \ {0}
           /\ \A i \in DOMAIN f.rows : f.rows[i] # Unusable =>
                /\ NameFile(f) => f.rows[i] \in Names
                /\ OverlayFile(f) => f.rows[i] \in Tags
<1>1. f \in [flow : Flows, form : Forms, rows : Seq(Names \cup Tags \cup {Unusable}), content : Contents]
  BY StagedImportAssumption
<1>2. DOMAIN f.rows = 1 .. Len(f.rows) /\ Len(f.rows) \in Nat
  BY <1>1
<1> QED BY <1>1, <1>2, StagedImportAssumption DEF NameFile, ScenarioFile, OverlayFile

\* The rows to create are usable, unknown, and of different names.
LEMMA FreshFacts ==
    ASSUME NEW f \in Files, NameFile(f), NEW taken, NEW converted
    PROVE  \A i \in FreshRows(f, taken, converted) :
             /\ i \in Nat \ {0} /\ i \in DOMAIN f.rows /\ i \notin converted
             /\ f.rows[i] \in Names /\ f.rows[i] \notin taken
             /\ \A j \in FreshRows(f, taken, converted) : i # j => f.rows[i] # f.rows[j]
<1> DEFINE Free == {i \in DOMAIN f.rows : f.rows[i] \notin taken \cup {Unusable} /\ i \notin converted}
           Fresh == {i \in Free : \A j \in Free : j < i => f.rows[j] # f.rows[i]}
<1>1. FreshRows(f, taken, converted) = Fresh
  BY DEF FreshRows
<1>2. \A i \in Free : /\ i \in Nat \ {0} /\ i \in DOMAIN f.rows /\ i \notin converted
                      /\ f.rows[i] \in Names /\ f.rows[i] \notin taken
  BY FileFacts
<1>3. \A i, j \in Fresh : i # j => f.rows[i] # f.rows[j]
  <2> SUFFICES ASSUME NEW i \in Fresh, NEW j \in Fresh, i # j PROVE f.rows[i] # f.rows[j]
    OBVIOUS
  <2>1. i < j \/ j < i
    BY <1>2
  <2> QED BY <2>1
<1> QED BY <1>1, <1>2, <1>3

\* A request moves on with what it has read.
LEMMA Moved ==
    ASSUME TypeOK, NEW r \in Requests, NEW p \in Places, NEW j \in Jobs,
           pc' = [pc EXCEPT ![r] = p], job' = [job EXCEPT ![r] = j]
    PROVE  /\ pc' \in [Requests -> Places] /\ job' \in [Requests -> Jobs]
           /\ pc'[r] = p /\ job'[r] = j
           /\ \A q \in Requests \ {r} : pc'[q] = pc[q] /\ job'[q] = job[q]
BY DEF TypeOK

LEMMA NoJobTyped == NoJob \in Jobs
BY DEF NoJob, Jobs

\* What a request does before it commits: it reads.
ReadsOn(r) ==
    \/ \E t \in Tokens : StartConvert(r, t) \/ StartScenarioImport(r, t) \/ StartOverlayImport(r, t)
    \/ MappingVersions(r) \/ ClassifyRows(r) \/ LoadValues(r) \/ CheckNames(r) \/ CheckTags(r)
    \/ \E tag \in Tags : EditOverlay(r, tag)
    \/ LoadOrgBand(r)

\* Nobody but r has moved, to p with j.
Goes(r, p, j) ==
    /\ p \in Places /\ j \in Jobs
    /\ pc' = [pc EXCEPT ![r] = p] /\ job' = [job EXCEPT ![r] = j]

\* What r knows by a step that reads: a preview that is staged, the bands, the rows that
\* are fresh, the overlays, each as they are now.
Learns(r) ==
    /\ pc'[r] \in Reads =>
         \/ pc[r] \in Reads /\ job'[r].token = job[r].token /\ job'[r].read = job[r].read
         \/ Staged(job'[r].token) /\ job'[r].read = clock
    /\ pc'[r] = "bound" => job'[r].from = Len(views)
    /\ pc'[r] = "pinned" =>
         pc[r] = "bound" /\ job'[r].from = job[r].from /\ job'[r].pin = Version
    /\ pc'[r] = "classified" =>
         /\ pc[r] = "pinned" /\ job'[r].from = job[r].from /\ job'[r].pin = job[r].pin
         /\ job'[r].seen = clock /\ job'[r].file = job[r].file
         /\ job'[r].rows \subseteq FreshRows(File(r), TakenNames, ConvertedRows)
    /\ pc'[r] = "valued" =>
         /\ pc[r] = "classified" /\ job'[r].from = job[r].from /\ job'[r].pin = job[r].pin
         /\ job'[r].seen = job[r].seen /\ job'[r].file = job[r].file /\ job'[r].rows = job[r].rows
         /\ job'[r].used = Len(views)
    /\ pc'[r] = "named" =>
         /\ pc[r] = "scenarios" /\ ScenarioFile(File(r)) /\ job'[r].seen = clock /\ job'[r].file = job[r].file
         /\ job'[r].rows \subseteq FreshRows(File(r), TakenNames, {})
    /\ pc'[r] \in {"tagged", "editing"} => job'[r].saw = overlays

LEMMA ReadingTyped ==
    ASSUME TypeInv, NEW t \in Tokens, Staged(t)
    PROVE  /\ Reading(t) \in Jobs /\ preview[t].file \in Files
           /\ Reading(t).token = t /\ Reading(t).file = preview[t].file
           /\ Reading(t).read = clock
<1>1. preview[t].file \in Files /\ clock \in Nat
  BY StagedImportAssumption DEF TypeInv, TypeOK, Previews, Staged
<1> QED BY <1>1, NoJobTyped DEF Reading, NoJob, Jobs

LEMMA ReadsOnTyped ==
    ASSUME TypeInv, NEW r \in Requests, ReadsOn(r)
    PROVE  /\ UNCHANGED <<imports, catalogue, bands>>
           /\ \E p \in Places, j \in Jobs : Goes(r, p, j)
           /\ JobOK(r)' /\ Learns(r)
<1> DEFINE Good(p, j) == Goes(r, p, j) /\ JobOK(r)' /\ Learns(r) /\ UNCHANGED <<imports, catalogue, bands>>
<1> USE DEF TypeInv
<1>0. TypeOK /\ job[r] \in Jobs /\ JobOK(r) /\ Len(views) \in Nat /\ clock \in Nat
  BY StagedImportAssumption DEF TypeOK
<1>1. ASSUME NEW t \in Tokens, StartConvert(r, t) PROVE \E p \in Places, j \in Jobs : Good(p, j)
  <2> DEFINE j == [Reading(t) EXCEPT !.from = Len(views)]
  <2>1. Staged(t) /\ preview[t].file.flow = "register"
    BY <1>1 DEF StartConvert, PreviewOK
  <2>2. /\ j \in Jobs /\ j.token = t /\ j.file = preview[t].file /\ j.file \in Files
        /\ j.read = clock /\ j.from = Len(views)
    BY <2>1, <1>0, ReadingTyped DEF Jobs
  <2>3. Goes(r, "bound", j) /\ UNCHANGED <<imports, catalogue, bands>>
    BY <1>1, <2>2 DEF StartConvert, Begin, Goes, Places
  <2>4. pc'[r] = "bound" /\ job'[r] = j
    BY <2>2, <2>3, <1>0, Moved DEF Goes
  <2>5. JobOK(r)'
    BY <2>1, <2>2, <2>4 DEF JobOK, File, Staged, Reads, Converting, Importing, Applying
  <2>6. Learns(r)
    BY <1>0, <2>1, <2>2, <2>3, <2>4 DEF Learns, Reads, Converting, Importing, Applying
  <2> QED BY <2>2, <2>3, <2>5, <2>6 DEF Places
<1>2. ASSUME NEW t \in Tokens, NEW p \in {"scenarios", "overlays"},
             Staged(t), Begin(r, p, Reading(t)), UNCHANGED <<imports, catalogue, bands>>
      PROVE  \E q \in Places, j \in Jobs : Good(q, j)
  <2> DEFINE j == Reading(t)
  <2>1. /\ j \in Jobs /\ j.token = t /\ j.file = preview[t].file /\ j.file \in Files
        /\ j.read = clock
    BY <1>2, ReadingTyped
  <2>2. Goes(r, p, j)
    BY <1>2, <2>1 DEF Begin, Goes, Places
  <2>3. pc'[r] = p /\ job'[r] = j
    BY <2>1, <2>2, <1>0, Moved DEF Goes
  <2>4. JobOK(r)'
    BY <1>2, <2>1, <2>3 DEF JobOK, File, Reads, Converting, Importing, Applying
  <2>5. Learns(r)
    BY <1>0, <1>2, <2>1, <2>2, <2>3 DEF Learns, Reads, Converting, Importing, Applying
  <2> QED BY <1>2, <2>1, <2>2, <2>4, <2>5 DEF Places
<1>10. ASSUME NEW t \in Tokens, StartScenarioImport(r, t) \/ StartOverlayImport(r, t)
       PROVE  \E p \in Places, j \in Jobs : Good(p, j)
  BY <1>2, <1>10 DEF StartScenarioImport, StartOverlayImport
<1>11. ASSUME LoadValues(r) PROVE \E p \in Places, j \in Jobs : Good(p, j)
  <2> DEFINE j == [job[r] EXCEPT !.used = Len(views)]
  <2>1. /\ j \in Jobs /\ j.token = job[r].token /\ j.file = job[r].file /\ j.rows = job[r].rows
        /\ j.read = job[r].read /\ j.from = job[r].from /\ j.pin = job[r].pin
        /\ j.seen = job[r].seen /\ j.used = Len(views)
    BY <1>0 DEF Jobs
  <2>2. Goes(r, "valued", j) /\ UNCHANGED <<imports, catalogue, bands>> /\ pc[r] = "classified"
    BY <1>11, <2>1 DEF LoadValues, Continue, Goes, Places
  <2>3. pc'[r] = "valued" /\ job'[r] = j
    BY <2>1, <2>2, <1>0, Moved DEF Goes
  <2>4. JobOK(r)'
    BY <1>0, <2>1, <2>2, <2>3 DEF JobOK, File, Reads, Converting, Importing, Applying
  <2>5. Learns(r)
    BY <1>0, <2>1, <2>2, <2>3 DEF Learns, Reads, Converting, Importing, Applying
  <2> QED BY <2>1, <2>2, <2>4, <2>5 DEF Places
<1>3. ASSUME MappingVersions(r) PROVE \E p \in Places, j \in Jobs : Good(p, j)
  <2> DEFINE j == [job[r] EXCEPT !.pin = Version]
  <2>1. Version \in Nat
    BY DEF Version, TypeOK
  <2>2. /\ j \in Jobs /\ j.token = job[r].token /\ j.file = job[r].file
        /\ j.read = job[r].read /\ j.from = job[r].from /\ j.pin = Version
    BY <2>1, <1>0 DEF Jobs
  <2>3. Goes(r, "pinned", j) /\ UNCHANGED <<imports, catalogue, bands>> /\ pc[r] = "bound"
    BY <1>3, <2>2 DEF MappingVersions, Continue, Goes, Places
  <2>4. pc'[r] = "pinned" /\ job'[r] = j
    BY <2>2, <2>3, <1>0, Moved DEF Goes
  <2>5. JobOK(r)'
    BY <1>0, <2>2, <2>3, <2>4 DEF JobOK, File, Reads, Converting, Importing, Applying
  <2>6. Learns(r)
    BY <1>0, <2>1, <2>2, <2>3, <2>4 DEF Learns, Reads, Converting, Importing, Applying
  <2> QED BY <2>2, <2>3, <2>5, <2>6 DEF Places
<1>4. ASSUME ClassifyRows(r) PROVE \E p \in Places, j \in Jobs : Good(p, j)
  <2> DEFINE rows == IF Effective THEN FreshRows(File(r), TakenNames, ConvertedRows) ELSE {}
             j == [job[r] EXCEPT !.seen = clock, !.rows = rows]
  <2>1. pc[r] = "pinned" /\ File(r) \in Files /\ NameFile(File(r)) /\ File(r).flow = "register"
        /\ job[r].token \in Tokens
    BY <1>0, <1>4 DEF NameFile, ClassifyRows, Continue, JobOK, Reads, Converting, Importing, Applying
  <2>2. \A i \in rows : i \in Nat /\ i \in DOMAIN File(r).rows /\ File(r).rows[i] \in Names
    BY <2>1, FreshFacts
  <2>3. /\ j \in Jobs /\ j.token = job[r].token /\ j.file = job[r].file /\ j.rows = rows
        /\ j.read = job[r].read /\ j.from = job[r].from /\ j.pin = job[r].pin /\ j.seen = clock
    BY <2>2, <1>0 DEF Jobs
  <2>4. Goes(r, "classified", j) /\ UNCHANGED <<imports, catalogue, bands>>
    BY <1>4, <2>3 DEF ClassifyRows, Continue, Goes, Places
  <2>5. pc'[r] = "classified" /\ job'[r] = j
    BY <2>3, <2>4, <1>0, Moved DEF Goes
  <2>6. JobOK(r)'
    BY <2>1, <2>2, <2>3, <2>5 DEF JobOK, File, Reads, Converting, Importing, Applying
  <2>7. Learns(r)
    <3>1. rows \subseteq FreshRows(File(r), TakenNames, ConvertedRows)
      OBVIOUS
    <3> HIDE DEF rows, j
    <3> QED BY <2>1, <2>3, <2>5, <3>1 DEF Learns, Reads, Converting, Importing, Applying
  <2> QED BY <2>3, <2>4, <2>6, <2>7 DEF Places
<1>5. ASSUME CheckNames(r) PROVE \E p \in Places, j \in Jobs : Good(p, j)
  <2> DEFINE rows == FreshRows(File(r), TakenNames, {})
             j == [job[r] EXCEPT !.seen = clock, !.rows = rows]
  <2>1. pc[r] = "scenarios" /\ File(r) \in Files /\ NameFile(File(r)) /\ ScenarioFile(File(r))
        /\ job[r].token \in Tokens
    BY <1>0, <1>5 DEF NameFile, CheckNames, Continue, JobOK, Reads, Converting, Importing, Applying
  <2>2. \A i \in rows : i \in Nat /\ i \in DOMAIN File(r).rows /\ File(r).rows[i] \in Names
    BY <2>1, FreshFacts
  <2>3. /\ j \in Jobs /\ j.token = job[r].token /\ j.file = job[r].file /\ j.rows = rows
        /\ j.read = job[r].read /\ j.from = job[r].from /\ j.pin = job[r].pin /\ j.seen = clock
    BY <2>2, <1>0 DEF Jobs
  <2>4. Goes(r, "named", j) /\ UNCHANGED <<imports, catalogue, bands>>
    BY <1>5, <2>3 DEF CheckNames, Continue, Goes, Places
  <2>5. pc'[r] = "named" /\ job'[r] = j
    BY <2>3, <2>4, <1>0, Moved DEF Goes
  <2>6. JobOK(r)'
    BY <2>1, <2>2, <2>3, <2>5 DEF JobOK, File, Reads, Converting, Importing, Applying
  <2>7. Learns(r)
    BY <2>1, <2>3, <2>5 DEF Learns, Reads, Converting, Importing, Applying
  <2> QED BY <2>3, <2>4, <2>6, <2>7 DEF Places
<1>6. ASSUME CheckTags(r) PROVE \E p \in Places, j \in Jobs : Good(p, j)
  <2> DEFINE j == [job[r] EXCEPT !.saw = overlays]
  <2>1. /\ j \in Jobs /\ j.token = job[r].token /\ j.file = job[r].file /\ j.saw = overlays
        /\ j.read = job[r].read
    BY <1>0 DEF Jobs, TypeOK
  <2>2. Goes(r, "tagged", j) /\ UNCHANGED <<imports, catalogue, bands>> /\ pc[r] = "overlays"
        /\ OverlayFile(File(r))
    BY <1>6, <2>1 DEF CheckTags, Continue, Goes, Places
  <2>3. pc'[r] = "tagged" /\ job'[r] = j
    BY <2>1, <2>2, <1>0, Moved DEF Goes
  <2>4. JobOK(r)'
    BY <1>0, <2>1, <2>2, <2>3 DEF JobOK, File, Reads, Converting, Importing, Applying, TypeOK
  <2>5. Learns(r)
    BY <1>0, <2>1, <2>2, <2>3 DEF Learns, Reads, Converting, Importing, Applying
  <2> QED BY <2>1, <2>2, <2>4, <2>5 DEF Places
<1>7. ASSUME NEW tag \in Tags, EditOverlay(r, tag) PROVE \E p \in Places, j \in Jobs : Good(p, j)
  <2> DEFINE j == [NoJob EXCEPT !.tag = tag, !.saw = overlays]
  <2>1. j \in Jobs /\ j.tag = tag /\ j.saw = overlays
    BY <1>0, NoJobTyped DEF NoJob, Jobs, TypeOK
  <2>2. Goes(r, "editing", j) /\ UNCHANGED <<imports, catalogue, bands>>
    BY <1>7, <2>1 DEF EditOverlay, Begin, Goes, Places
  <2>3. pc'[r] = "editing" /\ job'[r] = j
    BY <2>1, <2>2, <1>0, Moved DEF Goes
  <2>4. JobOK(r)'
    BY <1>0, <2>1, <2>3 DEF JobOK, Reads, Converting, Importing, Applying, TypeOK
  <2>5. Learns(r)
    BY <1>0, <2>1, <2>2, <2>3 DEF Learns, Reads, Converting, Importing, Applying
  <2> QED BY <2>1, <2>2, <2>4, <2>5 DEF Places
<1>8. ASSUME LoadOrgBand(r) PROVE \E p \in Places, j \in Jobs : Good(p, j)
  <2> DEFINE j == [NoJob EXCEPT !.from = band.id, !.pin = band.version]
  <2>1. j \in Jobs
    BY <1>0, NoJobTyped DEF NoJob, Jobs, TypeOK
  <2>2. Goes(r, "banding", j) /\ UNCHANGED <<imports, catalogue, bands>>
    BY <1>8, <2>1 DEF LoadOrgBand, Begin, Goes, Places
  <2>3. pc'[r] = "banding"
    BY <2>1, <2>2, <1>0, Moved DEF Goes
  <2>4. JobOK(r)'
    BY <2>3 DEF JobOK, Reads, Converting, Importing, Applying
  <2>5. Learns(r)
    BY <1>0, <2>1, <2>2, <2>3 DEF Learns, Reads, Converting, Importing, Applying
  <2> QED BY <2>1, <2>2, <2>4, <2>5 DEF Places
<1>9. \E p \in Places, j \in Jobs : Good(p, j)
  BY <1>1, <1>3, <1>4, <1>5, <1>6, <1>7, <1>8, <1>10, <1>11 DEF ReadsOn
<1> QED BY <1>9

\* A request's move leaves the others where they are.
LEMMA OthersKeep ==
    ASSUME TypeInv, NEW r \in Requests, NEW p \in Places, NEW j \in Jobs, Goes(r, p, j), JobOK(r)'
    PROVE  /\ pc' \in [Requests -> Places] /\ job' \in [Requests -> Jobs]
           /\ \A q \in Requests : JobOK(q)'
<1>1. /\ pc' \in [Requests -> Places] /\ job' \in [Requests -> Jobs]
      /\ \A q \in Requests \ {r} : pc'[q] = pc[q] /\ job'[q] = job[q]
  BY Moved DEF Goes, TypeInv
<1>2. ASSUME NEW q \in Requests \ {r} PROVE JobOK(q)'
  BY <1>1, <1>2 DEF TypeInv, JobOK, File
<1> QED BY <1>1, <1>2

LEMMA EndTyped ==
    ASSUME TypeInv, NEW r \in Requests, End(r)
    PROVE  /\ Goes(r, "idle", NoJob) /\ pc'[r] = "idle"
           /\ pc' \in [Requests -> Places] /\ job' \in [Requests -> Jobs]
           /\ \A q \in Requests : JobOK(q)'
<1>1. Goes(r, "idle", NoJob)
  BY NoJobTyped DEF End, Goes, Places
<1>2. pc'[r] = "idle"
  BY <1>1 DEF Goes, TypeInv, TypeOK
<1>3. JobOK(r)'
  BY <1>2 DEF JobOK, Reads, Converting, Importing, Applying
<1> QED BY <1>1, <1>2, <1>3, OthersKeep, NoJobTyped DEF Places

\* A post touches a preview that is there, or makes it; whatever was gone stays so.
LEMMA StagingTyped ==
    ASSUME TypeInv, NEW t \in Tokens, Staging(t)
    PROVE  /\ UNCHANGED <<scenarios, clock, confirms, pc, job, catalogue, bands>>
           /\ preview' \in [Tokens -> Previews] /\ preview[t].stage # "gone"
           /\ \A u \in Tokens \ {t} : preview'[u] = preview[u]
           /\ \A u \in Tokens : PreviewOK(u)'
<1> DEFINE Good(stage, f) ==
      /\ stage \in Stages /\ f \in Files \cup {Nothing} /\ Stage(t, stage, f)
      /\ preview[t].stage # "gone"
      /\ stage \in {"mapped", "bound"} => f # Nothing /\ f.flow = "register"
      /\ stage \in {"new", "gone"} => f = Nothing
<1>0. /\ preview \in [Tokens -> Previews] /\ preview[t].stage \in Stages
      /\ preview[t].file \in Files \cup {Nothing} /\ PreviewOK(t)
  BY DEF TypeInv, TypeOK, Previews
<1>1. ASSUME NEW f \in Files, Upload(t, f) PROVE \E s, g : Good(s, g)
  <2>1. Good("uploaded", f)
    BY <1>1 DEF Upload, Stages
  <2> QED BY <2>1
<1>2. ASSUME NEW s \in Stages \ {"new", "gone"}, Advance(t, s) PROVE \E x, g : Good(x, g)
  <2>1. Good(s, preview[t].file)
    BY <1>0, <1>2 DEF Advance, Staged, PreviewOK
  <2> QED BY <2>1
<1>3. ASSUME Expire(t) PROVE \E s, g : Good(s, g)
  <2>1. Good("gone", Nothing)
    BY <1>0, <1>3 DEF Expire, Staged, PreviewOK, Stages
  <2> QED BY <2>1
<1>4. ASSUME SetColumnMap(t) \/ SetValueBindings(t) \/ ApplyProfile(t)
      PROVE  \E s \in Stages \ {"new", "gone"} : Advance(t, s)
  BY <1>4 DEF SetColumnMap, SetValueBindings, ApplyProfile, Stages
<1>5. PICK s, g : Good(s, g)
  BY <1>1, <1>2, <1>3, <1>4 DEF Staging
<1>6. preview' = [preview EXCEPT ![t] = [stage |-> s, file |-> g]]
  BY <1>5 DEF Stage
<1>7. [stage |-> s, file |-> g] \in Previews
  BY <1>5 DEF Previews
<1>8. preview' \in [Tokens -> Previews] /\ \A u \in Tokens \ {t} : preview'[u] = preview[u]
  BY <1>0, <1>6, <1>7
<1>9. preview'[t].stage = s /\ preview'[t].file = g
  BY <1>0, <1>6
<1>10. PreviewOK(t)'
  BY <1>5, <1>9 DEF PreviewOK, Staged
<1>11. ASSUME NEW u \in Tokens \ {t} PROVE PreviewOK(u)'
  BY <1>8 DEF PreviewOK, Staged, TypeInv
<1> QED BY <1>5, <1>8, <1>10, <1>11 DEF Stage

\* A confirmation ends with its token gone.
LEMMA ConsumeTyped ==
    ASSUME TypeInv, NEW r \in Requests, pc[r] \in Reads, Consume(r)
    PROVE  /\ preview' \in [Tokens -> Previews] /\ preview'[job[r].token].stage = "gone"
           /\ \A u \in Tokens : u # job[r].token => preview'[u] = preview[u]
           /\ \A u \in Tokens : PreviewOK(u)'
           /\ clock \in Nat /\ clock' = clock + 1 /\ clock' \in 0 .. MaxCommits
           /\ confirms' \subseteq [token : Tokens, read : Nat, at : Nat]
           /\ Goes(r, "idle", NoJob)
           /\ pc' \in [Requests -> Places] /\ job' \in [Requests -> Jobs]
           /\ \A q \in Requests : JobOK(q)'
<1>1. job[r].token \in Tokens /\ job[r].read \in Nat
  BY DEF TypeInv, TypeOK, JobOK, Jobs
<1>2. [stage |-> "gone", file |-> Nothing] \in Previews
  BY DEF Previews, Stages
<1>3. /\ preview' \in [Tokens -> Previews] /\ preview'[job[r].token] = [stage |-> "gone", file |-> Nothing]
      /\ \A u \in Tokens : u # job[r].token => preview'[u] = preview[u]
  BY <1>1, <1>2 DEF Consume, TypeInv, TypeOK
<1>4. \A u \in Tokens : PreviewOK(u)'
  BY <1>3 DEF PreviewOK, Staged, TypeInv
<1>5. clock \in Nat /\ clock' = clock + 1 /\ clock' \in 0 .. MaxCommits
  BY StagedImportAssumption DEF Consume, TypeInv, TypeOK
<1>6. confirms' \subseteq [token : Tokens, read : Nat, at : Nat]
  BY <1>1, <1>5 DEF Consume, TypeInv, TypeOK
<1>7. End(r)
  BY DEF Consume
<1> QED BY <1>3, <1>4, <1>5, <1>6, <1>7, EndTyped

LEMMA WriteTyped ==
    ASSUME TypeOK, NEW write \in SUBSET Tags, NEW saw \in [Tags -> Overlays], NEW content \in Contents,
           WriteOverlays(write, saw, content)
    PROVE  overlays' \in [Tags -> Overlays] /\ revisions' \subseteq Revisions
<1>1. \A tag \in Tags : /\ overlays[tag] \in Overlays /\ overlays[tag].active \in BOOLEAN
                        /\ saw[tag].version \in 0 .. MaxVersions
  BY DEF TypeOK, Overlays
<1>2. \A tag \in write : saw[tag].version + 1 \in 1 .. MaxVersions
  BY <1>1, StagedImportAssumption DEF WriteOverlays
<1>3. \A tag \in write :
        [version |-> saw[tag].version + 1, content |-> content,
         active |-> saw[tag].version = 0 \/ overlays[tag].active] \in Overlays
  BY <1>1, <1>2 DEF Overlays
<1>4. overlays' \in [Tags -> Overlays]
  BY <1>1, <1>3 DEF WriteOverlays
<1>5. \A tag \in write : [tag |-> tag, version |-> saw[tag].version + 1, content |-> content] \in Revisions
  BY <1>2 DEF Revisions
<1> QED BY <1>4, <1>5 DEF WriteOverlays, TypeOK

\* What a confirmation saves: scenarios of the rows it chose, with its own stamps.
LEMMA SavedTyped ==
    ASSUME TypeInv, NEW r \in Requests, pc[r] \in {"valued", "named"}, NEW i \in job[r].rows
    PROVE  /\ NewScenario(r, i) \in Scenarios /\ ConvertedScenario(r, i) \in Scenarios
           /\ \A s \in {NewScenario(r, i), ConvertedScenario(r, i)} :
                s.name = File(r).rows[i] /\ s.at = clock + 1 /\ s.seen = job[r].seen
                /\ s.row = i
           /\ NewScenario(r, i).from = 0
           /\ ConvertedScenario(r, i).pin = job[r].pin
           /\ ConvertedScenario(r, i).from = job[r].from
           /\ ConvertedScenario(r, i).used = job[r].used
<1>1. File(r).rows[i] \in Names /\ i \in Nat /\ clock \in Nat
  <2>1. File(r).rows[i] \in Names
    BY DEF TypeInv, JobOK
  <2>2. i \in Nat
    BY DEF TypeInv, TypeOK, Jobs
  <2>3. clock \in Nat
    BY StagedImportAssumption DEF TypeInv, TypeOK
  <2> QED BY <2>1, <2>2, <2>3
<1>2. job[r].seen \in Nat /\ job[r].pin \in Nat /\ job[r].from \in Nat /\ job[r].used \in Nat
  BY DEF TypeInv, TypeOK, Jobs
<1>3. NewScenario(r, i) \in Scenarios
  BY <1>1, <1>2 DEF NewScenario, Scenarios
<1>4. ConvertedScenario(r, i) \in Scenarios
  BY <1>1, <1>2 DEF ConvertedScenario, Scenarios
<1> QED BY <1>3, <1>4 DEF NewScenario, ConvertedScenario

\* The four ends of a confirmation, and the writers of overlays and bands.
Confirms(r) == Convert(r) \/ ApplyScenarios(r) \/ ApplyOverlays(r) \/ HardStop(r)

WritesOverlays ==
    \/ \E tag \in Tags : DeactivateOverlay(tag) \/ \E c \in Contents : CreateOverlay(tag, c)
    \/ \E r \in Requests, c \in Contents : SaveOverlay(r, c)

WritesBand == (\E r \in Requests : UpdateOrgBand(r)) \/ CreateOrgBand \/ DeleteOrgBand

LEMMA Cases ==
    ASSUME [Next]_vars
    PROVE  \/ UNCHANGED vars
           \/ \E t \in Tokens : Staging(t)
           \/ \E r \in Requests : ReadsOn(r) \/ Confirms(r) \/ Fail(r)
           \/ WritesOverlays \/ WritesBand
BY DEF Next, Confirming, Editing, ReadsOn, Confirms, WritesOverlays, WritesBand

LEMMA SavesScenarios ==
    ASSUME TypeInv, NEW r \in Requests, Convert(r) \/ ApplyScenarios(r)
    PROVE  /\ scenarios' \subseteq Scenarios /\ Consume(r) /\ UNCHANGED <<catalogue, bands>>
           /\ pc[r] \in {"valued", "named"}
           /\ \A s \in scenarios' \ scenarios : \E i \in job[r].rows :
                \/ pc[r] = "valued" /\ s = ConvertedScenario(r, i)
                \/ pc[r] = "named" /\ s = NewScenario(r, i)
<1>1. PICK saved \in SUBSET job[r].rows :
        \/ pc[r] = "valued" /\ scenarios' = scenarios \cup {ConvertedScenario(r, i) : i \in saved}
        \/ pc[r] = "named" /\ scenarios' = scenarios \cup {NewScenario(r, i) : i \in saved}
  BY DEF Convert, ApplyScenarios
<1>2. \A i \in saved : NewScenario(r, i) \in Scenarios /\ ConvertedScenario(r, i) \in Scenarios
  BY <1>1, SavedTyped
<1>3. scenarios' \subseteq Scenarios
  BY <1>1, <1>2 DEF TypeInv, TypeOK
<1> QED BY <1>1, <1>3 DEF Convert, ApplyScenarios

\* A file that cannot be read leaves everything but its token as it was.
LEMMA StopsHard ==
    ASSUME TypeInv, NEW r \in Requests, HardStop(r)
    PROVE  Consume(r) /\ pc[r] \in Reads /\ UNCHANGED <<scenarios, catalogue, bands>>
BY DEF HardStop, Reads, Importing, Applying

\* What an import writes to the overlays, as an edit would.
ToWrite(r) ==
    {tag \in {File(r).rows[i] : i \in DOMAIN File(r).rows} \ {Unusable} :
        job[r].saw[tag].version = 0 \/ (job[r].saw[tag].active /\ job[r].saw[tag].content # File(r).content)}

LEMMA ImportWrites ==
    ASSUME TypeInv, NEW r \in Requests, ApplyOverlays(r)
    PROVE  /\ ToWrite(r) \in SUBSET Tags /\ job[r].saw \in [Tags -> Overlays] /\ File(r).content \in Contents
           /\ WriteOverlays(ToWrite(r), job[r].saw, File(r).content)
           /\ Consume(r) /\ pc[r] = "tagged" /\ UNCHANGED <<scenarios, bands>>
<1>1. pc[r] = "tagged" /\ File(r) \in Files /\ OverlayFile(File(r)) /\ job[r].saw \in [Tags -> Overlays]
  BY DEF ApplyOverlays, TypeInv, JobOK, Reads, Applying
<1>2. ToWrite(r) \in SUBSET Tags /\ File(r).content \in Contents
  BY <1>1, FileFacts DEF ToWrite
<1>3. WriteOverlays(ToWrite(r), job[r].saw, File(r).content)
  BY DEF ApplyOverlays, ToWrite
<1> QED BY <1>1, <1>2, <1>3 DEF ApplyOverlays

\* The other writers of overlays: a version as before, or a revision more.
LEMMA EditWrites ==
    ASSUME TypeInv, WritesOverlays
    PROVE  /\ UNCHANGED <<imports, bands>>
           /\ \/ /\ UNCHANGED <<pc, job>>
                 /\ \E tag \in Tags, content \in Contents : WriteOverlays({tag}, overlays, content)
              \/ \E r \in Requests, tag \in Tags, content \in Contents :
                   /\ End(r) /\ pc[r] = "editing" /\ job[r].saw \in [Tags -> Overlays]
                   /\ WriteOverlays({tag}, job[r].saw, content)
              \/ /\ UNCHANGED <<pc, job, revisions>> /\ overlays' \in [Tags -> Overlays]
                 /\ \A tag \in Tags : /\ overlays'[tag].version = overlays[tag].version
                                      /\ overlays'[tag].content = overlays[tag].content
<1>1. ASSUME NEW tag \in Tags, DeactivateOverlay(tag)
      PROVE  /\ UNCHANGED <<imports, bands>> /\ UNCHANGED <<pc, job, revisions>>
             /\ overlays' \in [Tags -> Overlays]
             /\ \A u \in Tags : /\ overlays'[u].version = overlays[u].version
                                /\ overlays'[u].content = overlays[u].content
  BY <1>1 DEF DeactivateOverlay, TypeInv, TypeOK, Overlays
<1>2. ASSUME NEW tag \in Tags, NEW c \in Contents, CreateOverlay(tag, c)
      PROVE  UNCHANGED <<imports, bands>> /\ UNCHANGED <<pc, job>> /\ WriteOverlays({tag}, overlays, c)
  BY <1>2 DEF CreateOverlay
<1>3. ASSUME NEW r \in Requests, NEW c \in Contents, SaveOverlay(r, c)
      PROVE  /\ UNCHANGED <<imports, bands>> /\ End(r) /\ pc[r] = "editing"
             /\ job[r].tag \in Tags /\ job[r].saw \in [Tags -> Overlays]
             /\ WriteOverlays({job[r].tag}, job[r].saw, c)
  BY <1>3 DEF SaveOverlay, TypeInv, JobOK
<1> QED BY <1>1, <1>2, <1>3 DEF WritesOverlays

\* A change of the band adds one to the history of what was effective.
LEMMA BandMoves ==
    ASSUME TypeInv, WritesBand
    PROVE  /\ UNCHANGED <<imports, catalogue>>
           /\ UNCHANGED <<pc, job>> \/ \E r \in Requests : End(r) /\ pc[r] = "banding"
           /\ \/ UNCHANGED bands
              \/ \E b \in [live : BOOLEAN, id : Nat, version : Nat] : SetBand(b)
<1>1. band \in [live : BOOLEAN, id : Nat, version : Nat] /\ Len(views) \in Nat
      /\ \A r \in Requests : job[r].pin \in Nat
  BY DEF TypeInv, TypeOK, Jobs
<1>2. ASSUME NEW r \in Requests, UpdateOrgBand(r)
      PROVE  \/ UNCHANGED bands
             \/ \E b \in [live : BOOLEAN, id : Nat, version : Nat] : SetBand(b)
  <2>1. [band EXCEPT !.version = job[r].pin + 1] \in [live : BOOLEAN, id : Nat, version : Nat]
    BY <1>1
  <2> QED BY <1>2, <2>1 DEF UpdateOrgBand
<1>3. ASSUME CreateOrgBand \/ DeleteOrgBand
      PROVE  \E b \in [live : BOOLEAN, id : Nat, version : Nat] : SetBand(b)
  <2>1. [live |-> TRUE, id |-> Len(views) + 1, version |-> 1] \in [live : BOOLEAN, id : Nat, version : Nat]
    BY <1>1
  <2>2. [band EXCEPT !.live = FALSE] \in [live : BOOLEAN, id : Nat, version : Nat]
    BY <1>1
  <2> QED BY <1>3, <2>1, <2>2 DEF CreateOrgBand, DeleteOrgBand
<1> QED BY <1>2, <1>3 DEF WritesBand, UpdateOrgBand, CreateOrgBand, DeleteOrgBand

LEMMA TypeStep == TypeInv /\ [Next]_vars => TypeInv'
<1> SUFFICES ASSUME TypeInv, [Next]_vars PROVE TypeInv'
  OBVIOUS
<1>0. TypeOK
  BY DEF TypeInv
<1>1. CASE UNCHANGED vars
  BY <1>1 DEF TypeInv, TypeOK, JobOK, File, PreviewOK, Staged, vars
<1>2. ASSUME NEW t \in Tokens, Staging(t) PROVE TypeInv'
  <2>1. TypeOK'
    BY <1>0, <1>2, StagingTyped DEF TypeOK, catalogue, bands
  <2>2. \A r \in Requests : JobOK(r)'
    BY <1>2, StagingTyped DEF TypeInv, JobOK, File
  <2> QED BY <1>2, <2>1, <2>2, StagingTyped DEF TypeInv
<1>3. ASSUME UNCHANGED <<imports, catalogue, bands>>, \A r \in Requests : JobOK(r)',
             pc' \in [Requests -> Places], job' \in [Requests -> Jobs]
      PROVE  TypeInv'
  <2>1. TypeOK'
    BY <1>0, <1>3 DEF TypeOK, imports, catalogue, bands
  <2>2. \A t \in Tokens : PreviewOK(t)'
    BY <1>3 DEF TypeInv, PreviewOK, Staged, imports
  <2> QED BY <1>3, <2>1, <2>2 DEF TypeInv
<1>4. ASSUME NEW r \in Requests, ReadsOn(r) PROVE TypeInv'
  BY <1>3, <1>4, ReadsOnTyped, OthersKeep
<1>5. ASSUME NEW r \in Requests, Fail(r) PROVE TypeInv'
  BY <1>3, <1>5, EndTyped DEF Fail
<1>6. ASSUME NEW r \in Requests, Convert(r) \/ ApplyScenarios(r) PROVE TypeInv'
  <2>1. Consume(r) /\ pc[r] \in Reads
    BY <1>6, SavesScenarios DEF Reads, Converting, Importing
  <2>2. TypeOK'
    BY <1>0, <1>6, <2>1, SavesScenarios, ConsumeTyped DEF TypeOK, catalogue, bands
  <2> QED BY <2>1, <2>2, ConsumeTyped DEF TypeInv
<1>7. ASSUME NEW r \in Requests, ApplyOverlays(r) PROVE TypeInv'
  <2>1. Consume(r) /\ pc[r] \in Reads
    BY <1>7, ImportWrites DEF Reads, Applying
  <2>2. overlays' \in [Tags -> Overlays] /\ revisions' \subseteq Revisions
    BY <1>0, <1>7, ImportWrites, WriteTyped
  <2>3. TypeOK'
    BY <1>0, <1>7, <2>1, <2>2, ImportWrites, ConsumeTyped DEF TypeOK, bands
  <2> QED BY <2>1, <2>3, ConsumeTyped DEF TypeInv
<1>10. ASSUME NEW r \in Requests, HardStop(r) PROVE TypeInv'
  <2>1. Consume(r) /\ pc[r] \in Reads /\ UNCHANGED <<scenarios, catalogue, bands>>
    BY <1>10, StopsHard
  <2>2. TypeOK'
    BY <1>0, <2>1, ConsumeTyped DEF TypeOK, catalogue, bands
  <2> QED BY <2>1, <2>2, ConsumeTyped DEF TypeInv
<1>8. CASE WritesOverlays
  <2>1. UNCHANGED <<imports, bands>>
    BY <1>8, EditWrites
  <2>2. overlays' \in [Tags -> Overlays] /\ revisions' \subseteq Revisions
    BY <1>0, <1>8, EditWrites, WriteTyped DEF TypeOK
  <2>3. /\ pc' \in [Requests -> Places] /\ job' \in [Requests -> Jobs]
        /\ \A r \in Requests : JobOK(r)'
    <3>1. CASE UNCHANGED <<pc, job>>
      BY <1>0, <3>1 DEF TypeInv, TypeOK, JobOK, File
    <3> QED BY <1>8, <3>1, EditWrites, EndTyped
  <2>4. TypeOK'
    BY <1>0, <2>1, <2>2, <2>3 DEF TypeOK, imports, bands
  <2>5. \A t \in Tokens : PreviewOK(t)'
    BY <2>1 DEF TypeInv, PreviewOK, Staged, imports
  <2> QED BY <2>3, <2>4, <2>5 DEF TypeInv
<1>9. CASE WritesBand
  <2>1. UNCHANGED <<imports, catalogue>>
    BY <1>9, BandMoves
  <2>2. band' \in [live : BOOLEAN, id : Nat, version : Nat] /\ views' \in Seq(Nat)
    <3>1. ASSUME NEW b \in [live : BOOLEAN, id : Nat, version : Nat], SetBand(b)
          PROVE  band' \in [live : BOOLEAN, id : Nat, version : Nat] /\ views' \in Seq(Nat)
      <4>1. (IF b.live THEN b.version ELSE 0) \in Nat
        OBVIOUS
      <4> QED BY <1>0, <3>1, <4>1 DEF SetBand, TypeOK
    <3> QED BY <1>0, <1>9, <3>1, BandMoves DEF TypeOK, bands
  <2>3. /\ pc' \in [Requests -> Places] /\ job' \in [Requests -> Jobs]
        /\ \A r \in Requests : JobOK(r)'
    <3>1. CASE UNCHANGED <<pc, job>>
      BY <1>0, <3>1 DEF TypeInv, TypeOK, JobOK, File
    <3> QED BY <1>9, <3>1, BandMoves, EndTyped
  <2>4. TypeOK'
    BY <1>0, <2>1, <2>2, <2>3 DEF TypeOK, imports, catalogue
  <2>5. \A t \in Tokens : PreviewOK(t)'
    BY <2>1 DEF TypeInv, PreviewOK, Staged, imports
  <2> QED BY <2>3, <2>4, <2>5 DEF TypeInv
<1> QED BY <1>1, <1>2, <1>4, <1>5, <1>6, <1>7, <1>8, <1>9, <1>10, Cases DEF Confirms

-----------------------------------------------------------------------------
(* What the parts of the invariant are proved from: each request stays,     *)
(* ends or reads; a step ends a confirmation or leaves the imports alone.   *)

LEMMA Shape ==
    ASSUME TypeInv, [Next]_vars, NEW q \in Requests
    PROVE  \/ pc'[q] = pc[q] /\ job'[q] = job[q]
           \/ pc'[q] = "idle"
           \/ Learns(q) /\ UNCHANGED <<imports, catalogue, bands>>
<1>0. TypeOK
  BY DEF TypeInv
<1>1. ASSUME NEW r \in Requests, End(r) PROVE (pc'[q] = pc[q] /\ job'[q] = job[q]) \/ pc'[q] = "idle"
  BY <1>0, <1>1, EndTyped, Moved, NoJobTyped DEF Goes
<1>2. ASSUME NEW r \in Requests, ReadsOn(r)
      PROVE  (pc'[q] = pc[q] /\ job'[q] = job[q]) \/ (Learns(q) /\ UNCHANGED <<imports, catalogue, bands>>)
  BY <1>0, <1>2, ReadsOnTyped, Moved DEF Goes
<1>3. ASSUME NEW r \in Requests, Confirms(r) \/ Fail(r) PROVE End(r)
  BY <1>3 DEF Confirms, Convert, ApplyScenarios, ApplyOverlays, HardStop, Consume, Fail
<1>4. ASSUME WritesOverlays \/ WritesBand PROVE UNCHANGED <<pc, job>> \/ \E r \in Requests : End(r)
  BY <1>4, EditWrites, BandMoves
<1>5. ASSUME NEW t \in Tokens, Staging(t) PROVE UNCHANGED <<pc, job>>
  BY <1>5, StagingTyped
<1> QED BY <1>1, <1>2, <1>3, <1>4, <1>5, Cases DEF vars

LEMMA ConfirmsFacts ==
    ASSUME TypeInv, NEW r \in Requests, Confirms(r)
    PROVE  Consume(r) /\ pc[r] \in Reads /\ UNCHANGED bands
BY SavesScenarios, ImportWrites, StopsHard DEF Confirms, Reads, Converting, Importing, Applying

LEMMA ImportsMove ==
    ASSUME TypeInv, [Next]_vars
    PROVE  \/ /\ UNCHANGED <<scenarios, clock, confirms>>
              /\ \A t \in Tokens : preview[t].stage = "gone" => preview'[t].stage = "gone"
           \/ \E r \in Requests : Confirms(r)
<1>1. ASSUME NEW t \in Tokens, Staging(t)
      PROVE  /\ UNCHANGED <<scenarios, clock, confirms>>
             /\ \A u \in Tokens : preview[u].stage = "gone" => preview'[u].stage = "gone"
  BY <1>1, StagingTyped
<1>2. ASSUME NEW r \in Requests, ReadsOn(r) \/ Fail(r) PROVE UNCHANGED imports
  BY <1>2, ReadsOnTyped DEF Fail
<1>3. ASSUME WritesOverlays \/ WritesBand PROVE UNCHANGED imports
  BY <1>3, EditWrites, BandMoves
<1> QED BY <1>1, <1>2, <1>3, Cases DEF vars, imports

LEMMA BandsMove ==
    ASSUME TypeInv, [Next]_vars
    PROVE  \/ UNCHANGED bands
           \/ \E b \in [live : BOOLEAN, id : Nat, version : Nat] : SetBand(b) /\ UNCHANGED imports
<1>1. ASSUME NEW r \in Requests, ReadsOn(r) \/ Confirms(r) \/ Fail(r) PROVE UNCHANGED bands
  BY <1>1, ReadsOnTyped, ConfirmsFacts DEF Fail
<1> QED BY <1>1, Cases, StagingTyped, EditWrites, BandMoves DEF vars, bands

-----------------------------------------------------------------------------
(* Tokens.                                                                  *)

\* A confirmation in progress has read its preview before any of its token committed.
ReadBefore(r) ==
    pc[r] \in Reads =>
        /\ job[r].read <= clock
        /\ \A c \in confirms : c.token = job[r].token => job[r].read < c.at

TokenInv ==
    /\ \A c \in confirms : c.read < c.at /\ c.at <= clock /\ preview[c.token].stage = "gone"
    /\ \A r \in Requests : ReadBefore(r)
    /\ TokenSpent

LEMMA TokenStep == TypeInv /\ TokenInv /\ [Next]_vars => TokenInv'
<1> SUFFICES ASSUME TypeInv, TokenInv, [Next]_vars PROVE TokenInv'
  OBVIOUS
<1>0. /\ confirms \subseteq [token : Tokens, read : Nat, at : Nat] /\ clock \in Nat
      /\ \A r \in Requests : job[r].read \in Nat
  BY StagedImportAssumption DEF TypeInv, TypeOK, Jobs
<1>1. CASE /\ UNCHANGED <<scenarios, clock, confirms>>
           /\ \A t \in Tokens : preview[t].stage = "gone" => preview'[t].stage = "gone"
  <2>1. ASSUME NEW r \in Requests PROVE ReadBefore(r)'
    <3>1. CASE (pc'[r] = pc[r] /\ job'[r] = job[r]) \/ pc'[r] = "idle"
      BY <1>1, <3>1 DEF TokenInv, ReadBefore, Reads, Converting, Importing, Applying
    <3>2. CASE Learns(r)
      <4>1. ASSUME Staged(job'[r].token), NEW c \in confirms PROVE c.token # job'[r].token
        BY <1>0, <4>1 DEF TokenInv, Staged, TypeInv, PreviewOK
      <4> QED BY <1>0, <1>1, <3>2, <4>1 DEF Learns, TokenInv, ReadBefore
    <3> QED BY <3>1, <3>2, Shape
  <2>2. \A c \in confirms' : c.read < c.at /\ c.at <= clock' /\ preview'[c.token].stage = "gone"
    BY <1>0, <1>1 DEF TokenInv
  <2>3. TokenSpent'
    BY <1>1 DEF TokenInv, TokenSpent
  <2> QED BY <2>1, <2>2, <2>3 DEF TokenInv
<1>2. ASSUME NEW r \in Requests, Confirms(r) PROVE TokenInv'
  <2> DEFINE new == [token |-> job[r].token, read |-> job[r].read, at |-> clock + 1]
  <2>1. /\ confirms' = confirms \cup {new} /\ clock' = clock + 1 /\ ReadBefore(r) /\ pc[r] \in Reads
        /\ preview'[job[r].token].stage = "gone"
        /\ \A u \in Tokens : u # job[r].token => preview'[u] = preview[u]
    BY <1>2, ConfirmsFacts, ConsumeTyped DEF Consume, TokenInv
  <2>2. \A c \in confirms' : c.read < c.at /\ c.at <= clock' /\ preview'[c.token].stage = "gone"
    BY <1>0, <2>1 DEF TokenInv, ReadBefore
  <2>3. ASSUME NEW q \in Requests PROVE ReadBefore(q)'
    <3>1. CASE (pc'[q] = pc[q] /\ job'[q] = job[q]) \/ pc'[q] = "idle"
      BY <1>0, <2>1, <3>1 DEF TokenInv, ReadBefore, Reads, Converting, Importing, Applying
    <3>2. CASE UNCHANGED imports
      BY <1>0, <2>1, <3>2 DEF imports
    <3> QED BY <3>1, <3>2, Shape DEF imports
  <2>4. TokenSpent'
    BY <1>0, <2>1 DEF TokenInv, TokenSpent, ReadBefore
  <2> QED BY <2>2, <2>3, <2>4 DEF TokenInv
<1> QED BY <1>1, <1>2, ImportsMove

-----------------------------------------------------------------------------
(* Names.                                                                   *)

\* What a request chose differs from all that was there when it looked.
ChosenFresh(r) ==
    pc[r] \in {"classified", "valued", "named"} =>
        /\ job[r].seen <= clock
        /\ \A i \in job[r].rows :
             /\ \A s \in scenarios : s.at <= job[r].seen =>
                  /\ s.name # File(r).rows[i]
                  /\ pc[r] \in {"classified", "valued"} /\ s.from # 0 => s.row # i
             /\ \A j \in job[r].rows : i # j => File(r).rows[i] # File(r).rows[j]

NameInv ==
    /\ \A s \in scenarios : s.at <= clock
    /\ \A r \in Requests : ChosenFresh(r)
    /\ NoBlindDuplicate

LEMMA NameStep == TypeInv /\ NameInv /\ [Next]_vars => NameInv'
<1> SUFFICES ASSUME TypeInv, NameInv, [Next]_vars PROVE NameInv'
  OBVIOUS
<1>0. /\ scenarios \subseteq Scenarios /\ clock \in Nat
      /\ \A s \in scenarios : s.at \in Nat /\ s.seen \in Nat
      /\ \A r \in Requests : job[r].seen \in Nat
  BY StagedImportAssumption DEF TypeInv, TypeOK, Jobs, Scenarios
<1>1. CASE UNCHANGED <<scenarios, clock, confirms>>
  <2>1. ASSUME NEW r \in Requests PROVE ChosenFresh(r)'
    <3>1. CASE (pc'[r] = pc[r] /\ job'[r] = job[r]) \/ pc'[r] = "idle"
      BY <1>1, <3>1 DEF NameInv, ChosenFresh, File
    <3>2. CASE Learns(r)
      <4>1. CASE pc'[r] = "classified"
        <5>1. File(r) \in Files /\ NameFile(File(r))
          BY <3>2, <4>1 DEF Learns, TypeInv, JobOK, NameFile, Reads, Converting
        <5>2. /\ job'[r].seen = clock /\ File(r)' = File(r)
              /\ job'[r].rows \subseteq FreshRows(File(r), TakenNames, ConvertedRows)
          BY <3>2, <4>1 DEF Learns, File
        <5>3. \A i \in job'[r].rows :
                /\ File(r).rows[i] \notin TakenNames /\ i \notin ConvertedRows /\ i # 0
                /\ \A j \in job'[r].rows : i # j => File(r).rows[i] # File(r).rows[j]
          BY <5>1, <5>2, FreshFacts
        <5>4. \A i \in job'[r].rows, s \in scenarios :
                s.name # File(r).rows[i] /\ (s.from # 0 => s.row # i)
          BY <5>3 DEF TakenNames, ConvertedRows
        <5> QED BY <1>0, <1>1, <5>2, <5>3, <5>4 DEF ChosenFresh
      <4>2. CASE pc'[r] = "named"
        <5>1. File(r) \in Files /\ NameFile(File(r))
          BY <3>2, <4>2 DEF Learns, TypeInv, JobOK, NameFile, Reads, Importing
        <5>2. /\ job'[r].seen = clock /\ File(r)' = File(r)
              /\ job'[r].rows \subseteq FreshRows(File(r), TakenNames, {})
          BY <3>2, <4>2 DEF Learns, File
        <5>3. \A i \in job'[r].rows :
                /\ File(r).rows[i] \notin TakenNames
                /\ \A j \in job'[r].rows : i # j => File(r).rows[i] # File(r).rows[j]
          BY <5>1, <5>2, FreshFacts
        <5>4. \A i \in job'[r].rows, s \in scenarios : s.name # File(r).rows[i]
          BY <5>3 DEF TakenNames
        <5> QED BY <1>0, <1>1, <4>2, <5>2, <5>3, <5>4 DEF ChosenFresh
      <4>3. CASE pc'[r] = "valued"
        <5>1. /\ pc[r] = "classified" /\ job'[r].seen = job[r].seen /\ job'[r].rows = job[r].rows
              /\ File(r)' = File(r)
          BY <3>2, <4>3 DEF Learns, File
        <5> QED BY <1>1, <4>3, <5>1 DEF NameInv, ChosenFresh
      <4> QED BY <4>1, <4>2, <4>3 DEF ChosenFresh
    <3> QED BY <3>1, <3>2, Shape
  <2>2. (\A s \in scenarios' : s.at <= clock') /\ NoBlindDuplicate'
    BY <1>1 DEF NameInv, NoBlindDuplicate
  <2> QED BY <2>1, <2>2 DEF NameInv
<1>2. ASSUME NEW r \in Requests, Confirms(r), clock' = clock + 1,
             \A s \in scenarios' \ scenarios : s.at = clock + 1,
             scenarios' \subseteq Scenarios, scenarios \subseteq scenarios'
      PROVE  (\A s \in scenarios' : s.at <= clock') /\ \A q \in Requests : ChosenFresh(q)'
  <2>1. \A s \in scenarios' : s.at <= clock'
    BY <1>0, <1>2 DEF NameInv
  <2>2. ASSUME NEW q \in Requests PROVE ChosenFresh(q)'
    <3>1. CASE (pc'[q] = pc[q] /\ job'[q] = job[q]) \/ pc'[q] = "idle"
      <4> SUFFICES ASSUME pc'[q] \in {"classified", "valued", "named"} PROVE ChosenFresh(q)'
        BY DEF ChosenFresh
      <4>1. job[q].seen <= clock /\ ChosenFresh(q) /\ pc'[q] = pc[q] /\ job'[q] = job[q]
        BY <3>1 DEF NameInv, ChosenFresh
      <4>2. \A s \in scenarios' : s.at <= job[q].seen => s \in scenarios
        BY <1>0, <1>2, <4>1
      <4> QED BY <1>0, <1>2, <4>1, <4>2 DEF ChosenFresh, File
    <3>2. CASE UNCHANGED imports
      BY <1>0, <1>2, <3>2 DEF imports
    <3> QED BY <3>1, <3>2, Shape DEF imports
  <2> QED BY <2>1, <2>2
<1>3. ASSUME NEW r \in Requests, ApplyOverlays(r) \/ HardStop(r) PROVE NameInv'
  <2>1. UNCHANGED scenarios /\ clock' = clock + 1
    BY <1>3, ImportWrites, StopsHard, ConsumeTyped DEF Reads, Applying
  <2>2. (\A s \in scenarios' : s.at <= clock') /\ \A q \in Requests : ChosenFresh(q)'
    BY <1>0, <1>2, <1>3, <2>1 DEF Confirms
  <2>3. NoBlindDuplicate'
    BY <2>1 DEF NameInv, NoBlindDuplicate
  <2> QED BY <2>2, <2>3 DEF NameInv
<1>4. ASSUME NEW r \in Requests, Convert(r) \/ ApplyScenarios(r) PROVE NameInv'
  <2>1. /\ scenarios' \subseteq Scenarios /\ pc[r] \in {"valued", "named"} /\ Consume(r)
        /\ \A s \in scenarios' \ scenarios : \E i \in job[r].rows :
             \/ pc[r] = "valued" /\ s = ConvertedScenario(r, i)
             \/ pc[r] = "named" /\ s = NewScenario(r, i)
    BY <1>4, SavesScenarios
  <2>2. \A s \in scenarios' \ scenarios :
          /\ s.at = clock + 1 /\ s.seen = job[r].seen
          /\ \E i \in job[r].rows :
               /\ s.name = File(r).rows[i] /\ s.row = i
               /\ \/ pc[r] = "valued" /\ s = ConvertedScenario(r, i)
                  \/ pc[r] = "named" /\ s = NewScenario(r, i) /\ s.from = 0
    <3> TAKE s \in scenarios' \ scenarios
    <3>1. PICK i \in job[r].rows :
            \/ pc[r] = "valued" /\ s = ConvertedScenario(r, i)
            \/ pc[r] = "named" /\ s = NewScenario(r, i)
      BY <2>1
    <3>2. /\ s.at = clock + 1 /\ s.seen = job[r].seen /\ s.name = File(r).rows[i] /\ s.row = i
          /\ NewScenario(r, i).from = 0
      BY <2>1, <3>1, SavedTyped
    <3>3. \/ pc[r] = "valued" /\ s = ConvertedScenario(r, i)
          \/ pc[r] = "named" /\ s = NewScenario(r, i) /\ s.from = 0
      BY <3>1, <3>2
    <3> QED BY <3>2, <3>3
  <2>3. clock' = clock + 1 /\ scenarios \subseteq scenarios'
    BY <1>4, <2>1, ConsumeTyped DEF Reads, Converting, Importing, Convert, ApplyScenarios
  <2>4. (\A s \in scenarios' : s.at <= clock') /\ \A q \in Requests : ChosenFresh(q)'
    BY <1>2, <1>4, <2>1, <2>2, <2>3 DEF Confirms
  <2>5. ASSUME NEW s \in scenarios', NEW x \in scenarios', s # x,
               x.at <= s.seen \/ x.at = s.at, s.seen < s.at
        PROVE  s.name # x.name /\ (s.from # 0 /\ x.from # 0 => s.row # x.row)
    <3>1. s \in scenarios => s.at <= clock /\ s.at \in Nat /\ s.seen \in Nat
      BY <1>0 DEF NameInv
    <3>2. x \in scenarios => x.at <= clock /\ x.at \in Nat
      BY <1>0 DEF NameInv
    <3>3. job[r].seen <= clock /\ job[r].seen \in Nat /\ ChosenFresh(r)
      BY <1>0, <2>1 DEF NameInv, ChosenFresh
    <3>4. CASE s \in scenarios /\ x \in scenarios
      BY <2>5, <3>4 DEF NameInv, NoBlindDuplicate
    <3>5. CASE s \in scenarios /\ x \notin scenarios
      <4>1. x.at = clock + 1
        BY <2>2, <3>5
      <4> QED BY <1>0, <2>5, <3>1, <3>5, <4>1
    <3>6. CASE s \notin scenarios /\ x \in scenarios
      <4>1. s.at = clock + 1 /\ s.seen = job[r].seen
        BY <2>2, <3>6
      <4>2. x.at <= job[r].seen
        BY <1>0, <2>5, <3>2, <3>6, <4>1
      <4> QED BY <2>1, <2>2, <3>3, <3>6, <4>2 DEF ChosenFresh
    <3>7. CASE s \notin scenarios /\ x \notin scenarios
      <4>1. PICK i \in job[r].rows :
              /\ s.name = File(r).rows[i] /\ s.row = i
              /\ \/ pc[r] = "valued" /\ s = ConvertedScenario(r, i)
                 \/ pc[r] = "named" /\ s = NewScenario(r, i)
        BY <2>2, <3>7
      <4>2. PICK j \in job[r].rows :
              /\ x.name = File(r).rows[j] /\ x.row = j
              /\ \/ pc[r] = "valued" /\ x = ConvertedScenario(r, j)
                 \/ pc[r] = "named" /\ x = NewScenario(r, j)
        BY <2>2, <3>7
      <4>3. i # j
        BY <2>5, <4>1, <4>2
      <4>4. File(r).rows[i] # File(r).rows[j]
        BY <2>1, <3>3, <4>3 DEF ChosenFresh
      <4> QED BY <4>1, <4>2, <4>3, <4>4
    <3> QED BY <3>4, <3>5, <3>6, <3>7
  <2>6. NoBlindDuplicate'
    BY <2>5 DEF NoBlindDuplicate
  <2> QED BY <2>4, <2>6 DEF NameInv
<1> QED BY <1>1, <1>3, <1>4, ImportsMove DEF Confirms

-----------------------------------------------------------------------------
(* Provenance.                                                              *)

\* The version a conversion has was effective since its first read, and before it read
\* the values.
PinInTime(r) ==
    /\ pc[r] \in Converting => job[r].from \in 1 .. Len(views)
    /\ pc[r] \in {"pinned", "classified"} => \E g \in job[r].from .. Len(views) : views[g] = job[r].pin
    /\ pc[r] = "valued" =>
         job[r].used \in 1 .. Len(views) /\ \E g \in job[r].from .. job[r].used : views[g] = job[r].pin

ProvInv ==
    /\ Len(views) > 0 /\ views[Len(views)] = Version
    /\ \A r \in Requests : PinInTime(r)
    /\ \A s \in scenarios : s.from # 0 => s.from > 0 /\ s.used <= Len(views)
    /\ ProvenanceInTime

LEMMA ProvStep == TypeInv /\ ProvInv /\ [Next]_vars => ProvInv'
<1> SUFFICES ASSUME TypeInv, ProvInv, [Next]_vars PROVE ProvInv'
  OBVIOUS
<1>0. /\ views \in Seq(Nat) /\ Len(views) \in Nat
      /\ \A s \in scenarios : s.from \in Nat /\ s.used \in Nat
      /\ \A r \in Requests : job[r].from \in Nat /\ job[r].used \in Nat
  BY DEF TypeInv, TypeOK, Jobs, Scenarios
\* The history grows at its end.
<1>1. /\ Len(views') \in Nat /\ Len(views) <= Len(views')
      /\ \A g \in 1 .. Len(views) : views'[g] = views[g]
      /\ Len(views') > 0 /\ views'[Len(views')] = Version'
  <2>1. CASE UNCHANGED bands
    BY <1>0, <2>1 DEF ProvInv, Version, bands
  <2>2. ASSUME NEW b \in [live : BOOLEAN, id : Nat, version : Nat], SetBand(b)
        PROVE  /\ Len(views') = Len(views) + 1 /\ views'[Len(views')] = Version'
               /\ \A g \in 1 .. Len(views) : views'[g] = views[g]
    <3>1. views' = Append(views, IF b.live THEN b.version ELSE 0) /\ band' = b
      BY <2>2 DEF SetBand
    <3>2. (IF b.live THEN b.version ELSE 0) \in Nat
      OBVIOUS
    <3> QED BY <1>0, <3>1, <3>2 DEF Version
  <2> QED BY <1>0, <2>1, <2>2, BandsMove
<1>2. ASSUME NEW r \in Requests PROVE PinInTime(r)'
  <2>1. CASE (pc'[r] = pc[r] /\ job'[r] = job[r]) \/ pc'[r] = "idle"
    <3> SUFFICES ASSUME pc'[r] \in Converting PROVE PinInTime(r)'
      BY DEF PinInTime, Converting
    <3>1. /\ PinInTime(r) /\ pc'[r] = pc[r] /\ job'[r] = job[r] /\ pc[r] \in Converting
          /\ job[r].from \in Nat /\ job[r].used \in Nat
      BY <1>0, <2>1 DEF ProvInv, Converting
    <3>2. job[r].from \in 1 .. Len(views) /\ job[r].from \in 1 .. Len(views')
      BY <1>0, <1>1, <3>1 DEF PinInTime
    <3>3. ASSUME pc[r] \in {"pinned", "classified"}
          PROVE  \E g \in job[r].from .. Len(views') : views'[g] = job[r].pin
      <4>1. PICK g \in job[r].from .. Len(views) : views[g] = job[r].pin
        BY <3>1, <3>3 DEF PinInTime
      <4>2. g \in 1 .. Len(views) /\ g \in job[r].from .. Len(views')
        BY <1>0, <1>1, <3>2
      <4> QED BY <1>1, <4>1, <4>2
    <3>4. ASSUME pc[r] = "valued"
          PROVE  /\ job[r].used \in 1 .. Len(views')
                 /\ \E g \in job[r].from .. job[r].used : views'[g] = job[r].pin
      <4>1. PICK g \in job[r].from .. job[r].used : views[g] = job[r].pin
        BY <3>1, <3>4 DEF PinInTime
      <4>2. job[r].used \in 1 .. Len(views) /\ job[r].used \in 1 .. Len(views')
        BY <1>0, <1>1, <3>1, <3>4 DEF PinInTime
      <4>3. g \in 1 .. Len(views)
        BY <1>0, <3>2, <4>2
      <4> QED BY <1>1, <4>1, <4>2, <4>3
    <3> QED BY <3>1, <3>2, <3>3, <3>4 DEF PinInTime
  <2>2. CASE Learns(r) /\ UNCHANGED bands
    <3>1. PinInTime(r) /\ UNCHANGED views
      BY <2>2 DEF ProvInv, bands
    <3>2. CASE pc'[r] = "bound"
      BY <1>0, <2>2, <3>1, <3>2 DEF Learns, PinInTime, ProvInv
    <3>3. CASE pc'[r] = "pinned"
      <4>1. job'[r].from \in 1 .. Len(views) /\ job'[r].pin = views[Len(views)]
        BY <2>2, <3>1, <3>3 DEF Learns, PinInTime, ProvInv, Converting
      <4>2. Len(views) \in job'[r].from .. Len(views)
        BY <1>0, <4>1
      <4> QED BY <3>1, <3>3, <4>1, <4>2 DEF PinInTime
    <3>4. CASE pc'[r] = "classified"
      BY <2>2, <3>1, <3>4 DEF Learns, PinInTime, Converting
    <3>5. CASE pc'[r] = "valued"
      <4>1. /\ job'[r].from = job[r].from /\ job'[r].pin = job[r].pin /\ job'[r].used = Len(views)
            /\ pc[r] = "classified"
        BY <2>2, <3>5 DEF Learns
      <4>2. /\ job[r].from \in 1 .. Len(views) /\ Len(views) \in 1 .. Len(views)
            /\ \E g \in job[r].from .. Len(views) : views[g] = job[r].pin
        BY <1>0, <3>1, <4>1 DEF PinInTime, Converting, ProvInv
      <4> QED BY <3>1, <3>5, <4>1, <4>2 DEF PinInTime
    <3> QED BY <3>2, <3>3, <3>4, <3>5 DEF PinInTime, Converting
  <2> QED BY <2>1, <2>2, Shape DEF bands
<1>3. ASSUME NEW s \in scenarios', s.from # 0
      PROVE  /\ s.from > 0 /\ s.used <= Len(views')
             /\ \E g \in s.from .. s.used : views'[g] = s.pin
  <2>1. CASE s \in scenarios
    <3>1. s.from > 0 /\ s.used <= Len(views) /\ s.from \in Nat /\ s.used \in Nat
      BY <1>0, <1>3, <2>1 DEF ProvInv
    <3>2. PICK g \in s.from .. s.used : views[g] = s.pin
      BY <1>3, <2>1 DEF ProvInv, ProvenanceInTime
    <3>3. g \in 1 .. Len(views)
      BY <1>0, <3>1
    <3> QED BY <1>0, <1>1, <3>1, <3>2, <3>3
  <2>2. CASE s \notin scenarios
    <3>1. PICK r \in Requests : Convert(r) \/ ApplyScenarios(r)
      BY <1>3, <2>2, ImportsMove, ImportWrites, StopsHard DEF Confirms
    <3>2. PICK i \in job[r].rows :
            \/ pc[r] = "valued" /\ s = ConvertedScenario(r, i)
            \/ pc[r] = "named" /\ s = NewScenario(r, i)
      BY <1>3, <2>2, <3>1, SavesScenarios
    <3>3. pc[r] \in {"valued", "named"}
      BY <3>2
    <3>4. /\ pc[r] = "valued" /\ s.pin = job[r].pin /\ s.from = job[r].from
          /\ s.used = job[r].used
      BY <1>3, <3>2, <3>3, SavedTyped
    <3>5. PinInTime(r)
      BY DEF ProvInv
    <3>6. PICK g \in job[r].from .. job[r].used : views[g] = job[r].pin
      BY <3>4, <3>5 DEF PinInTime
    <3>7. job[r].from \in 1 .. Len(views) /\ job[r].used \in 1 .. Len(views)
      BY <3>4, <3>5 DEF PinInTime, Converting
    <3> QED BY <1>0, <1>1, <3>4, <3>6, <3>7
  <2> QED BY <2>1, <2>2
<1>4. ProvenanceInTime'
  BY <1>3 DEF ProvenanceInTime
<1> QED BY <1>1, <1>2, <1>3, <1>4 DEF ProvInv

-----------------------------------------------------------------------------
(* Overlays.                                                                *)

RevisionsOf(tag) == {rev \in revisions : rev.tag = tag}

Whole(tag) ==
    /\ {rev.version : rev \in RevisionsOf(tag)} = 1 .. overlays[tag].version
    /\ IsFiniteSet(RevisionsOf(tag)) /\ Cardinality(RevisionsOf(tag)) = overlays[tag].version
    /\ overlays[tag].version > 0 =>
         [tag |-> tag, version |-> overlays[tag].version, content |-> overlays[tag].content]
           \in RevisionsOf(tag)

\* Versions only grow, so that a copy of an overlay is not ahead of it.
NotAhead(r) ==
    pc[r] \in {"tagged", "editing"} =>
        \A tag \in Tags : job[r].saw[tag].version <= overlays[tag].version

HistInv ==
    /\ \A tag \in Tags : Whole(tag)
    /\ \A r \in Requests : NotAhead(r)

\* What is written from a copy that is not ahead is the next version.
LEMMA WholeStays ==
    ASSUME TypeOK, HistInv, NEW write \in SUBSET Tags, NEW saw \in [Tags -> Overlays],
           NEW content \in Contents, WriteOverlays(write, saw, content),
           \A tag \in Tags : saw[tag].version <= overlays[tag].version
    PROVE  \A tag \in Tags : Whole(tag)' /\ overlays[tag].version <= overlays'[tag].version
<1> TAKE tag \in Tags
<1>0. /\ overlays[tag].version \in Nat /\ saw[tag].version \in Nat /\ Whole(tag)
      /\ \A rev \in revisions : rev.version \in Nat
  BY StagedImportAssumption DEF TypeOK, Overlays, HistInv, Revisions
<1>1. CASE tag \notin write
  <2>1. overlays'[tag] = overlays[tag]
    BY <1>1 DEF WriteOverlays
  <2>2. RevisionsOf(tag)' = RevisionsOf(tag)
    BY <1>1 DEF WriteOverlays, RevisionsOf
  <2> QED BY <1>0, <2>1, <2>2 DEF Whole
<1>2. CASE tag \in write
  <2> DEFINE v == overlays[tag].version
             new == [tag |-> tag, version |-> v + 1, content |-> content]
  <2>1. \A rev \in RevisionsOf(tag) : rev.version # saw[tag].version + 1
    BY <1>2 DEF WriteOverlays, HasRevision, RevisionsOf
  <2>2. saw[tag].version = v
    <3> SUFFICES ASSUME saw[tag].version # v PROVE FALSE
      OBVIOUS
    <3>0. saw[tag].version + 1 \in 1 .. v
      BY <1>0
    <3>1. saw[tag].version + 1 \in {rev.version : rev \in RevisionsOf(tag)}
      BY <1>0, <3>0, Zenon DEF Whole
    <3>2. PICK rev \in RevisionsOf(tag) : rev.version = saw[tag].version + 1
      BY <3>1
    <3> QED BY <2>1, <3>2
  <2>3. overlays'[tag].version = v + 1 /\ overlays'[tag].content = content
    BY <1>2, <2>2 DEF WriteOverlays
  <2>4. RevisionsOf(tag)' = RevisionsOf(tag) \cup {new}
    BY <1>2, <2>2 DEF WriteOverlays, RevisionsOf
  <2>5. new \notin RevisionsOf(tag)
    BY <2>1, <2>2
  <2>6. /\ IsFiniteSet(RevisionsOf(tag)') /\ Cardinality(RevisionsOf(tag)') = v + 1
    BY <1>0, <2>4, <2>5, FS_AddElement DEF Whole
  <2>7. {rev.version : rev \in RevisionsOf(tag)'} = 1 .. (v + 1)
    <3>1. {rev.version : rev \in RevisionsOf(tag)'} = {rev.version : rev \in RevisionsOf(tag)} \cup {v + 1}
      <4>1. new.version = v + 1
        OBVIOUS
      <4> HIDE DEF new
      <4> QED BY <2>4, <4>1
    <3> QED BY <1>0, <3>1 DEF Whole
  <2> QED BY <1>0, <2>3, <2>4, <2>6, <2>7 DEF Whole
<1> QED BY <1>1, <1>2

LEMMA CatalogueMoves ==
    ASSUME TypeInv, HistInv, [Next]_vars
    PROVE  \A tag \in Tags : Whole(tag)' /\ overlays[tag].version <= overlays'[tag].version
<1>0. TypeOK /\ \A tag \in Tags : Whole(tag) /\ overlays[tag].version \in Nat
  BY StagedImportAssumption DEF TypeInv, TypeOK, HistInv, Overlays
<1>1. ASSUME UNCHANGED revisions,
             \A tag \in Tags : /\ overlays'[tag].version = overlays[tag].version
                               /\ overlays'[tag].content = overlays[tag].content
      PROVE  \A tag \in Tags : Whole(tag)' /\ overlays[tag].version <= overlays'[tag].version
  BY <1>0, <1>1 DEF Whole, RevisionsOf
<1>2. ASSUME NEW t \in Tokens, Staging(t) PROVE UNCHANGED catalogue
  BY <1>2, StagingTyped DEF catalogue
<1>3. ASSUME NEW r \in Requests, ReadsOn(r) \/ Convert(r) \/ ApplyScenarios(r) \/ HardStop(r) \/ Fail(r)
      PROVE  UNCHANGED catalogue
  BY <1>3, ReadsOnTyped, SavesScenarios, StopsHard DEF Fail
<1>4. ASSUME NEW r \in Requests, ApplyOverlays(r)
      PROVE  \A tag \in Tags : Whole(tag)' /\ overlays[tag].version <= overlays'[tag].version
  <2>1. \A tag \in Tags : job[r].saw[tag].version <= overlays[tag].version
    BY <1>4, ImportWrites DEF HistInv, NotAhead
  <2> QED BY <1>0, <1>4, <2>1, ImportWrites, WholeStays
<1>5. ASSUME WritesOverlays
      PROVE  \A tag \in Tags : Whole(tag)' /\ overlays[tag].version <= overlays'[tag].version
  <2>1. ASSUME NEW tag \in Tags, NEW c \in Contents, WriteOverlays({tag}, overlays, c)
        PROVE  \A u \in Tags : Whole(u)' /\ overlays[u].version <= overlays'[u].version
    <3>1. \A u \in Tags : overlays[u].version <= overlays[u].version
      BY <1>0
    <3> QED BY <1>0, <2>1, <3>1, WholeStays DEF TypeOK
  <2>2. ASSUME NEW r \in Requests, NEW tag \in Tags, NEW c \in Contents, pc[r] = "editing",
               job[r].saw \in [Tags -> Overlays], WriteOverlays({tag}, job[r].saw, c)
        PROVE  \A u \in Tags : Whole(u)' /\ overlays[u].version <= overlays'[u].version
    <3>1. \A u \in Tags : job[r].saw[u].version <= overlays[u].version
      BY <2>2 DEF HistInv, NotAhead
    <3> QED BY <1>0, <2>2, <3>1, WholeStays
  <2> QED BY <1>1, <1>5, <2>1, <2>2, EditWrites
<1>6. ASSUME WritesBand PROVE UNCHANGED catalogue
  BY <1>6, BandMoves
<1>7. UNCHANGED catalogue => \A tag \in Tags : Whole(tag)' /\ overlays[tag].version <= overlays'[tag].version
  BY <1>1 DEF catalogue
<1> QED BY <1>2, <1>3, <1>4, <1>5, <1>6, <1>7, Cases DEF vars, catalogue, Confirms

LEMMA HistStep == TypeInv /\ HistInv /\ [Next]_vars => HistInv'
<1> SUFFICES ASSUME TypeInv, HistInv, [Next]_vars PROVE HistInv'
  OBVIOUS
<1>1. \A tag \in Tags : Whole(tag)' /\ overlays[tag].version <= overlays'[tag].version
  BY CatalogueMoves
<1>2. TypeInv'
  BY TypeStep
<1>3. \A tag \in Tags : overlays[tag].version \in Nat /\ overlays'[tag].version \in Nat
  BY <1>2, StagedImportAssumption DEF TypeInv, TypeOK, Overlays
<1>4. ASSUME NEW r \in Requests PROVE NotAhead(r)'
  <2>1. CASE (pc'[r] = pc[r] /\ job'[r] = job[r]) \/ pc'[r] = "idle"
    <3> SUFFICES ASSUME pc'[r] \in {"tagged", "editing"}, NEW tag \in Tags
                 PROVE  job'[r].saw[tag].version <= overlays'[tag].version
      BY DEF NotAhead
    <3>1. pc[r] \in {"tagged", "editing"} /\ job'[r] = job[r]
      BY <2>1
    <3>2. job[r].saw[tag].version \in Nat /\ job[r].saw[tag].version <= overlays[tag].version
      BY <3>1, StagedImportAssumption DEF TypeInv, JobOK, HistInv, NotAhead, Overlays
    <3> QED BY <1>1, <1>3, <3>1, <3>2
  <2>2. CASE Learns(r) /\ UNCHANGED catalogue
    BY <1>3, <2>2 DEF Learns, NotAhead, catalogue
  <2> QED BY <2>1, <2>2, Shape DEF catalogue
<1> QED BY <1>1, <1>4 DEF HistInv

-----------------------------------------------------------------------------
(* The theorems.                                                            *)

Inv == TypeInv /\ TokenInv /\ NameInv /\ ProvInv /\ HistInv

LEMMA InitInv == Init => Inv
<1> SUFFICES ASSUME Init PROVE Inv
  OBVIOUS
<1>1. /\ preview \in [Tokens -> Previews] /\ pc \in [Requests -> Places] /\ job \in [Requests -> Jobs]
      /\ \A r \in Requests : pc[r] = "idle"
      /\ \A t \in Tokens : preview[t].stage = "new" /\ preview[t].file = Nothing
  BY NoJobTyped DEF Init, Previews, Stages, Places
<1>2. /\ scenarios \subseteq Scenarios
      /\ \A s \in scenarios : s.from = 0 /\ s.at = 0 /\ s.seen = 0
  BY DEF Init, Authored, Scenarios
<1>3. /\ band \in [live : BOOLEAN, id : Nat, version : Nat]
      /\ views = <<0>> \/ views = <<1>>
      /\ views[1] = Version
  <2>1. CASE band = [live |-> FALSE, id |-> 0, version |-> 0] /\ views = <<0>>
    BY <2>1 DEF Version
  <2>2. CASE band = [live |-> TRUE, id |-> 1, version |-> 1] /\ views = <<1>>
    BY <2>2 DEF Version
  <2> QED BY <2>1, <2>2 DEF Init
<1>4. views \in Seq(Nat) /\ Len(views) = 1
  <2>1. CASE views = <<0>>
    BY <2>1
  <2>2. CASE views = <<1>>
    BY <2>2
  <2> QED BY <1>3, <2>1, <2>2
<1>5. PICK seeded \in {{}, Tags} :
        /\ overlays = [tag \in Tags |-> IF tag \in seeded THEN Seeded ELSE NoOverlay]
        /\ revisions = {[tag |-> tag, version |-> 1, content |-> Seeded.content] : tag \in seeded}
  BY DEF Init
<1>6. NoOverlay \in Overlays /\ NoOverlay.version = 0 /\ NoOverlay.content \in Contents
  <2>1. (CHOOSE c \in Contents : TRUE) \in Contents
    BY StagedImportAssumption, Zenon
  <2> QED BY <2>1, StagedImportAssumption DEF NoOverlay, Overlays
<1>7. Seeded \in Overlays /\ Seeded.version = 1 /\ Seeded.content \in Contents
  <2>1. 1 \in 0 .. MaxVersions
    BY StagedImportAssumption
  <2> QED BY <1>6, <2>1 DEF Seeded, Overlays
<1>8. overlays \in [Tags -> Overlays] /\ revisions \subseteq Revisions
  BY <1>5, <1>6, <1>7 DEF Revisions
<1>9. TypeInv
  <2>1. TypeOK
    BY <1>1, <1>2, <1>3, <1>4, <1>8, StagedImportAssumption DEF Init, TypeOK
  <2>2. (\A r \in Requests : JobOK(r)) /\ \A t \in Tokens : PreviewOK(t)
    BY <1>1 DEF JobOK, PreviewOK, Reads, Converting, Importing, Applying
  <2> QED BY <2>1, <2>2 DEF TypeInv
<1>10. TokenInv
  BY <1>1 DEF Init, TokenInv, ReadBefore, TokenSpent, Reads, Converting, Importing, Applying
<1>11. NameInv
  BY <1>1, <1>2 DEF Init, NameInv, ChosenFresh, NoBlindDuplicate
<1>12. ProvInv
  BY <1>1, <1>2, <1>3, <1>4 DEF ProvInv, PinInTime, ProvenanceInTime, Converting
<1>13. HistInv
  <2>1. ASSUME NEW tag \in Tags PROVE Whole(tag)
    <3>1. CASE tag \in seeded
      <4> DEFINE only == [tag |-> tag, version |-> 1, content |-> Seeded.content]
      <4>1. RevisionsOf(tag) = {only} /\ only.version = 1
        BY <1>5, <3>1 DEF RevisionsOf
      <4>2. overlays[tag].version = 1 /\ overlays[tag].content = Seeded.content
        BY <1>5, <1>7, <3>1
      <4>3. IsFiniteSet({only}) /\ Cardinality({only}) = 1
        BY FS_Singleton
      <4>4. {rev.version : rev \in {only}} = {1} /\ 1 .. 1 = {1}
        OBVIOUS
      <4> QED BY <4>1, <4>2, <4>3, <4>4 DEF Whole
    <3>2. CASE tag \notin seeded
      <4>1. RevisionsOf(tag) = {} /\ overlays[tag].version = 0
        BY <1>5, <1>6, <3>2 DEF RevisionsOf
      <4> QED BY <4>1, FS_EmptySet DEF Whole
    <3> QED BY <3>1, <3>2
  <2>2. \A r \in Requests : NotAhead(r)
    BY <1>1 DEF NotAhead
  <2> QED BY <2>1, <2>2 DEF HistInv
<1> QED BY <1>9, <1>10, <1>11, <1>12, <1>13 DEF Inv

LEMMA Invariant == Spec => []Inv
<1>1. Inv /\ [Next]_vars => Inv'
  BY TypeStep, TokenStep, NameStep, ProvStep, HistStep DEF Inv
<1> QED BY <1>1, InitInv, PTL DEF Spec

\* Every variable has its type, so that no scenario is named by a tag and no revision is of
\* a name: for any files whose rows fit their columns, whichever flow staged them and
\* whichever route they are confirmed at.
THEOREM TypeCorrect == Spec => []TypeOK
<1>1. Inv => TypeOK
  BY DEF Inv, TypeInv
<1> QED BY <1>1, Invariant, PTL

\* A name or a register row that was there when a confirmation looked is not made again,
\* nor one of the file's own: whatever other imports commit meanwhile.
THEOREM NamesStayApart == Spec => []NoBlindDuplicate
<1>1. Inv => NoBlindDuplicate
  BY DEF Inv, NameInv
<1> QED BY <1>1, Invariant, PTL

\* Of two confirmations of one token, the later has read before the earlier committed:
\* after it, the token is dead.
THEOREM TokensDie == Spec => []TokenSpent
<1>1. Inv => TokenSpent
  BY DEF Inv, TokenInv
<1> QED BY <1>1, Invariant, PTL

\* The band version kept with a converted scenario was effective at a moment of its
\* conversion, however often the bands change.
THEOREM PinsAreOfTheTime == Spec => []ProvenanceInTime
<1>1. Inv => ProvenanceInTime
  BY DEF Inv, ProvInv
<1> QED BY <1>1, Invariant, PTL

\* The revisions of an overlay are its versions, each once, and the last is what it says:
\* for any number of overlapping edits and imports.
THEOREM HistoriesAreWhole == Spec => []HistoryWhole
<1>1. ASSUME HistInv PROVE HistoryWhole
  BY <1>1 DEF HistInv, Whole, RevisionsOf, HistoryWhole
<1>2. Inv => HistoryWhole
  BY <1>1 DEF Inv
<1> QED BY <1>2, Invariant, PTL
===========================================================================
