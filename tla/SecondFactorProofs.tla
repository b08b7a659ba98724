---------------------------- MODULE SecondFactorProofs ----------------------------
(***************************************************************************)
(* Proofs about SecondFactor, for any number of overlapping requests,      *)
(* passkeys and challenges, and any lifetimes whose slack covers a request.*)
(***************************************************************************)
EXTENDS SecondFactor, TLAPS

-----------------------------------------------------------------------------
(* Types                                                                   *)

Places == {"idle", "totp", "code"} \cup Ceremonies \cup Enrolments

\* What a request carries, by what it is doing.
Fits(op, j) ==
    /\ op \in Enrolments => j.seen \in Copies
    /\ op = "totp" => j.on \in {"totp"} \X Nat \X Nat
    /\ op = "code" => \E b \in Batches : j.on = Recovery(b)
    /\ op \in Ceremonies => \E ch \in Challenges : j.on = Challenge(ch)
    /\ op \in {"register", "delete"} => j.key \in Passkeys

\* What is in the database, and the counters beside it.
DataTyped ==
    /\ totp \in TotpRows \cup {Nothing}
    /\ code \in [Batches -> {"none", "unused", "used", "deleted"}]
    /\ passkey \subseteq Passkeys
    /\ enrolled \in BOOLEAN
    /\ minted \in [Challenges -> Nat \cup {Nothing}]
    /\ claim \in [Challenges -> Claims \cup {Nothing}]
    /\ secrets \in 0 .. MaxSecrets
    /\ replayed \subseteq Challenges
    /\ audits \in [Challenges -> Nat]

LEMMA Typed ==
    /\ TypeOK => DataTyped /\ clock \in 0 .. MaxClock /\ clock \in Nat
    /\ TypeOK => \A r \in Requests : Fits(pc[r], job[r]) /\ job[r] \in Jobs /\ pc[r] \in Places
  BY SecondFactorAssumption DEF TypeOK, DataTyped, Fits, Places

LEMMA CopyTyped ==
    ASSUME DataTyped, NEW op
    PROVE  Copy(op) \in Copies
  BY DEF DataTyped, Copy, Copies, Rows

\* A request starts with what it carries.
LEMMA OpenTyped ==
    ASSUME TypeOK, NEW r \in Requests, NEW op \in Places \ {"idle"}, NEW j \in Jobs,
           Open(r, op, j), Fits(op, j)
    PROVE  TypeOK'
  <1>1. /\ pc' \in [Requests -> Places] /\ job' \in [Requests -> Jobs]
        /\ \A q \in Requests : Fits(pc[q], job[q])
    BY Typed DEF Open, TypeOK, Places
  <1>2. \A q \in Requests : Fits(pc'[q], job'[q])
    BY <1>1 DEF Open, TypeOK
  <1>3. overtaken' \subseteq InFlight'
    BY DEF Open, InFlight, TypeOK
  <1> QED
    BY <1>1, <1>2, <1>3 DEF Open, TypeOK, Fits, Places, factors, ceremonies

\* A request ends; what is left to show is what it has written.
LEMMA EndTyped ==
    ASSUME TypeOK, NEW r \in Requests, End(r), Leave(r) \/ Change(r), DataTyped'
    PROVE  TypeOK'
  <1>0. NoJob \in Jobs /\ Fits("idle", NoJob)
    BY DEF NoJob, Jobs, Fits, Enrolments, Ceremonies
  <1>1. /\ pc' \in [Requests -> Places] /\ job' \in [Requests -> Jobs]
        /\ \A q \in Requests : Fits(pc[q], job[q])
    BY <1>0, Typed DEF End, TypeOK, Places
  <1>2. \A q \in Requests : Fits(pc'[q], job'[q])
    BY <1>0, <1>1 DEF End, TypeOK
  <1>3. overtaken' \subseteq InFlight' /\ stale' \in BOOLEAN
    BY DEF End, Leave, Change, InFlight, TypeOK
  <1> QED
    BY <1>1, <1>2, <1>3 DEF End, TypeOK, Fits, Places, DataTyped

\* The steps that begin a request.
Opens(r) ==
    \/ \E step \in Steps : OpenTotp(r, step)
    \/ \E b \in Batches : OpenRecovery(r, b)
    \/ \E ch \in Challenges : OpenAssertion(r, ch)
    \/ \E ch \in Challenges, k \in Passkeys : OpenRegistration(r, ch, k)
    \/ \E k \in Passkeys : OpenDelete(r, k)
    \/ \E op \in {"enrol", "generate", "reset"} : OpenEnrolment(r, op)

\* Those that end one.
Ends(r) ==
    \/ ClaimTotp(r) \/ ClaimRecovery(r) \/ AcceptAssertion(r) \/ RegisterPasskey(r)
    \/ RefuseReplay(r) \/ DeletePasskey(r) \/ EnrolTotp(r) \/ GenerateCodes(r)
    \/ ResetFactors(r) \/ GiveUp(r)

LEMMA Kinds ==
    ASSUME Next
    PROVE  \/ \E r \in Requests : Opens(r) \/ Ends(r)
           \/ \E ch \in Challenges : MintChallenge(ch) \/ SweepClaim(ch)
           \/ Tick
  BY DEF Next, RequestStep, Opens, Ends

\* What each beginning leaves in the request.
LEMMA OpenedWith ==
    ASSUME TypeOK, NEW r \in Requests, Opens(r)
    PROVE  \E op \in Places \ {"idle"}, j \in Jobs :
             /\ Open(r, op, j) /\ Fits(op, j)
             /\ op \in Enrolments => j.seen = Copy(op)
             /\ op = "totp" => totp # Nothing /\ j.on[2] = totp.secret
             /\ op \in Ceremonies => \E ch \in Challenges :
                  j.on = Challenge(ch) /\ CookieAlive(ch) /\ j.at = clock
  <1>0. DataTyped /\ clock \in Nat
    BY Typed
  <1>1. ASSUME NEW step \in Steps, OpenTotp(r, step)
        PROVE  \E j \in Jobs : /\ Open(r, "totp", j) /\ Fits("totp", j)
                               /\ totp # Nothing /\ j.on[2] = totp.secret
    <2> DEFINE j == [NoJob EXCEPT !.on = Step(totp.secret, step)]
    <2>1. step \in Nat
      BY <1>0, SecondFactorAssumption DEF Steps, Now
    <2>2. totp # Nothing /\ totp.secret \in Nat
      BY <1>0, <1>1 DEF OpenTotp, DataTyped, TotpRows
    <2>3. Step(totp.secret, step) \in {"totp"} \X Nat \X Nat
      BY <2>1, <2>2 DEF Step
    <2>4. j = [on |-> Step(totp.secret, step), at |-> 0, key |-> Nothing, seen |-> Nothing]
      BY DEF NoJob
    <2>5. j \in Jobs /\ j.on = Step(totp.secret, step)
      BY <2>3, <2>4 DEF Jobs, Proofs
    <2>6. j.on[2] = totp.secret
      BY <2>5 DEF Step
    <2> HIDE DEF j
    <2> QED
      BY <1>1, <2>2, <2>3, <2>5, <2>6 DEF OpenTotp, Fits, Enrolments, Ceremonies, j
  <1>2. ASSUME NEW b \in Batches, OpenRecovery(r, b)
        PROVE  \E j \in Jobs : Open(r, "code", j) /\ Fits("code", j)
    <2> DEFINE j == [NoJob EXCEPT !.on = Recovery(b)]
    <2>1. j \in Jobs /\ j.on = Recovery(b)
      BY DEF NoJob, Jobs, Proofs
    <2> QED
      BY <1>2, <2>1 DEF OpenRecovery, Fits, Enrolments, Ceremonies
  <1>3. ASSUME NEW ch \in Challenges, OpenAssertion(r, ch)
        PROVE  \E j \in Jobs : /\ Open(r, "assert", j) /\ Fits("assert", j)
                               /\ j.on = Challenge(ch) /\ CookieAlive(ch) /\ j.at = clock
    <2> DEFINE j == [NoJob EXCEPT !.on = Challenge(ch), !.at = clock]
    <2>1. j \in Jobs /\ j.on = Challenge(ch) /\ j.at = clock
      BY <1>0 DEF NoJob, Jobs, Proofs
    <2> QED
      BY <1>3, <2>1 DEF OpenAssertion, Fits, Enrolments, Ceremonies
  <1>4. ASSUME NEW ch \in Challenges, NEW k \in Passkeys, OpenRegistration(r, ch, k)
        PROVE  \E j \in Jobs : /\ Open(r, "register", j) /\ Fits("register", j)
                               /\ j.seen = Copy("register")
                               /\ j.on = Challenge(ch) /\ CookieAlive(ch) /\ j.at = clock
    <2> DEFINE j == [on |-> Challenge(ch), at |-> clock, key |-> k, seen |-> Copy("register")]
    <2>1. Copy("register") \in Copies
      BY <1>0, CopyTyped
    <2>2. j \in Jobs
      BY <1>0, <2>1 DEF Jobs, Proofs
    <2>3. Fits("register", j)
      BY <2>1 DEF Fits
    <2> QED
      BY <1>4, <2>2, <2>3 DEF OpenRegistration
  <1>5. ASSUME NEW k \in Passkeys, OpenDelete(r, k)
        PROVE  \E j \in Jobs : /\ Open(r, "delete", j) /\ Fits("delete", j)
                               /\ j.seen = Copy("delete")
    <2> DEFINE j == [NoJob EXCEPT !.key = k, !.seen = Copy("delete")]
    <2>1. Copy("delete") \in Copies
      BY <1>0, CopyTyped
    <2>2. j \in Jobs /\ j.seen = Copy("delete") /\ j.key = k
      BY <2>1 DEF NoJob, Jobs
    <2> QED
      BY <1>5, <2>1, <2>2 DEF OpenDelete, Fits, Ceremonies
  <1>6. ASSUME NEW op \in {"enrol", "generate", "reset"}, OpenEnrolment(r, op)
        PROVE  \E j \in Jobs : Open(r, op, j) /\ Fits(op, j) /\ j.seen = Copy(op)
    <2> DEFINE j == [NoJob EXCEPT !.seen = Copy(op)]
    <2>1. Copy(op) \in Copies
      BY <1>0, CopyTyped
    <2>2. j \in Jobs /\ j.seen = Copy(op)
      BY <2>1 DEF NoJob, Jobs
    <2> QED
      BY <1>6, <2>1, <2>2 DEF OpenEnrolment, Fits, Ceremonies
  <1> QED
    BY <1>1, <1>2, <1>3, <1>4, <1>5, <1>6 DEF Opens, Places, Ceremonies, Enrolments

\* What each end writes has its type.
LEMMA EndsTyped ==
    ASSUME TypeOK, NEW r \in Requests, Ends(r)
    PROVE  /\ DataTyped' /\ End(r) /\ pc[r] # "idle"
           /\ Leave(r) \/ Change(r)
  <1>0. /\ DataTyped /\ clock \in Nat /\ Fits(pc[r], job[r]) /\ secrets \in Nat
        /\ {Ttl, Slack} \subseteq Nat
    BY Typed, SecondFactorAssumption DEF DataTyped
  <1>1. ASSUME NEW ch \in Challenges, Consume(r, ch)
        PROVE  /\ claim' \in [Challenges -> Claims \cup {Nothing}]
               /\ UNCHANGED <<minted, replayed, audits>>
    <2>1. NewClaim \in Claims
      BY <1>0 DEF NewClaim, Claims
    <2> QED
      BY <1>0, <1>1, <2>1 DEF Consume, DataTyped
  <1>2. CASE ClaimTotp(r)
    <2>1. totp # Nothing /\ job[r].on[3] \in Nat
      BY <1>0, <1>2 DEF ClaimTotp, StepFree, Fits
    <2>2. totp' \in TotpRows
      BY <1>0, <1>2, <2>1 DEF ClaimTotp, DataTyped, TotpRows
    <2> QED
      BY <1>0, <1>2, <2>2 DEF ClaimTotp, DataTyped, ceremonies
  <1>3. CASE ClaimRecovery(r)
    BY <1>0, <1>3 DEF ClaimRecovery, DataTyped, factors, ceremonies
  <1>4. CASE AcceptAssertion(r)
    <2>1. job[r].on[2] \in Challenges
      BY <1>0, <1>4 DEF AcceptAssertion, Fits, Ceremonies, Challenge
    <2> QED
      BY <1>0, <1>1, <1>4, <2>1 DEF AcceptAssertion, DataTyped, factors
  <1>5. CASE RegisterPasskey(r)
    <2>1. job[r].on[2] \in Challenges /\ job[r].key \in Passkeys
      BY <1>0, <1>5 DEF RegisterPasskey, Fits, Ceremonies, Challenge
    <2>2. /\ passkey' \subseteq Passkeys /\ enrolled' \in BOOLEAN
          /\ Leave(r) \/ Change(r)
      BY <1>0, <1>5, <2>1 DEF RegisterPasskey, DataTyped, Stamp
    <2> QED
      BY <1>0, <1>1, <1>5, <2>1, <2>2 DEF RegisterPasskey, DataTyped
  <1>6. CASE RefuseReplay(r)
    <2> DEFINE ch == job[r].on[2]
    <2>1. ch \in Challenges
      BY <1>0, <1>6 DEF RefuseReplay, Fits, Ceremonies, Challenge
    <2>2. claim[ch] \in Claims
      BY <1>0, <1>6, <2>1 DEF RefuseReplay, DataTyped
    <2> HIDE DEF ch
    <2>3. /\ claim' = [claim EXCEPT ![ch].audited = TRUE]
          /\ audits' = [audits EXCEPT ![ch] = @ + IF AuditDue(claim[ch]) THEN 1 ELSE 0]
          /\ replayed' = replayed \cup {ch}
      BY <1>6 DEF RefuseReplay, ch
    <2>4. /\ claim' \in [Challenges -> Claims \cup {Nothing}]
          /\ audits' \in [Challenges -> Nat] /\ replayed' \subseteq Challenges
      <3>1. [claim[ch] EXCEPT !.audited = TRUE] \in Claims
        BY <2>2 DEF Claims
      <3>2. claim' = [claim EXCEPT ![ch] = [claim[ch] EXCEPT !.audited = TRUE]]
        BY <2>3
      <3>3. claim' \in [Challenges -> Claims \cup {Nothing}]
        BY <1>0, <2>1, <3>1, <3>2 DEF DataTyped
      <3>4. audits' \in [Challenges -> Nat]
        BY <1>0, <2>1, <2>3 DEF DataTyped
      <3> QED
        BY <1>0, <2>1, <2>3, <3>3, <3>4 DEF DataTyped
    <2> QED
      BY <1>0, <1>6, <2>4 DEF RefuseReplay, DataTyped, factors, Ceremonies
  <1>7. CASE DeletePasskey(r)
    BY <1>0, <1>7 DEF DeletePasskey, DataTyped, ceremonies, Unstamp
  <1>8. CASE EnrolTotp(r)
    <2>1. totp' \in TotpRows /\ secrets' \in 0 .. MaxSecrets /\ enrolled' \in BOOLEAN
      BY <1>0, <1>8, SecondFactorAssumption DEF EnrolTotp, DataTyped, TotpRows, Stamp
    <2> QED
      BY <1>0, <1>8, <2>1 DEF EnrolTotp, DataTyped, ceremonies
  <1>9. CASE GenerateCodes(r)
    <2>1. code' \in [Batches -> {"none", "unused", "used", "deleted"}]
      BY <1>0, <1>9 DEF GenerateCodes, DataTyped
    <2>2. enrolled' \in BOOLEAN
      BY <1>0, <1>9 DEF GenerateCodes, DataTyped, Stamp
    <2> QED
      BY <1>0, <1>9, <2>1, <2>2 DEF GenerateCodes, DataTyped, ceremonies
  <1>10. CASE ResetFactors(r)
    BY <1>0, <1>10 DEF ResetFactors, DataTyped, ceremonies
  <1>11. CASE GiveUp(r)
    BY <1>0, <1>11 DEF GiveUp, DataTyped, factors, ceremonies
  <1> QED
    BY <1>2, <1>3, <1>4, <1>5, <1>6, <1>7, <1>8, <1>9, <1>10, <1>11 DEF Ends

LEMMA TypeStep ==
    ASSUME TypeOK, Next
    PROVE  TypeOK'
  <1>1. ASSUME NEW r \in Requests, Opens(r)
        PROVE  TypeOK'
    BY <1>1, OpenedWith, OpenTyped
  <1>2. ASSUME NEW r \in Requests, Ends(r)
        PROVE  TypeOK'
    BY <1>2, EndsTyped, EndTyped
  <1>3. ASSUME NEW ch \in Challenges, MintChallenge(ch)
        PROVE  TypeOK'
    <2>1. minted' \in [Challenges -> Nat \cup {Nothing}]
      BY <1>3, Typed DEF MintChallenge, DataTyped
    <2> QED
      BY <1>3, <2>1 DEF MintChallenge, TypeOK, InFlight, factors
  <1>4. ASSUME NEW ch \in Challenges, SweepClaim(ch)
        PROVE  TypeOK'
    BY <1>4 DEF SweepClaim, TypeOK, InFlight, factors
  <1>5. CASE Tick
    BY <1>5, SecondFactorAssumption DEF Tick, TypeOK, InFlight, factors, ceremonies
  <1> QED
    BY <1>1, <1>2, <1>3, <1>4, <1>5, Kinds

\* Every variable keeps its type.
THEOREM TypeCorrect == Spec => []TypeOK
  <1>1. ASSUME Init
        PROVE  TypeOK
    <2> USE <1>1 DEF Init
    <2>1. job \in [Requests -> Jobs]
      BY DEF NoJob, Jobs
    <2>2. clock \in 0 .. MaxClock /\ secrets \in 0 .. MaxSecrets
      BY SecondFactorAssumption
    <2>3. \A r \in Requests : pc[r] = "idle"
      OBVIOUS
    <2>4. overtaken \subseteq InFlight
      OBVIOUS
    <2>5. /\ totp \in TotpRows \cup {Nothing}
          /\ code \in [Batches -> {"none", "unused", "used", "deleted"}]
          /\ passkey \subseteq Passkeys /\ enrolled \in BOOLEAN
          /\ minted \in [Challenges -> Nat \cup {Nothing}]
          /\ claim \in [Challenges -> Claims \cup {Nothing}]
          /\ replayed \subseteq Challenges /\ audits \in [Challenges -> Nat] /\ stale \in BOOLEAN
      OBVIOUS
    <2> QED
      BY <2>1, <2>2, <2>3, <2>4, <2>5 DEF TypeOK, Ceremonies, Enrolments
  <1>2. TypeOK /\ UNCHANGED vars => TypeOK'
    BY DEF TypeOK, vars, InFlight
  <1> QED
    BY <1>1, <1>2, TypeStep, PTL DEF Spec

-----------------------------------------------------------------------------
(* How requests move                                                       *)

LEMMA OpenMoves ==
    ASSUME TypeOK, NEW r \in Requests, NEW op, NEW j, Open(r, op, j)
    PROVE  /\ pc[r] = "idle" /\ pc'[r] = op /\ job'[r] = j /\ r \notin overtaken
           /\ \A q \in Requests \ {r} : pc'[q] = pc[q] /\ job'[q] = job[q]
           /\ UNCHANGED <<clock, totp, code, passkey, enrolled, secrets, minted, claim,
                          replayed, audits, accepted, reused, stale, overtaken>>
  BY DEF Open, TypeOK, InFlight, factors, ceremonies, ghosts

LEMMA EndMoves ==
    ASSUME TypeOK, NEW r \in Requests, End(r)
    PROVE  /\ pc'[r] = "idle" /\ clock' = clock
           /\ \A q \in Requests \ {r} : pc'[q] = pc[q] /\ job'[q] = job[q]
  BY DEF End, TypeOK

\* The others are as overtaken as before, or all of them are.
LEMMA Overtakes ==
    ASSUME TypeOK, NEW r \in Requests, End(r)
    PROVE  /\ Leave(r) => stale' = stale /\ \A q \in Requests \ {r} : q \in overtaken' <=> q \in overtaken
           /\ Change(r) => /\ stale' = (stale \/ r \in overtaken)
                          /\ \A q \in Requests \ {r} : pc[q] # "idle" => q \in overtaken'
  BY DEF Leave, Change, InFlight

\* No proof is of two kinds.
LEMMA ProofsDiffer ==
    /\ \A a, b, c, d : Step(a, b) = Step(c, d) => a = c /\ b = d
    /\ \A a, b, c : Step(a, b) # Recovery(c) /\ Step(a, b) # Challenge(c)
    /\ \A a, b : Recovery(a) # Challenge(b)
    /\ \A a, b : (Recovery(a) = Recovery(b) => a = b) /\ (Challenge(a) = Challenge(b) => a = b)
    /\ \A a, b : Step(a, b)[1] = "totp" /\ Recovery(a)[1] = "code" /\ Challenge(a)[1] = "challenge"
  BY DEF Step, Recovery, Challenge

-----------------------------------------------------------------------------
(* TOTP steps and recovery codes                                           *)

\* The row's last step is at least every step accepted of its secret, and no
\* secret is given out twice.
StepsCounted ==
    /\ totp # Nothing => totp.secret <= secrets
    /\ \A sec, k \in Nat : Step(sec, k) \in accepted =>
          sec <= secrets /\ (totp # Nothing /\ totp.secret = sec => k <= totp.last)

\* A request with a TOTP step that no enrolment has overtaken is about the
\* secret of the row.
OfThisSecret(r) ==
    pc[r] = "totp" =>
        /\ job[r].on[2] <= secrets
        /\ r \notin overtaken => totp # Nothing /\ totp.secret = job[r].on[2]

CodesGone == \A b \in Batches : Recovery(b) \in accepted => code[b] \in {"used", "deleted"}

CodesOnce ==
    /\ CodesSpentOnce /\ StepsCounted /\ CodesGone
    /\ \A r \in Requests : OfThisSecret(r)

\* Steps that touch neither the row, nor a code that is used up.
LEMMA CodesUntouched ==
    ASSUME CodesOnce, totp' = totp, secrets' = secrets,
           \A b \in Batches : code[b] \in {"used", "deleted"} => code'[b] \in {"used", "deleted"},
           \A a, k : Step(a, k) \in accepted' => Step(a, k) \in accepted,
           \A b \in Batches : Recovery(b) \in accepted' =>
              Recovery(b) \in accepted \/ code'[b] \in {"used", "deleted"},
           \A proof \in reused' : proof \in reused \/ proof[1] = "challenge",
           \A q \in Requests : pc'[q] = "totp" =>
              pc[q] = "totp" /\ job'[q] = job[q] /\ (q \notin overtaken' => q \notin overtaken)
    PROVE  CodesOnce'
  BY DEF CodesOnce, CodesSpentOnce, StepsCounted, CodesGone, OfThisSecret

LEMMA CodesStep ==
    ASSUME TypeOK, CodesOnce, Next
    PROVE  CodesOnce'
  <1>0. /\ DataTyped /\ secrets \in Nat
        /\ \A r \in Requests : Fits(pc[r], job[r])
    BY Typed, SecondFactorAssumption DEF DataTyped
  <1>1. ASSUME NEW r \in Requests, Opens(r)
        PROVE  CodesOnce'
    <2>1. PICK op \in Places \ {"idle"}, j \in Jobs :
            /\ Open(r, op, j)
            /\ op = "totp" => totp # Nothing /\ j.on[2] = totp.secret
      BY <1>1, OpenedWith
    <2>2. /\ pc'[r] = op /\ job'[r] = j
          /\ \A q \in Requests \ {r} : pc'[q] = pc[q] /\ job'[q] = job[q]
          /\ UNCHANGED <<totp, code, secrets, accepted, reused, overtaken>>
      BY <2>1, OpenMoves
    <2>3. \A q \in Requests : OfThisSecret(q)'
      BY <2>1, <2>2 DEF CodesOnce, StepsCounted, OfThisSecret
    <2> QED
      BY <2>2, <2>3 DEF CodesOnce, CodesSpentOnce, StepsCounted, CodesGone
  <1>2. ASSUME NEW r \in Requests, Ends(r)
        PROVE  CodesOnce'
    <2>0. /\ End(r) /\ (Leave(r) \/ Change(r)) /\ pc'[r] = "idle"
          /\ \A q \in Requests \ {r} : pc'[q] = pc[q] /\ job'[q] = job[q]
      BY <1>2, EndsTyped, EndMoves
    <2>1. \A q \in Requests : pc'[q] = "totp" =>
            /\ pc[q] = "totp" /\ job'[q] = job[q] /\ q # r
            /\ q \notin overtaken' => q \notin overtaken /\ ~Change(r)
      BY <2>0, Overtakes
    <2>2. CASE ClaimTotp(r)
      <3> DEFINE sec == job[r].on[2]
                 k == job[r].on[3]
      <3>1. sec \in Nat /\ k \in Nat /\ job[r].on = Step(sec, k) /\ pc[r] = "totp"
        BY <1>0, <2>2 DEF ClaimTotp, Fits, Step
      <3>2. /\ totp # Nothing /\ totp.last < k /\ totp' = [totp EXCEPT !.last = k]
            /\ accepted' = accepted \cup {Step(sec, k)} /\ UNCHANGED <<code, secrets>>
            /\ reused' = IF Step(sec, k) \in accepted /\ r \notin overtaken
                         THEN reused \cup {Step(sec, k)} ELSE reused
        BY <2>2, <3>1 DEF ClaimTotp, StepFree, Win
      <3>3. sec <= secrets /\ (r \notin overtaken => totp.secret = sec)
        BY <3>1 DEF CodesOnce, OfThisSecret
      <3> HIDE DEF sec, k
      <3>4. totp \in TotpRows /\ totp' # Nothing /\ totp'.secret = totp.secret /\ totp'.last = k
        <4>1. totp \in TotpRows
          BY <1>0, <3>2 DEF DataTyped
        <4>2. totp' \in TotpRows /\ totp'.secret = totp.secret /\ totp'.last = k
          BY <3>1, <3>2, <4>1 DEF TotpRows
        <4> QED
          BY <4>1, <4>2, SecondFactorAssumption DEF TotpRows
      <3>5. Step(sec, k) \in accepted => r \in overtaken
        BY <3>1, <3>2, <3>3, <3>4 DEF CodesOnce, StepsCounted, TotpRows
      <3>6. StepsCounted'
        BY <1>0, <3>1, <3>2, <3>3, <3>4, ProofsDiffer DEF CodesOnce, StepsCounted, TotpRows
      <3>7. CodesSpentOnce'
        BY <3>2, <3>5 DEF CodesOnce, CodesSpentOnce
      <3>8. CodesGone'
        BY <3>2, ProofsDiffer DEF CodesOnce, CodesGone
      <3>9. \A q \in Requests : OfThisSecret(q)'
        BY <2>1, <3>2, <3>4 DEF CodesOnce, OfThisSecret
      <3> QED
        BY <3>6, <3>7, <3>8, <3>9 DEF CodesOnce
    <2>3. CASE ClaimRecovery(r)
      <3>1. PICK b \in Batches : job[r].on = Recovery(b)
        BY <1>0, <2>3 DEF ClaimRecovery, Fits
      <3>2. job[r].on[2] = b
        BY <3>1 DEF Recovery
      <3>3. /\ code[b] = "unused" /\ code' = [code EXCEPT ![b] = "used"]
            /\ accepted' = accepted \cup {Recovery(b)} /\ UNCHANGED <<totp, secrets>>
            /\ reused' = IF Recovery(b) \in accepted /\ r \notin overtaken
                         THEN reused \cup {Recovery(b)} ELSE reused
        BY <2>3, <3>2 DEF ClaimRecovery, CodeFree, Win, factors
      <3>4. Recovery(b) \notin accepted
        BY <3>3 DEF CodesOnce, CodesGone
      <3>5. /\ \A c \in Batches : code[c] \in {"used", "deleted"} => code'[c] \in {"used", "deleted"}
            /\ code'[b] = "used"
        BY <1>0, <3>3 DEF DataTyped
      <3>6. /\ \A a, c : Step(a, c) \in accepted' => Step(a, c) \in accepted
            /\ \A c \in Batches : Recovery(c) \in accepted' => Recovery(c) \in accepted \/ c = b
        BY <3>3, ProofsDiffer
      <3>7. reused' = reused
        BY <3>3, <3>4
      <3> QED
        BY <2>1, <3>3, <3>5, <3>6, <3>7, CodesUntouched
    <2>4. CASE AcceptAssertion(r) \/ RegisterPasskey(r)
      <3>1. PICK ch : Win(r, Challenge(ch)) /\ UNCHANGED <<totp, code, secrets>>
        BY <2>4 DEF AcceptAssertion, RegisterPasskey, Consume, factors
      <3>2. /\ \A a, k : Step(a, k) \in accepted' => Step(a, k) \in accepted
            /\ \A b \in Batches : Recovery(b) \in accepted' => Recovery(b) \in accepted
            /\ \A proof \in reused' : proof \in reused \/ proof[1] = "challenge"
        BY <3>1, ProofsDiffer DEF Win
      <3> QED
        BY <2>1, <3>1, <3>2, CodesUntouched
    <2>5. CASE RefuseReplay(r) \/ DeletePasskey(r) \/ GiveUp(r)
      <3>1. UNCHANGED <<totp, code, secrets, accepted, reused>>
        BY <2>5 DEF RefuseReplay, DeletePasskey, GiveUp, factors, ghosts
      <3> QED
        BY <2>1, <3>1, CodesUntouched
    <2>6. CASE EnrolTotp(r)
      <3>1. /\ secrets' = secrets + 1 /\ UNCHANGED <<code, accepted, reused>> /\ Change(r)
            /\ totp' = IF totp = Nothing THEN [secret |-> secrets + 1, last |-> 0]
                       ELSE [totp EXCEPT !.secret = secrets + 1]
        BY <2>6 DEF EnrolTotp, ghosts
      <3>2. totp'.secret = secrets + 1
        BY <1>0, <3>1 DEF DataTyped, TotpRows
      <3>3. StepsCounted'
        BY <1>0, <3>1, <3>2 DEF CodesOnce, StepsCounted
      <3>4. \A q \in Requests : pc[q] = "totp" => job[q].on[2] \in Nat
        BY <1>0 DEF Fits
      <3>5. \A q \in Requests : OfThisSecret(q)'
        BY <1>0, <2>1, <3>1, <3>4 DEF CodesOnce, OfThisSecret
      <3> QED
        BY <3>1, <3>3, <3>5 DEF CodesOnce, CodesSpentOnce, CodesGone
    <2>7. CASE GenerateCodes(r)
      <3>1. PICK b \in Batches :
              /\ code[b] = "none"
              /\ code' = [c \in Batches |-> IF c = b THEN "unused"
                                            ELSE IF c \in Replaced(job[r].seen.codes)
                                                 THEN "deleted" ELSE code[c]]
        BY <2>7 DEF GenerateCodes
      <3>2. \A c \in Batches : code[c] \in {"used", "deleted"} => code'[c] \in {"used", "deleted"}
        BY <3>1
      <3>3. UNCHANGED <<totp, secrets, accepted, reused>>
        BY <2>7 DEF GenerateCodes, ghosts
      <3> QED
        BY <2>1, <3>2, <3>3, CodesUntouched
    <2>8. CASE ResetFactors(r)
      <3>1. /\ totp' = Nothing /\ UNCHANGED <<secrets, accepted, reused>> /\ Change(r)
            /\ code' = [b \in Batches |-> IF b \in Rows THEN "deleted" ELSE code[b]]
        BY <2>8 DEF ResetFactors, ghosts
      <3>2. \A q \in Requests : OfThisSecret(q)'
        BY <2>1, <3>1 DEF CodesOnce, OfThisSecret
      <3> QED
        BY <3>1, <3>2 DEF CodesOnce, CodesSpentOnce, StepsCounted, CodesGone
    <2> QED
      BY <1>2, <2>2, <2>3, <2>4, <2>5, <2>6, <2>7, <2>8 DEF Ends
  <1>3. CASE (\E ch \in Challenges : MintChallenge(ch) \/ SweepClaim(ch)) \/ Tick
    <2>1. UNCHANGED <<totp, code, secrets, accepted, reused, overtaken, pc, job>>
      BY <1>3 DEF MintChallenge, SweepClaim, Tick, factors, ghosts
    <2> QED
      BY <2>1, CodesUntouched
  <1> QED
    BY <1>1, <1>2, <1>3, Kinds

\* Of the requests that matched one TOTP step or one recovery code, one has it
\* accepted.
THEOREM CodesOneUse == Spec => []CodesSpentOnce
  <1>1. Init => CodesOnce
    BY DEF Init, CodesOnce, CodesSpentOnce, StepsCounted, CodesGone, OfThisSecret
  <1>2. CodesOnce /\ UNCHANGED vars => CodesOnce'
    BY DEF CodesOnce, CodesSpentOnce, StepsCounted, CodesGone, OfThisSecret, vars
  <1>3. CodesOnce => CodesSpentOnce
    BY DEF CodesOnce
  <1> QED
    BY <1>1, <1>2, <1>3, CodesStep, TypeCorrect, PTL DEF Spec

-----------------------------------------------------------------------------
(* Challenges                                                              *)

Under(r, ch) == pc[r] \in Ceremonies /\ job[r].on = Challenge(ch)

\* A request is about a challenge whose cookie was alive when it was read, and
\* lasts at most Latency.
InTime(r, ch) ==
    /\ minted[ch] # Nothing
    /\ job[r].at <= minted[ch] + Ttl
    /\ clock <= job[r].at + Latency

\* A claim is kept for as long as the cookie can be used, and the time a
\* request takes more.
ClaimKept(ch) ==
    Challenge(ch) \in accepted =>
        /\ minted[ch] # Nothing
        /\ IF claim[ch] # Nothing
           THEN claim[ch].expires >= minted[ch] + Ttl + Slack
           ELSE clock > minted[ch] + Ttl + Slack

\* The flag of a claim says whether a replay was audited, and a challenge has
\* one claim only.
AuditsMatch(ch) ==
    /\ claim[ch] # Nothing => Challenge(ch) \in accepted /\ (claim[ch].audited <=> ch \in replayed)
    /\ ch \in replayed => Challenge(ch) \in accepted
    /\ audits[ch] = IF ch \in replayed THEN 1 ELSE 0

ChallengesOnce ==
    /\ \A ch \in Challenges : minted[ch] # Nothing => minted[ch] <= clock
    /\ \A r \in Requests, ch \in Challenges : Under(r, ch) => InTime(r, ch)
    /\ \A ch \in Challenges : ClaimKept(ch) /\ AuditsMatch(ch) /\ Challenge(ch) \notin reused

LEMMA Times ==
    ASSUME TypeOK
    PROVE  /\ {clock, Ttl, Slack, Latency} \subseteq Nat /\ Latency <= Slack
           /\ \A ch \in Challenges : minted[ch] # Nothing => minted[ch] \in Nat
           /\ \A ch \in Challenges : claim[ch] # Nothing => claim[ch] \in Claims /\ claim[ch].expires \in Nat
           /\ \A r \in Requests : job[r].at \in Nat
  BY Typed, SecondFactorAssumption DEF DataTyped, Claims, Jobs

\* Nobody is about a challenge whose claim has been swept.
LEMMA SweptQuiet ==
    ASSUME TypeOK, ChallengesOnce, NEW ch \in Challenges,
           Challenge(ch) \in accepted, claim[ch] = Nothing
    PROVE  ~CookieAlive(ch) /\ \A r \in Requests : ~Under(r, ch)
  <1>1. minted[ch] # Nothing /\ clock > minted[ch] + Ttl + Slack
    BY DEF ChallengesOnce, ClaimKept
  <1>2. ~CookieAlive(ch)
    BY <1>1, Times DEF CookieAlive
  <1>3. ASSUME NEW r \in Requests, Under(r, ch)
        PROVE  FALSE
    <2>1. InTime(r, ch)
      BY <1>3 DEF ChallengesOnce
    <2> QED
      BY <1>1, <2>1, Times DEF InTime
  <1> QED
    BY <1>2, <1>3

\* Steps that touch no challenge: some requests end.
LEMMA ChallengesUntouched ==
    ASSUME ChallengesOnce, UNCHANGED <<clock, minted, claim, replayed, audits>>,
           \A ch \in Challenges :
              /\ Challenge(ch) \in accepted' <=> Challenge(ch) \in accepted
              /\ Challenge(ch) \in reused' => Challenge(ch) \in reused,
           \A q \in Requests : pc'[q] \in Ceremonies => pc'[q] = pc[q] /\ job'[q] = job[q]
    PROVE  ChallengesOnce'
  BY DEF ChallengesOnce, Under, InTime, ClaimKept, AuditsMatch

\* A claim is won: it is the challenge's first.
LEMMA ConsumeOnce ==
    ASSUME TypeOK, ChallengesOnce, NEW r \in Requests, NEW ch \in Challenges,
           Under(r, ch), Consume(r, ch), clock' = clock,
           \A q \in Requests : pc'[q] \in Ceremonies => pc'[q] = pc[q] /\ job'[q] = job[q]
    PROVE  ChallengesOnce'
  <1>1. Challenge(ch) \notin accepted
    BY SweptQuiet DEF Consume
  <1>2. InTime(r, ch) /\ ch \notin replayed /\ minted[ch] <= clock
    BY <1>1 DEF ChallengesOnce, AuditsMatch, InTime
  <1>3. /\ claim' = [claim EXCEPT ![ch] = NewClaim] /\ accepted' = accepted \cup {Challenge(ch)}
        /\ reused' = reused /\ UNCHANGED <<minted, replayed, audits>>
    BY <1>1 DEF Consume, Win
  <1>4. claim \in [Challenges -> Claims \cup {Nothing}] /\ NewClaim \in Claims
    BY Times, Typed DEF DataTyped, NewClaim, Claims
  <1>5. NewClaim # Nothing /\ NewClaim.expires = clock + Ttl + Slack /\ ~NewClaim.audited
    BY <1>4, SecondFactorAssumption DEF NewClaim, Claims
  <1>6. ClaimKept(ch)' /\ AuditsMatch(ch)'
    <2>1. claim'[ch] = NewClaim
      BY <1>3, <1>4
    <2>2. minted'[ch] \in Nat /\ minted'[ch] # Nothing /\ minted'[ch] <= clock
      BY <1>2, <1>3, Times DEF InTime
    <2>3. ClaimKept(ch)'
      BY <1>5, <2>1, <2>2, Times DEF ClaimKept
    <2>4. AuditsMatch(ch)'
      BY <1>2, <1>3, <1>5, <2>1 DEF ChallengesOnce, AuditsMatch
    <2> QED
      BY <2>3, <2>4
  <1>7. ASSUME NEW c \in Challenges, c # ch
        PROVE  ClaimKept(c)' /\ AuditsMatch(c)'
    <2>1. claim'[c] = claim[c] /\ (Challenge(c) \in accepted' <=> Challenge(c) \in accepted)
      BY <1>3, <1>4, <1>7, ProofsDiffer
    <2> QED
      BY <1>3, <2>1 DEF ChallengesOnce, ClaimKept, AuditsMatch
  <1> QED
    BY <1>3, <1>6, <1>7 DEF ChallengesOnce, Under, InTime

\* A replay is refused: audited if the claim does not say so yet.
LEMMA ReplayOnce ==
    ASSUME TypeOK, ChallengesOnce, NEW r \in Requests, RefuseReplay(r),
           \A q \in Requests : pc'[q] \in Ceremonies => pc'[q] = pc[q] /\ job'[q] = job[q]
    PROVE  ChallengesOnce'
  <1>1. PICK ch \in Challenges : job[r].on = Challenge(ch)
    BY Typed DEF RefuseReplay, Fits
  <1>2. job[r].on[2] = ch
    BY <1>1 DEF Challenge
  <1>3. /\ claim[ch] # Nothing /\ replayed' = replayed \cup {ch}
        /\ claim' = [claim EXCEPT ![ch].audited = TRUE]
        /\ audits' = [audits EXCEPT ![ch] = @ + IF AuditDue(claim[ch]) THEN 1 ELSE 0]
        /\ UNCHANGED <<clock, minted, accepted, reused>>
    BY <1>2 DEF RefuseReplay, End, ghosts
  <1>4. /\ claim \in [Challenges -> Claims \cup {Nothing}] /\ claim[ch] \in Claims
        /\ audits \in [Challenges -> Nat]
    BY <1>3, Typed DEF DataTyped
  <1>5. /\ claim'[ch] = [claim[ch] EXCEPT !.audited = TRUE]
        /\ \A c \in Challenges \ {ch} : claim'[c] = claim[c] /\ audits'[c] = audits[c]
        /\ audits'[ch] = audits[ch] + IF AuditDue(claim[ch]) THEN 1 ELSE 0
    BY <1>3, <1>4
  <1>6. claim'[ch] # Nothing /\ claim'[ch].expires = claim[ch].expires /\ claim'[ch].audited
    <2>1. claim'[ch] \in Claims /\ claim'[ch].expires = claim[ch].expires /\ claim'[ch].audited
      BY <1>4, <1>5 DEF Claims
    <2> QED
      BY <2>1, SecondFactorAssumption DEF Claims
  <1>7. ClaimKept(ch)'
    BY <1>3, <1>6 DEF ChallengesOnce, ClaimKept
  <1>8. AuditsMatch(ch)'
    <2>1. /\ Challenge(ch) \in accepted /\ (claim[ch].audited <=> ch \in replayed)
          /\ audits[ch] = IF ch \in replayed THEN 1 ELSE 0
      BY <1>3 DEF ChallengesOnce, AuditsMatch
    <2>2. audits'[ch] = 1
      BY <1>5, <2>1 DEF AuditDue
    <2>3. ch \in replayed'
      BY <1>3
    <2> QED
      BY <1>3, <1>6, <2>1, <2>2, <2>3 DEF AuditsMatch
  <1>9. ASSUME NEW c \in Challenges \ {ch}
        PROVE  ClaimKept(c)' /\ AuditsMatch(c)'
    BY <1>3, <1>5 DEF ChallengesOnce, ClaimKept, AuditsMatch
  <1> QED
    BY <1>3, <1>7, <1>8, <1>9 DEF ChallengesOnce, Under, InTime

LEMMA ChallengesStep ==
    ASSUME TypeOK, ChallengesOnce, Next
    PROVE  ChallengesOnce'
  <1>0. \A r \in Requests : Fits(pc[r], job[r])
    BY Typed
  <1>1. ASSUME NEW r \in Requests, Opens(r)
        PROVE  ChallengesOnce'
    <2>1. PICK op \in Places \ {"idle"}, j \in Jobs :
            /\ Open(r, op, j)
            /\ op \in Ceremonies => \E ch \in Challenges :
                  j.on = Challenge(ch) /\ CookieAlive(ch) /\ j.at = clock
      BY <1>1, OpenedWith
    <2>2. /\ pc'[r] = op /\ job'[r] = j
          /\ \A q \in Requests \ {r} : pc'[q] = pc[q] /\ job'[q] = job[q]
          /\ UNCHANGED <<clock, minted, claim, replayed, audits, accepted, reused>>
      BY <2>1, OpenMoves
    <2>3. ASSUME NEW ch \in Challenges, Under(r, ch)'
          PROVE  InTime(r, ch)'
      <3>1. CookieAlive(ch) /\ j.at = clock
        BY <2>1, <2>2, <2>3, ProofsDiffer DEF Under
      <3> QED
        BY <2>2, <3>1, Times DEF CookieAlive, InTime
    <2> QED
      BY <2>2, <2>3 DEF ChallengesOnce, Under, InTime, ClaimKept, AuditsMatch
  <1>2. ASSUME NEW r \in Requests, Ends(r)
        PROVE  ChallengesOnce'
    <2>1. /\ clock' = clock
          /\ \A q \in Requests : pc'[q] \in Ceremonies => pc'[q] = pc[q] /\ job'[q] = job[q]
      BY <1>2, EndsTyped, EndMoves DEF Ceremonies
    <2>2. CASE AcceptAssertion(r) \/ RegisterPasskey(r)
      <3>1. pc[r] \in Ceremonies
        BY <2>2 DEF AcceptAssertion, RegisterPasskey, Ceremonies
      <3>2. PICK ch \in Challenges : job[r].on = Challenge(ch)
        BY <1>0, <3>1 DEF Fits
      <3>3. Consume(r, ch) /\ Under(r, ch)
        <4>1. job[r].on[2] = ch
          BY <3>2 DEF Challenge
        <4>2. Consume(r, job[r].on[2])
          BY <2>2 DEF AcceptAssertion, RegisterPasskey
        <4> QED
          BY <3>1, <3>2, <4>1, <4>2 DEF Under
      <3> QED
        BY <2>1, <3>3, ConsumeOnce
    <2>3. CASE RefuseReplay(r)
      BY <2>1, <2>3, ReplayOnce
    <2>4. CASE ClaimTotp(r) \/ ClaimRecovery(r)
      <3>1. PICK proof : Win(r, proof) /\ \A ch : proof # Challenge(ch)
        <4>1. CASE ClaimTotp(r)
          <5>1. job[r].on \in {"totp"} \X Nat \X Nat
            BY <1>0, <4>1 DEF ClaimTotp, Fits
          <5>2. Win(r, job[r].on) /\ \A ch : job[r].on # Challenge(ch)
            BY <4>1, <5>1 DEF ClaimTotp, Challenge
          <5> QED
            BY <5>2
        <4>2. CASE ClaimRecovery(r)
          BY <4>2, ProofsDiffer DEF ClaimRecovery
        <4> QED
          BY <2>4, <4>1, <4>2
      <3>2. UNCHANGED <<minted, claim, replayed, audits>>
        BY <2>4 DEF ClaimTotp, ClaimRecovery, ceremonies
      <3>3. \A ch \in Challenges :
              /\ Challenge(ch) \in accepted' <=> Challenge(ch) \in accepted
              /\ Challenge(ch) \in reused' => Challenge(ch) \in reused
        BY <3>1 DEF Win
      <3> QED
        BY <2>1, <3>2, <3>3, ChallengesUntouched
    <2>5. CASE DeletePasskey(r) \/ EnrolTotp(r) \/ GenerateCodes(r) \/ ResetFactors(r) \/ GiveUp(r)
      <3>1. UNCHANGED <<minted, claim, replayed, audits, accepted, reused>>
        BY <2>5 DEF DeletePasskey, EnrolTotp, GenerateCodes, ResetFactors, GiveUp, ceremonies, ghosts
      <3> QED
        BY <2>1, <3>1, ChallengesUntouched
    <2> QED
      BY <1>2, <2>2, <2>3, <2>4, <2>5 DEF Ends
  <1>3. ASSUME NEW ch \in Challenges, MintChallenge(ch)
        PROVE  ChallengesOnce'
    <2>1. /\ minted[ch] = Nothing /\ minted' = [minted EXCEPT ![ch] = clock]
          /\ UNCHANGED <<clock, claim, replayed, audits, accepted, reused, pc, job>>
      BY <1>3 DEF MintChallenge, ghosts
    <2>2. Challenge(ch) \notin accepted /\ \A r \in Requests : ~Under(r, ch)
      BY <2>1 DEF ChallengesOnce, ClaimKept, InTime
    <2>3. /\ minted'[ch] = clock /\ clock \in Nat
          /\ \A c \in Challenges \ {ch} : minted'[c] = minted[c]
      BY <2>1, Typed, Times DEF DataTyped
    <2> QED
      BY <2>1, <2>2, <2>3 DEF ChallengesOnce, Under, InTime, ClaimKept, AuditsMatch
  <1>4. ASSUME NEW ch \in Challenges, SweepClaim(ch)
        PROVE  ChallengesOnce'
    <2>1. /\ claim[ch] # Nothing /\ claim[ch].expires < clock /\ claim' = [claim EXCEPT ![ch] = Nothing]
          /\ UNCHANGED <<clock, minted, replayed, audits, accepted, reused, pc, job>>
      BY <1>4 DEF SweepClaim, ghosts
    <2>2. claim'[ch] = Nothing /\ \A c \in Challenges \ {ch} : claim'[c] = claim[c]
      BY <2>1, Typed DEF DataTyped
    <2>3. ClaimKept(ch)'
      <3>1. /\ Challenge(ch) \in accepted /\ minted[ch] # Nothing
            /\ claim[ch].expires >= minted[ch] + Ttl + Slack
        BY <2>1 DEF ChallengesOnce, AuditsMatch, ClaimKept
      <3>2. clock > minted[ch] + Ttl + Slack
        BY <2>1, <3>1, Times
      <3> QED
        BY <2>1, <2>2, <3>1, <3>2 DEF ClaimKept
    <2> QED
      BY <2>1, <2>2, <2>3 DEF ChallengesOnce, Under, InTime, ClaimKept, AuditsMatch
  <1>5. CASE Tick
    <2>1. /\ clock' = clock + 1
          /\ UNCHANGED <<minted, claim, replayed, audits, accepted, reused, pc, job>>
          /\ \A r \in Requests : pc[r] \in Ceremonies => clock < job[r].at + Latency
      BY <1>5 DEF Tick, ceremonies, ghosts
    <2>2. ASSUME NEW r \in Requests, NEW ch \in Challenges, Under(r, ch)'
          PROVE  InTime(r, ch)'
      <3>1. Under(r, ch) /\ InTime(r, ch) /\ pc[r] \in Ceremonies
        BY <2>1, <2>2 DEF Under, ChallengesOnce
      <3> QED
        BY <2>1, <3>1, Times DEF InTime
    <2>3. ASSUME NEW ch \in Challenges
          PROVE  /\ minted'[ch] # Nothing => minted'[ch] <= clock'
                 /\ ClaimKept(ch)' /\ AuditsMatch(ch)'
      BY <2>1, Times DEF ChallengesOnce, ClaimKept, AuditsMatch
    <2> QED
      BY <2>1, <2>2, <2>3 DEF ChallengesOnce
  <1> QED
    BY <1>1, <1>2, <1>3, <1>4, <1>5, Kinds

LEMMA ChallengesInvariant == Spec => []ChallengesOnce
  <1>1. Init => ChallengesOnce
    BY DEF Init, ChallengesOnce, Under, ClaimKept, AuditsMatch, Ceremonies
  <1>2. ChallengesOnce /\ UNCHANGED vars => ChallengesOnce'
    BY DEF ChallengesOnce, Under, InTime, ClaimKept, AuditsMatch, vars
  <1> QED
    BY <1>1, <1>2, ChallengesStep, TypeCorrect, PTL DEF Spec

\* A challenge is accepted once, also when the sweep has forgotten its claim.
THEOREM ChallengesOneUse == Spec => []ChallengesSpentOnce
  <1>1. TypeOK /\ ChallengesOnce => ChallengesSpentOnce
    <2> SUFFICES ASSUME TypeOK, ChallengesOnce, NEW ch \in Challenges
                 PROVE  /\ Challenge(ch) \notin reused
                        /\ Challenge(ch) \in accepted /\ claim[ch] = Nothing =>
                            /\ ~CookieAlive(ch)
                            /\ \A r \in Requests : pc[r] \in Ceremonies => job[r].on # Challenge(ch)
      BY DEF ChallengesSpentOnce
    <2> QED
      BY SweptQuiet DEF ChallengesOnce, Under
  <1> QED
    BY <1>1, ChallengesInvariant, TypeCorrect, PTL

\* One replay row per challenge that was replayed, and none else.
THEOREM ReplaysAudited == Spec => []ReplayAudited
  <1>1. ChallengesOnce => ReplayAudited
    BY DEF ChallengesOnce, AuditsMatch, ReplayAudited
  <1> QED
    BY <1>1, ChallengesInvariant, PTL

-----------------------------------------------------------------------------
(* Challenges as the contract sees them                                    *)

StandingAt(ch) ==
    IF ch \in replayed THEN "replayed"
    ELSE IF Challenge(ch) \in accepted THEN "spent"
    ELSE IF minted[ch] # Nothing THEN "open" ELSE "unborn"

\* No challenge is accepted twice, so that there are four standings.
LEMMA StandingOf ==
    ASSUME ChallengesOnce, ChallengesOnce'
    PROVE  /\ Standing = [ch \in Challenges |-> StandingAt(ch)]
           /\ Standing' = [ch \in Challenges |-> StandingAt(ch)']
  BY DEF ChallengesOnce, Standing, StandingAt

LEMMA StandingStays ==
    ASSUME ChallengesOnce, ChallengesOnce', UNCHANGED <<minted, replayed, audits>>,
           \A ch \in Challenges : Challenge(ch) \in accepted' <=> Challenge(ch) \in accepted
    PROVE  UNCHANGED Contract!contractVars
  <1>1. \A ch \in Challenges : StandingAt(ch)' = StandingAt(ch)
    BY DEF StandingAt
  <1>2. Standing' = Standing
    BY <1>1, StandingOf
  <1> QED
    BY <1>2 DEF Contract!contractVars

\* What changes one challenge's standing is a move of the contract.
LEMMA OneMoves ==
    ASSUME ChallengesOnce, ChallengesOnce', NEW ch \in Challenges, NEW from, NEW to,
           StandingAt(ch) = from, StandingAt(ch)' = to,
           \A c \in Challenges \ {ch} : StandingAt(c)' = StandingAt(c)
    PROVE  Contract!Moves(ch, from, to)
  <1>1. Standing[ch] = from
    BY StandingOf
  <1>2. Standing' = [Standing EXCEPT ![ch] = to]
    <2>1. Standing' = [c \in Challenges |-> IF c = ch THEN to ELSE StandingAt(c)]
      BY StandingOf
    <2>2. [Standing EXCEPT ![ch] = to] = [c \in Challenges |-> IF c = ch THEN to ELSE StandingAt(c)]
      BY StandingOf
    <2> QED
      BY <2>1, <2>2
  <1> QED
    BY <1>1, <1>2 DEF Contract!Moves

LEMMA MintMoves ==
    ASSUME TypeOK, ChallengesOnce, ChallengesOnce', NEW ch \in Challenges, MintChallenge(ch)
    PROVE  Contract!Mint(ch)
  <1>1. /\ minted[ch] = Nothing /\ minted' = [minted EXCEPT ![ch] = clock]
        /\ UNCHANGED <<replayed, audits, accepted>>
    BY DEF MintChallenge, ghosts
  <1>2. minted'[ch] # Nothing /\ \A c \in Challenges \ {ch} : minted'[c] = minted[c]
    BY <1>1, Typed, Times, SecondFactorAssumption DEF DataTyped
  <1>3. Challenge(ch) \notin accepted /\ ch \notin replayed
    BY <1>1 DEF ChallengesOnce, ClaimKept, AuditsMatch
  <1>4. StandingAt(ch) = "unborn" /\ StandingAt(ch)' = "open"
    BY <1>1, <1>2, <1>3 DEF StandingAt
  <1>5. \A c \in Challenges \ {ch} : StandingAt(c)' = StandingAt(c)
    BY <1>1, <1>2 DEF StandingAt
  <1>6. Contract!Moves(ch, "unborn", "open")
    BY <1>4, <1>5, OneMoves
  <1> QED
    BY <1>1, <1>6 DEF Contract!Mint

LEMMA ConsumeMoves ==
    ASSUME TypeOK, ChallengesOnce, ChallengesOnce', NEW r \in Requests, NEW ch \in Challenges,
           Under(r, ch), Consume(r, ch)
    PROVE  Contract!Accept(ch)
  <1>1. Challenge(ch) \notin accepted /\ ch \notin replayed /\ minted[ch] # Nothing
    <2>1. Challenge(ch) \notin accepted
      BY SweptQuiet DEF Consume
    <2> QED
      BY <2>1 DEF ChallengesOnce, AuditsMatch, InTime
  <1>2. accepted' = accepted \cup {Challenge(ch)} /\ UNCHANGED <<minted, replayed, audits>>
    BY DEF Consume, Win
  <1>3. StandingAt(ch) = "open" /\ StandingAt(ch)' = "spent"
    BY <1>1, <1>2 DEF StandingAt
  <1>4. \A c \in Challenges \ {ch} : StandingAt(c)' = StandingAt(c)
    BY <1>2, ProofsDiffer DEF StandingAt
  <1>5. Contract!Moves(ch, "open", "spent")
    BY <1>3, <1>4, OneMoves
  <1> QED
    BY <1>2, <1>5 DEF Contract!Accept

\* The first refusal is the contract's; a later one changes nothing it sees.
LEMMA ReplayMoves ==
    ASSUME TypeOK, ChallengesOnce, ChallengesOnce', NEW r \in Requests, RefuseReplay(r)
    PROVE  \/ \E ch \in Challenges : Contract!Replay(ch)
           \/ UNCHANGED Contract!contractVars
  <1>1. PICK ch \in Challenges : job[r].on = Challenge(ch)
    BY Typed DEF RefuseReplay, Fits
  <1>2. job[r].on[2] = ch
    BY <1>1 DEF Challenge
  <1>3. /\ claim[ch] # Nothing /\ replayed' = replayed \cup {ch}
        /\ audits' = [audits EXCEPT ![ch] = @ + IF AuditDue(claim[ch]) THEN 1 ELSE 0]
        /\ UNCHANGED <<minted, accepted>>
    BY <1>2 DEF RefuseReplay, ghosts
  <1>4. /\ Challenge(ch) \in accepted /\ (claim[ch].audited <=> ch \in replayed)
        /\ audits[ch] = IF ch \in replayed THEN 1 ELSE 0
        /\ audits \in [Challenges -> Nat]
    BY <1>3, Typed DEF ChallengesOnce, AuditsMatch, DataTyped
  <1>5. CASE ch \in replayed
    <2>1. audits' = audits
      BY <1>3, <1>4, <1>5 DEF AuditDue
    <2>2. replayed' = replayed
      BY <1>3, <1>5
    <2> QED
      BY <1>3, <2>1, <2>2, StandingStays
  <1>6. CASE ch \notin replayed
    <2>0. AuditDue(claim[ch]) /\ audits[ch] = 0
      BY <1>4, <1>6 DEF AuditDue
    <2>1. audits' = [audits EXCEPT ![ch] = 1]
      <3>1. audits' = [audits EXCEPT ![ch] = audits[ch] + 1]
        BY <1>3, <2>0
      <3>2. audits[ch] + 1 = 1
        BY <2>0
      <3> QED
        BY <3>1, <3>2
    <2>2. StandingAt(ch) = "spent" /\ StandingAt(ch)' = "replayed"
      BY <1>3, <1>4, <1>6 DEF StandingAt
    <2>3. \A c \in Challenges \ {ch} : StandingAt(c)' = StandingAt(c)
      BY <1>3 DEF StandingAt
    <2>4. Contract!Moves(ch, "spent", "replayed")
      BY <2>2, <2>3, OneMoves
    <2> QED
      BY <2>1, <2>4 DEF Contract!Replay
  <1> QED
    BY <1>5, <1>6

\* A request that ends otherwise accepts a proof of another kind, or none.
LEMMA OtherEndsStay ==
    ASSUME TypeOK, ChallengesOnce, ChallengesOnce', NEW r \in Requests,
           \/ ClaimTotp(r) \/ ClaimRecovery(r)
           \/ DeletePasskey(r) \/ EnrolTotp(r) \/ GenerateCodes(r) \/ ResetFactors(r) \/ GiveUp(r)
    PROVE  UNCHANGED Contract!contractVars
  <1>1. UNCHANGED <<minted, replayed, audits>>
    BY DEF ClaimTotp, ClaimRecovery, DeletePasskey, EnrolTotp, GenerateCodes, ResetFactors,
           GiveUp, ceremonies
  <1>2. \A ch \in Challenges : Challenge(ch) \in accepted' <=> Challenge(ch) \in accepted
    <2>1. CASE ClaimTotp(r)
      <3>1. job[r].on \in {"totp"} \X Nat \X Nat
        BY <2>1, Typed DEF ClaimTotp, Fits
      <3>2. accepted' = accepted \cup {job[r].on} /\ \A ch : job[r].on # Challenge(ch)
        BY <2>1, <3>1 DEF ClaimTotp, Win, Challenge
      <3> QED
        BY <3>2
    <2>2. CASE ClaimRecovery(r)
      BY <2>2, ProofsDiffer DEF ClaimRecovery, Win
    <2>3. CASE DeletePasskey(r) \/ EnrolTotp(r) \/ GenerateCodes(r) \/ ResetFactors(r) \/ GiveUp(r)
      BY <2>3 DEF DeletePasskey, EnrolTotp, GenerateCodes, ResetFactors, GiveUp, ghosts
    <2> QED
      BY <2>1, <2>2, <2>3
  <1> QED
    BY <1>1, <1>2, StandingStays

LEMMA ChallengeMoves ==
    ASSUME TypeOK, ChallengesOnce, ChallengesOnce', Next
    PROVE  [Contract!ContractNext]_(Contract!contractVars)
  <1>1. ASSUME NEW r \in Requests, Opens(r)
        PROVE  UNCHANGED Contract!contractVars
    <2>1. UNCHANGED <<minted, replayed, audits, accepted>>
      BY <1>1, OpenedWith, OpenMoves
    <2> QED
      BY <2>1, StandingStays
  <1>2. ASSUME NEW r \in Requests, Ends(r)
        PROVE  \/ \E ch \in Challenges : Contract!Accept(ch) \/ Contract!Replay(ch)
               \/ UNCHANGED Contract!contractVars
    <2>1. CASE AcceptAssertion(r) \/ RegisterPasskey(r)
      <3>1. pc[r] \in Ceremonies
        BY <2>1 DEF AcceptAssertion, RegisterPasskey, Ceremonies
      <3>2. PICK ch \in Challenges : job[r].on = Challenge(ch)
        BY <3>1, Typed DEF Fits
      <3>3. job[r].on[2] = ch
        BY <3>2 DEF Challenge
      <3>4. Consume(r, ch) /\ Under(r, ch)
        BY <2>1, <3>1, <3>2, <3>3 DEF AcceptAssertion, RegisterPasskey, Under
      <3> QED
        BY <3>4, ConsumeMoves
    <2>2. CASE RefuseReplay(r)
      BY <2>2, ReplayMoves
    <2> QED
      BY <1>2, <2>1, <2>2, OtherEndsStay DEF Ends
  <1>3. ASSUME NEW ch \in Challenges, SweepClaim(ch)
        PROVE  UNCHANGED Contract!contractVars
    BY <1>3, StandingStays DEF SweepClaim, ghosts
  <1>4. Tick => UNCHANGED Contract!contractVars
    BY StandingStays DEF Tick, ceremonies, ghosts
  <1> QED
    BY <1>1, <1>2, <1>3, <1>4, MintMoves, Kinds DEF Contract!ContractNext

\* Ceremonies that overlap, are late or come again implement ChallengeContract:
\* a challenge is accepted in one step, once, after it was minted, and only then
\* is anyone refused as a replay of it, the first of whom is audited.
THEOREM ImplementsChallenges == Spec => KeepsChallenges
  <1>1. Init => Contract!ContractInit
    BY DEF Init, Contract!ContractInit, Standing
  <1>2. UNCHANGED vars => UNCHANGED Contract!contractVars
    BY DEF vars, Standing, Contract!contractVars
  <1>3. TypeOK /\ ChallengesOnce /\ ChallengesOnce' /\ [Next]_vars
            => [Contract!ContractNext]_(Contract!contractVars)
    BY <1>2, ChallengeMoves
  <1> QED
    BY <1>1, <1>3, ChallengesInvariant, TypeCorrect, PTL
       DEF Spec, KeepsChallenges, Contract!ContractSpec

-----------------------------------------------------------------------------
(* Enrolment                                                               *)

\* What an enrolment request has read still holds if nothing has overtaken it.
UpToDate(r) ==
    pc[r] \in Enrolments /\ r \notin overtaken =>
        /\ job[r].seen.enrolled = enrolled
        /\ pc[r] = "generate" => job[r].seen.codes = Rows

EnrolmentOnce == StampHonest /\ OneBatch /\ \A r \in Requests : UpToDate(r)

\* A step that leaves the enrolment, the codes' rows and the strong factors alone.
LEMMA EnrolmentUntouched ==
    ASSUME TypeOK, EnrolmentOnce, enrolled' = enrolled, Strong => Strong', Rows' = Rows,
           stale' = stale,
           \A r \in Requests : pc'[r] \in Enrolments =>
               /\ pc'[r] = pc[r] /\ job'[r] = job[r]
               /\ r \in overtaken' <=> r \in overtaken
    PROVE  EnrolmentOnce'
  <1>1. StampHonest' /\ OneBatch'
    BY DEF EnrolmentOnce, StampHonest, OneBatch
  <1>2. ASSUME NEW r \in Requests
        PROVE  UpToDate(r)'
    BY DEF EnrolmentOnce, UpToDate
  <1> QED
    BY <1>1, <1>2 DEF EnrolmentOnce

\* A request that leaves the enrolment alone ends.
LEMMA LeaveUntouched ==
    ASSUME TypeOK, EnrolmentOnce, NEW r \in Requests, End(r), Leave(r),
           enrolled' = enrolled, Strong => Strong', Rows' = Rows
    PROVE  EnrolmentOnce'
  <1>1. /\ stale' = stale
        /\ \A q \in Requests : pc'[q] \in Enrolments =>
               /\ pc'[q] = pc[q] /\ job'[q] = job[q]
               /\ q \in overtaken' <=> q \in overtaken
    BY EndMoves, Overtakes DEF Enrolments
  <1> QED
    BY <1>1, EnrolmentUntouched

\* A request that changes it overtakes all the others; it has to leave what is
\* asserted right itself, if it was not overtaken.
LEMMA ChangeRight ==
    ASSUME TypeOK, NEW r \in Requests, End(r), Change(r),
           ~stale /\ r \notin overtaken => StampHonest' /\ OneBatch'
    PROVE  EnrolmentOnce'
  <1>1. StampHonest' /\ OneBatch'
    BY Overtakes DEF StampHonest, OneBatch
  <1>2. ASSUME NEW q \in Requests
        PROVE  UpToDate(q)'
    BY EndMoves, Overtakes DEF UpToDate, Enrolments
  <1> QED
    BY <1>1, <1>2 DEF EnrolmentOnce

LEMMA EnrolmentStep ==
    ASSUME TypeOK, EnrolmentOnce, Next
    PROVE  EnrolmentOnce'
  <1>0. DataTyped /\ \A r \in Requests : Fits(pc[r], job[r])
    BY Typed
  <1>1. ASSUME NEW r \in Requests, Opens(r)
        PROVE  EnrolmentOnce'
    <2>1. PICK op \in Places \ {"idle"}, j \in Jobs :
            Open(r, op, j) /\ (op \in Enrolments => j.seen = Copy(op))
      BY <1>1, OpenedWith
    <2>2. /\ pc'[r] = op /\ job'[r] = j
          /\ \A q \in Requests \ {r} : pc'[q] = pc[q] /\ job'[q] = job[q]
          /\ UNCHANGED <<totp, code, passkey, enrolled, stale, overtaken>>
      BY <2>1, OpenMoves
    <2>3. Rows' = Rows /\ Strong' = Strong
      BY <2>2 DEF Rows, Strong
    <2>4. UpToDate(r)'
      BY <2>1, <2>2, <2>3 DEF UpToDate, Copy
    <2>5. ASSUME NEW q \in Requests \ {r}
          PROVE  UpToDate(q)'
      BY <2>2, <2>3 DEF UpToDate, EnrolmentOnce
    <2> QED
      BY <2>2, <2>3, <2>4, <2>5 DEF EnrolmentOnce, StampHonest, OneBatch
  <1>2. ASSUME NEW r \in Requests, Ends(r)
        PROVE  EnrolmentOnce'
    <2>0. End(r) /\ Fits(pc[r], job[r]) /\ UpToDate(r)
      BY <1>0, <1>2, EndsTyped DEF EnrolmentOnce
    <2>1. CASE ClaimTotp(r)
      <3>1. totp' # Nothing
        <4>1. totp # Nothing /\ job[r].on[3] \in Nat
          BY <2>0, <2>1 DEF ClaimTotp, StepFree, Fits
        <4>2. totp' \in TotpRows
          BY <1>0, <2>1, <4>1 DEF ClaimTotp, DataTyped, TotpRows
        <4> QED
          BY <4>2, SecondFactorAssumption DEF TotpRows
      <3>2. UNCHANGED <<code, passkey, enrolled>> /\ Leave(r)
        BY <2>1 DEF ClaimTotp
      <3> QED
        BY <2>0, <3>1, <3>2, LeaveUntouched DEF Strong, Rows
    <2>2. CASE ClaimRecovery(r)
      <3>1. PICK b \in Batches : b = job[r].on[2]
        BY <2>0, <2>2 DEF ClaimRecovery, Fits, Recovery
      <3>2. code[b] = "unused" /\ code' = [code EXCEPT ![b] = "used"]
        BY <2>2, <3>1 DEF ClaimRecovery, CodeFree
      <3>3. Rows' = Rows
        BY <1>0, <3>2 DEF Rows, DataTyped
      <3>4. UNCHANGED <<totp, passkey, enrolled>> /\ Leave(r)
        BY <2>2 DEF ClaimRecovery, factors
      <3> QED
        BY <2>0, <3>3, <3>4, LeaveUntouched DEF Strong
    <2>3. CASE AcceptAssertion(r) \/ RefuseReplay(r) \/ GiveUp(r)
      <3>1. UNCHANGED <<totp, code, passkey, enrolled>> /\ Leave(r)
        BY <2>3 DEF AcceptAssertion, RefuseReplay, GiveUp, factors
      <3> QED
        BY <2>0, <3>1, LeaveUntouched DEF Strong, Rows
    <2>4. CASE RegisterPasskey(r)
      <3>1. CASE job[r].key \in passkey
        <4>1. UNCHANGED <<totp, code, passkey, enrolled>> /\ Leave(r)
          BY <2>4, <3>1 DEF RegisterPasskey
        <4> QED
          BY <2>0, <4>1, LeaveUntouched DEF Strong, Rows
      <3>2. CASE job[r].key \notin passkey
        <4>1. passkey' = passkey \cup {job[r].key} /\ code' = code /\ Change(r)
          BY <2>4, <3>2 DEF RegisterPasskey
        <4>2. Strong' /\ Rows' = Rows
          BY <4>1 DEF Strong, Rows
        <4>3. ~stale => OneBatch'
          BY <4>2 DEF EnrolmentOnce, OneBatch
        <4> QED
          BY <2>0, <4>1, <4>2, <4>3, ChangeRight DEF StampHonest
      <3> QED
        BY <3>1, <3>2
    <2>5. CASE DeletePasskey(r)
      <3>1. /\ passkey' = passkey \ {job[r].key} /\ UNCHANGED <<totp, code>> /\ Change(r)
            /\ pc[r] \in Enrolments
            /\ enrolled' = Unstamp(job[r].seen, totp # Nothing \/ passkey \ {job[r].key} # {})
        BY <2>5 DEF DeletePasskey, Enrolments
      <3>2. r \notin overtaken => (enrolled' => Strong')
        BY <2>0, <3>1 DEF UpToDate, Unstamp, Strong
      <3>3. ~stale => OneBatch'
        BY <3>1 DEF EnrolmentOnce, OneBatch, Rows
      <3> QED
        BY <2>0, <3>1, <3>2, <3>3, ChangeRight DEF StampHonest
    <2>6. CASE EnrolTotp(r)
      <3>1. totp' # Nothing
        <4>1. secrets' \in Nat /\ secrets \in Nat
          BY <1>0, <2>6, SecondFactorAssumption DEF EnrolTotp, DataTyped
        <4>2. totp' \in TotpRows
          BY <1>0, <2>6, <4>1 DEF EnrolTotp, DataTyped, TotpRows
        <4> QED
          BY <4>2, SecondFactorAssumption DEF TotpRows
      <3>2. code' = code /\ Change(r)
        BY <2>6 DEF EnrolTotp
      <3>3. ~stale => OneBatch'
        BY <3>2 DEF EnrolmentOnce, OneBatch, Rows
      <3> QED
        BY <2>0, <3>1, <3>2, <3>3, ChangeRight DEF StampHonest, Strong
    <2>7. CASE GenerateCodes(r)
      <3>1. PICK b \in Batches :
              code' = [c \in Batches |-> IF c = b THEN "unused"
                                         ELSE IF c \in job[r].seen.codes THEN "deleted" ELSE code[c]]
        BY <2>7 DEF GenerateCodes, Replaced
      <3>2. /\ UNCHANGED <<totp, passkey>> /\ Change(r) /\ pc[r] = "generate"
            /\ enrolled' = Stamp(job[r].seen, Strong, Rows \cup {0})
        BY <2>7 DEF GenerateCodes
      <3>3. r \notin overtaken => \A c \in Rows' : c = b
        BY <2>0, <3>1, <3>2 DEF UpToDate, Rows, Enrolments
      <3>4. ~stale => (enrolled' => Strong')
        BY <3>2 DEF EnrolmentOnce, StampHonest, Stamp, Strong
      <3> QED
        BY <2>0, <3>2, <3>3, <3>4, ChangeRight DEF StampHonest, OneBatch
    <2>8. CASE ResetFactors(r)
      <3>1. /\ enrolled' = (enrolled /\ ~job[r].seen.enrolled) /\ Change(r) /\ pc[r] \in Enrolments
            /\ code' = [b \in Batches |-> IF b \in Rows THEN "deleted" ELSE code[b]]
        BY <2>8 DEF ResetFactors, Enrolments
      <3>2. r \notin overtaken => ~enrolled'
        BY <2>0, <3>1 DEF UpToDate
      <3>3. Rows' = {}
        BY <3>1 DEF Rows
      <3> QED
        BY <2>0, <3>1, <3>2, <3>3, ChangeRight DEF StampHonest, OneBatch
    <2> QED
      BY <1>2, <2>1, <2>2, <2>3, <2>4, <2>5, <2>6, <2>7, <2>8 DEF Ends
  <1>3. ASSUME NEW ch \in Challenges, MintChallenge(ch) \/ SweepClaim(ch)
        PROVE  EnrolmentOnce'
    <2>1. UNCHANGED <<totp, code, passkey, enrolled, stale, overtaken, pc, job>>
      BY <1>3 DEF MintChallenge, SweepClaim, factors
    <2> QED
      BY <2>1, EnrolmentUntouched DEF Strong, Rows
  <1>4. CASE Tick
    <2>1. UNCHANGED <<totp, code, passkey, enrolled, stale, overtaken, pc, job>>
      BY <1>4 DEF Tick, factors
    <2> QED
      BY <2>1, EnrolmentUntouched DEF Strong, Rows
  <1> QED
    BY <1>1, <1>2, <1>3, <1>4, Kinds

LEMMA EnrolmentInvariant == Spec => []EnrolmentOnce
  <1>1. Init => EnrolmentOnce
    BY DEF Init, EnrolmentOnce, StampHonest, OneBatch, UpToDate, Enrolments, Rows
  <1>2. EnrolmentOnce /\ UNCHANGED vars => EnrolmentOnce'
    BY DEF EnrolmentOnce, StampHonest, OneBatch, UpToDate, Strong, Rows, vars
  <1> QED
    BY <1>1, <1>2, EnrolmentStep, TypeCorrect, PTL DEF Spec

\* mfa_enrolled_at is set only beside a strong factor, unless enrolment requests
\* overlapped.
THEOREM StampNeedsFactor == Spec => []StampHonest
  <1>1. EnrolmentOnce => StampHonest
    BY DEF EnrolmentOnce
  <1> QED
    BY <1>1, EnrolmentInvariant, PTL

\* A user has one batch of recovery codes at most, with the same exception.
THEOREM BatchReplaced == Spec => []OneBatch
  <1>1. EnrolmentOnce => OneBatch
    BY DEF EnrolmentOnce
  <1> QED
    BY <1>1, EnrolmentInvariant, PTL
=============================================================================
