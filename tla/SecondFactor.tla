------------------------------ MODULE SecondFactor ------------------------------
(***************************************************************************)
(* The proofs of one account that are good for one use - a TOTP step, a    *)
(* recovery code, a WebAuthn challenge - and the enrolment they belong to  *)
(* (services/second_factor.py, services/webauthn_challenge.py,             *)
(* services/mfa_enrollment.py, routes/mfa.py, the passkey and step-up      *)
(* routes, the challenge sweep).                                           *)
(*                                                                         *)
(* A request reads and matches, awaits, and then claims the proof with a   *)
(* guarded UPDATE or INSERT in the transaction of what it is good for; the *)
(* claim and the commit are one step.  Enrolment requests decide on a copy *)
(* of mfa_enrolled_at.                                                     *)
(*                                                                         *)
(* One recovery code stands for the ten of its batch, and each enrolment   *)
(* of TOTP brings a secret of its own (the pending cookie is cleared by    *)
(* the request that used it).  Signatures, sign counts, what a proof is    *)
(* used for and the throttles (SignIn) are left out.                       *)
(***************************************************************************)
EXTENDS Naturals

CONSTANTS
    Requests,     \* requests in progress at once
    Passkeys,     \* credential ids
    Challenges,   \* WebAuthn challenges (random, never minted twice)
    Nothing,      \* no row, no cookie, nothing read
    StepFor,      \* length of a TOTP step
    StepWindow,   \* valid_window: steps tried on either side (1)
    Ttl,          \* WEBAUTHN_CHALLENGE_MAX_AGE
    Slack,        \* _RETENTION_SLACK_SECONDS
    Latency,      \* longest time from the check of a cookie to the claim
    MaxClock,     \* bound: time
    MaxBatches,   \* bound: batches of recovery codes
    MaxSecrets    \* bound: TOTP secrets

\* "Retention headroom above the challenge TTL itself" is what a slow request needs.
ASSUME SecondFactorAssumption ==
    /\ {StepWindow, Ttl, Slack, Latency, MaxClock, MaxBatches, MaxSecrets} \subseteq Nat
    /\ Latency <= Slack
    /\ StepFor \in Nat \ {0}
    /\ Nothing \notin [secret : Nat, last : Nat] \cup [expires : Nat, audited : BOOLEAN]
    /\ Nothing \notin Nat \cup Challenges

Batches == 1 .. MaxBatches

VARIABLES
    clock,
    totp,       \* the user_totp row: its secret, its last_used_step (0: NULL)
    code,       \* per batch its recovery code: not there, unused, used, deleted
    passkey,    \* the registered credentials
    enrolled,   \* mfa_enrolled_at is set
    minted,     \* when each challenge's cookie was signed
    claim,      \* the webauthn_challenge_consumed row of each challenge
    secrets,    \* TOTP secrets given out
    accepted,   \* the proofs whose claim was won
    reused,     \* those that were won again
    replayed,   \* the challenges that were refused at least once
    audits,     \* per challenge, the replay rows of the audit log
    stale,      \* an enrolment request committed after another had overtaken it
    overtaken,  \* the requests during which the enrolment has changed
    pc, job     \* what each request is doing, and what it has read

vars == <<clock, totp, code, passkey, enrolled, minted, claim, secrets, accepted,
          reused, replayed, audits, stale, overtaken, pc, job>>

factors == <<totp, passkey, enrolled, secrets>>
ceremonies == <<minted, claim, replayed, audits>>
ghosts == <<accepted, reused>>

TotpRows == [secret : Nat, last : Nat]
Claims == [expires : Nat, audited : BOOLEAN]
Step(secret, step) == <<"totp", secret, step>>
Recovery(b) == <<"code", b, 0>>
Challenge(ch) == <<"challenge", ch, 0>>

Proofs == ({"totp"} \X Nat \X Nat) \cup {Recovery(b) : b \in Batches}
            \cup {Challenge(ch) : ch \in Challenges}

Copies == [enrolled : BOOLEAN, totp : BOOLEAN, codes : SUBSET Batches]
Jobs == [on : Proofs \cup {Nothing}, at : Nat, key : Passkeys \cup {Nothing},
         seen : Copies \cup {Nothing}]
NoJob == [on |-> Nothing, at |-> 0, key |-> Nothing, seen |-> Nothing]

Strong == totp # Nothing \/ passkey # {}
Rows == {b \in Batches : code[b] \in {"unused", "used"}}
Ceremonies == {"assert", "register"}
Enrolments == {"register", "delete", "enrol", "generate", "reset"}
InFlight == {r \in Requests : pc[r] # "idle"}

\* What an operation uses of what it reads.
Copy(op) == [enrolled |-> enrolled,
             totp |-> op = "enrol" /\ totp # Nothing,
             codes |-> IF op = "generate" THEN Rows ELSE {}]

Open(r, op, j) ==
    /\ pc[r] = "idle"
    /\ pc' = [pc EXCEPT ![r] = op]
    /\ job' = [job EXCEPT ![r] = j]
    /\ UNCHANGED <<clock, code, stale, overtaken, factors, ceremonies, ghosts>>

End(r) ==
    /\ pc' = [pc EXCEPT ![r] = "idle"]
    /\ job' = [job EXCEPT ![r] = NoJob]
    /\ UNCHANGED clock

\* The end of a request that leaves the enrolment alone, and of one that changes it.
Leave(r) == overtaken' = overtaken \ {r} /\ UNCHANGED stale
Change(r) ==
    /\ overtaken' = (overtaken \cup InFlight) \ {r}
    /\ stale' = (stale \/ r \in overtaken)

Win(r, proof) ==
    /\ accepted' = accepted \cup {proof}
    /\ reused' = IF proof \in accepted /\ r \notin overtaken
                 THEN reused \cup {proof} ELSE reused

-----------------------------------------------------------------------------
(* Codes (login/mfa and step-up)                                           *)

\* The steps verify_totp_step tries, the current one in the middle.
Now == clock \div StepFor + 1
Steps == Now .. Now + 2 * StepWindow

OpenTotp(r, step) ==
    /\ totp # Nothing
    /\ step \in Steps /\ step > totp.last
    /\ Open(r, "totp", [NoJob EXCEPT !.on = Step(totp.secret, step)])

\* UPDATE user_totp SET last_used_step WHERE user_id AND last_used_step < step.
\* Bug: the step is stored without the condition.
AnyStep(step) == totp # Nothing
StepFree(step) == totp # Nothing /\ totp.last < step

ClaimTotp(r) ==
    LET proof == job[r].on IN
    /\ pc[r] = "totp"
    /\ StepFree(proof[3])
    /\ totp' = [totp EXCEPT !.last = proof[3]]
    /\ Win(r, proof)
    /\ End(r) /\ Leave(r)
    /\ UNCHANGED <<code, passkey, enrolled, secrets, ceremonies>>

OpenRecovery(r, b) ==
    /\ code[b] = "unused"
    /\ Open(r, "code", [NoJob EXCEPT !.on = Recovery(b)])

CodeFree(b) == code[b] = "unused"

ClaimRecovery(r) ==
    LET b == job[r].on[2] IN
    /\ pc[r] = "code"
    /\ CodeFree(b)
    /\ code' = [code EXCEPT ![b] = "used"]
    /\ Win(r, Recovery(b))
    /\ End(r) /\ Leave(r)
    /\ UNCHANGED <<factors, ceremonies>>

-----------------------------------------------------------------------------
(* Challenges (passkey login, step-up, registration)                       *)

MintChallenge(ch) ==
    /\ minted[ch] = Nothing
    /\ minted' = [minted EXCEPT ![ch] = clock]
    /\ UNCHANGED <<clock, code, claim, replayed, audits, stale, overtaken, pc, job, factors, ghosts>>

\* The cookie is read and the assertion verified.
CookieAlive(ch) == minted[ch] # Nothing /\ clock <= minted[ch] + Ttl

OpenAssertion(r, ch) ==
    /\ CookieAlive(ch)
    /\ passkey # {}
    /\ Open(r, "assert", [NoJob EXCEPT !.on = Challenge(ch), !.at = clock])

OpenRegistration(r, ch, k) ==
    /\ CookieAlive(ch)
    /\ Open(r, "register", [on |-> Challenge(ch), at |-> clock, key |-> k,
                            seen |-> Copy("register")])

\* consume_challenge: INSERT ... ON CONFLICT DO NOTHING.  Bugs: the end is put
\* before now; the challenge's own lifetime is left out of it.
PastClaim == [expires |-> clock - Ttl - Slack, audited |-> FALSE]
ShortClaim == [expires |-> clock + Slack, audited |-> FALSE]
NewClaim == [expires |-> clock + Ttl + Slack, audited |-> FALSE]

Consume(r, ch) ==
    /\ claim[ch] = Nothing
    /\ claim' = [claim EXCEPT ![ch] = NewClaim]
    /\ Win(r, Challenge(ch))
    /\ UNCHANGED <<minted, replayed, audits>>

AcceptAssertion(r) ==
    /\ pc[r] = "assert"
    /\ Consume(r, job[r].on[2])
    /\ End(r) /\ Leave(r)
    /\ UNCHANGED <<code, factors>>

\* audit_replay_once.  Bug: every refusal is audited.
AuditDueAlways(c) == TRUE
AuditDue(c) == ~c.audited

RefuseReplay(r) ==
    LET ch == job[r].on[2] IN
    /\ pc[r] \in Ceremonies
    /\ claim[ch] # Nothing
    /\ replayed' = replayed \cup {ch}
    /\ claim' = [claim EXCEPT ![ch].audited = TRUE]
    /\ audits' = [audits EXCEPT ![ch] = @ + IF AuditDue(claim[ch]) THEN 1 ELSE 0]
    /\ End(r) /\ Leave(r)
    /\ UNCHANGED <<code, minted, factors, ghosts>>

SweepClaim(ch) ==
    /\ claim[ch] # Nothing /\ claim[ch].expires < clock
    /\ claim' = [claim EXCEPT ![ch] = Nothing]
    /\ UNCHANGED <<clock, code, minted, replayed, audits, stale, overtaken, pc, job, factors, ghosts>>

-----------------------------------------------------------------------------
(* Enrolment                                                               *)

\* maybe_stamp_enrolled and maybe_unstamp_enrolled, after the request's own
\* change: the first column by the copy, the factors and codes by a query.
\* Bug: any recovery codes will do.
StampWithCodes(copy, strong, codes) == enrolled \/ (~copy.enrolled /\ codes # {})
Stamp(copy, strong, codes) == enrolled \/ (~copy.enrolled /\ strong /\ codes # {})
Unstamp(copy, strong) == enrolled /\ ~(copy.enrolled /\ ~strong)

\* A credential that is registered already: the savepoint rolls back, the claim stays.
RegisterPasskey(r) ==
    LET k == job[r].key IN
    /\ pc[r] = "register"
    /\ Consume(r, job[r].on[2])
    /\ IF k \in passkey
       THEN UNCHANGED <<passkey, enrolled>> /\ Leave(r)
       ELSE /\ passkey' = passkey \cup {k}
            /\ enrolled' = Stamp(job[r].seen, TRUE, Rows)
            /\ Change(r)
    /\ End(r)
    /\ UNCHANGED <<totp, code, secrets>>

OpenDelete(r, k) ==
    /\ k \in passkey
    /\ Open(r, "delete", [NoJob EXCEPT !.key = k, !.seen = Copy("delete")])

DeletePasskey(r) ==
    LET left == passkey \ {job[r].key} IN
    /\ pc[r] = "delete"
    /\ passkey' = left
    /\ enrolled' = Unstamp(job[r].seen, totp # Nothing \/ left # {})
    /\ End(r) /\ Change(r)
    /\ UNCHANGED <<totp, code, secrets, ceremonies, ghosts>>

OpenEnrolment(r, op) ==
    /\ op \in {"enrol", "generate", "reset"}
    /\ Open(r, op, [NoJob EXCEPT !.seen = Copy(op)])

\* The row the handler found is updated, its last step kept; none found is
\* inserted.  A row that came or went meanwhile fails the statement (GiveUp).
EnrolTotp(r) ==
    LET new == secrets + 1 IN
    /\ pc[r] = "enrol"
    /\ secrets < MaxSecrets
    /\ job[r].seen.totp <=> totp # Nothing
    /\ totp' = IF totp = Nothing THEN [secret |-> new, last |-> 0]
               ELSE [totp EXCEPT !.secret = new]
    /\ secrets' = new
    /\ enrolled' = Stamp(job[r].seen, TRUE, Rows)
    /\ End(r) /\ Change(r)
    /\ UNCHANGED <<code, passkey, ceremonies, ghosts>>

\* "Replace any prior codes": those the handler has selected.  Bug: none.
NoneOf(codes) == {}
Replaced(codes) == codes

GenerateCodes(r) ==
    /\ pc[r] = "generate"
    /\ \E b \in Batches :
        /\ code[b] = "none"
        /\ code' = [c \in Batches |-> IF c = b THEN "unused"
                                      ELSE IF c \in Replaced(job[r].seen.codes)
                                           THEN "deleted" ELSE code[c]]
    /\ enrolled' = Stamp(job[r].seen, Strong, Rows \cup {0})
    /\ End(r) /\ Change(r)
    /\ UNCHANGED <<totp, passkey, secrets, ceremonies, ghosts>>

\* reset_user_mfa
ResetFactors(r) ==
    /\ pc[r] = "reset"
    /\ totp' = Nothing
    /\ passkey' = {}
    /\ code' = [b \in Batches |-> IF b \in Rows THEN "deleted" ELSE code[b]]
    /\ enrolled' = (enrolled /\ ~job[r].seen.enrolled)
    /\ End(r) /\ Change(r)
    /\ UNCHANGED <<secrets, ceremonies, ghosts>>

-----------------------------------------------------------------------------
\* A claim that is lost, a refusal, a failed statement: nothing is written.
GiveUp(r) ==
    /\ pc[r] # "idle"
    /\ End(r) /\ Leave(r)
    /\ UNCHANGED <<code, factors, ceremonies, ghosts>>

Tick ==
    /\ clock < MaxClock
    /\ \A r \in Requests : pc[r] \in Ceremonies => clock < job[r].at + Latency
    /\ clock' = clock + 1
    /\ UNCHANGED <<code, stale, overtaken, pc, job, factors, ceremonies, ghosts>>

\* Passkeys may have been registered before; without codes they do not enrol.
Init ==
    /\ clock = 0
    /\ totp = Nothing
    /\ code = [b \in Batches |-> "none"]
    /\ passkey \in SUBSET Passkeys
    /\ enrolled = FALSE
    /\ minted = [ch \in Challenges |-> Nothing]
    /\ claim = [ch \in Challenges |-> Nothing]
    /\ secrets = 0
    /\ accepted = {} /\ reused = {}
    /\ replayed = {}
    /\ audits = [ch \in Challenges |-> 0]
    /\ stale = FALSE
    /\ overtaken = {}
    /\ pc = [r \in Requests |-> "idle"]
    /\ job = [r \in Requests |-> NoJob]

RequestStep(r) ==
    \/ \E step \in Steps : OpenTotp(r, step)
    \/ ClaimTotp(r)
    \/ \E b \in Batches : OpenRecovery(r, b)
    \/ ClaimRecovery(r)
    \/ \E ch \in Challenges : OpenAssertion(r, ch)
    \/ \E ch \in Challenges, k \in Passkeys : OpenRegistration(r, ch, k)
    \/ AcceptAssertion(r) \/ RegisterPasskey(r) \/ RefuseReplay(r)
    \/ \E k \in Passkeys : OpenDelete(r, k)
    \/ DeletePasskey(r)
    \/ \E op \in {"enrol", "generate", "reset"} : OpenEnrolment(r, op)
    \/ EnrolTotp(r) \/ GenerateCodes(r) \/ ResetFactors(r)
    \/ GiveUp(r)

Next ==
    \/ \E r \in Requests : RequestStep(r)
    \/ \E ch \in Challenges : MintChallenge(ch) \/ SweepClaim(ch)
    \/ Tick

Spec == Init /\ [][Next]_vars

-----------------------------------------------------------------------------
\* Every variable has its type, and a request carries what its operation needs.
TypeOK ==
    /\ clock \in 0 .. MaxClock
    /\ totp \in TotpRows \cup {Nothing}
    /\ code \in [Batches -> {"none", "unused", "used", "deleted"}]
    /\ passkey \subseteq Passkeys
    /\ enrolled \in BOOLEAN
    /\ minted \in [Challenges -> Nat \cup {Nothing}]
    /\ claim \in [Challenges -> Claims \cup {Nothing}]
    /\ secrets \in 0 .. MaxSecrets
    /\ replayed \subseteq Challenges
    /\ audits \in [Challenges -> Nat]
    /\ stale \in BOOLEAN
    /\ overtaken \subseteq InFlight
    /\ pc \in [Requests -> {"idle", "totp", "code"} \cup Ceremonies \cup Enrolments]
    /\ job \in [Requests -> Jobs]
    /\ \A r \in Requests :
        /\ pc[r] \in Enrolments => job[r].seen \in Copies
        /\ pc[r] = "totp" => job[r].on \in {"totp"} \X Nat \X Nat
        /\ pc[r] = "code" => \E b \in Batches : job[r].on = Recovery(b)
        /\ pc[r] \in Ceremonies =>
               \E ch \in Challenges : job[r].on = Challenge(ch)
        /\ pc[r] \in {"register", "delete"} => job[r].key \in Passkeys

\* "only the request whose guarded UPDATE actually flips the row wins"
\* (verify_totp_or_recovery): of the requests that matched one TOTP step or one
\* recovery code, one has it accepted, unless the factors were replaced meanwhile.
CodesSpentOnce == \A proof \in reused : proof[1] \notin {"totp", "code"}

\* "True exactly once per challenge" (consume_challenge): also when the sweep has
\* forgotten the claim, since no cookie, and no request that has read one, is left.
ChallengesSpentOnce ==
    \A ch \in Challenges :
        /\ Challenge(ch) \notin reused
        /\ Challenge(ch) \in accepted /\ claim[ch] = Nothing =>
            /\ ~CookieAlive(ch)
            /\ \A r \in Requests : pc[r] \in Ceremonies => job[r].on # Challenge(ch)

\* "at most ONE replay-audit row is ever emitted per challenge", and one is as
\* soon as a replay was refused.
ReplayAudited == \A ch \in Challenges : audits[ch] = IF ch \in replayed THEN 1 ELSE 0

\* "True exactly once per challenge; False on replay", and the audit row is for
\* "the first time a replay is observed": ceremonies that read, verify, claim and
\* are swept in whatever order move each challenge as ChallengeContract allows.
\* It is accepted once, after it was minted, and nobody is refused as a replay of
\* it before that.
Standing ==
    [ch \in Challenges |->
        IF Challenge(ch) \in reused THEN "twice"
        ELSE IF ch \in replayed THEN "replayed"
        ELSE IF Challenge(ch) \in accepted THEN "spent"
        ELSE IF minted[ch] # Nothing THEN "open" ELSE "unborn"]
Contract == INSTANCE ChallengeContract WITH standing <- Standing
KeepsChallenges == Contract!ContractSpec

\* "don't silently downgrade to password-only" (passkey_delete): mfa_enrolled_at
\* is set only while a strong factor is there, unless an enrolment request
\* committed after another had changed what it decided on.
StampHonest == enrolled /\ ~stale => Strong

\* "regenerate invalidates the old set": with the same exception, a user has the
\* codes of one batch at most.
OneBatch == ~stale => \A b, c \in Rows : b = c
=============================================================================
