--------------------------------- MODULE SignIn ---------------------------------
(***************************************************************************)
(* Signing in to one account: password and second-factor attempts, step-up *)
(* re-authentication, passkey logins, the account lock and the per-source  *)
(* throttle, the sessions they mint and what revokes them (routes/auth.py, *)
(* routes/step_up.py, routes/users.py, services/auth.py,                   *)
(* services/login_throttle.py).  Which codes are right is SecondFactor's   *)
(* subject.                                                                *)
(*                                                                         *)
(* A handler loads the user, awaits (Argon2, more queries) and then writes *)
(* and commits; other requests run in the await.  A miss is counted by one *)
(* UPDATE ... SET failed_login_count = failed_login_count + 1; a reset is  *)
(* an ORM write, which contains the columns that differ from the copy.     *)
(*                                                                         *)
(* Time is a small integer: an action takes none, a request at most        *)
(* Latency.  Audit rows and cookies' signatures are left out.              *)
(***************************************************************************)
EXTENDS Naturals

CONSTANTS
    Requests,      \* requests in progress at once
    Sessions,      \* session ids (uuid4, never reused)
    Nothing,       \* no copy, no session, no throttle row
    MaxFailed,     \* auth_max_failed_logins; 0 disables the lock
    LockFor,       \* auth_lockout_seconds
    SourceMax,     \* auth_ip_max_failed_logins; 0 disables the source throttle
    Window,        \* auth_ip_window_seconds
    SourceLock,    \* auth_ip_lockout_seconds
    Latency,       \* longest time from a handler's read to its commit
    MaxClock,      \* bound: time
    MaxMisses      \* bound: misses counted without a reset

\* The lock outlasts two requests: 900 s by default, and a request takes seconds.
ASSUME SignInAssumption ==
    /\ {MaxFailed, LockFor, SourceMax, Window, SourceLock, Latency} \subseteq Nat
    /\ {MaxClock, MaxMisses} \subseteq Nat
    /\ LockFor > 2 * Latency
    /\ Nothing \notin Sessions

VARIABLES
    clock,
    account,   \* the user's failed_login_count and locked_until (0: NULL)
    strong,    \* the user has a passkey or a confirmed TOTP
    active,    \* users.is_active
    session,   \* per id: not yet minted, re-authenticated lately or not, deleted
    pending,   \* a signed rf_mfa_pending cookie is alive
    source,    \* the login_attempt row of the address all requests come from
    owed,      \* misses counted since the last full sign-in, step-up or unlock
    early,     \* the requests that were under way when the running lock was set
    overtaken, \* the requests that found no second factor before one was enrolled
    pc, job    \* what each request waits for, and what it has read

vars == <<clock, account, strong, active, session, pending, source, owed, early, overtaken, pc, job>>

Accounts == [misses : Nat, until : Nat]
Attempts == [fails : Nat, since : Nat, until : Nat, at : Nat]
Jobs == [seen : Accounts \cup {Nothing}, at : Nat, on : Sessions \cup {Nothing}]
NoJob == [seen |-> Nothing, at |-> 0, on |-> Nothing]

Live(s) == session[s] \in {"fresh", "stale"}

\* is_locked, of the copy the handler has, by the time it asks.
Locked(a) == a.until > clock
Blocked == source # Nothing /\ source.until > clock

InFlight == {r \in Requests : pc[r] # "idle"}

Start(r, place, s) ==
    /\ pc[r] = "idle"
    /\ pc' = [pc EXCEPT ![r] = place]
    /\ job' = [job EXCEPT ![r] = [seen |-> account, at |-> clock, on |-> s]]
    /\ UNCHANGED <<clock, account, strong, active, session, pending, source, owed, early, overtaken>>

End(r) ==
    /\ pc' = [pc EXCEPT ![r] = "idle"]
    /\ job' = [job EXCEPT ![r] = NoJob]
    /\ overtaken' = overtaken \ {r}
    /\ UNCHANGED <<clock, strong, active>>

-----------------------------------------------------------------------------
(* The throttles                                                           *)

\* register_failed_login.  Bugs: the count is computed from the copy; the lock's
\* end is put before now.
CountedBackwards(a, seen) ==
    [misses |-> a.misses + 1,
     until |-> IF MaxFailed # 0 /\ a.misses + 1 >= MaxFailed
               THEN clock - LockFor ELSE a.until]
CountedFromCopy(a, seen) ==
    [misses |-> seen.misses + 1,
     until |-> IF MaxFailed # 0 /\ seen.misses + 1 >= MaxFailed
               THEN clock + LockFor ELSE a.until]
Counted(a, seen) ==
    [misses |-> a.misses + 1,
     until |-> IF MaxFailed # 0 /\ a.misses + 1 >= MaxFailed
               THEN clock + LockFor ELSE a.until]

\* reset_login_throttle, flushed.
Cleared(a, seen) ==
    [misses |-> IF seen.misses = 0 THEN a.misses ELSE 0,
     until |-> IF seen.until = 0 THEN a.until ELSE 0]

CountMiss(r) ==
    /\ account.misses < MaxMisses
    /\ account' = Counted(account, job[r].seen)
    /\ owed' = owed + 1
    /\ early' = (IF Locked(account) THEN early ELSE InFlight) \ {r}

ResetThrottle(r) ==
    /\ account' = Cleared(account, job[r].seen)
    /\ owed' = 0
    /\ early' = early \ {r}

KeepThrottle(r) ==
    /\ UNCHANGED <<account, owed>>
    /\ early' = early \ {r}

AccountUnchanged == UNCHANGED <<account, owed, early, overtaken>>

\* register_failed_source: INSERT ... ON CONFLICT, then the window and the block.
Failed ==
    LET lapsed == source # Nothing /\ clock - source.since > Window
        fails == IF source = Nothing \/ lapsed THEN 1 ELSE source.fails + 1
    IN  [fails |-> fails,
         since |-> IF source = Nothing \/ lapsed THEN clock ELSE source.since,
         until |-> IF fails >= SourceMax THEN clock + SourceLock
                   ELSE IF source = Nothing THEN 0 ELSE source.until,
         at |-> clock]

\* Both fail open: the savepoint rolls back, the request's own writes stay.
CountSource ==
    \/ SourceMax # 0 /\ source' = Failed
    \/ UNCHANGED source
ClearSource ==
    \/ source' = Nothing
    \/ UNCHANGED source

Longer(a, b) == IF a > b THEN a ELSE b

SweepSource ==
    /\ source # Nothing
    /\ source.until < clock
    /\ source.at + Longer(Window, SourceLock) < clock
    /\ source' = Nothing
    /\ UNCHANGED <<clock, strong, active, session, pending, pc, job>> /\ AccountUnchanged

-----------------------------------------------------------------------------
(* /login                                                                  *)

OpenLogin(r) == ~Blocked /\ Start(r, "password", Nothing)

\* An unknown user.
MissUnknown(r) ==
    /\ pc[r] = "password"
    /\ CountSource
    /\ End(r) /\ UNCHANGED <<session, pending>> /\ KeepThrottle(r)

\* Only an unlocked copy's miss counts.  Bug: is_locked is not asked.
AnyCopy(a) == TRUE
Counts(a) == ~Locked(a)

WrongPassword(r) ==
    /\ pc[r] = "password"
    /\ IF Counts(job[r].seen) THEN CountMiss(r) ELSE KeepThrottle(r)
    /\ CountSource
    /\ End(r) /\ UNCHANGED <<session, pending>>

Mint(s) ==
    /\ session[s] = "unused"
    /\ session' = [session EXCEPT ![s] = "fresh"]

\* Right, but the copy is locked: denied.
DenyLocked(r) ==
    /\ pc[r] = "password" /\ Locked(job[r].seen)
    /\ CountSource
    /\ End(r) /\ UNCHANGED <<session, pending>> /\ KeepThrottle(r)

\* Right, and a second factor is due: no reset.
AskFactor(r) ==
    /\ pc[r] = "password" /\ ~Locked(job[r].seen)
    /\ strong
    /\ KeepThrottle(r)
    /\ pending' = TRUE
    /\ End(r) /\ UNCHANGED <<session, source>>

\* Right, and no second factor is found.
FindNoFactor(r) ==
    /\ pc[r] = "password" /\ ~Locked(job[r].seen)
    /\ ~strong
    /\ pc' = [pc EXCEPT ![r] = "bare"]
    /\ UNCHANGED <<clock, strong, active, session, pending, source, job>> /\ AccountUnchanged

\* It resets and commits after more awaits, and does not look again.
SignInByPassword(r) ==
    /\ pc[r] = "bare"
    /\ ResetThrottle(r) /\ ClearSource
    /\ \E s \in Sessions : Mint(s)
    /\ End(r) /\ UNCHANGED pending

-----------------------------------------------------------------------------
(* /login/mfa                                                              *)

OpenCode(r) ==
    /\ ~Blocked
    /\ pending /\ active /\ Counts(account)
    /\ Start(r, "code", Nothing)

WrongCode(r) ==
    /\ pc[r] = "code"
    /\ CountMiss(r) /\ CountSource
    /\ End(r) /\ UNCHANGED <<session, pending>>

SignInByCode(r) ==
    /\ pc[r] = "code"
    /\ ResetThrottle(r) /\ ClearSource
    /\ \E s \in Sessions : Mint(s)
    /\ End(r) /\ UNCHANGED pending

\* The cookie is good for 300 seconds.
PendingExpires ==
    /\ pending
    /\ pending' = FALSE
    /\ UNCHANGED <<clock, strong, active, session, source, pc, job>> /\ AccountUnchanged

-----------------------------------------------------------------------------
(* /login/passkey: exempt from the account lock                            *)

WrongPasskey ==
    /\ ~Blocked
    /\ CountSource
    /\ UNCHANGED <<clock, strong, active, session, pending, pc, job>> /\ AccountUnchanged

SignInByPasskey ==
    /\ ~Blocked
    /\ strong /\ active
    /\ ClearSource
    /\ \E s \in Sessions : Mint(s)
    /\ UNCHANGED <<clock, strong, active, pending, pc, job>> /\ AccountUnchanged

-----------------------------------------------------------------------------
(* /auth/step-up: a live session proves itself again                       *)

OpenStepUp(r, s) ==
    /\ active /\ Live(s) /\ Counts(account)
    /\ Start(r, "stepup", s)

\* By passkey: neither bound by the lock nor counted towards it.
OpenPasskeyStepUp(r, s) ==
    /\ active /\ Live(s) /\ strong
    /\ Start(r, "passkey", s)

WrongStepUp(r) ==
    /\ pc[r] = "stepup"
    /\ CountMiss(r)
    /\ End(r) /\ UNCHANGED <<session, pending, source>>

\* UPDATE auth_sessions WHERE id: a deleted row raises and nothing is written
\* (GiveUp).  Bug: the row is merged back.
Merged(s) == session[s] # "unused"
Stampable(s) == Live(s)

StepUp(r) ==
    LET s == job[r].on IN
    /\ pc[r] \in {"stepup", "passkey"}
    /\ Stampable(s)
    /\ session' = [session EXCEPT ![s] = "fresh"]
    /\ ResetThrottle(r)
    /\ End(r) /\ UNCHANGED <<pending, source>>

\* The window of is_step_up_fresh.
GrowStale(s) ==
    /\ session[s] = "fresh"
    /\ session' = [session EXCEPT ![s] = "stale"]
    /\ UNCHANGED <<clock, strong, active, pending, source, pc, job>> /\ AccountUnchanged

\* Logout, and the sweep of sessions past their absolute expiry.
EndSession(s) ==
    /\ Live(s)
    /\ session' = [session EXCEPT ![s] = "gone"]
    /\ UNCHANGED <<clock, strong, active, pending, source, pc, job>> /\ AccountUnchanged

-----------------------------------------------------------------------------
(* Administration                                                          *)

Revoked == [s \in Sessions |-> IF Live(s) THEN "gone" ELSE session[s]]

Deactivate ==
    /\ active
    /\ active' = FALSE
    /\ session' = Revoked
    /\ UNCHANGED <<clock, strong, pending, source, pc, job>> /\ AccountUnchanged

Activate ==
    /\ ~active
    /\ active' = TRUE
    /\ UNCHANGED <<clock, strong, session, pending, source, pc, job>> /\ AccountUnchanged

ResetFactors ==
    /\ strong' = FALSE
    /\ session' = Revoked
    /\ UNCHANGED <<clock, active, pending, source, pc, job>> /\ AccountUnchanged

\* The routes of the security page ask for a fresh step-up.
Enrol ==
    /\ active /\ \E s \in Sessions : session[s] = "fresh"
    /\ ~strong
    /\ strong' = TRUE
    /\ overtaken' = {r \in Requests : pc[r] = "bare"}
    /\ UNCHANGED <<clock, active, session, pending, source, account, owed, early, pc, job>>

OpenUnlock(r) == Start(r, "unlock", Nothing)

Unlock(r) ==
    /\ pc[r] = "unlock"
    /\ ResetThrottle(r)
    /\ End(r) /\ UNCHANGED <<session, pending, source>>

\* A statement fails or the client goes away: the transaction rolls back.
GiveUp(r) ==
    /\ pc[r] # "idle"
    /\ End(r) /\ UNCHANGED <<session, pending, source>> /\ KeepThrottle(r)

Tick ==
    /\ clock < MaxClock
    /\ \A r \in Requests : pc[r] # "idle" => clock < job[r].at + Latency
    /\ clock' = clock + 1
    /\ UNCHANGED <<strong, active, session, pending, source, pc, job>> /\ AccountUnchanged

Init ==
    /\ clock = 0
    /\ account = [misses |-> 0, until |-> 0]
    /\ strong \in BOOLEAN
    /\ active = TRUE
    /\ session = [s \in Sessions |-> "unused"]
    /\ pending = FALSE
    /\ source = Nothing
    /\ owed = 0
    /\ early = {} /\ overtaken = {}
    /\ pc = [r \in Requests |-> "idle"]
    /\ job = [r \in Requests |-> NoJob]

RequestStep(r) ==
    \/ OpenLogin(r) \/ MissUnknown(r) \/ WrongPassword(r) \/ DenyLocked(r)
    \/ AskFactor(r) \/ FindNoFactor(r) \/ SignInByPassword(r)
    \/ OpenCode(r) \/ WrongCode(r) \/ SignInByCode(r)
    \/ WrongStepUp(r) \/ StepUp(r)
    \/ OpenUnlock(r) \/ Unlock(r)
    \/ GiveUp(r)

Next ==
    \/ \E r \in Requests : RequestStep(r)
    \/ \E r \in Requests, s \in Sessions : OpenStepUp(r, s) \/ OpenPasskeyStepUp(r, s)
    \/ \E s \in Sessions : GrowStale(s) \/ EndSession(s)
    \/ WrongPasskey \/ SignInByPasskey
    \/ SweepSource \/ PendingExpires
    \/ Deactivate \/ Activate \/ ResetFactors \/ Enrol
    \/ Tick

Spec == Init /\ [][Next]_vars

-----------------------------------------------------------------------------
\* Every variable has its type, and a request that has read carries its copy.
TypeOK ==
    /\ clock \in 0 .. MaxClock
    /\ account \in Accounts
    /\ strong \in BOOLEAN /\ active \in BOOLEAN /\ pending \in BOOLEAN
    /\ session \in [Sessions -> {"unused", "fresh", "stale", "gone"}]
    /\ source \in Attempts \cup {Nothing}
    /\ owed \in Nat
    /\ early \subseteq InFlight
    /\ overtaken \subseteq {r \in Requests : pc[r] = "bare"}
    /\ pc \in [Requests -> {"idle", "password", "bare", "code", "stepup", "passkey", "unlock"}]
    /\ job \in [Requests -> Jobs]
    /\ \A r \in Requests :
        /\ pc[r] # "idle" => job[r].seen \in Accounts
        /\ pc[r] \in {"stepup", "passkey"} => job[r].on \in Sessions

\* "N concurrent misses each count" (register_failed_login): as many wrong
\* answers as the limit, with no full sign-in between them, leave a lock behind
\* (running or expired), whatever copies the requests had and whatever resets of
\* older copies commit among them.
ThresholdLocks ==
    MaxFailed # 0 /\ owed >= MaxFailed => account.until # 0

\* A miss counted under a running lock extends it.  "an already-locked user's
\* repeated wrong guesses shouldn't keep extending the lockout window"
\* (login_post): only a request that was under way when the lock was set, and so
\* may have read the account unlocked, still does so, once.
LockBinds ==
    [][account'.misses > account.misses /\ Locked(account) =>
        \E r \in early : pc'[r] = "idle"]_vars

\* "password-verify is NOT full auth" (login_post): while a second factor is
\* enrolled, only a request that has passed it, or an admin's unlock, lowers the
\* count - or a sign-in by password that looked for a factor before this one was
\* enrolled, and had not committed by then.
ResetNeedsFullAuth ==
    [][strong /\ account'.misses < account.misses =>
        \E r \in Requests :
            /\ pc[r] \in {"code", "stepup", "passkey", "unlock"} \/ r \in overtaken
            /\ pc'[r] = "idle"]_vars

\* "Effective immediately" (revoke_user_sessions): a session that was revoked,
\* logged out or swept never comes back, not by a step-up under way either.
RevokedStaysGone ==
    [][\A s \in Sessions : session[s] = "gone" => session'[s] = "gone"]_vars
=============================================================================
