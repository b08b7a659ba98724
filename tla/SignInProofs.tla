----------------------------- MODULE SignInProofs -----------------------------
(***************************************************************************)
(* Proofs about SignIn, for any number of overlapping requests and any     *)
(* settings whose lock outlasts two requests.                              *)
(***************************************************************************)
EXTENDS SignIn, TLAPS

-----------------------------------------------------------------------------
(* What the throttles do to the account                                    *)

\* A miss keeps the account typed, adds one to its count, and leaves a lock
\* that ends LockFor from now when the count has reached the limit.
LEMMA MissCounts ==
    ASSUME clock \in Nat, NEW a \in Accounts, NEW seen
    PROVE  /\ Counted(a, seen) \in Accounts
           /\ Counted(a, seen).misses = a.misses + 1
           /\ Counted(a, seen).until \in {a.until, clock + LockFor}
           /\ MaxFailed # 0 /\ a.misses + 1 >= MaxFailed =>
                Counted(a, seen).until = clock + LockFor /\ Counted(a, seen).until # 0
  BY SignInAssumption DEF Counted, Accounts

\* A reset keeps the account typed and raises neither the count nor the lock.
LEMMA ResetLowers ==
    ASSUME NEW a \in Accounts, NEW seen \in Accounts
    PROVE  /\ Cleared(a, seen) \in Accounts
           /\ Cleared(a, seen).misses \in {0, a.misses}
           /\ Cleared(a, seen).until \in {0, a.until}
  BY DEF Cleared, Accounts

\* The source's row keeps its type.
LEMMA SourceTyped ==
    ASSUME clock \in Nat, source \in Attempts \cup {Nothing}, CountSource \/ ClearSource
    PROVE  source' \in Attempts \cup {Nothing}
  <1>1. Failed \in Attempts
    <2>1. CASE source = Nothing
      BY <2>1, SignInAssumption DEF Failed, Attempts
    <2>2. CASE source \in Attempts
      BY <2>2, SignInAssumption DEF Failed, Attempts
    <2> QED
      BY <2>1, <2>2
  <1> QED
    BY <1>1 DEF CountSource, ClearSource

-----------------------------------------------------------------------------
(* Types                                                                   *)

Places == {"idle", "password", "bare", "code", "stepup", "passkey", "unlock"}

JobTyped(r) ==
    /\ pc[r] # "idle" => job[r].seen \in Accounts
    /\ pc[r] \in {"stepup", "passkey"} => job[r].on \in Sessions

\* A request that starts carries a typed copy.
LEMMA StartTyped ==
    ASSUME TypeOK, NEW r \in Requests, NEW place \in Places \ {"idle"},
           NEW s \in Sessions \cup {Nothing},
           Start(r, place, s), place \in {"stepup", "passkey"} => s \in Sessions
    PROVE  TypeOK'
  <1> USE DEF TypeOK
  <1>1. early' \subseteq InFlight'
    BY DEF Start, InFlight, Places
  <1>2. job' \in [Requests -> Jobs]
    BY DEF Start, Jobs
  <1>3. ASSUME NEW q \in Requests
        PROVE  JobTyped(q)'
    BY <1>3 DEF Start, JobTyped, Places
  <1>4. pc' \in [Requests -> Places]
    BY DEF Start, Places
  <1>5. overtaken' \subseteq {q \in Requests : pc'[q] = "bare"}
    BY DEF Start
  <1> QED
    BY <1>1, <1>2, <1>3, <1>4, <1>5 DEF Start, JobTyped, Places

\* A request that ends carries nothing; what is left to show is the account,
\* the sessions, the source's row and the set of early requests.
LEMMA EndTyped ==
    ASSUME TypeOK, NEW r \in Requests, End(r),
           account' \in Accounts, owed' \in Nat, pending' \in BOOLEAN,
           early' \subseteq (InFlight \ {r}),
           session' \in [Sessions -> {"unused", "fresh", "stale", "gone"}],
           source' \in Attempts \cup {Nothing}
    PROVE  TypeOK'
  <1> USE DEF TypeOK
  <1>1. InFlight' = InFlight \ {r}
    BY DEF End, InFlight
  <1>2. job' \in [Requests -> Jobs]
    BY DEF End, Jobs, NoJob
  <1>3. ASSUME NEW q \in Requests
        PROVE  JobTyped(q)'
    BY <1>3 DEF End, JobTyped
  <1>4. pc' \in [Requests -> Places]
    BY DEF End, Places
  <1>5. overtaken' \subseteq {q \in Requests : pc'[q] = "bare"}
    BY DEF End
  <1> QED
    BY <1>1, <1>2, <1>3, <1>4, <1>5 DEF End, JobTyped, Places

\* The three ways in which a request leaves the throttle.
LEMMA ThrottleTyped ==
    ASSUME TypeOK, NEW r \in Requests, pc[r] # "idle",
           CountMiss(r) \/ ResetThrottle(r) \/ KeepThrottle(r)
    PROVE  account' \in Accounts /\ owed' \in Nat /\ early' \subseteq (InFlight \ {r})
  <1> USE DEF TypeOK
  <1>0. clock \in Nat
    BY SignInAssumption
  <1>1. CASE CountMiss(r)
    BY <1>0, <1>1, MissCounts DEF CountMiss
  <1>2. CASE ResetThrottle(r)
    BY <1>2, ResetLowers DEF ResetThrottle
  <1>3. CASE KeepThrottle(r)
    BY <1>3 DEF KeepThrottle
  <1> QED
    BY <1>1, <1>2, <1>3

-----------------------------------------------------------------------------
\* Every step keeps the types: a request's start, its end, and the rest, which
\* touches no request.
LEMMA TypeStep ==
    ASSUME TypeOK, Next
    PROVE  TypeOK'
  <1>0. clock \in Nat
    BY SignInAssumption DEF TypeOK
  <1>1. ASSUME NEW r \in Requests, RequestStep(r)
        PROVE  TypeOK'
    <2>1. CASE OpenLogin(r) \/ OpenCode(r) \/ OpenUnlock(r)
      BY <2>1, StartTyped DEF OpenLogin, OpenCode, OpenUnlock, Places
    <2>2. CASE MissUnknown(r) \/ WrongPassword(r) \/ DenyLocked(r) \/ WrongCode(r)
      <3>1. pc[r] # "idle" /\ End(r) /\ CountSource /\ UNCHANGED <<session, pending>>
        BY <2>2 DEF MissUnknown, WrongPassword, DenyLocked, WrongCode
      <3>2. CountMiss(r) \/ KeepThrottle(r)
        BY <2>2 DEF MissUnknown, WrongPassword, DenyLocked, WrongCode
      <3>3. account' \in Accounts /\ owed' \in Nat /\ early' \subseteq (InFlight \ {r})
        BY <3>1, <3>2, ThrottleTyped
      <3>4. source' \in Attempts \cup {Nothing}
        BY <3>1, <1>0, SourceTyped DEF TypeOK
      <3> QED
        BY <3>1, <3>3, <3>4, EndTyped DEF TypeOK
    <2>3. CASE SignInByPassword(r) \/ SignInByCode(r)
      <3>1. pc[r] # "idle" /\ End(r) /\ ClearSource /\ ResetThrottle(r) /\ UNCHANGED pending
        BY <2>3 DEF SignInByPassword, SignInByCode
      <3>2. account' \in Accounts /\ owed' \in Nat /\ early' \subseteq (InFlight \ {r})
        BY <3>1, ThrottleTyped
      <3>3. source' \in Attempts \cup {Nothing}
        BY <3>1, <1>0, SourceTyped DEF TypeOK
      <3>4. session' \in [Sessions -> {"unused", "fresh", "stale", "gone"}]
        BY <2>3 DEF SignInByPassword, SignInByCode, Mint, TypeOK
      <3> QED
        BY <3>1, <3>2, <3>3, <3>4, EndTyped DEF TypeOK
    <2>4. CASE AskFactor(r) \/ WrongStepUp(r) \/ StepUp(r) \/ Unlock(r) \/ GiveUp(r)
      <3>1. pc[r] # "idle" /\ End(r) /\ UNCHANGED source /\ pending' \in BOOLEAN
        BY <2>4 DEF AskFactor, WrongStepUp, StepUp, Unlock, GiveUp, TypeOK
      <3>2. CountMiss(r) \/ ResetThrottle(r) \/ KeepThrottle(r)
        BY <2>4 DEF AskFactor, WrongStepUp, StepUp, Unlock, GiveUp
      <3>3. account' \in Accounts /\ owed' \in Nat /\ early' \subseteq (InFlight \ {r})
        BY <3>1, <3>2, ThrottleTyped
      <3>4. session' \in [Sessions -> {"unused", "fresh", "stale", "gone"}]
        BY <2>4 DEF AskFactor, WrongStepUp, StepUp, Unlock, GiveUp, TypeOK
      <3> QED
        BY <3>1, <3>3, <3>4, EndTyped DEF TypeOK
    <2>5. CASE FindNoFactor(r)
      <3>1. pc[r] = "password" /\ pc' = [pc EXCEPT ![r] = "bare"]
        BY <2>5 DEF FindNoFactor
      <3>2. InFlight' = InFlight /\ pc' \in [Requests -> Places]
        BY <3>1 DEF TypeOK, InFlight, Places
      <3>3. overtaken \subseteq {q \in Requests : pc'[q] = "bare"}
        BY <3>1 DEF TypeOK
      <3>4. \A q \in Requests : JobTyped(q)'
        BY <2>5, <3>1 DEF FindNoFactor, JobTyped, TypeOK
      <3> QED
        BY <2>5, <3>2, <3>3, <3>4
        DEF FindNoFactor, AccountUnchanged, TypeOK, Places, JobTyped
    <2> QED
      BY <1>1, <2>1, <2>2, <2>3, <2>4, <2>5 DEF RequestStep
  <1>2. ASSUME NEW r \in Requests, NEW s \in Sessions,
               OpenStepUp(r, s) \/ OpenPasskeyStepUp(r, s)
        PROVE  TypeOK'
    BY <1>2, StartTyped DEF OpenStepUp, OpenPasskeyStepUp, Places
  <1>3. ASSUME NEW s \in Sessions, GrowStale(s) \/ EndSession(s)
        PROVE  TypeOK'
    BY <1>3 DEF GrowStale, EndSession, AccountUnchanged, TypeOK, InFlight
  <1>4. CASE WrongPasskey \/ SignInByPasskey
    <2>1. source' \in Attempts \cup {Nothing}
      BY <1>4, <1>0, SourceTyped DEF WrongPasskey, SignInByPasskey, TypeOK
    <2>2. session' \in [Sessions -> {"unused", "fresh", "stale", "gone"}]
      BY <1>4 DEF WrongPasskey, SignInByPasskey, Mint, TypeOK
    <2> QED
      BY <1>4, <2>1, <2>2
      DEF WrongPasskey, SignInByPasskey, AccountUnchanged, TypeOK, InFlight
  <1>5. CASE SweepSource \/ PendingExpires
    BY <1>5 DEF SweepSource, PendingExpires, AccountUnchanged, TypeOK, InFlight
  <1>6. CASE Deactivate \/ Activate \/ ResetFactors \/ Enrol
    <2>1. session' \in [Sessions -> {"unused", "fresh", "stale", "gone"}]
      BY <1>6 DEF Deactivate, Activate, ResetFactors, Enrol, Revoked, Live, TypeOK
    <2>2. /\ UNCHANGED <<clock, account, owed, early, pending, source, pc, job>>
          /\ strong' \in BOOLEAN /\ active' \in BOOLEAN
      BY <1>6 DEF Deactivate, Activate, ResetFactors, Enrol, AccountUnchanged, TypeOK
    <2>3. overtaken' \subseteq {r \in Requests : pc[r] = "bare"}
      BY <1>6 DEF Deactivate, Activate, ResetFactors, Enrol, AccountUnchanged, TypeOK
    <2> QED
      BY <2>1, <2>2, <2>3 DEF TypeOK, InFlight
  <1>7. CASE Tick
    BY <1>7, SignInAssumption DEF Tick, AccountUnchanged, TypeOK, InFlight
  <1> QED
    BY <1>1, <1>2, <1>3, <1>4, <1>5, <1>6, <1>7 DEF Next

\* Every variable keeps its type, whatever overlaps.
THEOREM TypeCorrect == Spec => []TypeOK
  <1>1. ASSUME Init
        PROVE  TypeOK
    <2> USE <1>1 DEF Init
    <2>1. clock \in 0 .. MaxClock /\ account \in Accounts
      BY SignInAssumption DEF Accounts
    <2>2. NoJob \in Jobs
      BY DEF NoJob, Jobs
    <2> QED
      BY <2>1, <2>2 DEF TypeOK, InFlight
  <1>2. TypeOK /\ [Next]_vars => TypeOK'
    <2>1. TypeOK /\ UNCHANGED vars => TypeOK'
      BY DEF TypeOK, vars, InFlight
    <2> QED
      BY <2>1, TypeStep
  <1> QED
    BY <1>1, <1>2, PTL DEF Spec

-----------------------------------------------------------------------------
(* The count and the lock                                                  *)

\* The account's count never falls below what is owed, and whoever owes the
\* limit has left a lock.
OwedCounted ==
    /\ account.misses >= owed
    /\ ThresholdLocks

\* How a step may change the account.
AccountStep ==
    \/ UNCHANGED <<account, owed, early>>
    \/ \E r \in InFlight :
         /\ pc'[r] = "idle"
         /\ \/ CountMiss(r) /\ (pc[r] = "password" => Counts(job[r].seen))
                 /\ pc[r] \in {"password", "code", "stepup"}
            \/ ResetThrottle(r) /\ pc[r] \in {"bare", "code", "stepup", "passkey", "unlock"}
            \/ KeepThrottle(r)

\* Only a request that ends touches the account, and only three kinds of
\* answers do.
LEMMA OnlyAnswersCount ==
    ASSUME TypeOK, Next
    PROVE  AccountStep
  <1>1. ASSUME NEW r \in Requests, RequestStep(r)
        PROVE  AccountStep
    <2>1. CASE OpenLogin(r) \/ OpenCode(r) \/ OpenUnlock(r) \/ FindNoFactor(r)
      BY <2>1
      DEF OpenLogin, OpenCode, OpenUnlock, FindNoFactor, Start, AccountUnchanged, AccountStep
    <2>2. CASE ~(OpenLogin(r) \/ OpenCode(r) \/ OpenUnlock(r) \/ FindNoFactor(r))
      <3>1. r \in InFlight /\ pc'[r] = "idle"
        BY <1>1, <2>2
        DEF RequestStep, MissUnknown, WrongPassword, DenyLocked, AskFactor,
            SignInByPassword, WrongCode, SignInByCode, WrongStepUp, StepUp, Unlock,
            GiveUp, End, InFlight, TypeOK
      <3>2. \/ CountMiss(r) /\ (pc[r] = "password" => Counts(job[r].seen))
                 /\ pc[r] \in {"password", "code", "stepup"}
            \/ ResetThrottle(r) /\ pc[r] \in {"bare", "code", "stepup", "passkey", "unlock"}
            \/ KeepThrottle(r)
        BY <1>1, <2>2
        DEF RequestStep, MissUnknown, WrongPassword, DenyLocked, AskFactor,
            SignInByPassword, WrongCode, SignInByCode, WrongStepUp, StepUp, Unlock, GiveUp
      <3> QED
        BY <3>1, <3>2 DEF AccountStep
    <2> QED
      BY <2>1, <2>2
  <1>2. CASE ~\E r \in Requests : RequestStep(r)
    <2>1. UNCHANGED <<account, owed, early>>
      BY <1>2
      DEF Next, OpenStepUp, OpenPasskeyStepUp, Start, GrowStale, EndSession, WrongPasskey,
          SignInByPasskey, SweepSource, PendingExpires, Deactivate, Activate,
          ResetFactors, Enrol, Tick, AccountUnchanged
    <2> QED
      BY <2>1 DEF AccountStep
  <1> QED
    BY <1>1, <1>2

\* A miss raises both, a reset forgets what was owed.
LEMMA OwedStep ==
    ASSUME TypeOK, OwedCounted, Next
    PROVE  OwedCounted'
  <1>0. AccountStep /\ account \in Accounts /\ clock \in Nat /\ owed \in Nat
    BY OnlyAnswersCount, SignInAssumption DEF TypeOK
  <1>1. CASE UNCHANGED <<account, owed, early>>
    BY <1>1 DEF OwedCounted, ThresholdLocks
  <1>2. ASSUME NEW r \in InFlight, CountMiss(r)
        PROVE  OwedCounted'
    BY <1>0, <1>2, MissCounts, SignInAssumption
    DEF CountMiss, OwedCounted, ThresholdLocks, Accounts
  <1>3. ASSUME NEW r \in InFlight, ResetThrottle(r)
        PROVE  OwedCounted'
    <2>1. job[r].seen \in Accounts
      BY <1>3 DEF InFlight, TypeOK
    <2>2. account'.misses \in Nat /\ owed' = 0
      BY <1>0, <1>3, <2>1, ResetLowers DEF ResetThrottle, Accounts
    <2> QED
      BY <2>2, SignInAssumption DEF OwedCounted, ThresholdLocks
  <1>4. ASSUME NEW r \in InFlight, KeepThrottle(r)
        PROVE  OwedCounted'
    BY <1>4 DEF KeepThrottle, OwedCounted, ThresholdLocks
  <1> QED
    BY <1>0, <1>1, <1>2, <1>3, <1>4 DEF AccountStep

\* As many misses as the limit, however they overlap each other and resets of
\* older copies, leave a lock behind.
THEOREM EnoughMissesLock == Spec => []ThresholdLocks
  <1>1. Init => OwedCounted
    BY SignInAssumption DEF Init, OwedCounted, ThresholdLocks
  <1>2. TypeOK /\ OwedCounted /\ [Next]_vars => OwedCounted'
    <2>1. OwedCounted /\ UNCHANGED vars => OwedCounted'
      BY DEF OwedCounted, ThresholdLocks, vars
    <2> QED
      BY <2>1, OwedStep
  <1>3. OwedCounted => ThresholdLocks
    BY DEF OwedCounted
  <1> QED
    BY <1>1, <1>2, <1>3, TypeCorrect, PTL DEF Spec

\* While a second factor is enrolled, whoever goes on without one looked before.
LookedBefore == strong => \A r \in Requests : pc[r] = "bare" => r \in overtaken

LEMMA LookedStep ==
    ASSUME TypeOK, LookedBefore, Next
    PROVE  LookedBefore'
  <1>1. ASSUME NEW r \in Requests, RequestStep(r)
        PROVE  LookedBefore'
    <2>1. CASE FindNoFactor(r)
      BY <2>1 DEF FindNoFactor, LookedBefore
    <2>2. CASE OpenLogin(r) \/ OpenCode(r) \/ OpenUnlock(r)
      BY <2>2 DEF OpenLogin, OpenCode, OpenUnlock, Start, LookedBefore, TypeOK
    <2>3. CASE ~(OpenLogin(r) \/ OpenCode(r) \/ OpenUnlock(r) \/ FindNoFactor(r))
      <3>1. End(r)
        BY <1>1, <2>3
        DEF RequestStep, MissUnknown, WrongPassword, DenyLocked, AskFactor,
            SignInByPassword, WrongCode, SignInByCode, WrongStepUp, StepUp, Unlock, GiveUp
      <3> QED
        BY <3>1 DEF End, LookedBefore, TypeOK
    <2> QED
      BY <2>1, <2>2, <2>3
  <1>2. CASE \E r \in Requests, s \in Sessions : OpenStepUp(r, s) \/ OpenPasskeyStepUp(r, s)
    BY <1>2 DEF OpenStepUp, OpenPasskeyStepUp, Start, LookedBefore, TypeOK
  <1>3. CASE Enrol
    BY <1>3 DEF Enrol, LookedBefore
  <1>4. CASE (\E s \in Sessions : GrowStale(s) \/ EndSession(s))
             \/ WrongPasskey \/ SignInByPasskey \/ SweepSource \/ PendingExpires
             \/ Deactivate \/ Activate \/ ResetFactors \/ Tick
    <2>1. UNCHANGED <<pc, overtaken>> /\ (strong' = strong \/ strong' = FALSE)
      BY <1>4
      DEF GrowStale, EndSession, WrongPasskey, SignInByPasskey, SweepSource,
          PendingExpires, Deactivate, Activate, ResetFactors, Tick, AccountUnchanged
    <2> QED
      BY <2>1 DEF LookedBefore
  <1> QED
    BY <1>1, <1>2, <1>3, <1>4 DEF Next

\* While a second factor is enrolled, nothing but a passed factor or an unlock
\* lowers the count, or a password sign-in that looked for one before.
THEOREM FullAuthResets == Spec => ResetNeedsFullAuth
  <1>1. Init => LookedBefore
    BY DEF Init, LookedBefore
  <1>2. TypeOK /\ LookedBefore /\ [Next]_vars => LookedBefore'
    <2>1. LookedBefore /\ UNCHANGED vars => LookedBefore'
      BY DEF LookedBefore, vars
    <2> QED
      BY <2>1, LookedStep
  <1>3. TypeOK /\ LookedBefore /\ [Next]_vars =>
          [strong /\ account'.misses < account.misses =>
            \E r \in Requests :
               /\ pc[r] \in {"code", "stepup", "passkey", "unlock"} \/ r \in overtaken
               /\ pc'[r] = "idle"]_vars
    <2> SUFFICES ASSUME TypeOK, LookedBefore, Next, strong, account'.misses < account.misses
                 PROVE  \E r \in Requests :
                    /\ pc[r] \in {"code", "stepup", "passkey", "unlock"} \/ r \in overtaken
                    /\ pc'[r] = "idle"
      OBVIOUS
    <2>0. AccountStep /\ account \in Accounts /\ clock \in Nat
      BY OnlyAnswersCount, SignInAssumption DEF TypeOK
    <2>1. ASSUME NEW r \in InFlight, CountMiss(r)
          PROVE  FALSE
      BY <2>0, <2>1, MissCounts DEF CountMiss, Accounts
    <2>2. ~(UNCHANGED <<account, owed, early>>) /\ \A r \in InFlight : ~KeepThrottle(r)
      BY <2>0 DEF KeepThrottle, Accounts
    <2>3. PICK r \in InFlight :
            /\ pc'[r] = "idle"
            /\ pc[r] \in {"bare", "code", "stepup", "passkey", "unlock"}
      BY <2>0, <2>1, <2>2 DEF AccountStep
    <2> QED
      BY <2>3 DEF InFlight, LookedBefore
  <1> QED
    BY <1>1, <1>2, <1>3, TypeCorrect, PTL DEF Spec, ResetNeedsFullAuth

-----------------------------------------------------------------------------
(* Who may still count under a lock                                        *)

\* A request lasts at most Latency.
OnTime(r) == job[r].at <= clock /\ clock <= job[r].at + Latency

\* A request that is not early cannot count: it does not ask for a code or a
\* re-authentication, and its copy is locked for as long as it lasts.
CannotCount(r) ==
    /\ pc[r] \notin {"code", "stepup"}
    /\ pc[r] = "password" =>
        \/ job[r].seen.until > job[r].at + Latency
        \/ job[r].seen.until = account.until

\* The lock outlasts the early requests by LockFor, so one of them that extends
\* it finds it still running for longer than any request now in flight.
LockHeld ==
    /\ \A r \in InFlight : OnTime(r)
    /\ Locked(account) =>
        /\ \A e \in early : account.until >= job[e].at + LockFor
        /\ \A r \in InFlight \ early : CannotCount(r)

\* Under a lock only an early request counts.
LEMMA LateCannotCount ==
    ASSUME TypeOK, LockHeld, Locked(account), NEW r \in InFlight,
           pc[r] = "password" => Counts(job[r].seen),
           pc[r] \in {"password", "code", "stepup"}
    PROVE  r \in early
  <1> SUFFICES ASSUME r \notin early
               PROVE  FALSE
    OBVIOUS
  <1>1. CannotCount(r) /\ OnTime(r)
    BY DEF LockHeld
  <1>2. pc[r] = "password" /\ ~Locked(job[r].seen)
    BY <1>1 DEF CannotCount, Counts
  <1>3. job[r].seen \in Accounts /\ job[r] \in Jobs /\ account \in Accounts /\ clock \in Nat
    BY SignInAssumption DEF TypeOK, InFlight
  <1> QED
    BY <1>1, <1>2, <1>3, SignInAssumption DEF CannotCount, OnTime, Locked, Accounts, Jobs

\* The requests that go on while one ends are unchanged.
LEMMA EndLeaves ==
    ASSUME TypeOK, NEW r \in Requests, End(r)
    PROVE  /\ InFlight' = InFlight \ {r} /\ clock' = clock
           /\ \A q \in InFlight \ {r} : pc'[q] = pc[q] /\ job'[q] = job[q]
  BY DEF TypeOK, End, InFlight

\* A counted miss: it sets the lock, or an early request extends it.
LEMMA MissHolds ==
    ASSUME TypeOK, LockHeld, NEW r \in InFlight, End(r), CountMiss(r),
           pc[r] = "password" => Counts(job[r].seen),
           pc[r] \in {"password", "code", "stepup"}
    PROVE  LockHeld'
  <1>0. /\ account \in Accounts /\ account' \in Accounts /\ clock \in Nat
        /\ \A q \in InFlight : job[q] \in Jobs /\ job[q].seen \in Accounts
        /\ early \subseteq InFlight
        /\ account'.until \in {account.until, clock + LockFor}
    BY MissCounts, SignInAssumption DEF TypeOK, InFlight, CountMiss
  <1>1. /\ InFlight' = InFlight \ {r} /\ clock' = clock
        /\ \A q \in InFlight \ {r} : pc'[q] = pc[q] /\ job'[q] = job[q]
    BY EndLeaves DEF InFlight
  <1>2. \A q \in InFlight' : OnTime(q)'
    BY <1>1 DEF LockHeld, OnTime
  <1>3. ASSUME Locked(account)'
        PROVE  /\ \A e \in early' : account'.until >= job'[e].at + LockFor
               /\ \A q \in InFlight' \ early' : CannotCount(q)'
    <2>1. CASE ~Locked(account)
      <3>1. account'.until = clock + LockFor /\ early' = InFlight \ {r}
        BY <1>0, <1>1, <1>3, <2>1 DEF Locked, CountMiss
      <3> QED
        BY <1>0, <1>1, <3>1, SignInAssumption DEF LockHeld, OnTime, Jobs
    <2>2. CASE Locked(account)
      <3>1. r \in early /\ early' = early \ {r}
        BY <2>2, LateCannotCount DEF CountMiss
      <3>2. \A e \in early' : account'.until >= job'[e].at + LockFor
        BY <1>0, <1>1, <2>2, <3>1, SignInAssumption DEF LockHeld, OnTime, Jobs, Accounts
      <3>3. ASSUME NEW q \in InFlight' \ early'
            PROVE  CannotCount(q)'
        <4>1. /\ q \in InFlight \ early /\ CannotCount(q) /\ OnTime(q) /\ OnTime(r)
              /\ account.until >= job[r].at + LockFor
          BY <1>1, <2>2, <3>1, <3>3 DEF LockHeld
        <4>2. account.until > job[q].at + Latency
          BY <1>0, <4>1, SignInAssumption DEF OnTime, Jobs, Accounts
        <4> QED
          BY <1>0, <1>1, <3>3, <4>1, <4>2 DEF CannotCount
      <3> QED
        BY <3>2, <3>3
    <2> QED
      BY <2>1, <2>2
  <1> QED
    BY <1>2, <1>3 DEF LockHeld

\* A reset lifts the lock or leaves it; anything else leaves it.
LEMMA OtherEndHolds ==
    ASSUME TypeOK, LockHeld, NEW r \in InFlight, End(r),
           ResetThrottle(r) \/ KeepThrottle(r)
    PROVE  LockHeld'
  <1>0. job[r].seen \in Accounts /\ account \in Accounts /\ clock \in Nat
    BY SignInAssumption DEF TypeOK, InFlight
  <1>1. account'.until \in {0, account.until} /\ early' = early \ {r}
    BY <1>0, ResetLowers DEF ResetThrottle, KeepThrottle
  <1>2. /\ InFlight' = InFlight \ {r} /\ clock' = clock
        /\ \A q \in InFlight \ {r} : pc'[q] = pc[q] /\ job'[q] = job[q]
    BY EndLeaves DEF InFlight
  <1>3. Locked(account)' => Locked(account) /\ account'.until = account.until
    BY <1>0, <1>1, <1>2 DEF Locked
  <1>4. early \subseteq InFlight
    BY DEF TypeOK
  <1> QED
    BY <1>1, <1>2, <1>3, <1>4 DEF LockHeld, OnTime, CannotCount

\* A request that starts under the lock has a locked copy, or none is needed.
LEMMA StartHolds ==
    ASSUME TypeOK, LockHeld, NEW r \in Requests, NEW place \in Places \ {"idle"}, NEW s,
           Start(r, place, s), place \in {"code", "stepup"} => Counts(account)
    PROVE  LockHeld'
  <1>0. account \in Accounts /\ clock \in Nat /\ early \subseteq InFlight
    BY SignInAssumption DEF TypeOK
  <1>1. /\ InFlight' = InFlight \cup {r} /\ r \notin InFlight
        /\ clock' = clock /\ account' = account /\ early' = early
        /\ \A q \in InFlight : pc'[q] = pc[q] /\ job'[q] = job[q]
        /\ pc'[r] = place /\ job'[r].seen = account /\ job'[r].at = clock
    BY DEF Start, InFlight, TypeOK, Places
  <1>2. OnTime(r)'
    BY <1>0, <1>1, SignInAssumption DEF OnTime
  <1>3. Locked(account)' => Locked(account) /\ CannotCount(r)'
    BY <1>1 DEF Locked, Counts, CannotCount
  <1>4. r \notin early
    BY <1>0, <1>1
  <1> QED
    BY <1>0, <1>1, <1>2, <1>3, <1>4 DEF LockHeld, OnTime, CannotCount, Locked

\* A password that is found to be enough: its request asks for no code.
LEMMA FindHolds ==
    ASSUME TypeOK, LockHeld, NEW r \in Requests, FindNoFactor(r)
    PROVE  LockHeld'
  <1>1. /\ pc[r] = "password" /\ pc'[r] = "bare" /\ \A q \in Requests \ {r} : pc'[q] = pc[q]
        /\ UNCHANGED <<clock, account, early, job>>
    BY DEF FindNoFactor, AccountUnchanged, TypeOK
  <1>2. InFlight' = InFlight
    BY <1>1 DEF InFlight
  <1>3. \A q \in InFlight : CannotCount(q) => CannotCount(q)'
    BY <1>1 DEF CannotCount, InFlight
  <1> QED
    BY <1>1, <1>2, <1>3 DEF LockHeld, OnTime, Locked

\* What the invariant reads does not change in the steps that touch no request.
LEMMA NoRequestHolds ==
    ASSUME LockHeld, UNCHANGED <<clock, account, early, pc, job>>
    PROVE  LockHeld'
  BY DEF LockHeld, InFlight, OnTime, CannotCount, Locked

LEMMA TickHolds ==
    ASSUME TypeOK, LockHeld, Tick
    PROVE  LockHeld'
  <1>0. clock \in Nat /\ account \in Accounts /\ \A r \in InFlight : job[r] \in Jobs
    BY SignInAssumption DEF TypeOK, InFlight
  <1>1. InFlight' = InFlight /\ UNCHANGED <<pc, job, account, early>> /\ clock' = clock + 1
    BY DEF Tick, AccountUnchanged, InFlight
  <1>2. \A r \in InFlight : OnTime(r)'
    BY <1>0, <1>1, SignInAssumption DEF Tick, OnTime, InFlight, LockHeld, Jobs
  <1>3. Locked(account)' => Locked(account)
    BY <1>0, <1>1 DEF Locked, Accounts
  <1> QED
    BY <1>1, <1>2, <1>3 DEF LockHeld, CannotCount

\* What each request's step is to the invariant.
LEMMA RequestHolds ==
    ASSUME TypeOK, LockHeld, NEW r \in Requests, RequestStep(r)
    PROVE  LockHeld'
  <1>1. CASE OpenLogin(r) \/ OpenCode(r) \/ OpenUnlock(r)
    BY <1>1, StartHolds DEF OpenLogin, OpenCode, OpenUnlock, Places
  <1>2. CASE (WrongPassword(r) /\ CountMiss(r)) \/ WrongCode(r) \/ WrongStepUp(r)
    <2>1. r \in InFlight /\ End(r) /\ CountMiss(r) /\ pc[r] \in {"password", "code", "stepup"}
      BY <1>2 DEF WrongPassword, WrongCode, WrongStepUp, InFlight
    <2>2. pc[r] = "password" => Counts(job[r].seen)
      BY <1>2
      DEF WrongPassword, WrongCode, WrongStepUp, CountMiss, KeepThrottle, TypeOK, Accounts
    <2> QED
      BY <2>1, <2>2, MissHolds
  <1>3. CASE ~(OpenLogin(r) \/ OpenCode(r) \/ OpenUnlock(r) \/ FindNoFactor(r))
             /\ ~((WrongPassword(r) /\ CountMiss(r)) \/ WrongCode(r) \/ WrongStepUp(r))
    <2>1. r \in InFlight /\ End(r) /\ (ResetThrottle(r) \/ KeepThrottle(r))
      BY <1>3
      DEF RequestStep, MissUnknown, WrongPassword, DenyLocked, AskFactor,
          SignInByPassword, SignInByCode, StepUp, Unlock, GiveUp, InFlight
    <2> QED
      BY <2>1, OtherEndHolds
  <1>4. CASE FindNoFactor(r)
    BY <1>4, FindHolds
  <1> QED
    BY <1>1, <1>2, <1>3, <1>4

LEMMA LockStep ==
    ASSUME TypeOK, LockHeld, Next
    PROVE  LockHeld'
  <1>1. CASE \E r \in Requests : RequestStep(r)
    BY <1>1, RequestHolds
  <1>2. CASE \E r \in Requests, s \in Sessions : OpenStepUp(r, s) \/ OpenPasskeyStepUp(r, s)
    BY <1>2, StartHolds DEF OpenStepUp, OpenPasskeyStepUp, Places
  <1>3. CASE Tick
    BY <1>3, TickHolds
  <1>4. CASE (\E s \in Sessions : GrowStale(s) \/ EndSession(s))
             \/ WrongPasskey \/ SignInByPasskey \/ SweepSource \/ PendingExpires
             \/ Deactivate \/ Activate \/ ResetFactors \/ Enrol
    <2>1. UNCHANGED <<clock, account, early, pc, job>>
      BY <1>4
      DEF GrowStale, EndSession, WrongPasskey, SignInByPasskey, SweepSource,
          PendingExpires, Deactivate, Activate, ResetFactors, Enrol, AccountUnchanged
    <2> QED
      BY <2>1, NoRequestHolds
  <1> QED
    BY <1>1, <1>2, <1>3, <1>4 DEF Next

\* Under a running lock only a request that was under way when the lock was set
\* counts a miss, and so extends it.
THEOREM LockNotExtended == Spec => LockBinds
  <1>1. Init => LockHeld
    BY DEF Init, LockHeld, InFlight, Locked
  <1>2. TypeOK /\ LockHeld /\ [Next]_vars => LockHeld'
    <2>1. LockHeld /\ UNCHANGED vars => LockHeld'
      BY NoRequestHolds DEF vars
    <2> QED
      BY <2>1, LockStep
  <1>3. TypeOK /\ LockHeld /\ [Next]_vars =>
          [account'.misses > account.misses /\ Locked(account) =>
             \E r \in early : pc'[r] = "idle"]_vars
    <2> SUFFICES ASSUME TypeOK, LockHeld, Next,
                        account'.misses > account.misses, Locked(account)
                 PROVE  \E r \in early : pc'[r] = "idle"
      OBVIOUS
    <2>0. AccountStep /\ account \in Accounts
      BY OnlyAnswersCount DEF TypeOK
    <2>1. ~(UNCHANGED <<account, owed, early>>) /\ \A r \in InFlight : ~KeepThrottle(r)
      BY <2>0 DEF KeepThrottle, Accounts
    <2>2. ASSUME NEW r \in InFlight, ResetThrottle(r)
          PROVE  FALSE
      <3>1. job[r].seen \in Accounts
        BY <2>2 DEF InFlight, TypeOK
      <3> QED
        BY <2>0, <2>2, <3>1, ResetLowers DEF ResetThrottle, Accounts
    <2>3. PICK r \in InFlight :
             /\ pc'[r] = "idle" /\ (pc[r] = "password" => Counts(job[r].seen))
             /\ pc[r] \in {"password", "code", "stepup"}
      BY <2>0, <2>1, <2>2 DEF AccountStep
    <2> QED
      BY <2>3, LateCannotCount
  <1> QED
    BY <1>1, <1>2, <1>3, TypeCorrect, PTL DEF Spec, LockBinds

-----------------------------------------------------------------------------
(* Sessions                                                                *)

\* A session that is gone stays gone.
THEOREM GoneForGood == Spec => RevokedStaysGone
  <1>1. TypeOK /\ [Next]_vars =>
          [\A s \in Sessions : session[s] = "gone" => session'[s] = "gone"]_vars
    <2> SUFFICES ASSUME TypeOK, Next, NEW s \in Sessions, session[s] = "gone"
                 PROVE  session'[s] = "gone"
      OBVIOUS
    <2> USE DEF TypeOK
    <2>1. ASSUME NEW r \in Requests, RequestStep(r)
          PROVE  session'[s] = "gone"
      <3>1. CASE SignInByPassword(r) \/ SignInByCode(r)
        BY <3>1 DEF SignInByPassword, SignInByCode, Mint
      <3>2. CASE StepUp(r)
        BY <3>2 DEF StepUp, Stampable, Live
      <3>3. CASE ~(SignInByPassword(r) \/ SignInByCode(r) \/ StepUp(r))
        BY <2>1, <3>3
        DEF RequestStep, OpenLogin, MissUnknown, WrongPassword, DenyLocked, AskFactor,
            FindNoFactor, OpenCode, WrongCode, WrongStepUp, OpenUnlock, Unlock, GiveUp, Start
      <3> QED
        BY <3>1, <3>2, <3>3
    <2>2. CASE \E r \in Requests, t \in Sessions : OpenStepUp(r, t) \/ OpenPasskeyStepUp(r, t)
      BY <2>2 DEF OpenStepUp, OpenPasskeyStepUp, Start
    <2>3. CASE \E t \in Sessions : GrowStale(t) \/ EndSession(t)
      BY <2>3 DEF GrowStale, EndSession, Live
    <2>4. CASE WrongPasskey \/ SignInByPasskey
      BY <2>4 DEF WrongPasskey, SignInByPasskey, Mint
    <2>5. CASE SweepSource \/ PendingExpires \/ Activate \/ Enrol \/ Tick
      BY <2>5 DEF SweepSource, PendingExpires, Activate, Enrol, Tick
    <2>6. CASE Deactivate \/ ResetFactors
      BY <2>6 DEF Deactivate, ResetFactors, Revoked, Live
    <2> QED
      BY <2>1, <2>2, <2>3, <2>4, <2>5, <2>6 DEF Next
  <1> QED
    BY <1>1, TypeCorrect, PTL DEF Spec, RevokedStaysGone

=============================================================================
