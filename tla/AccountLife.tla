---------------------------- MODULE AccountLife ----------------------------
(***************************************************************************)
(* How accounts are locked, disabled for inactivity, warned and            *)
(* reactivated.  A login reads the user's row, decides, and writes what    *)
(* follows from the row it read, while other logins, password resets, the  *)
(* nightly job (disable-inactive-accounts) and an administrator write it.  *)
(* Times are ages in ticks, and every request and every run of the job     *)
(* ends within the tick it began in.                                       *)
(***************************************************************************)
EXTENDS Integers, Sequences, FiniteSets

CONSTANTS
    Account,         \* rows of pafs_core_users
    Login,           \* slots for logins in progress
    MaxAttempts,     \* auth.accountLocking.maxAttempts
    LockDuration,    \* auth.accountLocking.lockDuration, in ticks
    WarningDays,     \* auth.accountDisabling.inactivityWarningDays, in ticks
    InactivityDays   \* auth.accountDisabling.inactivityDays, in ticks

ASSUME LimitAssumption ==
    /\ MaxAttempts \in Nat \ {0}
    /\ LockDuration \in Nat \ {0}
    /\ WarningDays \in Nat
    /\ InactivityDays \in Nat \ {0}
    /\ WarningDays < InactivityDays

VARIABLES
    users,       \* each account's row
    pc,          \* each login: the write it is about to make
    who,         \* the account it is for
    snapshot,    \* what it keeps of the row it read
    job,         \* the nightly job's next step
    queue,       \* accounts to warn whose mail has not been tried
    tried,       \* those whose mail has been tried, in order
    sent,        \* number of mails that were sent
    inactive,    \* accounts found inactive
    signIn,      \* history: ages of the latest and the previous day of sign-in
    made         \* history: wrong passwords ever, up to MaxAttempts

jobVars == <<job, queue, tried, sent, inactive>>
loginVars == <<pc, who, snapshot>>
vars == <<users, pc, who, snapshot, job, queue, tried, sent, inactive, signIn,
          made>>

Oldest ==
    IF LockDuration > InactivityDays THEN LockDuration ELSE InactivityDays + 1
Never == -1
Age == 0 .. Oldest
Time == Age \cup {Never}

User == [status: {"pending", "approved", "active"}, disabled: BOOLEAN,
         failed: 0 .. MaxAttempts, locked: Time, created: Age,
         last: Time, current: Time, warned: BOOLEAN]
Snapshot == [failed: 0 .. MaxAttempts - 1, current: Time]

TypeOK ==
    /\ users \in [Account -> User]
    /\ pc \in [Login -> {"idle", "disable", "fail", "succeed"}]
    /\ who \in [Login -> Account]
    /\ snapshot \in [Login -> Snapshot]
    /\ job \in {"idle", "send", "mark", "find", "disable"}
    /\ queue \in SUBSET Account
    /\ tried \in Seq(Account)
    /\ sent \in 0 .. Len(tried)
    /\ inactive \in SUBSET Account
    /\ signIn \in [Account -> [latest: Time, previous: Time]]
    /\ made \in [Account -> 0 .. MaxAttempts]

\* A row just created; one of an approved domain is in the state that
\* ApproveAccount leads to.
NewUser == [status |-> "pending", disabled |-> FALSE, failed |-> 0,
            locked |-> Never, created |-> 0, last |-> Never,
            current |-> Never, warned |-> FALSE]
NoSnapshot == [failed |-> 0, current |-> Never]

Init ==
    /\ users = [a \in Account |-> NewUser]
    /\ pc = [p \in Login |-> "idle"]
    /\ who \in [Login -> Account]
    /\ snapshot = [p \in Login |-> NoSnapshot]
    /\ job = "idle"
    /\ queue = {}
    /\ tried = <<>>
    /\ sent = 0
    /\ inactive = {}
    /\ signIn = [a \in Account |-> [latest |-> Never, previous |-> Never]]
    /\ made = [a \in Account |-> 0]

----------------------------------------------------------------------------
(* Login                                                                   *)

ShouldResetLockout(u) == u.locked # Never /\ u.locked >= LockDuration
IsAccountLocked(u) == u.locked # Never /\ ~ShouldResetLockout(u)
ShouldDisableAccount(u) == u.last # Never /\ u.last >= InactivityDays

\* What is let past the checks before the one of inactivity.
MayTryPassword(u) ==
    u.status = "active" /\ ~u.disabled /\ ~IsAccountLocked(u)

\* Faulty variants, each a plausible mistake in the operator it precedes, show
\* that the properties below can fail.  This one never counts anew.
FailedBeforeKept(u) == u.failed

\* _handleLockoutReset counts anew in memory only.
FailedBefore(u) == IF ShouldResetLockout(u) THEN 0 ELSE u.failed

\* findUserByEmail, the checks and the comparison of the password; a login
\* that is refused by a check writes nothing.
BeginLogin(p, a, right) ==
    /\ pc[p] = "idle"
    /\ MayTryPassword(users[a])
    /\ pc' = [pc EXCEPT ![p] =
                IF ShouldDisableAccount(users[a]) THEN "disable"
                ELSE IF right THEN "succeed" ELSE "fail"]
    /\ who' = [who EXCEPT ![p] = a]
    /\ snapshot' = [snapshot EXCEPT ![p] =
                      [failed |-> FailedBefore(users[a]),
                       current |-> users[a].current]]
    /\ UNCHANGED <<users, jobVars, signIn, made>>

EndLogin(p) ==
    /\ pc' = [pc EXCEPT ![p] = "idle"]
    /\ snapshot' = [snapshot EXCEPT ![p] = NoSnapshot]
    /\ UNCHANGED <<who, jobVars>>

\* disableAccount, from _checkAccountInactivity.
LoginDisable(p) ==
    /\ pc[p] = "disable"
    /\ users' = [users EXCEPT ![who[p]] = [@ EXCEPT !.disabled = TRUE]]
    /\ EndLogin(p)
    /\ UNCHANGED <<signIn, made>>

Up(n) == IF n < MaxAttempts THEN n + 1 ELSE n

\* Faulty: locks one attempt early.
LocksEarly(failed) == failed + 1 >= MaxAttempts

Locks(failed) == failed >= MaxAttempts

\* handleFailedAttempt: the count it writes follows from the count it read.
LoginFail(p) ==
    LET failed == snapshot[p].failed + 1
        lock == Locks(failed)
        a == who[p]
    IN  /\ pc[p] = "fail"
        /\ users' = [users EXCEPT ![a] =
                      [@ EXCEPT !.failed = failed,
                                !.locked = IF lock THEN 0 ELSE users[a].locked]]
        /\ made' = [made EXCEPT ![a] = Up(@)]
        /\ EndLogin(p)
        /\ UNCHANGED signIn

SignedIn(s) ==
    IF s.latest = 0 THEN s ELSE [latest |-> 0, previous |-> s.latest]

\* Faulty: leaves the last sign-in alone.
LoginSucceedKeepingLast(p) ==
    LET a == who[p]
    IN  /\ pc[p] = "succeed"
        /\ users' = [users EXCEPT ![a] =
                      [@ EXCEPT !.current = 0, !.failed = 0, !.locked = Never]]
        /\ signIn' = [signIn EXCEPT ![a] = SignedIn(@)]
        /\ EndLogin(p)
        /\ UNCHANGED made

\* updateSuccessfulLogin: the sign-in read becomes the last one.
LoginSucceed(p) ==
    LET a == who[p]
    IN  /\ pc[p] = "succeed"
        /\ users' = [users EXCEPT ![a] =
                      [@ EXCEPT !.current = 0, !.last = snapshot[p].current,
                                !.failed = 0, !.locked = Never]]
        /\ signIn' = [signIn EXCEPT ![a] = SignedIn(@)]
        /\ EndLogin(p)
        /\ UNCHANGED made

\* The database refuses the write and the login answers with an error.
LoginAbandon(p) ==
    /\ pc[p] # "idle"
    /\ EndLogin(p)
    /\ UNCHANGED <<users, signIn, made>>

----------------------------------------------------------------------------
(* Approval, passwords and reactivation                                    *)

ChangeUser(a, new) ==
    /\ users' = [users EXCEPT ![a] = new]
    /\ UNCHANGED <<loginVars, jobVars, signIn, made>>

ApproveAccount(a) ==
    /\ users[a].status = "pending"
    /\ ChangeUser(a, [users[a] EXCEPT !.status = "approved"])

\* setInitialPassword: an invitation may be used again until it is cleared.
SetInitialPassword(a) ==
    /\ users[a].status \in {"approved", "active"}
    /\ ~users[a].disabled
    /\ ChangeUser(a, [users[a] EXCEPT !.status = "active", !.failed = 0,
                                      !.locked = Never])

\* updateUserPassword, for a reset token that is still good.
ResetPassword(a) ==
    /\ ~users[a].disabled
    /\ ChangeUser(a, [users[a] EXCEPT !.failed = 0, !.locked = Never])

ReactivateAccount(a) ==
    /\ users[a].disabled
    /\ ChangeUser(a, [users[a] EXCEPT !.disabled = FALSE, !.warned = FALSE,
                                      !.last = 0])

----------------------------------------------------------------------------
(* The nightly job                                                         *)

\* Faulty: forgets accounts that never signed in.
ClockOfSignIn(u) == u.last

\* The age that findInactiveAccounts and findAccountsNeedingWarning compare.
Clock(u) == IF u.last = Never THEN u.created ELSE u.last

Watched(u) == u.status \in {"active", "approved"} /\ ~u.disabled

NeedsWarning(u) ==
    /\ Watched(u)
    /\ ~u.warned
    /\ Clock(u) > WarningDays
    /\ Clock(u) <= InactivityDays

Inactive(u) == Watched(u) /\ Clock(u) > InactivityDays

Accounts(Test(_)) == {a \in Account : Test(users[a])}

\* findAccountsNeedingWarning; the rest is skipped when there is none.
JobFindWarnings ==
    /\ job = "idle"
    /\ queue' = Accounts(NeedsWarning)
    /\ job' = IF queue' = {} THEN "find" ELSE "send"
    /\ UNCHANGED <<users, loginVars, tried, sent, inactive, signIn, made>>

\* One mail of sendWarningEmails.
JobSend(a, delivered) ==
    /\ job = "send"
    /\ a \in queue
    /\ queue' = queue \ {a}
    /\ tried' = Append(tried, a)
    /\ sent' = IF delivered THEN sent + 1 ELSE sent
    /\ job' = IF queue' # {} THEN "send"
              ELSE IF sent' > 0 THEN "mark" ELSE "find"
    /\ UNCHANGED <<users, loginVars, inactive, signIn, made>>

\* markWarningEmailsSent, for as many accounts as mails were sent.
JobMark ==
    LET marked == {tried[n] : n \in 1 .. sent}
    IN  /\ job = "mark"
        /\ users' = [a \in Account |->
                       IF a \in marked THEN [users[a] EXCEPT !.warned = TRUE]
                       ELSE users[a]]
        /\ job' = "find"
        /\ UNCHANGED <<loginVars, queue, tried, sent, inactive, signIn, made>>

\* findInactiveAccounts.
JobFindInactive ==
    /\ job = "find"
    /\ inactive' = Accounts(Inactive)
    /\ job' = "disable"
    /\ UNCHANGED <<users, loginVars, queue, tried, sent, signIn, made>>

EndJob ==
    /\ job' = "idle"
    /\ queue' = {}
    /\ tried' = <<>>
    /\ sent' = 0
    /\ inactive' = {}
    /\ UNCHANGED <<loginVars, signIn, made>>

\* _bulkDisableAccounts selects by id alone.
JobDisable ==
    /\ job = "disable"
    /\ users' = [a \in Account |->
                   IF a \in inactive THEN [users[a] EXCEPT !.disabled = TRUE]
                   ELSE users[a]]
    /\ EndJob

\* A query fails, or the instance stops.
JobFails ==
    /\ job # "idle"
    /\ EndJob
    /\ UNCHANGED users

----------------------------------------------------------------------------

Older(t) == IF t = Never \/ t = Oldest THEN t ELSE t + 1

\* Requests and the job take no time on the scale of a tick.
Tick ==
    /\ job = "idle"
    /\ \A p \in Login : pc[p] = "idle"
    /\ users' = [a \in Account |->
                   [users[a] EXCEPT !.locked = Older(@), !.created = Older(@),
                                    !.last = Older(@), !.current = Older(@)]]
    /\ signIn' = [a \in Account |-> [latest |-> Older(signIn[a].latest),
                                     previous |-> Older(signIn[a].previous)]]
    /\ UNCHANGED <<loginVars, jobVars, made>>

LoginWrite(p) ==
    LoginDisable(p) \/ LoginFail(p) \/ LoginSucceed(p) \/ LoginAbandon(p)

Next ==
    \/ \E p \in Login : \/ \E a \in Account, right \in BOOLEAN :
                              BeginLogin(p, a, right)
                        \/ LoginWrite(p)
    \/ \E a \in Account : \/ ApproveAccount(a) \/ SetInitialPassword(a)
                          \/ ResetPassword(a) \/ ReactivateAccount(a)
                          \/ \E delivered \in BOOLEAN : JobSend(a, delivered)
    \/ JobFindWarnings \/ JobMark \/ JobFindInactive \/ JobDisable \/ JobFails
    \/ Tick

Spec == Init /\ [][Next]_vars

\* Logins are answered, the job runs again and again and is not hindered for
\* ever by failures, and time passes, however busy the accounts are.
Fairness ==
    /\ \A p \in Login : WF_vars(LoginWrite(p))
    /\ WF_vars(JobFindWarnings)
    /\ SF_vars(\E a \in Account, d \in BOOLEAN : JobSend(a, d))
    /\ SF_vars(JobMark)
    /\ SF_vars(JobFindInactive)
    /\ SF_vars(JobDisable)
    /\ []<><<Tick>>_vars

FairSpec == Spec /\ Fairness

----------------------------------------------------------------------------
(* Properties                                                              *)

\* A user who signed in on two days of the last InactivityDays, the latest of
\* them not today, is not disabled, neither by a login's check nor by the
\* nightly job, however these interleave and whatever else writes the row.
RegularUserKeepsAccess ==
    [][\A a \in Account :
         ~users[a].disabled /\ users'[a].disabled =>
             \/ signIn[a].latest \in {Never, 0}
             \/ signIn[a].previous = Never
             \/ signIn[a].previous >= InactivityDays]_vars

\* An account is not locked before MaxAttempts wrong passwords have been
\* tried, although the count each login writes is one more than it read.
LockNeedsWrongAttempts ==
    \A a \in Account : users[a].locked # Never => made[a] = MaxAttempts

\* An account that is used no more is disabled, although each night's run may
\* fail before it gets there.
AbandonedAccountIsDisabled ==
    \A a \in Account :
        <>[][/\ signIn'[a].latest # 0
             /\ users[a].status # "pending"
             /\ ~(users[a].disabled /\ ~users'[a].disabled)]_vars
            => <>(users[a].disabled)
============================================================================
