------------------------ MODULE AccountLife_proofs ------------------------
(***************************************************************************)
(* Proofs about AccountLife.  UseInv relates the stored sign-in times to   *)
(* the days on which the user did sign in, also for the row that a login   *)
(* in progress has read; AttemptInv bounds every stored or remembered count*)
(* of failed attempts by the wrong passwords really tried.                 *)
(***************************************************************************)
EXTENDS AccountLife, TLAPS

USE LimitAssumption

\* What excuses disabling an account: the user has not signed in on two days,
\* or signed in again today, or the previous day of sign-in is long past.
Excused(a) ==
    \/ signIn[a].latest \in {Never, 0}
    \/ signIn[a].previous = Never
    \/ signIn[a].previous >= InactivityDays

\* The last sign-in stored is no older than the previous day of sign-in.
StoredInv ==
    \A a \in Account :
        /\ users[a].current = signIn[a].latest
        /\ signIn[a].previous # Never =>
             users[a].last # Never /\ users[a].last <= signIn[a].previous

\* A login about to write knows the latest day of sign-in, unless another one
\* has signed in today; one about to disable the account has an excuse.
LoginInv ==
    \A p \in Login :
        /\ pc[p] = "succeed" /\ signIn[who[p]].latest # 0 =>
             snapshot[p].current = signIn[who[p]].latest
        /\ pc[p] = "succeed" /\ signIn[who[p]].previous # Never
             /\ signIn[who[p]].latest = 0 =>
             /\ snapshot[p].current # Never
             /\ snapshot[p].current <= signIn[who[p]].previous
        /\ pc[p] = "disable" => Excused(who[p])

\* So has the nightly job for the accounts that it found.
JobInv == job = "disable" => \A a \in inactive : Excused(a)

UseInv == StoredInv /\ LoginInv /\ JobInv

\* No count is ahead of the wrong passwords tried.
AttemptInv ==
    /\ \A a \in Account :
          /\ users[a].failed <= made[a]
          /\ users[a].locked # Never => made[a] = MaxAttempts
    /\ \A p \in Login : snapshot[p].failed <= made[who[p]]

----------------------------------------------------------------------------
(* Types                                                                   *)

\* Ages are integers from 0 to Oldest, which is past every threshold.
LEMMA AgeFacts ==
    /\ Oldest \in Nat
    /\ Oldest > InactivityDays
    /\ 0 \in Time
    /\ Never \in Time
    /\ Time \subseteq Int
BY DEF Oldest, Time, Age, Never

\* Growing older keeps ages ages, and keeps their order.
LEMMA OlderFacts ==
    ASSUME NEW t \in Time
    PROVE  /\ Older(t) \in Time
           /\ t \in Age => Older(t) \in Age
           /\ Older(t) = Never <=> t = Never
BY AgeFacts DEF Older, Time, Age, Never

\* A row stays a row when a field gets a value of its type.
LEMMA FieldTyped ==
    ASSUME NEW u \in User
    PROVE  /\ \A d \in BOOLEAN : [u EXCEPT !.disabled = d] \in User
           /\ \A d \in BOOLEAN : [u EXCEPT !.warned = d] \in User
           /\ \A f \in 0 .. MaxAttempts : [u EXCEPT !.failed = f] \in User
           /\ \A t \in Time : [u EXCEPT !.locked = t] \in User
           /\ \A t \in Time : [u EXCEPT !.last = t] \in User
           /\ \A t \in Time : [u EXCEPT !.current = t] \in User
           /\ \A t \in Age : [u EXCEPT !.created = t] \in User
           /\ \A w \in {"approved", "active"} : [u EXCEPT !.status = w] \in User
<1> USE DEF User
<1>1. \A d \in BOOLEAN : [u EXCEPT !.disabled = d] \in User
  OBVIOUS
<1>2. \A d \in BOOLEAN : [u EXCEPT !.warned = d] \in User
  OBVIOUS
<1>3. \A f \in 0 .. MaxAttempts : [u EXCEPT !.failed = f] \in User
  OBVIOUS
<1>4. \A t \in Time : [u EXCEPT !.locked = t] \in User
  OBVIOUS
<1>5. \A t \in Time : [u EXCEPT !.last = t] \in User
  OBVIOUS
<1>6. \A t \in Time : [u EXCEPT !.current = t] \in User
  OBVIOUS
<1>7. \A t \in Age : [u EXCEPT !.created = t] \in User
  OBVIOUS
<1>8. \A w \in {"approved", "active"} : [u EXCEPT !.status = w] \in User
  OBVIOUS
<1> HIDE DEF User
<1> QED BY <1>1, <1>2, <1>3, <1>4, <1>5, <1>6, <1>7, <1>8, Zenon

\* What the steps leave of a row is a row.
LEMMA RowTyped ==
    ASSUME NEW u \in User
    PROVE  /\ \A f \in 0 .. MaxAttempts, t \in Time :
                 [u EXCEPT !.failed = f, !.locked = t] \in User
           /\ \A t \in Time :
                 [u EXCEPT !.current = 0, !.last = t, !.failed = 0,
                           !.locked = Never] \in User
           /\ [u EXCEPT !.status = "active", !.failed = 0, !.locked = Never] \in User
           /\ [u EXCEPT !.disabled = FALSE, !.warned = FALSE, !.last = 0] \in User
           /\ \A t, v, w \in Time, c \in Age :
                 [u EXCEPT !.locked = t, !.created = c, !.last = v,
                           !.current = w] \in User
<1>0. 0 \in 0 .. MaxAttempts /\ 0 \in Time /\ Never \in Time
  BY AgeFacts
<1>1. ASSUME NEW f \in 0 .. MaxAttempts, NEW t \in Time
      PROVE  [u EXCEPT !.failed = f, !.locked = t] \in User
  <2>1. [u EXCEPT !.failed = f, !.locked = t]
          = [[u EXCEPT !.failed = f] EXCEPT !.locked = t]
    OBVIOUS
  <2> QED BY <2>1, FieldTyped
<1>2. ASSUME NEW t \in Time
      PROVE  [u EXCEPT !.current = 0, !.last = t, !.failed = 0,
                       !.locked = Never] \in User
  <2>1. [u EXCEPT !.current = 0, !.last = t, !.failed = 0, !.locked = Never]
          = [[[u EXCEPT !.current = 0] EXCEPT !.last = t]
               EXCEPT !.failed = 0, !.locked = Never]
    OBVIOUS
  <2>2. [[u EXCEPT !.current = 0] EXCEPT !.last = t] \in User
    BY <1>0, FieldTyped
  <2> DEFINE v == [[u EXCEPT !.current = 0] EXCEPT !.last = t]
  <2>3. [v EXCEPT !.failed = 0, !.locked = Never]
          = [[v EXCEPT !.failed = 0] EXCEPT !.locked = Never]
    OBVIOUS
  <2>4. [v EXCEPT !.failed = 0, !.locked = Never] \in User
    <3> HIDE DEF v
    <3> QED BY <1>0, <2>2, <2>3, FieldTyped DEF v
  <2> QED BY <2>1, <2>4
<1>3. [u EXCEPT !.status = "active", !.failed = 0, !.locked = Never] \in User
  <2>1. [u EXCEPT !.status = "active", !.failed = 0, !.locked = Never]
          = [[[u EXCEPT !.status = "active"] EXCEPT !.failed = 0]
               EXCEPT !.locked = Never]
    OBVIOUS
  <2> QED BY <1>0, <2>1, FieldTyped
<1>4. [u EXCEPT !.disabled = FALSE, !.warned = FALSE, !.last = 0] \in User
  <2>1. [u EXCEPT !.disabled = FALSE, !.warned = FALSE, !.last = 0]
          = [[[u EXCEPT !.disabled = FALSE] EXCEPT !.warned = FALSE]
               EXCEPT !.last = 0]
    OBVIOUS
  <2> QED BY <1>0, <2>1, FieldTyped
<1>5. ASSUME NEW t \in Time, NEW v \in Time, NEW w \in Time, NEW c \in Age
      PROVE  [u EXCEPT !.locked = t, !.created = c, !.last = v,
                       !.current = w] \in User
  <2>1. [u EXCEPT !.locked = t, !.created = c, !.last = v, !.current = w]
          = [[[[u EXCEPT !.locked = t] EXCEPT !.created = c] EXCEPT !.last = v]
               EXCEPT !.current = w]
    OBVIOUS
  <2> QED BY <2>1, FieldTyped
<1> QED BY <1>1, <1>2, <1>3, <1>4, <1>5, Zenon

\* A new account, and an empty snapshot, are well formed.
LEMMA InitTyped == Init => TypeOK
<1> SUFFICES ASSUME Init PROVE TypeOK
  OBVIOUS
<1>1. NewUser \in User
  BY AgeFacts DEF NewUser, User, Age
<1>2. NoSnapshot \in Snapshot
  BY AgeFacts DEF NoSnapshot, Snapshot
<1>3. [latest |-> Never, previous |-> Never] \in [latest: Time, previous: Time]
  BY AgeFacts
<1> QED BY <1>1, <1>2, <1>3, AgeFacts DEF Init, TypeOK

\* Ending a login leaves well-formed logins.
LEMMA EndLoginTyped ==
    ASSUME TypeOK, NEW p \in Login, EndLogin(p)
    PROVE  /\ pc' \in [Login -> {"idle", "disable", "fail", "succeed"}]
           /\ who' \in [Login -> Account]
           /\ snapshot' \in [Login -> Snapshot]
<1>1. NoSnapshot \in Snapshot
  BY AgeFacts DEF NoSnapshot, Snapshot
<1> QED BY <1>1 DEF TypeOK, EndLogin

\* The parts of TypeOK that the job writes.
JobTyped ==
    /\ job \in {"idle", "send", "mark", "find", "disable"}
    /\ queue \in SUBSET Account
    /\ tried \in Seq(Account)
    /\ sent \in 0 .. Len(tried)
    /\ inactive \in SUBSET Account

\* The job's own variables keep their types.
LEMMA JobStepTyped ==
    ASSUME TypeOK,
           \/ JobFindWarnings
           \/ \E a \in Account, d \in BOOLEAN : JobSend(a, d)
           \/ JobMark
           \/ JobFindInactive
           \/ EndJob
           \/ UNCHANGED jobVars
    PROVE  JobTyped'
<1>1. CASE JobFindWarnings
  BY <1>1 DEF TypeOK, JobTyped, JobFindWarnings, Accounts
<1>2. ASSUME NEW a \in Account, NEW d \in BOOLEAN, JobSend(a, d)
      PROVE JobTyped'
  <2>1. /\ tried' \in Seq(Account)
        /\ Len(tried') = Len(tried) + 1
    BY <1>2 DEF TypeOK, JobSend
  <2>2. sent' \in 0 .. Len(tried')
    BY <1>2, <2>1 DEF TypeOK, JobSend
  <2> QED BY <1>2, <2>1, <2>2 DEF TypeOK, JobTyped, JobSend
<1>3. CASE JobMark
  BY <1>3 DEF TypeOK, JobTyped, JobMark
<1>4. CASE JobFindInactive
  BY <1>4 DEF TypeOK, JobTyped, JobFindInactive, Accounts
<1>5. CASE EndJob
  BY <1>5 DEF TypeOK, JobTyped, EndJob
<1>6. CASE UNCHANGED jobVars
  BY <1>6 DEF TypeOK, JobTyped, jobVars
<1> QED BY <1>1, <1>2, <1>3, <1>4, <1>5, <1>6

\* The count of failed attempts reaches MaxAttempts only together with a lock,
\* which is why a login let in has seen fewer.
FullMeansLocked ==
    \A a \in Account : users[a].failed = MaxAttempts => users[a].locked # Never

TypeInv == TypeOK /\ FullMeansLocked

\* Types and rows: what a step that changes one row by u leaves.
LEMMA OneRowTyped ==
    ASSUME TypeOK, NEW a \in Account, NEW u \in User,
           users' = [users EXCEPT ![a] = u]
    PROVE  /\ users' \in [Account -> User]
           /\ users'[a] = u
           /\ \A b \in Account : b # a => users'[b] = users[b]
BY DEF TypeOK

\* Every variable keeps its type: the count that is stored stays within
\* MaxAttempts, that of a login in progress below it.
LEMMA TypeStep == TypeInv /\ [Next]_vars => TypeInv'
<1> SUFFICES ASSUME TypeOK, FullMeansLocked, [Next]_vars
             PROVE  TypeInv'
  BY DEF TypeInv
<1> USE AgeFacts
<1>u. \A a \in Account : users[a] \in User
  BY DEF TypeOK
<1>z. 0 \in 0 .. MaxAttempts /\ 0 \in Time /\ Never \in Time
  OBVIOUS
<1>1. CASE UNCHANGED vars
  BY <1>1 DEF TypeInv, TypeOK, FullMeansLocked, vars
<1>2. ASSUME NEW p \in Login, NEW a \in Account, NEW right \in BOOLEAN,
             BeginLogin(p, a, right)
      PROVE  TypeInv'
  <2>1. FailedBefore(users[a]) \in 0 .. MaxAttempts - 1
    <3>1. users[a].failed \in 0 .. MaxAttempts
      BY <1>u DEF User
    <3>2. users[a].failed # MaxAttempts \/ ShouldResetLockout(users[a])
      BY <1>2 DEF BeginLogin, MayTryPassword, IsAccountLocked, FullMeansLocked
    <3> QED BY <3>1, <3>2 DEF FailedBefore
  <2>2. users[a].current \in Time
    BY <1>u DEF User
  <2>3. [failed |-> FailedBefore(users[a]), current |-> users[a].current] \in Snapshot
    BY <2>1, <2>2 DEF Snapshot
  <2>4. /\ pc' \in [Login -> {"idle", "disable", "fail", "succeed"}]
        /\ who' \in [Login -> Account]
        /\ snapshot' \in [Login -> Snapshot]
    BY <1>2, <2>3 DEF TypeOK, BeginLogin
  <2>5. JobTyped'
    BY <1>2, JobStepTyped DEF BeginLogin
  <2> QED BY <1>2, <2>4, <2>5
          DEF TypeInv, TypeOK, FullMeansLocked, BeginLogin, JobTyped
<1>3. ASSUME NEW p \in Login, LoginDisable(p)
      PROVE  TypeInv'
  <2> DEFINE u == [users[who[p]] EXCEPT !.disabled = TRUE]
  <2>0. who[p] \in Account
    BY DEF TypeOK
  <2>1. u \in User
    BY <1>u, <2>0, FieldTyped
  <2>2. users' = [users EXCEPT ![who[p]] = u]
    BY <1>3 DEF LoginDisable
  <2>3. u.failed = users[who[p]].failed /\ u.locked = users[who[p]].locked
    BY <1>u, <2>0 DEF User
  <2> HIDE DEF u
  <2>4. users' \in [Account -> User] /\ FullMeansLocked'
    BY <2>0, <2>1, <2>2, <2>3, OneRowTyped DEF FullMeansLocked
  <2>5. JobTyped'
    BY <1>3, JobStepTyped DEF LoginDisable, EndLogin
  <2> QED BY <1>3, <2>4, <2>5, EndLoginTyped
          DEF TypeInv, TypeOK, LoginDisable, EndLogin, JobTyped
<1>4. ASSUME NEW p \in Login, LoginFail(p)
      PROVE  TypeInv'
  <2> DEFINE a == who[p]
             f == snapshot[p].failed + 1
             l == IF Locks(f) THEN 0 ELSE users[a].locked
             u == [users[a] EXCEPT !.failed = f, !.locked = l]
  <2>0. a \in Account
    BY DEF TypeOK
  <2>1. f \in 0 .. MaxAttempts /\ l \in Time
    BY <1>u, <2>0 DEF TypeOK, Snapshot, User
  <2>2. u \in User
    BY <1>u, <2>0, <2>1, RowTyped
  <2>3. users' = [users EXCEPT ![a] = u]
    BY <1>4 DEF LoginFail
  <2>4. u.failed = MaxAttempts => u.locked # Never
    BY <1>u, <2>0, <2>1 DEF User, Locks, Never
  <2> HIDE DEF a, f, l, u
  <2>5. users' \in [Account -> User] /\ FullMeansLocked'
    BY <2>0, <2>2, <2>3, <2>4, OneRowTyped DEF FullMeansLocked
  <2>6. JobTyped'
    BY <1>4, JobStepTyped DEF LoginFail, EndLogin
  <2>8. made' \in [Account -> 0 .. MaxAttempts]
    BY <1>4 DEF TypeOK, LoginFail, Up
  <2> QED BY <1>4, <2>5, <2>6, <2>8, EndLoginTyped
          DEF TypeInv, TypeOK, LoginFail, EndLogin, JobTyped
<1>5. ASSUME NEW p \in Login, LoginSucceed(p)
      PROVE  TypeInv'
  <2> DEFINE a == who[p]
             u == [users[a] EXCEPT !.current = 0, !.last = snapshot[p].current,
                                   !.failed = 0, !.locked = Never]
  <2>0. a \in Account
    BY DEF TypeOK
  <2>1. snapshot[p].current \in Time
    BY DEF TypeOK, Snapshot
  <2>2. u \in User
    BY <1>u, <2>0, <2>1, RowTyped
  <2>3. users' = [users EXCEPT ![a] = u]
    BY <1>5 DEF LoginSucceed
  <2>4. u.failed = 0
    BY <1>u, <2>0 DEF User
  <2> HIDE DEF a, u
  <2>5. users' \in [Account -> User] /\ FullMeansLocked'
    BY <2>0, <2>2, <2>3, <2>4, OneRowTyped DEF FullMeansLocked
  <2>6. JobTyped'
    BY <1>5, JobStepTyped DEF LoginSucceed, EndLogin
  <2>8. signIn' \in [Account -> [latest: Time, previous: Time]]
    BY <1>5, <1>z DEF TypeOK, LoginSucceed, SignedIn
  <2> QED BY <1>5, <2>5, <2>6, <2>8, EndLoginTyped
          DEF TypeInv, TypeOK, LoginSucceed, EndLogin, JobTyped
<1>6. ASSUME NEW p \in Login, LoginAbandon(p)
      PROVE  TypeInv'
  <2>1. JobTyped'
    BY <1>6, JobStepTyped DEF LoginAbandon, EndLogin
  <2> QED BY <1>6, <2>1, EndLoginTyped
          DEF TypeInv, TypeOK, FullMeansLocked, LoginAbandon, EndLogin, JobTyped
<1>7. ASSUME NEW a \in Account, NEW u \in User, ChangeUser(a, u),
             u.failed = MaxAttempts => u.locked # Never
      PROVE  TypeInv'
  <2>1. users' = [users EXCEPT ![a] = u]
    BY <1>7 DEF ChangeUser
  <2>2. users' \in [Account -> User] /\ FullMeansLocked'
    BY <1>7, <2>1, OneRowTyped DEF FullMeansLocked
  <2> QED BY <1>7, <2>2 DEF TypeInv, TypeOK, ChangeUser, loginVars, jobVars
<1>8. ASSUME NEW a \in Account, ApproveAccount(a)
      PROVE  TypeInv'
  <2> DEFINE u == [users[a] EXCEPT !.status = "approved"]
  <2>1. u \in User
    BY <1>u, FieldTyped
  <2>2. u.failed = MaxAttempts => u.locked # Never
    BY <1>u DEF User, FullMeansLocked
  <2>3. ChangeUser(a, u)
    BY <1>8 DEF ApproveAccount
  <2> HIDE DEF u
  <2> QED BY <1>7, <2>1, <2>2, <2>3
<1>9. ASSUME NEW a \in Account, SetInitialPassword(a)
      PROVE  TypeInv'
  <2> DEFINE u == [users[a] EXCEPT !.status = "active", !.failed = 0,
                                   !.locked = Never]
  <2>1. u \in User
    BY <1>u, RowTyped
  <2>2. u.failed = 0
    BY <1>u DEF User
  <2>3. ChangeUser(a, u)
    BY <1>9 DEF SetInitialPassword
  <2> HIDE DEF u
  <2> QED BY <1>7, <2>1, <2>2, <2>3
<1>10. ASSUME NEW a \in Account, ResetPassword(a)
       PROVE  TypeInv'
  <2> DEFINE u == [users[a] EXCEPT !.failed = 0, !.locked = Never]
  <2>1. u \in User
    BY <1>u, <1>z, RowTyped
  <2>2. u.failed = 0
    BY <1>u DEF User
  <2>3. ChangeUser(a, u)
    BY <1>10 DEF ResetPassword
  <2> HIDE DEF u
  <2> QED BY <1>7, <2>1, <2>2, <2>3
<1>11. ASSUME NEW a \in Account, ReactivateAccount(a)
       PROVE  TypeInv'
  <2> DEFINE u == [users[a] EXCEPT !.disabled = FALSE, !.warned = FALSE,
                                   !.last = 0]
  <2>1. u \in User
    BY <1>u, RowTyped
  <2>2. u.failed = MaxAttempts => u.locked # Never
    BY <1>u DEF User, FullMeansLocked
  <2>3. ChangeUser(a, u)
    BY <1>11 DEF ReactivateAccount
  <2> HIDE DEF u
  <2> QED BY <1>7, <2>1, <2>2, <2>3
<1>12. CASE JobFindWarnings
  <2>1. JobTyped'
    BY <1>12, JobStepTyped
  <2> QED BY <1>12, <2>1
          DEF TypeInv, TypeOK, FullMeansLocked, JobFindWarnings, JobTyped, loginVars
<1>13. ASSUME NEW a \in Account, NEW d \in BOOLEAN, JobSend(a, d)
       PROVE  TypeInv'
  <2>1. JobTyped'
    BY <1>13, JobStepTyped
  <2> QED BY <1>13, <2>1
          DEF TypeInv, TypeOK, FullMeansLocked, JobSend, JobTyped, loginVars
<1>14. CASE JobMark
  <2>1. JobTyped'
    BY <1>14, JobStepTyped
  <2>2. \A u \in User : /\ [u EXCEPT !.warned = TRUE] \in User
                        /\ [u EXCEPT !.warned = TRUE].failed = u.failed
                        /\ [u EXCEPT !.warned = TRUE].locked = u.locked
    <3>1. \A u \in User : [u EXCEPT !.warned = TRUE] \in User
      BY FieldTyped
    <3> QED BY <3>1 DEF User
  <2> DEFINE marked == {tried[n] : n \in 1 .. sent}
  <2>3. \A a \in Account : users'[a] = IF a \in marked
                             THEN [users[a] EXCEPT !.warned = TRUE] ELSE users[a]
    BY <1>14 DEF JobMark
  <2>4. users' = [a \in Account |-> users'[a]]
    BY <1>14 DEF JobMark
  <2> HIDE DEF marked
  <2>5. \A a \in Account : /\ users'[a] \in User
                           /\ users'[a].failed = users[a].failed
                           /\ users'[a].locked = users[a].locked
    BY <1>u, <2>2, <2>3
  <2>6. users' \in [Account -> User]
    BY <2>4, <2>5
  <2>7. FullMeansLocked'
    BY <2>5 DEF FullMeansLocked
  <2> QED BY <1>14, <2>1, <2>6, <2>7 DEF TypeInv, TypeOK, JobMark, JobTyped, loginVars
<1>15. CASE JobFindInactive
  <2>1. JobTyped'
    BY <1>15, JobStepTyped
  <2> QED BY <1>15, <2>1
          DEF TypeInv, TypeOK, FullMeansLocked, JobFindInactive, JobTyped, loginVars
<1>16. CASE JobDisable
  <2>1. JobTyped'
    BY <1>16, JobStepTyped DEF JobDisable
  <2>2. \A u \in User : /\ [u EXCEPT !.disabled = TRUE] \in User
                        /\ [u EXCEPT !.disabled = TRUE].failed = u.failed
                        /\ [u EXCEPT !.disabled = TRUE].locked = u.locked
    <3>1. \A u \in User : [u EXCEPT !.disabled = TRUE] \in User
      BY FieldTyped
    <3> QED BY <3>1 DEF User
  <2>3. users' = [a \in Account |-> IF a \in inactive
                     THEN [users[a] EXCEPT !.disabled = TRUE] ELSE users[a]]
    BY <1>16 DEF JobDisable
  <2>4. \A a \in Account : /\ users'[a] \in User
                           /\ users'[a].failed = users[a].failed
                           /\ users'[a].locked = users[a].locked
    BY <1>u, <2>2, <2>3
  <2>5. users' \in [Account -> User] /\ FullMeansLocked'
    BY <2>3, <2>4 DEF FullMeansLocked
  <2> QED BY <1>16, <2>1, <2>5
          DEF TypeInv, TypeOK, JobDisable, EndJob, JobTyped, loginVars
<1>17. CASE JobFails
  <2>1. JobTyped'
    BY <1>17, JobStepTyped DEF JobFails
  <2> QED BY <1>17, <2>1
          DEF TypeInv, TypeOK, FullMeansLocked, JobFails, EndJob, JobTyped, loginVars
<1>18. CASE Tick
  <2> DEFINE N(u) == [u EXCEPT !.locked = Older(u.locked),
                               !.created = Older(u.created),
                               !.last = Older(u.last), !.current = Older(u.current)]
  <2>1. \A u \in User : N(u) \in User
    <3> SUFFICES ASSUME NEW u \in User PROVE N(u) \in User
      OBVIOUS
    <3>1. /\ u.locked \in Time /\ u.created \in Age /\ u.last \in Time
          /\ u.current \in Time
      BY DEF User
    <3>2. /\ Older(u.locked) \in Time /\ Older(u.last) \in Time
          /\ Older(u.current) \in Time
      BY <3>1, OlderFacts
    <3>3. Older(u.created) \in Age
      BY <3>1, OlderFacts DEF Time
    <3> QED BY <3>2, <3>3, RowTyped
  <2>2. \A u \in User : N(u).failed = u.failed /\ N(u).locked = Older(u.locked)
    BY DEF User
  <2>3. \A u \in User : u.locked # Never => Older(u.locked) # Never
    BY OlderFacts DEF User
  <2>4. users' = [a \in Account |-> N(users[a])]
    BY <1>18 DEF Tick
  <2> HIDE DEF N
  <2>5. users' \in [Account -> User] /\ FullMeansLocked'
    <3>1. \A a \in Account : /\ users'[a] = N(users[a])
                             /\ users'[a] \in User
      BY <1>u, <2>1, <2>4, Zenon
    <3>2. users' \in [Account -> User]
      BY <2>4, <3>1
    <3>3. \A a \in Account : /\ users'[a].failed = users[a].failed
                             /\ users'[a].locked = Older(users[a].locked)
      BY <1>u, <2>2, <3>1
    <3>4. FullMeansLocked'
      BY <1>u, <2>3, <3>3 DEF FullMeansLocked
    <3> QED BY <3>2, <3>4
  <2>6. \A s \in [latest: Time, previous: Time] :
           [latest |-> Older(s.latest), previous |-> Older(s.previous)]
              \in [latest: Time, previous: Time]
    BY OlderFacts
  <2>7. signIn' \in [Account -> [latest: Time, previous: Time]]
    BY <1>18, <2>6 DEF TypeOK, Tick
  <2>9. JobTyped'
    BY <1>18, JobStepTyped DEF Tick
  <2> QED BY <1>18, <2>5, <2>7, <2>9
          DEF TypeInv, TypeOK, Tick, JobTyped, loginVars
<1> QED BY <1>1, <1>2, <1>3, <1>4, <1>5, <1>6, <1>8, <1>9, <1>10, <1>11,
           <1>12, <1>13, <1>14, <1>15, <1>16, <1>17, <1>18 DEF Next, LoginWrite

\* Nothing is counted at first.
LEMMA TypeInit == Init => TypeInv
<1>1. Init => FullMeansLocked
  BY DEF Init, FullMeansLocked, NewUser
<1> QED BY <1>1, InitTyped DEF TypeInv

\* Every reachable state of the account model has the declared types.
THEOREM AccountTypeCorrect == Spec => []TypeOK
<1>1. TypeInv => TypeOK
  BY DEF TypeInv
<1> QED BY <1>1, TypeInit, TypeStep, PTL DEF Spec

----------------------------------------------------------------------------
(* Lockout                                                                 *)

\* What a row may say when m wrong passwords have been tried.
Covered(u, m) == u.failed <= m /\ (u.locked # Never => m = MaxAttempts)

\* Writing one covered row keeps all rows covered.
LEMMA OneRowCovered ==
    ASSUME TypeOK, AttemptInv, NEW a \in Account, NEW u \in User,
           users' = [users EXCEPT ![a] = u], UNCHANGED made, Covered(u, made[a])
    PROVE  \A b \in Account : Covered(users'[b], made'[b])
<1>1. /\ users'[a] = u
      /\ \A b \in Account : b # a => users'[b] = users[b]
  BY OneRowTyped
<1> QED BY <1>1 DEF AttemptInv, Covered

\* No step lets a count run ahead of the wrong passwords tried.
LEMMA AttemptStep == TypeInv /\ AttemptInv /\ [Next]_vars => AttemptInv'
<1> SUFFICES ASSUME TypeOK, FullMeansLocked, AttemptInv, [Next]_vars
             PROVE  AttemptInv'
  BY DEF TypeInv
<1> USE AgeFacts
<1>u. \A a \in Account : users[a] \in User /\ made[a] \in 0 .. MaxAttempts
  BY DEF TypeOK
<1>z. 0 \in 0 .. MaxAttempts /\ 0 \in Time /\ Never \in Time
  OBVIOUS
<1>c. \A a \in Account : Covered(users[a], made[a])
  BY DEF AttemptInv, Covered
<1>p. \A p \in Login : /\ who[p] \in Account
                       /\ snapshot[p].failed \in 0 .. MaxAttempts - 1
  BY DEF TypeOK, Snapshot
<1>1. ASSUME \A a \in Account : Covered(users'[a], made'[a]),
             \A p \in Login : snapshot'[p].failed <= made'[who'[p]]
      PROVE  AttemptInv'
  BY <1>1 DEF AttemptInv, Covered
<1>2. ASSUME NEW p \in Login, EndLogin(p), UNCHANGED made
      PROVE  \A q \in Login : snapshot'[q].failed <= made'[who'[q]]
  <2>1. /\ snapshot'[p].failed = 0
        /\ \A q \in Login : q # p => snapshot'[q] = snapshot[q]
    BY <1>2 DEF TypeOK, EndLogin, NoSnapshot
  <2>2. UNCHANGED who
    BY <1>2 DEF EndLogin
  <2> QED BY <1>2, <1>u, <1>p, <2>1, <2>2 DEF AttemptInv
<1>3. ASSUME NEW a \in Account, NEW u \in User, ChangeUser(a, u),
             Covered(u, made[a])
      PROVE  AttemptInv'
  <2>1. \A b \in Account : Covered(users'[b], made'[b])
    BY <1>3, OneRowCovered DEF ChangeUser
  <2> QED BY <1>1, <1>3, <2>1 DEF ChangeUser, loginVars, AttemptInv
<1>4. CASE UNCHANGED vars
  BY <1>4 DEF AttemptInv, vars
<1>5. ASSUME NEW p \in Login, NEW a \in Account, NEW right \in BOOLEAN,
             BeginLogin(p, a, right)
      PROVE  AttemptInv'
  <2>1. FailedBefore(users[a]) <= made[a]
    BY <1>u DEF FailedBefore, AttemptInv, User
  <2>2. /\ snapshot'[p].failed = FailedBefore(users[a])
        /\ who'[p] = a
        /\ \A q \in Login : q # p => snapshot'[q] = snapshot[q] /\ who'[q] = who[q]
    BY <1>5 DEF BeginLogin, TypeOK
  <2>3. UNCHANGED <<users, made>>
    BY <1>5 DEF BeginLogin
  <2>4. \A q \in Login : snapshot'[q].failed <= made'[who'[q]]
    BY <2>1, <2>2, <2>3 DEF AttemptInv
  <2> QED BY <1>1, <1>c, <2>3, <2>4
<1>6. ASSUME NEW p \in Login, LoginDisable(p)
      PROVE  AttemptInv'
  <2> DEFINE u == [users[who[p]] EXCEPT !.disabled = TRUE]
  <2>1. u \in User
    BY <1>u, <1>p, FieldTyped
  <2>2. Covered(u, made[who[p]])
    BY <1>u, <1>p, <1>c DEF User, Covered
  <2>3. users' = [users EXCEPT ![who[p]] = u] /\ UNCHANGED made
    BY <1>6 DEF LoginDisable
  <2> HIDE DEF u
  <2>4. \A b \in Account : Covered(users'[b], made'[b])
    BY <1>p, <2>1, <2>2, <2>3, OneRowCovered
  <2> QED BY <1>1, <1>2, <1>6, <2>3, <2>4 DEF LoginDisable
<1>7. ASSUME NEW p \in Login, LoginFail(p)
      PROVE  AttemptInv'
  <2> DEFINE a == who[p]
             f == snapshot[p].failed + 1
             l == IF Locks(f) THEN 0 ELSE users[a].locked
             u == [users[a] EXCEPT !.failed = f, !.locked = l]
  <2>0. a \in Account
    BY <1>p
  <2>1. users' = [users EXCEPT ![a] = u] /\ made' = [made EXCEPT ![a] = Up(@)]
    BY <1>7 DEF LoginFail
  <2>2. u.failed = f /\ u.locked = l
    BY <1>u, <2>0 DEF User
  <2>3. /\ Up(made[a]) \in 0 .. MaxAttempts
        /\ Up(made[a]) >= made[a]
        /\ f <= Up(made[a])
    BY <1>u, <1>p, <2>0 DEF Up, AttemptInv
  <2>4. Locks(f) => Up(made[a]) = MaxAttempts
    BY <1>p, <2>3 DEF Locks
  <2>5. l # Never => Up(made[a]) = MaxAttempts
    BY <1>u, <1>p, <2>0, <2>3, <2>4 DEF AttemptInv
  <2>6. Covered(u, Up(made[a]))
    BY <2>2, <2>3, <2>5 DEF Covered
  <2> HIDE DEF f, l, u
  <2>7. /\ users'[a] = u /\ made'[a] = Up(made[a])
        /\ \A b \in Account : b # a => users'[b] = users[b] /\ made'[b] = made[b]
    BY <2>0, <2>1 DEF TypeOK
  <2>8. \A b \in Account : Covered(users'[b], made'[b])
    BY <1>c, <2>6, <2>7
  <2>c. /\ snapshot'[p].failed = 0
        /\ \A q \in Login : q # p => snapshot'[q] = snapshot[q]
        /\ UNCHANGED who
    BY <1>7 DEF LoginFail, TypeOK, EndLogin, NoSnapshot
  <2>9. \A q \in Login : /\ who'[q] = who[q]
                         /\ snapshot'[q].failed <= made[who[q]]
    BY <1>u, <1>p, <2>c DEF AttemptInv
  <2>10. \A q \in Login : snapshot'[q].failed \in Int
    BY <1>p, <2>c
  <2>11. \A b \in Account : made[b] <= made'[b] /\ made'[b] \in Int /\ made[b] \in Int
    BY <1>u, <2>3, <2>7
  <2> HIDE DEF a
  <2>12. \A q \in Login : snapshot'[q].failed <= made'[who'[q]]
    BY <1>p, <2>9, <2>10, <2>11
  <2> QED BY <1>1, <2>8, <2>12
<1>8. ASSUME NEW p \in Login, LoginSucceed(p)
      PROVE  AttemptInv'
  <2> DEFINE a == who[p]
             u == [users[a] EXCEPT !.current = 0, !.last = snapshot[p].current,
                                   !.failed = 0, !.locked = Never]
  <2>0. a \in Account /\ snapshot[p].current \in Time
    BY DEF TypeOK, Snapshot
  <2>1. u \in User
    BY <1>u, <2>0, RowTyped
  <2>2. Covered(u, made[a])
    BY <1>u, <2>0 DEF User, Covered
  <2>3. users' = [users EXCEPT ![a] = u] /\ UNCHANGED made
    BY <1>8 DEF LoginSucceed
  <2> HIDE DEF a, u
  <2>4. \A b \in Account : Covered(users'[b], made'[b])
    BY <2>0, <2>1, <2>2, <2>3, OneRowCovered
  <2> QED BY <1>1, <1>2, <1>8, <2>3, <2>4 DEF LoginSucceed
<1>9. ASSUME NEW p \in Login, LoginAbandon(p)
      PROVE  AttemptInv'
  BY <1>1, <1>2, <1>9, <1>c DEF LoginAbandon
<1>10. ASSUME NEW a \in Account, ApproveAccount(a)
       PROVE  AttemptInv'
  <2> DEFINE u == [users[a] EXCEPT !.status = "approved"]
  <2>1. u \in User /\ Covered(u, made[a])
    BY <1>u, <1>c, FieldTyped DEF User, Covered
  <2> HIDE DEF u
  <2> QED BY <1>3, <1>10, <2>1 DEF ApproveAccount, u
<1>11. ASSUME NEW a \in Account, SetInitialPassword(a)
       PROVE  AttemptInv'
  <2> DEFINE u == [users[a] EXCEPT !.status = "active", !.failed = 0,
                                   !.locked = Never]
  <2>1. u \in User
    BY <1>u, RowTyped
  <2>2. Covered(u, made[a])
    BY <1>u DEF User, Covered
  <2> HIDE DEF u
  <2> QED BY <1>3, <1>11, <2>1, <2>2 DEF SetInitialPassword, u
<1>12. ASSUME NEW a \in Account, ResetPassword(a)
       PROVE  AttemptInv'
  <2> DEFINE u == [users[a] EXCEPT !.failed = 0, !.locked = Never]
  <2>1. u \in User
    BY <1>u, <1>z, RowTyped
  <2>2. Covered(u, made[a])
    BY <1>u DEF User, Covered
  <2> HIDE DEF u
  <2> QED BY <1>3, <1>12, <2>1, <2>2 DEF ResetPassword, u
<1>13. ASSUME NEW a \in Account, ReactivateAccount(a)
       PROVE  AttemptInv'
  <2> DEFINE u == [users[a] EXCEPT !.disabled = FALSE, !.warned = FALSE,
                                   !.last = 0]
  <2>1. u \in User
    BY <1>u, RowTyped
  <2>2. Covered(u, made[a])
    BY <1>u, <1>c DEF User, Covered
  <2> HIDE DEF u
  <2> QED BY <1>3, <1>13, <2>1, <2>2 DEF ReactivateAccount, u
<1>14. ASSUME UNCHANGED <<loginVars, users, made>>
       PROVE  AttemptInv'
  BY <1>14 DEF AttemptInv, loginVars
<1>15. CASE \/ JobFindWarnings \/ JobFindInactive \/ JobFails
            \/ \E a \in Account, d \in BOOLEAN : JobSend(a, d)
  BY <1>14, <1>15 DEF JobFindWarnings, JobFindInactive, JobFails, EndJob, JobSend
<1>16. CASE JobMark
  <2>1. \A a \in Account : /\ users'[a].failed = users[a].failed
                           /\ users'[a].locked = users[a].locked
    BY <1>u, <1>16 DEF JobMark, User
  <2> QED BY <1>16, <2>1 DEF JobMark, AttemptInv, loginVars
<1>17. CASE JobDisable
  <2>1. \A a \in Account : /\ users'[a].failed = users[a].failed
                           /\ users'[a].locked = users[a].locked
    BY <1>u, <1>17 DEF JobDisable, User
  <2> QED BY <1>17, <2>1 DEF JobDisable, EndJob, AttemptInv, loginVars
<1>18. CASE Tick
  <2>1. \A a \in Account : /\ users'[a].failed = users[a].failed
                           /\ users'[a].locked = Older(users[a].locked)
    BY <1>u, <1>18 DEF Tick, User
  <2>2. \A a \in Account : users[a].locked \in Time
    BY <1>u DEF User
  <2>3. \A a \in Account : users'[a].locked = Never => users[a].locked = Never
    BY <2>1, <2>2, OlderFacts
  <2>4. \A a \in Account : users[a].locked = Never => users'[a].locked = Never
    BY <2>1, <2>2, OlderFacts
  <2> QED BY <1>18, <2>1, <2>3, <2>4 DEF Tick, AttemptInv, loginVars
<1> QED BY <1>4, <1>5, <1>6, <1>7, <1>8, <1>9, <1>10, <1>11, <1>12, <1>13,
           <1>15, <1>16, <1>17, <1>18 DEF Next, LoginWrite

\* No count at first.
LEMMA AttemptInit == Init => AttemptInv
BY AgeFacts DEF Init, AttemptInv, NewUser, NoSnapshot

\* An account is locked only after MaxAttempts wrong passwords, for any number
\* of accounts, overlapping logins and limits.
THEOREM LocksAreEarned == Spec => []LockNeedsWrongAttempts
<1>1. AttemptInv => LockNeedsWrongAttempts
  BY DEF AttemptInv, LockNeedsWrongAttempts
<1> QED BY <1>1, TypeInit, TypeStep, AttemptInit, AttemptStep, PTL DEF Spec

----------------------------------------------------------------------------
(* Inactivity                                                              *)

\* What a row must say of the sign-in times when s is when the user signed in.
Stored(u, s) ==
    /\ u.current = s.latest
    /\ s.previous # Never => u.last # Never /\ u.last <= s.previous

\* What a login that read the sign-in time t may do when s is when the user
\* signed in.
Ready(step, t, s) ==
    /\ step = "succeed" /\ s.latest # 0 => t = s.latest
    /\ step = "succeed" /\ s.latest = 0 /\ s.previous # Never =>
         t # Never /\ t <= s.previous
    /\ step = "disable" => \/ s.latest \in {Never, 0}
                           \/ s.previous = Never
                           \/ s.previous >= InactivityDays

\* The invariant, row by row and login by login.
LEMMA UseParts ==
    /\ StoredInv <=> \A a \in Account : Stored(users[a], signIn[a])
    /\ LoginInv <=> \A p \in Login :
                      Ready(pc[p], snapshot[p].current, signIn[who[p]])
BY DEF StoredInv, LoginInv, Stored, Ready, Excused

\* Whoever is excused stays excused over a sign-in, for which today is latest.
LEMMA SignInFacts ==
    ASSUME NEW s \in [latest: Time, previous: Time]
    PROVE  /\ SignedIn(s).latest = 0
           /\ s.latest # 0 => SignedIn(s).previous = s.latest
           /\ s.latest = 0 => SignedIn(s) = s
BY DEF SignedIn

\* Writing a row that keeps the sign-in times, for the rows.
LEMMA OneRowStored ==
    ASSUME TypeOK, StoredInv, NEW a \in Account, NEW u \in User,
           users' = [users EXCEPT ![a] = u], UNCHANGED signIn, Stored(u, signIn[a])
    PROVE  StoredInv'
<1>1. /\ users'[a] = u
      /\ \A b \in Account : b # a => users'[b] = users[b]
  BY OneRowTyped
<1> QED BY <1>1 DEF StoredInv, Stored

\* A step that only ends a login leaves the others, and the job, as they are.
LEMMA EndLoginKeeps ==
    ASSUME TypeOK, LoginInv, JobInv, NEW p \in Login, EndLogin(p), UNCHANGED signIn
    PROVE  LoginInv' /\ JobInv'
<1>1. /\ pc'[p] = "idle"
      /\ \A q \in Login : q # p => pc'[q] = pc[q] /\ snapshot'[q] = snapshot[q]
      /\ UNCHANGED <<who, jobVars>>
  BY DEF TypeOK, EndLogin
<1> QED BY <1>1 DEF LoginInv, JobInv, Excused, jobVars

\* No step stores an older last sign-in than the user's previous day of
\* sign-in, or lets a login or the job disable an account without an excuse.
LEMMA UseStep == TypeInv /\ UseInv /\ [Next]_vars => UseInv'
<1> SUFFICES ASSUME TypeOK, StoredInv, LoginInv, JobInv, [Next]_vars
             PROVE  UseInv'
  BY DEF TypeInv, UseInv
<1> USE AgeFacts
<1>u. \A a \in Account : /\ users[a] \in User
                         /\ signIn[a] \in [latest: Time, previous: Time]
  BY DEF TypeOK
<1>p. \A p \in Login : who[p] \in Account /\ snapshot[p].current \in Time
  BY DEF TypeOK, Snapshot
<1>z. 0 \in 0 .. MaxAttempts /\ 0 \in Time /\ Never \in Time /\ Time \subseteq Int
  OBVIOUS
<1>s. \A a \in Account : Stored(users[a], signIn[a])
  BY UseParts
<1>l. \A p \in Login : Ready(pc[p], snapshot[p].current, signIn[who[p]])
  BY UseParts
<1>1. CASE UNCHANGED vars
  BY <1>1 DEF UseInv, StoredInv, LoginInv, JobInv, Excused, vars
<1>2. ASSUME NEW p \in Login, NEW a \in Account, NEW right \in BOOLEAN,
             BeginLogin(p, a, right)
      PROVE  UseInv'
  <2>1. /\ snapshot'[p].current = users[a].current
        /\ who'[p] = a
        /\ pc'[p] = IF ShouldDisableAccount(users[a]) THEN "disable"
                    ELSE IF right THEN "succeed" ELSE "fail"
        /\ \A q \in Login : q # p => /\ snapshot'[q] = snapshot[q]
                                    /\ who'[q] = who[q] /\ pc'[q] = pc[q]
        /\ UNCHANGED <<users, signIn, job, inactive>>
    BY <1>2 DEF BeginLogin, TypeOK, jobVars
  <2>2. /\ users[a].current = signIn[a].latest
        /\ users[a].last \in Int
        /\ signIn[a].latest \in Time /\ signIn[a].previous \in Time
    BY <1>u, <1>s, <1>z DEF Stored, User
  <2>3. signIn[a].latest = 0 /\ signIn[a].previous # Never => 0 <= signIn[a].previous
    BY <2>2 DEF Time, Age, Never
  <2>4. ShouldDisableAccount(users[a]) =>
           signIn[a].previous = Never \/ signIn[a].previous >= InactivityDays
    <3> DEFINE l == users[a].last
               v == signIn[a].previous
    <3>1. l \in Int /\ v \in Int /\ (v # Never => l <= v)
      BY <1>s, <1>z, <2>2 DEF Stored
    <3>2. ShouldDisableAccount(users[a]) => l >= InactivityDays
      BY DEF ShouldDisableAccount
    <3> HIDE DEF l
    <3> QED BY <3>1, <3>2
  <2>5. Ready(pc'[p], snapshot'[p].current, signIn[a])
    BY <2>1, <2>2, <2>3, <2>4 DEF Ready, Never
  <2>6. \A q \in Login : Ready(pc'[q], snapshot'[q].current, signIn'[who'[q]])
    BY <1>l, <2>1, <2>5
  <2>7. LoginInv'
    BY <2>6 DEF LoginInv, Ready, Excused
  <2> QED BY <2>1, <2>7 DEF UseInv, StoredInv, JobInv, Excused
<1>3. ASSUME NEW p \in Login, LoginDisable(p)
      PROVE  UseInv'
  <2> DEFINE u == [users[who[p]] EXCEPT !.disabled = TRUE]
  <2>1. u \in User
    BY <1>u, <1>p, FieldTyped
  <2>2. Stored(u, signIn[who[p]])
    BY <1>u, <1>p, <1>s DEF User, Stored
  <2>3. users' = [users EXCEPT ![who[p]] = u] /\ UNCHANGED signIn
    BY <1>3 DEF LoginDisable
  <2> HIDE DEF u
  <2>4. StoredInv'
    BY <1>p, <2>1, <2>2, <2>3, OneRowStored
  <2> QED BY <1>3, <2>3, <2>4, EndLoginKeeps DEF LoginDisable, UseInv
<1>4. ASSUME NEW p \in Login, LoginFail(p)
      PROVE  UseInv'
  <2> DEFINE a == who[p]
             f == snapshot[p].failed + 1
             l == IF Locks(f) THEN 0 ELSE users[a].locked
             u == [users[a] EXCEPT !.failed = f, !.locked = l]
  <2>0. a \in Account
    BY <1>p
  <2>1. f \in 0 .. MaxAttempts /\ l \in Time
    BY <1>u, <2>0 DEF TypeOK, Snapshot, User
  <2>2. u \in User
    BY <1>u, <2>0, <2>1, RowTyped
  <2>3. Stored(u, signIn[a])
    BY <1>u, <2>0, <1>s DEF User, Stored
  <2>4. users' = [users EXCEPT ![a] = u] /\ UNCHANGED signIn
    BY <1>4 DEF LoginFail
  <2> HIDE DEF a, f, l, u
  <2>5. StoredInv'
    BY <2>0, <2>2, <2>3, <2>4, OneRowStored
  <2> QED BY <1>4, <2>4, <2>5, EndLoginKeeps DEF LoginFail, UseInv
<1>5. ASSUME NEW p \in Login, LoginSucceed(p)
      PROVE  UseInv'
  <2> DEFINE a == who[p]
             t == snapshot[p].current
             s == signIn[a]
             u == [users[a] EXCEPT !.current = 0, !.last = t,
                                   !.failed = 0, !.locked = Never]
  <2>0. a \in Account /\ t \in Time /\ s \in [latest: Time, previous: Time]
    BY <1>u, <1>p
  <2>1. u \in User
    BY <1>u, <2>0, RowTyped
  <2>2. u.current = 0 /\ u.last = t
    BY <1>u, <2>0 DEF User
  <2>3. Ready("succeed", t, s)
    BY <1>5, <1>l DEF LoginSucceed
  <2>4. /\ users' = [users EXCEPT ![a] = u]
        /\ signIn' = [signIn EXCEPT ![a] = SignedIn(s)]
        /\ EndLogin(p)
    BY <1>5 DEF LoginSucceed
  <2> HIDE DEF a, t, u, s
  <2>5. SignedIn(s) \in [latest: Time, previous: Time]
    BY <2>0 DEF SignedIn
  <2>6. Stored(u, SignedIn(s))
    <3>1. CASE s.latest = 0
      BY <2>2, <2>3, <3>1, SignInFacts, <2>0 DEF Ready, Stored
    <3>2. CASE s.latest # 0
      <4>1. SignedIn(s).latest = 0 /\ SignedIn(s).previous = s.latest /\ t = s.latest
        BY <2>0, <2>3, <3>2, SignInFacts DEF Ready
      <4>2. s.latest \in Int
        BY <2>0, <1>z
      <4> QED BY <2>2, <4>1, <4>2 DEF Stored
    <3> QED BY <3>1, <3>2
  <2>7. /\ users'[a] = u /\ signIn'[a] = SignedIn(s)
        /\ \A b \in Account : b # a => users'[b] = users[b] /\ signIn'[b] = signIn[b]
    BY <2>0, <2>4 DEF TypeOK
  <2>8. \A b \in Account : Stored(users'[b], signIn'[b])
    BY <1>s, <2>6, <2>7
  <2>9. StoredInv'
    BY <2>8 DEF StoredInv, Stored
  <2>10. ASSUME NEW q \in Login, q # p, who[q] = a
         PROVE  Ready(pc[q], snapshot[q].current, SignedIn(s))
    <3>1. Ready(pc[q], snapshot[q].current, s)
      BY <1>l, <2>10 DEF s
    <3>2. CASE s.latest = 0
      BY <2>0, <3>1, <3>2, SignInFacts
    <3>3. CASE s.latest # 0
      <4>1. SignedIn(s).latest = 0 /\ SignedIn(s).previous = s.latest
        BY <2>0, <3>3, SignInFacts
      <4>2. s.latest \in Int /\ snapshot[q].current \in Int
        BY <2>0, <1>p, <1>z
      <4> QED BY <3>1, <3>3, <4>1, <4>2 DEF Ready
    <3> QED BY <3>2, <3>3
  <2>11. /\ pc'[p] = "idle"
         /\ \A q \in Login : q # p => pc'[q] = pc[q] /\ snapshot'[q] = snapshot[q]
         /\ UNCHANGED <<who, job, inactive>>
    BY <2>4 DEF TypeOK, EndLogin, jobVars
  <2>12. \A q \in Login : Ready(pc'[q], snapshot'[q].current, signIn'[who'[q]])
    <3> SUFFICES ASSUME NEW q \in Login
                 PROVE  Ready(pc'[q], snapshot'[q].current, signIn'[who[q]])
      BY <2>11
    <3>1. CASE q = p
      BY <2>11, <3>1 DEF Ready
    <3>2. CASE q # p /\ who[q] = a
      BY <2>7, <2>10, <2>11, <3>2
    <3>3. CASE q # p /\ who[q] # a
      BY <1>l, <1>p, <2>7, <2>11, <3>3
    <3> QED BY <3>1, <3>2, <3>3
  <2>13. LoginInv'
    BY <2>12 DEF LoginInv, Ready, Excused
  <2>14. \A b \in Account : Excused(b) => Excused(b)'
    <3>1. SignedIn(s).latest = 0
      BY <2>0, SignInFacts
    <3> QED BY <2>7, <3>1 DEF Excused
  <2>15. JobInv'
    <3>1. inactive \subseteq Account
      BY DEF TypeOK
    <3> QED BY <2>11, <2>14, <3>1 DEF JobInv
  <2> QED BY <2>9, <2>13, <2>15 DEF UseInv
<1>6. ASSUME NEW p \in Login, LoginAbandon(p)
      PROVE  UseInv'
  <2>1. StoredInv'
    BY <1>6 DEF LoginAbandon, StoredInv
  <2> QED BY <1>6, <2>1, EndLoginKeeps DEF LoginAbandon, UseInv
<1>7. ASSUME NEW a \in Account, NEW u \in User, ChangeUser(a, u),
             Stored(u, signIn[a])
      PROVE  UseInv'
  <2>1. StoredInv'
    BY <1>7, OneRowStored DEF ChangeUser
  <2> QED BY <1>7, <2>1
          DEF UseInv, ChangeUser, loginVars, jobVars, LoginInv, JobInv, Excused
<1>8. ASSUME NEW a \in Account, ApproveAccount(a)
      PROVE  UseInv'
  <2> DEFINE u == [users[a] EXCEPT !.status = "approved"]
  <2>1. u \in User /\ Stored(u, signIn[a])
    BY <1>u, <1>s, FieldTyped DEF User, Stored
  <2> HIDE DEF u
  <2> QED BY <1>7, <1>8, <2>1 DEF ApproveAccount, u
<1>9. ASSUME NEW a \in Account, SetInitialPassword(a)
      PROVE  UseInv'
  <2> DEFINE u == [users[a] EXCEPT !.status = "active", !.failed = 0,
                                   !.locked = Never]
  <2>1. u \in User
    BY <1>u, RowTyped
  <2>2. Stored(u, signIn[a])
    BY <1>u, <1>s DEF User, Stored
  <2> HIDE DEF u
  <2> QED BY <1>7, <1>9, <2>1, <2>2 DEF SetInitialPassword, u
<1>10. ASSUME NEW a \in Account, ResetPassword(a)
       PROVE  UseInv'
  <2> DEFINE u == [users[a] EXCEPT !.failed = 0, !.locked = Never]
  <2>1. u \in User
    BY <1>u, <1>z, RowTyped
  <2>2. Stored(u, signIn[a])
    BY <1>u, <1>s DEF User, Stored
  <2> HIDE DEF u
  <2> QED BY <1>7, <1>10, <2>1, <2>2 DEF ResetPassword, u
<1>11. ASSUME NEW a \in Account, ReactivateAccount(a)
       PROVE  UseInv'
  <2> DEFINE u == [users[a] EXCEPT !.disabled = FALSE, !.warned = FALSE,
                                   !.last = 0]
  <2>1. u \in User
    BY <1>u, RowTyped
  <2>2. u.current = users[a].current /\ u.last = 0
    BY <1>u DEF User
  <2>3. signIn[a].previous # Never => 0 <= signIn[a].previous
    BY <1>u DEF Time, Age
  <2>4. Stored(u, signIn[a])
    BY <1>s, <2>2, <2>3 DEF Stored, Never
  <2> HIDE DEF u
  <2> QED BY <1>7, <1>11, <2>1, <2>4 DEF ReactivateAccount, u
<1>12. ASSUME UNCHANGED <<loginVars, signIn>>,
              \A a \in Account : /\ users'[a].current = users[a].current
                                 /\ users'[a].last = users[a].last,
              JobInv'
       PROVE  UseInv'
  BY <1>12 DEF UseInv, StoredInv, LoginInv, Excused, loginVars
<1>13. CASE \/ JobFindWarnings \/ JobFails
            \/ \E a \in Account, d \in BOOLEAN : JobSend(a, d)
  <2>1. JobInv'
    BY <1>13 DEF JobInv, JobFindWarnings, JobFails, EndJob, JobSend
  <2> QED BY <1>12, <1>13, <2>1 DEF JobFindWarnings, JobFails, EndJob, JobSend
<1>14. CASE JobMark
  <2>1. \A a \in Account : /\ users'[a].current = users[a].current
                           /\ users'[a].last = users[a].last
    BY <1>u, <1>14 DEF JobMark, User
  <2>2. JobInv'
    BY <1>14 DEF JobMark, JobInv
  <2> QED BY <1>12, <1>14, <2>1, <2>2 DEF JobMark
<1>15. CASE JobFindInactive
  <2>1. ASSUME NEW a \in Account, Inactive(users[a])
        PROVE  Excused(a)
    <3>1. users[a].last \in Int /\ users[a].last \in Time
      BY <1>u, <1>z DEF User
    <3>2. CASE users[a].last = Never
      BY <1>s, <3>2 DEF Stored, Excused
    <3>3. CASE users[a].last # Never
      <4>1. users[a].last > InactivityDays
        BY <2>1, <3>3 DEF Inactive, Clock
      <4>2. signIn[a].previous \in Int
        BY <1>u, <1>z
      <4> QED BY <1>s, <3>1, <4>1, <4>2 DEF Stored, Excused
    <3> QED BY <3>2, <3>3
  <2>2. inactive' = {a \in Account : Inactive(users[a])} /\ UNCHANGED signIn
    BY <1>15 DEF JobFindInactive, Accounts
  <2>3. JobInv'
    BY <2>1, <2>2 DEF JobInv, Excused
  <2> QED BY <1>12, <1>15, <2>3 DEF JobFindInactive
<1>16. CASE JobDisable
  <2>1. \A a \in Account : /\ users'[a].current = users[a].current
                           /\ users'[a].last = users[a].last
    BY <1>u, <1>16 DEF JobDisable, User
  <2>2. JobInv'
    BY <1>16 DEF JobDisable, EndJob, JobInv
  <2> QED BY <1>12, <1>16, <2>1, <2>2 DEF JobDisable, EndJob
<1>17. CASE Tick
  <2>1. \A a \in Account : /\ users'[a].current = Older(users[a].current)
                           /\ users'[a].last = Older(users[a].last)
                           /\ signIn'[a].latest = Older(signIn[a].latest)
                           /\ signIn'[a].previous = Older(signIn[a].previous)
    BY <1>u, <1>17 DEF Tick, User
  <2>2. \A t, v \in Time : t # Never /\ t <= v => Older(t) <= Older(v)
    BY DEF Older, Time, Age, Never
  <2>3. ASSUME NEW a \in Account PROVE Stored(users'[a], signIn'[a])
    <3>1. /\ users[a].last \in Time /\ signIn[a].previous \in Time
          /\ users[a].current = signIn[a].latest
      BY <1>u, <1>s DEF User, Stored
    <3>2. Older(signIn[a].previous) # Never => signIn[a].previous # Never
      BY <3>1, OlderFacts
    <3>3. users[a].last # Never => Older(users[a].last) # Never
      BY <3>1, OlderFacts
    <3>4. signIn[a].previous # Never =>
            users[a].last # Never /\ users[a].last <= signIn[a].previous
      BY <1>s DEF Stored
    <3> QED BY <2>1, <2>2, <3>1, <3>2, <3>3, <3>4 DEF Stored
  <2>4. StoredInv'
    BY <2>3 DEF StoredInv, Stored
  <2>5. LoginInv' /\ JobInv'
    BY <1>17 DEF Tick, LoginInv, JobInv, loginVars, jobVars
  <2> QED BY <2>4, <2>5 DEF UseInv
<1> QED BY <1>1, <1>2, <1>3, <1>4, <1>5, <1>6, <1>8, <1>9, <1>10, <1>11,
           <1>13, <1>14, <1>15, <1>16, <1>17 DEF Next, LoginWrite

\* Nobody has signed in at first.
LEMMA UseInit == Init => UseInv
BY DEF Init, UseInv, StoredInv, LoginInv, JobInv, NewUser

\* A step that disables an account has an excuse.
LEMMA DisablingStep ==
    ASSUME TypeInv, UseInv, [Next]_vars, NEW a \in Account,
           ~users[a].disabled, users'[a].disabled
    PROVE  Excused(a)
<1>t. \A b \in Account : users[b] \in User
  BY DEF TypeInv, TypeOK
<1>p. \A p \in Login : who[p] \in Account
  BY DEF TypeInv, TypeOK
<1>1. ASSUME NEW p \in Login, LoginDisable(p)
      PROVE  Excused(a)
  <2>1. a = who[p]
    <3>1. who[p] # a => users'[a] = users[a]
      BY <1>1, <1>p DEF LoginDisable, TypeInv, TypeOK
    <3> QED BY <3>1
  <2> QED BY <1>1, <2>1 DEF UseInv, LoginInv, LoginDisable
<1>2. CASE JobDisable
  <2>1. a \in inactive
    BY <1>2 DEF JobDisable
  <2> QED BY <1>2, <2>1 DEF UseInv, JobInv, JobDisable
<1>3. ASSUME NEW p \in Login, LoginFail(p)
      PROVE  FALSE
  <2>1. who[p] # a => users'[a] = users[a]
    BY <1>3, <1>p DEF LoginFail, TypeInv, TypeOK
  <2>2. who[p] = a => users'[a].disabled = users[a].disabled
    BY <1>3, <1>t DEF LoginFail, TypeInv, TypeOK, User
  <2> QED BY <2>1, <2>2
<1>4. ASSUME NEW p \in Login, LoginSucceed(p)
      PROVE  FALSE
  <2>1. who[p] # a => users'[a] = users[a]
    BY <1>4, <1>p DEF LoginSucceed, TypeInv, TypeOK
  <2>2. who[p] = a => users'[a].disabled = users[a].disabled
    BY <1>4, <1>t DEF LoginSucceed, TypeInv, TypeOK, User
  <2> QED BY <2>1, <2>2
<1>5. ASSUME NEW b \in Account,
             \/ ApproveAccount(b) \/ SetInitialPassword(b)
             \/ ResetPassword(b) \/ ReactivateAccount(b)
      PROVE  FALSE
  <2>1. b # a => users'[a] = users[a]
    BY <1>5 DEF ApproveAccount, SetInitialPassword, ResetPassword,
                ReactivateAccount, ChangeUser, TypeInv, TypeOK
  <2>2. ApproveAccount(a) => users'[a].disabled = users[a].disabled
    BY <1>t DEF ApproveAccount, ChangeUser, TypeInv, TypeOK, User
  <2>3. SetInitialPassword(a) => users'[a].disabled = users[a].disabled
    BY <1>t DEF SetInitialPassword, ChangeUser, TypeInv, TypeOK, User
  <2>4. ResetPassword(a) => users'[a].disabled = users[a].disabled
    BY <1>t DEF ResetPassword, ChangeUser, TypeInv, TypeOK, User
  <2>5. ReactivateAccount(a) => FALSE
    BY DEF ReactivateAccount
  <2>6. CASE b = a
    BY <1>5, <2>2, <2>3, <2>4, <2>5, <2>6
  <2>7. CASE b # a
    BY <2>1, <2>7
  <2> QED BY <2>6, <2>7
<1>6. ASSUME UNCHANGED users PROVE FALSE
  BY <1>6
<1>7. CASE JobMark
  <2>1. users'[a].disabled = users[a].disabled
    BY <1>7, <1>t DEF JobMark, User
  <2> QED BY <2>1
<1>8. CASE Tick
  <2>1. users'[a].disabled = users[a].disabled
    BY <1>8, <1>t DEF Tick, User
  <2> QED BY <2>1
<1>9. CASE \/ UNCHANGED vars \/ JobFindWarnings \/ JobFindInactive \/ JobFails
           \/ \E p \in Login : LoginAbandon(p)
           \/ \E b \in Account, d \in BOOLEAN : JobSend(b, d)
           \/ \E p \in Login, b \in Account, right \in BOOLEAN :
                 BeginLogin(p, b, right)
  BY <1>6, <1>9 DEF vars, JobFindWarnings, JobFindInactive, JobFails,
                    LoginAbandon, JobSend, BeginLogin
<1> QED BY <1>1, <1>2, <1>3, <1>4, <1>5, <1>7, <1>8, <1>9 DEF Next, LoginWrite

\* Regular users keep their access: neither login checks nor the nightly job,
\* in any interleaving, disable an account whose user signed in on two days of
\* the last InactivityDays, unless the latest of them is today.
THEOREM RegularUsersKeepAccess == Spec => RegularUserKeepsAccess
<1>1. TypeInv /\ UseInv /\ [Next]_vars =>
        [\A a \in Account :
           ~users[a].disabled /\ users'[a].disabled =>
               \/ signIn[a].latest \in {Never, 0}
               \/ signIn[a].previous = Never
               \/ signIn[a].previous >= InactivityDays]_vars
  BY DisablingStep DEF Excused
<1> QED BY <1>1, TypeInit, TypeStep, UseInit, UseStep, PTL
        DEF Spec, RegularUserKeepsAccess

----------------------------------------------------------------------------
(***************************************************************************)
(* The sessions of an account: proofs about UserSession, whose pc is stage *)
(* here.  WindowInv bounds, for every place from which a session may be    *)
(* let in (the reader, a row just read, the two caches, a request that     *)
(* waits for its version check), how long ago that session can have been   *)
(* superseded and the account disabled.  Each bound is the age of the      *)
(* place: it grows with revokedFor and disabledFor.                        *)
(***************************************************************************)
CONSTANTS Instance, Session, NoSession, Request, AuthTTL, VersionTTL, MaxLag,
          CallLatency, DbFailures
VARIABLES row, reader, behind, issued, auth, version, stage, kind, at, token, seen,
          age, outcome, revokedFor, disabledFor

Auth == INSTANCE UserSession WITH pc <- stage

\* SessionAssumption, TimeAssumption and FailureAssumption of UserSession.
SessionLimits ==
    /\ NoSession \notin Session
    /\ AuthTTL \in Nat \ {0}
    /\ VersionTTL \in Nat \ {0}
    /\ MaxLag \in Nat
    /\ CallLatency \in Nat
    /\ DbFailures \in BOOLEAN

USE DEF SessionLimits

EntryWindow == MaxLag + CallLatency + AuthTTL
VersionWindow == MaxLag + CallLatency + VersionTTL

\* A current or unissued session has not been superseded, an enabled account
\* not been disabled.
WriterInv ==
    /\ \A s \in Session : s = row.session \/ s \notin issued => revokedFor[s] = 0
    /\ ~row.disabled => disabledFor = 0

\* What the reader shows is at most as old as the reader is behind.
ReaderInv ==
    /\ \A s \in Session : reader.session = s => revokedFor[s] <= behind
    /\ ~reader.disabled => disabledFor <= behind

\* What a request has read is older by the age of the request.
SeenInv ==
    \A r \in Request :
        /\ stage[r] \in {"versionRead", "userRead"} =>
             \A s \in Session :
                 seen[r].session = s => revokedFor[s] <= MaxLag + age[r]
        /\ stage[r] = "userRead" /\ ~seen[r].disabled =>
             disabledFor <= MaxLag + age[r]

\* Cache entries lose a tick of life whenever their content gets a tick older.
VersionInv ==
    \A i \in Instance, s \in Session :
        version[i].ttl > 0 /\ version[i].session = s =>
            revokedFor[s] + version[i].ttl <= VersionWindow
AuthInv ==
    \A i \in Instance, s \in Session :
        auth[i][s] > 0 =>
            /\ revokedFor[s] + auth[i][s] <= EntryWindow
            /\ disabledFor + auth[i][s] <= EntryWindow

\* A request that reads carries a session, and one on the cached path had a
\* live tier-1 entry when it arrived.
PendingInv ==
    \A r \in Request :
        /\ stage[r] \in Auth!Reading => token[r] \in Session
        /\ stage[r] \in {"version", "versionRead"} =>
             /\ revokedFor[token[r]] < EntryWindow + age[r]
             /\ disabledFor < EntryWindow + age[r]

WindowInv ==
    WriterInv /\ ReaderInv /\ SeenInv /\ VersionInv /\ AuthInv /\ PendingInv

----------------------------------------------------------------------------
(* Types                                                                   *)

\* The parts of TypeOK that only requests change.
RequestsTyped ==
    /\ stage \in [Request -> Auth!Step]
    /\ kind \in [Request -> Auth!Kind]
    /\ at \in [Request -> Instance]
    /\ token \in [Request -> Auth!SessionId]
    /\ seen \in [Request -> Auth!Row]
    /\ age \in [Request -> 0 .. CallLatency]
    /\ outcome \in [Request -> {"none", "accepted", "rejected"}]

CachesTyped ==
    /\ auth \in [Instance -> [Session -> 0 .. AuthTTL]]
    /\ version \in [Instance -> [session: Auth!SessionId, ttl: 0 .. VersionTTL]]

RowsTyped ==
    /\ row \in Auth!Row
    /\ reader \in Auth!Row
    /\ behind \in 0 .. MaxLag
    /\ issued \in SUBSET Session

HistoryTyped ==
    /\ revokedFor \in [Session -> 0 .. Auth!Horizon]
    /\ disabledFor \in 0 .. Auth!Horizon

\* The parts together are TypeOK.
LEMMA TypeParts ==
    ASSUME SessionLimits
    PROVE  Auth!TypeOK <=> RowsTyped /\ CachesTyped /\ RequestsTyped /\ HistoryTyped
BY DEF Auth!TypeOK, RowsTyped, CachesTyped, RequestsTyped, HistoryTyped

\* The history variables range over natural numbers.
LEMMA HorizonNat ==
    ASSUME SessionLimits
    PROVE  Auth!Horizon \in Nat
BY DEF Auth!Horizon

\* The operations of the auth cache leave well-formed caches.
LEMMA CacheOperationsTyped ==
    ASSUME SessionLimits, CachesTyped, NEW i \in Instance, NEW s \in Auth!SessionId,
           \/ Auth!Remember(i, s)
           \/ Auth!Invalidate(i, s)
           \/ Auth!InvalidateUser(i)
    PROVE  CachesTyped'
<1> AuthTTL \in 0 .. AuthTTL /\ VersionTTL \in 0 .. VersionTTL
  OBVIOUS
<1>0. ASSUME NEW n \in 0 .. AuthTTL
      PROVE [auth EXCEPT ![i][s] = n] \in [Instance -> [Session -> 0 .. AuthTTL]]
  BY DEF CachesTyped
<1>1. CASE Auth!Remember(i, s)
  BY <1>0, <1>1 DEF CachesTyped, Auth!Remember
<1>2. CASE Auth!Invalidate(i, s)
  <2>1. Auth!NoVersion \in [session: Auth!SessionId, ttl: 0 .. VersionTTL]
    BY DEF Auth!NoVersion, Auth!SessionId
  <2>2. version' \in [Instance -> [session: Auth!SessionId, ttl: 0 .. VersionTTL]]
    BY <1>2, <2>1 DEF CachesTyped, Auth!Invalidate
  <2>3. auth' \in [Instance -> [Session -> 0 .. AuthTTL]]
    <3>1. 0 \in 0 .. AuthTTL
      OBVIOUS
    <3> QED BY <1>0, <1>2, <3>1 DEF Auth!Invalidate
  <2> QED BY <2>2, <2>3 DEF CachesTyped
<1>3. CASE Auth!InvalidateUser(i)
  BY <1>3 DEF CachesTyped, Auth!InvalidateUser, Auth!NoVersion, Auth!SessionId
<1> QED BY <1>1, <1>2, <1>3

\* A write of the user's row restarts the clock of the reader or leaves it.
LEMMA WriteTyped ==
    ASSUME SessionLimits, RowsTyped, NEW new \in Auth!Row, Auth!Write(new), issued' \in SUBSET Session
    PROVE  RowsTyped'
BY DEF RowsTyped, Auth!Write

\* Nobody is logged in, and nothing is cached, at first.
LEMMA SessionTyped ==
    ASSUME SessionLimits
    PROVE  Auth!Init => Auth!TypeOK
BY HorizonNat DEF Auth!Init, Auth!TypeOK, Auth!NoRow, Auth!NoVersion, Auth!Row, Auth!SessionId, Auth!Step, Auth!Reading, Auth!Kind

\* Every variable keeps its type: the countdowns stay within their TTLs, the
\* reader within MaxLag and every read within CallLatency.
THEOREM SessionTypeCorrect ==
    ASSUME SessionLimits
    PROVE  Auth!Spec => []Auth!TypeOK
<1>1. Auth!TypeOK /\ [Auth!Next]_(Auth!vars) => Auth!TypeOK'
  <2> SUFFICES ASSUME Auth!TypeOK, [Auth!Next]_(Auth!vars)
               PROVE RowsTyped' /\ CachesTyped' /\ RequestsTyped' /\ HistoryTyped'
    BY DEF Auth!TypeOK, RowsTyped, CachesTyped, RequestsTyped, HistoryTyped
  <2>0. RowsTyped /\ CachesTyped /\ RequestsTyped /\ HistoryTyped
    BY TypeParts
  <2>1. ASSUME NEW r \in Request, NEW i \in Instance, NEW k \in Auth!Kind,
               NEW s \in Session, Auth!Arrive(r, i, k, s)
        PROVE RowsTyped' /\ CachesTyped' /\ RequestsTyped' /\ HistoryTyped'
    <3>1. RowsTyped' /\ HistoryTyped'
      BY <2>0, <2>1 DEF Auth!Arrive, RowsTyped, HistoryTyped, Auth!userVars
    <3>2. CachesTyped'
      <4>1. CASE Auth!Invalidate(i, s)
        BY <2>0, <2>1, <4>1, CacheOperationsTyped DEF Auth!Arrive, Auth!SessionId
      <4>2. CASE UNCHANGED <<auth, version>>
        BY <2>0, <2>1, <4>2 DEF Auth!Arrive, CachesTyped
      <4> QED BY <2>1, <4>1, <4>2 DEF Auth!Arrive
    <3>3. stage' \in [Request -> Auth!Step] /\ outcome' \in [Request -> {"none", "accepted", "rejected"}]
      BY <2>0, <2>1 DEF Auth!Arrive, RequestsTyped, Auth!Goto, Auth!Accept, Auth!Reject, Auth!Answer, Auth!CacheAnswer, Auth!Step, Auth!Reading
    <3>4. RequestsTyped'
      <4>1. /\ kind' \in [Request -> Auth!Kind]
            /\ at' \in [Request -> Instance]
        BY <2>0, <2>1 DEF Auth!Arrive, RequestsTyped
      <4>2. token' \in [Request -> Auth!SessionId]
        <5>1. s \in Auth!SessionId
          BY DEF Auth!SessionId
        <5> QED BY <2>0, <2>1, <5>1 DEF Auth!Arrive, RequestsTyped
      <4> QED BY <2>0, <2>1, <3>3, <4>1, <4>2 DEF Auth!Arrive, RequestsTyped
    <3> QED BY <3>1, <3>2, <3>4
  <2>2. ASSUME NEW r \in Request, Auth!ValidateStep(r)
        PROVE RowsTyped' /\ CachesTyped' /\ RequestsTyped' /\ HistoryTyped'
    <3>1. RowsTyped' /\ HistoryTyped'
      BY <2>0, <2>2 DEF Auth!ValidateStep, Auth!Read, Auth!VersionAnswer, Auth!VersionFails, Auth!UserAnswer,
                        Auth!UserFails, Auth!Finish, RowsTyped, HistoryTyped, Auth!userVars
    <3>2. CachesTyped'
      <4>1. CASE UNCHANGED Auth!cacheVars
        BY <2>0, <4>1 DEF CachesTyped, Auth!cacheVars
      <4>2. CASE Auth!VersionAnswer(r)
        <5>1. at[r] \in Instance /\ seen[r].session \in Auth!SessionId /\ token[r] \in Auth!SessionId
          BY <2>0 DEF RequestsTyped, Auth!Row
        <5>2. VersionTTL \in 0 .. VersionTTL
          OBVIOUS
        <5>3. CASE seen[r].session = token[r]
          <6>1. /\ auth' = auth
                /\ version' = [version EXCEPT ![at[r]] =
                                [session |-> seen[r].session, ttl |-> VersionTTL]]
            BY <4>2, <5>3 DEF Auth!VersionAnswer
          <6>2. [session |-> seen[r].session, ttl |-> VersionTTL]
                  \in [session: Auth!SessionId, ttl: 0 .. VersionTTL]
            BY <5>1, <5>2
          <6> QED BY <2>0, <6>1, <6>2 DEF CachesTyped
        <5>4. CASE seen[r].session # token[r]
          BY <2>0, <4>2, <5>1, <5>4, CacheOperationsTyped DEF Auth!VersionAnswer
        <5> QED BY <5>3, <5>4
      <4>3. CASE Auth!UserAnswer(r)
        <5>1. at[r] \in Instance /\ token[r] \in Auth!SessionId
          BY <2>0 DEF RequestsTyped
        <5>2. CASE Auth!Remember(at[r], token[r])
          BY <2>0, <4>3, <5>1, <5>2, CacheOperationsTyped DEF Auth!UserAnswer
        <5>3. CASE UNCHANGED <<auth, version>>
          BY <2>0, <4>3, <5>3 DEF Auth!UserAnswer, CachesTyped
        <5> QED BY <4>3, <5>2, <5>3 DEF Auth!UserAnswer
      <4> QED BY <2>2, <4>1, <4>2, <4>3
              DEF Auth!ValidateStep, Auth!Read, Auth!VersionFails, Auth!UserFails, Auth!Finish, Auth!cacheVars
    <3>3. stage' \in [Request -> Auth!Step] /\ outcome' \in [Request -> {"none", "accepted", "rejected"}]
      BY <2>0, <2>2 DEF Auth!ValidateStep, Auth!Read, Auth!VersionAnswer, Auth!VersionFails, Auth!UserAnswer,
                        Auth!UserFails, Auth!Finish, RequestsTyped, Auth!Goto, Auth!Accept,
                        Auth!Reject, Auth!Answer, Auth!Step, Auth!Reading
    <3>4. seen' \in [Request -> Auth!Row]
      <4>1. Auth!Source(r) \in Auth!Row
        BY <2>0 DEF RowsTyped, Auth!Source
      <4>2. Auth!NoRow \in Auth!Row
        BY DEF Auth!NoRow, Auth!Row, Auth!SessionId
      <4> QED BY <2>0, <2>2, <4>1, <4>2 DEF Auth!ValidateStep, Auth!Read, Auth!VersionAnswer, Auth!VersionFails,
                        Auth!UserAnswer, Auth!UserFails, Auth!Finish, RequestsTyped
    <3>6. age' \in [Request -> 0 .. CallLatency]
      BY <2>0, <2>2 DEF Auth!ValidateStep, Auth!Read, Auth!VersionAnswer, Auth!VersionFails,
                        Auth!UserAnswer, Auth!UserFails, Auth!Finish, RequestsTyped
    <3>7. /\ kind' \in [Request -> Auth!Kind]
          /\ at' \in [Request -> Instance]
          /\ token' \in [Request -> Auth!SessionId]
      BY <2>0, <2>2 DEF Auth!ValidateStep, Auth!Read, Auth!VersionAnswer, Auth!VersionFails,
                        Auth!UserAnswer, Auth!UserFails, Auth!Finish, RequestsTyped, Auth!requestVars, Auth!Kind, Auth!SessionId
    <3> QED BY <3>1, <3>2, <3>3, <3>4, <3>6, <3>7 DEF RequestsTyped
  <2>3. ASSUME NEW r \in Request, NEW i \in Instance, NEW k \in Auth!Kind,
               NEW step \in Auth!Step, Auth!BeginAuth(r, i, k, step)
        PROVE RowsTyped' /\ CachesTyped' /\ RequestsTyped' /\ HistoryTyped'
    BY <2>0, <2>3 DEF Auth!BeginAuth, Auth!Goto, RowsTyped, CachesTyped, RequestsTyped, HistoryTyped,
                      Auth!userVars, Auth!cacheVars
  <2>4. ASSUME NEW r \in Request, Auth!SessionStep(r)
        PROVE RowsTyped' /\ CachesTyped' /\ RequestsTyped' /\ HistoryTyped'
    <3>1. HistoryTyped'
      BY <2>0, <2>4 DEF Auth!SessionStep, Auth!IssueSession, Auth!RevokeSession, Auth!EvictAndAnswer, Auth!UpsertThrows,
                        Auth!LogoutRead, Auth!LogoutWrite, Auth!LogoutEvict, HistoryTyped
    <3>2. RowsTyped'
      <4>1. CASE UNCHANGED Auth!userVars
        BY <2>0, <4>1 DEF RowsTyped, Auth!userVars
      <4>2. CASE Auth!IssueSession(r)
        <5>1. PICK s \in Session \ issued : Auth!Write([row EXCEPT !.session = s]) /\ issued' = issued \cup {s}
          BY <4>2 DEF Auth!IssueSession
        <5>2. [row EXCEPT !.session = s] \in Auth!Row
          BY <2>0 DEF RowsTyped, Auth!Row, Auth!SessionId
        <5>3. issued' \in SUBSET Session
          BY <2>0, <5>1 DEF RowsTyped
        <5> QED BY <2>0, <5>1, <5>2, <5>3, WriteTyped
      <4>3. CASE Auth!RevokeSession(r) \/ Auth!LogoutWrite(r)
        <5>1. [row EXCEPT !.session = NoSession] \in Auth!Row
          BY <2>0 DEF RowsTyped, Auth!Row, Auth!SessionId
        <5>2. issued' \in SUBSET Session
          BY <2>0, <4>3 DEF RowsTyped, Auth!RevokeSession, Auth!LogoutWrite
        <5> QED BY <2>0, <4>3, <5>1, <5>2, WriteTyped DEF Auth!RevokeSession, Auth!LogoutWrite
      <4> QED BY <2>4, <4>1, <4>2, <4>3 DEF Auth!SessionStep, Auth!EvictAndAnswer, Auth!UpsertThrows, Auth!LogoutRead, Auth!LogoutEvict
    <3>3. CachesTyped'
      <4>1. CASE UNCHANGED Auth!cacheVars
        BY <2>0, <4>1 DEF CachesTyped, Auth!cacheVars
      <4>2. at[r] \in Instance /\ token[r] \in Auth!SessionId
        BY <2>0 DEF RequestsTyped
      <4>3. CASE Auth!EvictAndAnswer(r)
        BY <2>0, <4>2, <4>3 DEF Auth!EvictAndAnswer, CachesTyped, RowsTyped, Auth!InvalidateUser, Auth!NoVersion, Auth!SessionId
      <4>4. CASE Auth!LogoutEvict(r)
        BY <2>0, <4>2, <4>4, CacheOperationsTyped DEF Auth!LogoutEvict
      <4> QED BY <2>4, <4>1, <4>3, <4>4
              DEF Auth!SessionStep, Auth!IssueSession, Auth!RevokeSession, Auth!UpsertThrows, Auth!LogoutRead, Auth!LogoutWrite, Auth!cacheVars
    <3>4. token' \in [Request -> Auth!SessionId]
      BY <2>0, <2>4 DEF Auth!SessionStep, Auth!IssueSession, Auth!RevokeSession, Auth!EvictAndAnswer, Auth!UpsertThrows,
                        Auth!LogoutRead, Auth!LogoutWrite, Auth!LogoutEvict, RequestsTyped, Auth!requestVars, Auth!SessionId
    <3>5. RequestsTyped'
      BY <2>0, <2>4, <3>4 DEF Auth!SessionStep, Auth!IssueSession, Auth!RevokeSession, Auth!EvictAndAnswer, Auth!UpsertThrows,
                        Auth!LogoutRead, Auth!LogoutWrite, Auth!LogoutEvict, RequestsTyped, Auth!requestVars, Auth!Goto, Auth!Step
    <3> QED BY <3>1, <3>2, <3>3, <3>5
  <2>5. ASSUME NEW i \in Instance, Auth!EvictOldest(i)
        PROVE RowsTyped' /\ CachesTyped' /\ RequestsTyped' /\ HistoryTyped'
    <3>1. RowsTyped' /\ RequestsTyped' /\ HistoryTyped'
      BY <2>0, <2>5 DEF Auth!EvictOldest, RowsTyped, RequestsTyped, HistoryTyped, Auth!userVars, Auth!requestVars
    <3>2. auth' \in [Instance -> [Session -> 0 .. AuthTTL]]
      <4>1. 0 \in 0 .. AuthTTL
        OBVIOUS
      <4>2. CASE \E s \in Session : auth' = [auth EXCEPT ![i][s] = 0]
        BY <2>0, <4>1, <4>2 DEF CachesTyped
      <4>3. CASE UNCHANGED auth
        BY <2>0, <4>3 DEF CachesTyped
      <4> QED BY <2>5, <4>2, <4>3 DEF Auth!EvictOldest
    <3>3. version' \in [Instance -> [session: Auth!SessionId, ttl: 0 .. VersionTTL]]
      BY <2>0, <2>5 DEF Auth!EvictOldest, CachesTyped, Auth!NoVersion, Auth!SessionId
    <3> QED BY <2>0, <2>5, <3>1, <3>2, <3>3 DEF Auth!EvictOldest, CachesTyped
  <2>6. ASSUME NEW i \in Instance, Auth!Restart(i)
        PROVE RowsTyped' /\ CachesTyped' /\ RequestsTyped' /\ HistoryTyped'
    <3>1. RowsTyped' /\ HistoryTyped'
      BY <2>0, <2>6 DEF Auth!Restart, RowsTyped, HistoryTyped, Auth!userVars
    <3>2. CachesTyped'
      BY <2>0, <2>6 DEF Auth!Restart, CachesTyped, Auth!InvalidateUser, Auth!NoVersion, Auth!SessionId
    <3>3. RequestsTyped'
      <4>1. /\ stage' \in [Request -> Auth!Step]
            /\ kind' \in [Request -> Auth!Kind]
            /\ at' \in [Request -> Instance]
        BY <2>0, <2>6 DEF Auth!Restart, RequestsTyped, Auth!Step, Auth!Kind
      <4>2. token' \in [Request -> Auth!SessionId]
        BY <2>0, <2>6 DEF Auth!Restart, RequestsTyped, Auth!SessionId
      <4>3. seen' \in [Request -> Auth!Row]
        <5>1. Auth!NoRow \in Auth!Row
          BY DEF Auth!NoRow, Auth!Row, Auth!SessionId
        <5> QED BY <2>0, <2>6, <5>1 DEF Auth!Restart, RequestsTyped
      <4>4. age' \in [Request -> 0 .. CallLatency]
        BY <2>0, <2>6 DEF Auth!Restart, RequestsTyped
      <4>5. outcome' \in [Request -> {"none", "accepted", "rejected"}]
        BY <2>0, <2>6 DEF Auth!Restart, RequestsTyped
      <4> QED BY <4>1, <4>2, <4>3, <4>4, <4>5 DEF RequestsTyped
    <3> QED BY <3>1, <3>2, <3>3
  <2>7. ASSUME NEW d \in BOOLEAN, Auth!SetDisabled(d)
        PROVE RowsTyped' /\ CachesTyped' /\ RequestsTyped' /\ HistoryTyped'
    <3>1. [row EXCEPT !.disabled = d] \in Auth!Row
      BY <2>0 DEF RowsTyped, Auth!Row
    <3>2. RowsTyped'
      BY <2>0, <2>7, <3>1, WriteTyped DEF Auth!SetDisabled, RowsTyped
    <3> QED BY <2>0, <2>7, <3>2, HorizonNat DEF Auth!SetDisabled, CachesTyped, RequestsTyped, HistoryTyped,
                      Auth!cacheVars, Auth!requestVars
  <2>12. CASE Auth!ChangePassword
    <3>1. [row EXCEPT !.session = NoSession] \in Auth!Row
      BY <2>0 DEF RowsTyped, Auth!Row, Auth!SessionId
    <3>2. RowsTyped'
      BY <2>0, <2>12, <3>1, WriteTyped DEF Auth!ChangePassword, RowsTyped
    <3> QED BY <2>0, <2>12, <3>2 DEF Auth!ChangePassword, CachesTyped, RequestsTyped,
                      HistoryTyped, Auth!cacheVars, Auth!requestVars
  <2>8. CASE Auth!Replicate
    BY <2>0, <2>8 DEF Auth!Replicate, RowsTyped, CachesTyped, RequestsTyped, HistoryTyped,
                      Auth!cacheVars, Auth!requestVars
  <2>9. CASE Auth!Tick
    <3>1. RowsTyped'
      BY <2>0, <2>9 DEF Auth!Tick, RowsTyped
    <3>2. CachesTyped'
      <4>1. auth' \in [Instance -> [Session -> 0 .. AuthTTL]]
        BY <2>0, <2>9 DEF Auth!Tick, CachesTyped, Auth!Dec
      <4>2. version' \in [Instance -> [session: Auth!SessionId, ttl: 0 .. VersionTTL]]
        <5>1. Auth!NoVersion \in [session: Auth!SessionId, ttl: 0 .. VersionTTL]
          BY DEF Auth!NoVersion, Auth!SessionId
        <5>2. ASSUME NEW i \in Instance, version[i].ttl > 1
              PROVE  [version[i] EXCEPT !.ttl = @ - 1]
                       \in [session: Auth!SessionId, ttl: 0 .. VersionTTL]
          <6>1. version[i] \in [session: Auth!SessionId, ttl: 0 .. VersionTTL]
            BY <2>0 DEF CachesTyped
          <6>2. version[i].ttl - 1 \in 0 .. VersionTTL
            BY <5>2, <6>1
          <6> QED BY <6>1, <6>2
        <5> QED BY <2>9, <5>1, <5>2 DEF Auth!Tick
      <4> QED BY <2>0, <2>9, <4>1, <4>2 DEF Auth!Tick, CachesTyped
    <3>3. RequestsTyped'
      BY <2>0, <2>9 DEF Auth!Tick, RequestsTyped, Auth!requestVars
    <3>4. HistoryTyped'
      BY <2>0, <2>9, HorizonNat DEF Auth!Tick, HistoryTyped, Auth!Inc
    <3> QED BY <3>1, <3>2, <3>3, <3>4
  <2>10. CASE UNCHANGED Auth!vars
    BY <2>0, <2>10 DEF Auth!vars, RowsTyped, CachesTyped, RequestsTyped, HistoryTyped
  <2>11. /\ {"login", "refresh", "role"} \subseteq Auth!Kind
         /\ {"issue", "revoke"} \subseteq Auth!Step
    BY DEF Auth!Kind, Auth!Step
  <2> QED
    BY <2>1, <2>2, <2>3, <2>4, <2>5, <2>6, <2>7, <2>8, <2>9, <2>10, <2>11, <2>12
       DEF Auth!Next, Auth!BeginLogin, Auth!BeginRefresh, Auth!BeginRoleChange
<1> QED BY <1>1, SessionTyped, PTL DEF Auth!Spec

----------------------------------------------------------------------------
(* The windows                                                             *)

\* At first nothing can be let in.
LEMMA WindowInit ==
    ASSUME SessionLimits
    PROVE  Auth!Init => WindowInv
BY DEF Auth!Init, WindowInv, WriterInv, ReaderInv, SeenInv, VersionInv, AuthInv, PendingInv,
       Auth!NoRow, Auth!NoVersion, Auth!Reading

\* Steps that leave the user's rows alone keep what is known about them.
LEMMA RowsKept ==
    ASSUME SessionLimits, WriterInv, ReaderInv, UNCHANGED <<Auth!userVars, revokedFor, disabledFor>>
    PROVE  WriterInv' /\ ReaderInv'
BY DEF WriterInv, ReaderInv, Auth!userVars

\* Dropping cache entries keeps the bounds of those that stay.
LEMMA CachesShrink ==
    ASSUME SessionLimits, Auth!TypeOK, VersionInv, AuthInv, UNCHANGED revokedFor,
           disabledFor' \in {0, disabledFor},
           \A i \in Instance, s \in Session : auth'[i][s] \in {0, auth[i][s]},
           \A i \in Instance : version'[i] \in {Auth!NoVersion, version[i]}
    PROVE  VersionInv' /\ AuthInv'
<1>1. VersionInv'
  BY DEF VersionInv, Auth!NoVersion
<1>2. AuthInv'
  <2> SUFFICES ASSUME NEW i \in Instance, NEW s \in Session, auth'[i][s] > 0
               PROVE  /\ revokedFor[s] + auth[i][s] <= EntryWindow
                      /\ disabledFor' + auth[i][s] <= EntryWindow
                      /\ auth'[i][s] = auth[i][s]
    BY DEF AuthInv
  <2>1. auth'[i][s] = auth[i][s]
    OBVIOUS
  <2>2. revokedFor[s] + auth[i][s] <= EntryWindow /\ disabledFor + auth[i][s] <= EntryWindow
    BY <2>1 DEF AuthInv
  <2>3. auth[i][s] \in Nat /\ disabledFor \in Nat /\ EntryWindow \in Nat
    BY HorizonNat DEF Auth!TypeOK, EntryWindow
  <2> QED BY <2>1, <2>2, <2>3
<1> QED BY <1>1, <1>2

\* invalidate only drops entries.
LEMMA InvalidateShrinks ==
    ASSUME SessionLimits, Auth!TypeOK, NEW i \in Instance, NEW s \in Auth!SessionId, Auth!Invalidate(i, s)
    PROVE  /\ \A j \in Instance, q \in Session : auth'[j][q] \in {0, auth[j][q]}
           /\ \A j \in Instance : version'[j] \in {Auth!NoVersion, version[j]}
<1>1. ASSUME NEW j \in Instance, NEW q \in Session
      PROVE auth'[j][q] \in {0, auth[j][q]}
  <2>1. CASE j = i
    <3>1. auth'[i] = [auth[i] EXCEPT ![s] = 0]
      BY DEF Auth!Invalidate, Auth!TypeOK
    <3>2. auth[i] \in [Session -> 0 .. AuthTTL]
      BY DEF Auth!TypeOK
    <3> QED BY <2>1, <3>1, <3>2
  <2>2. CASE j # i
    BY <2>2 DEF Auth!Invalidate, Auth!TypeOK
  <2> QED BY <2>1, <2>2
<1>2. \A j \in Instance : version'[j] \in {Auth!NoVersion, version[j]}
  BY DEF Auth!Invalidate, Auth!TypeOK
<1> QED BY <1>1, <1>2

\* Requests that stop reading, or go on as they were, keep their bounds.
LEMMA RequestsKept ==
    ASSUME SessionLimits, Auth!TypeOK, SeenInv, PendingInv, UNCHANGED revokedFor,
           disabledFor' \in {0, disabledFor},
           \A r \in Request :
               \/ stage'[r] \notin Auth!Reading
               \/ /\ stage'[r] = stage[r]
                  /\ token'[r] = token[r]
                  /\ age'[r] = age[r]
                  /\ seen'[r] = seen[r]
    PROVE  SeenInv' /\ PendingInv'
<1> SUFFICES ASSUME NEW r \in Request, stage'[r] \in Auth!Reading
             PROVE  /\ stage'[r] \in {"versionRead", "userRead"} =>
                          \A s \in Session :
                              seen'[r].session = s => revokedFor[s] <= MaxLag + age'[r]
                    /\ stage'[r] = "userRead" /\ ~seen'[r].disabled =>
                          disabledFor' <= MaxLag + age'[r]
                    /\ token'[r] \in Session
                    /\ stage'[r] \in {"version", "versionRead"} =>
                          /\ revokedFor[token'[r]] < EntryWindow + age'[r]
                          /\ disabledFor' < EntryWindow + age'[r]
  BY DEF SeenInv, PendingInv, Auth!Reading
<1>1. /\ stage'[r] = stage[r]
      /\ token'[r] = token[r]
      /\ age'[r] = age[r]
      /\ seen'[r] = seen[r]
  OBVIOUS
<1>2. age[r] \in Nat /\ disabledFor \in Nat /\ EntryWindow \in Nat \ {0}
  <2>1. age \in [Request -> 0 .. CallLatency] /\ disabledFor \in 0 .. Auth!Horizon
    BY DEF Auth!TypeOK
  <2>2. EntryWindow \in Nat \ {0}
    BY DEF EntryWindow
  <2> QED BY <2>1, <2>2, HorizonNat
<1>3. /\ stage[r] \in {"versionRead", "userRead"} =>
            \A s \in Session :
                seen[r].session = s => revokedFor[s] <= MaxLag + age[r]
      /\ stage[r] = "userRead" /\ ~seen[r].disabled => disabledFor <= MaxLag + age[r]
      /\ token[r] \in Session
      /\ stage[r] \in {"version", "versionRead"} =>
            /\ revokedFor[token[r]] < EntryWindow + age[r]
            /\ disabledFor < EntryWindow + age[r]
  BY <1>1 DEF SeenInv, PendingInv
<1> QED BY <1>1, <1>2, <1>3

\* A write of the row to a session that nothing supersedes keeps the bounds of
\* the rows, also when it brings the row back to what the reader shows.
LEMMA RowsWritten ==
    ASSUME SessionLimits, Auth!TypeOK, WriterInv, ReaderInv, NEW new \in Auth!Row, Auth!Write(new),
           UNCHANGED revokedFor,
           new.session \in Session => revokedFor[new.session] = 0,
           issued \subseteq issued',
           \/ new.disabled = row.disabled /\ UNCHANGED disabledFor
           \/ disabledFor' = 0
    PROVE  WriterInv' /\ ReaderInv'
<1>1. row' = new /\ reader' = reader /\ behind' \in {0, behind} /\ (new = reader \/ behind' = behind)
  BY DEF Auth!Write
<1>2. behind \in Nat
  BY DEF Auth!TypeOK
<1>3. WriterInv'
  BY <1>1 DEF WriterInv
<1>4. ReaderInv'
  <2>1. CASE behind' = behind
    BY <1>1, <1>2, <2>1 DEF ReaderInv
  <2>2. CASE new = reader /\ behind' = 0
    BY <1>1, <1>2, <1>3, <2>2 DEF ReaderInv, WriterInv
  <2> QED BY <1>1, <2>1, <2>2
<1> QED BY <1>3, <1>4

\* An answer ends the reading of a request.
LEMMA AnswersEnd ==
    ASSUME SessionLimits, Auth!TypeOK, NEW r \in Request, NEW k \in Auth!Kind, Auth!Accept(r, k) \/ Auth!Reject(r)
    PROVE  /\ stage'[r] \notin Auth!Reading
           /\ \A q \in Request \ {r} : stage'[q] = stage[q]
BY DEF Auth!TypeOK, Auth!Accept, Auth!Reject, Auth!Goto, Auth!Reading

\* Every step keeps the bounds.
LEMMA WindowStep ==
    ASSUME SessionLimits, Auth!TypeOK, Auth!TypeOK', WindowInv, [Auth!Next]_(Auth!vars)
    PROVE  WindowInv'
<1> USE DEF WindowInv
<1>1. ASSUME NEW r \in Request, NEW i \in Instance, NEW k \in Auth!Kind,
             NEW s \in Session, Auth!Arrive(r, i, k, s)
      PROVE WindowInv'
  <2>1. WriterInv' /\ ReaderInv'
    BY <1>1, RowsKept DEF Auth!Arrive
  <2>2. VersionInv' /\ AuthInv'
    <3>1. /\ \A j \in Instance, q \in Session : auth'[j][q] \in {0, auth[j][q]}
          /\ \A j \in Instance : version'[j] \in {Auth!NoVersion, version[j]}
      <4>1. CASE Auth!Invalidate(i, s)
        BY <4>1, InvalidateShrinks DEF Auth!SessionId
      <4>2. CASE UNCHANGED <<auth, version>>
        BY <4>2
      <4> QED BY <1>1, <4>1, <4>2 DEF Auth!Arrive
    <3> QED BY <1>1, <3>1, CachesShrink DEF Auth!Arrive
  <2>3. SeenInv' /\ PendingInv'
    <3>1. CASE stage'[r] \notin Auth!Reading
      BY <1>1, <3>1, RequestsKept DEF Auth!Arrive, Auth!Accept, Auth!Reject, Auth!Goto, Auth!TypeOK
    <3>2. CASE Auth!CacheAnswer(i, s) \in {"version", "user"} /\ Auth!Goto(r, Auth!CacheAnswer(i, s))
      <4>1. stage'[r] = Auth!CacheAnswer(i, s) /\ token'[r] = s
        BY <1>1, <3>2 DEF Auth!Arrive, Auth!Goto, Auth!TypeOK
      <4>2. \A q \in Request \ {r} : stage'[q] = stage[q] /\ token'[q] = token[q]
        BY <1>1, <3>2 DEF Auth!Arrive, Auth!Goto, Auth!TypeOK
      <4>3. UNCHANGED <<age, seen, revokedFor, disabledFor>>
        BY <1>1 DEF Auth!Arrive
      <4>4. SeenInv'
        BY <3>2, <4>1, <4>2, <4>3 DEF SeenInv
      <4>5. stage'[r] = "version" => /\ revokedFor[s] < EntryWindow + age[r]
                                  /\ disabledFor < EntryWindow + age[r]
        <5> SUFFICES ASSUME stage'[r] = "version"
                     PROVE  /\ revokedFor[s] < EntryWindow + age[r]
                            /\ disabledFor < EntryWindow + age[r]
          OBVIOUS
        <5>1. auth[i][s] > 0
          <6>1. ~Auth!CachedAuth(i, s) => Auth!CacheAnswer(i, s) = "user"
            BY DEF Auth!CacheAnswer
          <6>2. Auth!CachedAuth(i, s)
            BY <4>1, <6>1
          <6> QED BY <6>2 DEF Auth!CachedAuth
        <5>2. revokedFor[s] + auth[i][s] <= EntryWindow /\ disabledFor + auth[i][s] <= EntryWindow
          BY <5>1 DEF AuthInv
        <5>3. /\ auth[i][s] \in Nat /\ revokedFor[s] \in Nat /\ disabledFor \in Nat
              /\ age[r] \in Nat /\ EntryWindow \in Nat
          BY HorizonNat DEF Auth!TypeOK, EntryWindow
        <5> QED BY <5>1, <5>2, <5>3
      <4> QED BY <3>2, <4>1, <4>2, <4>3, <4>4, <4>5 DEF PendingInv
    <3>3. (Auth!Accept(r, k) \/ Auth!Reject(r)) => stage'[r] \notin Auth!Reading
      BY AnswersEnd
    <3> QED BY <1>1, <3>1, <3>2, <3>3 DEF Auth!Arrive
  <2> QED BY <2>1, <2>2, <2>3
<1>2. ASSUME NEW r \in Request, Auth!Read(r) PROVE WindowInv'
  <2>1. WriterInv' /\ ReaderInv'
    BY <1>2, RowsKept DEF Auth!Read
  <2>2. VersionInv' /\ AuthInv'
    BY <1>2, CachesShrink DEF Auth!Read, Auth!cacheVars
  <2>3. /\ \A q \in Request \ {r} : stage'[q] = stage[q] /\ seen'[q] = seen[q]
        /\ \/ stage[r] = "version" /\ stage'[r] = "versionRead"
           \/ stage[r] = "user" /\ stage'[r] = "userRead"
        /\ seen'[r] \in {reader, row}
        /\ UNCHANGED <<token, age, revokedFor, disabledFor>>
    BY <1>2 DEF Auth!Read, Auth!Goto, Auth!Source, Auth!requestVars, Auth!TypeOK
  <2>4. PendingInv'
    BY <2>3 DEF PendingInv, Auth!Reading
  <2>5. SeenInv'
    <3>1. /\ \A s \in Session : seen'[r].session = s => revokedFor[s] <= MaxLag + age[r]
          /\ ~seen'[r].disabled => disabledFor <= MaxLag + age[r]
      <4>1. /\ age[r] \in Nat /\ behind \in Nat /\ behind <= MaxLag
            /\ revokedFor \in [Session -> Nat] /\ disabledFor \in Nat
        BY HorizonNat DEF Auth!TypeOK
      <4>2. CASE seen'[r] = reader
        BY <4>1, <4>2 DEF ReaderInv
      <4>3. CASE seen'[r] = row
        BY <4>1, <4>3 DEF WriterInv
      <4> QED BY <2>3, <4>2, <4>3
    <3> QED BY <2>3, <3>1 DEF SeenInv
  <2> QED BY <2>1, <2>2, <2>4, <2>5
<1>3. ASSUME NEW r \in Request, Auth!VersionAnswer(r) PROVE WindowInv'
  <2>1. WriterInv' /\ ReaderInv'
    BY <1>3, RowsKept DEF Auth!VersionAnswer
  <2>2. SeenInv' /\ PendingInv'
    <3>1. kind[r] \in Auth!Kind
      BY DEF Auth!TypeOK
    <3>2. stage'[r] \notin Auth!Reading /\ \A q \in Request \ {r} : stage'[q] = stage[q]
      BY <1>3, <3>1, AnswersEnd DEF Auth!VersionAnswer
    <3> QED BY <1>3, <3>2, RequestsKept DEF Auth!VersionAnswer, Auth!requestVars, Auth!TypeOK
  <2>3. VersionInv' /\ AuthInv'
    <3>1. CASE seen[r].session # token[r]
      <4>1. /\ \A j \in Instance, q \in Session : auth'[j][q] \in {0, auth[j][q]}
            /\ \A j \in Instance : version'[j] \in {Auth!NoVersion, version[j]}
        BY <1>3, <3>1, InvalidateShrinks DEF Auth!VersionAnswer, Auth!TypeOK
      <4> QED BY <1>3, <4>1, CachesShrink DEF Auth!VersionAnswer
    <3>2. CASE seen[r].session = token[r]
      <4>1. AuthInv'
        BY <1>3, <3>2 DEF Auth!VersionAnswer, AuthInv
      <4>2. token[r] \in Session /\ revokedFor[token[r]] <= MaxLag + age[r]
        BY <1>3, <3>2 DEF Auth!VersionAnswer, PendingInv, SeenInv, Auth!Reading
      <4>3. revokedFor[token[r]] + VersionTTL <= VersionWindow
        BY <4>2, HorizonNat DEF VersionWindow, Auth!TypeOK
      <4>4. VersionInv'
        <5> SUFFICES ASSUME NEW i \in Instance, NEW s \in Session,
                            version'[i].ttl > 0, version'[i].session = s
                     PROVE  revokedFor[s] + version'[i].ttl <= VersionWindow
          BY <1>3 DEF Auth!VersionAnswer, VersionInv
        <5>1. CASE i = at[r]
          <6>1. version'[i] = [session |-> token[r], ttl |-> VersionTTL]
            BY <1>3, <3>2, <5>1 DEF Auth!VersionAnswer, Auth!TypeOK
          <6> QED BY <4>3, <6>1
        <5>2. CASE i # at[r]
          <6>1. version'[i] = version[i]
            BY <1>3, <3>2, <5>2 DEF Auth!VersionAnswer, Auth!TypeOK
          <6> QED BY <6>1 DEF VersionInv
        <5> QED BY <5>1, <5>2
      <4> QED BY <4>1, <4>4
    <3> QED BY <3>1, <3>2
  <2> QED BY <2>1, <2>2, <2>3
<1>4. ASSUME NEW r \in Request, Auth!UserAnswer(r) PROVE WindowInv'
  <2>1. WriterInv' /\ ReaderInv'
    BY <1>4, RowsKept DEF Auth!UserAnswer
  <2>2. SeenInv' /\ PendingInv'
    <3>1. kind[r] \in Auth!Kind
      BY DEF Auth!TypeOK
    <3>2. stage'[r] \notin Auth!Reading /\ \A q \in Request \ {r} : stage'[q] = stage[q]
      BY <1>4, <3>1, AnswersEnd DEF Auth!UserAnswer
    <3> QED BY <1>4, <3>2, RequestsKept DEF Auth!UserAnswer, Auth!requestVars, Auth!TypeOK
  <2>3. VersionInv' /\ AuthInv'
    <3>1. CASE UNCHANGED <<auth, version>>
      BY <1>4, <3>1, CachesShrink DEF Auth!UserAnswer
    <3>2. CASE Auth!Remember(at[r], token[r]) /\ ~seen[r].disabled /\ seen[r].session = token[r]
      <4>1. /\ token[r] \in Session
            /\ revokedFor[token[r]] <= MaxLag + age[r]
            /\ disabledFor <= MaxLag + age[r]
        BY <1>4, <3>2 DEF Auth!UserAnswer, PendingInv, SeenInv, Auth!Reading
      <4>2. /\ age[r] \in Nat /\ age[r] <= CallLatency
            /\ revokedFor[token[r]] \in Nat /\ disabledFor \in Nat
        BY <4>1, HorizonNat DEF Auth!TypeOK
      <4>3. /\ revokedFor[token[r]] + VersionTTL <= VersionWindow
            /\ revokedFor[token[r]] + AuthTTL <= EntryWindow
            /\ disabledFor + AuthTTL <= EntryWindow
        BY <4>1, <4>2 DEF VersionWindow, EntryWindow
      <4>4. VersionInv'
        BY <1>4, <3>2, <4>3 DEF Auth!UserAnswer, Auth!Remember, VersionInv, Auth!TypeOK
      <4>5. AuthInv'
        BY <1>4, <3>2, <4>1, <4>3 DEF Auth!UserAnswer, Auth!Remember, AuthInv, Auth!TypeOK
      <4> QED BY <4>4, <4>5
    <3> QED BY <1>4, <3>1, <3>2 DEF Auth!UserAnswer
  <2> QED BY <2>1, <2>2, <2>3
<1>5. ASSUME NEW r \in Request,
             Auth!VersionFails(r) \/ Auth!UserFails(r) \/ Auth!Finish(r)
      PROVE WindowInv'
  <2>1. WriterInv' /\ ReaderInv'
    BY <1>5, RowsKept DEF Auth!VersionFails, Auth!UserFails, Auth!Finish
  <2>2. VersionInv' /\ AuthInv'
    BY <1>5, CachesShrink DEF Auth!VersionFails, Auth!UserFails, Auth!Finish, Auth!cacheVars
  <2>3. stage'[r] \notin Auth!Reading /\ \A q \in Request \ {r} : stage'[q] = stage[q]
    <3>1. kind[r] \in Auth!Kind
      BY DEF Auth!TypeOK
    <3>2. CASE Auth!VersionFails(r) \/ Auth!UserFails(r)
      BY <3>1, <3>2, AnswersEnd DEF Auth!VersionFails, Auth!UserFails
    <3>3. CASE Auth!Finish(r)
      BY <3>3 DEF Auth!Finish, Auth!Goto, Auth!Reading, Auth!TypeOK
    <3> QED BY <1>5, <3>2, <3>3
  <2>4. \A q \in Request \ {r} : token'[q] = token[q] /\ age'[q] = age[q] /\ seen'[q] = seen[q]
    BY <1>5 DEF Auth!VersionFails, Auth!UserFails, Auth!Finish, Auth!requestVars, Auth!TypeOK
  <2>5. SeenInv' /\ PendingInv'
    BY <1>5, <2>3, <2>4, RequestsKept DEF Auth!VersionFails, Auth!UserFails, Auth!Finish
  <2> QED BY <2>1, <2>2, <2>5
<1>6. ASSUME NEW r \in Request, NEW i \in Instance, NEW k \in Auth!Kind,
             NEW step \in {"issue", "revoke"}, Auth!BeginAuth(r, i, k, step)
      PROVE WindowInv'
  <2>1. WriterInv' /\ ReaderInv'
    BY <1>6, RowsKept DEF Auth!BeginAuth
  <2>2. VersionInv' /\ AuthInv'
    BY <1>6, CachesShrink DEF Auth!BeginAuth, Auth!cacheVars
  <2>3. SeenInv' /\ PendingInv'
    BY <1>6, RequestsKept DEF Auth!BeginAuth, Auth!Goto, Auth!Reading, Auth!TypeOK
  <2> QED BY <2>1, <2>2, <2>3
<1>7. ASSUME NEW r \in Request, Auth!SessionStep(r) PROVE WindowInv'
  <2> USE <1>7 DEF Auth!SessionStep
  <2>1. WriterInv' /\ ReaderInv'
    <3>1. CASE Auth!IssueSession(r)
      <4>1. PICK s \in Session \ issued :
              Auth!Write([row EXCEPT !.session = s]) /\ issued' = issued \cup {s}
        BY <3>1 DEF Auth!IssueSession
      <4>2. /\ [row EXCEPT !.session = s] \in Auth!Row
            /\ [row EXCEPT !.session = s].session = s
            /\ [row EXCEPT !.session = s].disabled = row.disabled
        BY DEF Auth!TypeOK, Auth!Row, Auth!SessionId
      <4>3. revokedFor[s] = 0
        BY DEF WriterInv
      <4> QED BY <3>1, <4>1, <4>2, <4>3, RowsWritten DEF Auth!IssueSession
    <3>2. CASE Auth!RevokeSession(r) \/ Auth!LogoutWrite(r)
      <4>1. /\ [row EXCEPT !.session = NoSession] \in Auth!Row
            /\ [row EXCEPT !.session = NoSession].session = NoSession
            /\ [row EXCEPT !.session = NoSession].disabled = row.disabled
        BY DEF Auth!TypeOK, Auth!Row, Auth!SessionId
      <4> QED BY <3>2, <4>1, RowsWritten DEF Auth!RevokeSession, Auth!LogoutWrite
    <3>3. CASE Auth!EvictAndAnswer(r) \/ Auth!UpsertThrows(r) \/ Auth!LogoutRead(r) \/ Auth!LogoutEvict(r)
      BY <3>3, RowsKept DEF Auth!EvictAndAnswer, Auth!UpsertThrows, Auth!LogoutRead, Auth!LogoutEvict
    <3> QED BY <3>1, <3>2, <3>3
  <2>2. UNCHANGED <<revokedFor, disabledFor, age, seen>>
    BY DEF Auth!IssueSession, Auth!RevokeSession, Auth!EvictAndAnswer, Auth!UpsertThrows, Auth!LogoutRead, Auth!LogoutWrite, Auth!LogoutEvict
  <2>3. VersionInv' /\ AuthInv'
    <3>1. /\ \A j \in Instance, q \in Session : auth'[j][q] \in {0, auth[j][q]}
          /\ \A j \in Instance : version'[j] \in {Auth!NoVersion, version[j]}
      <4>1. CASE UNCHANGED Auth!cacheVars
        BY <4>1 DEF Auth!cacheVars
      <4>2. CASE Auth!EvictAndAnswer(r)
        BY <4>2 DEF Auth!EvictAndAnswer, Auth!InvalidateUser, Auth!TypeOK
      <4>3. CASE Auth!LogoutEvict(r)
        BY <4>3 DEF Auth!LogoutEvict, Auth!Invalidate, Auth!TypeOK
      <4> QED BY <4>1, <4>2, <4>3
              DEF Auth!IssueSession, Auth!RevokeSession, Auth!UpsertThrows, Auth!LogoutRead, Auth!LogoutWrite, Auth!cacheVars
    <3> QED BY <2>2, <3>1, CachesShrink
  <2>4. SeenInv' /\ PendingInv'
    <3>1. /\ stage'[r] \notin Auth!Reading
          /\ \A q \in Request \ {r} : stage'[q] = stage[q] /\ token'[q] = token[q]
      BY DEF Auth!IssueSession, Auth!RevokeSession, Auth!EvictAndAnswer, Auth!UpsertThrows, Auth!LogoutRead,
             Auth!LogoutWrite, Auth!LogoutEvict, Auth!Goto, Auth!Reading, Auth!requestVars, Auth!TypeOK
    <3> QED BY <2>2, <3>1, RequestsKept
  <2> QED BY <2>1, <2>3, <2>4
<1>8. ASSUME NEW i \in Instance, Auth!EvictOldest(i) PROVE WindowInv'
  <2>1. WriterInv' /\ ReaderInv'
    BY <1>8, RowsKept DEF Auth!EvictOldest
  <2>2. VersionInv' /\ AuthInv'
    <3>1. /\ \A j \in Instance, q \in Session : auth'[j][q] \in {0, auth[j][q]}
          /\ \A j \in Instance : version'[j] \in {Auth!NoVersion, version[j]}
      <4>1. CASE UNCHANGED auth /\ version' = [version EXCEPT ![i] = Auth!NoVersion]
        BY <4>1 DEF Auth!TypeOK
      <4>2. CASE UNCHANGED version /\ \E s \in Session : auth' = [auth EXCEPT ![i][s] = 0]
        <5>1. PICK s \in Session : auth' = [auth EXCEPT ![i][s] = 0]
          BY <4>2
        <5>2. auth \in [Instance -> [Session -> 0 .. AuthTTL]]
          BY DEF Auth!TypeOK
        <5> QED BY <4>2, <5>1, <5>2
      <4> QED BY <1>8, <4>1, <4>2 DEF Auth!EvictOldest
    <3> QED BY <1>8, <3>1, CachesShrink DEF Auth!EvictOldest
  <2>3. SeenInv' /\ PendingInv'
    BY <1>8, RequestsKept DEF Auth!EvictOldest, Auth!requestVars
  <2> QED BY <2>1, <2>2, <2>3
<1>9. ASSUME NEW i \in Instance, Auth!Restart(i) PROVE WindowInv'
  <2>1. WriterInv' /\ ReaderInv'
    BY <1>9, RowsKept DEF Auth!Restart
  <2>2. VersionInv' /\ AuthInv'
    <3>1. /\ \A j \in Instance, q \in Session : auth'[j][q] \in {0, auth[j][q]}
          /\ \A j \in Instance : version'[j] \in {Auth!NoVersion, version[j]}
      BY <1>9 DEF Auth!Restart, Auth!InvalidateUser, Auth!TypeOK
    <3> QED BY <1>9, <3>1, CachesShrink DEF Auth!Restart
  <2>3. \A r \in Request :
          \/ stage'[r] \notin Auth!Reading
          \/ /\ stage'[r] = stage[r]
             /\ token'[r] = token[r]
             /\ age'[r] = age[r]
             /\ seen'[r] = seen[r]
    BY <1>9 DEF Auth!Restart, Auth!Reading
  <2>4. SeenInv' /\ PendingInv'
    BY <1>9, <2>3, RequestsKept DEF Auth!Restart
  <2> QED BY <2>1, <2>2, <2>4
<1>10. ASSUME NEW d \in BOOLEAN, Auth!SetDisabled(d) PROVE WindowInv'
  <2>1. WriterInv' /\ ReaderInv'
    <3>1. /\ [row EXCEPT !.disabled = d] \in Auth!Row
          /\ [row EXCEPT !.disabled = d].session = row.session
      BY DEF Auth!TypeOK, Auth!Row
    <3>2. row.session \in Session => revokedFor[row.session] = 0
      BY DEF WriterInv
    <3> QED BY <1>10, <3>1, <3>2, RowsWritten DEF Auth!SetDisabled
  <2>2. VersionInv' /\ AuthInv'
    BY <1>10, CachesShrink DEF Auth!SetDisabled, Auth!cacheVars
  <2>3. SeenInv' /\ PendingInv'
    BY <1>10, RequestsKept DEF Auth!SetDisabled, Auth!requestVars
  <2> QED BY <2>1, <2>2, <2>3
<1>14. CASE Auth!ChangePassword
  <2>1. WriterInv' /\ ReaderInv'
    <3>1. /\ [row EXCEPT !.session = NoSession] \in Auth!Row
          /\ [row EXCEPT !.session = NoSession].session = NoSession
          /\ [row EXCEPT !.session = NoSession].disabled = row.disabled
      BY DEF Auth!TypeOK, Auth!Row, Auth!SessionId
    <3> QED BY <1>14, <3>1, RowsWritten DEF Auth!ChangePassword
  <2>2. VersionInv' /\ AuthInv'
    BY <1>14, CachesShrink DEF Auth!ChangePassword, Auth!cacheVars
  <2>3. SeenInv' /\ PendingInv'
    BY <1>14, RequestsKept DEF Auth!ChangePassword, Auth!requestVars
  <2> QED BY <2>1, <2>2, <2>3
<1>11. CASE Auth!Replicate
  <2>1. WriterInv' /\ ReaderInv'
    BY <1>11 DEF Auth!Replicate, WriterInv, ReaderInv
  <2>2. VersionInv' /\ AuthInv'
    BY <1>11, CachesShrink DEF Auth!Replicate, Auth!cacheVars
  <2>3. SeenInv' /\ PendingInv'
    BY <1>11, RequestsKept DEF Auth!Replicate, Auth!requestVars
  <2> QED BY <2>1, <2>2, <2>3
<1>12. CASE Auth!Tick
  <2>0. /\ \A s \in Session : revokedFor'[s] <= revokedFor[s] + 1
        /\ \A s \in Session : s = row.session \/ s \notin issued => revokedFor'[s] = 0
        /\ disabledFor' <= disabledFor + 1
        /\ ~row.disabled => disabledFor' = 0
    BY <1>12, HorizonNat DEF Auth!Tick, Auth!Inc, Auth!TypeOK
  <2>1. /\ revokedFor \in [Session -> Nat] /\ revokedFor' \in [Session -> Nat]
        /\ disabledFor \in Nat /\ disabledFor' \in Nat
        /\ behind \in Nat /\ EntryWindow \in Nat /\ VersionWindow \in Nat
    BY HorizonNat DEF Auth!TypeOK, EntryWindow, VersionWindow
  <2>2. WriterInv'
    BY <1>12, <2>0 DEF Auth!Tick, WriterInv
  <2>3. ReaderInv'
    <3>1. CASE reader = row
      BY <1>12, <2>0, <2>1, <3>1 DEF Auth!Tick, ReaderInv
    <3>2. CASE reader # row
      BY <1>12, <2>0, <2>1, <3>2 DEF Auth!Tick, ReaderInv
    <3> QED BY <3>1, <3>2
  <2>4. \A r \in Request : stage[r] \in Auth!Reading => age'[r] = age[r] + 1 /\ age[r] \in Nat
    BY <1>12 DEF Auth!Tick, Auth!TypeOK
  <2>5. SeenInv'
    <3> SUFFICES ASSUME NEW r \in Request, stage[r] \in {"versionRead", "userRead"}
                 PROVE  /\ \A s \in Session :
                              seen[r].session = s => revokedFor'[s] <= MaxLag + age'[r]
                        /\ stage[r] = "userRead" /\ ~seen[r].disabled =>
                              disabledFor' <= MaxLag + age'[r]
      BY <1>12 DEF Auth!Tick, SeenInv
    <3> QED BY <2>0, <2>1, <2>4 DEF SeenInv, Auth!Reading
  <2>6. PendingInv'
    <3> SUFFICES ASSUME NEW r \in Request, stage[r] \in Auth!Reading
                 PROVE  /\ token[r] \in Session
                        /\ stage[r] \in {"version", "versionRead"} =>
                              /\ revokedFor'[token[r]] < EntryWindow + age'[r]
                              /\ disabledFor' < EntryWindow + age'[r]
      BY <1>12 DEF Auth!Tick, PendingInv, Auth!requestVars, Auth!Reading
    <3> QED BY <2>0, <2>1, <2>4 DEF PendingInv
  <2>7. VersionInv'
    <3> SUFFICES ASSUME NEW i \in Instance, NEW s \in Session,
                        version'[i].ttl > 0, version'[i].session = s
                 PROVE  revokedFor'[s] + version'[i].ttl <= VersionWindow
      BY DEF VersionInv
    <3>1. /\ version[i].ttl > 1 /\ version[i].session = s
          /\ version'[i].ttl = version[i].ttl - 1 /\ version[i].ttl \in Nat
      BY <1>12 DEF Auth!Tick, Auth!TypeOK, Auth!NoVersion
    <3> QED BY <2>0, <2>1, <3>1 DEF VersionInv
  <2>8. AuthInv'
    <3> SUFFICES ASSUME NEW i \in Instance, NEW s \in Session, auth'[i][s] > 0
                 PROVE  /\ revokedFor'[s] + auth'[i][s] <= EntryWindow
                        /\ disabledFor' + auth'[i][s] <= EntryWindow
      BY DEF AuthInv
    <3>1. auth[i][s] > 0 /\ auth'[i][s] = auth[i][s] - 1 /\ auth[i][s] \in Nat
      BY <1>12 DEF Auth!Tick, Auth!TypeOK, Auth!Dec
    <3> QED BY <2>0, <2>1, <3>1 DEF AuthInv
  <2> QED BY <2>2, <2>3, <2>5, <2>6, <2>7, <2>8
<1>13. CASE UNCHANGED Auth!vars
  BY <1>13 DEF Auth!vars, WriterInv, ReaderInv, SeenInv, VersionInv, AuthInv, PendingInv
<1> QED
  BY <1>1, <1>2, <1>3, <1>4, <1>5, <1>6, <1>7, <1>8, <1>9, <1>10, <1>11, <1>12, <1>13, <1>14
     DEF Auth!Next, Auth!ValidateStep, Auth!BeginLogin, Auth!BeginRefresh, Auth!BeginRoleChange, Auth!Kind

\* An accepted request: what was it let in from.
LEMMA AcceptedInTime ==
    ASSUME SessionLimits, Auth!TypeOK, Auth!TypeOK', WindowInv, [Auth!Next]_(Auth!vars), NEW r \in Request, Auth!Accepted(r)
    PROVE  /\ token'[r] \in Session
           /\ revokedFor[token'[r]] < Auth!StaleWindow
           /\ disabledFor < Auth!DisabledWindow
<1> USE DEF WindowInv
<1>0. /\ revokedFor \in [Session -> Nat] /\ disabledFor \in Nat
      /\ age[r] \in Nat /\ age[r] <= CallLatency
  BY HorizonNat DEF Auth!TypeOK
<1>9. /\ Auth!StaleWindow \in Nat /\ MaxLag + CallLatency < Auth!StaleWindow
      /\ Auth!DisabledWindow \in Nat /\ MaxLag + CallLatency < Auth!DisabledWindow
  BY DEF Auth!StaleWindow, Auth!DisabledWindow
<1>1. ASSUME NEW q \in Request, NEW i \in Instance, NEW k \in Auth!Kind,
             NEW s \in Session, Auth!Arrive(q, i, k, s)
      PROVE  /\ token'[r] \in Session
             /\ revokedFor[token'[r]] < Auth!StaleWindow
             /\ disabledFor < Auth!DisabledWindow
  <2>1. r = q /\ outcome' # outcome /\ outcome'[r] # "rejected"
    BY <1>1 DEF Auth!Arrive, Auth!Accepted, Auth!Accept, Auth!Reject, Auth!Answer, Auth!TypeOK
  <2>2. token'[r] = s
    BY <1>1, <2>1 DEF Auth!Arrive, Auth!TypeOK
  <2>3. Auth!CacheAnswer(i, s) = "accept"
    BY <1>1, <2>1 DEF Auth!Arrive, Auth!Reject, Auth!Answer, Auth!TypeOK
  <2>4. Auth!CachedAuth(i, s) /\ Auth!CachedVersion(i) = s
    <3>1. /\ ~Auth!CachedAuth(i, s) => Auth!CacheAnswer(i, s) = "user"
          /\ Auth!CachedAuth(i, s) /\ Auth!CachedVersion(i) = NoSession => Auth!CacheAnswer(i, s) = "version"
          /\ Auth!CachedAuth(i, s) /\ Auth!CachedVersion(i) \notin {s, NoSession} => Auth!CacheAnswer(i, s) = "reject"
      BY DEF Auth!CacheAnswer
    <3> QED BY <2>3, <3>1
  <2>5. /\ auth[i][s] > 0 /\ auth[i][s] \in Nat
        /\ version[i].ttl > 0 /\ version[i].ttl \in Nat /\ version[i].session = s
    BY <2>4 DEF Auth!CachedAuth, Auth!CachedVersion, Auth!TypeOK
  <2>6. /\ revokedFor[s] + version[i].ttl <= VersionWindow
        /\ revokedFor[s] + auth[i][s] <= EntryWindow
        /\ disabledFor + auth[i][s] <= EntryWindow
    BY <2>5 DEF VersionInv, AuthInv
  <2> QED BY <1>0, <2>2, <2>5, <2>6
          DEF Auth!StaleWindow, Auth!DisabledWindow, VersionWindow, EntryWindow
<1>2. ASSUME NEW q \in Request, Auth!VersionAnswer(q) \/ Auth!UserAnswer(q) \/ Auth!VersionFails(q)
      PROVE  /\ token'[r] \in Session
             /\ revokedFor[token'[r]] < Auth!StaleWindow
             /\ disabledFor < Auth!DisabledWindow
  <2>1. r = q /\ token' = token /\ outcome'[r] # "rejected"
    BY <1>2 DEF Auth!VersionAnswer, Auth!UserAnswer, Auth!VersionFails, Auth!Accepted, Auth!Accept, Auth!Reject, Auth!Answer,
                Auth!requestVars, Auth!TypeOK
  <2>2. CASE Auth!VersionFails(q)
    <3>1. /\ token[r] \in Session
          /\ revokedFor[token[r]] < EntryWindow + age[r]
          /\ disabledFor < EntryWindow + age[r]
      BY <2>1, <2>2 DEF Auth!VersionFails, PendingInv, Auth!Reading
    <3> QED BY <1>0, <2>1, <2>2, <3>1
            DEF Auth!VersionFails, Auth!StaleWindow, Auth!DisabledWindow, EntryWindow
  <2>3. CASE Auth!VersionAnswer(q) /\ seen[q].session = token[q]
    <3>1. /\ token[r] \in Session
          /\ revokedFor[token[r]] <= MaxLag + age[r]
          /\ disabledFor < EntryWindow + age[r]
      BY <2>1, <2>3 DEF Auth!VersionAnswer, PendingInv, SeenInv, Auth!Reading
    <3> QED BY <1>0, <2>1, <3>1 DEF Auth!StaleWindow, Auth!DisabledWindow, EntryWindow
  <2>4. CASE Auth!UserAnswer(q) /\ ~seen[q].disabled /\ seen[q].session = token[q]
    <3>1. /\ token[r] \in Session
          /\ revokedFor[token[r]] <= MaxLag + age[r]
          /\ disabledFor <= MaxLag + age[r]
      BY <2>1, <2>4 DEF Auth!UserAnswer, PendingInv, SeenInv, Auth!Reading
    <3> QED BY <1>0, <1>9, <2>1, <3>1
  <2> QED BY <1>2, <2>1, <2>2, <2>3, <2>4 DEF Auth!VersionAnswer, Auth!UserAnswer, Auth!Reject, Auth!Answer, Auth!TypeOK
<1>3. ASSUME UNCHANGED outcome PROVE FALSE
  BY <1>3 DEF Auth!Accepted
<1>4. ASSUME NEW q \in Request, Auth!UserFails(q) \/ Auth!Finish(q) PROVE FALSE
  BY <1>4 DEF Auth!UserFails, Auth!Finish, Auth!Reject, Auth!Answer, Auth!Accepted, Auth!TypeOK
<1>5. ASSUME NEW i \in Instance, Auth!Restart(i) PROVE FALSE
  BY <1>5 DEF Auth!Restart, Auth!Accepted, Auth!TypeOK
<1> QED
  BY <1>1, <1>2, <1>3, <1>4, <1>5
     DEF Auth!Next, Auth!ValidateStep, Auth!SessionStep, Auth!BeginLogin, Auth!BeginRefresh, Auth!BeginRoleChange, Auth!BeginAuth,
         Auth!Read, Auth!IssueSession, Auth!RevokeSession, Auth!EvictAndAnswer, Auth!UpsertThrows,
         Auth!LogoutRead, Auth!LogoutWrite, Auth!LogoutEvict, Auth!EvictOldest, Auth!SetDisabled, Auth!ChangePassword,
         Auth!Replicate, Auth!Tick, Auth!vars

\* The bounds hold in every reachable state.
THEOREM BoundsHold ==
    ASSUME SessionLimits
    PROVE  Auth!Spec => []WindowInv
<1>1. Auth!TypeOK /\ Auth!TypeOK' /\ WindowInv /\ [Auth!Next]_(Auth!vars) => WindowInv'
  BY WindowStep
<1> QED BY <1>1, SessionTypeCorrect, WindowInit, PTL DEF Auth!Spec

\* The two properties of a step.
SupersededStep ==
    \A r \in Request : Auth!Accepted(r) => revokedFor[token'[r]] < Auth!StaleWindow
DisabledStep == \A r \in Request : Auth!Accepted(r) => disabledFor < Auth!DisabledWindow

\* A superseded session is not accepted from StaleWindow ticks after the write
\* that superseded it, by any instance, on any of the paths through validate.
THEOREM SupersededRejectedInTime ==
    ASSUME SessionLimits
    PROVE  Auth!Spec => Auth!SupersededWithinWindow
<1>1. Auth!TypeOK /\ Auth!TypeOK' /\ WindowInv /\ [Auth!Next]_(Auth!vars) => SupersededStep
  BY AcceptedInTime DEF SupersededStep
<1>2. [][SupersededStep]_(Auth!vars) <=> Auth!SupersededWithinWindow
  BY DEF SupersededStep, Auth!SupersededWithinWindow
<1> QED BY <1>1, <1>2, SessionTypeCorrect, BoundsHold, PTL DEF Auth!Spec

\* The session of a disabled account is not accepted from DisabledWindow ticks
\* after the account was disabled.
THEOREM DisabledRejectedInTime ==
    ASSUME SessionLimits
    PROVE  Auth!Spec => Auth!DisabledWithinWindow
<1>1. Auth!TypeOK /\ Auth!TypeOK' /\ WindowInv /\ [Auth!Next]_(Auth!vars) => DisabledStep
  BY AcceptedInTime DEF DisabledStep
<1>2. [][DisabledStep]_(Auth!vars) <=> Auth!DisabledWithinWindow
  BY DEF DisabledStep, Auth!DisabledWithinWindow
<1> QED BY <1>1, <1>2, SessionTypeCorrect, BoundsHold, PTL DEF Auth!Spec

=============================================================================
