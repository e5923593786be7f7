------------------------ MODULE SchedulerLock_proofs ------------------------
(* Theorems about SchedulerLock, for every set of instances, tasks and     *)
(* calls and every timing that satisfies the module's assumptions.         *)
EXTENDS SchedulerLock, TLAPS

USE InstanceAssumption, TaskAssumption, TimingAssumption

LockTable == [Task -> LockRow]

\* Every write of SchedulerDbService leaves a well-formed table.
LEMMA WritesTyped ==
    ASSUME locks \in LockTable, NEW t \in Task, NEW i \in Instance
    PROVE  /\ Upserted(t, i) \in LockTable
           /\ Extended(t, i) \in LockTable
           /\ Stamped(t, i) \in LockTable
           /\ Deleted(t, i) \in LockTable
           /\ DeletedAll(i) \in LockTable
           /\ WithoutExpired \in LockTable
<1> USE DEF LockTable, LockRow, NoLock
<1>1. Upserted(t, i) \in LockTable    BY DEF Upserted
<1>2. Extended(t, i) \in LockTable    BY DEF Extended
<1>3. Stamped(t, i) \in LockTable     BY DEF Stamped
<1>4. Deleted(t, i) \in LockTable     BY DEF Deleted
<1>5. DeletedAll(i) \in LockTable     BY DEF DeletedAll
<1>6. WithoutExpired \in LockTable    BY DEF WithoutExpired
<1> QED BY <1>1, <1>2, <1>3, <1>4, <1>5, <1>6

\* So does a write that throws after it was made, or before.
LEMMA MaybeTyped ==
    ASSUME locks \in LockTable, NEW written \in LockTable, Maybe(written)
    PROVE  locks' \in LockTable
BY DEF Maybe

\* A timer table with some timers cleared is still a timer table.
LEMMA TimersTyped ==
    ASSUME TypeOK, NEW i \in Instance, NEW t \in Task
    PROVE  /\ StartRefresh(i, t)
                \in [Instance -> [Task -> {Off} \cup 0 .. RefreshInterval]]
           /\ [refresh EXCEPT ![i][t] = Off]
                \in [Instance -> [Task -> {Off} \cup 0 .. RefreshInterval]]
           /\ [refresh EXCEPT ![i][t] = RefreshInterval]
                \in [Instance -> [Task -> {Off} \cup 0 .. RefreshInterval]]
           /\ [refresh EXCEPT ![i] = [u \in Task |-> Off]]
                \in [Instance -> [Task -> {Off} \cup 0 .. RefreshInterval]]
BY DEF TypeOK, StartRefresh, Off

\* Every variable keeps its type: the countdowns stay within the timeouts and
\* the rows, timers and calls refer to known instances and tasks.
THEOREM TypeCorrect == Spec => []TypeOK
<1>1. Init => TypeOK
  BY DEF Init, TypeOK, NoLock, LockRow, Off, Step, Status, LogStatus, Outcome
<1>2. TypeOK /\ [Next]_vars => TypeOK'
  <2> SUFFICES ASSUME TypeOK, [Next]_vars PROVE TypeOK'
    OBVIOUS
  <2> DEFINE Others ==
        /\ replica' \in [Task -> Instance \cup {NoInstance}]
        /\ status' \in [Instance -> Status]
        /\ refresh' \in [Instance -> [Task -> {Off} \cup 0 .. RefreshInterval]]
        /\ pc' \in [Run -> Step]
        /\ at' \in [Run -> Instance]
        /\ job' \in [Run -> Task]
        /\ wait' \in [Run -> 0 .. VerifyLatency]
        /\ log' \in [Run -> LogStatus]
        /\ outcome' \in [Run -> Outcome]
  <2>0. locks \in LockTable /\ (locks' = locks => locks' \in LockTable)
    BY DEF TypeOK, LockTable
  <2>1. ASSUME NEW r \in Run, NEW i \in Instance, NEW t \in Task, Begin(r, i, t)
        PROVE locks' \in LockTable /\ Others
    BY <2>0, <2>1 DEF Begin, TypeOK, Step, LogStatus, Outcome, Goto, Return
  <2>2. ASSUME NEW r \in Run, RunStep(r) PROVE locks' \in LockTable /\ Others
    <3> at[r] \in Instance /\ job[r] \in Task
      BY DEF TypeOK
    <3>1. locks' \in LockTable
      <4>1. CASE locks' = locks
        BY <2>0, <4>1
      <4>2. CASE locks' = Upserted(job[r], at[r])
        BY <2>0, <4>2, WritesTyped
      <4>3. CASE locks' = Stamped(job[r], at[r])
        BY <2>0, <4>3, WritesTyped
      <4>4. CASE locks' = Deleted(job[r], at[r])
        BY <2>0, <4>4, WritesTyped
      <4>5. CASE locks' = WithoutExpired
        BY <2>0, <4>5, WritesTyped
      <4> QED
        BY <2>2, <4>1, <4>2, <4>3, <4>4, <4>5
        DEF RunStep, UpsertLock, UpsertLockFails, VerifyHeld, VerifyRefused,
            VerifyFails, CreateLog, CreateLogFails, Work, WorkFails,
            StampLastRun, LogSuccess, LogSuccessFails, LogFailure,
            LogFailureFails, Release, Maybe
    <3>2. Others
      <4> USE DEF TypeOK, Step, Status, LogStatus, Outcome, Goto, Return,
                  runVars
      <4>1. CASE UpsertLock(r)      BY <4>1 DEF UpsertLock
      <4>2. CASE UpsertLockFails(r) BY <4>2 DEF UpsertLockFails
      <4>3. CASE VerifyHeld(r)      BY <4>3, TimersTyped DEF VerifyHeld
      <4>4. CASE VerifyRefused(r)   BY <4>4 DEF VerifyRefused
      <4>5. CASE VerifyFails(r)     BY <4>5 DEF VerifyFails
      <4>6. CASE CreateLog(r)       BY <4>6 DEF CreateLog
      <4>7. CASE CreateLogFails(r)  BY <4>7 DEF CreateLogFails
      <4>8. CASE Work(r)            BY <4>8 DEF Work
      <4>9. CASE WorkFails(r)       BY <4>9 DEF WorkFails
      <4>10. CASE StampLastRun(r)   BY <4>10 DEF StampLastRun
      <4>11. CASE LogSuccess(r)     BY <4>11 DEF LogSuccess
      <4>12. CASE LogSuccessFails(r) BY <4>12 DEF LogSuccessFails
      <4>13. CASE LogFailure(r)     BY <4>13 DEF LogFailure
      <4>14. CASE LogFailureFails(r)
        <5>1. PICK entry \in {log[r], "failed"} : log' = [log EXCEPT ![r] = entry]
          BY <4>14 DEF LogFailureFails
        <5>2. log' \in [Run -> LogStatus]
          BY <5>1
        <5> QED BY <4>14, <5>2 DEF LogFailureFails
      <4>15. CASE Release(r)        BY <4>15, TimersTyped DEF Release
      <4> QED BY <2>2, <4>1, <4>2, <4>3, <4>4, <4>5, <4>6, <4>7, <4>8, <4>9,
                 <4>10, <4>11, <4>12, <4>13, <4>14, <4>15 DEF RunStep
    <3> QED BY <3>1, <3>2
  <2>3. ASSUME NEW i \in Instance, NEW t \in Task, RefreshStep(i, t)
        PROVE locks' \in LockTable /\ Others
    <3>1. locks' \in LockTable
      BY <2>0, <2>3, WritesTyped
      DEF RefreshStep, RefreshLock, RefreshLockFails, Maybe
    <3>2. Others
      <4> USE TimersTyped DEF TypeOK, runVars
      <4>1. CASE RefreshLock(i, t)      BY <4>1 DEF RefreshLock
      <4>2. CASE RefreshLockFails(i, t) BY <4>2 DEF RefreshLockFails
      <4> QED BY <2>3, <4>1, <4>2 DEF RefreshStep
    <3> QED BY <3>1, <3>2
  <2>4. ASSUME NEW i \in Instance,
               CleanupExpiredLocks(i) \/ Stop(i) \/ ReleaseAllLocks(i)
                 \/ Exit(i) \/ Restart(i)
        PROVE locks' \in LockTable /\ Others
    <3>1. locks' \in LockTable
      BY <2>0, <2>4, WritesTyped, TaskAssumption
      DEF CleanupExpiredLocks, Stop, ReleaseAllLocks, Exit, Restart, Maybe
    <3>2. Others
      <4> USE TimersTyped, TaskAssumption DEF TypeOK, runVars, Status, Step
      <4>1. CASE CleanupExpiredLocks(i) BY <4>1 DEF CleanupExpiredLocks
      <4>2. CASE Stop(i)                BY <4>2 DEF Stop
      <4>3. CASE ReleaseAllLocks(i)     BY <4>3 DEF ReleaseAllLocks
      <4>4. CASE Exit(i)                BY <4>4 DEF Exit
      <4>5. CASE Restart(i)             BY <4>5 DEF Restart
      <4> QED BY <2>4, <4>1, <4>2, <4>3, <4>4, <4>5
    <3> QED BY <3>1, <3>2
  <2>5. ASSUME NEW t \in Task, Replicate(t)
        PROVE locks' \in LockTable /\ Others
    BY <2>0, <2>5 DEF Replicate, TypeOK, runVars, LockRow
  <2>6. CASE Tick
    <3>1. locks' \in LockTable
      <4>1. \A t \in Task : [locks[t] EXCEPT !.ttl = Dec(@)] \in LockRow
        BY <2>0 DEF Dec, LockTable, LockRow
      <4> QED BY <2>6, <4>1 DEF Tick, LockTable
    <3>2. Others
      BY <2>6 DEF Tick, Dec, TypeOK, runVars, Off
    <3> QED BY <3>1, <3>2 DEF TypeOK, LockTable
  <2>7. CASE UNCHANGED vars
    BY <2>7 DEF vars, TypeOK
  <2> QED
    BY <2>1, <2>2, <2>3, <2>4, <2>5, <2>6, <2>7 DEF Next, TypeOK, LockTable
<1> QED BY <1>1, <1>2, PTL DEF Spec

----------------------------------------------------------------------------
(* A refreshed lease is never expired.                                     *)

\* The inductive form: a timer that runs is shorter than what is left of the
\* lease, and a call that waits for verifyLock still has the whole lease but
\* for the time it has waited.
LeaseInv ==
    /\ \A i \in Instance, t \in Task :
          refresh[i][t] # Off /\ locks[t].locked_by = i =>
              locks[t].ttl > refresh[i][t]
    /\ \A r \in Run :
          pc[r] = "verify" /\ locks[job[r]].locked_by = at[r] =>
              locks[job[r]].ttl + VerifyLatency >= LockTimeout + wait[r]

\* The invariant implies the property.
LEMMA LeaseInvImplies == TypeOK /\ LeaseInv => RefreshedLeaseLive
BY DEF TypeOK, LeaseInv, RefreshedLeaseLive, Expired, LockRow, Off

\* At first there is neither a lock nor a timer.
LEMMA LeaseInvInit == Init => LeaseInv
BY DEF Init, LeaseInv, NoLock

\* Deleting or stamping rows never shortens a lease that still has a holder.
LEMMA RowsKept ==
    ASSUME TypeOK, NEW t \in Task, NEW i \in Instance, NEW u \in Task
    PROVE  /\ \A table \in {Deleted(t, i), DeletedAll(i), WithoutExpired,
                            Stamped(t, i)} :
                 table[u].locked_by = NoInstance
                   \/ (/\ table[u].locked_by = locks[u].locked_by
                       /\ table[u].ttl = locks[u].ttl)
           /\ \A table \in {Upserted(t, i), Extended(t, i)} :
                 \/ table[u].locked_by = locks[u].locked_by
                      /\ table[u].ttl = locks[u].ttl
                 \/ u = t /\ table[u].locked_by = i /\ table[u].ttl = LockTimeout
<1> USE DEF TypeOK, LockRow, NoLock
<1>1. Deleted(t, i)[u].locked_by = NoInstance
        \/ (/\ Deleted(t, i)[u].locked_by = locks[u].locked_by
            /\ Deleted(t, i)[u].ttl = locks[u].ttl)
  BY DEF Deleted
<1>2. DeletedAll(i)[u].locked_by = NoInstance
        \/ (/\ DeletedAll(i)[u].locked_by = locks[u].locked_by
            /\ DeletedAll(i)[u].ttl = locks[u].ttl)
  BY DEF DeletedAll
<1>3. WithoutExpired[u].locked_by = NoInstance
        \/ (/\ WithoutExpired[u].locked_by = locks[u].locked_by
            /\ WithoutExpired[u].ttl = locks[u].ttl)
  BY DEF WithoutExpired
<1>4. /\ Stamped(t, i)[u].locked_by = locks[u].locked_by
      /\ Stamped(t, i)[u].ttl = locks[u].ttl
  BY DEF Stamped
<1>5. \/ Upserted(t, i)[u] = locks[u]
      \/ /\ u = t
         /\ Upserted(t, i)[u].locked_by = i
         /\ Upserted(t, i)[u].ttl = LockTimeout
  BY DEF Upserted
<1>6. \/ Extended(t, i)[u] = locks[u]
      \/ /\ u = t
         /\ Extended(t, i)[u].locked_by = i
         /\ Extended(t, i)[u].ttl = LockTimeout
  BY DEF Extended
<1> QED BY <1>1, <1>2, <1>3, <1>4, <1>5, <1>6

\* A step under which each row loses its holder, keeps its lease or gets a
\* whole one, and no timer or wait grows, keeps the invariant.
LEMMA LeaseKept ==
    ASSUME TypeOK, TypeOK', LeaseInv,
           \A u \in Task :
              \/ locks'[u].locked_by = NoInstance
              \/ /\ locks'[u].locked_by = locks[u].locked_by
                 /\ locks'[u].ttl = locks[u].ttl
              \/ locks'[u].ttl = LockTimeout,
           \A i \in Instance, u \in Task :
              \/ refresh'[i][u] \in {refresh[i][u], Off}
              \/ locks'[u].locked_by = i => locks'[u].ttl > RefreshInterval,
           \A r \in Run :
              pc'[r] = "verify" =>
                 \/ /\ pc[r] = "verify"
                    /\ at'[r] = at[r]
                    /\ job'[r] = job[r]
                    /\ wait'[r] = wait[r]
                 \/ locks'[job'[r]].ttl = LockTimeout
    PROVE  LeaseInv'
<1>1. ASSUME NEW i \in Instance, NEW t \in Task,
             refresh'[i][t] # Off, locks'[t].locked_by = i
      PROVE locks'[t].ttl > refresh'[i][t]
  <2> /\ refresh'[i][t] \in 0 .. RefreshInterval
      /\ i # NoInstance
    BY <1>1, InstanceAssumption DEF TypeOK
  <2>1. CASE locks'[t].ttl = LockTimeout
    BY <2>1, TimingAssumption
  <2>2. CASE locks'[t].ttl # LockTimeout
    <3>1. /\ locks'[t].locked_by = locks[t].locked_by
          /\ locks'[t].ttl = locks[t].ttl
      BY <1>1, <2>2
    <3>2. CASE refresh'[i][t] = refresh[i][t]
      BY <1>1, <3>1, <3>2 DEF LeaseInv
    <3>3. CASE locks'[t].ttl > RefreshInterval
      BY <3>1, <3>3, TimingAssumption DEF TypeOK, LockRow
    <3> QED BY <1>1, <3>2, <3>3
  <2> QED BY <2>1, <2>2
<1>2. ASSUME NEW r \in Run, pc'[r] = "verify",
             locks'[job'[r]].locked_by = at'[r]
      PROVE locks'[job'[r]].ttl + VerifyLatency >= LockTimeout + wait'[r]
  <2> /\ job'[r] \in Task
      /\ at'[r] \in Instance
      /\ at'[r] # NoInstance
      /\ wait'[r] \in 0 .. VerifyLatency
    BY InstanceAssumption DEF TypeOK
  <2>1. CASE locks'[job'[r]].ttl = LockTimeout
    BY <2>1, TimingAssumption
  <2>2. CASE locks'[job'[r]].ttl # LockTimeout
    <3>1. /\ pc[r] = "verify"
          /\ at'[r] = at[r]
          /\ job'[r] = job[r]
          /\ wait'[r] = wait[r]
      BY <1>2, <2>2
    <3>2. /\ locks'[job[r]].locked_by = locks[job[r]].locked_by
          /\ locks'[job[r]].ttl = locks[job[r]].ttl
      BY <1>2, <2>2, <3>1
    <3> QED BY <1>2, <3>1, <3>2 DEF LeaseInv
  <2> QED BY <2>1, <2>2
<1> QED BY <1>1, <1>2 DEF LeaseInv

\* Clearing a timer, or all timers of an instance, changes no other timer.
LEMMA TimersCleared ==
    ASSUME TypeOK, NEW i \in Instance, NEW t \in Task,
           NEW j \in Instance, NEW u \in Task
    PROVE  /\ [refresh EXCEPT ![i][t] = Off][j][u] \in {refresh[j][u], Off}
           /\ [refresh EXCEPT ![i] = [v \in Task |-> Off]][j][u]
                \in {refresh[j][u], Off}
<1> DOMAIN refresh = Instance /\ DOMAIN refresh[i] = Task
  BY DEF TypeOK
<1>1. CASE j = i  BY <1>1
<1>2. CASE j # i  BY <1>2
<1> QED BY <1>1, <1>2

\* Each step of the specification keeps the invariant: the clock shortens
\* timers, waits and leases together, and every other step is an instance of
\* LeaseKept.
LEMMA LeaseInvStep ==
    ASSUME TypeOK, TypeOK', LeaseInv, [Next]_vars
    PROVE  LeaseInv'
<1>1. CASE Tick
  <2>1. ASSUME NEW i \in Instance, NEW t \in Task,
               refresh'[i][t] # Off, locks'[t].locked_by = i
        PROVE locks'[t].ttl > refresh'[i][t]
    <3>1. /\ locks'[t] = [locks[t] EXCEPT !.ttl = Dec(locks[t].ttl)]
          /\ refresh'[i][t] = Dec(refresh[i][t])
          /\ refresh[i][t] # 0
      BY <1>1 DEF Tick
    <3>2. /\ locks'[t].locked_by = locks[t].locked_by
          /\ locks'[t].ttl = Dec(locks[t].ttl)
      BY <3>1 DEF TypeOK, LockRow
    <3>3. /\ refresh[i][t] \in {Off} \cup 0 .. RefreshInterval
          /\ locks[t].ttl \in Nat
      BY TimingAssumption DEF TypeOK, LockRow
    <3>4. refresh[i][t] # Off
      BY <2>1, <3>1 DEF Dec, Off
    <3>5. locks[t].ttl > refresh[i][t]
      BY <2>1, <3>2, <3>4 DEF LeaseInv
    <3> QED BY <3>1, <3>2, <3>3, <3>4, <3>5, TimingAssumption DEF Dec
  <2>2. ASSUME NEW r \in Run, pc'[r] = "verify",
               locks'[job'[r]].locked_by = at'[r]
        PROVE locks'[job'[r]].ttl + VerifyLatency >= LockTimeout + wait'[r]
    <3>1. /\ pc[r] = "verify"
          /\ at'[r] = at[r]
          /\ job'[r] = job[r]
          /\ job[r] \in Task
          /\ wait[r] \in 1 .. VerifyLatency
      BY <1>1, <2>2, TimingAssumption DEF Tick, TypeOK, runVars
    <3>2. /\ wait'[r] = wait[r] - 1
          /\ locks'[job[r]] = [locks[job[r]] EXCEPT !.ttl = Dec(locks[job[r]].ttl)]
      BY <1>1, <3>1 DEF Tick, Dec
    <3>3. /\ locks'[job[r]].locked_by = locks[job[r]].locked_by
          /\ locks'[job[r]].ttl = Dec(locks[job[r]].ttl)
          /\ locks[job[r]].ttl \in Nat
      BY <3>1, <3>2, TimingAssumption DEF TypeOK, LockRow
    <3>4. locks[job[r]].ttl + VerifyLatency >= LockTimeout + wait[r]
      BY <2>2, <3>1, <3>3 DEF LeaseInv
    <3> QED BY <3>1, <3>2, <3>3, <3>4, TimingAssumption DEF Dec
  <2> QED BY <2>1, <2>2 DEF LeaseInv
<1>2. ASSUME NEW r \in Run, NEW i \in Instance, NEW t \in Task, Begin(r, i, t)
      PROVE LeaseInv'
  BY <1>2, LeaseKept DEF Begin, Goto, TypeOK
<1>3. ASSUME NEW r \in Run, RunStep(r) PROVE LeaseInv'
  <2> /\ at[r] \in Instance
      /\ job[r] \in Task
    BY DEF TypeOK
  <2>1. CASE UpsertLock(r)
    <3>1. locks'[job[r]].ttl = LockTimeout
      BY <2>1 DEF UpsertLock, Upserted, TypeOK
    <3>2. \A u \in Task : u # job[r] => locks'[u] = locks[u]
      BY <2>1 DEF UpsertLock, Upserted, TypeOK
    <3>3. \A q \in Run : q # r => pc'[q] = pc[q] /\ wait'[q] = wait[q]
      BY <2>1 DEF UpsertLock, Goto, TypeOK
    <3> QED BY <2>1, <3>1, <3>2, <3>3, LeaseKept DEF UpsertLock, runVars
  <2>2. CASE VerifyHeld(r)
    <3>1. /\ locks' = locks
          /\ \A q \in Run : q # r => pc'[q] = pc[q] /\ wait'[q] = wait[q]
          /\ pc'[r] # "verify"
      BY <2>2 DEF VerifyHeld, Goto, TypeOK
    <3>2. locks[job[r]].locked_by = at[r] =>
              locks[job[r]].ttl > RefreshInterval
      BY <2>2, TimingAssumption DEF VerifyHeld, LeaseInv, TypeOK, LockRow
    <3>3. \A i \in Instance, u \in Task :
             \/ refresh'[i][u] = refresh[i][u]
             \/ i = at[r] /\ u = job[r]
      BY <2>2 DEF VerifyHeld, StartRefresh, TypeOK
    <3> QED BY <2>2, <3>1, <3>2, <3>3, LeaseKept DEF VerifyHeld, runVars
  <2>3. CASE UpsertLockFails(r)
    <3>1. \A u \in Task : locks'[u] = locks[u] \/ locks'[u].ttl = LockTimeout
      BY <2>3 DEF UpsertLockFails, Upserted, Maybe, TypeOK
    <3>2. \A q \in Run : pc'[q] = "verify" => pc[q] = "verify"
      BY <2>3 DEF UpsertLockFails, Goto, TypeOK
    <3> QED BY <2>3, <3>1, <3>2, LeaseKept DEF UpsertLockFails, runVars
  <2>4. CASE ~(UpsertLock(r) \/ VerifyHeld(r) \/ UpsertLockFails(r))
    <3>1. \A q \in Run :
             pc'[q] = "verify" =>
                 pc[q] = "verify" /\ wait'[q] = wait[q]
      BY <1>3, <2>4
      DEF RunStep, VerifyRefused, VerifyFails, CreateLog, CreateLogFails, Work,
          WorkFails, StampLastRun, LogSuccess, LogSuccessFails, LogFailure,
          LogFailureFails, Release, Goto, TypeOK
    <3>2. \A u \in Task :
             \/ locks'[u].locked_by = NoInstance
             \/ /\ locks'[u].locked_by = locks[u].locked_by
                /\ locks'[u].ttl = locks[u].ttl
      <4>1. locks' \in {locks, Deleted(job[r], at[r]), WithoutExpired,
                        Stamped(job[r], at[r])}
        BY <1>3, <2>4
        DEF RunStep, VerifyRefused, VerifyFails, CreateLog, CreateLogFails,
            Work, WorkFails, StampLastRun, LogSuccess, LogSuccessFails,
            LogFailure, LogFailureFails, Release, Maybe
      <4> QED BY <4>1, RowsKept
    <3>3. \A i \in Instance, u \in Task :
             refresh'[i][u] \in {refresh[i][u], Off}
      <4>1. \/ refresh' = refresh
            \/ refresh' = [refresh EXCEPT ![at[r]][job[r]] = Off]
        BY <1>3, <2>4
        DEF RunStep, VerifyRefused, VerifyFails, CreateLog, CreateLogFails,
            Work, WorkFails, StampLastRun, LogSuccess, LogSuccessFails,
            LogFailure, LogFailureFails, Release
      <4> SUFFICES ASSUME NEW i \in Instance, NEW u \in Task
                   PROVE refresh'[i][u] \in {refresh[i][u], Off}
        OBVIOUS
      <4>2. [refresh EXCEPT ![at[r]][job[r]] = Off][i][u]
                \in {refresh[i][u], Off}
        BY TimersCleared
      <4> QED BY <4>1, <4>2
    <3>4. at' = at /\ job' = job
      BY <1>3, <2>4
      DEF RunStep, VerifyRefused, VerifyFails, CreateLog, CreateLogFails, Work,
          WorkFails, StampLastRun, LogSuccess, LogSuccessFails, LogFailure,
          LogFailureFails, Release, runVars
    <3> QED BY <3>1, <3>2, <3>3, <3>4, LeaseKept
  <2> QED BY <2>1, <2>2, <2>3, <2>4
<1>4. ASSUME NEW i \in Instance, NEW t \in Task, RefreshStep(i, t)
      PROVE LeaseInv'
  <2>1. \A u \in Task :
           \/ locks'[u].locked_by = locks[u].locked_by
                /\ locks'[u].ttl = locks[u].ttl
           \/ u = t /\ locks'[u].ttl = LockTimeout
    BY <1>4, RowsKept DEF RefreshStep, RefreshLock, RefreshLockFails, Maybe
  <2>2. \A j \in Instance, u \in Task :
           \/ refresh'[j][u] \in {refresh[j][u], Off}
           \/ j = i /\ u = t /\ RefreshLock(i, t)
    BY <1>4 DEF RefreshStep, RefreshLock, RefreshLockFails, TypeOK
  <2>3. RefreshLock(i, t) /\ locks'[t].locked_by = i =>
            locks'[t].ttl > RefreshInterval
    BY TimingAssumption DEF RefreshLock, Extended, TypeOK, LockRow
  <2>4. UNCHANGED <<pc, at, job, wait>>
    BY <1>4 DEF RefreshStep, RefreshLock, RefreshLockFails, runVars
  <2> QED BY <2>1, <2>2, <2>3, <2>4, LeaseKept
<1>5. ASSUME NEW i \in Instance,
             CleanupExpiredLocks(i) \/ Stop(i) \/ ReleaseAllLocks(i)
               \/ Exit(i) \/ Restart(i)
      PROVE LeaseInv'
  <2>1. \A u \in Task :
           \/ locks'[u].locked_by = NoInstance
           \/ /\ locks'[u].locked_by = locks[u].locked_by
              /\ locks'[u].ttl = locks[u].ttl
    <3>1. locks' \in {locks, WithoutExpired, DeletedAll(i)}
      BY <1>5
      DEF CleanupExpiredLocks, Stop, ReleaseAllLocks, Exit, Restart, Maybe
    <3> QED BY <3>1, RowsKept
  <2>2. \A j \in Instance, u \in Task :
           refresh'[j][u] \in {refresh[j][u], Off}
    <3>1. \/ refresh' = refresh
          \/ refresh' = [refresh EXCEPT ![i] = [u \in Task |-> Off]]
      BY <1>5
      DEF CleanupExpiredLocks, Stop, ReleaseAllLocks, Exit, Restart
    <3> QED BY <3>1, TimersCleared
  <2>3. /\ at' = at /\ job' = job
        /\ \A q \in Run :
              pc'[q] = "verify" => pc[q] = "verify" /\ wait'[q] = wait[q]
    BY <1>5
    DEF CleanupExpiredLocks, Stop, ReleaseAllLocks, Exit, Restart, TypeOK,
        runVars
  <2> QED BY <2>1, <2>2, <2>3, LeaseKept
<1>6. CASE (\E t \in Task : Replicate(t)) \/ UNCHANGED vars
  BY <1>6, LeaseKept DEF Replicate, vars, runVars
<1> QED BY <1>1, <1>2, <1>3, <1>4, <1>5, <1>6 DEF Next

\* A lock its holder still refreshes is never taken for an expired one, for
\* any number of instances, tasks and concurrent calls, whenever the timeout
\* exceeds the refresh interval plus the time verifyLock may take.
THEOREM RefreshedLeaseStaysLive == Spec => []RefreshedLeaseLive
<1>1. TypeOK /\ TypeOK' /\ LeaseInv /\ [Next]_vars => LeaseInv'
  BY LeaseInvStep
<1> QED
  BY <1>1, LeaseInvInit, LeaseInvImplies, TypeCorrect, PTL DEF Spec

----------------------------------------------------------------------------
(* Timers belong to calls in progress.                                     *)

HolderOf(r, i, t) == pc[r] \in Holding /\ at[r] = i /\ job[r] = t

\* A step that starts no timer, and drops a call from its holding steps only
\* together with the timer of its task on its instance, keeps NoLeakedRefresh.
LEMMA TimersKept ==
    ASSUME TypeOK, NoLeakedRefresh,
           \A i \in Instance, t \in Task :
              refresh'[i][t] # Off => refresh[i][t] # Off,
           \A r \in Run :
              pc[r] \in Holding =>
                 \/ pc'[r] \in Holding /\ at'[r] = at[r] /\ job'[r] = job[r]
                 \/ refresh'[at[r]][job[r]] = Off
    PROVE  NoLeakedRefresh'
<1> SUFFICES ASSUME NEW i \in Instance, NEW t \in Task, refresh'[i][t] # Off
             PROVE \E r \in Run : HolderOf(r, i, t)'
  BY DEF NoLeakedRefresh, HolderOf
<1>1. PICK r \in Run : HolderOf(r, i, t)
  BY DEF NoLeakedRefresh, HolderOf
<1> QED BY <1>1 DEF HolderOf

\* No refresh timer outlives the calls of its task on its instance.
THEOREM TimersBelongToCalls == Spec => []NoLeakedRefresh
<1>1. Init => NoLeakedRefresh
  BY DEF Init, NoLeakedRefresh
<1>2. TypeOK /\ TypeOK' /\ NoLeakedRefresh /\ [Next]_vars => NoLeakedRefresh'
  <2> SUFFICES ASSUME TypeOK, TypeOK', NoLeakedRefresh, [Next]_vars
               PROVE NoLeakedRefresh'
    OBVIOUS
  <2>1. ASSUME NEW r \in Run, NEW i \in Instance, NEW t \in Task, Begin(r, i, t)
        PROVE NoLeakedRefresh'
    BY <2>1, TimersKept DEF Begin, Goto, Holding, TypeOK
  <2>2. ASSUME NEW r \in Run, RunStep(r) PROVE NoLeakedRefresh'
    <3> /\ at[r] \in Instance
        /\ job[r] \in Task
        /\ DOMAIN refresh = Instance
        /\ DOMAIN refresh[at[r]] = Task
      BY DEF TypeOK
    <3>1. CASE VerifyHeld(r)
      <4> SUFFICES ASSUME NEW i \in Instance, NEW t \in Task,
                          refresh'[i][t] # Off
                   PROVE \E q \in Run : HolderOf(q, i, t)'
        BY DEF NoLeakedRefresh, HolderOf
      <4>1. pc'[r] \in Holding /\ at'[r] = at[r] /\ job'[r] = job[r]
        BY <3>1 DEF VerifyHeld, Goto, Holding, TypeOK, runVars
      <4>2. CASE i = at[r] /\ t = job[r]
        BY <4>1, <4>2 DEF HolderOf
      <4>3. CASE ~(i = at[r] /\ t = job[r])
        <5>1. refresh'[i][t] = refresh[i][t]
          BY <3>1, <4>3 DEF VerifyHeld, StartRefresh
        <5>2. PICK q \in Run : HolderOf(q, i, t)
          BY <5>1 DEF NoLeakedRefresh, HolderOf
        <5>3. q # r
          BY <3>1, <5>2 DEF VerifyHeld, HolderOf, Holding
        <5>4. pc'[q] = pc[q] /\ at' = at /\ job' = job
          BY <3>1, <5>3 DEF VerifyHeld, Goto, TypeOK, runVars
        <5>5. HolderOf(q, i, t)'
          BY <5>2, <5>4 DEF HolderOf
        <5> QED BY <5>5
      <4> QED BY <4>2, <4>3
    <3>2. CASE Release(r)
      <4>1. \A i \in Instance, t \in Task :
               refresh'[i][t] # Off => refresh[i][t] # Off
        <5> SUFFICES ASSUME NEW i \in Instance, NEW t \in Task
                     PROVE refresh'[i][t] \in {refresh[i][t], Off}
          OBVIOUS
        <5> QED BY <3>2, TimersCleared DEF Release
      <4>2. refresh'[at[r]][job[r]] = Off
        BY <3>2 DEF Release
      <4>3. \A q \in Run : q # r => pc'[q] = pc[q]
        BY <3>2 DEF Release, Goto, TypeOK
      <4> QED BY <3>2, <4>1, <4>2, <4>3, TimersKept DEF Release, runVars
    <3>3. CASE ~(VerifyHeld(r) \/ Release(r))
      <4>1. refresh' = refresh /\ at' = at /\ job' = job
        BY <2>2, <3>3
        DEF RunStep, UpsertLock, UpsertLockFails, VerifyRefused, VerifyFails,
            CreateLog, CreateLogFails, Work, WorkFails, StampLastRun,
            LogSuccess, LogSuccessFails, LogFailure, LogFailureFails, runVars
      <4>2. \A q \in Run : pc[q] \in Holding => pc'[q] \in Holding
        BY <2>2, <3>3
        DEF RunStep, UpsertLock, UpsertLockFails, VerifyRefused, VerifyFails,
            CreateLog, CreateLogFails, Work, WorkFails, StampLastRun,
            LogSuccess, LogSuccessFails, LogFailure, LogFailureFails, Goto,
            Holding, TypeOK
      <4> QED BY <4>1, <4>2, TimersKept
    <3> QED BY <3>1, <3>2, <3>3
  <2>3. ASSUME NEW i \in Instance, NEW t \in Task, RefreshStep(i, t)
        PROVE NoLeakedRefresh'
    <3>1. refresh[i][t] # Off
      BY <2>3 DEF RefreshStep, RefreshLock, RefreshLockFails, Off
    <3>2. \A j \in Instance, u \in Task :
             (j = i /\ u = t) \/ refresh'[j][u] = refresh[j][u]
      BY <2>3 DEF RefreshStep, RefreshLock, RefreshLockFails, TypeOK
    <3> QED
      BY <2>3, <3>1, <3>2, TimersKept
      DEF RefreshStep, RefreshLock, RefreshLockFails, runVars
  <2>4. ASSUME NEW i \in Instance, Exit(i) \/ Stop(i)
        PROVE NoLeakedRefresh'
    <3>1. \A t \in Task : refresh'[i][t] = Off
      BY <2>4 DEF Exit, Stop, TypeOK
    <3>2. \A j \in Instance : j # i => refresh'[j] = refresh[j]
      BY <2>4 DEF Exit, Stop, TypeOK
    <3>3. /\ \A r \in Run : at[r] # i => pc'[r] = pc[r]
          /\ at' = at /\ job' = job
          /\ \A r \in Run : at[r] \in Instance /\ job[r] \in Task
      BY <2>4 DEF Exit, Stop, TypeOK, runVars
    <3>4. \A j \in Instance, t \in Task :
             refresh'[j][t] # Off => refresh[j][t] # Off
      BY <3>1, <3>2
    <3> QED BY <3>1, <3>3, <3>4, TimersKept
  <2>5. ASSUME NEW i \in Instance,
               CleanupExpiredLocks(i) \/ ReleaseAllLocks(i) \/ Restart(i)
        PROVE NoLeakedRefresh'
    BY <2>5, TimersKept
    DEF CleanupExpiredLocks, ReleaseAllLocks, Restart, runVars
  <2>6. CASE Tick
    <3>1. \A j \in Instance, t \in Task :
             refresh'[j][t] # Off => refresh[j][t] # Off
      BY <2>6 DEF Tick, Dec, Off
    <3> QED BY <2>6, <3>1, TimersKept DEF Tick, runVars
  <2>7. CASE (\E t \in Task : Replicate(t)) \/ UNCHANGED vars
    BY <2>7, TimersKept DEF Replicate, vars, runVars
  <2> QED BY <2>1, <2>2, <2>3, <2>4, <2>5, <2>6, <2>7 DEF Next
<1> QED BY <1>1, <1>2, TypeCorrect, PTL DEF Spec

----------------------------------------------------------------------------
(* The answer of a call and its log agree.                                 *)

\* The inductive form: a call that has not returned has promised nothing, and
\* has no log before createLog.
OutcomeInv ==
    \A r \in Run :
        /\ outcome[r] = "success" => log[r] = "success"
        /\ outcome[r] = "failure" => log[r] # "success"
        /\ outcome[r] = "refused" => log[r] = "none"
        /\ pc[r] \in {"acquire", "verify", "createLog"} => log[r] = "none"
        /\ pc[r] \notin {"idle", "release"} => outcome[r] = "none"

\* What executeTask answers agrees with the status of the log it wrote,
\* whichever database call fails and whenever the process ends.
THEOREM AnswersAgreeWithLogs == Spec => []OutcomeMatchesLog
<1>1. Init => OutcomeInv
  BY DEF Init, OutcomeInv
<1>2. TypeOK /\ OutcomeInv /\ [Next]_vars => OutcomeInv'
  <2> SUFFICES ASSUME TypeOK, OutcomeInv, [Next]_vars PROVE OutcomeInv'
    OBVIOUS
  <2>1. ASSUME NEW r \in Run, NEW i \in Instance, NEW t \in Task, Begin(r, i, t)
        PROVE OutcomeInv'
    BY <2>1 DEF Begin, Goto, Return, TypeOK, OutcomeInv
  <2>2. ASSUME NEW r \in Run, RunStep(r) PROVE OutcomeInv'
    <3> USE DEF TypeOK, OutcomeInv, Goto, Return, runVars
    <3>1. CASE UpsertLock(r)       BY <3>1 DEF UpsertLock
    <3>2. CASE UpsertLockFails(r)  BY <3>2 DEF UpsertLockFails
    <3>3. CASE VerifyHeld(r)       BY <3>3 DEF VerifyHeld
    <3>4. CASE VerifyRefused(r)    BY <3>4 DEF VerifyRefused
    <3>5. CASE VerifyFails(r)      BY <3>5 DEF VerifyFails
    <3>6. CASE CreateLog(r)        BY <3>6 DEF CreateLog
    <3>7. CASE CreateLogFails(r)   BY <3>7 DEF CreateLogFails
    <3>8. CASE Work(r)             BY <3>8 DEF Work
    <3>9. CASE WorkFails(r)        BY <3>9 DEF WorkFails
    <3>10. CASE StampLastRun(r)    BY <3>10 DEF StampLastRun
    <3>11. CASE LogSuccess(r)      BY <3>11 DEF LogSuccess
    <3>12. CASE LogSuccessFails(r) BY <3>12 DEF LogSuccessFails
    <3>13. CASE LogFailure(r)      BY <3>13 DEF LogFailure
    <3>14. CASE LogFailureFails(r) BY <3>14 DEF LogFailureFails
    <3>15. CASE Release(r)         BY <3>15 DEF Release
    <3> QED BY <2>2, <3>1, <3>2, <3>3, <3>4, <3>5, <3>6, <3>7, <3>8, <3>9,
               <3>10, <3>11, <3>12, <3>13, <3>14, <3>15 DEF RunStep
  <2>3. ASSUME NEW i \in Instance, Exit(i) PROVE OutcomeInv'
    BY <2>3 DEF Exit, OutcomeInv, TypeOK, runVars
  <2>4. ASSUME UNCHANGED <<pc, log, outcome>> PROVE OutcomeInv'
    BY <2>4 DEF OutcomeInv
  <2> QED
    BY <2>1, <2>2, <2>3, <2>4
    DEF Next, RefreshStep, RefreshLock, RefreshLockFails, CleanupExpiredLocks,
        Stop, ReleaseAllLocks, Restart, Replicate, Tick, vars, runVars
<1>3. OutcomeInv => OutcomeMatchesLog
  BY DEF OutcomeInv, OutcomeMatchesLog
<1> QED BY <1>1, <1>2, <1>3, TypeCorrect, PTL DEF Spec

----------------------------------------------------------------------------
(* Nobody deletes a live lock but its holder.                              *)

LiveLockStep ==
    \A t \in Task :
        LET i == locks[t].locked_by IN
        /\ i # NoInstance
        /\ ~Expired(locks[t])
        /\ locks'[t].locked_by = NoInstance
        => \/ status[i] = "stopping" /\ status'[i] = "stopped"
           \/ \E r \in Run : /\ at[r] = i
                             /\ job[r] = t
                             /\ pc[r] = "release"
                             /\ pc'[r] = "idle"

\* A lock row that has not expired is deleted only by a call of the instance
\* that holds it, at its end, or by that instance's shutdown.
THEOREM LiveLockKept == Spec => LiveLockRemovedByHolder
<1>1. TypeOK /\ [Next]_vars => LiveLockStep \/ UNCHANGED vars
  <2> SUFFICES ASSUME TypeOK, [Next]_vars,
                      NEW t \in Task,
                      locks[t].locked_by # NoInstance,
                      ~Expired(locks[t]),
                      locks'[t].locked_by = NoInstance
               PROVE  LET i == locks[t].locked_by IN
                      \/ status[i] = "stopping" /\ status'[i] = "stopped"
                      \/ \E r \in Run : /\ at[r] = i
                                        /\ job[r] = t
                                        /\ pc[r] = "release"
                                        /\ pc'[r] = "idle"
    BY DEF LiveLockStep
  <2>1. locks'[t] # locks[t]
    OBVIOUS
  <2>2. WithoutExpired[t] = locks[t]
    BY DEF WithoutExpired
  <2>3. ASSUME NEW r \in Run, RunStep(r)
        PROVE \/ locks' \in {locks, Upserted(job[r], at[r]),
                             Stamped(job[r], at[r]), WithoutExpired}
              \/ Release(r) /\ locks' = Deleted(job[r], at[r])
    BY <2>3
    DEF RunStep, UpsertLock, UpsertLockFails, VerifyHeld, VerifyRefused,
        VerifyFails, CreateLog, CreateLogFails, Work, WorkFails, StampLastRun,
        LogSuccess, LogSuccessFails, LogFailure, LogFailureFails, Release,
        Maybe
  <2>4. ASSUME NEW r \in Run, NEW table \in {Upserted(job[r], at[r]),
                                             Stamped(job[r], at[r])}
        PROVE table[t].locked_by # NoInstance
    <3> at[r] \in Instance /\ at[r] # NoInstance
      BY InstanceAssumption DEF TypeOK
    <3>1. Upserted(job[r], at[r])[t].locked_by # NoInstance
      BY DEF Upserted, TypeOK
    <3>2. Stamped(job[r], at[r])[t].locked_by # NoInstance
      BY DEF Stamped, TypeOK, LockRow
    <3> QED BY <2>4, <3>1, <3>2
  <2>5. ASSUME NEW r \in Run, Release(r), locks' = Deleted(job[r], at[r])
        PROVE /\ at[r] = locks[t].locked_by
              /\ job[r] = t
              /\ pc[r] = "release"
              /\ pc'[r] = "idle"
    <3>1. pc[r] = "release" /\ pc'[r] = "idle"
      BY <2>5 DEF Release, Goto, TypeOK
    <3>2. at[r] = locks[t].locked_by /\ job[r] = t
      BY <2>1, <2>5 DEF Deleted, TypeOK
    <3> QED BY <3>1, <3>2
  <2>6. CASE \E r \in Run : RunStep(r)
    BY <2>1, <2>2, <2>3, <2>4, <2>5, <2>6
  <2>7. ASSUME NEW i \in Instance, NEW u \in Task, RefreshStep(i, u)
        PROVE FALSE
    <3>1. Extended(u, i)[t].locked_by = locks[t].locked_by
      BY DEF Extended, TypeOK, LockRow
    <3> QED
      BY <2>1, <2>7, <3>1
      DEF RefreshStep, RefreshLock, RefreshLockFails, Maybe
  <2>8. ASSUME NEW i \in Instance, ReleaseAllLocks(i)
        PROVE /\ i = locks[t].locked_by
              /\ status[i] = "stopping"
              /\ status'[i] = "stopped"
    <3>1. i = locks[t].locked_by
      BY <2>1, <2>8 DEF ReleaseAllLocks, DeletedAll, Maybe
    <3> QED BY <2>8, <3>1 DEF ReleaseAllLocks, TypeOK
  <2>9. ASSUME NEW i \in Instance, CleanupExpiredLocks(i) PROVE FALSE
    BY <2>1, <2>2, <2>9 DEF CleanupExpiredLocks
  <2>10. CASE Tick
    <3>1. locks'[t].locked_by = locks[t].locked_by
      BY <2>10 DEF Tick, TypeOK, LockRow
    <3> QED BY <3>1
  <2> QED
    BY <2>1, <2>6, <2>7, <2>8, <2>9, <2>10
    DEF Next, Begin, Stop, Exit, Restart, Replicate, vars
<1>2. [][LiveLockStep]_vars <=> LiveLockRemovedByHolder
  BY DEF LiveLockStep, LiveLockRemovedByHolder
<1> QED BY <1>1, <1>2, TypeCorrect, PTL DEF Spec
=============================================================================
