--------------------------- MODULE SchedulerLock ---------------------------
(***************************************************************************)
(* The distributed lock and the execution of scheduled tasks: several      *)
(* server instances share one row per task in scheduler_locks, and every   *)
(* executeTask call (cron or API) acquires the row, logs, works and        *)
(* releases.  Time is counted in ticks and kept as countdowns, so that no  *)
(* clock has to be bounded.  Reads of background jobs go to a reader       *)
(* endpoint that may lag behind the writer (replica).                      *)
(***************************************************************************)
EXTENDS Integers

CONSTANTS
    Instance,         \* server processes, named `${hostname}-${pid}`
    NoInstance,       \* the absence of a lock row
    Task,             \* registered task names
    CleanupTask,      \* the task 'cleanup-expired-locks'
    Run,              \* slots for concurrent executeTask calls
    LockTimeout,      \* scheduler.lockTimeout, in ticks
    RefreshInterval,  \* scheduler.lockRefreshInterval, in ticks
    VerifyLatency     \* ticks between the upsert and the answer of verifyLock

ASSUME InstanceAssumption == NoInstance \notin Instance
ASSUME TaskAssumption == CleanupTask \in Task
ASSUME TimingAssumption ==
    /\ LockTimeout \in Nat
    /\ RefreshInterval \in Nat \ {0}
    /\ VerifyLatency \in Nat \ {0}
    /\ VerifyLatency + RefreshInterval < LockTimeout

VARIABLES
    locks,     \* scheduler_locks on the writer, one row or none per task
    replica,   \* locked_by of the same rows as the reader endpoint shows it
    status,    \* life of each server process
    refresh,   \* ticks to the next firing of activeLocks' timer, or Off
    pc, at, job, wait,  \* each executeTask call: next step, instance, task,
                        \* ticks left before verifyLock must have answered
    log,       \* status of the scheduler_logs row the call created
    outcome    \* what the call returned

vars == <<locks, replica, status, refresh, pc, at, job, wait, log, outcome>>
runVars == <<at, job, log>>

Off == -1
Step == {"idle", "acquire", "verify", "createLog", "work", "stampRun",
         "logSuccess", "logFailure", "release"}
Status == {"up", "stopping", "stopped", "down"}
LogStatus == {"none", "running", "success", "failed"}
Outcome == {"none", "refused", "success", "failure", "threw"}

LockRow == [locked_by: Instance \cup {NoInstance},
            ttl: 0 .. LockTimeout, last_run: BOOLEAN]
NoLock == [locked_by |-> NoInstance, ttl |-> 0, last_run |-> FALSE]

TypeOK ==
    /\ locks \in [Task -> LockRow]
    /\ replica \in [Task -> Instance \cup {NoInstance}]
    /\ status \in [Instance -> Status]
    /\ refresh \in [Instance -> [Task -> {Off} \cup 0 .. RefreshInterval]]
    /\ pc \in [Run -> Step]
    /\ at \in [Run -> Instance]
    /\ job \in [Run -> Task]
    /\ wait \in [Run -> 0 .. VerifyLatency]
    /\ log \in [Run -> LogStatus]
    /\ outcome \in [Run -> Outcome]

Init ==
    /\ locks = [t \in Task |-> NoLock]
    /\ replica = [t \in Task |-> NoInstance]
    /\ status = [i \in Instance |-> "up"]
    /\ refresh = [i \in Instance |-> [t \in Task |-> Off]]
    /\ pc = [r \in Run |-> "idle"]
    /\ at \in [Run -> Instance]
    /\ job \in [Run -> Task]
    /\ wait = [r \in Run |-> 0]
    /\ log = [r \in Run |-> "none"]
    /\ outcome = [r \in Run |-> "none"]

----------------------------------------------------------------------------
(* The writes of SchedulerDbService on the lock rows.                      *)

Expired(row) == row.locked_by # NoInstance /\ row.ttl = 0

\* Faulty variants, each a plausible mistake in the operator it precedes, show
\* that the properties below can fail.  This one adds the interval twice.
UpsertedTooLong(t, i) ==
    [locks EXCEPT ![t] = [locked_by |-> i,
                          ttl |-> LockTimeout + RefreshInterval,
                          last_run |-> locks[t].last_run]]

\* The upsert: the update branch names neither the holder nor the expiry it
\* replaces, and keeps last_run_at.
Upserted(t, i) ==
    [locks EXCEPT ![t] = [locked_by |-> i, ttl |-> LockTimeout,
                          last_run |-> locks[t].last_run]]

\* Faulty: the filter on the holder is inverted.
ExtendedForOthers(t, i) ==
    IF locks[t].locked_by # i
    THEN [locks EXCEPT ![t].ttl = LockTimeout] ELSE locks

\* updateMany where task_name and locked_by.
Extended(t, i) ==
    IF locks[t].locked_by = i
    THEN [locks EXCEPT ![t].ttl = LockTimeout] ELSE locks

Stamped(t, i) ==
    IF locks[t].locked_by = i
    THEN [locks EXCEPT ![t].last_run = TRUE] ELSE locks

\* Faulty: the deletion does not name the holder.
DeletedByTask(t, i) == [locks EXCEPT ![t] = NoLock]

\* deleteMany where task_name and locked_by.
Deleted(t, i) ==
    IF locks[t].locked_by = i THEN [locks EXCEPT ![t] = NoLock] ELSE locks

DeletedAll(i) ==
    [t \in Task |-> IF locks[t].locked_by = i THEN NoLock ELSE locks[t]]

\* deleteMany where expires_at < now.
WithoutExpired ==
    [t \in Task |-> IF Expired(locks[t]) THEN NoLock ELSE locks[t]]

\* A write that throws was either not made or made with its answer lost.
Maybe(written) == locks' \in {written, locks}

----------------------------------------------------------------------------
(* executeTask                                                             *)

Goto(r, step) == pc' = [pc EXCEPT ![r] = step]
Return(r, result) == outcome' = [outcome EXCEPT ![r] = result]

\* The cron callback (running instances only) or triggerTask, which the
\* server still accepts while stop() waits for releaseAllLocks.
Begin(r, i, t) ==
    /\ pc[r] = "idle"
    /\ status[i] \in {"up", "stopping"}
    /\ Goto(r, "acquire")
    /\ at' = [at EXCEPT ![r] = i]
    /\ job' = [job EXCEPT ![r] = t]
    /\ log' = [log EXCEPT ![r] = "none"]
    /\ Return(r, "none")
    /\ UNCHANGED <<locks, replica, status, refresh, wait>>

UpsertLock(r) ==
    /\ pc[r] = "acquire"
    /\ locks' = Upserted(job[r], at[r])
    /\ wait' = [wait EXCEPT ![r] = VerifyLatency]
    /\ Goto(r, "verify")
    /\ UNCHANGED <<replica, status, refresh, runVars, outcome>>

\* acquireLock catches the error and answers false.
UpsertLockFails(r) ==
    /\ pc[r] = "acquire"
    /\ Maybe(Upserted(job[r], at[r]))
    /\ Goto(r, "idle")
    /\ Return(r, "refused")
    /\ UNCHANGED <<replica, status, refresh, runVars, wait>>

\* startLockRefresh keeps the timer of another call of the same task.
StartRefresh(i, t) ==
    IF refresh[i][t] = Off
    THEN [refresh EXCEPT ![i][t] = RefreshInterval] ELSE refresh

VerifyHeld(r) ==
    /\ pc[r] = "verify"
    /\ replica[job[r]] = at[r]
    /\ refresh' = StartRefresh(at[r], job[r])
    /\ wait' = [wait EXCEPT ![r] = 0]
    /\ Goto(r, "createLog")
    /\ UNCHANGED <<locks, replica, status, runVars, outcome>>

\* Faulty: the timer is started before the answer of verifyLock is looked at.
VerifyRefusedRefreshing(r) ==
    /\ pc[r] = "verify"
    /\ replica[job[r]] # at[r]
    /\ refresh' = StartRefresh(at[r], job[r])
    /\ wait' = [wait EXCEPT ![r] = 0]
    /\ Goto(r, "idle")
    /\ Return(r, "refused")
    /\ UNCHANGED <<locks, replica, status, runVars>>

VerifyRefused(r) ==
    /\ pc[r] = "verify"
    /\ replica[job[r]] # at[r]
    /\ wait' = [wait EXCEPT ![r] = 0]
    /\ Goto(r, "idle")
    /\ Return(r, "refused")
    /\ UNCHANGED <<locks, replica, status, refresh, runVars>>

VerifyFails(r) ==
    /\ pc[r] = "verify"
    /\ wait' = [wait EXCEPT ![r] = 0]
    /\ Goto(r, "idle")
    /\ Return(r, "refused")
    /\ UNCHANGED <<locks, replica, status, refresh, runVars>>

CreateLog(r) ==
    /\ pc[r] = "createLog"
    /\ log' = [log EXCEPT ![r] = "running"]
    /\ Goto(r, "work")
    /\ UNCHANGED <<locks, replica, status, refresh, at, job, wait, outcome>>

\* logId stays null, so that handleTaskError has no row to update.
CreateLogFails(r) ==
    /\ pc[r] = "createLog"
    /\ \E row \in {"none", "running"} : log' = [log EXCEPT ![r] = row]
    /\ Goto(r, "release")
    /\ Return(r, "failure")
    /\ UNCHANGED <<locks, replica, status, refresh, at, job, wait>>

\* executeInMainThread (every task of this repository has runInWorker
\* false); the handler of CleanupTask deletes the expired rows.
Work(r) ==
    /\ pc[r] = "work"
    /\ locks' = IF job[r] = CleanupTask THEN WithoutExpired ELSE locks
    /\ Goto(r, "stampRun")
    /\ UNCHANGED <<replica, status, refresh, runVars, wait, outcome>>

WorkFails(r) ==
    /\ pc[r] = "work"
    /\ Goto(r, "logFailure")
    /\ UNCHANGED <<locks, replica, status, refresh, runVars, wait, outcome>>

\* updateLastRun swallows its errors.
StampLastRun(r) ==
    /\ pc[r] = "stampRun"
    /\ Maybe(Stamped(job[r], at[r]))
    /\ Goto(r, "logSuccess")
    /\ UNCHANGED <<replica, status, refresh, runVars, wait, outcome>>

LogSuccess(r) ==
    /\ pc[r] = "logSuccess"
    /\ log' = [log EXCEPT ![r] = "success"]
    /\ Goto(r, "release")
    /\ Return(r, "success")
    /\ UNCHANGED <<locks, replica, status, refresh, at, job, wait>>

\* The error of the update of the log lands in the catch of executeTask.
LogSuccessFails(r) ==
    /\ pc[r] = "logSuccess"
    /\ \E row \in {log[r], "success"} : log' = [log EXCEPT ![r] = row]
    /\ Goto(r, "logFailure")
    /\ UNCHANGED <<locks, replica, status, refresh, at, job, wait, outcome>>

LogFailure(r) ==
    /\ pc[r] = "logFailure"
    /\ log' = [log EXCEPT ![r] = "failed"]
    /\ Goto(r, "release")
    /\ Return(r, "failure")
    /\ UNCHANGED <<locks, replica, status, refresh, at, job, wait>>

\* Faulty: the row is taken for a completed one and success is answered.
LogFailureSwallowed(r) ==
    /\ pc[r] = "logFailure"
    /\ \E row \in {log[r], "failed"} : log' = [log EXCEPT ![r] = row]
    /\ Goto(r, "release")
    /\ Return(r, "success")
    /\ UNCHANGED <<locks, replica, status, refresh, at, job, wait>>

LogFailureFails(r) ==
    /\ pc[r] = "logFailure"
    /\ \E row \in {log[r], "failed"} : log' = [log EXCEPT ![r] = row]
    /\ Goto(r, "release")
    /\ Return(r, "threw")
    /\ UNCHANGED <<locks, replica, status, refresh, at, job, wait>>

\* Faulty: the timer is cleared only once the row has been deleted.
ReleaseRowFirst(r) ==
    /\ pc[r] = "release"
    /\ \/ /\ locks' = Deleted(job[r], at[r])
          /\ refresh' = [refresh EXCEPT ![at[r]][job[r]] = Off]
       \/ UNCHANGED <<locks, refresh>>
    /\ Goto(r, "idle")
    /\ UNCHANGED <<replica, status, runVars, wait, outcome>>

\* The finally block: the timer is cleared before the row is deleted, and an
\* error of the deletion is swallowed.
Release(r) ==
    /\ pc[r] = "release"
    /\ refresh' = [refresh EXCEPT ![at[r]][job[r]] = Off]
    /\ Maybe(Deleted(job[r], at[r]))
    /\ Goto(r, "idle")
    /\ UNCHANGED <<replica, status, runVars, wait, outcome>>

----------------------------------------------------------------------------
(* Timers, the sweep, and the life of an instance                          *)

RefreshLock(i, t) ==
    /\ refresh[i][t] = 0
    /\ locks' = Extended(t, i)
    /\ refresh' = [refresh EXCEPT ![i][t] = RefreshInterval]
    /\ UNCHANGED <<replica, status, pc, runVars, wait, outcome>>

\* One failed refresh clears the timer for the rest of the run.
RefreshLockFails(i, t) ==
    /\ refresh[i][t] = 0
    /\ Maybe(Extended(t, i))
    /\ refresh' = [refresh EXCEPT ![i][t] = Off]
    /\ UNCHANGED <<replica, status, pc, runVars, wait, outcome>>

\* The cleanup interval of a running instance.
CleanupExpiredLocks(i) ==
    /\ status[i] = "up"
    /\ \E t \in Task : Expired(locks[t])
    /\ locks' = WithoutExpired
    /\ UNCHANGED <<replica, status, refresh, pc, runVars, wait, outcome>>

\* stop(): the cron jobs and all timers are cleared in one turn of the event
\* loop; runs in progress are not awaited.
Stop(i) ==
    /\ status[i] = "up"
    /\ status' = [status EXCEPT ![i] = "stopping"]
    /\ refresh' = [refresh EXCEPT ![i] = [t \in Task |-> Off]]
    /\ UNCHANGED <<locks, replica, pc, runVars, wait, outcome>>

ReleaseAllLocks(i) ==
    /\ status[i] = "stopping"
    /\ Maybe(DeletedAll(i))
    /\ status' = [status EXCEPT ![i] = "stopped"]
    /\ UNCHANGED <<replica, refresh, pc, runVars, wait, outcome>>

\* The process ends, after stop() or by a crash, with the calls in progress.
Exit(i) ==
    /\ status[i] # "down"
    /\ status' = [status EXCEPT ![i] = "down"]
    /\ refresh' = [refresh EXCEPT ![i] = [t \in Task |-> Off]]
    /\ pc' = [r \in Run |-> IF at[r] = i THEN "idle" ELSE pc[r]]
    /\ wait' = [r \in Run |-> IF at[r] = i THEN 0 ELSE wait[r]]
    /\ UNCHANGED <<locks, replica, runVars, outcome>>

\* A process with the same hostname and pid, as a restarted container has.
Restart(i) ==
    /\ status[i] = "down"
    /\ status' = [status EXCEPT ![i] = "up"]
    /\ UNCHANGED <<locks, replica, refresh, pc, runVars, wait, outcome>>

\* The reader endpoint catches up with a row.
Replicate(t) ==
    /\ replica[t] # locks[t].locked_by
    /\ replica' = [replica EXCEPT ![t] = locks[t].locked_by]
    /\ UNCHANGED <<locks, status, refresh, pc, runVars, wait, outcome>>

Dec(n) == IF n > 0 THEN n - 1 ELSE n

\* One tick passes: due timers have fired, and no verifyLock is overdue.
Tick ==
    /\ \A i \in Instance, t \in Task : refresh[i][t] # 0
    /\ \A r \in Run : pc[r] = "verify" => wait[r] > 0
    /\ locks' = [t \in Task |-> [locks[t] EXCEPT !.ttl = Dec(@)]]
    /\ refresh' = [i \in Instance |-> [t \in Task |-> Dec(refresh[i][t])]]
    /\ wait' = [r \in Run |-> Dec(wait[r])]
    /\ UNCHANGED <<replica, status, pc, runVars, outcome>>

RunStep(r) ==
    \/ UpsertLock(r)  \/ UpsertLockFails(r)
    \/ VerifyHeld(r)  \/ VerifyRefused(r) \/ VerifyFails(r)
    \/ CreateLog(r)   \/ CreateLogFails(r)
    \/ Work(r)        \/ WorkFails(r)     \/ StampLastRun(r)
    \/ LogSuccess(r)  \/ LogSuccessFails(r)
    \/ LogFailure(r)  \/ LogFailureFails(r)
    \/ Release(r)

RefreshStep(i, t) == RefreshLock(i, t) \/ RefreshLockFails(i, t)

Next ==
    \/ \E r \in Run, i \in Instance, t \in Task : Begin(r, i, t)
    \/ \E r \in Run : RunStep(r)
    \/ \E i \in Instance, t \in Task : RefreshStep(i, t)
    \/ \E i \in Instance :
          CleanupExpiredLocks(i) \/ Stop(i) \/ ReleaseAllLocks(i) \/ Exit(i)
              \/ Restart(i)
    \/ \E t \in Task : Replicate(t)
    \/ Tick

Spec == Init /\ [][Next]_vars

\* The event loop and the writer answer every call in progress, timers fire,
\* the cleanup interval repeats until a sweep succeeds, and time passes.
Fairness ==
    /\ \A r \in Run : WF_vars(RunStep(r))
    /\ \A i \in Instance, t \in Task : WF_vars(RefreshStep(i, t))
    /\ \A i \in Instance : WF_vars(CleanupExpiredLocks(i))
    /\ WF_vars(Tick)

FairSpec == Spec /\ Fairness

----------------------------------------------------------------------------
(* Properties                                                              *)

Holding == {"createLog", "work", "stampRun", "logSuccess", "logFailure",
            "release"}
Busy(i, t) == \E r \in Run : pc[r] # "idle" /\ at[r] = i /\ job[r] = t

\* A lock that its holder still refreshes is never up for the sweep, whatever
\* other instances, other calls of the same instance and shutdown do: the
\* timer started by acquireLock always fires before expires_at.
RefreshedLeaseLive ==
    \A i \in Instance, t \in Task :
        refresh[i][t] # Off /\ locks[t].locked_by = i => ~Expired(locks[t])

\* No refresh timer outlives the work it was started for: while one runs,
\* some executeTask call of that task on that instance has passed acquireLock
\* and not finished releaseLock, even when the deletion of the row failed.
NoLeakedRefresh ==
    \A i \in Instance, t \in Task :
        refresh[i][t] # Off =>
            \E r \in Run : pc[r] \in Holding /\ at[r] = i /\ job[r] = t

\* What executeTask answers and what scheduler_logs says agree: a success was
\* logged, a reported failure was not logged as a success, and a refused call
\* left no log, whichever of the writes failed on the way.
OutcomeMatchesLog ==
    \A r \in Run :
        /\ outcome[r] = "success" => log[r] = "success"
        /\ outcome[r] = "failure" => log[r] # "success"
        /\ outcome[r] = "refused" => log[r] = "none"

\* A lock row that has not expired disappears only when a call of its holder
\* releases it or its holder shuts down: no call, sweep or shutdown of another
\* instance deletes it.
LiveLockRemovedByHolder ==
    [][\A t \in Task :
         LET i == locks[t].locked_by IN
         /\ i # NoInstance
         /\ ~Expired(locks[t])
         /\ locks'[t].locked_by = NoInstance
         => \/ status[i] = "stopping" /\ status'[i] = "stopped"
            \/ \E r \in Run : /\ at[r] = i
                              /\ job[r] = t
                              /\ pc[r] = "release"
                              /\ pc'[r] = "idle"]_vars

\* A row whose holder has no call of the task in progress (it crashed, its
\* deletion failed, or the call was refused after its upsert) does not stay
\* for ever, as long as one instance keeps running the cleanup interval.
AbandonedLockLapses ==
    \A i \in Instance, j \in Instance, t \in Task :
        <>[](status[j] = "up") =>
            ((locks[t].locked_by = i /\ ~Busy(i, t))
                ~> (locks[t].locked_by # i \/ Busy(i, t)))

\* What distributed-lock-service.js says: only one instance executes a
\* scheduled task at a time.
MutualExclusion ==
    \A r1, r2 \in Run :
        /\ pc[r1] \in Holding \ {"release"}
        /\ pc[r2] \in Holding \ {"release"}
        /\ job[r1] = job[r2]
        => at[r1] = at[r2]
=============================================================================
