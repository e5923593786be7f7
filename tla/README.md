# PAFS back-end API: TLA+ verification

This directory holds a formal model of the PAFS back-end API (`src/`): a hapi
server, run as several identical instances (ECS tasks), over one PostgreSQL
cluster with a writer and a lagging reader endpoint, an S3 bucket, SQS queues,
the CDP file uploader, GOV.UK Notify and an external proposal-approval system.

* `<Module>.tla` — a component: state, one action per handler step, properties.
* `MC<Module>.tla`, `<Module>_<run>.cfg` — instances for TLC (a module whose
  constants need no definitions has no `MC` module).
* `<Module>_proofs.tla` — theorems checked by TLAPS; those about `UserSession` are
  in `AccountLife_proofs`.
* `PROJECT.json` — the map from definitions to source lines, the runs, the
  faulty variants that show each property can fail, hazards and findings.

Run `tlc -config SchedulerLock_safety.cfg MCSchedulerLock` or
`tlapm SchedulerLock_proofs.tla` in this directory.

## 1. Inventory

Paths are below `src/src/`.

| Part | State it keeps | Operations | What is hard about it |
|---|---|---|---|
| Scheduler (`plugins/scheduler`) | `scheduler_locks`, `scheduler_logs`; per instance the refresh timers of `activeLocks` | `executeTask` (cron or API), refresh, cleanup interval, `stop` | several instances, leases, failures between two writes, crash |
| Scheduled tasks (`plugins/scheduler/tasks`) | user, upload and audit rows | disable inactive accounts, clean up uploads and locks, archive audit logs | batch read then write, races with requests |
| Sessions (`plugins/auth`, `plugins/jwt`) | `unique_session_id`; per instance two caches | login, refresh, logout, password and role change, `validate` | caches filled across awaits, several instances, lagging reader |
| Account life (`plugins/accounts`, `plugins/auth`) | status, lockout, sign-in times, disabled, warning | login, lockout, disable, reactivate, warn | lost updates, sign-in times carried over, batch jobs |
| Invitations and passwords | status, invitation and reset tokens, password history | create, approve, resend, set password, request and perform a reset | tokens used once, check then write, statements without a transaction |
| Proposal pages (`plugins/projects`) | the project's row, NFM rows; per instance a cache of the row | some forty pages, one `POST /project/upsert` with a level each | answers that hang on answers, stale views and caches, partial writes |
| Money of a proposal | flags, years, contributors' names; a row per year, a row per contributor of a year | sources, contributors, spend, years, clearing | three tables without a transaction, functions that run together |
| Submission rules and payload | none | checks, carbon fingerprint, payload | have to agree with what the pages ask |
| Project lifecycle, external submission (`common/services/external-submission`, `plugins/external`) | state, queue, `submitted_to_pol` columns, send log | submit, resubmit, status changes, enqueue, consume, send, status update from outside | at-least-once queue, timeouts, stale read |
| Benefit-area uploads (`plugins/file-upload`) | `file_uploads`, S3 objects, project columns | initiate, callback, status poll, relocate, delete | callback and poll race, object moved twice |
| Programme downloads (`plugins/downloads`) | `pafs_core_area_downloads`, queue, S3 objects | start, generate, notify | duplicate jobs, redelivery, replaced rows |
| Database access (`plugins/database`) | clients, audit log | routing to writer or reader, retry, audit | stale reads, who is recorded |
| Reference numbers | counter per committee | generate | wrap-around |
| Areas, audit archive, health, gateway guard, email validation, formatting | areas and caches, audit rows | lookups, validation, batches | mostly pure or read-only |

How they interact: every handler goes through `jwt-auth`'s `validate` and
`request.prisma`; submission reads what the pages wrote and puts a message on a
queue that a consumer on any instance takes; a callback of the uploader and the
user's poll both finish an upload; the nightly tasks write the same user and upload
rows as requests.

## 2. Plan

| | Modules | State |
|---|---|---|
| 1 | `SchedulerLock`: lock and task execution | modelled, checked, proved |
| 2 | `UserSession`: session caches over a lagging reader | modelled, checked, proved |
| 3 | `AccountLife`: lockout, inactivity, the nightly job, reactivation | modelled, checked, proved |
| 4 | `Submission` with the abstract `Delivery` | modelled, checked, proved, refinement proved |
| 5 | `BenefitAreaFile`: callback, poll, relocation, cache, clean-up, deletion | modelled, checked, proved |
| 6 | `ProgrammeDownload`: download records, jobs, redelivery | modelled, checked, proved |
| 7 | `Credentials`: accounts' first passwords and resets | modelled, checked, proved |
| 8 | `FundingEditing`: the money of a proposal in three tables | modelled, checked, proved |
| 9 | `ProposalPages`, `ProposalRules`, `ProposalEditing`: pages, rules, their life together | modelled, checked, proved |
| 10 | reference numbers, the audit archive, the caches of areas | |

## 3. The modules and the code

### SchedulerLock

`executeTask` of `scheduler-service.js` is a row of steps of a *run slot*: `acquire`
(`UpsertLock`), `verify`, `createLog`, `work`, `stampRun`, `logSuccess` or
`logFailure`, `release`. Every database call may fail, and a write that fails may
have been made (`Maybe`). `locks` is `scheduler_locks` on the writer, `replica`
what the reader shows of its holder, `refresh` the timers of `activeLocks`.
Time is a countdown: a tick is a unit of the configured intervals, and a call
ends its verification within `VerifyLatency`. Instances stop (`Stop`,
`ReleaseAllLocks`), crash (`Exit`) and come back under the same name (`Restart`).

Left out: worker threads (no task uses one), the schedule itself (a run may begin
at any time), `last_run_at` beyond "it was stamped" (the release deletes the row
and the stamp with it). The clearing of the timer and the deletion of the row are
one step of `Release`; what other instances see in between is what a lagging
replica shows them anyway.

### UserSession

One user. `row` is the user's session and disabled flag on the writer, `reader`
what the reader shows. Each instance has a tier-1 entry per session (`auth`, with
its remaining life) and a tier-2 session version. A *request slot* is either in
`validate` (`Arrive`, `Read`, then `VersionAnswer`, `VersionFails`, `UserAnswer`
or `UserFails`) or makes one of the writes of `auth-service.js`,
`password-service.js` and `account-upsert-service.js` that change the session; the
eviction from the caches of its own instance is a later step (`EvictAndAnswer`,
`LogoutEvict`). A change of password ends the session and evicts nothing
(`ChangePassword`). GET requests read the reader, others the writer (`Source`).

Left out: `locked_at`, which `validate` treats like the disabled flag; audit rows;
tokens (a request names its session); areas in the cached result.

### AccountLife

`users` holds the columns of `pafs_core_users` that lockout and inactivity read,
times as ages in days. A *login slot* reads the row (`BeginLogin`) and later makes
the one write it decided on (`LoginDisable`, `LoginFail`, `LoginSucceed`) from the
snapshot it took. The nightly job goes through its five steps, one mail at a time.
Requests and a run of the job end within a day (`Tick` waits for them). History
variables keep what the row forgets: days of sign-in and wrong attempts.

Left out: deletion of accounts, the two feature switches (taken as on), more than
one run of the job at a time (`SchedulerLock` is about that).

### Credentials

`users` holds the columns that decide how an account comes to a password, `old`
its rows of `old_passwords`. A *request* is one of `CreateAccount`,
`ApproveAccount`, `ResendInvitation`, `SetPassword`, `RequestReset` and
`ResetPassword`; `pc` names its next statement, and each statement is an action of
its own, for none of these handlers has a transaction. A link is the number under
which it was issued, a mail hands it to the user (`mailed`), and a user may send it
any number of times. `Fail` ends a request before any of its statements;
`BulkDisable` and `ReactivateAccount` come from outside. History variables: `set`
(the passwords an account was given), `uses` (what each reset link wrote), `gap`
and `stale` (the two gaps the code knows: an archive that failed is only logged,
and an approval overwrites what it did not read again).

Left out: deletion of accounts, the rate limits, mail contents, the hashing.

### FundingEditing

One proposal's money: `project` (flags, years, names), `values` (a row per year)
and `contributors` (a row per contributor of a year's row). Users send the saves of
`Menu`. A save is loaded (`Load`: the project comes from the instance's cache or the
database), validated (`Validate`), and then runs *threads*, one for each function
that `Promise.all` starts: those that change the rows of the two other tables, then
the one that writes the project and drops the cache entry. A thread is a record: its
next statement `op`, and what it works on; `After` says which statement follows
which in a function. Each statement is an action (`UpsertValue`, `Rename`, ...). One
that fails ends its thread and what comes after all threads, not the threads beside
it (`Fail`). `MCFundingEditing` chooses the menu. Behaviours begin (`Stored`) with
any range of years, and either nothing filled in or a full row.

The years are also written by pages that are not about money. The pages of dates
carry the years that were shown beside the date, and their save writes them without
`flushOutOfRangeFundingData`, which runs for the two pages of years only:
`DatePage` stands for all of them. A page that was shown before the range was widened
narrows it again and leaves the amounts of the years it takes away; the history
variable `narrowed` remembers that (`Narrows`), and `NothingOutsideRange` speaks of
behaviours without it. `CLEAR_STALE_DATA` deletes every row before it writes what it
sends, of which every key is optional (`ClearStaleData`); `staleDataCleared`, a flag
for a banner, is left out.

Left out: the width of numbers (`BigInt` in the code), and what the pages of dates do
besides the years, which is in `ProposalEditing`. 0 and NULL are one amount, as the
pages treat them.

### ProposalPages, ProposalRules, ProposalEditing

`ProposalPages` has the levels of the form as pure operators: the fields a page
may send (`SchemaAccepts`), the checks against the stored project (`Accepted`),
and the normalizers that add to the payload the columns to be forgotten
(`Normalized`). `ProposalRules` has the checks of submission section by section
(`Submittable`), the fingerprint of the carbon figures (`Hexdigest`) and the
payload (`Payload`). `ProposalEditing` lets users open the proposal, save pages
from what they saw (`Open`, `Load`, `Validate`, then one action per statement) and
submit (`Check`, `TransitionToSubmitted`). What a page offers and sends along
(`Offered`, `Form`) is the front end's part, modelled from what the schemas ask for
and mapped as external.

Pages of one kind are one parameterised level: the eleven habitats share `GATE`
and `QUANTITY`, the natural flood measures `NFM_MEASURE` and `NFM_LAND_USE`. A
date is its month; a text or a list stands for itself; a fingerprint is the figures
it is made of. Money enters as one statement; its detail is `FundingEditing`.

The section "The answers of a proposal" says what an answer may be: `Typed`,
`Enterable` (the form may also send null, or an empty text for a figure),
`FollowedUp` and `Tidy`. The constants are assumed to respect it, and TLC checks
that the instance does: null and the empty text are no answer and no field's name
(`NoneAssumption`); an entry answers the questions of its own page with answers of
their types, and what the page sends along comes from what the user saw
(`EntriesAssumption`); a proposal begins tidy, as one without any answer is
(`StartsAssumption`, and `NothingAnswered` in `MCProposalEditing`).

Two of the front end's habits matter to `NothingLeftOver`, and the code in `src/`
does not enforce them. `Offered` shows the pages of natural flood management that
follow the choice of measures only after that choice
(`NfmPagesAfterSelection`). Were `consent`, `experience` or `readiness` answered
before it, then refusing the measures would leave these answers behind:
`clearNfmDataOnInclusionFalse` (`payload-normalizers.js:422`) clears nothing when the
inclusion was not `true` before and no measure is chosen. And a page of selection
sends the rows of what is no longer selected as null (`Unselected`), which is how
they are deleted (`Deletion`).

A third habit matters to `FollowUpsNeedTheirQuestion` and `SavedDatesAreSubmittable`.
The level `CLEAR_STALE_DATA` (`levels/stale.js`, `StalePages`) takes any year and date
and `couldStartEarly`, each optional. No check compares them with the years or with
each other, and `resetEarliestWithGiaFields` does not know the level. It is there to
clear, and the repository's tests send it with nulls (`project-level.test.js:183-206`);
`ClearingAssumption` says so of the entries: dates are sent as null, and
`couldStartEarly` together with the earliest date. The years are free. A client that
sent `couldStartEarly` as null alone would leave the earliest date without its
question, and one that sent dates would store dates that submission refuses: the
server prevents neither, so the two properties and their theorems are about clients
that keep to the assumption. The save also deletes all rows of money (`ClearStep`);
which sources are selected never changes here, for that is in `FundingEditing`.

Left out: the pages before a proposal exists (`INITIAL_SAVE`, `PROJECT_NAME`,
`PROJECT_AREA`) and permissions; the net carbon figures, which are computed for
display; the schema of the payload, whose failure is only logged.

### Submission and Delivery

`Submission` has every statement that writes a project's state, `submitted_at`,
`submitted_to_pol` or an attempt row after the project exists. A *request slot*
reads the state (`Submit`, `Resubmit`, `ExternalUpdate`, `FixLegacy`) and writes
later (`Commit`, `WriteState`, ...); a submission then puts a message on the queue.
A *consumer* receives a message, sends the proposal, records the attempt, stamps
the project and deletes the message. `queue` is SQS with explicit deletion:
visible, hidden until the visibility timeout, gone. `SendFails` covers refusals,
timeouts and lost answers; the external system may have accepted. An acceptance
counts for the latest submission at the time of the answer.

`Delivery` is what the queue promises: a message leaves it only after it has been
handled to the end. `AtLeastOnce` is the refinement `D!Spec`, with `pending` the
messages that are in the queue and `handled` those a consumer has finished.

Left out: the proposal's content (in `ProposalEditing`), the permission checks in
front of each handler, `is_revised`, the feature switch of the legacy fix (taken as
on). A request that is rejected writes nothing and is no step. A message's name is
used again only when no consumer holds it any more.

### BenefitAreaFile

One project. An upload is its own content and its own key; a file name is the
standard key `slug/version/filename`. `scan` is what the uploader knows, `row` the
status in `file_uploads`, `objects` the bucket, `fileKey` and `base64` the
project's columns. A *worker slot* is a callback or a poll (`Begin`, `Validate`,
`Save`, then the relocation call by call, then `Show` and the cache that it fills
without anyone waiting), an opened project that warms the cache (`BeginWarm`,
`Fetch`, `Cache`), or a deletion (`BeginDelete`, `Unlink`, `Clear`). Every worker
can end at any step (`GiveUp`). `CleanUp` is the nightly task.

Left out: uploads by URL, which start in `processing` and are never awaited;
`file_uploads.s3_key`, which nothing reads back; download links; legacy keys; the
uploader's own error texts. The project exists and keeps its slug and version.

### ProgrammeDownload

`rec` is `pafs_core_area_downloads`, `newest` each owner's latest row, `queue` the
messages, `objects` the bucket, `reader` what the reader of the database shows of the
administrators' latest record. A *request* deletes the owner's rows, creates one
and queues it, each a statement (`Replace`, `Create`, `Enqueue`). A *consumer*
takes a message (`Receive`); the shared job of the administrators first looks for
another one in progress (`Guard`, `Busy`). The consumer works with `server.prisma`,
so this look goes to the reader, which catches up with the writer at any time and
not before (`Replicate`); the writes, and the reads that come with them, are the
writer's. The job then loads in batches (`Start`, `Report`), puts
the files (`Upload`), writes the record (`Finish` or `MarkFailed`) and deletes the
message (`Delete`). A step that throws leads to `MarkFailed`; an instance that
stops leaves the message to come again (`JobLost`): as long as a message is on the
queue it may be received (`Receive`), also while a slow consumer has it, since its
visibility timeout may have run out. `lost` collects the records of the failures the
code swallows, and of a job that gave way to a record that only a lagging reader still
showed as being generated: its message is deleted, and nothing works on its record
until somebody asks anew.

Left out: the mails, the contents of the files. An id is used again only when
neither a message nor a process holds it.

## 4. What is checked

Each property has a faulty variant of a definition (the ones commented `Faulty` in
the modules, listed in `PROJECT.json`) under which TLC finds it violated.

| Run | Instance | What it shows |
|---|---|---|
| `scheduler_safety` | 2 instances, 2 calls, 1 task | `RefreshedLeaseLive`, `NoLeakedRefresh`, `OutcomeMatchesLog`, `LiveLockRemovedByHolder`, with every call failing anywhere, crashes and restarts |
| `scheduler_liveness` | 2 instances, 1 call | `AbandonedLockLapses` |
| `session_window` | 2 sessions, 1 instance, 1 request at a time, reader behind by up to a tick, failing reads | `SupersededWithinWindow`, `DisabledWithinWindow`, `CurrentSessionSettles` |
| `account_life` | 1 account, 2 overlapping logins, 2 attempts, 3 days | `LockNeedsWrongAttempts`, `RegularUserKeepsAccess`, `AbandonedAccountIsDisabled` |
| `credential_links` | 1 account, 2 requests, 3 links, 3 passwords, 2 failures | `OneResetPerLink`, `NobodyIsStuck`, `PasswordNotReused` |
| `submission_delivery` | 1 imported project, 2 requests, 2 consumers, 1 message, 1 failure | `RecordsMeanReceived`, `QueuedWasCommitted`, `AtLeastOnce`, `EnqueuedIsHandled`, `FailedSubmissionsRecover` |
| `file_upload` | 2 uploads, 2 names, 2 workers, 1 failure | `AcceptedFileIsKept`, `OnlyCheckedFilesShown`, `StandardKeyHolds`, `UploadSettles` |
| `download_jobs` | 2 requests and 2 records of the administrators, 2 consumers, 1 batch, 1 failure | `CurrentIsWorkedOn`, `ReadyFilesExist`, `DownloadSettles` |
| `funding_rows` | 2 saves of any pages, overlapping or not, 2 years, 2 names, failures anywhere | `TotalIsSum`, `NothingOutsideRange`, `DeselectedIsEmpty`, `NoOrphans` |
| `proposal_pages` | 4 complete proposals, 50 entries, 3 saves by 2 users, the first 2 of them perhaps together, failures anywhere | `FollowUpsNeedTheirQuestion`, `NothingLeftOver`, `SubmittedAnswers`, `SavedDatesAreSubmittable` |

Two runs end in a violation on purpose. Each checks one sentence that a comment of
the code states and the code does not keep:

| Run | The sentence, and what happens instead |
|---|---|
| `scheduler_mutex` | "Ensures only one instance executes a scheduled task at a time": the upsert takes a lock that is held, and the first holder goes on working |
| `funding_rename` | "rename in-place ... to preserve the stored amount": the row of the new name may be made beside the renaming and before it, and then the old row is deleted with its amount |

While modelling, these were seen too; the models behave so, and the properties are
stated around them:

* A reactivated account can be disabled again the same day: the next login carries
  the old sign-in over (`auth-service.js:339`).
* When a warning mail fails, the marks go to the first accounts of the batch, not to
  those that were sent one (`disable-inactive-accounts.js:124`).
* A second submission of a project that was once accepted is never on the list of
  failed submissions, for the first stamp stays (`project-filter-service.js:126`).
* A request that read the user before a login may fill the caches after the login
  has evicted them (`jwt-auth.js:281`); the window properties bound what follows.
* Two requests that relocate one upload leave the project with the key the first
  has moved away from (`upload-processing-helpers.js:289`).
* A job of the administrators that sees, in a lagging reader, the record that its own
  request has just replaced gives way to it: the new record stays "generating" with no
  job and no failure, until a new request (`programme-service.js:346`).
* A page of a date that is older than the range of years narrows the range without
  clearing the amounts outside it (`timeline.js:28`,
  `funding-sources-normalizers.js:480`).
* `CLEAR_STALE_DATA` may leave the earliest date with grant in aid without its question,
  and takes dates that no check compares (`stale.js:10`).
* The main intervention is not compared with the stored interventions when it is
  saved alone (`basic.js:177`).

**Why these bounds.** The interesting cases need two actors of a kind: two
instances for a lock that is taken over, two logins for a lost count, two consumers
for a redelivered message, two workers for one upload, two saves of a page that
cross. Symmetric third actors add no new pair of steps. Times only matter relative
to each other, so the smallest values that satisfy the assumptions
(`TimingAssumption`, `LimitAssumption`) are used, three days of inactivity so that
there is a day between a sign-in and the disabling, and in `credential_links` links
that expire with the first tick. Three links and three passwords are what it takes
to use a link twice and to come back to the password before the last;
`proposal_pages` starts from complete proposals of each journey, because leftovers
need one change to arise and submission another two to be possible again. Where a
bound is felt, the theorems of section 6 are the answer: they hold for any number
of instances, requests, sessions, owners, messages and failures. This matters most
for `session_window`, where two overlapping requests are out of reach together with
liveness, and for `download_jobs`, which leaves the users' own downloads, jobs
without a guard, to the theorems. In `funding_rows` two saves are enough to
leave rows that a third statement could trip over, and the invariants hold after
every statement, not only between saves. `MaxFailures` counts failures over a whole
behaviour; one failure at any point is what distinguishes the safety properties
here, and liveness asks what happens once failures are over. `MaxSaves` and
`MaxTogether` bound saves; `MaxLinks` links; `MaxBatches` and `MaxAmount` what a
job loads and a page sends.

Types are an invariant of a run, beside the theorem where there is one; for
`UserSession`, `Submission` and `ProgrammeDownload` the theorem alone states them.

Deadlock is checked wherever a system goes on for ever (a request can always
begin, time passes). The two editing models may stop when their saves are used up,
and say `CHECK_DEADLOCK FALSE`.

## 5. Fairness

* A step that the event loop or the database owes to a request in progress is
  weakly fair (`RunStep`, `ValidateStep`, `LoginWrite`, `RequestProceeds`,
  `ConsumerProceeds`, `JobProceeds`, `Proceed`): promises are settled, a client or a
  server timeout ends what would hang.
* Timers (`RefreshStep`, `CleanupExpiredLocks`, the visibility timeout `Expire` of
  `Submission`) and `Tick` are fair: time passes. In `ProgrammeDownload` the timeout is
  part of `Receive`, whose strong fairness is all that its liveness needs; that the
  reader ever catches up is not assumed. In `AccountLife` the passing of days is not kept back by logins,
  hence `[]<><<Tick>>_vars`.
* Strong fairness is used where a step is possible time and again rather than for
  ever: SQS does not pass a message over each time an idle consumer polls; an
  administrator resubmits what stays on the list; the user's page polls an upload
  until it is over; the nightly job runs every night and does not fail every night.
* Requests of users never have to begin, except these polls and resubmissions. No
  crash, failure or restart is fair, nor are they excluded, save by `MaxFailures`.
* Editing and credentials have no fairness: a save or a link may be abandoned, and
  their properties are about what may be seen at any moment.

## 6. What is proved

Each `_proofs` module holds for every value of the constants that satisfies the
named assumptions of its module. The pattern is `Init => Inv`,
`Inv /\ [Next]_vars => Inv'`, `Inv => Property`, with one step or lemma per action.

* `SchedulerLock_proofs`: all five properties of `scheduler_safety`. The lease
  needs `LeaseInv`: a running timer is shorter than what is left of the lease, and
  a call waiting for its verification still has the whole lease but for the time it
  has waited. This is where `VerifyLatency + RefreshInterval < LockTimeout` is
  used, which the configuration satisfies by far. `OutcomeInv` does the same for
  answers and logs: a call that has not returned has promised nothing.
* `AccountLife_proofs`, about `UserSession`, which it instances as `Auth` under the
  assumptions of that module (`SessionLimits`, a hypothesis of each of these
  theorems): types, and the two windows from `WindowInv`. It bounds the
  age of every piece of information that can still let a session in: the reader
  shows nothing older than its lag, a request has read nothing older than that and
  its own age, and an entry loses a tick of life whenever its content gets a tick
  older. The bounds are sums of the TTLs, the lag and the latency, for any values.
* `AccountLife_proofs`, about its own component: types, `LocksAreEarned` from
  `AttemptInv` (no count stored or held is ahead of the wrong passwords tried) and
  `RegularUsersKeepAccess` from `UseInv` (the row never forgets the day of sign-in
  before the latest one, and whoever is about to disable an account had a reason
  that time cannot undo).
* `Credentials_proofs`: types; `LinksAreUsedOnce`: a link that has written a
  password is no longer the one the account holds, because one statement compares
  it, writes and removes it, and a link is issued once (`LinksUnused`: a stored link
  has been issued, has written nothing and is stored once); `NobodyIsEverStuck`,
  from `AcceptedIsActive`: a request that is about to accept an invitation finds
  the account active, unless a late approval has put it back to approved; and
  `PasswordsAreNew`. The record of old passwords is written and cut after the
  fact, so the invariant, `ReuseInv`, follows each of the latest passwords: it is
  the current one, or a request is about to archive it, or it is in the record,
  with fewer newer rows there than in the history (the current one is not in the
  record), and outside what any clean-up is about to delete (`Kept`). A request that has looked at the record, still holds its link and
  still knows the current password has no archive beside it (`Checked`), so what it
  did not find is not among the latest. The ranks are cardinalities of sets of newer
  rows; a new row shifts them all by one.
* `FundingEditing_proofs`: types; `TotalsAreSums` for any saves together; and the
  three invariants of saves that do not overlap, from `SerialInv`: the rows fit the
  project (`RowsInv`), at most one request is busy, and each of its threads has a
  claim on the rows (`Claim`: what it has found is still there, what it is about to
  write is inside the range and of selected sources). A source that is being dropped
  is empty, or a thread is still to empty it (`Settling`), and this is what lets the
  project be written last; threads that run together work on different years
  (`Apart`). That rows are inside the range (`RangeClean`) is claimed while no page of a
  date has narrowed it; such a page has no thread but the project's. Sums over a finite set of sources need an induction, which is done here
  by a minimal counterexample (`MinimalSubset`, from the well-foundedness of
  strict inclusion).
* `ProposalEditing_proofs`: all five properties of `proposal_pages`, for any users,
  entries, starts, instances and number of saves. Types and `FollowUpsAreAsked` hold
  whatever overlaps, from `EditingInv`: what is stored, read, seen or cached is
  `Answered`, and what a save is about to write to the proposal is `Paired`: a
  question that is answered so that its follow-up falls away is written with the
  follow-up as null, and a follow-up is only written with the answer that asks it
  (at `CLEAR_STALE_DATA` by `ClearingAssumption`, see section 3).
  So one statement cannot part them, from whatever old state the save was made.
  `NothingIsLeftOver` and `SavedDatesFitSubmission` are about saves one after the
  other, from `SerialInv`: the request at work is alone, has read the proposal its
  user saw, and its remaining statements fit (`SaveFits`): the proposal they lead to
  is tidy and its new dates pass (`DatesFit`), the rows that would be left over are
  deleted by an earlier statement, and no statement makes a row that is not selected
  (`TableFits`, before the save and after). This is why a save may fail between any
  two statements. That a page leads from a tidy proposal to a tidy one (`SavedTidy`)
  has a lemma for each kind of leftover, that its dates pass `SavedDatesFit`; both go
  through what a page asks (`PagesAsk`), needs (`FormNeeds`) and clears (`ClearsOn`).
  `SubmittedAsAsked` adds that a request that is submitting is alone since its check,
  so the proposal is still `Submittable`, and tidy: `ReadyIsAsked` compares each
  question with the part of the payload that answers it (`SentParts`).
* `Submission_proofs`: types, `RecordsAreTrue`, `OnlyCommittedQueued`, and the
  refinement `DeliversAtLeastOnce`: each step of `Submission` is a `Put`, a
  `Handle`, a `Remove` or a stutter of `Delivery`. The invariant says that a
  consumer that is about to delete has handled the message it holds, also when the
  message was received again in between.
* `BenefitAreaFile_proofs`: types, and the three safety properties from one
  invariant, `FileInv`: a complete archive is under its own key, or under its
  standard key, or replaced; a worker deletes the source only when the copy is
  there or was replaced; and it holds a standard key only of a file that got there.
  `Grows` is what every step guarantees to the other workers.
* `ProgrammeDownload_proofs`: types, for users and administrators together;
  `ReadyFilesAreThere` from `FilesPut` (a file is in the bucket before the job, and
  then the record, names it) and `OwnerInv` (a job works under the owner of its
  record); `ShownRecordsAreWorkedOn` from `WorkedOn` and `Ended`: a job that is
  about to delete its message has said how it ended, and if its record is still
  waited for, another copy of the job is at work on it, or it is lost. The job that
  gives way is the case that needs the owners: if its reader has caught up, the record
  it found is the newest one of the administrators, so its own is not the one that is
  shown; if not, its record is counted as lost.

The theorems worth knowing are listed with a sentence each in `PROJECT.json`.

Only model-checked: all liveness properties (`AbandonedLockLapses`,
`CurrentSessionSettles`, `AbandonedAccountIsDisabled`, `EnqueuedIsHandled`,
`FailedSubmissionsRecover`, `UploadSettles`, `DownloadSettles`), which are beyond
the proof system under fairness. Every safety property of a passing run is a
theorem.

## 7. What is not modelled

* Reference numbers (one atomic statement; its wrap-around is one expression),
  areas (queries and an upsert of one row), the audit archive (its scheduling is in
  `SchedulerLock`): planned, see section 2.
* The FCERM1 workbook of a project, mails, logging, metrics, health checks, the
  gateway guard, configuration, mappers from columns to fields: input and output
  without state of their own.
* The deletion of accounts; creating a proposal; what section 3 lists under "Left
  out" for each module.
* Which user an audit row names: audit rows are outside the models.
