-------------------------- MODULE ProgrammeDownload --------------------------
(***************************************************************************)
(* Programme downloads: a request replaces the owner's download record and *)
(* queues its generation; a consumer on some instance takes the message,   *)
(* loads the proposals, puts a workbook and an archive of benefit areas in *)
(* the bucket and marks the record.  The administrators share one record,  *)
(* whose jobs look for one another before they begin, in the reader of the *)
(* database, which may lag behind its writer.  A message comes again when  *)
(* its consumer is slow, fails or stops.                                   *)
(***************************************************************************)
EXTENDS Naturals, FiniteSets

CONSTANTS
    Owner,        \* users with downloads of their own, and Admin
    Admin,        \* the owner of the shared record (user_id is null)
    Download,     \* ids for records; a record's message bears its id
    File,         \* kinds of files that a download offers
    Archive,      \* those among them that are archives of other files
    Request,      \* slots for requests in progress
    Consumer,     \* instances, each of which handles one message at a time
    MaxBatches,   \* bound: batches in which the administrators' proposals load
    MaxFailures,  \* bound: failures and crashes in a behaviour
    None          \* no owner, no record

ASSUME ConstantAssumption ==
    /\ Admin \in Owner
    /\ Archive \subseteq File
    /\ None \notin Owner \cup Download
    /\ Request \cap Consumer = {}
    /\ MaxBatches \in Nat \ {0} /\ MaxFailures \in Nat

VARIABLES
    rec,       \* pafs_core_area_downloads by id
    newest,    \* each owner's record with the latest updated_at
    queue,     \* each message: is it there, whose is it, was it handled?
    objects,   \* files in the bucket: <<owner, kind>> stands for the key
    pc,        \* each request and consumer: its next step
    holds,     \* the record it works on
    for,       \* the owner it works for
    batches,   \* batches a job has still to load
    files,     \* files a job has made
    reader,    \* the administrators' latest record as the reader shows it:
               \* None when it is not being generated
    lost,      \* history: records being generated whose message was never
               \* sent, whose last status write failed, whose job stopped when
               \* another copy of it had already handled the message, or whose
               \* job gave way to what a reader that lags behind showed
    failures   \* number of failures and crashes so far

processVars == <<pc, holds, for, batches, files>>
vars == <<rec, newest, queue, objects, processVars, reader, lost, failures>>

Process == Request \cup Consumer

Record == [owner: Owner \cup {None}, files: SUBSET File,
           status: {"none", "generating", "ready", "failed"}]
NoRecord == [owner |-> None, status |-> "none", files |-> {}]

Slot == [at: {"absent", "queued"}, owner: Owner \cup {None},
         handled: BOOLEAN]
EmptySlot == [at |-> "absent", owner |-> None, handled |-> FALSE]

RequestStep == {"create", "enqueue"}
JobStep == {"guard", "start", "report", "upload", "finish", "failed"}

TypeOK ==
    /\ rec \in [Download -> Record]
    /\ newest \in [Owner -> Download \cup {None}]
    /\ queue \in [Download -> Slot]
    /\ objects \subseteq Owner \X File
    /\ pc \in [Process -> {"idle", "delete"} \cup RequestStep \cup JobStep]
    /\ holds \in [Process -> Download \cup {None}]
    /\ for \in [Process -> Owner \cup {None}]
    /\ batches \in [Process -> 0..MaxBatches]
    /\ files \in [Process -> SUBSET File]
    /\ reader \in Download \cup {None}
    /\ lost \subseteq Download
    /\ failures \in 0..MaxFailures
    /\ \A c \in Consumer : pc[c] # "idle" => holds[c] # None /\ for[c] # None
    /\ \A d \in Download : rec[d].owner = None <=> rec[d] = NoRecord

Init ==
    /\ rec = [d \in Download |-> NoRecord]
    /\ newest = [o \in Owner |-> None]
    /\ queue = [d \in Download |-> EmptySlot]
    /\ objects = {}
    /\ pc = [p \in Process |-> "idle"]
    /\ holds = [p \in Process |-> None]
    /\ for = [p \in Process |-> None]
    /\ batches = [p \in Process |-> 0]
    /\ files = [p \in Process |-> {}]
    /\ reader = None
    /\ lost = {}
    /\ failures = 0

-----------------------------------------------------------------------------
(* Helpers                                                                 *)

Fails == failures < MaxFailures /\ failures' = failures + 1

Lose(D) == lost' = lost \cup {d \in D : rec[d].status = "generating"}

Exists(d) == rec[d].status # "none"

\* What getAdminDownloadRecord would find on the writer: the latest updated of
\* the administrators' records, if it is being generated.
Generating ==
    LET d == newest[Admin]
    IN  IF d # None /\ rec[d].status = "generating" THEN d ELSE None

\* updateDownloadRecord finds the record and writes it.
Update(d, r) ==
    /\ Exists(d)
    /\ rec' = [rec EXCEPT ![d] = r]
    /\ newest' = [newest EXCEPT ![r.owner] = d]

Rest(p) ==
    /\ pc' = [pc EXCEPT ![p] = "idle"]
    /\ holds' = [holds EXCEPT ![p] = None]
    /\ for' = [for EXCEPT ![p] = None]
    /\ batches' = [batches EXCEPT ![p] = 0]
    /\ files' = [files EXCEPT ![p] = {}]

\* A job has come to its end: its message can go.
Handled(c) == queue' = [queue EXCEPT ![holds[c]].handled =
                            @ \/ queue[holds[c]].at # "absent"]

-----------------------------------------------------------------------------
(* Requests                                                                *)

\* generate, startUserDownload and startAdminDownload: all records of the
\* owner are deleted, whatever their jobs are doing.
Replace(q, o) ==
    /\ pc[q] = "idle"
    /\ rec' = [d \in Download |-> IF rec[d].owner = o THEN NoRecord ELSE rec[d]]
    /\ newest' = [newest EXCEPT ![o] = None]
    /\ pc' = [pc EXCEPT ![q] = "create"]
    /\ for' = [for EXCEPT ![q] = o]
    /\ lost' = {d \in lost : rec[d].owner # o}
    /\ UNCHANGED <<queue, objects, holds, batches, files, reader, failures>>

\* The new record is created by a statement of its own, with an id that was
\* never used.
Create(q, d) ==
    /\ pc[q] = "create"
    /\ ~Exists(d) /\ queue[d].at = "absent" /\ \A p \in Process : holds[p] # d
    /\ d # reader
    /\ rec' = [rec EXCEPT ![d] =
                  [owner |-> for[q], status |-> "generating", files |-> {}]]
    /\ newest' = [newest EXCEPT ![for[q]] = d]
    /\ pc' = [pc EXCEPT ![q] = "enqueue"]
    /\ holds' = [holds EXCEPT ![q] = d]
    /\ UNCHANGED <<queue, objects, for, batches, files, reader, lost, failures>>

\* queueUserGeneration and queueAdminGeneration.
Send(q) == queue' = [queue EXCEPT ![holds[q]] =
                        [at |-> "queued", owner |-> for[q], handled |-> FALSE]]

Enqueue(q) ==
    /\ pc[q] = "enqueue"
    /\ Send(q)
    /\ Rest(q)
    /\ UNCHANGED <<rec, newest, objects, reader, lost, failures>>

\* A statement or the sending fails, or the instance stops: the answer is an
\* error and nothing is undone.  A message may have been taken all the same.
RequestFails(q) ==
    /\ pc[q] # "idle"
    /\ Fails
    /\ \/ /\ pc[q] = "enqueue"
          /\ Send(q)
          /\ UNCHANGED lost
       \/ /\ Lose({holds[q]} \ {None})
          /\ UNCHANGED queue
    /\ Rest(q)
    /\ UNCHANGED <<rec, newest, objects, reader>>

-----------------------------------------------------------------------------
(* Jobs                                                                    *)

\* A message can be received again as long as it is on the queue, even if its
\* consumer is still working: the visibility timeout may have run out.
Receive(c, d) ==
    /\ pc[c] = "idle"
    /\ queue[d].at = "queued"
    /\ pc' = [pc EXCEPT ![c] = IF queue[d].owner = Admin THEN "guard" ELSE "start"]
    /\ holds' = [holds EXCEPT ![c] = d]
    /\ for' = [for EXCEPT ![c] = queue[d].owner]
    /\ UNCHANGED <<rec, newest, queue, objects, batches, files, reader, lost, failures>>

\* Faulty: the job gives way to its own record as well.
BusyForgetsOwn(c) == reader # None

\* getAdminDownloadRecord, which the reader answers: another record is being
\* generated.
Busy(c) == reader \notin {None, holds[c]}

\* runAdminGeneration gives way to a busy record; its own is left as it is.
Guard(c) ==
    /\ pc[c] = "guard"
    /\ pc' = [pc EXCEPT ![c] = IF Busy(c) THEN "delete" ELSE "start"]
    /\ IF Busy(c) THEN Handled(c) ELSE UNCHANGED queue
    /\ Lose({d \in {holds[c]} : Busy(c) /\ reader # Generating})
    /\ UNCHANGED <<rec, newest, objects, holds, for, batches, files, reader, failures>>

\* The proposals to load are read, and the first progress is written.  A user's
\* are loaded at once, those of the administrators in batches.
Start(c) ==
    /\ pc[c] = "start"
    /\ Update(holds[c], rec[holds[c]])
    /\ \E n \in IF for[c] = Admin THEN 0..MaxBatches ELSE {1} :
          /\ batches' = [batches EXCEPT ![c] = n]
          /\ pc' = [pc EXCEPT ![c] = IF n = 0 THEN "upload" ELSE "report"]
    /\ UNCHANGED <<queue, objects, holds, for, files, reader, lost, failures>>

\* A batch is loaded, and the progress is written.
Report(c) ==
    /\ pc[c] = "report"
    /\ Update(holds[c], rec[holds[c]])
    /\ batches' = [batches EXCEPT ![c] = @ - 1]
    /\ pc' = [pc EXCEPT ![c] = IF batches[c] = 1 THEN "upload" ELSE "report"]
    /\ UNCHANGED <<queue, objects, holds, for, files, reader, lost, failures>>

\* Faulty: the record names files that there was nothing to put into.
UploadNamesAll(c) ==
    /\ pc[c] = "upload"
    /\ \E put \in SUBSET File : objects' = objects \cup {for[c]} \X put
    /\ files' = [files EXCEPT ![c] = File]
    /\ pc' = [pc EXCEPT ![c] = "finish"]
    /\ UNCHANGED <<rec, newest, queue, holds, for, batches, reader, lost, failures>>

\* uploadFcerm1IfAny and fetchAndUploadBenefitAreas, one after the other; nobody
\* reads the bucket in between.  There is no file of a kind when there is nothing
\* to put into it; an archive whose contents could not be read is put, but the
\* record will not name it.
Upload(c) ==
    /\ pc[c] = "upload"
    /\ \E put \in SUBSET File, named \in SUBSET File :
          /\ named \subseteq put /\ put \ named \subseteq Archive
          /\ objects' = objects \cup {for[c]} \X put
          /\ files' = [files EXCEPT ![c] = named]
    /\ pc' = [pc EXCEPT ![c] = "finish"]
    /\ UNCHANGED <<rec, newest, queue, holds, for, batches, reader, lost, failures>>

Finish(c) ==
    /\ pc[c] = "finish"
    /\ Update(holds[c], [rec[holds[c]] EXCEPT !.status = "ready",
                                              !.files = files[c]])
    /\ Handled(c)
    /\ pc' = [pc EXCEPT ![c] = "delete"]
    /\ files' = [files EXCEPT ![c] = {}]
    /\ UNCHANGED <<objects, holds, for, batches, reader, lost, failures>>

\* A step of the job throws: a read, a put or a write fails, or the record to
\* write has been deleted.
Throws(c) ==
    /\ pc[c] \in JobStep \ {"guard", "failed"}
    /\ \/ pc[c] \in {"start", "report", "finish"} /\ ~Exists(holds[c])
          /\ UNCHANGED failures
       \/ Fails
    /\ pc' = [pc EXCEPT ![c] = "failed"]
    /\ batches' = [batches EXCEPT ![c] = 0]
    /\ files' = [files EXCEPT ![c] = {}]
    /\ UNCHANGED <<rec, newest, queue, objects, holds, for, reader, lost>>

\* Faulty: an error ends the job without a word in the record.
MarkFailedNot(c) ==
    /\ pc[c] = "failed"
    /\ Handled(c)
    /\ pc' = [pc EXCEPT ![c] = "delete"]
    /\ UNCHANGED <<rec, newest, objects, holds, for, batches, files, reader, lost, failures>>

\* The record is marked as failed; an error of this write is swallowed.
MarkFailed(c) ==
    /\ pc[c] = "failed"
    /\ \/ /\ Update(holds[c], [rec[holds[c]] EXCEPT !.status = "failed"])
          /\ UNCHANGED <<lost, failures>>
       \/ /\ ~Exists(holds[c])
          /\ UNCHANGED <<rec, newest, lost, failures>>
       \/ /\ Fails
          /\ Lose({holds[c]})
          /\ UNCHANGED <<rec, newest>>
    /\ Handled(c)
    /\ pc' = [pc EXCEPT ![c] = "delete"]
    /\ UNCHANGED <<objects, holds, for, batches, files, reader>>

\* DeleteMessageCommand.  The receipt handle of a message that was received
\* again meanwhile may no longer delete it.
Delete(c) ==
    /\ pc[c] = "delete"
    /\ \/ queue' = [queue EXCEPT ![holds[c]] = EmptySlot]
       \/ /\ \E e \in Consumer \ {c} : holds[e] = holds[c]
          /\ UNCHANGED queue
    /\ Rest(c)
    /\ UNCHANGED <<rec, newest, objects, reader, lost, failures>>

\* The instance stops, the guard cannot read or the message cannot be deleted.
\* The message comes again, unless another copy of the job has handled it.
JobLost(c) ==
    /\ pc[c] # "idle"
    /\ Fails
    /\ Lose({d \in {holds[c]} : queue[d].at = "absent" \/ queue[d].handled})
    /\ Rest(c)
    /\ UNCHANGED <<rec, newest, queue, objects, reader>>

-----------------------------------------------------------------------------
\* The reader catches up with the writer, at any time.
Replicate ==
    /\ reader # Generating
    /\ reader' = Generating
    /\ UNCHANGED <<rec, newest, queue, objects, processVars, lost, failures>>

RequestProceeds(q) ==
    (\E d \in Download : Create(q, d)) \/ Enqueue(q) \/ RequestFails(q)

JobProceeds(c) ==
    \/ Guard(c) \/ Start(c) \/ Report(c)
    \/ Upload(c) \/ Finish(c)
    \/ Throws(c) \/ MarkFailed(c) \/ Delete(c) \/ JobLost(c)

Next ==
    \/ \E q \in Request : (\E o \in Owner : Replace(q, o)) \/ RequestProceeds(q)
    \/ \E c \in Consumer : (\E d \in Download : Receive(c, d)) \/ JobProceeds(c)
    \/ Replicate

Spec == Init /\ [][Next]_vars

\* Requests and jobs run on, and the queue, on which a hidden message reappears,
\* does not pass a message over for ever.
FairSpec ==
    /\ Spec
    /\ \A q \in Request : WF_vars(RequestProceeds(q))
    /\ \A c \in Consumer : WF_vars(JobProceeds(c))
    /\ \A d \in Download : SF_vars(\E c \in Consumer : Receive(c, d))

-----------------------------------------------------------------------------
(* Properties                                                              *)

\* A job past its guard that has not yet written its result.
Working(c, d) == holds[c] = d /\ pc[c] \in JobStep

\* What an owner sees as being generated is going to be generated: its message
\* is about to be sent, waits on the queue, or a job works on it.  The only
\* exceptions (lost) are failures that the code swallows or leaves behind, and
\* a job that gave way to a record which only a reader that lags behind still
\* showed.  A job whose reader has caught up never abandons the record that is
\* shown by giving way to another.
CurrentIsWorkedOn ==
    \A o \in Owner :
        LET d == newest[o] IN
        d # None /\ rec[d].status = "generating" =>
            \/ d \in lost
            \/ queue[d].at # "absent"
            \/ \E q \in Request : pc[q] = "enqueue" /\ holds[q] = d
            \/ \E c \in Consumer : Working(c, d)

\* The files that a ready record offers were put into the bucket under the
\* owner's own keys, whatever other jobs of the owner did meanwhile.
ReadyFilesExist ==
    \A d \in Download : \A f \in rec[d].files : <<rec[d].owner, f>> \in objects

\* The page of a download does not wait for ever: the record that is shown
\* becomes ready, fails, or is replaced, unless a failure was swallowed or its
\* job gave way to what a reader that lags behind showed.
Waits(d) ==
    /\ rec[d].status = "generating" /\ newest[rec[d].owner] = d
    /\ d \notin lost
DownloadSettles == \A d \in Download : Waits(d) ~> ~Waits(d)
=============================================================================
