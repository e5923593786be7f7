-------------------------- MODULE BenefitAreaFile --------------------------
(***************************************************************************)
(* The benefit-area file of one project.  An uploader scans a file, puts   *)
(* it in the bucket under a key of its own and says so by a callback and   *)
(* to whoever polls; either way a request checks the archive, saves the    *)
(* outcome, moves the object to its standard key and writes that key into  *)
(* the project.  The file's base64 form is cached in the project later.    *)
(* Users delete the file and a nightly task removes unfinished uploads.    *)
(* Every call to the bucket or the database is a step of its own.          *)
(***************************************************************************)
EXTENDS Naturals, FiniteSets

CONSTANTS
    Upload,       \* upload sessions for the project
    FileName,     \* names of the files users choose
    Worker,       \* slots for requests in progress, on any instance
    MaxFailures,  \* bound: failures and crashes in a behaviour
    None          \* no object, no key, no upload

ASSUME FileAssumption ==
    /\ Upload \cap FileName = {}
    /\ None \notin Upload \cup FileName
    /\ MaxFailures \in Nat

\* An upload stands for its content and for the key the uploader chooses, a
\* file name for the standard key, slug/version/filename.
Key == Upload \cup FileName

VARIABLES
    name,      \* the name of each uploaded file
    scan,      \* what the uploader knows of it; an archive may lack files
    objects,   \* the bucket: the upload whose content is under a key
    row,       \* upload_status of its row in file_uploads
    fileKey,   \* the project's benefit_area_file_s3_key
    base64,    \* the upload whose content is cached in the project
    pc,        \* the next step of each worker
    job,       \* the upload it processes
    key,       \* the key it works on, s3_key of its upload record
    good,      \* has it found the file acceptable?
    bytes,     \* the content it has fetched
    replaced,  \* history: uploads deleted by users or overwritten by another
    failures   \* number of failures and crashes so far

projectVars == <<fileKey, base64>>
workerVars == <<pc, job, key, good, bytes>>
vars == <<name, scan, objects, row, projectVars, workerVars, replaced, failures>>

Scanned == {"clean", "incomplete", "rejected"}

UploadStep == {"validate", "save", "copy", "remove", "rekey", "show"}
Step == UploadStep \cup {"fetch", "cache", "unlink", "clear"}

TypeOK ==
    /\ name \in [Upload -> FileName]
    /\ scan \in [Upload -> {"none", "scanning"} \cup Scanned]
    /\ objects \in [Key -> Upload \cup {None}]
    /\ row \in [Upload -> {"none", "pending", "ready", "failed", "removed"}]
    /\ fileKey \in Key \cup {None}
    /\ base64 \in Upload \cup {None}
    /\ pc \in [Worker -> {"idle"} \cup Step]
    /\ job \in [Worker -> Upload \cup {None}]
    /\ \A w \in Worker : pc[w] \in UploadStep => job[w] # None
    /\ key \in [Worker -> Key \cup {None}]
    /\ \A w \in Worker : pc[w] # "idle" <=> key[w] # None
    /\ good \in [Worker -> BOOLEAN]
    /\ bytes \in [Worker -> Upload \cup {None}]
    /\ \A w \in Worker : pc[w] = "cache" => bytes[w] # None
    /\ replaced \subseteq Upload
    /\ failures \in 0 .. MaxFailures

Init ==
    /\ name \in [Upload -> FileName]
    /\ scan = [u \in Upload |-> "none"]
    /\ objects = [k \in Key |-> None]
    /\ row = [u \in Upload |-> "none"]
    /\ fileKey = None
    /\ base64 = None
    /\ pc = [w \in Worker |-> "idle"]
    /\ job = [w \in Worker |-> None]
    /\ key = [w \in Worker |-> None]
    /\ good = [w \in Worker |-> FALSE]
    /\ bytes = [w \in Worker |-> None]
    /\ replaced = {}
    /\ failures = 0

----------------------------------------------------------------------------
(* Steps of a worker                                                       *)

Take(w, step, u, k) ==
    /\ pc[w] = "idle"
    /\ pc' = [pc EXCEPT ![w] = step]
    /\ job' = [job EXCEPT ![w] = u]
    /\ key' = [key EXCEPT ![w] = k]
    /\ UNCHANGED <<good, bytes>>

Goto(w, step) ==
    /\ pc' = [pc EXCEPT ![w] = step]
    /\ UNCHANGED <<job, key, good, bytes>>

End(w) ==
    /\ pc' = [pc EXCEPT ![w] = "idle"]
    /\ job' = [job EXCEPT ![w] = None]
    /\ key' = [key EXCEPT ![w] = None]
    /\ good' = [good EXCEPT ![w] = FALSE]
    /\ bytes' = [bytes EXCEPT ![w] = None]

Fails ==
    /\ failures < MaxFailures
    /\ failures' = failures + 1

----------------------------------------------------------------------------
(* The uploader, and the row of an upload                                  *)

\* initiateUpload opens a session with the uploader ...
Initiate(u) ==
    /\ scan[u] = "none"
    /\ scan' = [scan EXCEPT ![u] = "scanning"]
    /\ UNCHANGED <<name, objects, row, projectVars, workerVars, replaced,
                   failures>>

\* ... and then stores the row, if it gets that far.
CreateRow(u) ==
    /\ scan[u] # "none"
    /\ row[u] = "none"
    /\ row' = [row EXCEPT ![u] = "pending"]
    /\ UNCHANGED <<name, scan, objects, projectVars, workerVars, replaced,
                   failures>>

\* A file that passes the scan is in the bucket when the uploader says so.
ScanEnds(u, verdict) ==
    /\ scan[u] = "scanning"
    /\ scan' = [scan EXCEPT ![u] = verdict]
    /\ objects' = [objects EXCEPT ![u] = IF verdict = "rejected" THEN @ ELSE u]
    /\ UNCHANGED <<name, row, projectVars, workerVars, replaced, failures>>

\* cleanup-incomplete-uploads.  Of the failed uploads, those that the uploader
\* passed have file_status complete and stay.
CleanUp ==
    /\ row' = [u \in Upload |->
                 IF \/ row[u] = "pending"
                    \/ row[u] = "failed" /\ scan[u] = "rejected"
                 THEN "removed" ELSE row[u]]
    /\ UNCHANGED <<name, scan, objects, projectVars, workerVars, replaced,
                   failures>>

----------------------------------------------------------------------------
(* Processing an upload                                                    *)

\* Faulty: uploads that the uploader rejected are left to its callback.
AwaitedClean(u) == row[u] = "pending" /\ scan[u] \in Scanned \ {"rejected"}

Awaited(u) == row[u] = "pending" /\ scan[u] \in Scanned

\* The callback and the poll go on only with a row that is pending.
Begin(w, u) ==
    /\ Awaited(u)
    /\ Take(w, "validate", u, u)
    /\ UNCHANGED <<name, scan, objects, row, projectVars, replaced, failures>>

\* Faulty: what passed the scan is taken as a complete archive.
ValidateScanOnly(w) ==
    /\ pc[w] = "validate"
    /\ pc' = [pc EXCEPT ![w] = "save"]
    /\ good' = [good EXCEPT ![w] = scan[job[w]] # "rejected"]
    /\ UNCHANGED <<name, scan, objects, row, projectVars, job, key, bytes,
                   replaced, failures>>

\* performHostApplicationValidation: the archive is complete; or it is not,
\* and the object is deleted; or it cannot be read, which is no better.
Validate(w) ==
    /\ pc[w] = "validate"
    /\ pc' = [pc EXCEPT ![w] = "save"]
    /\ LET u == job[w]
           readable == scan[u] # "rejected" /\ objects[u] # None
       IN  \/ /\ readable
              /\ good' = [good EXCEPT ![w] = scan[u] = "clean"]
              /\ objects' = [objects EXCEPT ![u] =
                               IF scan[u] = "clean" THEN @ ELSE None]
              /\ UNCHANGED failures
           \/ /\ \/ readable /\ Fails
                 \/ ~readable /\ UNCHANGED failures
              /\ good' = [good EXCEPT ![w] = FALSE]
              /\ UNCHANGED objects
    /\ UNCHANGED <<name, scan, row, projectVars, job, key, bytes, replaced>>

\* The outcome is written over whatever the row says by now.
Save(w) ==
    /\ pc[w] = "save"
    /\ row[job[w]] # "removed"
    /\ row' = [row EXCEPT ![job[w]] = IF good[w] THEN "ready" ELSE "failed"]
    /\ IF good[w] THEN Goto(w, "copy") ELSE End(w)
    /\ UNCHANGED <<name, scan, objects, projectVars, replaced, failures>>

\* There is no row to write to.
SaveNothing(w) ==
    /\ pc[w] = "save"
    /\ row[job[w]] = "removed"
    /\ End(w)
    /\ UNCHANGED <<name, scan, objects, row, projectVars, replaced, failures>>

\* relocateBenefitAreaFile: copy, delete, update the row.
CopyObject(w) ==
    /\ pc[w] = "copy"
    /\ objects[job[w]] # None
    /\ objects' = [objects EXCEPT ![name[job[w]]] = objects[job[w]]]
    /\ replaced' = replaced \cup ({objects[name[job[w]]]} \ {job[w], None})
    /\ Goto(w, "remove")
    /\ UNCHANGED <<name, scan, row, projectVars, failures>>

RemoveSource(w) ==
    /\ pc[w] = "remove"
    /\ objects' = [objects EXCEPT ![job[w]] = None]
    /\ Goto(w, "rekey")
    /\ UNCHANGED <<name, scan, row, projectVars, replaced, failures>>

Rekey(w) ==
    /\ pc[w] = "rekey"
    /\ row[job[w]] # "removed"
    /\ pc' = [pc EXCEPT ![w] = "show"]
    /\ key' = [key EXCEPT ![w] = name[job[w]]]
    /\ UNCHANGED <<name, scan, objects, row, projectVars, job, good, bytes,
                   replaced, failures>>

\* Faulty: a copy that failed is followed by the deletion all the same.
RelocationFailsUnnoticed(w) ==
    /\ pc[w] = "copy" /\ Fails
    /\ Goto(w, "remove")
    /\ UNCHANGED <<name, scan, objects, row, projectVars, replaced>>

\* Faulty: the project gets the standard key although the move failed.
RelocationFailsRekeyed(w) ==
    /\ pc[w] \in {"copy", "remove", "rekey"} /\ Fails
    /\ pc' = [pc EXCEPT ![w] = "show"]
    /\ key' = [key EXCEPT ![w] = name[job[w]]]
    /\ UNCHANGED <<name, scan, objects, row, projectVars, job, good, bytes,
                   replaced>>

\* Whatever goes wrong, the project gets the uploader's key.
RelocationFails(w) ==
    /\ \/ pc[w] = "copy" /\ objects[job[w]] = None /\ UNCHANGED failures
       \/ pc[w] = "rekey" /\ row[job[w]] = "removed" /\ UNCHANGED failures
       \/ pc[w] \in {"copy", "remove", "rekey"} /\ Fails
    /\ Goto(w, "show")
    /\ UNCHANGED <<name, scan, objects, row, projectVars, replaced>>

\* updateBenefitAreaFile
Show(w) ==
    /\ pc[w] = "show"
    /\ fileKey' = key[w]
    /\ base64' = None
    /\ Goto(w, "fetch")
    /\ UNCHANGED <<name, scan, objects, row, replaced, failures>>

----------------------------------------------------------------------------
(* The cached content                                                      *)

\* getProject fetches the file of the row it has read; the cached content is
\* not among the columns read there, so it is fetched again every time.
BeginWarm(w) ==
    /\ fileKey # None
    /\ Take(w, "fetch", None, fileKey)
    /\ UNCHANGED <<name, scan, objects, row, projectVars, replaced, failures>>

\* Faulty: a missing object is cached as nothing.
FetchMissing(w) ==
    /\ pc[w] = "fetch"
    /\ bytes' = [bytes EXCEPT ![w] = objects[key[w]]]
    /\ pc' = [pc EXCEPT ![w] = "cache"]
    /\ UNCHANGED <<name, scan, objects, row, projectVars, job, key, good,
                   replaced, failures>>

\* fetchShapefileBase64 ...
Fetch(w) ==
    /\ pc[w] = "fetch"
    /\ IF objects[key[w]] = None THEN End(w)
       ELSE /\ bytes' = [bytes EXCEPT ![w] = objects[key[w]]]
            /\ pc' = [pc EXCEPT ![w] = "cache"]
            /\ UNCHANGED <<job, key, good>>
    /\ UNCHANGED <<name, scan, objects, row, projectVars, replaced, failures>>

\* ... and cacheShapefileBase64, which does not look at the row again.
Cache(w) ==
    /\ pc[w] = "cache"
    /\ base64' = bytes[w]
    /\ End(w)
    /\ UNCHANGED <<name, scan, objects, row, fileKey, replaced, failures>>

----------------------------------------------------------------------------
(* Deleting the file                                                       *)

BeginDelete(w) ==
    /\ fileKey # None
    /\ Take(w, "unlink", None, fileKey)
    /\ UNCHANGED <<name, scan, objects, row, projectVars, replaced, failures>>

Unlink(w) ==
    /\ pc[w] = "unlink"
    /\ objects' = [objects EXCEPT ![key[w]] = None]
    /\ replaced' = replaced \cup ({objects[key[w]]} \ {None})
    /\ Goto(w, "clear")
    /\ UNCHANGED <<name, scan, row, projectVars, failures>>

\* clearBenefitAreaFile leaves the cached content.
Clear(w) ==
    /\ pc[w] = "clear"
    /\ fileKey' = None
    /\ End(w)
    /\ UNCHANGED <<name, scan, objects, row, base64, replaced, failures>>

\* The bucket or the database fails, or the instance stops, at any step: the
\* worker's request ends there.
GiveUp(w) ==
    /\ pc[w] # "idle"
    /\ Fails
    /\ End(w)
    /\ UNCHANGED <<name, scan, objects, row, projectVars, replaced>>

----------------------------------------------------------------------------
Relocate(w) ==
    CopyObject(w) \/ RemoveSource(w) \/ Rekey(w) \/ RelocationFails(w)

Proceed(w) ==
    \/ Validate(w) \/ Save(w) \/ SaveNothing(w) \/ Relocate(w) \/ Show(w)
    \/ Fetch(w) \/ Cache(w) \/ Unlink(w) \/ Clear(w)

Next ==
    \/ \E u \in Upload :
          \/ Initiate(u) \/ CreateRow(u)
          \/ \E verdict \in Scanned : ScanEnds(u, verdict)
    \/ \E w \in Worker :
          \/ Proceed(w) \/ GiveUp(w) \/ BeginWarm(w) \/ BeginDelete(w)
          \/ \E u \in Upload : Begin(w, u)
    \/ CleanUp

Spec == Init /\ [][Next]_vars

\* Requests run on, and the user's page polls until the upload is over.  A
\* worker is idle time and again, not for ever, hence the strong fairness.
FairSpec ==
    /\ Spec
    /\ \A w \in Worker : WF_vars(Proceed(w))
    /\ \A u \in Upload : SF_vars(\E w \in Worker : Begin(w, u))

----------------------------------------------------------------------------
(* Properties                                                              *)

\* An upload that was accepted is not lost: whatever fails or overlaps while
\* its object is moved, its content is somewhere in the bucket until a user
\* deletes it or another file of the same name takes its place.
Stored(u) == \E k \in Key : objects[k] = u
AcceptedFileIsKept ==
    \A u \in Upload : scan[u] = "clean" => Stored(u) \/ u \in replaced

\* The project never shows, caches or sends a file that was not checked: the
\* content under its key and the cached one are of complete archives.
OnlyCheckedFilesShown ==
    /\ fileKey # None /\ objects[fileKey] # None =>
          scan[objects[fileKey]] = "clean"
    /\ base64 # None => scan[base64] = "clean"

\* A project that shows a standard key shows a file that is there, unless
\* someone has deleted it: the key is not written before the object.
StandardKeyHolds ==
    fileKey \in FileName /\ objects[fileKey] = None =>
        \E u \in replaced : name[u] = fileKey

\* An upload whose scan is over does not stay pending while its page polls.
UploadSettles ==
    \A u \in Upload : row[u] = "pending" /\ scan[u] \in Scanned ~> row[u] # "pending"
=============================================================================
