----------------------- MODULE BenefitAreaFile_proofs -----------------------
(***************************************************************************)
(* Proofs about BenefitAreaFile, for any number of uploads, file names,    *)
(* workers and failures.                                                   *)
(***************************************************************************)
EXTENDS BenefitAreaFile, TLAPS

----------------------------------------------------------------------------
(* Types                                                                   *)

RowsTyped ==
    /\ name \in [Upload -> FileName]
    /\ scan \in [Upload -> {"none", "scanning"} \cup Scanned]
    /\ objects \in [Key -> Upload \cup {None}]
    /\ row \in [Upload -> {"none", "pending", "ready", "failed", "removed"}]
    /\ fileKey \in Key \cup {None}
    /\ base64 \in Upload \cup {None}
    /\ replaced \subseteq Upload
    /\ failures \in 0 .. MaxFailures

WorkersTyped ==
    /\ pc \in [Worker -> {"idle"} \cup Step]
    /\ job \in [Worker -> Upload \cup {None}]
    /\ \A w \in Worker : pc[w] \in UploadStep => job[w] # None
    /\ key \in [Worker -> Key \cup {None}]
    /\ \A w \in Worker : pc[w] # "idle" <=> key[w] # None
    /\ good \in [Worker -> BOOLEAN]
    /\ bytes \in [Worker -> Upload \cup {None}]
    /\ \A w \in Worker : pc[w] = "cache" => bytes[w] # None

LEMMA TypeParts ==
    /\ TypeOK <=> RowsTyped /\ WorkersTyped
    /\ TypeOK' <=> RowsTyped' /\ WorkersTyped'
BY DEF TypeOK, RowsTyped, WorkersTyped

\* What a worker at some step works on.
LEMMA Busy ==
    ASSUME WorkersTyped, NEW w \in Worker, pc[w] # "idle"
    PROVE  /\ key[w] \in Key
           /\ pc[w] \in UploadStep => job[w] \in Upload
           /\ pc[w] = "cache" => bytes[w] \in Upload
BY DEF WorkersTyped

LEMMA SomeNames ==
    /\ \A u \in Upload : u # None /\ u \in Key /\ u \notin FileName
    /\ \A f \in FileName : f # None /\ f \in Key /\ f \notin Upload
BY FileAssumption DEF Key

\* Whatever a worker does, its fields are updated one by one.
LEMMA WorkerMoves ==
    ASSUME WorkersTyped, NEW w \in Worker,
           NEW step \in {"idle"} \cup Step, NEW u \in Upload \cup {None},
           NEW k \in Key \cup {None}, NEW g \in BOOLEAN, NEW b \in Upload \cup {None},
           step \in UploadStep => u # None,
           step # "idle" <=> k # None,
           step = "cache" => b # None,
           pc' = [pc EXCEPT ![w] = step],
           job' = [job EXCEPT ![w] = u],
           key' = [key EXCEPT ![w] = k],
           good' = [good EXCEPT ![w] = g],
           bytes' = [bytes EXCEPT ![w] = b]
    PROVE  WorkersTyped'
<1>1. /\ pc' \in [Worker -> {"idle"} \cup Step]
      /\ job' \in [Worker -> Upload \cup {None}]
      /\ key' \in [Worker -> Key \cup {None}]
      /\ bytes' \in [Worker -> Upload \cup {None}]
  BY DEF WorkersTyped
<1>2. good' \in [Worker -> BOOLEAN]
  BY DEF WorkersTyped
<1>3. \A v \in Worker : pc'[v] \in UploadStep => job'[v] # None
  BY DEF WorkersTyped
<1>4. \A v \in Worker : pc'[v] # "idle" <=> key'[v] # None
  BY DEF WorkersTyped
<1>5. \A v \in Worker : pc'[v] = "cache" => bytes'[v] # None
  BY DEF WorkersTyped
<1> QED BY <1>1, <1>2, <1>3, <1>4, <1>5 DEF WorkersTyped

LEMMA EndTyped ==
    ASSUME WorkersTyped, NEW w \in Worker, End(w)
    PROVE  WorkersTyped'
<1>1. "idle" \notin UploadStep /\ "idle" # "cache" /\ FALSE \in BOOLEAN
  BY DEF UploadStep
<1> QED BY <1>1, WorkerMoves DEF End

LEMMA TakeTyped ==
    ASSUME WorkersTyped, NEW w \in Worker, NEW step \in Step \ {"cache"},
           NEW u \in Upload \cup {None}, NEW k \in Key,
           step \in UploadStep => u # None, Take(w, step, u, k)
    PROVE  WorkersTyped'
<1>1. step # "idle" /\ k # None
  BY FileAssumption DEF Step, UploadStep, Key
<1>2. /\ good[w] \in BOOLEAN /\ good' = [good EXCEPT ![w] = good[w]]
      /\ bytes[w] \in Upload \cup {None} /\ bytes' = [bytes EXCEPT ![w] = bytes[w]]
  BY DEF Take, WorkersTyped
<1> QED BY <1>1, <1>2, WorkerMoves DEF Take

LEMMA GotoTyped ==
    ASSUME WorkersTyped, NEW w \in Worker, pc[w] # "idle", NEW step \in Step \ {"cache"},
           step \in UploadStep => pc[w] \in UploadStep, Goto(w, step)
    PROVE  WorkersTyped'
<1>1. step # "idle"
  BY DEF Step, UploadStep
<1>2. /\ good[w] \in BOOLEAN /\ good' = [good EXCEPT ![w] = good[w]]
      /\ bytes[w] \in Upload \cup {None} /\ bytes' = [bytes EXCEPT ![w] = bytes[w]]
      /\ job[w] \in Upload \cup {None} /\ job' = [job EXCEPT ![w] = job[w]]
      /\ key[w] \in Key \cup {None} /\ key' = [key EXCEPT ![w] = key[w]]
  BY DEF Goto, WorkersTyped
<1>3. key[w] # None /\ (step \in UploadStep => job[w] # None)
  BY DEF WorkersTyped
<1>4. pc' = [pc EXCEPT ![w] = step] /\ step # "cache"
  BY DEF Goto
<1> QED BY <1>1, <1>2, <1>3, <1>4, WorkerMoves

LEMMA FailsTyped ==
    ASSUME RowsTyped, Fails
    PROVE  failures' \in 0 .. MaxFailures
BY FileAssumption DEF Fails, RowsTyped

LEMMA ValidateTyped ==
    ASSUME TypeOK, NEW w \in Worker, Validate(w)
    PROVE  TypeOK'
<1> USE TypeParts
<1>0. pc[w] = "validate" /\ pc[w] # "idle" /\ pc[w] \in UploadStep
  BY DEF Validate, UploadStep
<1>1. job[w] \in Upload /\ key[w] \in Key /\ key[w] # None
  BY <1>0, Busy, FileAssumption DEF Key
<1>2. PICK g \in BOOLEAN : good' = [good EXCEPT ![w] = g]
  <2>1. (scan[job[w]] = "clean") \in BOOLEAN /\ FALSE \in BOOLEAN
    OBVIOUS
  <2> QED BY <2>1 DEF Validate
<1>3. objects' \in [Key -> Upload \cup {None}]
  BY <1>1, SomeNames DEF Validate, RowsTyped
<1>4. failures' \in 0 .. MaxFailures
  BY FailsTyped DEF Validate, RowsTyped
<1>5. RowsTyped'
  BY <1>3, <1>4 DEF Validate, RowsTyped, projectVars
<1>6. /\ bytes[w] \in Upload \cup {None} /\ bytes' = [bytes EXCEPT ![w] = bytes[w]]
      /\ job' = [job EXCEPT ![w] = job[w]]
      /\ key' = [key EXCEPT ![w] = key[w]]
      /\ pc' = [pc EXCEPT ![w] = "save"]
  BY DEF Validate, WorkersTyped
<1>7. job[w] # None /\ "save" \in Step /\ "save" # "idle" /\ "save" # "cache"
  BY <1>1, SomeNames DEF Step, UploadStep
<1>8. WorkersTyped'
  BY <1>1, <1>2, <1>6, <1>7, WorkerMoves
<1> QED BY <1>5, <1>8

\* Relocating: the bucket, the row and the worker's key.
LEMMA RelocateTyped ==
    ASSUME TypeOK, NEW w \in Worker, Relocate(w)
    PROVE  TypeOK'
<1> USE TypeParts
<1>0. pc[w] \in {"copy", "remove", "rekey"}
  BY DEF Relocate, CopyObject, RemoveSource, Rekey, RelocationFails
<1>1. pc[w] # "idle" /\ pc[w] \in UploadStep
  BY <1>0 DEF UploadStep
<1>2. job[w] \in Upload /\ key[w] \in Key
  BY <1>1, Busy
<1>3. name[job[w]] \in FileName /\ name[job[w]] \in Key
  BY <1>2, SomeNames DEF RowsTyped
<1>4. {"remove", "rekey", "show"} \subseteq Step \ {"cache"}
  BY DEF Step, UploadStep
<1>5. CASE CopyObject(w)
  <2>1. objects' \in [Key -> Upload \cup {None}] /\ replaced' \subseteq Upload
    BY <1>2, <1>3, <1>5, SomeNames DEF CopyObject, RowsTyped
  <2>2. RowsTyped'
    BY <1>5, <2>1 DEF CopyObject, RowsTyped, projectVars
  <2>3. WorkersTyped'
    BY <1>1, <1>4, <1>5, GotoTyped DEF CopyObject
  <2> QED BY <2>2, <2>3
<1>6. CASE RemoveSource(w)
  <2>1. objects' \in [Key -> Upload \cup {None}]
    BY <1>2, <1>6, SomeNames DEF RemoveSource, RowsTyped
  <2>2. RowsTyped'
    BY <1>6, <2>1 DEF RemoveSource, RowsTyped, projectVars
  <2>3. WorkersTyped'
    BY <1>1, <1>4, <1>6, GotoTyped DEF RemoveSource
  <2> QED BY <2>2, <2>3
<1>7. CASE Rekey(w)
  <2>1. RowsTyped'
    BY <1>7 DEF Rekey, RowsTyped, projectVars
  <2>2. /\ job[w] \in Upload \cup {None} /\ job' = [job EXCEPT ![w] = job[w]]
        /\ good[w] \in BOOLEAN /\ good' = [good EXCEPT ![w] = good[w]]
        /\ bytes[w] \in Upload \cup {None} /\ bytes' = [bytes EXCEPT ![w] = bytes[w]]
        /\ pc' = [pc EXCEPT ![w] = "show"]
        /\ key' = [key EXCEPT ![w] = name[job[w]]]
    BY <1>7 DEF Rekey, WorkersTyped
  <2>3. job[w] # None /\ name[job[w]] # None /\ "show" # "idle" /\ "show" # "cache"
    BY <1>2, <1>3, SomeNames
  <2>4. WorkersTyped'
    BY <1>3, <1>4, <2>2, <2>3, WorkerMoves
  <2> QED BY <2>1, <2>4
<1>8. CASE RelocationFails(w)
  <2>1. failures' \in 0 .. MaxFailures
    BY <1>8, FailsTyped DEF RelocationFails, RowsTyped
  <2>2. RowsTyped'
    BY <1>8, <2>1 DEF RelocationFails, RowsTyped, projectVars
  <2>3. WorkersTyped'
    BY <1>1, <1>4, <1>8, GotoTyped DEF RelocationFails
  <2> QED BY <2>2, <2>3
<1> QED BY <1>5, <1>6, <1>7, <1>8 DEF Relocate

LEMMA ProceedTyped ==
    ASSUME TypeOK, NEW w \in Worker, Proceed(w)
    PROVE  TypeOK'
<1> USE TypeParts
<1>0. {"copy", "fetch", "clear"} \subseteq Step \ {"cache"}
  BY DEF Step, UploadStep
<1>1. CASE Validate(w)
  BY <1>1, ValidateTyped
<1>2. CASE Save(w)
  <2>1. pc[w] # "idle" /\ pc[w] \in UploadStep
    BY <1>2 DEF Save, UploadStep
  <2>2. row' \in [Upload -> {"none", "pending", "ready", "failed", "removed"}]
    BY <1>2 DEF Save, RowsTyped
  <2>3. RowsTyped'
    BY <1>2, <2>2 DEF Save, RowsTyped, projectVars
  <2>4. Goto(w, "copy") \/ End(w)
    BY <1>2 DEF Save
  <2>5. WorkersTyped'
    BY <1>0, <2>1, <2>4, GotoTyped, EndTyped
  <2> QED BY <2>3, <2>5
<1>3. CASE SaveNothing(w)
  BY <1>3, EndTyped DEF SaveNothing, RowsTyped, projectVars
<1>4. CASE Relocate(w)
  BY <1>4, RelocateTyped
<1>5. CASE Show(w)
  <2>1. pc[w] # "idle" /\ "fetch" \notin UploadStep
    BY <1>5 DEF Show, UploadStep
  <2>2. fileKey' \in Key \cup {None} /\ base64' \in Upload \cup {None}
    BY <1>5, <2>1, Busy DEF Show
  <2>3. RowsTyped'
    BY <1>5, <2>2 DEF Show, RowsTyped
  <2>4. WorkersTyped'
    BY <1>0, <1>5, <2>1, GotoTyped DEF Show
  <2> QED BY <2>3, <2>4
<1>6. CASE Fetch(w)
  <2>1. pc[w] # "idle" /\ key[w] \in Key /\ key[w] # None
    BY <1>6, Busy, FileAssumption DEF Fetch, Key
  <2>2. RowsTyped'
    BY <1>6 DEF Fetch, RowsTyped, projectVars
  <2>3. CASE objects[key[w]] = None
    BY <1>6, <2>2, <2>3, EndTyped DEF Fetch
  <2>4. CASE objects[key[w]] # None
    <3>1. objects[key[w]] \in Upload
      BY <2>1, <2>4 DEF RowsTyped
    <3>2. /\ job[w] \in Upload \cup {None} /\ job' = [job EXCEPT ![w] = job[w]]
          /\ key' = [key EXCEPT ![w] = key[w]]
          /\ good[w] \in BOOLEAN /\ good' = [good EXCEPT ![w] = good[w]]
          /\ pc' = [pc EXCEPT ![w] = "cache"]
          /\ bytes' = [bytes EXCEPT ![w] = objects[key[w]]]
      BY <1>6, <2>4 DEF Fetch, WorkersTyped
    <3>3. "cache" \in Step /\ "cache" \notin UploadStep /\ "cache" # "idle"
      BY DEF Step, UploadStep
    <3>4. WorkersTyped'
      BY <2>1, <2>4, <3>1, <3>2, <3>3, WorkerMoves
    <3> QED BY <2>2, <3>4
  <2> QED BY <2>3, <2>4
<1>7. CASE Cache(w)
  <2>1. base64' \in Upload \cup {None}
    BY <1>7, Busy DEF Cache
  <2>2. RowsTyped'
    BY <1>7, <2>1 DEF Cache, RowsTyped
  <2> QED BY <1>7, <2>2, EndTyped DEF Cache
<1>8. CASE Unlink(w)
  <2>1. pc[w] # "idle" /\ key[w] \in Key /\ "clear" \notin UploadStep
    BY <1>8, Busy DEF Unlink, UploadStep
  <2>2. objects' \in [Key -> Upload \cup {None}] /\ replaced' \subseteq Upload
    BY <1>8, <2>1 DEF Unlink, RowsTyped
  <2>3. RowsTyped'
    BY <1>8, <2>2 DEF Unlink, RowsTyped, projectVars
  <2>4. WorkersTyped'
    BY <1>0, <1>8, <2>1, GotoTyped DEF Unlink
  <2> QED BY <2>3, <2>4
<1>9. CASE Clear(w)
  <2>1. RowsTyped'
    BY <1>9 DEF Clear, RowsTyped
  <2> QED BY <1>9, <2>1, EndTyped DEF Clear
<1> QED BY <1>1, <1>2, <1>3, <1>4, <1>5, <1>6, <1>7, <1>8, <1>9 DEF Proceed

\* Everything that is not a worker going on: ends, beginnings, the uploader.
LEMMA OthersTyped ==
    ASSUME TypeOK, Next \/ UNCHANGED vars,
           ~ \E w \in Worker : Proceed(w)
    PROVE  TypeOK'
<1> USE TypeParts
<1>1. CASE \E u \in Upload : Initiate(u) \/ CreateRow(u)
  BY <1>1 DEF Initiate, CreateRow, RowsTyped, WorkersTyped, projectVars, workerVars
<1>2. CASE \E u \in Upload, verdict \in Scanned : ScanEnds(u, verdict)
  <2>1. PICK u \in Upload, verdict \in Scanned : ScanEnds(u, verdict)
    BY <1>2
  <2>2. /\ scan' \in [Upload -> {"none", "scanning"} \cup Scanned]
        /\ objects' \in [Key -> Upload \cup {None}]
    BY <2>1, SomeNames DEF ScanEnds, RowsTyped
  <2> QED BY <2>1, <2>2 DEF ScanEnds, RowsTyped, WorkersTyped, projectVars, workerVars
<1>3. CASE CleanUp
  <2>1. row' \in [Upload -> {"none", "pending", "ready", "failed", "removed"}]
    BY <1>3 DEF CleanUp, RowsTyped
  <2> QED BY <1>3, <2>1 DEF CleanUp, RowsTyped, WorkersTyped, projectVars, workerVars
<1>4. CASE \E w \in Worker : GiveUp(w)
  <2>1. PICK w \in Worker : GiveUp(w)
    BY <1>4
  <2>2. failures' \in 0 .. MaxFailures
    BY <2>1, FailsTyped DEF GiveUp
  <2> QED BY <2>1, <2>2, EndTyped DEF GiveUp, RowsTyped, projectVars
<1>5. CASE \E w \in Worker : BeginWarm(w) \/ BeginDelete(w)
  <2>1. PICK w \in Worker : BeginWarm(w) \/ BeginDelete(w)
    BY <1>5
  <2>2. /\ fileKey \in Key
        /\ {"fetch", "unlink"} \subseteq Step \ {"cache"}
        /\ "fetch" \notin UploadStep /\ "unlink" \notin UploadStep
    BY <2>1 DEF BeginWarm, BeginDelete, RowsTyped, Step, UploadStep
  <2>3. Take(w, "fetch", None, fileKey) \/ Take(w, "unlink", None, fileKey)
    BY <2>1 DEF BeginWarm, BeginDelete
  <2>4. WorkersTyped'
    BY <2>2, <2>3, TakeTyped
  <2> QED BY <2>1, <2>4 DEF BeginWarm, BeginDelete, RowsTyped, projectVars
<1>6. CASE \E w \in Worker, u \in Upload : Begin(w, u)
  <2>1. PICK w \in Worker, u \in Upload : Begin(w, u)
    BY <1>6
  <2>2. u # None /\ u \in Key /\ "validate" \in Step \ {"cache"}
    BY SomeNames DEF Step, UploadStep
  <2>3. Take(w, "validate", u, u)
    BY <2>1 DEF Begin
  <2>4. WorkersTyped'
    BY <2>2, <2>3, TakeTyped
  <2> QED BY <2>1, <2>4 DEF Begin, RowsTyped, projectVars
<1>7. CASE UNCHANGED vars
  BY <1>7 DEF vars, RowsTyped, WorkersTyped, projectVars, workerVars
<1> QED BY <1>1, <1>2, <1>3, <1>4, <1>5, <1>6, <1>7 DEF Next

LEMMA InitTyped == Init => TypeOK
<1> SUFFICES ASSUME Init PROVE RowsTyped /\ WorkersTyped
  BY TypeParts
<1>1. RowsTyped
  BY FileAssumption DEF Init, RowsTyped
<1>2. WorkersTyped
  BY DEF Init, WorkersTyped, UploadStep
<1> QED BY <1>1, <1>2

\* Every reachable state has the declared types: a worker's step determines
\* which of its upload, key and content are there.
THEOREM FileTypeCorrect == Spec => []TypeOK
<1>1. TypeOK /\ [Next]_vars => TypeOK'
  BY OthersTyped, ProceedTyped
<1> QED BY InitTyped, <1>1, PTL DEF Spec

----------------------------------------------------------------------------
(* The inductive invariant: what the steps between two calls rely on       *)

\* A file of this name is there, or there was one that users deleted.
Lives(f) == objects[f] # None \/ \E u \in replaced : name[u] = f

\* The copy of an upload is under its standard key, or was.
Moved(u) == objects[name[u]] = u \/ u \in replaced

\* Under an uploader's key is its own content, under a standard key that of a
\* complete archive of this name, and no complete archive has got lost.
BucketSafe ==
    /\ \A u \in Upload : objects[u] \in {None, u}
    /\ \A u \in Upload : objects[u] # None => scan[u] \in {"clean", "incomplete"}
    /\ \A f \in FileName :
          objects[f] # None => scan[objects[f]] = "clean" /\ name[objects[f]] = f
    /\ \A u \in Upload : scan[u] = "clean" => objects[u] = u \/ Moved(u)

\* A worker moves and shows only complete archives, deletes the source only
\* when there is a copy, and holds a standard key only of a file moved there.
WorkerSafe(w) ==
    /\ pc[w] \in UploadStep \ {"show"} => key[w] = job[w]
    /\ pc[w] = "save" /\ good[w] => scan[job[w]] = "clean"
    /\ pc[w] \in {"copy", "remove", "rekey", "show"} => scan[job[w]] = "clean"
    /\ pc[w] = "remove" => Moved(job[w])
    /\ pc[w] \in {"remove", "rekey"} => Lives(name[job[w]])
    /\ pc[w] = "show" => \/ key[w] = job[w]
                         \/ key[w] \in FileName /\ Lives(key[w])
    /\ pc[w] \in {"fetch", "unlink"} /\ key[w] \in Upload => scan[key[w]] = "clean"
    /\ pc[w] = "cache" => scan[bytes[w]] = "clean"

ProjectSafe ==
    /\ fileKey \in Upload => scan[fileKey] = "clean"
    /\ fileKey \in FileName => Lives(fileKey)
    /\ base64 # None => scan[base64] = "clean"

FileInv == TypeOK /\ BucketSafe /\ (\A w \in Worker : WorkerSafe(w)) /\ ProjectSafe


\* What other workers rely on is never taken back.
Grows ==
    /\ name' = name
    /\ \A u \in Upload : scan[u] = "clean" => scan'[u] = "clean"
    /\ \A f \in FileName : Lives(f) => Lives(f)'
    /\ \A u \in Upload : Moved(u) => Moved(u)'

LEMMA WorkerFrame ==
    ASSUME TypeOK, Grows, NEW v \in Worker, WorkerSafe(v),
           pc'[v] = pc[v], job'[v] = job[v], key'[v] = key[v],
           good'[v] = good[v], bytes'[v] = bytes[v]
    PROVE  WorkerSafe(v)'
<1>1. /\ pc[v] \in UploadStep => job[v] \in Upload
      /\ pc[v] = "cache" => bytes[v] \in Upload
  BY TypeParts, Busy DEF UploadStep
<1>2. pc[v] \in UploadStep => name'[job[v]] = name[job[v]] /\ name[job[v]] \in FileName
  BY <1>1 DEF Grows, TypeOK
<1>3. /\ pc'[v] \in UploadStep \ {"show"} => key'[v] = job'[v]
      /\ pc'[v] = "save" /\ good'[v] => scan'[job'[v]] = "clean"
      /\ pc'[v] \in {"copy", "remove", "rekey", "show"} => scan'[job'[v]] = "clean"
  BY <1>1 DEF WorkerSafe, Grows, UploadStep
<1>4. /\ pc'[v] = "remove" => Moved(job[v])'
      /\ pc'[v] \in {"remove", "rekey"} => Lives(name[job[v]])'
  <2>1. pc[v] = "remove" => job[v] \in Upload /\ Moved(job[v])
    BY <1>1 DEF WorkerSafe, UploadStep
  <2>2. pc[v] \in {"remove", "rekey"} => name[job[v]] \in FileName /\ Lives(name[job[v]])
    BY <1>2 DEF WorkerSafe, UploadStep
  <2>3. pc[v] = "remove" => Moved(job[v])'
    BY <2>1 DEF Grows
  <2>4. CASE pc[v] \in {"remove", "rekey"}
    <3>1. PICK f \in FileName : f = name[job[v]] /\ Lives(f)
      BY <2>2, <2>4
    <3>2. Lives(f)'
      BY <3>1 DEF Grows
    <3>3. (name[job[v]])' = f
      BY <1>2, <2>4, <3>1 DEF UploadStep
    <3> QED BY <2>3, <2>4, <3>2, <3>3 DEF Moved, Lives
  <2>5. CASE pc[v] \notin {"remove", "rekey"}
    BY <2>5
  <2> QED BY <2>4, <2>5
<1>5. pc'[v] = "show" => \/ key'[v] = job'[v]
                         \/ key'[v] \in FileName /\ Lives(key[v])'
  <2>1. CASE pc[v] = "show" /\ key[v] # job[v]
    <3>1. PICK f \in FileName : f = key[v] /\ Lives(f)
      BY <2>1 DEF WorkerSafe
    <3>2. Lives(f)'
      BY <3>1 DEF Grows
    <3> QED BY <3>1, <3>2 DEF Lives
  <2>2. CASE ~(pc[v] = "show" /\ key[v] # job[v])
    BY <2>2
  <2> QED BY <2>1, <2>2
<1>6. /\ pc'[v] \in {"fetch", "unlink"} /\ key'[v] \in Upload => scan'[key'[v]] = "clean"
      /\ pc'[v] = "cache" => scan'[bytes'[v]] = "clean"
  BY <1>1 DEF WorkerSafe, Grows
<1> QED BY <1>3, <1>4, <1>5, <1>6 DEF WorkerSafe

LEMMA ProjectFrame ==
    ASSUME TypeOK, Grows, ProjectSafe, UNCHANGED projectVars
    PROVE  ProjectSafe'
BY DEF TypeOK, Grows, ProjectSafe, projectVars, Lives

LEMMA StoreFrame ==
    ASSUME BucketSafe, UNCHANGED <<name, scan, objects, replaced>>
    PROVE  BucketSafe' /\ Grows
BY DEF BucketSafe, Grows, Lives, Moved

OnlyWorker(w) ==
    \A v \in Worker \ {w} :
       /\ pc'[v] = pc[v] /\ job'[v] = job[v] /\ key'[v] = key[v]
       /\ good'[v] = good[v] /\ bytes'[v] = bytes[v]

\* A step of a worker preserves the invariant if it keeps the bucket, the
\* project and the worker safe and takes nothing back.
LEMMA Combine ==
    ASSUME FileInv, TypeOK', Grows, BucketSafe', ProjectSafe',
           NEW w \in Worker, OnlyWorker(w), WorkerSafe(w)'
    PROVE  FileInv'
<1>1. \A v \in Worker : WorkerSafe(v)'
  <2> SUFFICES ASSUME NEW v \in Worker PROVE WorkerSafe(v)'
    OBVIOUS
  <2>1. CASE v = w
    BY <2>1
  <2>2. CASE v # w
    BY <2>2, WorkerFrame DEF FileInv, OnlyWorker
  <2> QED BY <2>1, <2>2
<1> QED BY <1>1 DEF FileInv

LEMMA EndOnly ==
    ASSUME TypeOK, NEW w \in Worker, End(w)
    PROVE  OnlyWorker(w) /\ WorkerSafe(w)'
<1>1. pc'[w] = "idle" /\ OnlyWorker(w)
  BY DEF TypeOK, End, OnlyWorker
<1> QED BY <1>1 DEF WorkerSafe, UploadStep

LEMMA GotoOnly ==
    ASSUME TypeOK, NEW w \in Worker, NEW step, Goto(w, step)
    PROVE  /\ OnlyWorker(w)
           /\ pc'[w] = step /\ job'[w] = job[w] /\ key'[w] = key[w]
           /\ good'[w] = good[w] /\ bytes'[w] = bytes[w]
BY DEF TypeOK, Goto, OnlyWorker

LEMMA TakeOnly ==
    ASSUME TypeOK, NEW w \in Worker, NEW step, NEW u, NEW k, Take(w, step, u, k)
    PROVE  OnlyWorker(w) /\ pc'[w] = step /\ job'[w] = u /\ key'[w] = k
BY DEF TypeOK, Take, OnlyWorker

----------------------------------------------------------------------------
(* The steps that change the bucket                                        *)

LEMMA ScanEndsSafe ==
    ASSUME FileInv, TypeOK', NEW u \in Upload, NEW verdict \in Scanned,
           ScanEnds(u, verdict)
    PROVE  FileInv'
<1>1. /\ scan[u] = "scanning" /\ scan' = [scan EXCEPT ![u] = verdict]
      /\ name' = name /\ replaced' = replaced
      /\ \A f \in FileName : objects'[f] = objects[f]
      /\ \A x \in Upload : x # u => objects'[x] = objects[x]
      /\ objects'[u] = IF verdict = "rejected" THEN objects[u] ELSE u
      /\ \A x \in Upload : x # u => scan'[x] = scan[x]
      /\ scan'[u] = verdict
  BY SomeNames DEF ScanEnds, FileInv, TypeOK
<1>2. objects[u] = None
  BY <1>1 DEF FileInv, BucketSafe
<1>3. \A x \in Upload : scan[x] = "clean" => x # u /\ scan'[x] = "clean"
  BY <1>1
<1>4. \A x \in Upload : name[x] \in FileName
  BY DEF FileInv, TypeOK
<1>5. Grows
  BY <1>1, <1>3, <1>4 DEF Grows, Lives, Moved
<1>6. BucketSafe'
  <2>1. \A x \in Upload : objects'[x] \in {None, x}
    BY <1>1, <1>2 DEF FileInv, BucketSafe
  <2>2. \A x \in Upload : objects'[x] # None => scan'[x] \in {"clean", "incomplete"}
    BY <1>1, <1>2 DEF FileInv, BucketSafe, Scanned
  <2>3. \A f \in FileName :
           objects'[f] # None => scan'[objects'[f]] = "clean" /\ name'[objects'[f]] = f
    BY <1>1, <1>3, SomeNames DEF FileInv, BucketSafe, TypeOK
  <2>4. \A x \in Upload : scan'[x] = "clean" => objects'[x] = x \/ Moved(x)'
    <3> SUFFICES ASSUME NEW x \in Upload, scan'[x] = "clean"
                 PROVE  objects'[x] = x \/ Moved(x)'
      OBVIOUS
    <3>1. CASE x = u
      BY <1>1, <3>1
    <3>2. CASE x # u
      BY <1>1, <1>5, <3>2 DEF FileInv, BucketSafe, Grows
    <3> QED BY <3>1, <3>2
  <2> QED BY <2>1, <2>2, <2>3, <2>4 DEF BucketSafe
<1>7. ProjectSafe'
  BY <1>5, ProjectFrame DEF ScanEnds, FileInv
<1>8. \A v \in Worker : WorkerSafe(v)'
  BY <1>5, WorkerFrame DEF ScanEnds, workerVars, FileInv
<1> QED BY <1>6, <1>7, <1>8 DEF FileInv


LEMMA ValidateSafe ==
    ASSUME FileInv, TypeOK', NEW w \in Worker, Validate(w)
    PROVE  FileInv'
<1>1. job[w] \in Upload /\ key[w] = job[w]
  BY TypeParts, Busy DEF Validate, FileInv, WorkerSafe, UploadStep
<1>2. /\ UNCHANGED <<name, scan, replaced, projectVars>>
      /\ \A k \in Key : k # job[w] => objects'[k] = objects[k]
      /\ \/ objects'[job[w]] = objects[job[w]]
         \/ objects'[job[w]] = None /\ scan[job[w]] # "clean"
  BY <1>1, SomeNames DEF Validate, FileInv, TypeOK
<1>3. \A x \in Upload : x \in Key /\ name[x] \in Key /\ name[x] # job[w]
  BY <1>1, SomeNames DEF FileInv, TypeOK
<1>4. Grows
  BY <1>1, <1>2, <1>3, SomeNames DEF Grows, Lives, Moved
<1>5. BucketSafe'
  BY <1>1, <1>2, <1>3, SomeNames DEF FileInv, BucketSafe, Moved
<1>6. ProjectSafe'
  BY <1>2, <1>4, ProjectFrame DEF FileInv
<1>7. OnlyWorker(w)
  BY DEF Validate, OnlyWorker, FileInv, TypeOK
<1>8. /\ pc'[w] = "save" /\ key'[w] = job'[w] /\ job'[w] = job[w]
      /\ good'[w] => scan'[job[w]] = "clean"
  BY <1>1, <1>2 DEF Validate, FileInv, TypeOK
<1>9. WorkerSafe(w)'
  BY <1>8 DEF WorkerSafe
<1> QED BY <1>4, <1>5, <1>6, <1>7, <1>9, Combine

LEMMA CopySafe ==
    ASSUME FileInv, TypeOK', NEW w \in Worker, CopyObject(w)
    PROVE  FileInv'
<1> DEFINE j == job[w]
           f == name[job[w]]
<1>1. /\ j \in Upload /\ f \in FileName /\ key[w] = j /\ scan[j] = "clean"
      /\ objects[j] = j
  BY TypeParts, Busy DEF CopyObject, FileInv, BucketSafe, WorkerSafe, UploadStep, TypeOK
<1>2. /\ UNCHANGED <<name, scan, projectVars>>
      /\ \A k \in Key : k # f => objects'[k] = objects[k]
      /\ objects'[f] = j
      /\ replaced' = replaced \cup ({objects[f]} \ {j, None})
  BY <1>1, SomeNames DEF CopyObject, FileInv, TypeOK
<1>3. \A x \in Upload : x \in Key /\ x # f /\ name[x] \in FileName /\ name[x] \in Key
  BY <1>1, SomeNames DEF FileInv, TypeOK
<1>4. j # None
  BY <1>1, SomeNames
<1> HIDE DEF j, f
<1>5. \A x \in Upload : Moved(x) => Moved(x)'
  BY <1>2, <1>3, <1>4, SomeNames DEF Moved
<1>6. \A g \in FileName : Lives(g) => Lives(g)'
  BY <1>2, <1>4, SomeNames DEF Lives
<1>7. Grows
  BY <1>2, <1>5, <1>6 DEF Grows
<1>8. BucketSafe'
  <2>1. \A x \in Upload : /\ objects'[x] \in {None, x}
                          /\ objects'[x] # None => scan'[x] \in {"clean", "incomplete"}
    BY <1>2, <1>3 DEF FileInv, BucketSafe
  <2>2. \A g \in FileName :
           objects'[g] # None => scan'[objects'[g]] = "clean" /\ name'[objects'[g]] = g
    <3>1. name[j] = f
      BY <1>1 DEF j, f
    <3> QED BY <1>1, <1>2, <3>1, SomeNames DEF FileInv, BucketSafe
  <2>3. \A x \in Upload : scan'[x] = "clean" => objects'[x] = x \/ Moved(x)'
    BY <1>2, <1>3, <1>5 DEF FileInv, BucketSafe
  <2> QED BY <2>1, <2>2, <2>3 DEF BucketSafe
<1>9. ProjectSafe'
  BY <1>2, <1>7, ProjectFrame DEF FileInv
<1>10. OnlyWorker(w) /\ WorkerSafe(w)'
  <2>1. /\ OnlyWorker(w)
        /\ pc'[w] = "remove" /\ job'[w] = j /\ key'[w] = j
    BY <1>1, GotoOnly DEF CopyObject, FileInv, j
  <2>2. scan'[j] = "clean" /\ name'[j] = f /\ objects'[f] # None /\ objects'[name'[j]] = j
    BY <1>1, <1>2, <1>4 DEF j, f
  <2> QED BY <2>1, <2>2 DEF WorkerSafe, Moved, Lives
<1> QED BY <1>7, <1>8, <1>9, <1>10, Combine

LEMMA RemoveSafe ==
    ASSUME FileInv, TypeOK', NEW w \in Worker, RemoveSource(w)
    PROVE  FileInv'
<1> DEFINE j == job[w]
<1>1. /\ j \in Upload /\ key[w] = j /\ scan[j] = "clean"
      /\ Moved(j) /\ Lives(name[j])
  BY TypeParts, Busy DEF RemoveSource, FileInv, WorkerSafe, UploadStep
<1>2. /\ UNCHANGED <<name, scan, replaced, projectVars>>
      /\ \A k \in Key : k # j => objects'[k] = objects[k]
      /\ objects'[j] = None
  BY <1>1, SomeNames DEF RemoveSource, FileInv, TypeOK
<1>3. \A x \in Upload : x \in Key /\ name[x] # j /\ name[x] \in FileName /\ name[x] \in Key
  BY <1>1, SomeNames DEF FileInv, TypeOK
<1> HIDE DEF j
<1>4. \A x \in Upload : Moved(x) <=> Moved(x)'
  BY <1>2, <1>3 DEF Moved
<1>5. \A g \in FileName : g \in Key /\ g # j /\ (Lives(g) <=> Lives(g)')
  BY <1>1, <1>2, SomeNames DEF Lives
<1>6. Grows
  BY <1>2, <1>4, <1>5 DEF Grows
<1>7. BucketSafe'
  <2>1. \A x \in Upload : /\ objects'[x] \in {None, x}
                          /\ objects'[x] # None => scan'[x] \in {"clean", "incomplete"}
    BY <1>2, <1>3 DEF FileInv, BucketSafe
  <2>2. \A g \in FileName :
           objects'[g] # None => scan'[objects'[g]] = "clean" /\ name'[objects'[g]] = g
    BY <1>2, <1>5 DEF FileInv, BucketSafe
  <2>3. \A x \in Upload : scan'[x] = "clean" => objects'[x] = x \/ Moved(x)'
    BY <1>1, <1>2, <1>3, <1>4 DEF FileInv, BucketSafe
  <2> QED BY <2>1, <2>2, <2>3 DEF BucketSafe
<1>8. ProjectSafe'
  BY <1>2, <1>6, ProjectFrame DEF FileInv
<1>9. /\ OnlyWorker(w)
      /\ pc'[w] = "rekey" /\ job'[w] = j /\ key'[w] = j
  BY <1>1, GotoOnly DEF RemoveSource, FileInv, j
<1>10. WorkerSafe(w)'
  <2>1. PICK g \in FileName : g = name[j] /\ Lives(g)
    BY <1>1, <1>3
  <2>2. scan'[j] = "clean" /\ Lives(g)' /\ name'[j] = g
    BY <1>1, <1>2, <1>5, <2>1
  <2> QED BY <1>9, <2>2 DEF WorkerSafe, Lives
<1> QED BY <1>6, <1>7, <1>8, <1>9, <1>10, Combine

LEMMA UnlinkSafe ==
    ASSUME FileInv, TypeOK', NEW w \in Worker, Unlink(w)
    PROVE  FileInv'
<1> DEFINE k == key[w]
<1>1. k \in Key /\ pc[w] = "unlink"
  BY TypeParts, Busy DEF Unlink, FileInv
<1>2. /\ UNCHANGED <<name, scan, projectVars>>
      /\ \A x \in Key : x # k => objects'[x] = objects[x]
      /\ objects'[k] = None
      /\ replaced' = replaced \cup ({objects[k]} \ {None})
  BY <1>1 DEF Unlink, FileInv, TypeOK
<1>3. \A x \in Upload : x \in Key /\ name[x] \in FileName /\ name[x] \in Key
  BY SomeNames DEF FileInv, TypeOK
<1> HIDE DEF k
<1>4. \A x \in Upload : Moved(x) => Moved(x)'
  BY <1>1, <1>2, <1>3, SomeNames DEF Moved
<1>5. \A g \in FileName : Lives(g) => Lives(g)'
  <2> SUFFICES ASSUME NEW g \in FileName, Lives(g) PROVE Lives(g)'
    OBVIOUS
  <2>1. CASE g = k /\ objects[g] # None
    <3>1. name[objects[g]] = g
      BY <2>1 DEF FileInv, BucketSafe
    <3>2. objects[g] \in replaced' /\ name'[objects[g]] = g
      BY <1>2, <2>1, <3>1
    <3> QED BY <3>2 DEF Lives
  <2>2. CASE ~(g = k /\ objects[g] # None)
    BY <1>2, <2>2, SomeNames DEF Lives
  <2> QED BY <2>1, <2>2
<1>6. Grows
  BY <1>2, <1>4, <1>5 DEF Grows
<1>7. BucketSafe'
  <2>1. \A x \in Upload : /\ objects'[x] \in {None, x}
                          /\ objects'[x] # None => scan'[x] \in {"clean", "incomplete"}
    BY <1>2, <1>3 DEF FileInv, BucketSafe
  <2>2. \A g \in FileName :
           objects'[g] # None => scan'[objects'[g]] = "clean" /\ name'[objects'[g]] = g
    BY <1>2, SomeNames DEF FileInv, BucketSafe
  <2>3. \A x \in Upload : scan'[x] = "clean" => objects'[x] = x \/ Moved(x)'
    <3> SUFFICES ASSUME NEW x \in Upload, scan'[x] = "clean"
                 PROVE  objects'[x] = x \/ Moved(x)'
      OBVIOUS
    <3>1. CASE Moved(x)
      BY <1>4, <3>1
    <3>2. CASE ~Moved(x)
      <4>1. objects[x] = x /\ x # None
        BY <1>2, <3>2, SomeNames DEF FileInv, BucketSafe
      <4> QED BY <1>2, <1>3, <4>1 DEF Moved
    <3> QED BY <3>1, <3>2
  <2> QED BY <2>1, <2>2, <2>3 DEF BucketSafe
<1>8. ProjectSafe'
  BY <1>2, <1>6, ProjectFrame DEF FileInv
<1>9. OnlyWorker(w) /\ pc'[w] = "clear"
  BY GotoOnly DEF Unlink, FileInv
<1>10. WorkerSafe(w)'
  BY <1>9 DEF WorkerSafe, UploadStep
<1> QED BY <1>6, <1>7, <1>8, <1>9, <1>10, Combine


----------------------------------------------------------------------------
(* The steps that leave the bucket as it is                                *)

LEMMA RekeySafe ==
    ASSUME FileInv, TypeOK', NEW w \in Worker, Rekey(w)
    PROVE  FileInv'
<1>1. /\ job[w] \in Upload /\ name[job[w]] \in FileName
      /\ scan[job[w]] = "clean" /\ Lives(name[job[w]])
  BY TypeParts, Busy DEF Rekey, FileInv, WorkerSafe, UploadStep, TypeOK
<1>2. UNCHANGED <<name, scan, objects, replaced, projectVars>>
  BY DEF Rekey
<1>3. BucketSafe' /\ Grows /\ ProjectSafe'
  BY <1>2, StoreFrame, ProjectFrame DEF FileInv
<1>4. /\ OnlyWorker(w)
      /\ pc'[w] = "show" /\ job'[w] = job[w] /\ key'[w] = name[job[w]]
  BY DEF Rekey, OnlyWorker, FileInv, TypeOK
<1>5. PICK g \in FileName : g = name[job[w]] /\ Lives(g)
  BY <1>1
<1>6. Lives(g)' /\ scan'[job[w]] = "clean"
  BY <1>1, <1>3, <1>5 DEF Grows
<1>7. WorkerSafe(w)'
  BY <1>4, <1>5, <1>6 DEF WorkerSafe, UploadStep, Lives
<1> QED BY <1>3, <1>4, <1>7, Combine

LEMMA RelocationFailsSafe ==
    ASSUME FileInv, TypeOK', NEW w \in Worker, RelocationFails(w)
    PROVE  FileInv'
<1>1. /\ pc[w] \in {"copy", "remove", "rekey"}
      /\ key[w] = job[w] /\ scan[job[w]] = "clean"
  BY DEF RelocationFails, FileInv, WorkerSafe, UploadStep
<1>2. UNCHANGED <<name, scan, objects, replaced, projectVars>>
  BY DEF RelocationFails
<1>3. BucketSafe' /\ Grows /\ ProjectSafe'
  BY <1>2, StoreFrame, ProjectFrame DEF FileInv
<1>4. OnlyWorker(w) /\ pc'[w] = "show" /\ job'[w] = job[w] /\ key'[w] = key[w]
  BY GotoOnly DEF RelocationFails, FileInv
<1>5. WorkerSafe(w)'
  BY <1>1, <1>2, <1>4 DEF WorkerSafe
<1> QED BY <1>3, <1>4, <1>5, Combine

LEMMA SaveSafe ==
    ASSUME FileInv, TypeOK', NEW w \in Worker, Save(w)
    PROVE  FileInv'
<1>1. UNCHANGED <<name, scan, objects, replaced, projectVars>>
  BY DEF Save
<1>2. BucketSafe' /\ Grows /\ ProjectSafe'
  BY <1>1, StoreFrame, ProjectFrame DEF FileInv
<1>3. CASE good[w]
  <2>1. key[w] = job[w] /\ scan[job[w]] = "clean"
    BY <1>3 DEF Save, FileInv, WorkerSafe, UploadStep
  <2>2. OnlyWorker(w) /\ pc'[w] = "copy" /\ job'[w] = job[w] /\ key'[w] = key[w]
    BY <1>3, GotoOnly DEF Save, FileInv
  <2>3. WorkerSafe(w)'
    BY <1>1, <2>1, <2>2 DEF WorkerSafe
  <2> QED BY <1>2, <2>2, <2>3, Combine
<1>4. CASE ~good[w]
  BY <1>2, <1>4, EndOnly, Combine DEF Save, FileInv
<1> QED BY <1>3, <1>4

LEMMA ShowSafe ==
    ASSUME FileInv, TypeOK', NEW w \in Worker, Show(w)
    PROVE  FileInv'
<1>1. /\ job[w] \in Upload /\ scan[job[w]] = "clean"
      /\ \/ key[w] = job[w]
         \/ key[w] \in FileName /\ Lives(key[w])
  BY TypeParts, Busy DEF Show, FileInv, WorkerSafe, UploadStep
<1>2. BucketSafe' /\ Grows
  BY StoreFrame DEF Show, FileInv
<1>3. OnlyWorker(w) /\ pc'[w] = "fetch" /\ key'[w] = key[w]
  BY GotoOnly DEF Show, FileInv
<1>4. key[w] \in Upload => scan'[key[w]] = "clean"
  BY <1>1, SomeNames DEF Show
<1>5. WorkerSafe(w)'
  BY <1>3, <1>4 DEF WorkerSafe, UploadStep
<1>6. ProjectSafe'
  <2>1. fileKey' = key[w] /\ base64' = None
    BY DEF Show
  <2>2. fileKey' \in FileName => Lives(fileKey)'
    <3> SUFFICES ASSUME fileKey' \in FileName PROVE Lives(fileKey)'
      OBVIOUS
    <3>1. PICK g \in FileName : g = key[w] /\ Lives(g)
      BY <1>1, <2>1, SomeNames
    <3>2. Lives(g)'
      BY <1>2, <3>1 DEF Grows
    <3> QED BY <2>1, <3>1, <3>2 DEF Lives
  <2> QED BY <1>4, <2>1, <2>2 DEF ProjectSafe
<1> QED BY <1>2, <1>3, <1>5, <1>6, Combine

LEMMA FetchSafe ==
    ASSUME FileInv, TypeOK', NEW w \in Worker, Fetch(w)
    PROVE  FileInv'
<1>1. UNCHANGED <<name, scan, objects, replaced, projectVars>>
  BY DEF Fetch
<1>2. BucketSafe' /\ Grows /\ ProjectSafe'
  BY <1>1, StoreFrame, ProjectFrame DEF FileInv
<1>3. CASE objects[key[w]] = None
  BY <1>2, <1>3, EndOnly, Combine DEF Fetch, FileInv
<1>4. CASE objects[key[w]] # None
  <2>1. key[w] \in Key
    BY TypeParts, Busy DEF Fetch, FileInv
  <2>2. scan[objects[key[w]]] = "clean"
    <3>1. CASE key[w] \in FileName
      BY <1>4, <3>1 DEF FileInv, BucketSafe
    <3>2. CASE key[w] \in Upload
      <4>1. objects[key[w]] = key[w]
        BY <1>4, <3>2 DEF FileInv, BucketSafe
      <4> QED BY <3>2, <4>1 DEF Fetch, FileInv, WorkerSafe
    <3> QED BY <2>1, <3>1, <3>2 DEF Key
  <2>3. OnlyWorker(w) /\ pc'[w] = "cache" /\ bytes'[w] = objects[key[w]]
    BY <1>4 DEF Fetch, OnlyWorker, FileInv, TypeOK
  <2>4. WorkerSafe(w)'
    BY <1>1, <2>2, <2>3 DEF WorkerSafe, UploadStep
  <2> QED BY <1>2, <2>3, <2>4, Combine
<1> QED BY <1>3, <1>4

LEMMA CacheSafe ==
    ASSUME FileInv, TypeOK', NEW w \in Worker, Cache(w)
    PROVE  FileInv'
<1>1. scan[bytes[w]] = "clean"
  BY DEF Cache, FileInv, WorkerSafe
<1>2. BucketSafe' /\ Grows
  BY StoreFrame DEF Cache, FileInv
<1>3. ProjectSafe'
  BY <1>1 DEF Cache, FileInv, ProjectSafe, Lives
<1> QED BY <1>2, <1>3, EndOnly, Combine DEF Cache, FileInv

LEMMA ClearSafe ==
    ASSUME FileInv, TypeOK', NEW w \in Worker, Clear(w)
    PROVE  FileInv'
<1>1. BucketSafe' /\ Grows
  BY StoreFrame DEF Clear, FileInv
<1>2. ProjectSafe'
  BY SomeNames, FileAssumption DEF Clear, FileInv, ProjectSafe
<1> QED BY <1>1, <1>2, EndOnly, Combine DEF Clear, FileInv

\* A request ends, or begins with the project's key or with an upload.
LEMMA EdgeSafe ==
    ASSUME FileInv, TypeOK', NEW w \in Worker,
           SaveNothing(w) \/ GiveUp(w) \/ BeginWarm(w) \/ BeginDelete(w)
             \/ \E u \in Upload : Begin(w, u)
    PROVE  FileInv'
<1>1. UNCHANGED <<name, scan, objects, replaced, projectVars>>
  BY DEF SaveNothing, GiveUp, BeginWarm, BeginDelete, Begin
<1>2. BucketSafe' /\ Grows /\ ProjectSafe'
  BY <1>1, StoreFrame, ProjectFrame DEF FileInv
<1>3. CASE SaveNothing(w) \/ GiveUp(w)
  <2>1. End(w)
    BY <1>3 DEF SaveNothing, GiveUp
  <2> QED BY <1>2, <2>1, EndOnly, Combine DEF FileInv
<1>4. CASE BeginWarm(w) \/ BeginDelete(w)
  <2>1. PICK step \in {"fetch", "unlink"} : Take(w, step, None, fileKey)
    BY <1>4 DEF BeginWarm, BeginDelete
  <2>2. OnlyWorker(w) /\ pc'[w] = step /\ key'[w] = fileKey
    BY <2>1, TakeOnly DEF FileInv
  <2>3. WorkerSafe(w)'
    BY <1>1, <2>2 DEF WorkerSafe, FileInv, ProjectSafe, UploadStep
  <2> QED BY <1>2, <2>2, <2>3, Combine
<1>5. CASE \E u \in Upload : Begin(w, u)
  <2>1. PICK u \in Upload : Begin(w, u)
    BY <1>5
  <2>2. OnlyWorker(w) /\ pc'[w] = "validate" /\ job'[w] = u /\ key'[w] = u
    BY <2>1, TakeOnly DEF Begin, FileInv
  <2>3. WorkerSafe(w)'
    BY <2>2 DEF WorkerSafe, UploadStep
  <2> QED BY <1>2, <2>2, <2>3, Combine
<1> QED BY <1>3, <1>4, <1>5

LEMMA ProceedSafe ==
    ASSUME FileInv, TypeOK', NEW w \in Worker, Proceed(w)
    PROVE  FileInv'
BY ValidateSafe, SaveSafe, EdgeSafe, CopySafe, RemoveSafe, RekeySafe,
   RelocationFailsSafe, ShowSafe, FetchSafe, CacheSafe, UnlinkSafe, ClearSafe
   DEF Proceed, Relocate

LEMMA InitiateSafe ==
    ASSUME FileInv, TypeOK', NEW u \in Upload, Initiate(u)
    PROVE  FileInv'
<1>1. /\ UNCHANGED <<name, objects, replaced, projectVars, workerVars>>
      /\ scan[u] = "none" /\ objects[u] = None /\ scan'[u] = "scanning"
      /\ \A x \in Upload : x # u => scan'[x] = scan[x]
  BY DEF Initiate, FileInv, BucketSafe, TypeOK
<1>2. Grows
  BY <1>1 DEF Grows, Lives, Moved
<1>3. BucketSafe'
  <2>1. \A x \in Upload : /\ objects'[x] \in {None, x}
                          /\ objects'[x] # None => scan'[x] \in {"clean", "incomplete"}
                          /\ scan'[x] = "clean" => objects'[x] = x \/ Moved(x)'
    BY <1>1, <1>2 DEF FileInv, BucketSafe, Grows
  <2>2. \A f \in FileName :
           objects'[f] # None => scan'[objects'[f]] = "clean" /\ name'[objects'[f]] = f
    BY <1>1, SomeNames DEF FileInv, BucketSafe, TypeOK
  <2> QED BY <2>1, <2>2 DEF BucketSafe
<1>4. ProjectSafe' /\ \A v \in Worker : WorkerSafe(v)'
  BY <1>1, <1>2, ProjectFrame, WorkerFrame DEF FileInv, workerVars
<1> QED BY <1>3, <1>4 DEF FileInv

LEMMA FileInvStep == FileInv /\ [Next]_vars => FileInv'
<1> SUFFICES ASSUME FileInv, [Next]_vars PROVE FileInv'
  OBVIOUS
<1>0. TypeOK'
  BY OthersTyped, ProceedTyped DEF FileInv
<1>1. CASE \E u \in Upload : Initiate(u)
  BY <1>0, <1>1, InitiateSafe
<1>2. CASE \E u \in Upload, verdict \in Scanned : ScanEnds(u, verdict)
  BY <1>0, <1>2, ScanEndsSafe
<1>3. CASE \E w \in Worker : Proceed(w)
  BY <1>0, <1>3, ProceedSafe
<1>4. CASE \E w \in Worker : GiveUp(w) \/ BeginWarm(w) \/ BeginDelete(w)
                               \/ \E u \in Upload : Begin(w, u)
  BY <1>0, <1>4, EdgeSafe
<1>5. CASE CleanUp \/ UNCHANGED vars \/ \E u \in Upload : CreateRow(u)
  <2>1. UNCHANGED <<name, scan, objects, replaced, projectVars, workerVars>>
    BY <1>5 DEF CleanUp, vars, CreateRow
  <2>2. BucketSafe' /\ Grows /\ ProjectSafe'
    BY <2>1, StoreFrame, ProjectFrame DEF FileInv
  <2>3. \A v \in Worker : WorkerSafe(v)'
    BY <2>1, <2>2, WorkerFrame DEF workerVars, FileInv
  <2> QED BY <1>0, <2>2, <2>3 DEF FileInv
<1> QED BY <1>1, <1>2, <1>3, <1>4, <1>5 DEF Next

LEMMA FileInvInit == Init => FileInv
<1> SUFFICES ASSUME Init PROVE FileInv
  OBVIOUS
<1>1. TypeOK
  BY InitTyped
<1>2. BucketSafe
  BY SomeNames DEF Init, BucketSafe
<1>3. ProjectSafe
  BY FileAssumption, SomeNames DEF Init, ProjectSafe
<1>4. \A w \in Worker : WorkerSafe(w)
  BY DEF Init, WorkerSafe, UploadStep
<1> QED BY <1>1, <1>2, <1>3, <1>4 DEF FileInv

LEMMA FileInvHolds == Spec => []FileInv
BY FileInvInit, FileInvStep, PTL DEF Spec

----------------------------------------------------------------------------
(* What it implies                                                         *)

\* However requests overlap, fail and stop, the content of an upload that the
\* uploader passed as a complete archive stays in the bucket until users delete
\* it or another takes its place.
THEOREM AcceptedFileNeverLost == Spec => []AcceptedFileIsKept
<1>1. FileInv => AcceptedFileIsKept
  BY SomeNames DEF FileInv, BucketSafe, Moved, AcceptedFileIsKept, Stored, TypeOK
<1> QED BY <1>1, FileInvHolds, PTL

\* The project's key and its cached content are of complete archives only.
THEOREM ShownFilesChecked == Spec => []OnlyCheckedFilesShown
<1>1. FileInv => OnlyCheckedFilesShown
  <2> SUFFICES ASSUME FileInv PROVE OnlyCheckedFilesShown
    OBVIOUS
  <2>1. ASSUME fileKey # None, objects[fileKey] # None
        PROVE  scan[objects[fileKey]] = "clean"
    <3>1. CASE fileKey \in FileName
      BY <2>1, <3>1 DEF FileInv, BucketSafe
    <3>2. CASE fileKey \in Upload
      BY <2>1, <3>2 DEF FileInv, BucketSafe, ProjectSafe
    <3> QED BY <2>1, <3>1, <3>2 DEF FileInv, TypeOK, Key
  <2> QED BY <2>1 DEF FileInv, ProjectSafe, OnlyCheckedFilesShown
<1> QED BY <1>1, FileInvHolds, PTL

\* A project that shows a standard key shows a file that is there unless it has
\* been deleted.
THEOREM StandardKeyNotDangling == Spec => []StandardKeyHolds
<1>1. FileInv => StandardKeyHolds
  BY DEF FileInv, ProjectSafe, Lives, StandardKeyHolds
<1> QED BY <1>1, FileInvHolds, PTL

=============================================================================
